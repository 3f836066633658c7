---------------------------- MODULE SimpleBreaker ----------------------------
(***************************************************************************)
(* resources/circuit_breakers_simple.py: the breaker that api.py puts around *)
(* every call of the model (CircuitBreakerSimple), and the registry that     *)
(* hands out breakers by name and trips those that depend on one that opened *)
(* (CircuitBreakerRegistrySimple).  A step is a section under the breaker's  *)
(* or the registry's lock, or a read outside it.                             *)
(***************************************************************************)
EXTENDS Naturals, FiniteSets

CONSTANTS
    Circuits,                \* names of circuits
    Users,                \* callers of circuit_execute, trip_circuit
    failure_threshold,
    half_open_max_tries

ASSUME SimpleBreakerAssumption ==
    failure_threshold \in Nat \ {0} /\ half_open_max_tries \in Nat \ {0}

VARIABLES
    named,      \* _circuit_breakers: the breaker of each name
    children,   \* _dependencies
    breaker,    \* the fields of each breaker
    user,       \* what each caller does, with which breaker
    toTrip,     \* names that the listeners a caller runs have still to trip
    recovered,  \* history: breakers that closed after successful probes
    blamed      \* history: breakers that took a success for a failure

breakerVars == <<named, children, breaker, user, toTrip, recovered, blamed>>

\* A caller makes at most one breaker for a name, which tells it from the others.
Breakers == Circuits \X Users
NoBreaker == <<"none", "none">>
NameOf(b) == b[1]

NewBreaker == [state |-> "CLOSED", failures |-> 0, windowOver |-> FALSE,
               elapsed |-> FALSE, successes |-> 0, active |-> 0]

BreakerInit ==
    /\ named = [n \in Circuits |-> NoBreaker]
    /\ children = [n \in Circuits |-> {}]
    /\ breaker = [b \in Breakers |-> NewBreaker]
    /\ user = [u \in Users |-> [at |-> "idle", of |-> NoBreaker, closed |-> FALSE]]
    /\ toTrip = [u \in Users |-> {}]
    /\ recovered = {} /\ blamed = {}

Of(u) == user[u].of
Its(u) == breaker[Of(u)]
Goes(u, at) == user' = [user EXCEPT ![u].at = at]
Sets(b, fields) == breaker' = [breaker EXCEPT ![b] = fields]

\* A change of state, which stamps last_state_change.
Turned(fields, state) == [fields EXCEPT !.state = state, !.elapsed = FALSE]

\* The names that the registry's listener trips when b opens.
Cascade(b) == IF named[NameOf(b)] = b THEN children[NameOf(b)] ELSE {}

-----------------------------------------------------------------------------
(* Mutants: mistakes the properties must reject.  No run uses them as they *)
(* stand; each is put in the place of the definition it is named after.    *)

\* Mutant: a new half-open period keeps the count of the last one.
ToHalfOpenFields_KeepsActive(fields) ==
    [Turned(fields, "HALF_OPEN") EXCEPT !.successes = 0]

-----------------------------------------------------------------------------
(* get_or_create_circuit_breaker, register_dependency *)

\* A breaker that is not registered yet is made in one section under the lock and
\* registered in another.
GetOrCreate(u, n) ==
    /\ user[u].at = "idle" /\ toTrip[u] = {}
    /\ IF named[n] # NoBreaker
         THEN user' = [user EXCEPT ![u] = [at |-> "check", of |-> named[n], closed |-> FALSE]]
         ELSE user' = [user EXCEPT ![u] = [at |-> "register", of |-> <<n, u>>, closed |-> FALSE]]
    /\ UNCHANGED <<named, children, breaker, toTrip, recovered, blamed>>

\* A name that another caller has registered meanwhile keeps that breaker; the
\* call goes on with its own, which nobody listens to.
RegisterMade(u) ==
    /\ user[u].at = "register"
    /\ named' = IF named[NameOf(Of(u))] = NoBreaker
                  THEN [named EXCEPT ![NameOf(Of(u))] = Of(u)] ELSE named
    /\ Goes(u, "check")
    /\ UNCHANGED <<children, breaker, toTrip, recovered, blamed>>

RegisterChild(child, parent) ==
    /\ named[child] # NoBreaker /\ named[parent] # NoBreaker
    /\ child \notin children[parent]
    /\ children' = [children EXCEPT ![parent] = @ \union {child}]
    /\ UNCHANGED <<named, breaker, user, toTrip, recovered, blamed>>

-----------------------------------------------------------------------------
(* execute *)

\* _check_state_transition: the transition is decided under the lock and done
\* under another hold of it.
CheckTransition(u) ==
    /\ user[u].at = "check"
    /\ Sets(Of(u), [Its(u) EXCEPT !.failures = IF Its(u).windowOver THEN 0 ELSE @])
    /\ Goes(u, IF Its(u).state = "OPEN" /\ Its(u).elapsed THEN "toHalfOpen" ELSE "admit")
    /\ UNCHANGED <<named, children, toTrip, recovered, blamed>>

ToHalfOpenFields(fields) ==
    [Turned(fields, "HALF_OPEN") EXCEPT !.successes = 0, !.active = 0]

\* Whatever the state has become since the decision.
TurnHalfOpen(u) ==
    /\ user[u].at = "toHalfOpen"
    /\ Sets(Of(u), ToHalfOpenFields(Its(u)))
    /\ Goes(u, "admit")
    /\ UNCHANGED <<named, children, toTrip, recovered, blamed>>

Refused(fields) ==
    \/ fields.state = "OPEN"
    \/ fields.state = "HALF_OPEN" /\ fields.active >= half_open_max_tries

AdmitCall(u) ==
    /\ user[u].at = "admit"
    /\ IF Refused(Its(u))
         THEN Goes(u, "idle") /\ UNCHANGED breaker
         ELSE /\ Goes(u, "run")
              /\ Sets(Of(u), IF Its(u).state = "HALF_OPEN"
                               THEN [Its(u) EXCEPT !.active = @ + 1] ELSE Its(u))
    /\ UNCHANGED <<named, children, toTrip, recovered, blamed>>

CountSuccess(fields) ==
    IF fields.state = "HALF_OPEN" THEN [fields EXCEPT !.successes = @ + 1] ELSE fields

\* The operation returned: the success is counted in a half-open breaker, which
\* closes with enough of them.
OperationSucceeds(u) ==
    LET counted == CountSuccess(Its(u))
        closes == counted.state = "HALF_OPEN" /\ counted.successes >= half_open_max_tries
    IN  /\ user[u].at = "run"
        /\ Sets(Of(u), IF closes THEN [Turned(counted, "CLOSED") EXCEPT !.failures = 0]
                                 ELSE counted)
        /\ user' = [user EXCEPT ![u] = [@ EXCEPT !.at = "announce", !.closed = closes]]
        /\ recovered' = IF closes THEN recovered \union {Of(u)} ELSE recovered
        /\ UNCHANGED <<named, children, toTrip, blamed>>

\* A closed breaker with enough successes is announced, also by a call that did
\* not close it: it has no listeners to call (UnboundLocalError), which is handled
\* like a failure of the operation and raised in place of its result.
Announce(u) ==
    LET announces == Its(u).state = "CLOSED" /\ Its(u).successes >= half_open_max_tries
    IN  /\ user[u].at = "announce"
        /\ IF announces /\ ~user[u].closed
             THEN Goes(u, "failed") /\ blamed' = blamed \union {Of(u)}
             ELSE Goes(u, "finally") /\ UNCHANGED blamed
        /\ UNCHANGED <<named, children, breaker, toTrip, recovered>>

OperationFails(u) ==
    /\ user[u].at = "run"
    /\ Goes(u, "failed")
    /\ UNCHANGED <<named, children, breaker, toTrip, recovered, blamed>>

\* A cancellation is no Exception: nothing is counted.
OperationCancelled(u) ==
    /\ user[u].at = "run"
    /\ Goes(u, "finally")
    /\ UNCHANGED <<named, children, breaker, toTrip, recovered, blamed>>

CountFailure(fields) ==
    [fields EXCEPT !.failures = IF @ < failure_threshold THEN @ + 1 ELSE @,
                   !.windowOver = FALSE]

\* _handle_failure; nothing asks by how much failures exceed the threshold.
HandleFailure(u) ==
    LET counted == CountFailure(Its(u))
        opens == \/ counted.state = "HALF_OPEN"
                 \/ counted.state = "CLOSED" /\ counted.failures >= failure_threshold
    IN  /\ user[u].at = "failed"
        /\ Sets(Of(u), IF opens THEN Turned(counted, "OPEN") ELSE counted)
        /\ toTrip' = [toTrip EXCEPT ![u] = IF opens THEN Cascade(Of(u)) ELSE {}]
        /\ Goes(u, "finally")
        /\ UNCHANGED <<named, children, recovered, blamed>>

\* The slot is given back by the state at the end, not by that at admission.
ReleaseSlot(u) ==
    /\ user[u].at = "finally" /\ toTrip[u] = {}
    /\ Sets(Of(u), IF Its(u).state = "HALF_OPEN" /\ Its(u).active > 0
                     THEN [Its(u) EXCEPT !.active = @ - 1] ELSE Its(u))
    /\ Goes(u, "idle")
    /\ UNCHANGED <<named, children, toTrip, recovered, blamed>>

-----------------------------------------------------------------------------
(* trip, reset, _handle_circuit_state_change *)

\* trip() of an open breaker changes nothing and raises.
Trips(u, b, left) ==
    /\ Sets(b, IF breaker[b].state = "OPEN" THEN breaker[b] ELSE Turned(breaker[b], "OPEN"))
    /\ toTrip' = [toTrip EXCEPT ![u] =
                    left \union IF breaker[b].state = "OPEN" THEN {} ELSE Cascade(b)]

TripCircuit(u, n) ==
    /\ user[u].at = "idle" /\ toTrip[u] = {} /\ named[n] # NoBreaker
    /\ Trips(u, named[n], {})
    /\ UNCHANGED <<named, children, user, recovered, blamed>>

\* The listener trips the children of the breaker that opened, one by one; each
\* may have children of its own.
TripChild(u) ==
    \E n \in toTrip[u] :
        /\ Trips(u, named[n], toTrip[u] \ {n})
        /\ UNCHANGED <<named, children, user, recovered, blamed>>

\* The count of successes stays.
ResetCircuit(n) ==
    /\ named[n] # NoBreaker /\ breaker[named[n]].state # "CLOSED"
    /\ Sets(named[n], [Turned(breaker[named[n]], "CLOSED") EXCEPT !.failures = 0])
    /\ UNCHANGED <<named, children, user, toTrip, recovered, blamed>>

\* recovery_timeout, failure_window.
TimeoutElapses(b) ==
    /\ breaker[b].state = "OPEN" /\ ~breaker[b].elapsed
    /\ Sets(b, [breaker[b] EXCEPT !.elapsed = TRUE])
    /\ UNCHANGED <<named, children, user, toTrip, recovered, blamed>>

WindowElapses(b) ==
    /\ breaker[b].failures > 0 /\ ~breaker[b].windowOver
    /\ Sets(b, [breaker[b] EXCEPT !.windowOver = TRUE])
    /\ UNCHANGED <<named, children, user, toTrip, recovered, blamed>>

BreakerNext ==
    \/ \E u \in Users :
        \/ RegisterMade(u) \/ CheckTransition(u) \/ TurnHalfOpen(u) \/ AdmitCall(u)
        \/ OperationSucceeds(u) \/ Announce(u) \/ OperationFails(u) \/ OperationCancelled(u)
        \/ HandleFailure(u) \/ ReleaseSlot(u) \/ TripChild(u)
        \/ \E n \in Circuits : GetOrCreate(u, n) \/ TripCircuit(u, n)
    \/ \E n \in Circuits : ResetCircuit(n) \/ \E m \in Circuits : RegisterChild(n, m)
    \/ \E b \in Breakers : TimeoutElapses(b) \/ WindowElapses(b)

-----------------------------------------------------------------------------
(* Properties *)

BreakerTypeOK ==
    /\ named \in [Circuits -> Breakers \union {NoBreaker}]
    /\ \A n \in Circuits : named[n] # NoBreaker => NameOf(named[n]) = n
    /\ children \in [Circuits -> SUBSET Circuits]
    /\ breaker \in [Breakers -> [state : {"CLOSED", "OPEN", "HALF_OPEN"},
                                 failures : 0..failure_threshold, windowOver : BOOLEAN,
                                 elapsed : BOOLEAN, successes : 0..half_open_max_tries,
                                 active : 0..half_open_max_tries]]
    /\ user \in [Users -> [at : {"idle", "register", "check", "toHalfOpen", "admit", "run",
                                 "announce", "failed", "finally"},
                           of : Breakers \union {NoBreaker}, closed : BOOLEAN]]
    /\ toTrip \in [Users -> SUBSET Circuits]
    /\ \A u \in Users : \A n \in toTrip[u] : named[n] # NoBreaker
    /\ recovered \subseteq Breakers /\ blamed \subseteq Breakers

InCall(b) ==
    {u \in Users : Of(u) = b /\ user[u].at \in {"run", "announce", "failed", "finally"}}

\* A half-open breaker counts no more slots as taken than it has calls at work:
\* however calls, trips and resets interleave, no slot is lost for good and with
\* it the way back to a closed breaker.
SlotsKept ==
    \A b \in Breakers :
        breaker[b].state = "HALF_OPEN" => breaker[b].active <= Cardinality(InCall(b))

\* A closed breaker has counted fewer failures than open it.
ClosedBelowThreshold ==
    \A b \in Breakers :
        breaker[b].state = "CLOSED" => breaker[b].failures < failure_threshold

\* Only a breaker that has recovered before takes a success for a failure.
BlamedOnlyRecovered == blamed \subseteq recovered

\* No success is taken for a failure ("Any: Result of the operation if successful",
\* execute's docstring).  Once a breaker has recovered, every later success is.
SuccessReturned == blamed = {}

\* What the breakers count is what happened: no slot is lost, a closed breaker has
\* room for a failure, and a success is laid to a breaker only after a recovery.
BreakersCountRight == SlotsKept /\ ClosedBelowThreshold /\ BlamedOnlyRecovered
=============================================================================
