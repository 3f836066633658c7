--------------------------- MODULE CircuitBreaker ---------------------------
(***************************************************************************)
(* resources/monitoring/circuit_breakers.py, class CircuitBreaker: one     *)
(* breaker shared by callers in several threads.  The source guards its    *)
(* fields with an RLock but takes it only around short sections, and       *)
(* decides and performs a state transition in different sections.  Every   *)
(* lock section, and every read the source makes outside the lock, is one  *)
(* step here; a caller's pc says which section it enters next.             *)
(***************************************************************************)
EXTENDS Integers, FiniteSets

CONSTANTS
    Callers,             \* the tasks and threads that call execute()
    failure_threshold,   \* config: failures before opening
    half_open_max_tries, \* config: probes admitted, and successes needed, in half-open
    MaxFailures          \* bound: failures counted in one behaviour between two resets

ASSUME CallersAssumption == IsFiniteSet(Callers)
ASSUME ConfigAssumption ==
    /\ failure_threshold \in Nat \ {0}
    /\ half_open_max_tries \in Nat \ {0}
    /\ MaxFailures \in Nat \ {0}

VARIABLES
    state,                 \* self.state
    failure_count,         \* self.failure_count
    half_open_successes,   \* self.half_open_successes
    active_half_open_calls,\* self.active_half_open_calls
    recoveryElapsed,       \* now - last_state_change >= recovery_timeout
    windowElapsed,         \* now - last_failure_time >= failure_window
    pc,                    \* the next section of each caller
    probes,                \* history: calls admitted as probes of this half-open period
    healthy                \* environment: operations have stopped failing for good

vars == <<state, failure_count, half_open_successes, active_half_open_calls,
          recoveryElapsed, windowElapsed, pc, probes, healthy>>

CircuitState == {"CLOSED", "OPEN", "HALF_OPEN"}

\* idle: outside execute.  check, decide, toHalfOpen: _check_state_transition.
\* admit: the admission section.  run: awaiting the operation.  closing: the
\* unlocked test after a success.  toClosed, toOpen: about to transition.
\* finally: about to run the finally block.
Section == {"idle", "check", "decide", "toHalfOpen", "admit", "run",
            "closing", "toClosed", "toOpen", "finally"}

\* Calls that passed admission and have not run their finally block.
InFlight == {c \in Callers : pc[c] \in {"run", "closing", "toClosed", "toOpen", "finally"}}

-----------------------------------------------------------------------------
Init ==
    /\ state = "CLOSED"
    /\ failure_count = 0
    /\ half_open_successes = 0
    /\ active_half_open_calls = 0
    /\ recoveryElapsed = FALSE
    /\ windowElapsed = FALSE
    /\ pc = [c \in Callers |-> "idle"]
    /\ probes = {}
    /\ healthy = FALSE

Goto(c, section) == pc' = [pc EXCEPT ![c] = section]

-----------------------------------------------------------------------------
(* Mutants: mistakes the properties must reject.  No run uses them as they   *)
(* stand; each is put in the place of the definition it is named after.      *)

\* Mutant: the slots of the last period stay taken.
SetHalfOpen_KeepsCalls ==
    /\ state' = "HALF_OPEN"
    /\ recoveryElapsed' = FALSE
    /\ half_open_successes' = 0
    /\ UNCHANGED <<failure_count, active_half_open_calls>>

\* Mutant: the failures are not forgotten.
SetClosed_KeepsCount ==
    /\ state' = "CLOSED"
    /\ recoveryElapsed' = FALSE
    /\ UNCHANGED <<failure_count, half_open_successes, active_half_open_calls>>

\* Mutant: needs one success more.
DecideClose_OffByOne(c) ==
    /\ pc[c] = "closing"
    /\ Goto(c, IF state = "HALF_OPEN" /\ half_open_successes > half_open_max_tries
                 THEN "toClosed" ELSE "finally")
    /\ UNCHANGED <<state, failure_count, half_open_successes, active_half_open_calls,
                   recoveryElapsed, windowElapsed, probes, healthy>>

\* Mutant: the slot is not given back.
Release_Leak(c) ==
    /\ pc[c] = "finally"
    /\ probes' = probes \ {c}
    /\ Goto(c, "idle")
    /\ UNCHANGED <<state, failure_count, half_open_successes, active_half_open_calls,
                   recoveryElapsed, windowElapsed, healthy>>

\* Mutant: max(0, ...) is dropped.
Release_NoFloor(c) ==
    /\ pc[c] = "finally"
    /\ active_half_open_calls' =
         IF state = "HALF_OPEN" THEN active_half_open_calls - 1 ELSE active_half_open_calls
    /\ probes' = probes \ {c}
    /\ Goto(c, "idle")
    /\ UNCHANGED <<state, failure_count, half_open_successes,
                   recoveryElapsed, windowElapsed, healthy>>

-----------------------------------------------------------------------------
(* Transitions *)

\* The three transitions.  Each stamps last_state_change, so the recovery
\* timeout starts again.
SetOpen ==
    /\ state' = "OPEN"
    /\ recoveryElapsed' = FALSE
    /\ UNCHANGED <<failure_count, half_open_successes, active_half_open_calls>>

SetHalfOpen ==
    /\ state' = "HALF_OPEN"
    /\ recoveryElapsed' = FALSE
    /\ half_open_successes' = 0
    /\ active_half_open_calls' = 0
    /\ UNCHANGED failure_count

SetClosed ==
    /\ state' = "CLOSED"
    /\ recoveryElapsed' = FALSE
    /\ failure_count' = 0
    /\ UNCHANGED <<half_open_successes, active_half_open_calls>>

-----------------------------------------------------------------------------
\* execute() is called.
Begin(c) ==
    /\ pc[c] = "idle"
    /\ Goto(c, "check")
    /\ UNCHANGED <<state, failure_count, half_open_successes, active_half_open_calls,
                   recoveryElapsed, windowElapsed, probes, healthy>>

\* The locked part of _check_state_transition: failures older than the
\* window are forgotten.
CheckLocked(c) ==
    /\ pc[c] = "check"
    /\ failure_count' = IF windowElapsed THEN 0 ELSE failure_count
    /\ Goto(c, "decide")
    /\ UNCHANGED <<state, half_open_successes, active_half_open_calls,
                   recoveryElapsed, windowElapsed, probes, healthy>>

\* The test for the recovery timeout, made after the lock is released.
Decide(c) ==
    /\ pc[c] = "decide"
    /\ Goto(c, IF state = "OPEN" /\ recoveryElapsed THEN "toHalfOpen" ELSE "admit")
    /\ UNCHANGED <<state, failure_count, half_open_successes, active_half_open_calls,
                   recoveryElapsed, windowElapsed, probes, healthy>>

\* _transition_to_half_open: does not look at the state again.
ToHalfOpen(c) ==
    /\ pc[c] = "toHalfOpen"
    /\ SetHalfOpen
    /\ probes' = IF state = "HALF_OPEN" THEN probes ELSE {}
    /\ Goto(c, "admit")
    /\ UNCHANGED <<windowElapsed, healthy>>

\* IF the breaker is open, or half-open with its probe slots taken
\* THEN CircuitOpenError.
Rejects ==
    \/ state = "OPEN"
    \/ state = "HALF_OPEN" /\ active_half_open_calls >= half_open_max_tries

Reject(c) ==
    /\ pc[c] = "admit"
    /\ Rejects
    /\ Goto(c, "idle")
    /\ UNCHANGED <<state, failure_count, half_open_successes, active_half_open_calls,
                   recoveryElapsed, windowElapsed, probes, healthy>>

Admit(c) ==
    /\ pc[c] = "admit"
    /\ ~Rejects
    /\ IF state = "HALF_OPEN"
         THEN /\ active_half_open_calls' = active_half_open_calls + 1
              /\ probes' = probes \union {c}
         ELSE UNCHANGED <<active_half_open_calls, probes>>
    /\ Goto(c, "run")
    /\ UNCHANGED <<state, failure_count, half_open_successes,
                   recoveryElapsed, windowElapsed, healthy>>

\* The operation returned: the locked section counts a success in half-open,
\* whether or not this call was admitted as a probe.
Succeed(c) ==
    /\ pc[c] = "run"
    /\ half_open_successes' = IF state = "HALF_OPEN" THEN half_open_successes + 1
                                                     ELSE half_open_successes
    /\ Goto(c, "closing")
    /\ UNCHANGED <<state, failure_count, active_half_open_calls,
                   recoveryElapsed, windowElapsed, probes, healthy>>

\* The test for closing, made after the lock is released.
DecideClose(c) ==
    /\ pc[c] = "closing"
    /\ Goto(c, IF state = "HALF_OPEN" /\ half_open_successes >= half_open_max_tries
                 THEN "toClosed" ELSE "finally")
    /\ UNCHANGED <<state, failure_count, half_open_successes, active_half_open_calls,
                   recoveryElapsed, windowElapsed, probes, healthy>>

ToClosed(c) ==
    /\ pc[c] = "toClosed"
    /\ SetClosed
    /\ Goto(c, "finally")
    /\ UNCHANGED <<windowElapsed, probes, healthy>>

\* The operation raised: the locked section of _handle_failure.
Fail(c) ==
    /\ pc[c] = "run"
    /\ ~healthy
    /\ failure_count < MaxFailures
    /\ failure_count' = failure_count + 1
    /\ windowElapsed' = FALSE
    /\ Goto(c, IF \/ state = "HALF_OPEN"
                  \/ state = "CLOSED" /\ failure_count' >= failure_threshold
                 THEN "toOpen" ELSE "finally")
    /\ UNCHANGED <<state, half_open_successes, active_half_open_calls,
                   recoveryElapsed, probes, healthy>>

ToOpen(c) ==
    /\ pc[c] = "toOpen"
    /\ SetOpen
    /\ Goto(c, "finally")
    /\ UNCHANGED <<windowElapsed, probes, healthy>>

\* The calling task is cancelled in its operation: CancelledError is no
\* Exception, so only the finally block runs.
Cancel(c) ==
    /\ pc[c] = "run"
    /\ ~healthy
    /\ Goto(c, "finally")
    /\ UNCHANGED <<state, failure_count, half_open_successes, active_half_open_calls,
                   recoveryElapsed, windowElapsed, probes, healthy>>

\* The finally block: gives a slot back if the breaker is half-open now,
\* whatever it was when the call was admitted.
Release(c) ==
    /\ pc[c] = "finally"
    /\ active_half_open_calls' =
         IF state = "HALF_OPEN" /\ active_half_open_calls > 0
           THEN active_half_open_calls - 1 ELSE active_half_open_calls
    /\ probes' = probes \ {c}
    /\ Goto(c, "idle")
    /\ UNCHANGED <<state, failure_count, half_open_successes,
                   recoveryElapsed, windowElapsed, healthy>>

-----------------------------------------------------------------------------
\* trip() and reset() test and set the state under one hold of the lock.
Trip ==
    /\ ~healthy
    /\ state # "OPEN"
    /\ SetOpen
    /\ UNCHANGED <<windowElapsed, pc, probes, healthy>>

Reset ==
    /\ state # "CLOSED"
    /\ SetClosed
    /\ UNCHANGED <<windowElapsed, pc, probes, healthy>>

\* The clock.
RecoveryTimeoutElapses ==
    /\ state = "OPEN"
    /\ ~recoveryElapsed
    /\ recoveryElapsed' = TRUE
    /\ UNCHANGED <<state, failure_count, half_open_successes, active_half_open_calls,
                   windowElapsed, pc, probes, healthy>>

FailureWindowElapses ==
    /\ failure_count > 0
    /\ ~windowElapsed
    /\ windowElapsed' = TRUE
    /\ UNCHANGED <<state, failure_count, half_open_successes, active_half_open_calls,
                   recoveryElapsed, pc, probes, healthy>>

\* The protected dependency recovers: from here on no operation fails, is
\* cancelled, or makes a parent trip this breaker.
Heal ==
    /\ ~healthy
    /\ healthy' = TRUE
    /\ UNCHANGED <<state, failure_count, half_open_successes, active_half_open_calls,
                   recoveryElapsed, windowElapsed, pc, probes>>

\* What a caller's thread does by itself once execute() was called.
Proceed(c) ==
    \/ CheckLocked(c) \/ Decide(c) \/ ToHalfOpen(c) \/ Reject(c) \/ Admit(c)
    \/ Succeed(c) \/ DecideClose(c) \/ ToClosed(c)
    \/ Fail(c) \/ ToOpen(c) \/ Release(c)

Next ==
    \/ \E c \in Callers : Begin(c) \/ Proceed(c) \/ Cancel(c)
    \/ Trip \/ Reset
    \/ RecoveryTimeoutElapses \/ FailureWindowElapses
    \/ Heal

Spec == Init /\ [][Next]_vars

\* Callers keep calling and their threads keep running, operations end, and
\* the clock advances.  Nothing is assumed of failures, trips or resets.
FairSpec ==
    /\ Spec
    /\ \A c \in Callers : WF_vars(Begin(c) \/ Proceed(c))
    /\ WF_vars(RecoveryTimeoutElapses)

-----------------------------------------------------------------------------
(* Properties *)

\* Every field keeps its type; the counters stay naturals.
TypeOK ==
    /\ state \in CircuitState
    /\ failure_count \in 0..MaxFailures
    /\ half_open_successes \in Nat
    /\ active_half_open_calls \in Nat
    /\ recoveryElapsed \in BOOLEAN
    /\ windowElapsed \in BOOLEAN
    /\ pc \in [Callers -> Section]
    /\ probes \in SUBSET Callers
    /\ healthy \in BOOLEAN

\* No probe slot leaks: while half-open, every counted slot belongs to a call
\* that still has its finally block to run, so a half-open breaker whose
\* calls have all ended admits the next one.  The slot is given back by the
\* state at the end of the call, not at its start, which makes this delicate.
NoSlotLeak ==
    state = "HALF_OPEN" => active_half_open_calls <= Cardinality(InFlight)

\* Enough successes are never left without a closer: a breaker that is
\* half-open with its successes reached has a call on its way to close it,
\* although the test at the end of execute() is made outside the lock.
SuccessesClose ==
    state = "HALF_OPEN" /\ half_open_successes >= half_open_max_tries
        => \E c \in Callers : pc[c] \in {"closing", "toClosed"}

\* A breaker is never left closed with its threshold reached: some failed
\* call is on its way to open it (the transition is outside the lock of the
\* section that counted the failure).
ThresholdOpens ==
    state = "CLOSED" /\ failure_count >= failure_threshold
        => \E c \in Callers : pc[c] = "toOpen"

\* Once the dependency has recovered the breaker closes for good, whatever
\* stale transitions the callers still carry out.
Recovers == <>healthy => <>[](state = "CLOSED")

\* common.py says of half_open_max_tries: "Max parallel requests in half-open".
ProbeLimit ==
    state = "HALF_OPEN" => Cardinality(probes) <= half_open_max_tries
=============================================================================
