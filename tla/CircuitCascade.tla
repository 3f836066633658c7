--------------------------- MODULE CircuitCascade ---------------------------
(***************************************************************************)
(* The breakers of a CircuitRegistry and the trips that cascade through    *)
(* them: CircuitBreaker.trip and reset, the failures that open a breaker,  *)
(* and _handle_circuit_state_change, which trips the children of a breaker *)
(* that opened.  A child is tripped on the background loop if there is     *)
(* one; otherwise in a new thread, for which the tripping thread waits.    *)
(* trip() holds the breaker's lock until its listeners have returned.      *)
(*                                                                         *)
(* A thread is <<actor, depth>>: while <<a, d>> waits, the thread that it  *)
(* started is <<a, d+1>>.  Nothing here suspends but by waiting for a lock *)
(* or a thread: EventQueue.emit has no await that yields.  A trip begun on  *)
(* the background loop's own thread is one of a caller that it never       *)
(* overlaps with.                                                          *)
(***************************************************************************)
EXTENDS CircuitRegistry, Sequences

CONSTANTS
    Callers,    \* threads that call trip, reset and execute
    Background, \* the thread of the background loop
    NoThread,   \* nobody holds the lock
    MaxDepth    \* bound: threads waiting for one another below one caller

Actors == Callers \cup {Background}
Threads == Actors \X (0 .. MaxDepth)

ASSUME ThreadsAssumption ==
    /\ MaxDepth \in Nat
    /\ Background \notin Callers
    /\ NoThread \notin Threads

VARIABLES
    background, \* is there a background loop (fixed at the start of the program)
    state,      \* breaker.state
    lock,       \* breaker._lock, as far as it is held for more than one step
    pc,         \* where each thread is
    target,     \* the breaker it trips or has seen failing
    left,       \* the children it has still to trip
    submitted,  \* trips handed to the background loop
    owed        \* history: children, registered when their parent opened, not tripped since

cascadeVars == <<background, state, lock, pc, target, left, submitted, owed>>
vars == <<registryVars, cascadeVars>>

\* trip: about to enter trip().  fail: a failure was counted and the breaker
\* is due to open.  notify: open, about to call the listeners.  cascade: in
\* the registry's listener.
Stage == {"idle", "trip", "fail", "notify", "cascade"}
CircuitState == {"CLOSED", "OPEN", "HALF_OPEN"}

\* The thread that t starts and waits for.
Below(t) == <<t[1], t[2] + 1>>
Waits(t) == Below(t) \in Threads /\ pc[Below(t)] # "idle"

\* The registered children of a breaker, as breakers.
Kids(b) == {registered[n] : n \in children[b[1]]} \cap Breakers

Free(b) == lock[b] = NoThread

TypeOK ==
    /\ RegistryTypeOK
    /\ background \in BOOLEAN
    /\ state \in [Breakers -> CircuitState]
    /\ lock \in [Breakers -> Threads \cup {NoThread}]
    /\ pc \in [Threads -> Stage]
    /\ target \in [Threads -> Breakers \cup {NoBreaker}]
    /\ left \in [Threads -> SUBSET Names]
    /\ submitted \in Seq(Breakers)
    /\ owed \subseteq Breakers
    /\ \A t \in Threads : pc[t] # "idle" => target[t] \in Breakers

Init ==
    /\ RegistryInit
    /\ background \in BOOLEAN
    /\ state = [b \in Breakers |-> "CLOSED"]
    /\ lock = [b \in Breakers |-> NoThread]
    /\ pc = [t \in Threads |-> "idle"]
    /\ target = [t \in Threads |-> NoBreaker]
    /\ left = [t \in Threads |-> {}]
    /\ submitted = <<>>
    /\ owed = {}

\* The breaker opens: it is owed nothing any more, and its children are.
Opens(b) ==
    /\ state' = [state EXCEPT ![b] = "OPEN"]
    /\ owed' = (owed \cup IF b \in listened
                            THEN {k \in Kids(b) : state[k] # "OPEN"} ELSE {}) \ {b}

Goto(t, stage) == pc' = [pc EXCEPT ![t] = stage]

\* The thread's call ends; what t's own call holds is released.
Returns(t) ==
    /\ pc' = [pc EXCEPT ![t] = "idle"]
    /\ target' = [target EXCEPT ![t] = NoBreaker]
    /\ left' = [left EXCEPT ![t] = {}]

-----------------------------------------------------------------------------
(* Mutants: mistakes the properties must reject.  No run uses them as they   *)
(* stand; each is put in the place of the definition it is named after.      *)

\* Mutant: a breaker that is not closed counts as tripped.
TripRefused_HalfOpen(t) ==
    /\ pc[t] = "trip"
    /\ Free(target[t])
    /\ state[target[t]] # "CLOSED"
    /\ Returns(t)
    /\ UNCHANGED <<registryVars, background, state, lock, submitted, owed>>

\* Mutant: the tripping thread waits until the loop has tripped the child.
Submit_Waits(t, n) ==
    /\ background
    /\ pc[t] = "cascade"
    /\ n \in left[t]
    /\ ~Waits(t)
    /\ registered[n] \in Breakers
    /\ Below(t) \in Threads
    /\ left' = [left EXCEPT ![t] = @ \ {n}]
    /\ Goto(Below(t), "trip")
    /\ target' = [target EXCEPT ![Below(t)] = registered[n]]
    /\ UNCHANGED <<registryVars, background, state, lock, submitted, owed>>

-----------------------------------------------------------------------------
(* Calls from outside *)

\* trip_circuit(), or trip() by whoever holds the breaker.  A placeholder's
\* trip() does nothing.
Trip(c, b) ==
    /\ b \in Made
    /\ pc[<<c, 0>>] = "idle"
    /\ Call
    /\ Goto(<<c, 0>>, "trip")
    /\ target' = [target EXCEPT ![<<c, 0>>] = b]
    /\ UNCHANGED <<registryFields, background, state, lock, left, submitted, owed>>

\* A failing operation reaches the threshold, or fails in half-open: the
\* decision is taken under the lock, the transition made in another section.
Fail(c, b) ==
    /\ b \in Made
    /\ pc[<<c, 0>>] = "idle"
    /\ Free(b)
    /\ state[b] # "OPEN"
    /\ Call
    /\ Goto(<<c, 0>>, "fail")
    /\ target' = [target EXCEPT ![<<c, 0>>] = b]
    /\ UNCHANGED <<registryFields, background, state, lock, left, submitted, owed>>

\* reset(), and the recovery that CircuitBreaker describes.  The listeners are
\* told, and cascade nothing.
Recover(b) ==
    /\ b \in Made
    /\ Free(b)
    /\ Call
    /\ \E s \in {"CLOSED", "HALF_OPEN"} \ {state[b]} : state' = [state EXCEPT ![b] = s]
    /\ UNCHANGED <<registryFields, background, lock, pc, target, left, submitted, owed>>

-----------------------------------------------------------------------------
(* The steps of a thread *)

TripRefused(t) ==
    /\ pc[t] = "trip"
    /\ Free(target[t])
    /\ state[target[t]] = "OPEN"
    /\ Returns(t)
    /\ UNCHANGED <<registryVars, background, state, lock, submitted, owed>>

\* The lock is kept until the listeners have returned.
TripOpens(t) ==
    /\ pc[t] = "trip"
    /\ Free(target[t])
    /\ state[target[t]] # "OPEN"
    /\ Opens(target[t])
    /\ lock' = [lock EXCEPT ![target[t]] = t]
    /\ Goto(t, "notify")
    /\ UNCHANGED <<registryVars, background, target, left, submitted>>

\* After a failure the listeners run without the lock.
FailOpens(t) ==
    /\ pc[t] = "fail"
    /\ Free(target[t])
    /\ Opens(target[t])
    /\ Goto(t, "notify")
    /\ UNCHANGED <<registryVars, background, lock, target, left, submitted>>

\* The locked part of _handle_circuit_state_change, if anybody listens.
Notify(t) ==
    /\ pc[t] = "notify"
    /\ left' = [left EXCEPT ![t] = IF target[t] \in listened
                                     THEN children[target[t][1]] ELSE {}]
    /\ Goto(t, "cascade")
    /\ UNCHANGED <<registryVars, background, state, lock, target, submitted, owed>>

\* t looks up the next child.
NextChild(t, n) ==
    /\ pc[t] = "cascade"
    /\ n \in left[t]
    /\ ~Waits(t)
    /\ left' = [left EXCEPT ![t] = @ \ {n}]

SkipPlaceholder(t, n) ==
    /\ NextChild(t, n)
    /\ registered[n] \notin Breakers
    /\ UNCHANGED <<registryVars, background, state, lock, pc, target, submitted, owed>>

\* run_coroutine_threadsafe; nobody waits for the result.
Submit(t, n) ==
    /\ background
    /\ NextChild(t, n)
    /\ registered[n] \in Breakers
    /\ submitted' = Append(submitted, registered[n])
    /\ UNCHANGED <<registryVars, background, state, lock, pc, target, owed>>

\* An executor of its own; leaving its "with" block waits for the thread.
StartThread(t, n) ==
    /\ ~background
    /\ NextChild(t, n)
    /\ registered[n] \in Breakers
    /\ Below(t) \in Threads
    /\ Goto(Below(t), "trip")
    /\ target' = [target EXCEPT ![Below(t)] = registered[n]]
    /\ UNCHANGED <<registryVars, background, state, lock, submitted, owed>>

EndTrip(t) ==
    /\ pc[t] = "cascade"
    /\ left[t] = {}
    /\ ~Waits(t)
    /\ lock' = [b \in Breakers |-> IF lock[b] = t THEN NoThread ELSE lock[b]]
    /\ Returns(t)
    /\ UNCHANGED <<registryVars, background, state, submitted, owed>>

\* The background loop runs what was submitted, in order.
BackgroundTakes ==
    /\ pc[<<Background, 0>>] = "idle"
    /\ submitted # <<>>
    /\ submitted' = Tail(submitted)
    /\ Goto(<<Background, 0>>, "trip")
    /\ target' = [target EXCEPT ![<<Background, 0>>] = Head(submitted)]
    /\ UNCHANGED <<registryVars, background, state, lock, left, owed>>

Proceed(t) ==
    \/ TripRefused(t) \/ TripOpens(t) \/ FailOpens(t) \/ Notify(t) \/ EndTrip(t)
    \/ \E n \in Names : SkipPlaceholder(t, n) \/ Submit(t, n) \/ StartThread(t, n)

\* add_state_change_listener takes the breaker's lock.
AddListener(b) ==
    /\ Free(b)
    /\ Listen(b)
    /\ UNCHANGED cascadeVars

Next ==
    \/ RegistryStep /\ UNCHANGED cascadeVars
    \/ \E b \in Breakers : AddListener(b) \/ Recover(b)
    \/ \E c \in Callers, b \in Breakers : Trip(c, b) \/ Fail(c, b)
    \/ \E t \in Threads : Proceed(t)
    \/ BackgroundTakes

Spec == Init /\ [][Next]_vars

-----------------------------------------------------------------------------
(* Properties *)

\* A trip of breaker k is on its way: its parent's listener has yet to copy or
\* to work off the children, or the trip is submitted or waits for k's lock.
OnItsWay(k) ==
    \/ \E t \in Threads :
         \/ pc[t] = "notify" /\ target[t] \in listened /\ k[1] \in children[target[t][1]]
         \/ pc[t] = "cascade" /\ k[1] \in left[t]
         \/ pc[t] = "trip" /\ target[t] = k
    \/ \E i \in 1 .. Len(submitted) : submitted[i] = k

\* The promise of register_dependency: "if the parent trips, the child will
\* automatically trip as well".  Between the two the registry is unlocked
\* several times, children are added, breakers replaced, reset and tripped by
\* others; whenever a breaker that the registry listens to has opened, each
\* child registered at that time (and still) has opened since or is about to
\* be tripped.
ChildrenFollow ==
    \A k \in owed : registered[k[1]] = k => state[k] # "OPEN" /\ OnItsWay(k)

\* No set of names each depends on another one in the set.
Acyclic ==
    \A S \in (SUBSET Names) \ {{}} : \E n \in S : children[n] \cap S = {}

Busy == {t \in Threads : pc[t] # "idle"}

\* t cannot go on before u does.
WaitsFor(t, u) ==
    \/ Waits(t) /\ u = Below(t)
    \/ pc[t] \in {"trip", "fail"} /\ lock[target[t]] = u

\* Threads each of which waits for another of them: none will ever go on.
CircularWait ==
    \E T \in (SUBSET Busy) \ {{}} : \A t \in T : \E u \in T : WaitsFor(t, u)

\* A thread that trips a breaker holds its lock while it waits for other threads
\* to trip the children, and these may hold locks that others wait for.  With a
\* background loop, or as long as the dependencies are acyclic, threads never
\* wait for one another in a circle, so every trip and every failing call ends.
NoDeadlock == background \/ Acyclic => ~CircularWait

\* "Notify listeners outside of lock", "Handle cascading trips outside of
\* lock" (circuit_breakers.py:263, 732): then no dependency could make threads
\* wait for one another's locks in a circle.
NeverDeadlock == ~CircularWait
=============================================================================
