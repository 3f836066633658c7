---------------------------- MODULE CircuitProofs ----------------------------
(***************************************************************************)
(* Theorems about CircuitCascade, for any names, callers and bounds.       *)
(***************************************************************************)
EXTENDS CircuitCascade, TLAPS

\* A breaker is a name and a number.
LEMMA BreakerParts ==
    ASSUME NEW b \in Breakers
    PROVE  b[1] \in Names /\ b[2] \in 1 .. MaxMade /\ b = <<b[1], b[2]>>
  BY DEF Breakers

\* A thread is an actor and a depth; who starts a thread is not it, and the
\* first thread of an actor is started by none.
LEMMA ThreadParts ==
    ASSUME NEW t \in Threads
    PROVE  /\ t[1] \in Actors /\ t[2] \in 0 .. MaxDepth
           /\ Below(t) # t
           /\ \A u \in Threads : Below(t) = Below(u) => t = u
           /\ \A a \in Actors : Below(t) # <<a, 0>>
  BY ThreadsAssumption DEF Threads, Below

\* An actor begins as a thread of its own.
LEMMA FirstThread ==
    ASSUME NEW a \in Actors
    PROVE  <<a, 0>> \in Threads
  BY ThreadsAssumption DEF Threads

\* The next breaker of a name is one, under that name, and is new.
LEMMA FreshBreaker ==
    ASSUME RegistryTypeOK, NEW n \in Names, made[n] < MaxMade
    PROVE  Fresh(n) \in Breakers /\ Fresh(n)[1] = n /\ Fresh(n) \notin Made
  BY BoundsAssumption DEF RegistryTypeOK, Fresh, Breakers, Made

-----------------------------------------------------------------------------
(* Types *)

\* Constructing one more breaker under some names, and putting those in place,
\* leaves every name with a breaker of its own.
LEMMA MakingKeepsTypes ==
    ASSUME RegistryTypeOK, NEW D \in SUBSET Names,
           \A n \in D : made[n] < MaxMade,
           made' = [n \in Names |-> IF n \in D THEN made[n] + 1 ELSE made[n]],
           registered' = [n \in Names |-> IF n \in D THEN Fresh(n) ELSE registered[n]]
    PROVE  /\ made' \in [Names -> 0 .. MaxMade]
           /\ registered' \in [Names -> {NoBreaker, Placeholder} \cup Breakers]
           /\ \A n \in Names : registered'[n] \in Breakers =>
                  registered'[n] \in Made' /\ registered'[n][1] = n
  <1>1. made' \in [Names -> 0 .. MaxMade]
    BY BoundsAssumption DEF RegistryTypeOK
  <1>2. \A n \in D : Fresh(n) \in Breakers /\ Fresh(n)[1] = n
    BY FreshBreaker
  <1>3. registered' \in [Names -> {NoBreaker, Placeholder} \cup Breakers]
    BY <1>2 DEF RegistryTypeOK
  <1>4. ASSUME NEW n \in Names, registered'[n] \in Breakers
        PROVE  registered'[n] \in Made' /\ registered'[n][1] = n
    <2>1. CASE n \in D
      BY <2>1, <1>2, BoundsAssumption DEF RegistryTypeOK, Fresh, Made
    <2>2. CASE n \notin D
      BY <2>2, <1>4, BreakerParts, BoundsAssumption DEF RegistryTypeOK, Made
    <2>3. QED
      BY <2>1, <2>2
  <1>5. QED
    BY <1>1, <1>3, <1>4

\* One more breaker of a name is made and registered: it is the last of its name.
LEMMA MakingOne ==
    ASSUME RegistryTypeOK, NEW n \in Names, made[n] < MaxMade,
           made' = [made EXCEPT ![n] = @ + 1],
           registered' = [registered EXCEPT ![n] = Fresh(n)]
    PROVE  /\ made' \in [Names -> 0 .. MaxMade]
           /\ registered' \in [Names -> {NoBreaker, Placeholder} \cup Breakers]
           /\ \A m \in Names : registered'[m] \in Breakers =>
                  registered'[m] \in Made' /\ registered'[m][1] = m
  <1>1. made' = [m \in Names |-> IF m \in {n} THEN made[m] + 1 ELSE made[m]]
    BY DEF RegistryTypeOK
  <1>2. registered' = [m \in Names |-> IF m \in {n} THEN Fresh(m) ELSE registered[m]]
    BY DEF RegistryTypeOK
  <1>3. QED
    BY <1>1, <1>2, MakingKeepsTypes, Zenon

\* Every step of the registry keeps its types.
LEMMA RegistryTypes ==
    ASSUME RegistryTypeOK, RegistryStep
    PROVE  RegistryTypeOK'
  <1> USE BoundsAssumption DEF RegistryTypeOK, BulkStage
  <1>1. ASSUME NEW n \in Names, Lookup(n) PROVE RegistryTypeOK'
    BY <1>1 DEF Lookup, Call, Made
  <1>2. ASSUME NEW n \in Names, Enqueue(n) PROVE RegistryTypeOK'
    BY <1>2, EntriesAssumption DEF Enqueue, Made
  <1>3. ASSUME NEW n \in Names, Register(n) PROVE RegistryTypeOK'
    <2>1. /\ made' \in [Names -> 0 .. MaxMade]
          /\ registered' \in [Names -> {NoBreaker, Placeholder} \cup Breakers]
          /\ \A m \in Names : registered'[m] \in Breakers =>
                 registered'[m] \in Made' /\ registered'[m][1] = m
      <3> HIDE DEF RegistryTypeOK
      <3>1. QED
        BY <1>3, MakingOne DEF Register
    <2>2. QED
      BY <1>3, <2>1 DEF Register, Call
  <1>4. ASSUME NEW n \in Names, RegisterBreaker(n) PROVE RegistryTypeOK'
    <2>1. /\ made' \in [Names -> 0 .. MaxMade]
          /\ registered' \in [Names -> {NoBreaker, Placeholder} \cup Breakers]
          /\ \A m \in Names : registered'[m] \in Breakers =>
                 registered'[m] \in Made' /\ registered'[m][1] = m
      <3> HIDE DEF RegistryTypeOK
      <3>1. QED
        BY <1>4, MakingOne DEF RegisterBreaker
    <2>2. QED
      BY <1>4, <2>1, FreshBreaker DEF RegisterBreaker, Call
  <1>5. ASSUME NEW n \in Names, NEW parent \in Names, RegisterChild(n, parent)
        PROVE  RegistryTypeOK'
    <2>1. /\ made' \in [Names -> 0 .. MaxMade]
          /\ registered' \in [Names -> {NoBreaker, Placeholder} \cup Breakers]
          /\ \A m \in Names : registered'[m] \in Breakers =>
                 registered'[m] \in Made' /\ registered'[m][1] = m
      <3> HIDE DEF RegistryTypeOK
      <3>1. QED
        BY <1>5, MakingOne DEF RegisterChild
    <2>2. QED
      BY <1>5, <2>1 DEF RegisterChild, Call
  <1>6. ASSUME NEW n \in Names, NEW parent \in Names, RegisterDependency(n, parent)
        PROVE  RegistryTypeOK'
    BY <1>6 DEF RegisterDependency, Call, Made
  <1>7. ASSUME TakeQueue PROVE RegistryTypeOK'
    BY <1>7 DEF TakeQueue, Made
  <1>8. ASSUME Replace PROVE RegistryTypeOK'
    <2>1. Due \in SUBSET Names
      BY DEF Due
    <2>2. \A n \in Due : Fresh(n) \in Breakers
      BY <1>8, <2>1, FreshBreaker DEF Replace
    <2>3. /\ made' \in [Names -> 0 .. MaxMade]
          /\ registered' \in [Names -> {NoBreaker, Placeholder} \cup Breakers]
          /\ \A n \in Names : registered'[n] \in Breakers =>
                 registered'[n] \in Made' /\ registered'[n][1] = n
      <3> HIDE DEF RegistryTypeOK
      <3>1. QED
        BY <1>8, <2>1, MakingKeepsTypes DEF Replace
    <2>4. listened' \subseteq Breakers
      BY <1>8, <2>2 DEF Replace
    <2>5. QED
      BY <1>8, <2>3, <2>4 DEF Replace
  <1>9. ASSUME FinishTask PROVE RegistryTypeOK'
    BY <1>9 DEF FinishTask, Made
  <1>10. QED
    BY <1>1, <1>2, <1>3, <1>4, <1>5, <1>6, <1>7, <1>8, <1>9 DEF RegistryStep

\* Where a thread goes, types are kept.
LEMMA TypesPreserved == TypeOK /\ [Next]_vars => TypeOK'
  <1> SUFFICES ASSUME TypeOK, [Next]_vars PROVE TypeOK'
    OBVIOUS
  <1> USE DEF TypeOK, Stage, CircuitState
  <1>1. ASSUME RegistryStep, UNCHANGED cascadeVars PROVE TypeOK'
    BY <1>1, RegistryTypes DEF cascadeVars
  <1>2. ASSUME NEW b \in Breakers, AddListener(b) PROVE TypeOK'
    BY <1>2 DEF AddListener, Listen, cascadeVars, RegistryTypeOK, BulkStage, Made
  <1>3. ASSUME UNCHANGED registryFields, calls' \in 0 .. MaxCalls PROVE RegistryTypeOK'
    BY <1>3 DEF registryFields, RegistryTypeOK, Made
  <1>4. ASSUME Call PROVE calls' \in 0 .. MaxCalls
    BY <1>4, BoundsAssumption DEF Call, RegistryTypeOK
  <1>5. calls \in 0 .. MaxCalls
    BY DEF RegistryTypeOK
  <1>6. ASSUME NEW b \in Breakers, Recover(b) PROVE TypeOK'
    BY <1>6, <1>3, <1>4 DEF Recover, registryFields
  <1>7. ASSUME NEW c \in Callers, NEW b \in Breakers, Trip(c, b) PROVE TypeOK'
    BY <1>7, <1>3, <1>4 DEF Trip, Goto, registryFields
  <1>8. ASSUME NEW c \in Callers, NEW b \in Breakers, Fail(c, b) PROVE TypeOK'
    BY <1>8, <1>3, <1>4 DEF Fail, Goto, registryFields
  <1>9. ASSUME NEW t \in Threads, TripRefused(t) PROVE TypeOK'
    BY <1>9, <1>3, <1>5 DEF TripRefused, Returns, registryVars
  <1>10. ASSUME NEW t \in Threads, Opens(target[t]) PROVE owed' \subseteq Breakers /\ state' \in [Breakers -> CircuitState]
    BY <1>10 DEF Opens, Kids
  <1>11. ASSUME NEW t \in Threads, TripOpens(t) PROVE TypeOK'
    BY <1>11, <1>3, <1>5, <1>10 DEF TripOpens, Goto, registryVars
  <1>12. ASSUME NEW t \in Threads, FailOpens(t) PROVE TypeOK'
    BY <1>12, <1>3, <1>5, <1>10 DEF FailOpens, Goto, registryVars
  <1>13. ASSUME NEW t \in Threads, Notify(t) PROVE TypeOK'
    <2>1. left' \in [Threads -> SUBSET Names]
      BY <1>13, BreakerParts DEF Notify, RegistryTypeOK
    <2>2. QED
      BY <1>13, <2>1, <1>3, <1>5 DEF Notify, Goto, registryVars
  <1>14. ASSUME NEW t \in Threads, EndTrip(t) PROVE TypeOK'
    BY <1>14, <1>3, <1>5 DEF EndTrip, Returns, registryVars
  <1>15. ASSUME NEW t \in Threads, NEW n \in Names, SkipPlaceholder(t, n) PROVE TypeOK'
    BY <1>15, <1>3, <1>5 DEF SkipPlaceholder, NextChild, registryVars
  <1>16. ASSUME NEW t \in Threads, NEW n \in Names, Submit(t, n) PROVE TypeOK'
    BY <1>16, <1>3, <1>5 DEF Submit, NextChild, registryVars
  <1>17. ASSUME NEW t \in Threads, NEW n \in Names, StartThread(t, n) PROVE TypeOK'
    BY <1>17, <1>3, <1>5 DEF StartThread, NextChild, Goto, registryVars
  <1>18. ASSUME BackgroundTakes PROVE TypeOK'
    <2>1. Head(submitted) \in Breakers /\ Tail(submitted) \in Seq(Breakers)
      BY <1>18 DEF BackgroundTakes
    <2>2. QED
      BY <1>18, <2>1, <1>3, <1>5 DEF BackgroundTakes, Goto, registryVars
  <1>19. ASSUME UNCHANGED vars PROVE TypeOK'
    BY <1>19, <1>3, <1>5 DEF vars, cascadeVars, registryVars
  <1>20. QED
    BY <1>1, <1>2, <1>6, <1>7, <1>8, <1>9, <1>11, <1>12, <1>13, <1>14, <1>15, <1>16,
       <1>17, <1>18, <1>19 DEF Next, Proceed

\* TypeOK holds of every behaviour: counters stay in their bounds, every name is
\* registered as a breaker that was made under that name, and threads that are
\* not idle have a breaker.
THEOREM TypeCorrect == Spec => []TypeOK
  <1>1. Init => TypeOK
    BY BoundsAssumption, EntriesAssumption
       DEF Init, RegistryInit, TypeOK, RegistryTypeOK, BulkStage, Stage, CircuitState
  <1>2. QED
    BY <1>1, TypesPreserved, PTL DEF Spec

-----------------------------------------------------------------------------
(* Placeholders *)

\* The task has a batch from taking the queue to putting the breakers in place,
\* and at no other time: when it takes the queue, no earlier batch is lost.
PlaceholderInv ==
    /\ PlaceholdersQueued
    /\ bulkTask # "building" => batch = {}

\* Every step leaves a placeholder only where a name waits in the queue or the batch.
LEMMA PlaceholdersPreserved ==
    TypeOK /\ PlaceholderInv /\ [Next]_vars => PlaceholderInv'
  <1> SUFFICES ASSUME TypeOK, PlaceholderInv, [Next]_vars PROVE PlaceholderInv'
    OBVIOUS
  <1> USE DEF PlaceholderInv, PlaceholdersQueued
  <1>1. ASSUME RegistryStep PROVE PlaceholderInv'
    <2>1. RegistryTypeOK
      BY DEF TypeOK
    <2>2. \A n \in Names : made[n] < MaxMade => Fresh(n) # Placeholder
      BY <2>1, FreshBreaker, EntriesAssumption
    <2>3. ASSUME NEW n \in Names, Lookup(n) PROVE PlaceholderInv'
      BY <2>3 DEF Lookup
    <2>4. ASSUME NEW n \in Names, Enqueue(n) PROVE PlaceholderInv'
      BY <2>1, <2>4 DEF Enqueue, RegistryTypeOK
    <2>5. ASSUME NEW n \in Names, Register(n) PROVE PlaceholderInv'
      BY <2>1, <2>2, <2>5 DEF Register, RegistryTypeOK
    <2>6. ASSUME NEW n \in Names, RegisterBreaker(n) PROVE PlaceholderInv'
      BY <2>1, <2>2, <2>6 DEF RegisterBreaker, RegistryTypeOK
    <2>7. ASSUME NEW n \in Names, NEW parent \in Names, RegisterChild(n, parent)
          PROVE  PlaceholderInv'
      BY <2>1, <2>2, <2>7 DEF RegisterChild, RegistryTypeOK
    <2>8. ASSUME NEW n \in Names, NEW parent \in Names, RegisterDependency(n, parent)
          PROVE  PlaceholderInv'
      BY <2>8 DEF RegisterDependency
    <2>9. ASSUME TakeQueue PROVE PlaceholderInv'
      BY <2>9 DEF TakeQueue
    <2>10. ASSUME Replace PROVE PlaceholderInv'
      \* A name of the batch has its breaker now, any other is where it was.
      BY <2>1, <2>2, <2>10 DEF Replace, Due, RegistryTypeOK
    <2>11. ASSUME FinishTask PROVE PlaceholderInv'
      BY <2>11 DEF FinishTask
    <2>12. QED
      BY <1>1, <2>3, <2>4, <2>5, <2>6, <2>7, <2>8, <2>9, <2>10, <2>11 DEF RegistryStep
  <1>2. ASSUME UNCHANGED <<registered, queue, bulkTask, batch>> PROVE PlaceholderInv'
    BY <1>2
  <1>3. QED
    BY <1>1, <1>2
    DEF Next, Proceed, AddListener, Listen, Recover, Trip, Fail, TripRefused, TripOpens,
        FailOpens, Notify, EndTrip, SkipPlaceholder, Submit, StartThread, BackgroundTakes,
        vars, registryVars, registryFields

\* PlaceholdersQueued holds of every behaviour: whatever is queued, registered
\* or taken meanwhile, no name keeps a placeholder that no batch will replace.
THEOREM PlaceholdersNotForgotten == Spec => []PlaceholdersQueued
  <1>1. Init => PlaceholderInv
    BY EntriesAssumption DEF Init, RegistryInit, PlaceholderInv, PlaceholdersQueued
  <1>2. PlaceholderInv => PlaceholdersQueued
    BY DEF PlaceholderInv
  <1>3. QED
    BY <1>1, <1>2, TypeCorrect, PlaceholdersPreserved, PTL DEF Spec

-----------------------------------------------------------------------------
(* Waiting *)

\* A lock that is held between two steps is held by a thread that has opened
\* that breaker and has not returned.
LockHeld ==
    \A b \in Breakers : lock[b] \in Threads =>
        target[lock[b]] = b /\ pc[lock[b]] \in {"notify", "cascade"}

LeftAreChildren ==
    \A t \in Threads : pc[t] = "cascade" => left[t] \subseteq children[target[t][1]]

\* A thread that waits for another is in its cascade, and the other trips one
\* of its children.
WaitsForChild ==
    \A t \in Threads : Waits(t) =>
        /\ ~background
        /\ pc[t] = "cascade"
        /\ target[Below(t)][1] \in children[target[t][1]]

WaitingInv == LockHeld /\ LeftAreChildren /\ WaitsForChild

\* Every step keeps who waits for what in order.
LEMMA WaitingPreserved == TypeOK /\ WaitingInv /\ [Next]_vars => WaitingInv'
  <1> SUFFICES ASSUME TypeOK, WaitingInv, [Next]_vars PROVE WaitingInv'
    OBVIOUS
  <1> USE DEF WaitingInv, LockHeld, LeftAreChildren, WaitsForChild, Waits
  <1>1. \A p \in Names : children[p] \subseteq Names
    BY DEF TypeOK, RegistryTypeOK
  <1>2. ASSUME \A p \in Names : children[p] \subseteq children'[p], UNCHANGED cascadeVars
        PROVE  WaitingInv'
    <2>1. \A t \in Threads : pc[t] # "idle" => target[t][1] \in Names
      BY BreakerParts DEF TypeOK
    <2>2. QED
      BY <1>2, <2>1 DEF cascadeVars
  <1>3. ASSUME RegistryStep, UNCHANGED cascadeVars PROVE WaitingInv'
    <2>1. children \in [Names -> SUBSET Names]
      BY DEF TypeOK, RegistryTypeOK
    <2>2. ASSUME NEW n \in Names, NEW parent \in Names,
                 RegisterChild(n, parent) \/ RegisterDependency(n, parent)
          PROVE  \A p \in Names : children[p] \subseteq children'[p]
      BY <2>1, <2>2 DEF RegisterChild, RegisterDependency
    <2>3. CASE UNCHANGED children
      BY <1>2, <1>3, <2>3
    <2>4. QED
      BY <1>2, <1>3, <2>2, <2>3
      DEF RegistryStep, Lookup, Enqueue, Register, RegisterBreaker, TakeQueue, Replace, FinishTask
  <1>4. ASSUME NEW b \in Breakers, AddListener(b) PROVE WaitingInv'
    BY <1>2, <1>4 DEF AddListener, Listen
  <1>5. ASSUME NEW b \in Breakers, Recover(b) PROVE WaitingInv'
    BY <1>5 DEF Recover, registryFields
  <1>6. ASSUME NEW a \in Actors, pc[<<a, 0>>] = "idle", NEW stage \in {"trip", "fail"},
               NEW b \in Breakers, Goto(<<a, 0>>, stage),
               target' = [target EXCEPT ![<<a, 0>>] = b],
               UNCHANGED <<registryFields, background, lock, left>>
        PROVE  WaitingInv'
    <2> DEFINE t0 == <<a, 0>>
    <2>1. t0 \in Threads /\ pc[t0] = "idle"
      BY <1>6, FirstThread
    <2>2. \A t \in Threads : Below(t) # t0
      BY ThreadParts, FirstThread
    <2>3. \A t \in Threads : t # t0 => pc'[t] = pc[t] /\ target'[t] = target[t]
      BY <1>6 DEF Goto, TypeOK
    <2>4. pc'[t0] \in {"trip", "fail"}
      BY <1>6, <2>1 DEF Goto, TypeOK
    <2>5. UNCHANGED <<children, background, lock, left>>
      BY <1>6 DEF registryFields
    <2> HIDE DEF t0
    <2>6. LockHeld'
      BY <2>1, <2>3, <2>5
    <2>7. LeftAreChildren'
      BY <2>3, <2>4, <2>5
    <2>8. ~Waits(t0)
      BY <2>1
    <2>9. WaitsForChild'
      BY <2>2, <2>3, <2>4, <2>5, <2>8
    <2>10. QED
      BY <2>6, <2>7, <2>9
  <1>7. ASSUME NEW c \in Callers, NEW b \in Breakers, Trip(c, b) \/ Fail(c, b) PROVE WaitingInv'
    BY <1>6, <1>7 DEF Trip, Fail, Actors
  <1>8. ASSUME BackgroundTakes PROVE WaitingInv'
    <2>1. Head(submitted) \in Breakers
      BY <1>8 DEF BackgroundTakes, TypeOK
    <2>2. QED
      BY <1>6, <1>8, <2>1 DEF BackgroundTakes, Actors, registryVars
  <1>9. ASSUME NEW t \in Threads, TripRefused(t) PROVE WaitingInv'
    BY <1>9, ThreadParts DEF TripRefused, Returns, TypeOK, registryVars, registryFields
  <1>10. ASSUME NEW t \in Threads, TripOpens(t) PROVE WaitingInv'
    BY <1>10, ThreadParts DEF TripOpens, Goto, TypeOK, registryVars, registryFields
  <1>11. ASSUME NEW t \in Threads, FailOpens(t) PROVE WaitingInv'
    BY <1>11, ThreadParts DEF FailOpens, Goto, TypeOK, registryVars, registryFields
  <1>12. ASSUME NEW t \in Threads, Notify(t) PROVE WaitingInv'
    BY <1>12, ThreadParts DEF Notify, Goto, TypeOK, registryVars, registryFields
  <1>13. ASSUME NEW t \in Threads, EndTrip(t) PROVE WaitingInv'
    BY <1>13, ThreadParts, ThreadsAssumption
       DEF EndTrip, Returns, TypeOK, registryVars, registryFields
  <1>14. ASSUME NEW t \in Threads, NEW n \in Names, SkipPlaceholder(t, n) \/ Submit(t, n)
         PROVE  WaitingInv'
    BY <1>14 DEF SkipPlaceholder, Submit, NextChild, TypeOK, registryVars, registryFields
  <1>15. ASSUME NEW t \in Threads, NEW n \in Names, StartThread(t, n) PROVE WaitingInv'
    BY <1>15, ThreadParts
       DEF StartThread, NextChild, Goto, TypeOK, RegistryTypeOK, registryVars, registryFields
  <1>16. ASSUME UNCHANGED vars PROVE WaitingInv'
    BY <1>16 DEF vars, registryVars, registryFields, cascadeVars
  <1>17. QED
    BY <1>3, <1>4, <1>5, <1>7, <1>8, <1>9, <1>10, <1>11, <1>12, <1>13, <1>14, <1>15, <1>16
    DEF Next, Proceed

\* That order holds throughout.
LEMMA WaitingHolds == Spec => [](TypeOK /\ WaitingInv)
  <1>1. Init => WaitingInv
    BY ThreadsAssumption
       DEF Init, WaitingInv, LockHeld, LeftAreChildren, WaitsForChild, Waits
  <1>2. QED
    BY <1>1, TypeCorrect, WaitingPreserved, PTL DEF Spec

\* NoDeadlock holds of every behaviour.  Follow a circle of waiting threads: a
\* thread either waits for one that trips a child of its own breaker, or for
\* one that trips the same breaker, and that one waits for such a thread.  So
\* the names of the breakers they trip are a set in which each has a child, and
\* the dependencies are not acyclic.  With a background loop nobody waits for a
\* thread, and who holds a lock waits for none.
THEOREM CascadesDoNotDeadlock == Spec => []NoDeadlock
  <1>1. TypeOK /\ WaitingInv => NoDeadlock
    <2> SUFFICES ASSUME TypeOK, WaitingInv, background \/ Acyclic,
                        NEW T \in (SUBSET Busy) \ {{}},
                        \A t \in T : \E u \in T : WaitsFor(t, u)
                 PROVE  FALSE
      BY DEF NoDeadlock, CircularWait
    <2>1. T \subseteq Threads /\ \A t \in T : target[t] \in Breakers
      BY DEF Busy, TypeOK
    <2>2. PICK t0 \in T : TRUE
      OBVIOUS
    <2>3. \A t \in T : \/ Waits(t) /\ Below(t) \in T
                      \/ \E u \in T : lock[target[t]] = u /\ pc[t] \in {"trip", "fail"}
      BY DEF WaitsFor
    \* The holder of a lock neither trips nor fails, so it waits for a thread.
    <2>4. \A t, u \in T : lock[target[t]] = u => target[u] = target[t] /\ Waits(u) /\ Below(u) \in T
      BY <2>1, <2>3 DEF WaitingInv, LockHeld
    <2>5. CASE background
      BY <2>1, <2>2, <2>3, <2>4, <2>5 DEF WaitingInv, WaitsForChild
    <2>6. CASE Acyclic
      <3> DEFINE S == {target[t][1] : t \in T}
      <3>1. S \in (SUBSET Names) \ {{}}
        BY <2>1, <2>2, BreakerParts
      <3>2. PICK n \in S : children[n] \cap S = {}
        BY <2>6, <3>1 DEF Acyclic
      <3>3. PICK t \in T : n = target[t][1]
        BY <3>2
      <3>4. \A u \in T : Waits(u) /\ Below(u) \in T => target[u][1] # n
        BY <2>1, <3>2 DEF WaitingInv, WaitsForChild
      <3>5. QED
        BY <2>3, <2>4, <3>3, <3>4
    <2>7. QED
      BY <2>5, <2>6
  <1>2. QED
    BY <1>1, WaitingHolds, PTL

-----------------------------------------------------------------------------
(* Cascades *)

\* What a step must do for one breaker k that is owed a trip: unless k is no
\* longer registered, keep it from being open and keep its trip on its way.
LEMMA OwedPreserved ==
    ASSUME TypeOK, [Next]_vars, NEW k \in Made, registered[k[1]] = k,
           state[k] # "OPEN", OnItsWay(k), k \in owed'
    PROVE  state'[k] # "OPEN" /\ OnItsWay(k)'
  <1> k \in Breakers /\ k[1] \in Names
    BY BreakerParts DEF Made
  <1>1. ASSUME \A p \in Names : children[p] \subseteq children'[p],
               listened \subseteq listened', UNCHANGED cascadeVars
        PROVE  state'[k] # "OPEN" /\ OnItsWay(k)'
    <2>1. \A t \in Threads : pc[t] = "notify" => target[t][1] \in Names
      BY BreakerParts DEF TypeOK
    <2>2. QED
      BY <1>1, <2>1 DEF OnItsWay, cascadeVars
  <1>2. ASSUME RegistryStep, UNCHANGED cascadeVars PROVE state'[k] # "OPEN" /\ OnItsWay(k)'
    <2>1. children \in [Names -> SUBSET Names]
      BY DEF TypeOK, RegistryTypeOK
    <2>2. ASSUME NEW n \in Names, NEW parent \in Names,
                 RegisterChild(n, parent) \/ RegisterDependency(n, parent)
          PROVE  (\A p \in Names : children[p] \subseteq children'[p]) /\ listened' = listened
      BY <2>1, <2>2 DEF RegisterChild, RegisterDependency
    <2>3. CASE UNCHANGED children /\ listened \subseteq listened'
      BY <1>1, <1>2, <2>3
    <2>4. QED
      BY <1>1, <1>2, <2>2, <2>3
      DEF RegistryStep, Lookup, Enqueue, Register, RegisterBreaker, TakeQueue, Replace, FinishTask
  <1>3. ASSUME NEW b \in Breakers, AddListener(b) PROVE state'[k] # "OPEN" /\ OnItsWay(k)'
    BY <1>1, <1>3 DEF AddListener, Listen
  <1>4. ASSUME NEW b \in Breakers, Recover(b) PROVE state'[k] # "OPEN" /\ OnItsWay(k)'
    BY <1>4 DEF Recover, OnItsWay, TypeOK, registryFields
  <1>5. ASSUME NEW c \in Callers, NEW b \in Breakers, Trip(c, b) \/ Fail(c, b)
        PROVE  state'[k] # "OPEN" /\ OnItsWay(k)'
    BY <1>5 DEF Trip, Fail, Goto, OnItsWay, TypeOK, registryFields
  <1>6. ASSUME NEW t \in Threads, TripRefused(t) PROVE state'[k] # "OPEN" /\ OnItsWay(k)'
    \* The breaker that t trips is open, so it is not k.
    BY <1>6 DEF TripRefused, Returns, OnItsWay, TypeOK, registryVars, registryFields
  <1>7. ASSUME NEW t \in Threads, TripOpens(t) PROVE state'[k] # "OPEN" /\ OnItsWay(k)'
    <2>1. target[t] # k
      BY <1>7 DEF TripOpens, Opens
    <2>2. QED
      BY <1>7, <2>1 DEF TripOpens, Opens, Goto, OnItsWay, TypeOK, registryVars, registryFields
  <1>8. ASSUME NEW t \in Threads, FailOpens(t) PROVE state'[k] # "OPEN" /\ OnItsWay(k)'
    <2>1. target[t] # k
      BY <1>8 DEF FailOpens, Opens
    <2>2. QED
      BY <1>8, <2>1 DEF FailOpens, Opens, Goto, OnItsWay, TypeOK, registryVars, registryFields
  <1>9. ASSUME NEW t \in Threads, Notify(t) PROVE state'[k] # "OPEN" /\ OnItsWay(k)'
    BY <1>9 DEF Notify, Goto, OnItsWay, TypeOK, registryVars, registryFields
  <1>10. ASSUME NEW t \in Threads, EndTrip(t) PROVE state'[k] # "OPEN" /\ OnItsWay(k)'
    BY <1>10 DEF EndTrip, Returns, OnItsWay, TypeOK, registryVars, registryFields
  <1>11. ASSUME NEW t \in Threads, NEW n \in Names, SkipPlaceholder(t, n)
         PROVE  state'[k] # "OPEN" /\ OnItsWay(k)'
    BY <1>11 DEF SkipPlaceholder, NextChild, OnItsWay, TypeOK, registryVars, registryFields
  <1>12. ASSUME NEW t \in Threads, NEW n \in Names, Submit(t, n)
         PROVE  state'[k] # "OPEN" /\ OnItsWay(k)'
    <2>1. \A i \in 1 .. Len(submitted) :
            i \in 1 .. Len(submitted') /\ submitted'[i] = submitted[i]
      BY <1>12, BreakerParts DEF Submit, TypeOK
    <2>2. k[1] = n => Len(submitted') \in 1 .. Len(submitted') /\ submitted'[Len(submitted')] = k
      BY <1>12 DEF Submit, TypeOK
    <2>3. ASSUME NEW u \in Threads, pc[u] = "cascade", k[1] \in left[u], k[1] # n
          PROVE  k[1] \in left'[u]
      BY <1>12, <2>3 DEF Submit, NextChild, TypeOK
    <2>4. UNCHANGED <<pc, target, state, listened, children>>
      BY <1>12 DEF Submit, registryVars, registryFields
    <2>5. QED
      BY <2>1, <2>2, <2>3, <2>4 DEF OnItsWay
  <1>13. ASSUME NEW t \in Threads, NEW n \in Names, StartThread(t, n)
         PROVE  state'[k] # "OPEN" /\ OnItsWay(k)'
    BY <1>13, ThreadParts
       DEF StartThread, NextChild, Waits, Goto, OnItsWay, TypeOK, registryVars, registryFields
  <1>14. ASSUME BackgroundTakes PROVE state'[k] # "OPEN" /\ OnItsWay(k)'
    <2>1. <<Background, 0>> \in Threads
      BY FirstThread DEF Actors
    <2>2. ASSUME NEW i \in 1 .. Len(submitted), submitted[i] = k PROVE OnItsWay(k)'
      <3>1. CASE i = 1
        BY <1>14, <2>1, <2>2, <3>1 DEF BackgroundTakes, Goto, OnItsWay, TypeOK
      <3>2. CASE i # 1
        <4>1. i - 1 \in 1 .. Len(submitted') /\ submitted'[i - 1] = k
          BY <1>14, <2>2, <3>2 DEF BackgroundTakes, TypeOK
        <4>2. QED
          BY <4>1 DEF OnItsWay
      <3>3. QED
        BY <3>1, <3>2
    <2>3. QED
      BY <1>14, <2>1, <2>2 DEF BackgroundTakes, Goto, OnItsWay, TypeOK, registryVars, registryFields
  <1>15. ASSUME UNCHANGED vars PROVE state'[k] # "OPEN" /\ OnItsWay(k)'
    BY <1>15 DEF vars, registryVars, registryFields, cascadeVars, OnItsWay
  <1>16. QED
    BY <1>2, <1>3, <1>4, <1>5, <1>6, <1>7, <1>8, <1>9, <1>10, <1>11, <1>12, <1>13, <1>14, <1>15
    DEF Next, Proceed

\* Breakers are made one after the other, and only a fresh one takes a name.
LEMMA OnlyFreshRegistered ==
    ASSUME RegistryTypeOK, [Next]_vars
    PROVE  /\ Made \subseteq Made'
           /\ \A k \in Made : registered'[k[1]] = k => registered[k[1]] = k
  <1> DEFINE Goal == /\ Made \subseteq Made'
                     /\ \A k \in Made : registered'[k[1]] = k => registered[k[1]] = k
  <1>1. ASSUME NEW D \in SUBSET Names, \A n \in D : made[n] < MaxMade,
               \A n \in Names : made'[n] = IF n \in D THEN made[n] + 1 ELSE made[n],
               \A n \in Names : registered'[n] = IF n \in D THEN Fresh(n) ELSE registered[n]
        PROVE  Goal
    <2>1. Made \subseteq Made'
      BY <1>1, BreakerParts DEF Made, RegistryTypeOK
    <2>2. \A k \in Made : k[1] \in Names
      BY BreakerParts DEF Made
    <2>3. QED
      BY <1>1, <2>1, <2>2, FreshBreaker
  <1>2. ASSUME NEW n \in Names, Register(n) \/ RegisterBreaker(n) PROVE Goal
    <2>1. made[n] < MaxMade /\ \A m \in {n} : m = n
      BY <1>2 DEF Register, RegisterBreaker
    <2>2. /\ \A m \in Names : made'[m] = IF m \in {n} THEN made[m] + 1 ELSE made[m]
          /\ \A m \in Names : registered'[m] = IF m \in {n} THEN Fresh(m) ELSE registered[m]
      BY <1>2 DEF Register, RegisterBreaker, RegistryTypeOK
    <2>3. QED
      BY <1>1, <2>1, <2>2
  <1>3. ASSUME NEW n \in Names, NEW parent \in Names, RegisterChild(n, parent) PROVE Goal
    <2>1. made[n] < MaxMade /\ \A m \in {n} : m = n
      BY <1>3 DEF RegisterChild
    <2>2. /\ \A m \in Names : made'[m] = IF m \in {n} THEN made[m] + 1 ELSE made[m]
          /\ \A m \in Names : registered'[m] = IF m \in {n} THEN Fresh(m) ELSE registered[m]
      BY <1>3 DEF RegisterChild, RegistryTypeOK
    <2>3. QED
      BY <1>1, <2>1, <2>2
  <1>4. ASSUME Replace PROVE Goal
    <2>1. Due \in SUBSET Names
      BY DEF Due, RegistryTypeOK
    <2>2. QED
      BY <1>1, <1>4, <2>1 DEF Replace
  <1>5. ASSUME NEW n \in Names, Enqueue(n) PROVE Goal
    BY <1>5, BreakerParts, EntriesAssumption DEF Enqueue, Made, RegistryTypeOK
  <1>6. ASSUME UNCHANGED <<made, registered>> PROVE Goal
    BY <1>6 DEF Made
  <1>7. QED
    BY <1>2, <1>3, <1>4, <1>5, <1>6
    DEF Next, RegistryStep, Lookup, RegisterDependency, TakeQueue, FinishTask, Proceed,
        AddListener, Listen, Recover, Trip, Fail, TripRefused, TripOpens, FailOpens, Notify,
        EndTrip, SkipPlaceholder, Submit, StartThread, BackgroundTakes, vars, registryVars,
        registryFields

\* Only breakers that were made are owed anything.
OwedMade == owed \subseteq Made

\* A breaker that is owed a trip for the first time has been found among the
\* children of the breaker that opens, whose thread calls the listeners next.
LEMMA NewlyOwed ==
    ASSUME TypeOK, NEW t \in Threads, pc[t] # "idle", Opens(target[t]), Goto(t, "notify"),
           UNCHANGED <<registryFields, target, left>>,
           NEW k \in owed' \ owed
    PROVE  k \in Made /\ state'[k] # "OPEN" /\ OnItsWay(k)'
  <1>1. PICK n \in Names : n \in children[target[t][1]] /\ k = registered[n] /\ k \in Breakers
    BY BreakerParts DEF Opens, Kids, TypeOK, RegistryTypeOK
  <1>2. k[1] = n /\ k \in Made
    BY <1>1 DEF TypeOK, RegistryTypeOK
  <1>3. target[t] \in listened /\ state[k] # "OPEN" /\ k # target[t]
    BY DEF Opens
  <1>4. state'[k] # "OPEN"
    BY <1>1, <1>3 DEF Opens, TypeOK
  <1>5. OnItsWay(k)'
    BY <1>1, <1>2, <1>3 DEF OnItsWay, Goto, TypeOK, registryFields
  <1>6. QED
    BY <1>2, <1>4, <1>5

\* Every step keeps the trips that a cascade owes with breakers that were made, and
\* on their way or done.
LEMMA CascadePreserved ==
    TypeOK /\ OwedMade /\ ChildrenFollow /\ [Next]_vars => OwedMade' /\ ChildrenFollow'
  <1> SUFFICES ASSUME TypeOK, OwedMade, ChildrenFollow, [Next]_vars
               PROVE  OwedMade' /\ ChildrenFollow'
    OBVIOUS
  <1>1. /\ Made \subseteq Made'
        /\ \A k \in Made : registered'[k[1]] = k => registered[k[1]] = k
    BY OnlyFreshRegistered DEF TypeOK
  \* New debts are made where a breaker opens.
  <1>2. \/ owed' \subseteq owed
        \/ \E t \in Threads : TripOpens(t) \/ FailOpens(t)
    BY DEF Next, Proceed, AddListener, Listen, Recover, Trip, Fail, TripRefused, Notify,
           EndTrip, SkipPlaceholder, Submit, StartThread, BackgroundTakes, vars, cascadeVars
  <1>3. ASSUME NEW k \in owed' \ owed
        PROVE  k \in Made /\ state'[k] # "OPEN" /\ OnItsWay(k)'
    BY <1>2, <1>3, NewlyOwed DEF TripOpens, FailOpens, registryVars
  <1>4. OwedMade'
    BY <1>1, <1>3 DEF OwedMade
  <1>5. ASSUME NEW k \in owed', registered'[k[1]] = k
        PROVE  state'[k] # "OPEN" /\ OnItsWay(k)'
    <2>1. CASE k \in owed
      BY <1>1, <1>5, <2>1, OwedPreserved DEF OwedMade, ChildrenFollow
    <2>2. CASE k \notin owed
      BY <1>3, <1>5, <2>2
    <2>3. QED
      BY <2>1, <2>2
  <1>6. QED
    BY <1>4, <1>5 DEF ChildrenFollow

\* ChildrenFollow holds of every behaviour: between the opening of a breaker and
\* the trips of its children nothing that other threads register, replace,
\* reset or trip makes a child's trip get lost.
THEOREM ChildrenAreTripped == Spec => []ChildrenFollow
  <1>1. Init => OwedMade /\ ChildrenFollow
    BY DEF Init, OwedMade, ChildrenFollow
  <1>2. QED
    BY <1>1, TypeCorrect, CascadePreserved, PTL DEF Spec
=============================================================================
