----------------------- MODULE CircuitBreakerProofs -----------------------
(***************************************************************************)
(* Theorems about CircuitBreaker for every finite set of callers and every *)
(* configuration.  The invariants of the runs are inductive together with  *)
(* the types: each relates the breaker's fields to the sections its        *)
(* callers are in.                                                         *)
(***************************************************************************)
EXTENDS CircuitBreaker, FiniteSetTheorems, TLAPS

\* The calls in flight are finitely many, so Cardinality counts them.
LEMMA InFlightFinite ==
    /\ IsFiniteSet(InFlight)
    /\ Cardinality(InFlight) \in Nat
<1>1. InFlight \subseteq Callers  BY DEF InFlight
<1>2. IsFiniteSet(InFlight)  BY <1>1, CallersAssumption, FS_Subset
<1>3. QED  BY <1>2, FS_CardinalityType

\* The range of the failure counter holds zero and is closed under counting.
LEMMA FailureRange ==
    /\ 0 \in 0..MaxFailures
    /\ \A n \in 0..MaxFailures : n < MaxFailures => n + 1 \in 0..MaxFailures
BY ConfigAssumption

\* Every step keeps every field's type.
LEMMA TypeOKStep == TypeOK /\ [Next]_vars => TypeOK'
<1> SUFFICES ASSUME TypeOK, [Next]_vars PROVE TypeOK'
    OBVIOUS
<1> USE FailureRange DEF TypeOK, CircuitState, Section, Goto
<1>1. ASSUME NEW c \in Callers, Begin(c) PROVE TypeOK'
    BY <1>1 DEF Begin
<1>2. ASSUME NEW c \in Callers, CheckLocked(c) PROVE TypeOK'
    BY <1>2 DEF CheckLocked
<1>3. ASSUME NEW c \in Callers, Decide(c) PROVE TypeOK'
    BY <1>3 DEF Decide
<1>4. ASSUME NEW c \in Callers, ToHalfOpen(c) PROVE TypeOK'
    BY <1>4 DEF ToHalfOpen, SetHalfOpen
<1>5. ASSUME NEW c \in Callers, Reject(c) PROVE TypeOK'
    BY <1>5 DEF Reject
<1>6. ASSUME NEW c \in Callers, Admit(c) PROVE TypeOK'
    BY <1>6 DEF Admit
<1>7. ASSUME NEW c \in Callers, Succeed(c) PROVE TypeOK'
    BY <1>7 DEF Succeed
<1>8. ASSUME NEW c \in Callers, DecideClose(c) PROVE TypeOK'
    BY <1>8 DEF DecideClose
<1>9. ASSUME NEW c \in Callers, ToClosed(c) PROVE TypeOK'
    BY <1>9 DEF ToClosed, SetClosed
<1>10. ASSUME NEW c \in Callers, Fail(c) PROVE TypeOK'
    BY <1>10 DEF Fail
<1>11. ASSUME NEW c \in Callers, ToOpen(c) PROVE TypeOK'
    BY <1>11 DEF ToOpen, SetOpen
<1>12. ASSUME NEW c \in Callers, Cancel(c) PROVE TypeOK'
    BY <1>12 DEF Cancel
<1>13. ASSUME NEW c \in Callers, Release(c) PROVE TypeOK'
    BY <1>13 DEF Release
<1>14. CASE Trip  BY <1>14 DEF Trip, SetOpen
<1>15. CASE Reset  BY <1>15 DEF Reset, SetClosed
<1>16. CASE RecoveryTimeoutElapses  BY <1>16 DEF RecoveryTimeoutElapses
<1>17. CASE FailureWindowElapses  BY <1>17 DEF FailureWindowElapses
<1>18. CASE Heal  BY <1>18 DEF Heal
<1>19. CASE UNCHANGED vars  BY <1>19 DEF vars
<1>20. QED
    BY <1>1, <1>2, <1>3, <1>4, <1>5, <1>6, <1>7, <1>8, <1>9, <1>10, <1>11, <1>12,
       <1>13, <1>14, <1>15, <1>16, <1>17, <1>18, <1>19 DEF Next, Proceed

\* Type correctness of the breaker, for every configuration.
THEOREM TypeCorrect == Spec => []TypeOK
<1>1. Init => TypeOK
    <2> SUFFICES ASSUME Init PROVE TypeOK  OBVIOUS
    <2>1. pc \in [Callers -> Section]  BY DEF Init, Section
    <2>2. /\ failure_count \in 0..MaxFailures
          /\ half_open_successes \in Nat
          /\ active_half_open_calls \in Nat
        BY FailureRange DEF Init
    <2>3. QED  BY <2>1, <2>2 DEF Init, TypeOK, CircuitState
<1>2. QED  BY <1>1, TypeOKStep, PTL DEF Spec

-----------------------------------------------------------------------------
\* A step that leaves the breaker half-open, and was half-open before, moves
\* one caller between sections: what it does to the calls in flight.
LEMMA InFlightStays ==
    ASSUME TypeOK, NEW c \in Callers, NEW section \in Section,
           pc' = [pc EXCEPT ![c] = section],
           (c \in InFlight) <=> section \in {"run", "closing", "toClosed", "toOpen", "finally"}
    PROVE  InFlight' = InFlight
BY DEF InFlight, TypeOK

\* A call that begins is one more in flight, ...
LEMMA InFlightJoins ==
    ASSUME TypeOK, NEW c \in Callers, c \notin InFlight,
           pc' = [pc EXCEPT ![c] = "run"]
    PROVE  Cardinality(InFlight') = Cardinality(InFlight) + 1
<1>1. InFlight' = InFlight \union {c}  BY DEF InFlight, TypeOK
<1>2. QED  BY <1>1, InFlightFinite, FS_AddElement

\* ... and one that ends is one less.
LEMMA InFlightLeaves ==
    ASSUME TypeOK, NEW c \in Callers, c \in InFlight,
           pc' = [pc EXCEPT ![c] = "idle"]
    PROVE  Cardinality(InFlight') = Cardinality(InFlight) - 1
<1>1. InFlight' = InFlight \ {c}  BY DEF InFlight, TypeOK
<1>2. QED  BY <1>1, InFlightFinite, FS_RemoveElement

\* Every step keeps the counted slots within the calls in flight.
LEMMA NoSlotLeakStep == TypeOK /\ NoSlotLeak /\ [Next]_vars => NoSlotLeak'
<1> SUFFICES ASSUME TypeOK, NoSlotLeak, [Next]_vars, state' = "HALF_OPEN"
             PROVE  active_half_open_calls' <= Cardinality(InFlight')
    BY DEF NoSlotLeak
<1> DEFINE Goal == active_half_open_calls' <= Cardinality(InFlight')
<1>1. Cardinality(InFlight) \in Nat /\ active_half_open_calls \in Nat
    BY InFlightFinite DEF TypeOK
<1>2. ASSUME UNCHANGED <<state, active_half_open_calls>>, InFlight' = InFlight
      PROVE  Goal
    BY <1>2 DEF NoSlotLeak
<1>3. ASSUME NEW c \in Callers,
             Begin(c) \/ CheckLocked(c) \/ Decide(c) \/ Reject(c)
      PROVE  Goal
    <2>1. \E section \in Section :
             /\ pc' = [pc EXCEPT ![c] = section]
             /\ section \notin {"run", "closing", "toClosed", "toOpen", "finally"}
        BY <1>3 DEF Begin, CheckLocked, Decide, Reject, Goto, Section
    <2>2. c \notin InFlight
        BY <1>3 DEF Begin, CheckLocked, Decide, Reject, InFlight
    <2>3. InFlight' = InFlight  BY <2>1, <2>2, InFlightStays
    <2>4. UNCHANGED <<state, active_half_open_calls>>
        BY <1>3 DEF Begin, CheckLocked, Decide, Reject
    <2>5. QED  BY <2>3, <2>4, <1>2
<1>4. ASSUME NEW c \in Callers, ToHalfOpen(c) PROVE Goal
    <2>1. active_half_open_calls' = 0  BY <1>4 DEF ToHalfOpen, SetHalfOpen
    <2>2. InFlight' = InFlight
        BY <1>4, InFlightStays DEF ToHalfOpen, Goto, Section, InFlight
    <2>3. QED  BY <2>1, <2>2, <1>1
<1>5. ASSUME NEW c \in Callers, Admit(c) PROVE Goal
    <2>1. c \notin InFlight  BY <1>5 DEF Admit, InFlight
    <2>2. Cardinality(InFlight') = Cardinality(InFlight) + 1
        BY <1>5, <2>1, InFlightJoins DEF Admit, Goto
    <2>3. /\ state = "HALF_OPEN"
          /\ active_half_open_calls' = active_half_open_calls + 1
        BY <1>5 DEF Admit
    <2>4. QED  BY <2>2, <2>3, <1>1 DEF NoSlotLeak
<1>6. ASSUME NEW c \in Callers,
             Succeed(c) \/ DecideClose(c) \/ Fail(c) \/ Cancel(c)
      PROVE  Goal
    <2>1. \E section \in {"closing", "toClosed", "toOpen", "finally"} :
             pc' = [pc EXCEPT ![c] = section]
        BY <1>6 DEF Succeed, DecideClose, Fail, Cancel, Goto
    <2>2. c \in InFlight
        BY <1>6 DEF Succeed, DecideClose, Fail, Cancel, InFlight
    <2>3. InFlight' = InFlight  BY <2>1, <2>2, InFlightStays DEF Section
    <2>4. UNCHANGED <<state, active_half_open_calls>>
        BY <1>6 DEF Succeed, DecideClose, Fail, Cancel
    <2>5. QED  BY <2>3, <2>4, <1>2
<1>7. ASSUME NEW c \in Callers, ToClosed(c) \/ ToOpen(c) PROVE Goal
    BY <1>7 DEF ToClosed, ToOpen, SetClosed, SetOpen
<1>8. ASSUME NEW c \in Callers, Release(c) PROVE Goal
    <2>1. c \in InFlight  BY <1>8 DEF Release, InFlight
    <2>2. Cardinality(InFlight') = Cardinality(InFlight) - 1
        BY <1>8, <2>1, InFlightLeaves DEF Release, Goto
    <2>3. Cardinality(InFlight) # 0
        BY <2>1, InFlightFinite, FS_EmptySet
    <2>4. /\ state = "HALF_OPEN"
          /\ active_half_open_calls' =
               IF active_half_open_calls > 0 THEN active_half_open_calls - 1 ELSE 0
        BY <1>8, <1>1 DEF Release
    <2>5. QED  BY <2>2, <2>3, <2>4, <1>1 DEF NoSlotLeak
<1>9. CASE Trip \/ Reset  BY <1>9 DEF Trip, Reset, SetOpen, SetClosed
<1>10. CASE RecoveryTimeoutElapses \/ FailureWindowElapses \/ Heal \/ UNCHANGED vars
    <2>1. UNCHANGED <<state, active_half_open_calls, pc>>
        BY <1>10 DEF RecoveryTimeoutElapses, FailureWindowElapses, Heal, vars
    <2>2. QED  BY <2>1, <1>2 DEF InFlight
<1>11. QED
    BY <1>3, <1>4, <1>5, <1>6, <1>7, <1>8, <1>9, <1>10 DEF Next, Proceed

\* A half-open breaker's slots are all held by calls in flight: for any
\* number of callers, no history of stale transitions leaks one.
THEOREM SlotsNeverLeak == Spec => []NoSlotLeak
<1>1. Init => NoSlotLeak  BY DEF Init, NoSlotLeak
<1>2. QED  BY <1>1, TypeCorrect, NoSlotLeakStep, PTL DEF Spec

-----------------------------------------------------------------------------
\* Every step keeps a closer on its way while the successes are reached.
LEMMA SuccessesCloseStep == TypeOK /\ SuccessesClose /\ [Next]_vars => SuccessesClose'
<1> SUFFICES ASSUME TypeOK, SuccessesClose, [Next]_vars,
                    state' = "HALF_OPEN", half_open_successes' >= half_open_max_tries
             PROVE  \E c \in Callers : pc'[c] \in {"closing", "toClosed"}
    BY DEF SuccessesClose
<1> DEFINE Goal == \E c \in Callers : pc'[c] \in {"closing", "toClosed"}
<1> USE ConfigAssumption DEF TypeOK
<1>1. ASSUME UNCHANGED <<state, half_open_successes>>,
             \A c \in Callers : pc[c] \in {"closing", "toClosed"} => pc'[c] = pc[c]
      PROVE  Goal
    BY <1>1 DEF SuccessesClose
<1>2. ASSUME NEW c \in Callers,
             \/ Begin(c) \/ CheckLocked(c) \/ Decide(c) \/ Reject(c) \/ Admit(c)
             \/ Fail(c) \/ Cancel(c) \/ Release(c)
      PROVE  Goal
    <2>1. UNCHANGED <<state, half_open_successes>>
        BY <1>2 DEF Begin, CheckLocked, Decide, Reject, Admit, Fail, Cancel, Release
    <2>2. /\ pc[c] \notin {"closing", "toClosed"}
          /\ \A d \in Callers \ {c} : pc'[d] = pc[d]
        BY <1>2 DEF Begin, CheckLocked, Decide, Reject, Admit, Fail, Cancel, Release, Goto
    <2>3. QED  BY <2>1, <2>2, <1>1
<1>3. ASSUME NEW c \in Callers, Succeed(c) PROVE Goal
    BY <1>3 DEF Succeed, Goto
<1>4. ASSUME NEW c \in Callers, DecideClose(c) PROVE Goal
    <2>1. UNCHANGED <<state, half_open_successes>>  BY <1>4 DEF DecideClose
    <2>2. pc'[c] = "toClosed"  BY <1>4, <2>1 DEF DecideClose, Goto
    <2>3. QED  BY <2>2
<1>5. ASSUME NEW c \in Callers, ToHalfOpen(c) PROVE Goal
    BY <1>5 DEF ToHalfOpen, SetHalfOpen
<1>6. ASSUME NEW c \in Callers, ToClosed(c) \/ ToOpen(c) PROVE Goal
    BY <1>6 DEF ToClosed, ToOpen, SetClosed, SetOpen
<1>7. CASE Trip \/ Reset  BY <1>7 DEF Trip, Reset, SetOpen, SetClosed
<1>8. CASE RecoveryTimeoutElapses \/ FailureWindowElapses \/ Heal \/ UNCHANGED vars
    BY <1>8, <1>1 DEF RecoveryTimeoutElapses, FailureWindowElapses, Heal, vars
<1>9. QED
    BY <1>2, <1>3, <1>4, <1>5, <1>6, <1>7, <1>8 DEF Next, Proceed

\* A breaker whose probes have succeeded often enough is being closed.
THEOREM SuccessesAreNotLost == Spec => []SuccessesClose
<1>1. Init => SuccessesClose  BY DEF Init, SuccessesClose
<1>2. QED  BY <1>1, TypeCorrect, SuccessesCloseStep, PTL DEF Spec

-----------------------------------------------------------------------------
\* Every step keeps an opener on its way while the threshold is reached.
LEMMA ThresholdOpensStep == TypeOK /\ ThresholdOpens /\ [Next]_vars => ThresholdOpens'
<1> SUFFICES ASSUME TypeOK, ThresholdOpens, [Next]_vars,
                    state' = "CLOSED", failure_count' >= failure_threshold
             PROVE  \E c \in Callers : pc'[c] = "toOpen"
    BY DEF ThresholdOpens
<1> DEFINE Goal == \E c \in Callers : pc'[c] = "toOpen"
<1> USE ConfigAssumption DEF TypeOK
<1>1. ASSUME UNCHANGED <<state, failure_count>>,
             \A c \in Callers : pc[c] = "toOpen" => pc'[c] = pc[c]
      PROVE  Goal
    BY <1>1 DEF ThresholdOpens
<1>2. ASSUME NEW c \in Callers,
             \/ Begin(c) \/ CheckLocked(c) \/ Decide(c) \/ Reject(c) \/ Admit(c)
             \/ Succeed(c) \/ DecideClose(c) \/ Cancel(c) \/ Release(c)
      PROVE  Goal
    <2>1. UNCHANGED state
        BY <1>2 DEF Begin, CheckLocked, Decide, Reject, Admit, Succeed, DecideClose,
                    Cancel, Release
    <2>2. UNCHANGED failure_count
        BY <1>2 DEF Begin, CheckLocked, Decide, Reject, Admit, Succeed, DecideClose,
                    Cancel, Release
    <2>3. /\ pc[c] # "toOpen"
          /\ \A d \in Callers \ {c} : pc'[d] = pc[d]
        BY <1>2 DEF Begin, CheckLocked, Decide, Reject, Admit, Succeed, DecideClose,
                    Cancel, Release, Goto
    <2>4. QED  BY <2>1, <2>2, <2>3, <1>1
<1>3. ASSUME NEW c \in Callers, Fail(c) PROVE Goal
    BY <1>3 DEF Fail, Goto
<1>4. ASSUME NEW c \in Callers, ToHalfOpen(c) \/ ToClosed(c) \/ ToOpen(c) PROVE Goal
    BY <1>4 DEF ToHalfOpen, ToClosed, ToOpen, SetHalfOpen, SetClosed, SetOpen
<1>5. CASE Trip \/ Reset  BY <1>5 DEF Trip, Reset, SetOpen, SetClosed
<1>6. CASE RecoveryTimeoutElapses \/ FailureWindowElapses \/ Heal \/ UNCHANGED vars
    BY <1>6, <1>1 DEF RecoveryTimeoutElapses, FailureWindowElapses, Heal, vars
<1>7. QED  BY <1>2, <1>3, <1>4, <1>5, <1>6 DEF Next, Proceed

\* A closed breaker that reached its threshold is being opened.
THEOREM ThresholdIsNotLost == Spec => []ThresholdOpens
<1>1. Init => ThresholdOpens  BY ConfigAssumption DEF Init, ThresholdOpens
<1>2. QED  BY <1>1, TypeCorrect, ThresholdOpensStep, PTL DEF Spec
=============================================================================
