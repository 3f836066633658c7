----------------------------- MODULE AgentsProofs -----------------------------
(***************************************************************************)
(* What the agents of phase one, the Fire agent, the validators of what they *)
(* design and the Air agent keep, for every value of the constants, with the *)
(* search for cycles and the recursive definitions these rest on.            *)
(* SupportProofs concludes.                                                  *)
(***************************************************************************)
EXTENDS PhaseOneAgents, FireDecomposition, ArchitectureValidation, AirAgent,
        FiniteSetTheorems, NaturalsInduction, WellFoundedInduction, TLAPS

-----------------------------------------------------------------------------
(* Recursion over numbers *)

\* What holds of zero and is passed on holds up to any number.
LEMMA PassedOn ==
    ASSUME NEW m \in Nat, NEW T, 0 \in T, \A n \in 0 .. m - 1 : n \in T => n + 1 \in T
    PROVE  0 .. m \subseteq T
  <1> DEFINE R == OpToRel(<, Nat)
             U == {n \in 0 .. m : n \notin T}
  <1>1. CASE U # {}
    <2>1. U \subseteq Nat
      OBVIOUS
    <2>2. PICK l \in U : \A t \in U : ~(<<t, l>> \in R)
      <3> HIDE DEF R, U
      <3> QED BY <1>1, <2>1, NatLessThanWellFounded, WFMin DEF R
    <2>3. l \in 0 .. m /\ l \notin T /\ l # 0
      OBVIOUS
    <2>4. l - 1 \in 0 .. m - 1 /\ l - 1 \in 0 .. m /\ (l - 1) + 1 = l /\ l - 1 < l /\ l - 1 \in Nat
      BY <2>3
    <2>5. l - 1 \notin T
      BY <2>3, <2>4
    <2>6. l - 1 \in U
      BY <2>4, <2>5
    <2>7. <<l - 1, l>> \in R
      BY <2>3, <2>4 DEF OpToRel
    <2> QED BY <2>2, <2>6, <2>7, Zenon
  <1>2. CASE U = {}
    BY <1>2
  <1> QED BY <1>1, <1>2

\* f is what m steps g come to, from a on.
Computes(f, A, a, m, g) ==
    f \in [0 .. m -> A] /\ f[0] = a /\ \A n \in 1 .. m : f[n] = g[n][f[n - 1]]

\* A computation of m steps, each from what the last one came to, exists.
LEMMA Computed ==
    ASSUME NEW A, NEW a \in A, NEW m \in Nat, NEW g \in [1 .. m -> [A -> A]]
    PROVE  \E f : Computes(f, A, a, m, g)
  <1> DEFINE Reaches(f, k) == f \in [0 .. k -> A] /\ f[0] = a /\ \A n \in 1 .. k : f[n] = g[n][f[n - 1]]
             T == {k \in 0 .. m : \E f : Reaches(f, k)}
  <1>1. 0 \in T
    <2>1. Reaches([n \in 0 .. 0 |-> a], 0)
      OBVIOUS
    <2>2. 0 \in 0 .. m
      OBVIOUS
    <2> HIDE DEF Reaches
    <2> QED BY <2>1, <2>2
  <1>2. ASSUME NEW k \in 0 .. m - 1, k \in T PROVE k + 1 \in T
    <2>1. PICK f : Reaches(f, k)
      <3> HIDE DEF Reaches
      <3> QED BY <1>2
    <2>2. k \in Nat /\ k + 1 \in 1 .. m /\ k + 1 \in 0 .. m
      OBVIOUS
    <2>3. g[k + 1] \in [A -> A] /\ f[k] \in A
      BY <2>1, <2>2
    <2>4. PICK b \in A : b = g[k + 1][f[k]]
      BY <2>3
    <2>5. PICK h : h = [n \in 0 .. k + 1 |-> IF n = k + 1 THEN b ELSE f[n]]
      OBVIOUS
    <2>6. h \in [0 .. k + 1 -> A] /\ h[0] = a
      BY <2>1, <2>2, <2>5
    <2>7. ASSUME NEW n \in 1 .. k + 1 PROVE h[n] = g[n][h[n - 1]]
      <3>1. CASE n = k + 1
        <4>1. h[n] = b /\ h[n - 1] = f[k]
          BY <2>2, <2>5, <3>1
        <4> QED BY ONLY <2>4, <3>1, <4>1
      <3>2. CASE n # k + 1
        <4>1. n \in 1 .. k /\ n - 1 \in 0 .. k
          BY <2>2, <3>2
        <4>2. h[n] = f[n] /\ h[n - 1] = f[n - 1]
          BY <2>2, <2>5, <4>1
        <4> QED BY <2>1, <4>1, <4>2
      <3> QED BY <3>1, <3>2
    <2>8. Reaches(h, k + 1)
      BY <2>6, <2>7
    <2> HIDE DEF Reaches
    <2> QED BY <2>2, <2>8
  <1>3. m \in T
    <2> HIDE DEF T
    <2>1. 0 .. m \subseteq T
      BY <1>1, <1>2, PassedOn
    <2> QED BY <2>1
  <1>4. PICK f : Reaches(f, m)
    <2> HIDE DEF Reaches
    <2> QED BY <1>3
  <1>5. Computes(f, A, a, m, g)
    BY <1>4 DEF Computes
  <1> QED BY <1>5, Zenon

-----------------------------------------------------------------------------
(* An agent of phase one (PhaseOneAgents) *)

OpRecords ==
    [method : Methods, at : OpSteps, alone : BOOLEAN,
     found : Categories \cup {"none", "design"}, passed : Reflections \cup {"none"}]
Ends ==
    [method : Methods \cup {"none"}, answer : OpAnswers \cup {"none"},
     alone : BOOLEAN, passed : Reflections \cup {"none"}, told : BOOLEAN]
Healths == {"none", "HEALTHY", "DEGRADED", "CRITICAL"}

\* The state of the agent but for its operations.
AgentTyped ==
    /\ agent_class \in Classes /\ development_state \in DevelopmentStates
    /\ health \in Healths /\ greeting \in BOOLEAN /\ opsBegun \in Nat
    /\ validation_history \in Seq(Categories) /\ Len(validation_history) <= history_limit

\* What an operation has in hand at its place.
InPlace(r) ==
    /\ r.method = "validate" /\ r.at \in {"reflection", "finish", "report", "revise"} =>
          r.found \in Categories
    /\ r.method = "_process" /\ r.at = "report" =>
          r.passed \in {"passed", "unclear"} /\ agent_class \in Designers

\* The state in which an operation finds the agent that nothing else used.
FindsState(r) ==
    /\ r.method = "outline" => development_state = "ANALYZING"
    /\ r.method \in {"reflect", "validate"} => development_state = "VALIDATING"
    /\ r.method = "refine" => development_state = "REFINING"
    /\ r.method = "_process" /\ r.at \in {"reflect", "reflection"} /\ agent_class = "GardenPlanner" =>
          development_state = "VALIDATING"
    /\ r.method = "_process" /\ r.at = "report" => development_state = "COMPLETE"
    /\ r.method = "validate" /\ r.at = "report" =>
          /\ validation_history # <<>>
          /\ validation_history[Len(validation_history)] = r.found

\* What an operation that ran alone leaves, by how it ended.
LeavesState(method, answer, told) ==
    /\ development_state = "COMPLETE" <=>
          \/ answer \in Accepting
          \/ answer = "result" /\ method = "process"
          \/ answer = "design" /\ agent_class # "GardenPlanner"
    /\ development_state = "ERROR" <=>
          \/ answer \in {"failure", "raised"} /\ method \notin {"reflect", "refine"}
          \/ answer = "UNKNOWN"
    /\ told /\ method \in {"_process", "validate"} =>
          (health = "CRITICAL" <=> development_state = "ERROR")
    /\ answer \in Categories =>
          /\ validation_history # <<>>
          /\ validation_history[Len(validation_history)] = answer

OpsTyped == agentOp \in [AgentOps -> OpRecords] /\ lastEnd \in Ends
AloneRight ==
    \A o \in AgentOps : agentOp[o].at # "idle" /\ agentOp[o].alone =>
        ~greeting /\ \A p \in AgentOps : p # o => agentOp[p].at = "idle"
PlacesRight == \A o \in AgentOps : InPlace(agentOp[o])
StateFound ==
    \A o \in AgentOps : agentOp[o].at # "idle" /\ agentOp[o].alone => FindsState(agentOp[o])
EndRight ==
    /\ Settled => ~greeting /\ LeavesState(lastEnd.method, lastEnd.answer, lastEnd.told)
    /\ lastEnd.answer = "design" => lastEnd.passed \in {"passed", "unclear"}

AgentInv == AgentTyped /\ OpsTyped /\ AloneRight /\ PlacesRight /\ StateFound /\ EndRight

\* What it says of the types and of what is told.
LEMMA AgentsTold == AgentInv => AgentsTypeOK /\ AgentsTellRight
  <1> SUFFICES ASSUME AgentInv PROVE AgentsTypeOK /\ AgentsTellRight
    OBVIOUS
  <1>1. AgentsTypeOK
    BY DEF AgentInv, AgentTyped, OpsTyped, OpRecords, Ends, Healths, AgentsTypeOK
  <1>2. Settled => LeavesState(lastEnd.method, lastEnd.answer, lastEnd.told)
    BY DEF AgentInv, EndRight
  <1>3. CompleteIsEarned /\ ErrorIsMarked /\ HealthFollows
    BY <1>2, Zenon DEF LeavesState, CompleteIsEarned, ErrorIsMarked, HealthFollows
  <1>4. AnswersAreBacked
    BY <1>2, Zenon DEF LeavesState, AnswersAreBacked, AgentInv, EndRight
  <1> QED BY <1>1, <1>3, <1>4 DEF AgentsTellRight

\* An operation goes on.
LEMMA OpGoesOn ==
    ASSUME AgentInv, NEW o \in AgentOps, agentOp[o].at # "idle", NEW r \in OpRecords,
           agentOp' = [agentOp EXCEPT ![o] = r], r.at # "idle", r.alone = agentOp[o].alone,
           UNCHANGED <<agent_class, greeting, lastEnd>>, AgentTyped',
           InPlace(r), r.alone => FindsState(r)'
    PROVE  AgentInv'
  <1>1. /\ agentOp'[o] = r /\ \A p \in AgentOps : p # o => agentOp'[p] = agentOp[p]
        /\ OpsTyped'
    BY DEF AgentInv, OpsTyped
  <1>2. \A p \in AgentOps : p # o /\ agentOp[p].at # "idle" => ~agentOp[p].alone
    BY DEF AgentInv, AloneRight
  <1>3. AloneRight'
    BY <1>1, <1>2 DEF AgentInv, AloneRight
  <1>4. PlacesRight'
    BY <1>1 DEF AgentInv, PlacesRight, InPlace
  <1>5. StateFound'
    <2> SUFFICES ASSUME NEW p \in AgentOps, agentOp'[p].at # "idle", agentOp'[p].alone
                 PROVE  FindsState(agentOp[p])'
      BY DEF StateFound
    <2>1. p = o
      BY <1>1, <1>2
    <2> QED BY <1>1, <2>1 DEF FindsState
  <1>6. EndRight'
    <2>1. ~Settled'
      BY <1>1 DEF Settled, AgentBusy
    <2> QED BY <2>1 DEF AgentInv, EndRight
  <1> QED BY <1>1, <1>3, <1>4, <1>5, <1>6 DEF AgentInv

\* An operation ends.
LEMMA OpEnds ==
    ASSUME AgentInv, NEW o \in AgentOps, agentOp[o].at # "idle", NEW e \in Ends,
           agentOp' = [agentOp EXCEPT ![o] = NoOp], lastEnd' = e, e.alone = agentOp[o].alone,
           UNCHANGED <<agent_class, greeting>>, AgentTyped',
           e.answer = "design" => e.passed \in {"passed", "unclear"},
           e.alone /\ e.answer # "cancelled" => LeavesState(e.method, e.answer, e.told)'
    PROVE  AgentInv'
  <1>0. NoOp \in OpRecords /\ NoOp.at = "idle"
    BY DEF NoOp, OpRecords, Methods, OpSteps
  <1>1. /\ agentOp'[o] = NoOp /\ \A p \in AgentOps : p # o => agentOp'[p] = agentOp[p]
        /\ OpsTyped'
    BY <1>0 DEF AgentInv, OpsTyped
  <1>2. \A p \in AgentOps : p # o /\ agentOp[p].at # "idle" => ~agentOp[p].alone
    BY DEF AgentInv, AloneRight
  <1>3. AloneRight'
    BY <1>0, <1>1, <1>2 DEF AgentInv, AloneRight
  <1>4. PlacesRight'
    BY <1>0, <1>1 DEF AgentInv, PlacesRight, InPlace
  <1>5. StateFound'
    BY <1>0, <1>1, <1>2 DEF AgentInv, StateFound
  <1>6. EndRight'
    <2>1. Settled' => e.alone /\ e.answer # "cancelled"
      BY DEF Settled
    <2>2. e.alone => ~greeting'
      BY DEF AgentInv, AloneRight
    <2>3. Settled' => LeavesState(lastEnd.method, lastEnd.answer, lastEnd.told)'
      BY <2>1 DEF LeavesState
    <2> QED BY <2>1, <2>2, <2>3 DEF EndRight
  <1> QED BY <1>1, <1>3, <1>4, <1>5, <1>6 DEF AgentInv

\* What EndWith says of the end.
LEMMA EndsWith ==
    ASSUME AgentInv, NEW o \in AgentOps, NEW answer \in OpAnswers, NEW told \in BOOLEAN,
           EndWith(o, answer, told)
    PROVE  /\ agentOp' = [agentOp EXCEPT ![o] = NoOp]
           /\ \E e \in Ends : /\ lastEnd' = e /\ e.method = agentOp[o].method /\ e.answer = answer
                              /\ e.alone = agentOp[o].alone /\ e.passed = agentOp[o].passed
                              /\ e.told = told
  <1>1. agentOp[o] \in OpRecords
    BY DEF AgentInv, OpsTyped
  <1>2. PICK m \in Methods, a \in BOOLEAN, p \in Reflections \cup {"none"} :
           m = agentOp[o].method /\ a = agentOp[o].alone /\ p = agentOp[o].passed
    BY <1>1 DEF OpRecords
  <1>3. PICK e : e = [method |-> m, answer |-> answer, alone |-> a, passed |-> p, told |-> told]
    OBVIOUS
  <1>4. /\ e \in Ends /\ e.method = m /\ e.answer = answer /\ e.alone = a /\ e.passed = p
        /\ e.told = told
    <2> HIDE <1>2
    <2> QED BY <1>3 DEF Ends
  <1>5. lastEnd' = e
    BY <1>2, <1>3, Zenon DEF EndWith
  <1> QED BY <1>2, <1>4, <1>5, Zenon DEF EndWith

\* An operation ends: what it answers is right where it was alone, and the state it
\* leaves is what the others find.
LEMMA EndsKeep ==
    ASSUME AgentInv, NEW o \in AgentOps, agentOp[o].at # "idle",
           NEW answer \in OpAnswers, NEW told \in BOOLEAN, EndWith(o, answer, told),
           UNCHANGED <<agent_class, greeting>>, AgentTyped',
           answer = "design" => agentOp[o].passed \in {"passed", "unclear"},
           NEW m, m = agentOp[o].method,
           agentOp[o].alone /\ answer # "cancelled" => LeavesState(m, answer, told)'
    PROVE  AgentInv'
  <1>1. PICK e \in Ends : /\ lastEnd' = e /\ e.method = agentOp[o].method /\ e.answer = answer
                          /\ e.alone = agentOp[o].alone /\ e.passed = agentOp[o].passed
                          /\ e.told = told
    BY EndsWith
  <1>2. agentOp' = [agentOp EXCEPT ![o] = NoOp]
    BY DEF EndWith
  <1>3. e.alone /\ e.answer # "cancelled" => LeavesState(e.method, e.answer, e.told)'
    BY <1>1, Zenon
  <1> QED BY <1>1, <1>2, <1>3, OpEnds

\* What a move to another place changes.
LEMMA Moved ==
    ASSUME AgentInv, NEW o \in AgentOps, NEW step \in OpSteps, Move(o, step)
    PROVE  \E r \in OpRecords :
              /\ agentOp' = [agentOp EXCEPT ![o] = r]
              /\ r.at = step /\ r.method = agentOp[o].method /\ r.alone = agentOp[o].alone
              /\ r.found = agentOp[o].found /\ r.passed = agentOp[o].passed
  <1>1. agentOp[o] \in OpRecords
    BY DEF AgentInv, OpsTyped
  <1>2. PICK r : r = [agentOp[o] EXCEPT !.at = step]
    OBVIOUS
  <1>3. /\ r \in OpRecords /\ r.at = step /\ r.method = agentOp[o].method
        /\ r.alone = agentOp[o].alone /\ r.found = agentOp[o].found /\ r.passed = agentOp[o].passed
    BY <1>1, <1>2 DEF OpRecords
  <1>4. agentOp' = [agentOp EXCEPT ![o] = r]
    BY <1>2 DEF Move, AgentInv, OpsTyped
  <1> QED BY <1>3, <1>4, Zenon

\* The first report, and an operation that begins.
LEMMA GreetKeeps == ASSUME AgentInv, Greet PROVE AgentInv'
  <1>1. /\ greeting /\ greeting' = FALSE /\ health' = StatusOf(development_state)
        /\ UNCHANGED <<agent_class, development_state, validation_history, agentOp, lastEnd, opsBegun>>
    BY DEF Greet
  <1>2. AgentTyped'
    BY <1>1 DEF AgentInv, AgentTyped, StatusOf, Healths
  <1>3. \A o \in AgentOps : agentOp[o].at # "idle" => ~agentOp[o].alone
    BY <1>1 DEF AgentInv, AloneRight
  <1>4. OpsTyped' /\ PlacesRight'
    BY <1>1 DEF AgentInv, OpsTyped, PlacesRight, InPlace
  <1>5. AloneRight' /\ StateFound'
    BY <1>1, <1>3 DEF AloneRight, StateFound
  <1>6. EndRight'
    <2>1. ~Settled
      BY <1>1 DEF AgentInv, EndRight
    <2>2. ~Settled'
      BY <1>1, <2>1 DEF Settled, AgentBusy
    <2> QED BY <1>1, <2>2 DEF AgentInv, EndRight
  <1> QED BY <1>2, <1>4, <1>5, <1>6 DEF AgentInv

\* An operation begins: it is alone where none is under way.
LEMMA OpBeginKeeps ==
    ASSUME AgentInv, NEW o \in AgentOps, NEW m \in Methods, BeginOp(o, m)
    PROVE  AgentInv'
  <1>0. /\ agentOp[o].at = "idle" /\ opsBegun' = opsBegun + 1 /\ m \in MethodsOf(agent_class)
        /\ UNCHANGED <<agent_class, greeting, validation_history, lastEnd>>
    BY DEF BeginOp
  <1>1. PICK b \in BOOLEAN : b = (~AgentBusy /\ ~greeting)
    OBVIOUS
  <1>2. PICK step \in {"call", "start"} :
           step = IF m \in {"process", "outline"} THEN "call" ELSE "start"
    OBVIOUS
  <1>3. PICK r : r = [NoOp EXCEPT !.method = m, !.alone = b, !.at = step]
    OBVIOUS
  <1>4. r \in OpRecords /\ r.method = m /\ r.alone = b /\ r.at = step /\ step # "idle"
    <2> HIDE <1>1, <1>2
    <2> QED BY <1>3 DEF NoOp, OpRecords, OpSteps
  <1>5. agentOp' = [p \in AgentOps |->
            IF p = o THEN r ELSE [agentOp[p] EXCEPT !.alone = @ /\ agentOp[p].at = "idle"]]
    BY <1>1, <1>2, <1>3, Zenon DEF BeginOp
  <1>6. agentOp'[o] = r
    BY <1>5
  <1>7. ASSUME NEW p \in AgentOps, p # o
        PROVE  /\ agentOp'[p] \in OpRecords /\ agentOp'[p].at = agentOp[p].at
               /\ agentOp'[p].method = agentOp[p].method /\ agentOp'[p].found = agentOp[p].found
               /\ agentOp'[p].passed = agentOp[p].passed
               /\ agentOp[p].at # "idle" => ~agentOp'[p].alone
    <2>1. PICK a \in BOOLEAN : a = (agentOp[p].alone /\ agentOp[p].at = "idle")
      OBVIOUS
    <2>2. agentOp'[p] = [agentOp[p] EXCEPT !.alone = a]
      BY <1>5, <1>7, <2>1, Zenon
    <2>3. agentOp[p] \in OpRecords
      BY DEF AgentInv, OpsTyped
    <2>4. /\ agentOp'[p] \in OpRecords /\ agentOp'[p].at = agentOp[p].at /\ agentOp'[p].alone = a
          /\ agentOp'[p].method = agentOp[p].method /\ agentOp'[p].found = agentOp[p].found
          /\ agentOp'[p].passed = agentOp[p].passed
      <3> HIDE <2>1
      <3> QED BY <2>2, <2>3 DEF OpRecords
    <2> QED BY <2>1, <2>4
  <1>8. AgentTyped'
    <2>1. development_state' \in DevelopmentStates
      BY DEF BeginOp, AgentInv, AgentTyped, DevelopmentStates
    <2>2. health' \in Healths
      BY DEF BeginOp, AgentInv, AgentTyped, StatusOf, Healths
    <2> QED BY <1>0, <2>1, <2>2 DEF AgentInv, AgentTyped
  <1>9. OpsTyped'
    BY <1>0, <1>4, <1>5, <1>6, <1>7 DEF AgentInv, OpsTyped
  <1>10. b => ~greeting /\ \A p \in AgentOps : agentOp[p].at = "idle"
    BY <1>1 DEF AgentBusy
  <1>11. AloneRight'
    BY <1>0, <1>4, <1>6, <1>7, <1>10 DEF AloneRight
  <1>12. PlacesRight'
    BY <1>0, <1>2, <1>4, <1>6, <1>7 DEF AgentInv, PlacesRight, InPlace
  <1>13. StateFound'
    <2> SUFFICES ASSUME NEW p \in AgentOps, agentOp'[p].at # "idle", agentOp'[p].alone
                 PROVE  FindsState(agentOp[p])'
      BY DEF StateFound
    <2>1. p = o
      BY <1>7
    <2>2. FindsState(r)'
      BY <1>0, <1>2, <1>4 DEF BeginOp, FindsState
    <2> QED BY <1>6, <2>1, <2>2 DEF FindsState
  <1>14. EndRight'
    <2>1. ~Settled'
      BY <1>4, <1>6 DEF Settled, AgentBusy
    <2> QED BY <1>0, <2>1 DEF AgentInv, EndRight
  <1> QED BY <1>8, <1>9, <1>11, <1>12, <1>13, <1>14 DEF AgentInv

\* The operations that end without a verdict.
LEMMA PlainEnds ==
    ASSUME AgentInv, NEW o \in AgentOps, ProcessEnds(o) \/ Outlined(o) \/ Reflected(o) \/ Refined(o)
    PROVE  AgentInv'
  <1>0. agentOp[o].at # "idle" /\ UNCHANGED <<agent_class, greeting, opsBegun, validation_history>>
    BY DEF ProcessEnds, Outlined, Reflected, Refined, unmoved
  <1>1. development_state' \in DevelopmentStates /\ health' \in Healths
    BY DEF ProcessEnds, Outlined, Reflected, Refined, shown, AgentInv, AgentTyped,
           DevelopmentStates, Healths
  <1>2. AgentTyped'
    BY <1>0, <1>1 DEF AgentInv, AgentTyped
  <1>3. PICK m : m = agentOp[o].method
    OBVIOUS
  <1>4. agentOp[o].alone => FindsState(agentOp[o])
    BY <1>0 DEF AgentInv, StateFound
  <1>5. PICK outcome \in OpAnswers, failure \in OpAnswers, reflection \in OpAnswers,
             refinement \in OpAnswers, yes \in BOOLEAN :
           outcome = "result" /\ failure = "failure" /\ reflection = "reflection"
             /\ refinement = "refinement" /\ yes = TRUE
    BY DEF OpAnswers
  <1>6. CASE ProcessEnds(o)
    <2>1. m = "process"
      BY <1>3, <1>6 DEF ProcessEnds
    <2>2. CASE development_state' = "COMPLETE" /\ EndWith(o, "result", TRUE)
      <3>1. LeavesState(m, outcome, yes)'
        BY <1>5, <2>1, <2>2 DEF LeavesState, Accepting, Categories
      <3> QED BY <1>0, <1>2, <1>3, <1>5, <2>2, <3>1, EndsKeep
    <2>3. CASE development_state' = "ERROR" /\ EndWith(o, "failure", TRUE)
      <3>1. LeavesState(m, failure, yes)'
        BY <1>5, <2>1, <2>3 DEF LeavesState, Accepting, Categories
      <3> QED BY <1>0, <1>2, <1>3, <1>5, <2>3, <3>1, EndsKeep
    <2> QED BY <1>6, <2>2, <2>3 DEF ProcessEnds
  <1>7. CASE Outlined(o)
    <2>1. m = "outline" /\ EndWith(o, "result", TRUE) /\ UNCHANGED shown
      BY <1>3, <1>7 DEF Outlined
    <2>2. agentOp[o].alone => LeavesState(m, outcome, yes)'
      BY <1>3, <1>4, <1>5, <2>1 DEF FindsState, LeavesState, Accepting, Categories, shown
    <2> QED BY <1>0, <1>2, <1>3, <1>5, <2>1, <2>2, EndsKeep
  <1>8. CASE Reflected(o)
    <2>1. m = "reflect" /\ development_state' = development_state
      BY <1>3, <1>8 DEF Reflected
    <2>2. agentOp[o].alone => LeavesState(m, failure, yes)' /\ LeavesState(m, reflection, yes)'
      BY <1>3, <1>4, <1>5, <2>1 DEF FindsState, LeavesState, Accepting, Categories
    <2>3. CASE EndWith(o, "failure", TRUE)
      BY <1>0, <1>2, <1>3, <1>5, <2>2, <2>3, EndsKeep
    <2>4. CASE EndWith(o, "reflection", TRUE)
      BY <1>0, <1>2, <1>3, <1>5, <2>2, <2>4, EndsKeep
    <2> QED BY <1>8, <2>3, <2>4 DEF Reflected
  <1>9. CASE Refined(o)
    <2>1. m = "refine" /\ development_state' = development_state
      BY <1>3, <1>9 DEF Refined
    <2>2. agentOp[o].alone => LeavesState(m, failure, yes)' /\ LeavesState(m, refinement, yes)'
      BY <1>3, <1>4, <1>5, <2>1 DEF FindsState, LeavesState, Accepting, Categories
    <2>3. CASE EndWith(o, "failure", TRUE)
      BY <1>0, <1>2, <1>3, <1>5, <2>2, <2>3, EndsKeep
    <2>4. CASE EndWith(o, "refinement", TRUE)
      BY <1>0, <1>2, <1>3, <1>5, <2>2, <2>4, EndsKeep
    <2> QED BY <1>9, <2>3, <2>4 DEF Refined
  <1> QED BY <1>6, <1>7, <1>8, <1>9

\* A helper raises, or the caller is cancelled.
LEMMA RaisesKeep ==
    ASSUME AgentInv, NEW o \in AgentOps, HelperRaises(o)
    PROVE  AgentInv'
  <1>0. /\ agentOp[o].at # "idle" /\ UNCHANGED <<agent_class, greeting, opsBegun, validation_history>>
        /\ UNCHANGED <<development_state, health>>
    BY DEF HelperRaises, unmoved, shown
  <1>1. AgentTyped'
    BY <1>0 DEF AgentInv, AgentTyped
  <1>2. PICK m : m = agentOp[o].method
    OBVIOUS
  <1>3. PICK escaped \in OpAnswers, cancelled \in OpAnswers, no \in BOOLEAN :
           escaped = "raised" /\ cancelled = "cancelled" /\ no = FALSE
    BY DEF OpAnswers
  <1>4. CASE EndWith(o, "cancelled", FALSE)
    BY <1>0, <1>1, <1>2, <1>3, <1>4, EndsKeep
  <1>5. CASE agentOp[o].method \in {"reflect", "refine"} /\ EndWith(o, "raised", FALSE)
    <2>1. agentOp[o].alone => LeavesState(m, escaped, no)'
      <3>1. agentOp[o].alone => development_state \in {"VALIDATING", "REFINING"}
        BY <1>0, <1>5 DEF AgentInv, StateFound, FindsState
      <3> QED BY <1>0, <1>2, <1>3, <1>5, <3>1 DEF LeavesState, Accepting, Categories
    <2> QED BY <1>0, <1>1, <1>2, <1>3, <1>5, <2>1, EndsKeep
  <1> QED BY <1>4, <1>5 DEF HelperRaises

\* The design goes on.
LEMMA DesignGoesOn ==
    ASSUME AgentInv, NEW o \in AgentOps, DesignBegins(o) \/ ReflectionBegins(o) \/ RefineBegins(o)
    PROVE  AgentInv'
  <1>0. /\ agentOp[o].at # "idle" /\ UNCHANGED <<agent_class, greeting, opsBegun, validation_history, lastEnd>>
        /\ development_state' \in DevelopmentStates /\ health' = health
    BY DEF DesignBegins, ReflectionBegins, RefineBegins, unmoved, shown, AgentInv, AgentTyped,
           DevelopmentStates
  <1>1. AgentTyped'
    BY <1>0 DEF AgentInv, AgentTyped
  <1>2. agentOp[o].alone => FindsState(agentOp[o])
    BY <1>0 DEF AgentInv, StateFound
  <1>3. PICK call \in OpSteps, reflecting \in OpSteps : call = "call" /\ reflecting = "reflection"
    BY DEF OpSteps
  <1>4. CASE DesignBegins(o)
    <2>1. PICK r \in OpRecords :
              /\ agentOp' = [agentOp EXCEPT ![o] = r]
              /\ r.at = call /\ r.method = agentOp[o].method /\ r.alone = agentOp[o].alone
      BY <1>3, <1>4, Moved DEF DesignBegins
    <2>2. r.method = "_process"
      BY <1>4, <2>1 DEF DesignBegins
    <2>3. InPlace(r) /\ FindsState(r)'
      BY <1>3, <2>1, <2>2 DEF InPlace, FindsState
    <2> QED BY <1>0, <1>1, <1>3, <2>1, <2>3, OpGoesOn
  <1>5. CASE ReflectionBegins(o)
    <2>1. PICK r \in OpRecords :
              /\ agentOp' = [agentOp EXCEPT ![o] = r]
              /\ r.at = reflecting /\ r.method = agentOp[o].method /\ r.alone = agentOp[o].alone
      BY <1>3, <1>5, Moved DEF ReflectionBegins
    <2>2. /\ r.method \in {"_process", "reflect"}
          /\ r.method = "_process" => agentOp[o].at = "reflect"
          /\ development_state' = IF r.method = "_process" /\ agent_class \in Designers
                                  THEN "VALIDATING" ELSE development_state
      BY <1>5, <2>1 DEF ReflectionBegins
    <2>3. InPlace(r)
      BY <1>3, <2>1, <2>2 DEF InPlace
    <2>4. r.alone => FindsState(r)'
      BY <1>0, <1>2, <1>3, <2>1, <2>2 DEF FindsState, Designers
    <2> QED BY <1>0, <1>1, <1>3, <2>1, <2>3, <2>4, OpGoesOn
  <1>6. CASE RefineBegins(o)
    <2>1. PICK r \in OpRecords :
              /\ agentOp' = [agentOp EXCEPT ![o] = r]
              /\ r.at = call /\ r.method = agentOp[o].method /\ r.alone = agentOp[o].alone
      BY <1>3, <1>6, Moved DEF RefineBegins
    <2>2. r.method = "refine" /\ development_state' = development_state
      BY <1>6, <2>1 DEF RefineBegins, shown
    <2>3. InPlace(r) /\ (r.alone => FindsState(r)')
      BY <1>2, <1>3, <2>1, <2>2 DEF InPlace, FindsState
    <2> QED BY <1>0, <1>1, <1>3, <2>1, <2>3, OpGoesOn
  <1> QED BY <1>4, <1>5, <1>6

\* The call of _process has answered.
LEMMA DesignedKeeps ==
    ASSUME AgentInv, NEW o \in AgentOps, Designed(o)
    PROVE  AgentInv'
  <1>0. /\ agentOp[o].at = "call" /\ agentOp[o].method = "_process"
        /\ UNCHANGED <<agent_class, greeting, opsBegun, validation_history, lastEnd, health>>
        /\ development_state' \in DevelopmentStates
        /\ agent_class = "GardenPlanner" => development_state' = "VALIDATING"
    BY DEF Designed, unmoved, AgentInv, AgentTyped, DevelopmentStates
  <1>1. AgentTyped'
    BY <1>0 DEF AgentInv, AgentTyped
  <1>2. PICK step \in OpSteps, what \in Categories \cup {"none", "design"} :
           step = "reflect" /\ what = "design"
    BY DEF OpSteps
  <1>3. PICK r : r = [agentOp[o] EXCEPT !.at = step, !.found = what]
    OBVIOUS
  <1>4. /\ r \in OpRecords /\ r.at = step /\ r.method = agentOp[o].method
        /\ r.alone = agentOp[o].alone
    <2>1. agentOp[o] \in OpRecords
      BY DEF AgentInv, OpsTyped
    <2> HIDE <1>2
    <2> QED BY <1>3, <2>1 DEF OpRecords
  <1>5. agentOp' = [agentOp EXCEPT ![o] = r]
    BY <1>2, <1>3 DEF Designed, AgentInv, OpsTyped
  <1>6. InPlace(r) /\ FindsState(r)'
    BY <1>0, <1>2, <1>4 DEF InPlace, FindsState
  <1> QED BY <1>0, <1>1, <1>2, <1>4, <1>5, <1>6, OpGoesOn

\* It fails, or something else of _process raises.
LEMMA DesignFailsKeep ==
    ASSUME AgentInv, NEW o \in AgentOps, DesignFails(o) \/ DesignRaises(o)
    PROVE  AgentInv'
  <1>0. /\ agentOp[o].at # "idle" /\ agentOp[o].method = "_process"
        /\ UNCHANGED <<agent_class, greeting, opsBegun, validation_history>>
        /\ development_state' = "ERROR"
    BY DEF DesignFails, DesignRaises, unmoved
  <1>1. PICK told \in BOOLEAN, answer \in {"failure", "raised"} :
           EndWith(o, answer, told) /\ health' = IF told THEN "CRITICAL" ELSE health
    <2>1. CASE DesignFails(o)
      <3>1. PICK told \in BOOLEAN : told = (agent_class \in {"RootSystemArchitect", "TreePlacementPlanner"})
        <4>1. (agent_class \in {"RootSystemArchitect", "TreePlacementPlanner"}) \in BOOLEAN
          OBVIOUS
        <4> QED BY <4>1, Zenon
      <3>2. EndWith(o, "failure", told) /\ health' = IF told THEN "CRITICAL" ELSE health
        BY <2>1, <3>1, Zenon DEF DesignFails
      <3> QED BY <3>2, Zenon
    <2>2. CASE DesignRaises(o)
      <3>1. \E told \in BOOLEAN :
               EndWith(o, "raised", told) /\ health' = IF told THEN "CRITICAL" ELSE health
        BY <2>2, Zenon DEF DesignRaises
      <3> QED BY <3>1, Zenon
    <2> QED BY <2>1, <2>2
  <1>2. AgentTyped'
    BY <1>0, <1>1 DEF AgentInv, AgentTyped, DevelopmentStates, Healths
  <1>3. PICK m : m = agentOp[o].method
    OBVIOUS
  <1>4. LeavesState(m, answer, told)'
    BY <1>0, <1>1, <1>3 DEF LeavesState, Accepting, Categories
  <1>5. answer \in OpAnswers /\ answer # "design"
    BY DEF OpAnswers
  <1> QED BY <1>0, <1>1, <1>2, <1>3, <1>4, <1>5, EndsKeep

\* The verdict on a design.
LEMMA JudgedKeeps ==
    ASSUME AgentInv, NEW o \in AgentOps, Judged(o)
    PROVE  AgentInv'
  <1>0. /\ agentOp[o].at = "reflection" /\ agentOp[o].method = "_process"
        /\ UNCHANGED <<agent_class, greeting, opsBegun, validation_history>>
    BY DEF Judged, unmoved
  <1>1. PICK q \in Reflections : Rejects(o, q) \/ Completes(o, q)
    BY DEF Judged
  <1>2. PICK m : m = agentOp[o].method
    OBVIOUS
  <1>3. agentOp[o].alone => FindsState(agentOp[o])
    BY <1>0 DEF AgentInv, StateFound
  <1>4. CASE Rejects(o, q)
    <2>1. development_state' = "REFINING" /\ health' \in Healths
      BY <1>4 DEF Rejects, AgentInv, AgentTyped, Healths
    <2>2. PICK told \in BOOLEAN : told = (agent_class # "GardenPlanner")
      OBVIOUS
    <2>3. PICK answer \in OpAnswers : answer = "rejection"
      BY DEF OpAnswers
    <2>4. EndWith(o, answer, told) /\ (told => health' = "DEGRADED")
      BY <1>4, <2>2, <2>3, Zenon DEF Rejects
    <2>5. AgentTyped'
      BY <1>0, <2>1 DEF AgentInv, AgentTyped, DevelopmentStates
    <2>6. LeavesState(m, answer, told)'
      BY <1>0, <1>2, <2>1, <2>3, <2>4 DEF LeavesState, Accepting, Categories
    <2> QED BY <1>0, <1>2, <2>3, <2>4, <2>5, <2>6, EndsKeep
  <1>5. CASE Completes(o, q) /\ agent_class = "GardenPlanner"
    <2>1. /\ health' = "HEALTHY" /\ development_state' = development_state
          /\ agentOp' = [agentOp EXCEPT ![o] = NoOp]
          /\ lastEnd' = [method |-> agentOp[o].method, answer |-> "design",
                         alone |-> agentOp[o].alone, passed |-> q, told |-> TRUE]
      BY <1>5 DEF Completes, Designers
    <2>2. q \in {"passed", "unclear"}
      BY <1>5 DEF Completes, MayPass
    <2>3. AgentTyped'
      BY <1>0, <2>1 DEF AgentInv, AgentTyped, Healths
    <2>4. PICK a \in BOOLEAN, mm \in Methods : a = agentOp[o].alone /\ mm = agentOp[o].method
      BY DEF AgentInv, OpsTyped, OpRecords
    <2>5. PICK answer \in OpAnswers, yes \in BOOLEAN : answer = "design" /\ yes = TRUE
      BY DEF OpAnswers
    <2>6. PICK e : e = [method |-> mm, answer |-> answer, alone |-> a, passed |-> q, told |-> yes]
      OBVIOUS
    <2>7. e \in Ends /\ e.method = mm /\ e.answer = answer /\ e.alone = a /\ e.passed = q /\ e.told = yes
      <3> HIDE <2>2, <2>4, <2>5
      <3> QED BY <2>6 DEF Ends
    <2>8. lastEnd' = e
      BY <2>1, <2>4, <2>5, <2>6, Zenon
    <2>9. e.alone => development_state = "VALIDATING"
      BY <1>0, <1>3, <1>5, <2>4, <2>7 DEF FindsState
    <2>10. e.alone => LeavesState(e.method, e.answer, e.told)'
      BY <1>0, <1>5, <2>1, <2>5, <2>7, <2>9 DEF LeavesState, Accepting, Categories
    <2> QED BY <1>0, <2>1, <2>2, <2>3, <2>4, <2>7, <2>8, <2>10, OpEnds
  <1>6. CASE Completes(o, q) /\ agent_class # "GardenPlanner"
    <2>1. /\ agent_class \in Designers /\ development_state' = "COMPLETE"
          /\ agentOp' = [agentOp EXCEPT ![o].at = "report", ![o].passed = q]
          /\ UNCHANGED <<health, lastEnd>>
      BY <1>6 DEF Completes
    <2>2. q \in {"passed", "unclear"}
      BY <1>6 DEF Completes, MayPass
    <2>3. AgentTyped'
      BY <1>0, <2>1 DEF AgentInv, AgentTyped, DevelopmentStates
    <2>4. PICK step \in OpSteps : step = "report"
      BY DEF OpSteps
    <2>5. PICK r : r = [agentOp[o] EXCEPT !.at = step, !.passed = q]
      OBVIOUS
    <2>6. /\ r \in OpRecords /\ r.at = step /\ r.method = agentOp[o].method
          /\ r.alone = agentOp[o].alone /\ r.passed = q
      <3>1. agentOp[o] \in OpRecords
        BY DEF AgentInv, OpsTyped
      <3> HIDE <2>2, <2>4
      <3> QED BY <2>5, <3>1 DEF OpRecords
    <2>7. agentOp' = [agentOp EXCEPT ![o] = r]
      BY <2>1, <2>4, <2>5 DEF AgentInv, OpsTyped
    <2>8. InPlace(r) /\ FindsState(r)'
      BY <1>0, <2>1, <2>2, <2>4, <2>6 DEF InPlace, FindsState
    <2> QED BY <1>0, <2>1, <2>3, <2>4, <2>6, <2>7, <2>8, OpGoesOn
  <1> QED BY <1>1, <1>4, <1>5, <1>6

\* A design is reported.
LEMMA ReportedKeeps ==
    ASSUME AgentInv, NEW o \in AgentOps, DesignReported(o)
    PROVE  AgentInv'
  <1>0. /\ agentOp[o].at = "report" /\ agentOp[o].method = "_process" /\ EndWith(o, "design", TRUE)
        /\ UNCHANGED <<agent_class, greeting, opsBegun, validation_history, development_state>>
        /\ health' = StatusOf(development_state)
    BY DEF DesignReported, unmoved
  <1>1. AgentTyped'
    BY <1>0 DEF AgentInv, AgentTyped, StatusOf, Healths
  <1>2. PICK m : m = agentOp[o].method
    OBVIOUS
  <1>3. agentOp[o].passed \in {"passed", "unclear"} /\ agent_class \in Designers
    BY <1>0 DEF AgentInv, PlacesRight, InPlace
  <1>4. PICK answer \in OpAnswers, yes \in BOOLEAN : answer = "design" /\ yes = TRUE
    BY DEF OpAnswers
  <1>5. agentOp[o].alone => development_state = "COMPLETE"
    BY <1>0 DEF AgentInv, StateFound, FindsState
  <1>6. agentOp[o].alone => LeavesState(m, answer, yes)'
    BY <1>0, <1>2, <1>3, <1>4, <1>5 DEF LeavesState, Accepting, Categories, StatusOf, Designers
  <1> QED BY <1>0, <1>1, <1>2, <1>3, <1>4, <1>6, EndsKeep

\* What is kept of the validations, and which is the last.
LEMMA NewestKept ==
    ASSUME NEW h \in Seq(Categories), NEW c \in Categories
    PROVE  LET k == KeepNewest(Append(h, c))
           IN  k \in Seq(Categories) /\ Len(k) <= history_limit /\ k # <<>> /\ k[Len(k)] = c
  <1>1. PICK s \in Seq(Categories) : s = Append(h, c)
    <2>1. Append(h, c) \in Seq(Categories)
      OBVIOUS
    <2> QED BY <2>1, Zenon
  <1>2. PICK n \in Nat : n = Len(s)
    OBVIOUS
  <1>3. n > 0 /\ s[n] = c
    BY <1>1, <1>2
  <1>4. PICK k : k = KeepNewest(s)
    OBVIOUS
  <1>5. k \in Seq(Categories) /\ Len(k) <= history_limit /\ k # <<>> /\ k[Len(k)] = c
    <2>1. CASE n <= history_limit
      <3>1. k = s
        BY <1>2, <1>4, <2>1, HistoryAssumption DEF KeepNewest
      <3> QED BY <1>2, <1>3, <2>1, <3>1
    <2>2. CASE n > history_limit
      <3>1. k = SubSeq(s, n - history_limit + 1, n)
        BY <1>2, <1>4, <2>2, HistoryAssumption DEF KeepNewest
      <3>2. /\ n - history_limit + 1 \in 1 .. n /\ n \in 1 .. n
            /\ n - (n - history_limit + 1) + 1 = history_limit
        BY <1>3, <2>2, HistoryAssumption
      <3>3. k \in Seq(Categories) /\ Len(k) = history_limit /\ k[history_limit] = s[n]
        BY <1>2, <3>1, <3>2, HistoryAssumption
      <3> QED BY <1>3, <3>3, HistoryAssumption
    <2> QED BY <2>1, <2>2, HistoryAssumption
  <1> QED BY <1>1, <1>4, <1>5, Zenon

\* A validation goes on.
LEMMA ValidationGoesOn ==
    ASSUME AgentInv, NEW o \in AgentOps, ContextStored(o) \/ ValidationReflected(o)
    PROVE  AgentInv'
  <1>0. /\ agentOp[o].at # "idle" /\ agentOp[o].method = "validate"
        /\ UNCHANGED <<agent_class, greeting, opsBegun, validation_history, lastEnd>>
        /\ UNCHANGED <<development_state, health>>
    BY DEF ContextStored, ValidationReflected, unmoved, shown
  <1>1. AgentTyped'
    BY <1>0 DEF AgentInv, AgentTyped
  <1>2. agentOp[o].alone => FindsState(agentOp[o])
    BY <1>0 DEF AgentInv, StateFound
  <1>3. PICK step \in OpSteps :
           /\ Move(o, step) /\ step \in {"call", "finish", "revise"}
           /\ step # "call" => agentOp[o].found \in Categories
    <2>1. CASE ContextStored(o)
      BY <2>1 DEF ContextStored, OpSteps
    <2>2. CASE ValidationReflected(o)
      <3>1. agentOp[o].found \in Categories
        BY <2>2 DEF ValidationReflected, AgentInv, PlacesRight, InPlace
      <3> QED BY <2>2, <3>1 DEF ValidationReflected, OpSteps
    <2> QED BY <2>1, <2>2
  <1>4. PICK r \in OpRecords :
            /\ agentOp' = [agentOp EXCEPT ![o] = r]
            /\ r.at = step /\ r.method = agentOp[o].method /\ r.alone = agentOp[o].alone
            /\ r.found = agentOp[o].found
    BY <1>3, Moved
  <1>5. InPlace(r) /\ (r.alone => FindsState(r)')
    BY <1>0, <1>2, <1>3, <1>4 DEF InPlace, FindsState
  <1> QED BY <1>0, <1>1, <1>3, <1>4, <1>5, OpGoesOn

\* The first validation, or the revised one.
LEMMA ValidatedKeeps ==
    ASSUME AgentInv, NEW o \in AgentOps, NEW c \in Categories, Validated(o, c) \/ Revised(o, c)
    PROVE  AgentInv'
  <1>0. /\ agentOp[o].at # "idle" /\ agentOp[o].method = "validate"
        /\ UNCHANGED <<agent_class, greeting, opsBegun, validation_history, lastEnd>>
        /\ UNCHANGED <<development_state, health>>
    BY DEF Validated, Revised, unmoved, shown
  <1>1. AgentTyped'
    BY <1>0 DEF AgentInv, AgentTyped
  <1>2. agentOp[o].alone => FindsState(agentOp[o])
    BY <1>0 DEF AgentInv, StateFound
  <1>3. PICK step \in OpSteps :
           /\ agentOp' = [agentOp EXCEPT ![o].found = c, ![o].at = step]
           /\ step \in {"finish", "reflection"}
    <2>1. CASE Revised(o, c)
      BY <2>1 DEF Revised, OpSteps
    <2>2. CASE Validated(o, c)
      <3>1. PICK step \in OpSteps : step = IF c = "UNKNOWN" THEN "finish" ELSE "reflection"
        BY DEF OpSteps
      <3> QED BY <2>2, <3>1 DEF Validated
    <2> QED BY <2>1, <2>2
  <1>4. PICK r : r = [agentOp[o] EXCEPT !.found = c, !.at = step]
    OBVIOUS
  <1>5. /\ r \in OpRecords /\ r.at = step /\ r.method = agentOp[o].method
        /\ r.alone = agentOp[o].alone /\ r.found = c
    <2>1. agentOp[o] \in OpRecords
      BY DEF AgentInv, OpsTyped
    <2> HIDE <1>3
    <2> QED BY <1>4, <2>1 DEF OpRecords
  <1>6. agentOp' = [agentOp EXCEPT ![o] = r]
    BY <1>3, <1>4 DEF AgentInv, OpsTyped
  <1>7. InPlace(r) /\ (r.alone => FindsState(r)')
    BY <1>0, <1>2, <1>3, <1>5 DEF InPlace, FindsState
  <1> QED BY <1>0, <1>1, <1>3, <1>5, <1>6, <1>7, OpGoesOn

\* The history gets its entry.
LEMMA UpdatedKeeps ==
    ASSUME AgentInv, NEW o \in AgentOps, HistoryUpdated(o)
    PROVE  AgentInv'
  <1>0. /\ agentOp[o].at = "finish" /\ agentOp[o].method = "validate" /\ Move(o, "report")
        /\ UNCHANGED <<agent_class, greeting, opsBegun, lastEnd, development_state, health>>
        /\ validation_history' = KeepNewest(Append(validation_history, agentOp[o].found))
    BY DEF HistoryUpdated, unmoved, shown
  <1>1. PICK c \in Categories : c = agentOp[o].found
    BY <1>0 DEF AgentInv, PlacesRight, InPlace
  <1>2. PICK h \in Seq(Categories) : h = validation_history
    BY DEF AgentInv, AgentTyped
  <1>3. PICK k \in Seq(Categories) :
           /\ k = KeepNewest(Append(h, c))
           /\ Len(k) <= history_limit /\ k # <<>> /\ k[Len(k)] = c
    BY NewestKept
  <1>4. validation_history' = k
    BY <1>0, <1>1, <1>2, <1>3, Zenon
  <1>5. AgentTyped'
    BY <1>0, <1>3, <1>4 DEF AgentInv, AgentTyped
  <1>6. agentOp[o].alone => FindsState(agentOp[o])
    BY <1>0 DEF AgentInv, StateFound
  <1>7. PICK step \in OpSteps : step = "report"
    BY DEF OpSteps
  <1>8. PICK r \in OpRecords :
            /\ agentOp' = [agentOp EXCEPT ![o] = r]
            /\ r.at = step /\ r.method = agentOp[o].method /\ r.alone = agentOp[o].alone
            /\ r.found = agentOp[o].found
    BY <1>0, <1>7, Moved
  <1>9. InPlace(r)
    BY <1>0, <1>1, <1>8 DEF InPlace
  <1>10. r.alone => FindsState(r)'
    <2>1. validation_history' # <<>> /\ validation_history'[Len(validation_history')] = r.found
      BY <1>1, <1>3, <1>4, <1>8, Zenon
    <2>2. r.method = "validate" /\ r.at = "report" /\ (r.alone => development_state = "VALIDATING")
      BY <1>0, <1>6, <1>7, <1>8 DEF FindsState
    <2> QED BY <1>0, <2>1, <2>2 DEF FindsState
  <1> QED BY <1>0, <1>5, <1>7, <1>8, <1>9, <1>10, OpGoesOn

\* The validation ends, with an error or with its category.
LEMMA ValidationEnds ==
    ASSUME AgentInv, NEW o \in AgentOps, ValidationFails(o) \/ StateFollows(o)
    PROVE  AgentInv'
  <1>0. /\ agentOp[o].at # "idle" /\ agentOp[o].method = "validate"
        /\ UNCHANGED <<agent_class, greeting, opsBegun, validation_history>>
    BY DEF ValidationFails, StateFollows, unmoved
  <1>1. PICK m : m = agentOp[o].method
    OBVIOUS
  <1>2. PICK failure \in OpAnswers, escaped \in OpAnswers, yes \in BOOLEAN, no \in BOOLEAN :
           failure = "failure" /\ escaped = "raised" /\ yes = TRUE /\ no = FALSE
    BY DEF OpAnswers
  <1>3. CASE ValidationFails(o)
    <2>1. development_state' = "ERROR" /\ ErrorResponse(o)
      BY <1>3 DEF ValidationFails, ErrorResponse
    <2>2. CASE health' = "CRITICAL" /\ EndWith(o, "failure", TRUE)
      <3>1. AgentTyped'
        BY <1>0, <2>1, <2>2 DEF AgentInv, AgentTyped, DevelopmentStates, Healths
      <3>2. LeavesState(m, failure, yes)'
        BY <1>0, <1>1, <1>2, <2>1, <2>2 DEF LeavesState, Accepting, Categories
      <3> QED BY <1>0, <1>1, <1>2, <2>2, <3>1, <3>2, EndsKeep
    <2>3. CASE UNCHANGED health /\ EndWith(o, "raised", FALSE)
      <3>1. AgentTyped'
        BY <1>0, <2>1, <2>3 DEF AgentInv, AgentTyped, DevelopmentStates
      <3>2. LeavesState(m, escaped, no)'
        BY <1>0, <1>1, <1>2, <2>1, <2>3 DEF LeavesState, Accepting, Categories
      <3> QED BY <1>0, <1>1, <1>2, <2>3, <3>1, <3>2, EndsKeep
    <2> QED BY <2>1, <2>2, <2>3 DEF ErrorResponse
  <1>4. CASE StateFollows(o)
    <2>1. agentOp[o].found \in Categories
      BY <1>0, <1>4 DEF StateFollows, AgentInv, PlacesRight, InPlace
    <2>2. PICK c \in OpAnswers : c = agentOp[o].found /\ c \in Categories
      BY <2>1 DEF OpAnswers
    <2>3. /\ development_state' = CASE c \in Accepting -> "COMPLETE"
                                    [] c = "REJECTED" -> "REFINING"
                                    [] OTHER -> "ERROR"
          /\ health' = StatusOf(development_state') /\ EndWith(o, c, TRUE)
          /\ agentOp[o].at = "report"
      BY <1>4, <2>2 DEF StateFollows
    <2>4. development_state' \in DevelopmentStates /\ health' \in Healths
      BY <2>3 DEF DevelopmentStates, StatusOf, Healths
    <2>5. AgentTyped'
      BY <1>0, <2>4 DEF AgentInv, AgentTyped
    <2>6. agentOp[o].alone =>
             validation_history # <<>> /\ validation_history[Len(validation_history)] = c
      BY <1>0, <2>2, <2>3 DEF AgentInv, StateFound, FindsState
    <2>7. /\ development_state' = "COMPLETE" <=> c \in Accepting
          /\ development_state' = "ERROR" <=> c = "UNKNOWN"
          /\ health' = "CRITICAL" <=> development_state' = "ERROR"
          /\ c \notin {"result", "design", "failure", "raised"}
      BY <2>2, <2>3 DEF StatusOf, Accepting, Categories
    <2>8. agentOp[o].alone => LeavesState(m, c, yes)'
      BY <1>0, <2>6, <2>7 DEF LeavesState
    <2> QED BY <1>0, <1>1, <1>2, <2>2, <2>3, <2>5, <2>7, <2>8, EndsKeep
  <1> QED BY <1>3, <1>4

\* Each step keeps the invariant, and it holds at the start.
LEMMA AgentsKept == AgentInv /\ [AgentsNext]_agentsVars => AgentInv'
  <1> SUFFICES ASSUME AgentInv, [AgentsNext]_agentsVars PROVE AgentInv'
    OBVIOUS
  <1>1. CASE Greet
    BY <1>1, GreetKeeps
  <1>2. ASSUME NEW o \in AgentOps, NEW m \in Methods, BeginOp(o, m)
        PROVE  AgentInv'
    BY <1>2, OpBeginKeeps
  <1>3. ASSUME NEW o \in AgentOps, ProcessEnds(o) \/ Outlined(o) \/ Reflected(o) \/ Refined(o)
        PROVE  AgentInv'
    BY <1>3, PlainEnds
  <1>4. ASSUME NEW o \in AgentOps, DesignStep(o) \/ RefineBegins(o)
        PROVE  AgentInv'
    BY <1>4, DesignGoesOn, DesignedKeeps, DesignFailsKeep, JudgedKeeps, ReportedKeeps, Zenon
       DEF DesignStep
  <1>5. ASSUME NEW o \in AgentOps, ValidationStep(o)
        PROVE  AgentInv'
    BY <1>5, ValidationGoesOn, ValidatedKeeps, UpdatedKeeps, ValidationEnds, Zenon
       DEF ValidationStep
  <1>6. ASSUME NEW o \in AgentOps, HelperRaises(o)
        PROVE  AgentInv'
    BY <1>6, RaisesKeep
  <1>7. CASE UNCHANGED agentsVars
    BY <1>7 DEF agentsVars, AgentInv, AgentTyped, OpsTyped, AloneRight, PlacesRight, InPlace,
                StateFound, FindsState, EndRight, Settled, AgentBusy, LeavesState
  <1> QED BY <1>1, <1>2, <1>3, <1>4, <1>5, <1>6, <1>7, Zenon DEF AgentsNext

\* The invariant holds initially.
LEMMA AgentsBegin == AgentsInit => AgentInv
  <1> SUFFICES ASSUME AgentsInit PROVE AgentInv
    OBVIOUS
  <1>1. NoOp \in OpRecords /\ NoOp.at = "idle"
    BY DEF NoOp, OpRecords, Methods, OpSteps
  <1>2. NoEnd \in Ends /\ NoEnd.method = "none" /\ NoEnd.answer = "none"
    BY DEF NoEnd, Ends
  <1>3. AgentTyped
    BY HistoryAssumption DEF AgentsInit, AgentTyped, DevelopmentStates, Healths
  <1>4. OpsTyped /\ AloneRight /\ PlacesRight /\ StateFound
    BY <1>1, <1>2 DEF AgentsInit, OpsTyped, AloneRight, PlacesRight, InPlace, StateFound
  <1>5. EndRight
    BY <1>2 DEF AgentsInit, EndRight, Settled
  <1> QED BY <1>3, <1>4, <1>5 DEF AgentInv

-----------------------------------------------------------------------------
(* The Fire agent (FireDecomposition) *)

\* A sum over at most three parts, as the recursive functions of the
\* decompositions define it.
SumUpTo(s, n) ==
    CASE n = 0 -> 0 [] n = 1 -> s[1] [] n = 2 -> s[1] + s[2] [] n = 3 -> s[1] + s[2] + s[3]

\* The function that sums up the first entries of a sequence exists.
LEMMA SummedUp ==
    ASSUME NEW n \in 0 .. 3, NEW s, \A i \in 1 .. n : s[i] \in Int
    PROVE  \E f : f = [i \in 0 .. n |-> IF i = 0 THEN 0 ELSE f[i - 1] + s[i]]
  <1> DEFINE w == [i \in 0 .. n |-> SumUpTo(s, i)]
             F(f) == [i \in 0 .. n |-> IF i = 0 THEN 0 ELSE f[i - 1] + s[i]]
  <1>1. \A i \in 0 .. n : w[i] = IF i = 0 THEN 0 ELSE w[i - 1] + s[i]
    <2> SUFFICES ASSUME NEW i \in 0 .. n PROVE w[i] = IF i = 0 THEN 0 ELSE w[i - 1] + s[i]
      OBVIOUS
    <2>1. CASE i = 0
      BY <2>1 DEF SumUpTo
    <2>2. CASE i = 1
      BY <2>2 DEF SumUpTo
    <2>3. CASE i = 2
      BY <2>3 DEF SumUpTo
    <2>4. CASE i = 3
      BY <2>4 DEF SumUpTo
    <2>5. i \in {0, 1, 2, 3}
      OBVIOUS
    <2> QED BY <2>1, <2>2, <2>3, <2>4, <2>5
  <1> HIDE DEF w
  <1>2. w = F(w)
    <2>1. DOMAIN w = 0 .. n /\ w = [i \in 0 .. n |-> w[i]]
      BY DEF w
    <2> QED BY <1>1, <2>1
  <1> QED BY <1>2

\* What it is, entry by entry.
LEMMA FewSummed ==
    ASSUME NEW n \in 0 .. 3, NEW s, \A i \in 1 .. n : s[i] \in Int, NEW total,
           total = [i \in 0 .. n |-> IF i = 0 THEN 0 ELSE total[i - 1] + s[i]]
    PROVE  total[n] = SumUpTo(s, n)
  <1>1. \A i \in 0 .. n : total[i] = IF i = 0 THEN 0 ELSE total[i - 1] + s[i]
    OBVIOUS
  <1>2. total[0] = 0
    BY <1>1
  <1>3. n >= 1 => total[1] = s[1]
    BY <1>1, <1>2
  <1>4. n >= 2 => total[2] = s[1] + s[2]
    BY <1>1, <1>3
  <1>5. n >= 3 => total[3] = s[1] + s[2] + s[3]
    BY <1>1, <1>4
  <1>6. n \in {0, 1, 2, 3}
    OBVIOUS
  <1> QED BY <1>2, <1>3, <1>4, <1>5, <1>6 DEF SumUpTo

\* The sizes of at most three parts add up.
LEMMA PartsSummed ==
    ASSUME NEW s, NEW n \in 0 .. 3, n = Len(s), \A i \in 1 .. n : s[i] \in Int
    PROVE  SumOfParts(s) = SumUpTo(s, n)
  <1> DEFINE total[i \in 0 .. Len(s)] == IF i = 0 THEN 0 ELSE total[i - 1] + s[i]
  <1>1. total = CHOOSE f : f = [i \in 0 .. n |-> IF i = 0 THEN 0 ELSE f[i - 1] + s[i]]
    BY DEF total
  <1>2. SumOfParts(s) = total[n]
    BY DEF SumOfParts
  <1> HIDE DEF total
  <1>3. total = [i \in 0 .. n |-> IF i = 0 THEN 0 ELSE total[i - 1] + s[i]]
    BY <1>1, SummedUp
  <1> QED BY <1>2, <1>3, FewSummed

\* The scores of at most three parts add up.
LEMMA ScoresSummed ==
    ASSUME NEW parts, NEW n \in 0 .. 3, n = Len(parts), NEW s,
           \A i \in 1 .. n : s[i] \in Int /\ s[i] = FeatureScore(parts[i])
    PROVE  SumOfScores(parts) = SumUpTo(s, n)
  <1> DEFINE total[i \in 0 .. Len(parts)] ==
                IF i = 0 THEN 0 ELSE total[i - 1] + FeatureScore(parts[i])
             G(f) == [i \in 0 .. n |-> IF i = 0 THEN 0 ELSE f[i - 1] + FeatureScore(parts[i])]
             F(f) == [i \in 0 .. n |-> IF i = 0 THEN 0 ELSE f[i - 1] + s[i]]
  <1>1. total = CHOOSE f : f = G(f)
    BY DEF total
  <1>2. SumOfScores(parts) = total[n]
    BY DEF SumOfScores
  <1>3. \A f : G(f) = F(f)
    OBVIOUS
  <1>4. \E f : f = F(f)
    BY SummedUp
  <1> HIDE DEF total, F
  <1>5. \E f : f = G(f)
    <2> HIDE DEF G
    <2> QED BY <1>3, <1>4
  <1>6. total = G(total)
    <2> HIDE DEF G
    <2> QED BY <1>1, <1>5
  <1>7. total = F(total)
    <2> HIDE DEF G
    <2> QED BY <1>3, <1>6
  <1> QED BY <1>2, <1>7, FewSummed DEF F

-----------------------------------------------------------------------------
(* The scores of a guideline *)

\* Scores and their ranges, by name: a numeral is written out by some provers.
IsScore(n) == n \in PossibleScores
IsSimple(n) == n \in 0 .. 3525
IsHigh(n) == n >= 7000
IsHeavy(n) == n >= 6500
IsOver(n) == n >= 4500
IsFair(n) == n >= 2500

ShapeCounts(s) ==
    /\ s.depth \in Nat /\ s.keys \in Nat /\ s.dependencies \in Nat
    /\ s.scope \in Nat /\ s.responsibilities \in Nat /\ s.integration \in Nat

GuidelineEntries ==
    [ responsibilities : Nat, capabilities : Nat, core : Nat, external : Nat, internal : Nat,
      features : Nat, components : Nat, interfaces : Nat, broad : Nat, nested : Nat, extra : Nat,
      deep : Nat, words : SUBSET {"ui", "logic", "data"}, wellformed : BOOLEAN ]

\* What a guideline shows to the scores are numbers.
LEMMA ShapesCount ==
    ASSUME NEW g \in GuidelineEntries
    PROVE  ShapeCounts(Shape(g))
  <1>1. /\ g.responsibilities \in Nat /\ g.capabilities \in Nat /\ g.core \in Nat
        /\ g.external \in Nat /\ g.internal \in Nat /\ g.features \in Nat
        /\ g.components \in Nat /\ g.interfaces \in Nat /\ g.broad \in Nat
        /\ g.nested \in Nat /\ g.extra \in Nat /\ g.deep \in Nat
    BY DEF GuidelineEntries
  <1>2. \A n \in Nat : Present(n) \in Nat
    BY DEF Present
  <1>3. Dependencies(g) \in Nat
    BY <1>1 DEF Dependencies
  <1>4. Shape(g).depth \in Nat
    BY <1>1, <1>3 DEF Shape
  <1>5. Shape(g).keys \in Nat
    <2>1. /\ Present(g.responsibilities) \in Nat /\ Present(g.capabilities) \in Nat
          /\ Present(Dependencies(g)) \in Nat /\ Present(g.features) \in Nat
          /\ Present(g.components) \in Nat /\ Present(g.interfaces) \in Nat
          /\ Present(g.broad) \in Nat /\ Present(g.nested) \in Nat
      BY <1>1, <1>2, <1>3
    <2> QED BY <1>1, <2>1 DEF Shape
  <1>6. /\ Shape(g).dependencies \in Nat /\ Shape(g).scope \in Nat
        /\ Shape(g).responsibilities \in Nat /\ Shape(g).integration \in Nat
    BY <1>1, <1>3 DEF Shape
  <1> QED BY <1>4, <1>5, <1>6 DEF ShapeCounts

\* The range of each score; the scores go up in steps, which keeps what is below
\* the limit of a cause well below it.
LEMMA ScoresRange ==
    ASSUME NEW s, ShapeCounts(s), NEW ctx
    PROVE  /\ StructureScore(s) \in 0 .. 90
           /\ DependencyScore(s) \in 0 .. 100
           /\ ScopeScore(s, ctx) \in 0 .. 100 /\ (ScopeScore(s, ctx) <= 70 => ScopeScore(s, ctx) <= 64)
           /\ ResponsibilityScore(s) \in 0 .. 100
           /\ ResponsibilityScore(s) <= 65 => ResponsibilityScore(s) <= 60
           /\ IntegrationScore(s) \in 0 .. 100
           /\ IntegrationScore(s) <= 75 => IntegrationScore(s) <= 60
  <1>1. StructureScore(s) \in 0 .. 90
    <2>1. PICK a \in Nat : a = s.depth
      BY DEF ShapeCounts
    <2>2. PICK k \in Nat : k = s.keys
      BY DEF ShapeCounts
    <2>3. Capped(10 * a, 50) \in 0 .. 50 /\ Capped(2 * k, 40) \in 0 .. 40
      BY DEF Capped
    <2>4. StructureScore(s) = Capped(10 * a, 50) + Capped(2 * k, 40)
      BY <2>1, <2>2 DEF StructureScore
    <2> QED BY <2>3, <2>4
  <1>2. DependencyScore(s) \in 0 .. 100
    BY DEF ShapeCounts, DependencyScore, Capped
  <1>3. ScopeScore(s, ctx) \in 0 .. 100 /\ (ScopeScore(s, ctx) <= 70 => ScopeScore(s, ctx) <= 64)
    BY DEF ShapeCounts, ScopeScore, Capped
  <1>4. /\ ResponsibilityScore(s) \in 0 .. 100
        /\ ResponsibilityScore(s) <= 65 => ResponsibilityScore(s) <= 60
    BY DEF ShapeCounts, ResponsibilityScore, Capped
  <1>5. /\ IntegrationScore(s) \in 0 .. 100
        /\ IntegrationScore(s) <= 75 => IntegrationScore(s) <= 60
    BY DEF ShapeCounts, IntegrationScore, Capped
  <1> QED BY <1>1, <1>2, <1>3, <1>4, <1>5

\* A guideline whose entries are counted right has a score in range.
LEMMA ScoreRange ==
    ASSUME NEW s, ShapeCounts(s), NEW ctx
    PROVE  GuidelineScore(s, ctx) \in Int /\ IsScore(GuidelineScore(s, ctx))
  <1>1. PICK a \in 0 .. 90 : a = StructureScore(s)
    BY ScoresRange
  <1>2. PICK b \in 0 .. 100 : b = DependencyScore(s)
    BY ScoresRange
  <1>3. PICK c \in 0 .. 100 : c = ScopeScore(s, ctx)
    BY ScoresRange
  <1>4. PICK d \in 0 .. 100 : d = ResponsibilityScore(s)
    BY ScoresRange
  <1>5. PICK e \in 0 .. 100 : e = IntegrationScore(s)
    BY ScoresRange
  <1>6. GuidelineScore(s, ctx) = 20 * a + 25 * b + 25 * c + 20 * d + 10 * e
    BY <1>1, <1>2, <1>3, <1>4, <1>5 DEF GuidelineScore
  <1>7. /\ a \in Nat /\ b \in Nat /\ c \in Nat /\ d \in Nat /\ e \in Nat
        /\ a <= 90 /\ b <= 100 /\ c <= 100 /\ d <= 100 /\ e <= 100
    OBVIOUS
  <1>8. PICK n \in Nat : n = 20 * a + 25 * b + 25 * c + 20 * d + 10 * e
    BY ONLY <1>7
  <1>9. n <= 10000
    BY ONLY <1>7, <1>8, n \in Nat
  <1>10. GuidelineScore(s, ctx) = n
    BY ONLY <1>6, <1>8, Zenon
  <1>11. n \in Int /\ IsScore(n)
    BY ONLY <1>9, n \in Nat DEF IsScore, PossibleScores
  <1> QED BY ONLY <1>10, <1>11

\* Scores that name no cause do not add up to the threshold.
LEMMA CauseFound ==
    ASSUME NEW s, ShapeCounts(s), NEW ctx, GuidelineScore(s, ctx) >= 7000
    PROVE  GuidelineCauses(s, ctx) # {}
  <1>1. PICK a \in 0 .. 90 : a = StructureScore(s)
    BY ScoresRange
  <1>2. PICK b \in 0 .. 100 : b = DependencyScore(s)
    BY ScoresRange
  <1>3. PICK c \in 0 .. 100 : c = ScopeScore(s, ctx) /\ (c <= 70 => c <= 64)
    BY ScoresRange
  <1>4. PICK d \in 0 .. 100 : d = ResponsibilityScore(s) /\ (d <= 65 => d <= 60)
    BY ScoresRange
  <1>5. PICK e \in 0 .. 100 : e = IntegrationScore(s) /\ (e <= 75 => e <= 60)
    BY ScoresRange
  <1>6. GuidelineScore(s, ctx) = 20 * a + 25 * b + 25 * c + 20 * d + 10 * e
    BY <1>1, <1>2, <1>3, <1>4, <1>5 DEF GuidelineScore
  <1>7. b > 60 \/ c > 70 \/ d > 65 \/ e > 75
    <2> SUFFICES ASSUME b <= 60, c <= 64, d <= 60, e <= 60 PROVE FALSE
      BY <1>3, <1>4, <1>5
    <2>1. 20 * a + 25 * b + 25 * c + 20 * d + 10 * e >= 7000
      BY <1>6
    <2>2. 20 * a <= 1800 /\ 25 * b <= 1500 /\ 25 * c <= 1600 /\ 20 * d <= 1200 /\ 10 * e <= 600
      OBVIOUS
    <2> QED BY <2>1, <2>2
  <1>8. b > 60 => "HIGH_DEPENDENCY_COUNT" \in GuidelineCauses(s, ctx)
    BY <1>2 DEF GuidelineCauses
  <1>9. c > 70 => "BROAD_IMPLEMENTATION_SCOPE" \in GuidelineCauses(s, ctx)
    BY <1>3 DEF GuidelineCauses
  <1>10. d > 65 => "MULTIPLE_RESPONSIBILITIES" \in GuidelineCauses(s, ctx)
    BY <1>4 DEF GuidelineCauses
  <1>11. e > 75 => "INTEGRATION_COMPLEXITY" \in GuidelineCauses(s, ctx)
    BY <1>5 DEF GuidelineCauses
  <1> QED BY <1>7, <1>8, <1>9, <1>10, <1>11

\* The context of a call adds at most the 20 points of a broad scope.
LEMMA ContextAdds ==
    ASSUME NEW s, ShapeCounts(s), NEW one, NEW other
    PROVE  GuidelineScore(s, one) <= GuidelineScore(s, other) + 500
  <1>1. PICK a \in 0 .. 90 : a = StructureScore(s)
    BY ScoresRange
  <1>2. PICK b \in 0 .. 100 : b = DependencyScore(s)
    BY ScoresRange
  <1>3. PICK c \in 0 .. 100 : c = ScopeScore(s, one)
    BY ScoresRange
  <1>4. PICK h \in 0 .. 100 : h = ScopeScore(s, other)
    BY ScoresRange
  <1>5. PICK d \in 0 .. 100 : d = ResponsibilityScore(s)
    BY ScoresRange
  <1>6. PICK e \in 0 .. 100 : e = IntegrationScore(s)
    BY ScoresRange
  <1>7. GuidelineScore(s, one) = 20 * a + 25 * b + 25 * c + 20 * d + 10 * e
    BY <1>1, <1>2, <1>3, <1>5, <1>6 DEF GuidelineScore
  <1>8. GuidelineScore(s, other) = 20 * a + 25 * b + 25 * h + 20 * d + 10 * e
    BY <1>1, <1>2, <1>4, <1>5, <1>6 DEF GuidelineScore
  <1>9. ScopeScore(s, one) <= ScopeScore(s, other) + 20
    BY DEF ShapeCounts, ScopeScore, Capped
  <1>10. c <= h + 20
    BY <1>3, <1>4, <1>9
  <1> QED BY <1>7, <1>8, <1>10

\* An architecture of little depth, few dependencies and few interfaces is simple.
LEMMA SmallIsSimple ==
    ASSUME NEW deepest \in 0 .. 4, NEW keys \in Nat, NEW dependencies \in 0 .. 3,
           NEW interfaces \in 0 .. 2, NEW ctx
    PROVE  /\ ShapeCounts(Made(deepest, keys, dependencies, interfaces))
           /\ IsSimple(GuidelineScore(Made(deepest, keys, dependencies, interfaces), ctx))
  <1> DEFINE m == Made(deepest, keys, dependencies, interfaces)
  <1>1. /\ m.depth = deepest /\ m.keys = keys /\ m.dependencies = dependencies
        /\ m.scope = interfaces /\ m.responsibilities = 0 /\ m.integration = interfaces
    BY DEF Made
  <1> HIDE DEF m
  <1>2. ShapeCounts(m)
    BY <1>1 DEF ShapeCounts
  <1>3. StructureScore(m) \in 0 .. 80
    BY <1>1 DEF StructureScore, Capped
  <1>4. DependencyScore(m) \in 0 .. 45
    BY <1>1 DEF DependencyScore, Capped
  <1>5. ScopeScore(m, ctx) \in 0 .. 16
    BY <1>1 DEF ScopeScore, Capped
  <1>6. ResponsibilityScore(m) = 0
    BY <1>1 DEF ResponsibilityScore, Capped
  <1>7. IntegrationScore(m) \in 0 .. 40
    BY <1>1 DEF IntegrationScore, Capped
  <1>8. GuidelineScore(m, ctx) \in 0 .. 3525
    <2>1. PICK a \in 0 .. 80 : a = StructureScore(m)
      BY <1>3
    <2>2. PICK b \in 0 .. 45 : b = DependencyScore(m)
      BY <1>4
    <2>3. PICK c \in 0 .. 16 : c = ScopeScore(m, ctx)
      BY <1>5
    <2>4. PICK e \in 0 .. 40 : e = IntegrationScore(m)
      BY <1>7
    <2>5. GuidelineScore(m, ctx) = 20 * a + 25 * b + 25 * c + 10 * e
      BY <1>6, <2>1, <2>2, <2>3, <2>4 DEF GuidelineScore
    <2> QED BY <2>5
  <1> QED BY <1>2, <1>8 DEF m, IsSimple

-----------------------------------------------------------------------------
(* The architectures a guideline is decomposed into *)

SmallArchitecture(arch) ==
    \E deepest \in 0 .. 4, keys \in Nat, dependencies \in 0 .. 3, interfaces \in 0 .. 2 :
        arch.shape = Made(deepest, keys, dependencies, interfaces)

Complete(g, strategy, arch) ==
    CASE strategy = "dependency_reduction" ->
           SumOfParts(arch.parts) + arch.single = Dependencies(g)
      [] strategy = "scope_narrowing" ->
           SumOfParts(arch.parts) = g.features /\ arch.parts[3] - arch.parts[2] \in 0 .. 1
      [] strategy = "responsibility_extraction" ->
           /\ Len(arch.parts) \in 2 .. 4
           /\ g.responsibilities \in 1 .. 4 => Len(arch.parts) = g.responsibilities
      [] OTHER -> Len(arch.parts) \in 2 .. 3

\* No architecture is made where none is.
LEMMA NothingMade == NoArchitecture.made = FALSE
  BY DEF NoArchitecture

\* As many parts as there are numbers.
LEMMA ManyOnes ==
    ASSUME NEW n \in Nat
    PROVE  Len([i \in 1 .. n |-> 1]) = n
  <1>1. [i \in 1 .. n |-> 1] \in Seq(Nat)
    OBVIOUS
  <1> QED BY <1>1

\* The clusters of an extraction are what it found, two of them to four.
LEMMA ExtractedComplete ==
    ASSUME NEW g \in GuidelineEntries, Extracted(g).made
    PROVE  SmallArchitecture(Extracted(g)) /\ Complete(g, "responsibility_extraction", Extracted(g))
  <1>1. PICK r \in Nat : r = g.responsibilities
    BY DEF GuidelineEntries
  <1>2. PICK n \in Nat : n = g.nested
    BY DEF GuidelineEntries
  <1>3. PICK c \in 0 .. 4 : c = Capped(IF r > 0 THEN r ELSE n, 4)
    BY DEF Capped
  <1>4. c > 1 /\ Extracted(g) = [ made |-> TRUE,
            shape |-> Made(4, 4 + 4 * c, Capped(Dependencies(g), 3), Capped(g.interfaces, 2)),
            parts |-> [i \in 1 .. c |-> 1], single |-> 0, elements |-> c ]
    BY <1>1, <1>2, <1>3, NothingMade DEF Extracted
  <1>5. Capped(Dependencies(g), 3) \in 0 .. 3 /\ Capped(g.interfaces, 2) \in 0 .. 2
    BY DEF GuidelineEntries, Capped, Dependencies
  <1>6. SmallArchitecture(Extracted(g))
    BY <1>4, <1>5 DEF SmallArchitecture
  <1>7. Extracted(g).parts = [i \in 1 .. c |-> 1]
    BY <1>4
  <1>8. Len(Extracted(g).parts) = c
    BY <1>7, ManyOnes
  <1>9. r \in 1 .. 4 => c = r
    BY <1>3 DEF Capped
  <1> QED BY <1>1, <1>4, <1>6, <1>8, <1>9 DEF Complete

\* The presentation, the business and the data layer: two or three of them.
LEMMA LayeredComplete ==
    ASSUME NEW g \in GuidelineEntries, Layered(g).made
    PROVE  SmallArchitecture(Layered(g)) /\ Complete(g, "layer_separation", Layered(g))
  <1>1. PICK n \in 0 .. 3 : n = Cardinality(Layers(g))
    <2> DEFINE All == {"presentation", "business", "data"}
    <2>1. IsFiniteSet(All) /\ Cardinality(All) <= 3
      <3>1. IsFiniteSet({"business", "data"}) /\ Cardinality({"business", "data"}) <= 2
        <4>1. IsFiniteSet({"data"}) /\ Cardinality({"data"}) = 1
          BY FS_Singleton
        <4>2. {"business", "data"} = {"data"} \cup {"business"}
          OBVIOUS
        <4> QED BY <4>1, <4>2, FS_AddElement
      <3>2. All = {"business", "data"} \cup {"presentation"}
        OBVIOUS
      <3> HIDE DEF All
      <3>3. Cardinality({"business", "data"}) \in Nat
        BY <3>1, FS_CardinalityType
      <3> QED BY <3>1, <3>2, <3>3, FS_AddElement
    <2>2. Layers(g) \subseteq All
      BY DEF Layers
    <2> HIDE DEF All
    <2>3. IsFiniteSet(Layers(g)) /\ Cardinality(Layers(g)) <= Cardinality(All)
      BY <2>1, <2>2, FS_Subset
    <2>4. Cardinality(Layers(g)) \in Nat /\ Cardinality(All) \in Nat
      BY <2>1, <2>3, FS_CardinalityType
    <2> QED BY <2>1, <2>3, <2>4
  <1>2. n > 1 /\ Layered(g) = [ made |-> TRUE, shape |-> Made(4, 3 + 5 * n, 0, 0),
            parts |-> [i \in 1 .. n |-> 1], single |-> 0, elements |-> n ]
    <2>1. Layered(g) = IF n <= 1 THEN NoArchitecture
            ELSE [ made |-> TRUE, shape |-> Made(4, 3 + 5 * n, 0, 0),
                   parts |-> [i \in 1 .. n |-> 1], single |-> 0, elements |-> n ]
      BY ONLY <1>1, Zenon DEF Layered
    <2> QED BY <2>1, NothingMade
  <1>3. SmallArchitecture(Layered(g))
    BY <1>2 DEF SmallArchitecture
  <1>4. Layered(g).parts = [i \in 1 .. n |-> 1]
    BY <1>2
  <1>5. Len(Layered(g).parts) = n
    BY <1>4, ManyOnes
  <1> QED BY <1>2, <1>3, <1>5 DEF Complete

\* Always two areas.
LEMMA SeparatedComplete ==
    ASSUME NEW g
    PROVE  SmallArchitecture(Separated(g)) /\ Complete(g, "functional_separation", Separated(g))
  <1>1. SmallArchitecture(Separated(g))
    BY DEF Separated, SmallArchitecture
  <1>2. Separated(g).parts = <<1, 1>>
    BY DEF Separated
  <1>3. Len(Separated(g).parts) = 2
    BY <1>2
  <1> QED BY <1>1, <1>3 DEF Complete

\* Two core features; the others are deferred in two halves, the second of which
\* has one more when their number is odd.
LEMMA NarrowedComplete ==
    ASSUME NEW g \in GuidelineEntries, Narrowed(g).made
    PROVE  SmallArchitecture(Narrowed(g)) /\ Complete(g, "scope_narrowing", Narrowed(g))
  <1>1. PICK f \in Nat : f = g.features
    BY DEF GuidelineEntries
  <1>2. PICK d \in Int : d = f - 2
    OBVIOUS
  <1>3. PICK h \in Int : h = d \div 2
    OBVIOUS
  <1>4. /\ d > 0
        /\ Narrowed(g) = [ made |-> TRUE, shape |-> Made(4, 12 + 6 * d, 0, 0),
             parts |-> <<2, h, d - h>>, single |-> 0, elements |-> 1 + d ]
    BY <1>1, <1>2, <1>3, NothingMade DEF Narrowed
  <1>5. h + h <= d /\ d <= h + h + 1
    BY <1>3
  <1>6. SmallArchitecture(Narrowed(g))
    BY <1>4 DEF SmallArchitecture
  <1>7. PICK e \in Int : e = d - h
    OBVIOUS
  <1>8. PICK p : p = <<2, h, e>>
    OBVIOUS
  <1>9. p = Narrowed(g).parts
    BY <1>4, <1>7, <1>8
  <1>10. 3 = Len(p) /\ p[1] = 2 /\ p[2] = h /\ p[3] = e
    BY <1>8
  <1> HIDE <1>8
  <1>11. \A i \in 1 .. 3 : p[i] \in Int
    <2>1. \A i \in 1 .. 3 : i = 1 \/ i = 2 \/ i = 3
      OBVIOUS
    <2> QED BY <1>10, <2>1
  <1>12. SumOfParts(p) = SumUpTo(p, 3)
    BY <1>10, <1>11, PartsSummed
  <1>13. SumUpTo(p, 3) = 2 + h + e
    BY <1>10 DEF SumUpTo
  <1>14. 2 + h + e = f /\ e - h \in 0 .. 1
    BY <1>2, <1>5, <1>7
  <1> QED BY <1>1, <1>6, <1>9, <1>10, <1>12, <1>13, <1>14 DEF Complete

IsJoin(p, a, b, c) == p = a \o b \o c
EntryOf(s) == IF Len(s) = 0 THEN 0 ELSE s[1]

\* Three sequences of at most one entry, joined.
LEMMA ThreeJoined ==
    ASSUME NEW a \in Seq(Nat), NEW b \in Seq(Nat), NEW c \in Seq(Nat),
           Len(a) <= 1, Len(b) <= 1, Len(c) <= 1, NEW p, IsJoin(p, a, b, c)
    PROVE  /\ p \in Seq(Nat) /\ Len(p) \in 0 .. 3
           /\ SumUpTo(p, Len(p)) = EntryOf(a) + EntryOf(b) + EntryOf(c)
  <1> USE DEF IsJoin
  <1>1. PICK ab : ab = a \o b
    OBVIOUS
  <1>2. /\ ab \in Seq(Nat) /\ Len(ab) = Len(a) + Len(b)
        /\ \A i \in 1 .. Len(a) : ab[i] = a[i]
        /\ \A i \in 1 .. Len(b) : ab[Len(a) + i] = b[i]
    BY <1>1
  <1>3. /\ p \in Seq(Nat) /\ Len(p) = Len(ab) + Len(c)
        /\ \A i \in 1 .. Len(ab) : p[i] = ab[i]
        /\ \A i \in 1 .. Len(c) : p[Len(ab) + i] = c[i]
    BY <1>1, <1>2
  <1>4. PICK x \in 0 .. 1 : x = Len(a)
    <2>1. PICK m \in Nat : m = Len(a)
      OBVIOUS
    <2>2. m <= 1
      BY <2>1
    <2> QED BY <2>1, <2>2
  <1>5. PICK y \in 0 .. 1 : y = Len(b)
    <2>1. PICK m \in Nat : m = Len(b)
      OBVIOUS
    <2>2. m <= 1
      BY <2>1
    <2> QED BY <2>1, <2>2
  <1>6. PICK z \in 0 .. 1 : z = Len(c)
    <2>1. PICK m \in Nat : m = Len(c)
      OBVIOUS
    <2>2. m <= 1
      BY <2>1
    <2> QED BY <2>1, <2>2
  <1>7. PICK n \in 0 .. 3 : n = Len(p) /\ n = x + y + z
    BY <1>2, <1>3, <1>4, <1>5, <1>6
  <1>8. PICK A \in Nat : x = 1 => A = a[1]
    BY <1>4
  <1>9. PICK B \in Nat : y = 1 => B = b[1]
    BY <1>5
  <1>10. PICK C \in Nat : z = 1 => C = c[1]
    BY <1>6
  <1>11. x = 1 => p[1] = A
    BY <1>2, <1>3, <1>4, <1>5, <1>8
  <1>12. y = 1 => p[x + 1] = B
    BY <1>2, <1>3, <1>4, <1>5, <1>9
  <1>13. z = 1 => p[x + y + 1] = C
    BY <1>2, <1>3, <1>4, <1>5, <1>6, <1>10
  <1>14. SumUpTo(p, n) = (IF x = 0 THEN 0 ELSE A) + (IF y = 0 THEN 0 ELSE B) + (IF z = 0 THEN 0 ELSE C)
    BY ONLY <1>7, <1>11, <1>12, <1>13, x \in 0 .. 1, y \in 0 .. 1, z \in 0 .. 1,
            A \in Nat, B \in Nat, C \in Nat DEF SumUpTo
  <1>15. /\ EntryOf(a) = IF x = 0 THEN 0 ELSE A
         /\ EntryOf(b) = IF y = 0 THEN 0 ELSE B
         /\ EntryOf(c) = IF z = 0 THEN 0 ELSE C
    BY <1>4, <1>5, <1>6, <1>8, <1>9, <1>10 DEF EntryOf
  <1> QED BY <1>3, <1>7, <1>14, <1>15

\* A class of dependencies is abstracted, kept, or empty.
LEMMA ClassKept ==
    ASSUME NEW n \in Nat
    PROVE  \E a \in Seq(Nat), k \in Nat : /\ a = Abstraction(n) /\ k = KeptAlone(n)
                                          /\ Len(a) <= 1 /\ EntryOf(a) + k = n
  <1>1. CASE n > 1
    <2>1. Abstraction(n) \in Seq(Nat) /\ KeptAlone(n) \in Nat
      BY <1>1 DEF Abstraction, KeptAlone
    <2>2. PICK a : a = <<n>>
      OBVIOUS
    <2>3. a = Abstraction(n) /\ 0 = KeptAlone(n)
      BY <1>1, <2>2 DEF Abstraction, KeptAlone
    <2>4. Len(a) = 1 /\ a[1] = n
      BY <2>2
    <2>5. Len(a) <= 1 /\ EntryOf(a) + 0 = n
      BY <2>4 DEF EntryOf
    <2> QED BY <2>1, <2>3, <2>5, Zenon
  <1>2. CASE n <= 1
    <2>1. Abstraction(n) \in Seq(Nat) /\ KeptAlone(n) \in Nat
      BY <1>2 DEF Abstraction, KeptAlone
    <2>2. PICK a : a = <<>>
      OBVIOUS
    <2>3. PICK k \in Nat : k = n
      OBVIOUS
    <2>4. a = Abstraction(n) /\ k = KeptAlone(n)
      BY <1>2, <2>2, <2>3 DEF Abstraction, KeptAlone
    <2>5. Len(a) = 0
      BY <2>2
    <2>6. Len(a) <= 1 /\ EntryOf(a) + k = n
      BY <2>3, <2>5 DEF EntryOf
    <2> QED BY <2>1, <2>4, <2>6, Zenon
  <1> QED BY <1>1, <1>2

\* Every dependency is in one abstraction or kept alone.
LEMMA ReducedComplete ==
    ASSUME NEW g \in GuidelineEntries, Reduced(g).made
    PROVE  SmallArchitecture(Reduced(g)) /\ Complete(g, "dependency_reduction", Reduced(g))
  <1>1. PICK c \in Nat : c = g.core
    BY DEF GuidelineEntries
  <1>2. PICK e \in Nat : e = g.external
    BY DEF GuidelineEntries
  <1>3. PICK i \in Nat : i = g.internal
    BY DEF GuidelineEntries
  <1>4. PICK cs \in Seq(Nat), ck \in Nat : /\ cs = Abstraction(c) /\ ck = KeptAlone(c)
                                          /\ Len(cs) <= 1 /\ EntryOf(cs) + ck = c
    BY ClassKept
  <1>5. PICK es \in Seq(Nat), ek \in Nat : /\ es = Abstraction(e) /\ ek = KeptAlone(e)
                                          /\ Len(es) <= 1 /\ EntryOf(es) + ek = e
    BY ClassKept
  <1>6. PICK is \in Seq(Nat), ik \in Nat : /\ is = Abstraction(i) /\ ik = KeptAlone(i)
                                          /\ Len(is) <= 1 /\ EntryOf(is) + ik = i
    BY ClassKept
  <1>7. PICK p : p = cs \o es \o is
    OBVIOUS
  <1>8. /\ p \in Seq(Nat) /\ Len(p) \in 0 .. 3
        /\ SumUpTo(p, Len(p)) = EntryOf(cs) + EntryOf(es) + EntryOf(is)
    <2>1. Len(cs) <= 1 /\ Len(es) <= 1 /\ Len(is) <= 1
      BY <1>4, <1>5, <1>6
    <2> HIDE <1>4, <1>5, <1>6
    <2>2. IsJoin(p, cs, es, is)
      BY <1>7 DEF IsJoin
    <2> QED BY <2>1, <2>2, ThreeJoined
  <1>9. PICK d \in 0 .. 4 : d = IF p # <<>> THEN 4 ELSE IF g.features + g.interfaces > 0 THEN 3 ELSE 2
    <2> DEFINE D == IF p # <<>> THEN 4 ELSE IF g.features + g.interfaces > 0 THEN 3 ELSE 2
    <2>1. D \in 0 .. 4
      OBVIOUS
    <2> QED BY <2>1
  <1>10. p = Abstraction(g.core) \o Abstraction(g.external) \o Abstraction(g.internal)
    BY ONLY <1>1, <1>2, <1>3, <1>4, <1>5, <1>6, <1>7, Zenon
  <1>11. Reduced(g) =
           IF Dependencies(g) = 0 THEN NoArchitecture
           ELSE [ made |-> TRUE, shape |-> Made(d, 6 + 3 * Len(p), 0, 0), parts |-> p,
                  single |-> KeptAlone(g.core) + KeptAlone(g.external) + KeptAlone(g.internal),
                  elements |-> Len(p) ]
    BY ONLY <1>9, <1>10, Zenon DEF Reduced
  <1>12. PICK k \in Nat : k = 6 + 3 * Len(p)
    BY <1>8
  <1>13. PICK v \in Nat : v = ck + ek + ik
    OBVIOUS
  <1>14. v = KeptAlone(g.core) + KeptAlone(g.external) + KeptAlone(g.internal)
    BY ONLY <1>1, <1>2, <1>3, <1>4, <1>5, <1>6, <1>13, Zenon
  <1>15. Reduced(g).shape = Made(d, k, 0, 0) /\ Reduced(g).parts = p /\ Reduced(g).single = v
    BY ONLY <1>11, <1>12, <1>14, NothingMade, Reduced(g).made
  <1>16. SmallArchitecture(Reduced(g))
    <2>1. 0 \in 0 .. 3 /\ 0 \in 0 .. 2
      OBVIOUS
    <2> QED BY ONLY <1>15, <2>1, d \in 0 .. 4, k \in Nat, Zenon DEF SmallArchitecture
  <1>17. SumOfParts(p) = SumUpTo(p, Len(p))
    <2>1. PICK n \in 0 .. 3 : n = Len(p)
      BY <1>8
    <2>2. \A j \in 1 .. n : p[j] \in Int
      BY <1>8, <2>1
    <2> HIDE <1>7, <1>8
    <2> QED BY <2>1, <2>2, PartsSummed
  <1>18. Dependencies(g) = c + e + i
    BY <1>1, <1>2, <1>3 DEF Dependencies
  <1>19. SumOfParts(p) + v = Dependencies(g)
    <2>1. SumOfParts(p) = EntryOf(cs) + EntryOf(es) + EntryOf(is)
      BY <1>8, <1>17, Zenon
    <2>2. /\ EntryOf(cs) \in Int /\ EntryOf(es) \in Int /\ EntryOf(is) \in Int
      BY <1>4, <1>5, <1>6 DEF EntryOf
    <2>3. PICK x \in Int : x = EntryOf(cs)
      BY <2>2
    <2>4. PICK y \in Int : y = EntryOf(es)
      BY <2>2
    <2>5. PICK z \in Int : z = EntryOf(is)
      BY <2>2
    <2>6. SumOfParts(p) = x + y + z /\ x + ck = c /\ y + ek = e /\ z + ik = i
      BY ONLY <2>1, <2>3, <2>4, <2>5, <1>4, <1>5, <1>6, Zenon
    <2> QED BY ONLY <2>6, <1>13, <1>18, x \in Int, y \in Int, z \in Int, ck \in Nat, ek \in Nat,
              ik \in Nat, c \in Nat, e \in Nat, i \in Nat
  <1>20. Complete(g, "dependency_reduction", Reduced(g))
    BY ONLY <1>15, <1>19 DEF Complete
  <1> QED BY <1>16, <1>20

\* Whatever the strategy.
LEMMA ArchitecturesComplete ==
    ASSUME NEW g \in GuidelineEntries, NEW strategy \in FireStrategies,
           NEW arch, arch = Architecture(g, strategy), arch.made
    PROVE  SmallArchitecture(arch) /\ Complete(g, strategy, arch)
  <1>1. strategy \notin {"layer_separation", "functional_separation"} => g.wellformed
    BY NothingMade DEF Architecture
  <1>2. CASE strategy = "responsibility_extraction"
    BY <1>1, <1>2, ExtractedComplete DEF Architecture
  <1>3. CASE strategy = "dependency_reduction"
    BY <1>1, <1>3, ReducedComplete DEF Architecture
  <1>4. CASE strategy = "scope_narrowing"
    BY <1>1, <1>4, NarrowedComplete DEF Architecture
  <1>5. CASE strategy = "layer_separation"
    BY <1>5, LayeredComplete DEF Architecture
  <1>6. CASE strategy = "functional_separation"
    BY <1>6, SeparatedComplete DEF Architecture
  <1> QED BY <1>2, <1>3, <1>4, <1>5, <1>6 DEF FireStrategies

-----------------------------------------------------------------------------
(* The analysis of a guideline and its decomposition *)

\* The thresholds of a guideline and of a feature.
LEMMA Levels ==
    ASSUME NEW n \in Int
    PROVE  /\ Level(n, "general") \in {"LOW", "MEDIUM", "HIGH", "CRITICAL"}
           /\ Level(n, "general") \in {"HIGH", "CRITICAL"} <=> IsHigh(n)
           /\ IsSimple(n) => Level(n, "general") = "LOW"
           /\ Level(n, "phase_three_feature") \in {"MEDIUM", "HIGH", "CRITICAL"} <=> IsOver(n)
           /\ Level(n, "phase_three_feature") \in {"LOW", "MEDIUM", "HIGH", "CRITICAL"}
  <1>1. /\ n >= 9000 => Level(n, "general") = "CRITICAL"
        /\ n >= 7000 /\ n < 9000 => Level(n, "general") = "HIGH"
        /\ n >= 5500 /\ n < 7000 => Level(n, "general") = "MEDIUM"
        /\ n < 5500 => Level(n, "general") = "LOW"
    BY DEF Level
  <1>2. /\ n >= 7500 => Level(n, "phase_three_feature") = "CRITICAL"
        /\ n >= 6000 /\ n < 7500 => Level(n, "phase_three_feature") = "HIGH"
        /\ n >= 4500 /\ n < 6000 => Level(n, "phase_three_feature") = "MEDIUM"
        /\ n < 4500 => Level(n, "phase_three_feature") = "LOW"
    BY DEF Level
  <1>3. /\ Level(n, "general") \in {"LOW", "MEDIUM", "HIGH", "CRITICAL"}
        /\ Level(n, "general") \in {"HIGH", "CRITICAL"} <=> n >= 7000
    <2>1. CASE n >= 9000
      BY <1>1, <2>1
    <2>2. CASE n >= 7000 /\ n < 9000
      BY <1>1, <2>2
    <2>3. CASE n >= 5500 /\ n < 7000
      BY <1>1, <2>3
    <2>4. CASE n < 5500
      BY <1>1, <2>4
    <2> QED BY <2>1, <2>2, <2>3, <2>4
  <1>4. /\ Level(n, "phase_three_feature") \in {"LOW", "MEDIUM", "HIGH", "CRITICAL"}
        /\ Level(n, "phase_three_feature") \in {"MEDIUM", "HIGH", "CRITICAL"} <=> n >= 4500
    <2>1. CASE n >= 7500
      BY <1>2, <2>1
    <2>2. CASE n >= 6000 /\ n < 7500
      BY <1>2, <2>2
    <2>3. CASE n >= 4500 /\ n < 6000
      BY <1>2, <2>3
    <2>4. CASE n < 4500
      BY <1>2, <2>4
    <2> QED BY <2>1, <2>2, <2>3, <2>4
  <1>5. IsSimple(n) => Level(n, "general") = "LOW"
    BY <1>1 DEF IsSimple
  <1> QED BY <1>3, <1>4, <1>5 DEF IsHigh, IsOver

AnalysisRight(a) ==
    /\ IsScore(a.score) /\ a.level \in {"LOW", "MEDIUM", "HIGH", "CRITICAL"}
    /\ a.exceeds \in BOOLEAN
    /\ a.exceeds => a.causes # {} /\ a.strategy # "none"

\* A guideline over the threshold has a cause and a recommended strategy; scored
\* again under another context it keeps a score of 6500 at least.
LEMMA AnalysesRight ==
    ASSUME NEW g \in GuidelineEntries, NEW ctx
    PROVE  /\ AnalysisRight(AnalysisOf(g, ctx))
           /\ AnalysisOf(g, ctx).exceeds => \A other : IsHeavy(AnalysisOf(g, other).score)
  <1>1. CASE ~ g.wellformed
    <2>1. AnalysisOf(g, ctx) = Fallback
      BY <1>1 DEF AnalysisOf
    <2>2. AnalysisRight(Fallback) /\ ~ Fallback.exceeds
      BY DEF AnalysisRight, Fallback, IsScore, PossibleScores
    <2> QED BY <2>1, <2>2
  <1>2. CASE g.wellformed
    <2>1. PICK s : s = Shape(g)
      OBVIOUS
    <2>14. \A other : AnalysisOf(g, other).score = GuidelineScore(s, other)
      BY <1>2, <2>1 DEF AnalysisOf
    <2>2. ShapeCounts(s)
      BY <2>1, ShapesCount
    <2>3. PICK n \in Int : n = GuidelineScore(s, ctx) /\ IsScore(n)
      BY <2>2, ScoreRange
    <2>4. PICK l : l = Level(n, "general")
      OBVIOUS
    <2>5. PICK c : c = GuidelineCauses(s, ctx)
      OBVIOUS
    <2>6. PICK e \in BOOLEAN : e = (l \in {"HIGH", "CRITICAL"})
      <3>1. (l \in {"HIGH", "CRITICAL"}) \in BOOLEAN
        OBVIOUS
      <3> QED BY <3>1, Zenon
    <2>7. AnalysisOf(g, ctx) = [ score |-> n, level |-> l, exceeds |-> e, causes |-> c,
                                 strategy |-> RecommendedStrategy(c, n) ]
      <3>1. AnalysisOf(g, ctx) =
              [ score |-> GuidelineScore(Shape(g), ctx),
                level |-> Level(GuidelineScore(Shape(g), ctx), "general"),
                exceeds |-> Level(GuidelineScore(Shape(g), ctx), "general") \in {"HIGH", "CRITICAL"},
                causes |-> GuidelineCauses(Shape(g), ctx),
                strategy |-> RecommendedStrategy(GuidelineCauses(Shape(g), ctx),
                                                 GuidelineScore(Shape(g), ctx)) ]
        BY ONLY <1>2, Zenon DEF AnalysisOf
      <3> QED BY ONLY <3>1, <2>1, <2>3, <2>4, <2>5, <2>6, Zenon
    <2>8. IsHigh(n) => c # {}
      BY <2>2, <2>3, <2>5, CauseFound DEF IsHigh
    <2>9. IsHigh(n) => RecommendedStrategy(c, n) # "none"
      BY <2>8 DEF RecommendedStrategy, IsHigh
    <2>10. (e <=> IsHigh(n)) /\ l \in {"LOW", "MEDIUM", "HIGH", "CRITICAL"}
      <3>1. /\ l \in {"LOW", "MEDIUM", "HIGH", "CRITICAL"}
            /\ l \in {"HIGH", "CRITICAL"} <=> IsHigh(n)
        BY <2>4, Levels
      <3> QED BY <2>6, <3>1, Zenon
    <2>11. AnalysisRight(AnalysisOf(g, ctx))
      <3>1. PICK a : a = AnalysisOf(g, ctx)
        OBVIOUS
      <3>2. PICK r : r = RecommendedStrategy(c, n)
        OBVIOUS
      <3>3. a.score = n /\ a.level = l /\ a.exceeds = e /\ a.causes = c /\ a.strategy = r
        BY ONLY <2>7, <3>1, <3>2
      <3>4. AnalysisRight(a)
        BY ONLY <2>3, <2>8, <2>9, <2>10, <3>2, <3>3, e \in BOOLEAN, Zenon DEF AnalysisRight
      <3> QED BY <3>1, <3>4, Zenon
    <2>12. AnalysisOf(g, ctx).exceeds = e
      BY ONLY <2>7
    <2>13. IsHigh(n) => \A other : IsHeavy(GuidelineScore(s, other))
      <3> SUFFICES ASSUME IsHigh(n), NEW other PROVE IsHeavy(GuidelineScore(s, other))
        BY Zenon
      <3>1. GuidelineScore(s, ctx) <= GuidelineScore(s, other) + 500
        BY <2>2, ContextAdds
      <3>2. PICK m \in Int : m = GuidelineScore(s, other)
        BY <2>2, ScoreRange
      <3>3. n <= m + 500
        BY <2>3, <3>1, <3>2
      <3> QED BY <3>2, <3>3 DEF IsHigh, IsHeavy
    <2> QED BY ONLY <2>10, <2>11, <2>12, <2>13, <2>14, Zenon
  <1> QED BY <1>1, <1>2

ResultRight(r, g, strategy, ctx) ==
    /\ r.success \in BOOLEAN /\ IsScore(r.new)
    /\ r.arch.made =>
         /\ r.strategy = strategy /\ Complete(g, strategy, r.arch)
         /\ Level(r.new, "general") = "LOW"
         /\ IsHeavy(AnalysisOf(g, ctx).score) => r.success

\* What comes of a decomposition: an architecture that is complete and scores LOW,
\* or none.
LEMMA DecompositionsRight ==
    ASSUME NEW g \in GuidelineEntries, NEW strategy \in FireStrategies, NEW ctx,
           NEW r, r = Decomposed(g, strategy, ctx)
    PROVE  ResultRight(r, g, strategy, ctx)
  <1>1. PICK a : a = Architecture(g, strategy)
    OBVIOUS
  <1>2. PICK o \in Int : o = AnalysisOf(g, ctx).score
    <2>1. AnalysisOf(g, ctx).score \in Int
      BY AnalysesRight DEF AnalysisRight, IsScore, PossibleScores
    <2> QED BY <2>1
  <1>3. PICK n : n = IF a.made THEN GuidelineScore(a.shape, ctx) ELSE 0
    OBVIOUS
  <1>4. PICK b \in BOOLEAN : b = (a.made /\ IsReduction(o, n))
    <2>1. (a.made /\ IsReduction(o, n)) \in BOOLEAN
      OBVIOUS
    <2> QED BY <2>1, Zenon
  <1>5. r = [ success |-> b, original |-> o, new |-> n, strategy |-> strategy, arch |-> a ]
    <2>1. Decomposed(g, strategy, ctx) =
            [ success |-> /\ Architecture(g, strategy).made
                          /\ IsReduction(AnalysisOf(g, ctx).score,
                                         IF Architecture(g, strategy).made
                                         THEN GuidelineScore(Architecture(g, strategy).shape, ctx)
                                         ELSE 0),
              original |-> AnalysisOf(g, ctx).score,
              new |-> IF Architecture(g, strategy).made
                      THEN GuidelineScore(Architecture(g, strategy).shape, ctx) ELSE 0,
              strategy |-> strategy, arch |-> Architecture(g, strategy) ]
      BY Zenon DEF Decomposed
    <2> QED BY ONLY <2>1, <1>1, <1>2, <1>3, <1>4, r = Decomposed(g, strategy, ctx), Zenon
  <1>6. r.success = b /\ r.new = n /\ r.strategy = strategy /\ r.arch = a
    BY ONLY <1>5
  <1> HIDE <1>5
  <1>7. CASE a.made
    <2>1. SmallArchitecture(a) /\ Complete(g, strategy, a)
      BY <1>1, <1>7, ArchitecturesComplete
    <2>2. IsSimple(n)
      <3>1. PICK deepest \in 0 .. 4, keys \in Nat, dependencies \in 0 .. 3, interfaces \in 0 .. 2 :
              a.shape = Made(deepest, keys, dependencies, interfaces)
        BY <2>1 DEF SmallArchitecture
      <3>2. n = GuidelineScore(Made(deepest, keys, dependencies, interfaces), ctx)
        BY ONLY <1>3, <1>7, <3>1, Zenon
      <3>3. IsSimple(GuidelineScore(Made(deepest, keys, dependencies, interfaces), ctx))
        BY SmallIsSimple
      <3> QED BY <3>2, <3>3, Zenon
    <2>3. Level(n, "general") = "LOW" /\ IsScore(n)
      <3>1. n \in Int /\ IsScore(n)
        BY <2>2 DEF IsSimple, IsScore, PossibleScores
      <3> QED BY <2>2, <3>1, Levels
    <2>4. IsHeavy(AnalysisOf(g, ctx).score) => b
      <3> SUFFICES ASSUME IsHeavy(o) PROVE b
        BY <1>2, Zenon
      <3>1. IsReduction(o, n)
        BY <2>2 DEF IsReduction, IsSimple, IsHeavy
      <3> QED BY <1>4, <1>7, <3>1, Zenon
    <2> QED BY ONLY <1>6, <2>1, <2>3, <2>4, b \in BOOLEAN, Zenon DEF ResultRight
  <1>8. CASE ~ a.made
    <2>1. n = 0
      BY <1>3, <1>8
    <2>2. IsScore(n)
      BY <2>1 DEF IsScore, PossibleScores
    <2> QED BY ONLY <1>6, <1>8, <2>2, b \in BOOLEAN, Zenon DEF ResultRight
  <1> QED BY <1>7, <1>8, Zenon

\* The strategy of the workflow is one of the decomposer's.
LEMMA ChosenStrategies == \A g : ChosenStrategy(g) \in FireStrategies
  BY DEF ChosenStrategy, FireStrategies

\* What comes of a guideline without a strategy is what comes of one, or a failure.
LEMMA ChoicesRight ==
    ASSUME NEW g, NEW ctx
    PROVE  \/ \E strategy \in FireStrategies :
                DecomposedByChoice(g, ctx) = Decomposed(g, strategy, ctx)
           \/ ~ g.wellformed /\ DecomposedByChoice(g, ctx) = Failure
  BY ChosenStrategies, Zenon DEF DecomposedByChoice

-----------------------------------------------------------------------------
(* The features of an evaluation *)

FeatureEntries ==
    [ scope : Nat, responsibilities : Nat, dependencies : Nat, related : Nat, concerns : Nat,
      areas : Nat, texts : SUBSET {"scope", "responsibilities"}, id : SUBSET Words,
      name : SUBSET Words, words : SUBSET Words, wellformed : BOOLEAN ]

\* What the words and lists of concerns and areas add to a score.
Told(f) == 15 * Capped(18 * Concerns(f), 100) + 10 * Capped(15 * Areas(f), 100)

\* Words of a text with words added.
LEMMA WordsAdded ==
    ASSUME NEW S, IsFiniteSet(S), NEW T, NEW U, T \subseteq U, NEW V
    PROVE  /\ Cardinality(S \cap (T \cup V)) \in Nat /\ Cardinality(S \cap U) \in Nat
           /\ Cardinality(S \cap V) \in Nat
           /\ Cardinality(S \cap (T \cup V)) <= Cardinality(S \cap U) + Cardinality(S \cap V)
  <1>1. IsFiniteSet(S \cap T) /\ IsFiniteSet(S \cap U) /\ IsFiniteSet(S \cap V)
        /\ IsFiniteSet(S \cap (T \cup V)) /\ IsFiniteSet((S \cap T) \cap (S \cap V))
    BY FS_Intersection
  <1>2. /\ Cardinality(S \cap T) \in Nat /\ Cardinality(S \cap U) \in Nat
        /\ Cardinality(S \cap V) \in Nat /\ Cardinality(S \cap (T \cup V)) \in Nat
        /\ Cardinality((S \cap T) \cap (S \cap V)) \in Nat
    BY <1>1, FS_CardinalityType
  <1>3. Cardinality(S \cap T) <= Cardinality(S \cap U)
    <2>1. S \cap T \in SUBSET (S \cap U)
      OBVIOUS
    <2> QED BY <1>1, <2>1, FS_Subset
  <1>4. Cardinality((S \cap T) \cup (S \cap V))
          = Cardinality(S \cap T) + Cardinality(S \cap V) - Cardinality((S \cap T) \cap (S \cap V))
    BY <1>1, FS_Union
  <1>5. (S \cap T) \cup (S \cap V) = S \cap (T \cup V)
    OBVIOUS
  <1>6. PICK b \in Nat, u \in Nat, t \in Nat, v \in Nat, i \in Nat :
          /\ b = Cardinality(S \cap (T \cup V)) /\ u = Cardinality(S \cap U)
          /\ t = Cardinality(S \cap T) /\ v = Cardinality(S \cap V)
          /\ i = Cardinality((S \cap T) \cap (S \cap V))
    BY ONLY <1>2, Zenon
  <1>7. b = t + v - i /\ t <= u
    BY ONLY <1>3, <1>4, <1>5, <1>6, Zenon
  <1>8. b <= u + v
    BY ONLY <1>7, b \in Nat, u \in Nat, t \in Nat, v \in Nat, i \in Nat
  <1> QED BY ONLY <1>2, <1>6, <1>8, Zenon

\* Of a feature the words are counted, and so much of the score is theirs.
LEMMA FeaturesTold ==
    ASSUME NEW f \in FeatureEntries
    PROVE  Concerns(f) \in Nat /\ Areas(f) \in Nat /\ Told(f) \in 0 .. 2500
  <1>1. f.concerns \in Nat /\ f.areas \in Nat
    BY DEF FeatureEntries
  <1>2. Cardinality(ConcernWords \cap Text(f)) \in Nat /\ Cardinality(AreaWords \cap Text(f)) \in Nat
    BY WordsAssumption, FS_Intersection, FS_CardinalityType
  <1>3. Concerns(f) \in Nat /\ Areas(f) \in Nat
    BY <1>1, <1>2 DEF Concerns, Areas
  <1>4. \A n \in Nat : Capped(18 * n, 100) \in 0 .. 100 /\ Capped(15 * n, 100) \in 0 .. 100
    BY DEF Capped
  <1> QED BY <1>3, <1>4 DEF Told

\* A feature's score, and what is left of it without its related features.
LEMMA FeatureScores ==
    ASSUME NEW f \in FeatureEntries
    PROVE  /\ FeatureScore(f) \in Int /\ FeatureScore(Alone(f)) \in Int
           /\ IsOver(FeatureScore(f)) => IsFair(FeatureScore(Alone(f)))
           /\ IsOver(FeatureScore(Alone(f))) => FeatureScore(Alone(f)) >= 2000 + Told(f)
  <1>1. PICK h : h = Alone(f)
    OBVIOUS
  <1>2. /\ h.scope = f.scope /\ h.responsibilities = f.responsibilities /\ h.texts = f.texts
        /\ h.dependencies = f.dependencies /\ h.related = 0
        /\ Concerns(h) = Concerns(f) /\ Areas(h) = Areas(f)
    <2>1. /\ h.scope = f.scope /\ h.responsibilities = f.responsibilities /\ h.texts = f.texts
          /\ h.dependencies = f.dependencies /\ h.related = 0 /\ h.concerns = f.concerns
          /\ h.areas = f.areas /\ h.id = f.id /\ h.name = f.name /\ h.words = f.words
      BY <1>1 DEF FeatureEntries, Alone
    <2> QED BY ONLY <2>1, Zenon DEF Concerns, Areas, Text
  <1>3. f.scope \in Nat /\ f.responsibilities \in Nat /\ f.dependencies \in Nat /\ f.related \in Nat
    BY DEF FeatureEntries
  <1>4. \A n \in Nat : Capped(n, 100) \in 0 .. 100
    BY DEF Capped
  <1>5. PICK a \in 0 .. 100 : a = Capped((IF "scope" \in f.texts THEN 3 ELSE 20) * f.scope, 100)
    BY <1>3, <1>4
  <1>6. PICK b \in 0 .. 100 : b = ResponsibilitiesScore(f)
    BY <1>3, <1>4 DEF ResponsibilitiesScore
  <1>7. PICK c \in 0 .. 100 : c = Capped(22 * (f.dependencies + f.related), 100)
    BY <1>3, <1>4
  <1>8. PICK k \in 0 .. 100 : k = Capped(22 * (h.dependencies + h.related), 100)
    BY <1>2, <1>3, <1>4
  <1>9. PICK d \in 0 .. 100 : d = Capped(18 * Concerns(f), 100)
    BY FeaturesTold, <1>4
  <1>10. PICK e \in 0 .. 100 : e = Capped(15 * Areas(f), 100)
    BY FeaturesTold, <1>4
  <1>11. FeatureScore(f) = 30 * a + 25 * b + 20 * c + 15 * d + 10 * e
    BY ONLY <1>5, <1>6, <1>7, <1>9, <1>10 DEF FeatureScore
  <1>12. FeatureScore(h) = 30 * a + 25 * b + 20 * k + 15 * d + 10 * e
    <2>1. ResponsibilitiesScore(h) = b
      BY ONLY <1>2, <1>6, Zenon DEF ResponsibilitiesScore
    <2>2. Capped((IF "scope" \in h.texts THEN 3 ELSE 20) * h.scope, 100) = a
      BY ONLY <1>2, <1>5, Zenon
    <2> QED BY ONLY <1>2, <1>8, <1>9, <1>10, <2>1, <2>2 DEF FeatureScore
  <1>13. Told(f) = 15 * d + 10 * e
    BY ONLY <1>9, <1>10 DEF Told
  <1>14. /\ FeatureScore(f) \in Int /\ FeatureScore(h) \in Int
         /\ IsOver(FeatureScore(f)) => IsFair(FeatureScore(h))
         /\ IsOver(FeatureScore(h)) => FeatureScore(h) >= 2000 + Told(f)
    BY ONLY <1>11, <1>12, <1>13, a \in 0 .. 100, b \in 0 .. 100, c \in 0 .. 100, d \in 0 .. 100,
            e \in 0 .. 100, k \in 0 .. 100 DEF IsOver, IsFair
  <1> QED BY ONLY <1>1, <1>14

\* A feature that exceeds is well formed, and gets one of three strategies.
LEMMA ExceedingFeatures ==
    ASSUME NEW f \in FeatureEntries
    PROVE  /\ FeatureAnalysis(f).exceeds => f.wellformed
           /\ f.wellformed => (FeatureAnalysis(f).exceeds <=> IsOver(FeatureScore(f)))
           /\ FeatureAnalysis(f).exceeds =>
                FeatureAnalysis(f).strategy \in {"concern_isolation", "functional_separation",
                                                 "scope_narrowing"}
  <1>1. CASE ~ f.wellformed
    <2>1. FeatureAnalysis(f) = [Fallback EXCEPT !.strategy = "none"]
      BY <1>1 DEF FeatureAnalysis
    <2>2. ~ FeatureAnalysis(f).exceeds
      BY <2>1 DEF Fallback
    <2> QED BY <1>1, <2>2
  <1>2. CASE f.wellformed
    <2>1. PICK n \in Int : n = FeatureScore(f)
      <3>1. FeatureScore(f) \in Int
        BY ONLY FeatureScores, f \in FeatureEntries
      <3> QED BY <3>1
    <2>2. PICK e \in BOOLEAN : e = FeatureExceeds(n)
      <3>1. FeatureExceeds(n) \in BOOLEAN
        BY DEF FeatureExceeds
      <3> QED BY <3>1, Zenon
    <2>3. PICK l, s : l = Level(n, "phase_three_feature") /\ s = FeatureStrategy(f, n)
      OBVIOUS
    <2>4. FeatureAnalysis(f) = [ score |-> n, level |-> l, exceeds |-> e, causes |-> {}, strategy |-> s ]
      <3>1. FeatureAnalysis(f) =
              [ score |-> FeatureScore(f), level |-> Level(FeatureScore(f), "phase_three_feature"),
                exceeds |-> FeatureExceeds(FeatureScore(f)), causes |-> {},
                strategy |-> FeatureStrategy(f, FeatureScore(f)) ]
        BY ONLY <1>2, Zenon DEF FeatureAnalysis
      <3> QED BY ONLY <2>1, <2>2, <2>3, <3>1, Zenon
    <2>5. FeatureAnalysis(f).exceeds = e /\ FeatureAnalysis(f).strategy = s
      BY ONLY <2>4
    <2>6. e <=> IsOver(n)
      <3>1. Level(n, "phase_three_feature") \in {"MEDIUM", "HIGH", "CRITICAL"} <=> IsOver(n)
        BY Levels
      <3> QED BY ONLY <2>2, <3>1, Zenon DEF FeatureExceeds
    <2>7. IsOver(n) => s \in {"concern_isolation", "functional_separation", "scope_narrowing"}
      BY <2>3 DEF IsOver, FeatureStrategy
    <2> QED BY ONLY <1>2, <2>1, <2>5, <2>6, <2>7, Zenon
  <1> QED BY <1>1, <1>2

OwnWords == {{}, {"validation"}, {"logging", "service"}, {"validation", "service"}}

\* The words a part has of its own are one concern and one area at most.
LEMMA OwnWordsFew ==
    ASSUME NEW own \in OwnWords
    PROVE  /\ own \in SUBSET Words
           /\ Cardinality(ConcernWords \cap own) \in 0 .. 1 /\ Cardinality(AreaWords \cap own) \in 0 .. 1
  <1>1. /\ "logging" \in ConcernWords /\ "validation" \in ConcernWords /\ "service" \in AreaWords
        /\ "service" \notin ConcernWords /\ "logging" \notin AreaWords /\ "validation" \notin AreaWords
    BY WordsAssumption
  <1>2. own \in SUBSET Words
    BY <1>1 DEF OwnWords, Words
  <1>3. \A x : Cardinality({x}) = 1
    BY FS_Singleton
  <1>4. \/ ConcernWords \cap own = {} \/ ConcernWords \cap own = {"validation"}
        \/ ConcernWords \cap own = {"logging"}
    BY <1>1 DEF OwnWords
  <1>5. AreaWords \cap own = {} \/ AreaWords \cap own = {"service"}
    BY <1>1 DEF OwnWords
  <1>6. /\ Cardinality(ConcernWords \cap own) = 0 \/ Cardinality(ConcernWords \cap own) = 1
        /\ Cardinality(AreaWords \cap own) = 0 \/ Cardinality(AreaWords \cap own) = 1
    BY ONLY <1>3, <1>4, <1>5, FS_EmptySet, Zenon
  <1> QED BY <1>2, <1>6

\* Where the parts of a feature are to be simpler than it.
Simpler(f) == IsOver(FeatureScore(Alone(f))) \/ f.id \cup f.name = {}

\* A part never exceeds: it has its scope and the words given to it.
LEMMA PartLight ==
    ASSUME NEW f \in FeatureEntries, IsOver(FeatureScore(f)),
           NEW given \in SUBSET (f.id \cup f.name),
           NEW s \in 0 .. 2, NEW own \in OwnWords, NEW x, x = Part(given, s, own)
    PROVE  /\ x \in FeatureEntries /\ FeatureScore(x) \in Int /\ ~ FeatureAnalysis(x).exceeds
           /\ Simpler(f) => FeatureScore(x) < FeatureScore(Alone(f))
  <1>1. /\ x.scope = s /\ x.responsibilities = 0 /\ x.dependencies = 0 /\ x.related = 0
        /\ x.concerns = 0 /\ x.areas = 0 /\ x.texts = {} /\ x.id = given /\ x.name = {}
        /\ x.words = own /\ x.wellformed = TRUE
    BY DEF Part
  <1>2. f.id \in SUBSET Words /\ f.name \in SUBSET Words
    BY DEF FeatureEntries
  <1>3. x \in FeatureEntries
    <2>1. given \in SUBSET Words /\ own \in SUBSET Words
      BY <1>2, OwnWordsFew
    <2>2. s \in Nat /\ 0 \in Nat /\ {} \in SUBSET Words /\ {} \in SUBSET {"scope", "responsibilities"}
      OBVIOUS
    <2> QED BY ONLY <2>1, <2>2, x = Part(given, s, own) DEF Part, FeatureEntries
  <1>4. Text(x) = given \cup own
    BY <1>1 DEF Text
  <1>5. given \subseteq Text(f)
    BY DEF Text
  <1>6. PICK n \in Nat, c \in 0 .. 1, m \in Nat :
          /\ n = Concerns(x) /\ c = Cardinality(ConcernWords \cap own)
          /\ m = Cardinality(ConcernWords \cap Text(f)) /\ n <= m + c /\ (given = {} => n = c)
    <2>1. Concerns(x) = Cardinality(ConcernWords \cap (given \cup own))
      <3>1. Cardinality(ConcernWords \cap (given \cup own)) \in Nat
        BY <1>5, WordsAssumption, WordsAdded
      <3> QED BY <1>1, <1>4, <3>1 DEF Concerns
    <2>2. /\ Cardinality(ConcernWords \cap (given \cup own)) \in Nat
          /\ Cardinality(ConcernWords \cap Text(f)) \in Nat
          /\ Cardinality(ConcernWords \cap (given \cup own))
               <= Cardinality(ConcernWords \cap Text(f)) + Cardinality(ConcernWords \cap own)
      BY <1>5, WordsAssumption, WordsAdded
    <2>3. given = {} => given \cup own = own
      OBVIOUS
    <2> QED BY <2>1, <2>2, <2>3, OwnWordsFew
  <1>7. PICK k \in Nat, a \in 0 .. 1, l \in Nat :
          /\ k = Areas(x) /\ a = Cardinality(AreaWords \cap own)
          /\ l = Cardinality(AreaWords \cap Text(f)) /\ k <= l + a /\ (given = {} => k = a)
    <2>1. Areas(x) = Cardinality(AreaWords \cap (given \cup own))
      <3>1. Cardinality(AreaWords \cap (given \cup own)) \in Nat
        BY <1>5, WordsAssumption, WordsAdded
      <3> QED BY <1>1, <1>4, <3>1 DEF Areas
    <2>2. /\ Cardinality(AreaWords \cap (given \cup own)) \in Nat
          /\ Cardinality(AreaWords \cap Text(f)) \in Nat
          /\ Cardinality(AreaWords \cap (given \cup own))
               <= Cardinality(AreaWords \cap Text(f)) + Cardinality(AreaWords \cap own)
      BY <1>5, WordsAssumption, WordsAdded
    <2>3. given = {} => given \cup own = own
      OBVIOUS
    <2> QED BY <2>1, <2>2, <2>3, OwnWordsFew
  <1>8. PICK i \in Nat, j \in Nat : i = Concerns(f) /\ j = Areas(f) /\ m <= i /\ l <= j
    <2>1. Concerns(f) = f.concerns + m /\ Areas(f) = f.areas + l
      BY ONLY <1>6, <1>7, Zenon DEF Concerns, Areas
    <2>2. PICK b \in Nat, d \in Nat : b = f.concerns /\ d = f.areas
      BY DEF FeatureEntries
    <2>3. /\ b + m \in Nat /\ d + l \in Nat /\ m <= b + m /\ l <= d + l
      BY ONLY b \in Nat, d \in Nat, m \in Nat, l \in Nat
    <2>4. PICK e \in Nat, h \in Nat : e = b + m /\ h = d + l /\ m <= e /\ l <= h
      BY ONLY <2>3
    <2>5. e = Concerns(f) /\ h = Areas(f)
      BY ONLY <2>1, <2>2, <2>4, Zenon
    <2> QED BY ONLY <2>4, <2>5, e \in Nat, h \in Nat, Zenon
  <1>9. PICK u \in Int : u = Told(x)
    <2>1. Told(x) \in 0 .. 2500
      BY ONLY <1>3, FeaturesTold
    <2> QED BY ONLY <2>1
  <1>10. PICK t \in Int : t = Told(f)
    BY FeaturesTold
  <1>11. u \in 0 .. 2500 /\ u <= t + 420 /\ (given = {} => u <= 420)
    <2>1. u = 15 * Capped(18 * n, 100) + 10 * Capped(15 * k, 100)
      BY ONLY <1>6, <1>7, <1>9, Zenon DEF Told
    <2>2. t = 15 * Capped(18 * i, 100) + 10 * Capped(15 * j, 100)
      BY ONLY <1>8, <1>10, Zenon DEF Told
    <2>3. Capped(18 * n, 100) \in 0 .. 100 /\ Capped(18 * i, 100) \in 0 .. 100
          /\ Capped(18 * n, 100) <= Capped(18 * i, 100) + 18 /\ (n <= 1 => Capped(18 * n, 100) <= 18)
      <3>1. n <= i + 1
        BY <1>6, <1>8
      <3> QED BY <3>1 DEF Capped
    <2>4. Capped(15 * k, 100) \in 0 .. 100 /\ Capped(15 * j, 100) \in 0 .. 100
          /\ Capped(15 * k, 100) <= Capped(15 * j, 100) + 15 /\ (k <= 1 => Capped(15 * k, 100) <= 15)
      <3>1. k <= j + 1
        BY <1>7, <1>8
      <3> QED BY <3>1 DEF Capped
    <2>5. given = {} => n <= 1 /\ k <= 1
      BY <1>6, <1>7
    <2>6. PICK a1 \in 0 .. 100, a2 \in 0 .. 100, b1 \in 0 .. 100, b2 \in 0 .. 100 :
            /\ a1 = Capped(18 * n, 100) /\ a2 = Capped(18 * i, 100)
            /\ b1 = Capped(15 * k, 100) /\ b2 = Capped(15 * j, 100)
      BY ONLY <2>3, <2>4, Zenon
    <2>7. /\ u = 15 * a1 + 10 * b1 /\ t = 15 * a2 + 10 * b2 /\ a1 <= a2 + 18 /\ b1 <= b2 + 15
          /\ (given = {} => a1 <= 18 /\ b1 <= 15)
      BY ONLY <2>1, <2>2, <2>3, <2>4, <2>5, <2>6, Zenon
    <2> QED BY ONLY <2>7, a1 \in 0 .. 100, a2 \in 0 .. 100, b1 \in 0 .. 100, b2 \in 0 .. 100
  <1>12. FeatureScore(x) = 600 * s + u
    <2>1. /\ Capped((IF "scope" \in x.texts THEN 3 ELSE 20) * x.scope, 100) = 20 * s
          /\ ResponsibilitiesScore(x) = 0 /\ Capped(22 * (x.dependencies + x.related), 100) = 0
      BY <1>1 DEF Capped, ResponsibilitiesScore
    <2>2. FeatureScore(x) = 30 * (20 * s) + 25 * 0 + 20 * 0 + 15 * Capped(18 * n, 100)
                              + 10 * Capped(15 * k, 100)
      BY ONLY <1>6, <1>7, <2>1 DEF FeatureScore
    <2>3. u = 15 * Capped(18 * n, 100) + 10 * Capped(15 * k, 100)
      BY ONLY <1>6, <1>7, <1>9, Zenon DEF Told
    <2>4. Capped(18 * n, 100) \in Int /\ Capped(15 * k, 100) \in Int
      BY DEF Capped
    <2>5. PICK a1 \in Int, b1 \in Int : a1 = Capped(18 * n, 100) /\ b1 = Capped(15 * k, 100)
      BY ONLY <2>4, Zenon
    <2>6. FeatureScore(x) = 30 * (20 * s) + 25 * 0 + 20 * 0 + 15 * a1 + 10 * b1 /\ u = 15 * a1 + 10 * b1
      BY ONLY <2>2, <2>3, <2>5, Zenon
    <2> QED BY ONLY <2>6, a1 \in Int, b1 \in Int, s \in 0 .. 2
  <1>13. FeatureScore(x) \in Int /\ ~ IsOver(FeatureScore(x))
    BY <1>11, <1>12 DEF IsOver
  <1>14. ~ FeatureAnalysis(x).exceeds
    BY ONLY <1>1, <1>3, <1>13, ExceedingFeatures
  <1>15. Simpler(f) => FeatureScore(x) < FeatureScore(Alone(f))
    <2>1. PICK o \in Int : o = FeatureScore(Alone(f))
      BY FeatureScores
    <2>2. IsFair(o) /\ (IsOver(o) => o >= 2000 + t)
      BY ONLY FeatureScores, <1>10, <2>1, f \in FeatureEntries, IsOver(FeatureScore(f))
    <2>3. f.id \cup f.name = {} => given = {}
      OBVIOUS
    <2>4. IsOver(o) \/ given = {} => 600 * s + u < o
      BY ONLY <1>11, <2>2, s \in 0 .. 2, o \in Int, u \in Int, t \in Int DEF IsFair, IsOver
    <2> QED BY ONLY <1>12, <2>1, <2>3, <2>4, Zenon DEF Simpler
  <1> QED BY <1>3, <1>13, <1>14, <1>15

\* The parts of the three strategies: none exceeds, and where they are to be
\* simpler than the feature each is, so that their sum is below its multiple.
LEMMA PartsLight ==
    ASSUME NEW f \in FeatureEntries, IsOver(FeatureScore(f)),
           NEW strategy \in {"concern_isolation", "functional_separation", "scope_narrowing"},
           NEW p, p = FeatureParts(f, strategy), NEW o \in Int, o = FeatureScore(Alone(f))
    PROVE  /\ p \in Seq(FeatureEntries) /\ Len(p) \in 2 .. 3 /\ SumOfScores(p) \in Int
           /\ \A k \in 1 .. Len(p) : ~ FeatureAnalysis(p[k]).exceeds
           /\ Simpler(f) => /\ \A k \in 1 .. Len(p) : FeatureScore(p[k]) < o
                            /\ SumOfScores(p) < Len(p) * o
  <1> DEFINE Light(x) == /\ x \in FeatureEntries /\ FeatureScore(x) \in Int
                         /\ ~ FeatureAnalysis(x).exceeds
                         /\ Simpler(f) => FeatureScore(x) < o
  <1>1. PICK called : called = f.id \cup f.name
    OBVIOUS
  <1>2. called \in SUBSET (f.id \cup f.name) /\ f.id \in SUBSET (f.id \cup f.name)
    BY <1>1
  <1>3. \A given \in SUBSET (f.id \cup f.name), s \in 0 .. 2, own \in OwnWords : Light(Part(given, s, own))
    BY PartLight
  <1>4. {} \in OwnWords /\ {"validation"} \in OwnWords /\ {"logging", "service"} \in OwnWords
        /\ {"validation", "service"} \in OwnWords /\ 0 \in 0 .. 2 /\ 1 \in 0 .. 2 /\ 2 \in 0 .. 2
    BY DEF OwnWords
  <1>5. ASSUME NEW x, NEW y, NEW z, p = <<x, y, z>>, Light(x), Light(y), Light(z)
        PROVE  /\ p \in Seq(FeatureEntries) /\ Len(p) \in 2 .. 3 /\ SumOfScores(p) \in Int
               /\ \A k \in 1 .. Len(p) : ~ FeatureAnalysis(p[k]).exceeds
               /\ Simpler(f) => /\ \A k \in 1 .. Len(p) : FeatureScore(p[k]) < o
                                /\ SumOfScores(p) < Len(p) * o
    <2>1. p \in Seq(FeatureEntries) /\ Len(p) = 3 /\ p[1] = x /\ p[2] = y /\ p[3] = z
      BY <1>5
    <2>2. \A k \in 1 .. 3 : k = 1 \/ k = 2 \/ k = 3
      OBVIOUS
    <2>3. \A k \in 1 .. 3 : ~ FeatureAnalysis(p[k]).exceeds
      BY ONLY <2>1, <2>2, <1>5, Zenon
    <2>4. Simpler(f) => \A k \in 1 .. 3 : FeatureScore(p[k]) < o
      BY ONLY <2>1, <2>2, <1>5, Zenon
    <2>5. PICK a \in Int, b \in Int, c \in Int :
            a = FeatureScore(x) /\ b = FeatureScore(y) /\ c = FeatureScore(z)
      BY <1>5
    <2>6. PICK s : s = <<a, b, c>>
      OBVIOUS
    <2>7. s[1] = a /\ s[2] = b /\ s[3] = c
      BY <2>6
    <2> HIDE <2>6
    <2>8. \A i \in 1 .. 3 : s[i] \in Int /\ s[i] = FeatureScore(p[i])
      BY ONLY <2>1, <2>2, <2>5, <2>7, a \in Int, b \in Int, c \in Int, Zenon
    <2>9. SumOfScores(p) = SumUpTo(s, 3)
      BY ONLY <2>1, <2>8, ScoresSummed
    <2>10. SumUpTo(s, 3) = a + b + c
      BY ONLY <2>7, a \in Int, b \in Int, c \in Int DEF SumUpTo
    <2>11. Simpler(f) => a < o /\ b < o /\ c < o
      BY ONLY <1>5, <2>5, Zenon
    <2>12. SumOfScores(p) \in Int /\ (Simpler(f) => SumOfScores(p) < 3 * o)
      BY ONLY <2>9, <2>10, <2>11, a \in Int, b \in Int, c \in Int, o \in Int
    <2> QED BY ONLY <2>1, <2>3, <2>4, <2>12
  <1>6. ASSUME NEW x, NEW y, p = <<x, y>>, Light(x), Light(y)
        PROVE  /\ p \in Seq(FeatureEntries) /\ Len(p) \in 2 .. 3 /\ SumOfScores(p) \in Int
               /\ \A k \in 1 .. Len(p) : ~ FeatureAnalysis(p[k]).exceeds
               /\ Simpler(f) => /\ \A k \in 1 .. Len(p) : FeatureScore(p[k]) < o
                                /\ SumOfScores(p) < Len(p) * o
    <2>1. p \in Seq(FeatureEntries) /\ Len(p) = 2 /\ p[1] = x /\ p[2] = y
      BY <1>6
    <2>2. \A k \in 1 .. 2 : k = 1 \/ k = 2
      OBVIOUS
    <2>3. \A k \in 1 .. 2 : ~ FeatureAnalysis(p[k]).exceeds
      BY ONLY <2>1, <2>2, <1>6, Zenon
    <2>4. Simpler(f) => \A k \in 1 .. 2 : FeatureScore(p[k]) < o
      BY ONLY <2>1, <2>2, <1>6, Zenon
    <2>5. PICK a \in Int, b \in Int : a = FeatureScore(x) /\ b = FeatureScore(y)
      BY <1>6
    <2>6. PICK s : s = <<a, b>>
      OBVIOUS
    <2>7. s[1] = a /\ s[2] = b
      BY <2>6
    <2> HIDE <2>6
    <2>8. \A i \in 1 .. 2 : s[i] \in Int /\ s[i] = FeatureScore(p[i])
      BY ONLY <2>1, <2>2, <2>5, <2>7, a \in Int, b \in Int, Zenon
    <2>9. SumOfScores(p) = SumUpTo(s, 2)
      BY ONLY <2>1, <2>8, ScoresSummed
    <2>10. SumUpTo(s, 2) = a + b
      BY ONLY <2>7, a \in Int, b \in Int DEF SumUpTo
    <2>11. Simpler(f) => a < o /\ b < o
      BY ONLY <1>6, <2>5, Zenon
    <2>12. SumOfScores(p) \in Int /\ (Simpler(f) => SumOfScores(p) < 2 * o)
      BY ONLY <2>9, <2>10, <2>11, a \in Int, b \in Int, o \in Int
    <2> QED BY ONLY <2>1, <2>3, <2>4, <2>12
  <1>7. CASE strategy = "concern_isolation"
    <2>1. p = <<Part(called, 1, {}), Part(f.id, 1, {"logging", "service"}),
                Part(f.id, 1, {"validation", "service"})>>
      BY <1>1, <1>7 DEF FeatureParts
    <2>2. /\ Light(Part(called, 1, {})) /\ Light(Part(f.id, 1, {"logging", "service"}))
          /\ Light(Part(f.id, 1, {"validation", "service"}))
      BY ONLY <1>2, <1>3, <1>4
    <2> HIDE DEF Light
    <2> QED BY ONLY <1>5, <2>1, <2>2, Zenon
  <1>8. CASE strategy = "scope_narrowing"
    <2>1. p = <<Part(called, 1, {}), Part(called, 2, {}), Part(called, 2, {})>>
      BY <1>1, <1>8 DEF FeatureParts
    <2>2. Light(Part(called, 1, {})) /\ Light(Part(called, 2, {}))
      BY ONLY <1>2, <1>3, <1>4
    <2> HIDE DEF Light
    <2> QED BY ONLY <1>5, <2>1, <2>2, Zenon
  <1>9. CASE strategy = "functional_separation"
    <2>1. p = <<Part(called, 0, {}), Part(called, 0, {"validation"})>>
      BY <1>1, <1>9 DEF FeatureParts
    <2>2. Light(Part(called, 0, {})) /\ Light(Part(called, 0, {"validation"}))
      BY ONLY <1>2, <1>3, <1>4
    <2> HIDE DEF Light
    <2> QED BY ONLY <1>6, <2>1, <2>2, Zenon
  <1> QED BY ONLY <1>7, <1>8, <1>9,
             strategy \in {"concern_isolation", "functional_separation", "scope_narrowing"}

ListedInterventions == [feature : FeatureEntries, reduction : Int, parts : Seq(FeatureEntries)]

InterventionRight(v) ==
    /\ \A k \in 1 .. Len(v.parts) : ~ FeatureAnalysis(v.parts[k]).exceeds
    /\ PartsAreSimpler(v)

\* The intervention for a feature that exceeds leaves no part that exceeds, and
\* lowers the score where it is to.
LEMMA InterventionsRight ==
    ASSUME NEW f \in FeatureEntries, FeatureAnalysis(f).exceeds
    PROVE  \E v \in ListedInterventions : InterventionOf(f) = <<v>> /\ InterventionRight(v)
  <1>1. PICK s \in {"concern_isolation", "functional_separation", "scope_narrowing"} :
          s = FeatureAnalysis(f).strategy
    BY ExceedingFeatures
  <1>2. f.wellformed /\ IsOver(FeatureScore(f))
    BY ExceedingFeatures
  <1>3. PICK o \in Int : o = FeatureScore(Alone(f))
    BY FeatureScores
  <1>4. PICK p : p = FeatureParts(f, s)
    OBVIOUS
  <1>5. /\ p \in Seq(FeatureEntries) /\ Len(p) \in 2 .. 3 /\ SumOfScores(p) \in Int
        /\ \A k \in 1 .. Len(p) : ~ FeatureAnalysis(p[k]).exceeds
        /\ Simpler(f) => /\ \A k \in 1 .. Len(p) : FeatureScore(p[k]) < o
                         /\ SumOfScores(p) < Len(p) * o
    BY <1>2, <1>3, <1>4, PartsLight
  <1>6. PICK n \in 2 .. 3 : n = Len(p)
    BY <1>5
  <1>7. PICK t \in Int : t = SumOfScores(p)
    BY <1>5
  <1>8. PICK b \in BOOLEAN : b = (n > 1)
    <2>1. (n > 1) \in BOOLEAN
      OBVIOUS
    <2> QED BY <2>1, Zenon
  <1>9. PICK r \in Int : r = n * o - t
    OBVIOUS
  <1>10. b
    <2>1. n > 1
      OBVIOUS
    <2> QED BY <1>8, <2>1, Zenon
  <1>11. Simpler(f) => r > 0
    <2>1. n = 2 \/ n = 3
      OBVIOUS
    <2>2. Simpler(f) => t < n * o
      BY ONLY <1>5, <1>6, <1>7, Zenon
    <2> QED BY ONLY <1>9, <2>1, <2>2, o \in Int, t \in Int, r \in Int
  <1>12. PICK done : done = FeatureDecomposition(f, s)
    OBVIOUS
  <1>13. done = [success |-> b, strategy |-> s, parts |-> p, reduction |-> r]
    <2>1. FeatureDecomposition(f, s) =
            [ success |-> Len(FeatureParts(f, s)) > 1, strategy |-> s, parts |-> FeatureParts(f, s),
              reduction |-> Len(FeatureParts(f, s)) *
                              (IF f.wellformed THEN FeatureScore(Alone(f)) ELSE Fallback.score)
                            - SumOfScores(FeatureParts(f, s)) ]
      BY DEF FeatureDecomposition
    <2>2. (IF f.wellformed THEN FeatureScore(Alone(f)) ELSE Fallback.score) = o
      BY ONLY <1>2, <1>3, Zenon
    <2> QED BY ONLY <1>4, <1>6, <1>7, <1>8, <1>9, <1>12, <2>1, <2>2, Zenon
  <1>14. PICK v : v = [feature |-> f, reduction |-> r, parts |-> p]
    OBVIOUS
  <1>15. v \in ListedInterventions /\ v.feature = f /\ v.reduction = r /\ v.parts = p
    BY ONLY <1>5, <1>14, f \in FeatureEntries, r \in Int DEF ListedInterventions
  <1>16. InterventionRight(v)
    <2>1. FeatureExceeds(o) <=> IsOver(o)
      <3>1. Level(o, "phase_three_feature") \in {"MEDIUM", "HIGH", "CRITICAL"} <=> IsOver(o)
        BY Levels
      <3> QED BY ONLY <3>1, Zenon DEF FeatureExceeds
    <2>2. FeatureExceeds(o) \/ f.id \cup f.name = {} => Simpler(f)
      BY ONLY <1>3, <2>1, Zenon DEF Simpler
    <2>3. PartsAreSimpler(v)
      BY ONLY <1>3, <1>5, <1>11, <1>15, <2>2, Zenon DEF PartsAreSimpler
    <2> QED BY ONLY <1>5, <1>15, <2>3, Zenon DEF InterventionRight
  <1>17. InterventionOf(f) = <<v>>
    <2>1. s # "none"
      OBVIOUS
    <2>2. done.success = b /\ done.parts = p /\ done.reduction = r
      BY ONLY <1>13
    <2>3. InterventionOf(f) = IF done.success
                              THEN <<[feature |-> f, reduction |-> done.reduction, parts |-> done.parts]>>
                              ELSE <<>>
      BY ONLY <1>1, <1>12, <2>1, Zenon DEF InterventionOf
    <2> QED BY ONLY <1>10, <1>14, <2>2, <2>3, Zenon
  <1> QED BY <1>15, <1>16, <1>17, Zenon

-----------------------------------------------------------------------------
(* The invariant of the agent *)

\* What a decomposition of a guideline comes to: by a strategy, or a failure.
DecompositionsOf(g) ==
    {Decomposed(g, strategy, "phase_one_component_architecture") : strategy \in FireStrategies}
        \cup {Failure}

LEMMA OutcomesRight ==
    ASSUME NEW g \in GuidelineEntries, NEW r \in DecompositionsOf(g)
    PROVE  \E strategy : ResultRight(r, g, strategy, "phase_one_component_architecture")
  <1>1. CASE r = Failure
    <2>1. r.success = FALSE /\ r.new = 0 /\ r.arch = NoArchitecture
      BY <1>1 DEF Failure
    <2>2. IsScore(0)
      BY DEF IsScore, PossibleScores
    <2>3. ResultRight(r, g, "none", "phase_one_component_architecture")
      BY ONLY <2>1, <2>2, NothingMade, Zenon DEF ResultRight
    <2> QED BY <2>3, Zenon
  <1>2. ASSUME NEW strategy \in FireStrategies,
               r = Decomposed(g, strategy, "phase_one_component_architecture")
        PROVE  ResultRight(r, g, strategy, "phase_one_component_architecture")
    BY <1>2, DecompositionsRight
  <1> QED BY <1>1, <1>2, Zenon DEF DecompositionsOf

\* A guideline is analysed under one context and decomposed under another.
GuidelineInWork ==
    \/ subject = <<>> /\ analysis = Fallback /\ result = <<>>
    \/ \E g \in Guidelines, ctx \in Contexts :
         /\ subject = <<g>> /\ analysis = AnalysisOf(g, ctx)
         /\ \/ result = <<>>
            \/ \E r : /\ r \in DecompositionsOf(g)
                      /\ result = <<r>>

\* The features of an evaluation are waiting, in work or through; what is in work
\* exceeds.
Evaluated ==
    /\ agent_state \in {"READY", "PROCESSING", "COMPLETE", "ERROR"}
    /\ waiting \in Seq(Features)
    /\ agent_state # "PROCESSING" => waiting = <<>> /\ decomposing = <<>>
    /\ \/ decomposing = <<>> /\ Len(waiting) + Len(interventions) <= MaxFeatures
       \/ /\ \E f \in Features : decomposing = <<f>> /\ FeatureAnalysis(f).exceeds
          /\ Len(waiting) + Len(interventions) + 1 <= MaxFeatures
    /\ interventions \in Seq(ListedInterventions)
    /\ \A i \in 1 .. Len(interventions) : InterventionRight(interventions[i])

FireInv == GuidelineInWork /\ Evaluated

\* The invariant holds initially.
LEMMA FireBegins == FireInit => FireInv
  <1> SUFFICES ASSUME FireInit PROVE FireInv
    OBVIOUS
  <1>1. GuidelineInWork
    BY DEF FireInit, GuidelineInWork
  <1>2. Len(waiting) = 0 /\ Len(interventions) = 0 /\ waiting \in Seq(Features)
        /\ interventions \in Seq(ListedInterventions)
    BY DEF FireInit
  <1>3. 0 + 0 <= MaxFeatures
    BY EntriesAssumption
  <1>4. \A i \in 1 .. 0 : InterventionRight(interventions[i])
    OBVIOUS
  <1>5. Evaluated
    BY <1>2, <1>3, <1>4 DEF FireInit, Evaluated
  <1> QED BY <1>1, <1>5 DEF FireInv

\* The parts of a step that leave the guideline or the evaluation alone.
LEMMA GuidelineAlone ==
    ASSUME GuidelineInWork, UNCHANGED <<subject, analysis, result>>
    PROVE  GuidelineInWork'
  BY DEF GuidelineInWork

\* What leaves the evaluation of features alone keeps its invariant.
LEMMA EvaluationAlone ==
    ASSUME Evaluated, UNCHANGED <<agent_state, waiting, decomposing, interventions>>
    PROVE  Evaluated'
  BY DEF Evaluated

\* A guideline is analyzed.
LEMMA AnalyzeGuidelineKeeps ==
    ASSUME FireInv, NEW g \in Guidelines, NEW ctx \in Contexts, AnalyzeGuideline(g, ctx)
    PROVE  FireInv'
  <1>1. Evaluated'
    BY EvaluationAlone DEF FireInv, AnalyzeGuideline, evaluationVars
  <1>2. GuidelineInWork'
    BY DEF AnalyzeGuideline, GuidelineInWork
  <1> QED BY <1>1, <1>2 DEF FireInv

\* The guideline that was analyzed is decomposed.
LEMMA DecomposeGuidelineKeeps ==
    ASSUME FireInv, NEW r \in DecompositionsOf(subject[1]), DecomposeGuideline(r)
    PROVE  FireInv'
  <1>1. Evaluated'
    BY EvaluationAlone DEF FireInv, DecomposeGuideline, evaluationVars
  <1>2. PICK g \in Guidelines, ctx \in Contexts : subject = <<g>> /\ analysis = AnalysisOf(g, ctx)
    BY DEF FireInv, GuidelineInWork, DecomposeGuideline
  <1>3. subject[1] = g
    BY <1>2
  <1>4. r \in DecompositionsOf(g)
    BY <1>3, Zenon
  <1>5. result' = <<r>> /\ subject' = subject /\ analysis' = analysis
    BY Zenon DEF DecomposeGuideline
  <1>6. GuidelineInWork'
    BY <1>2, <1>4, <1>5, Zenon DEF GuidelineInWork
  <1> QED BY <1>1, <1>6 DEF FireInv

\* Both ways to decompose a guideline come to one of its outcomes.
LEMMA ChoiceIsOutcome ==
    ASSUME NEW g
    PROVE  /\ DecomposedByChoice(g, "phase_one_component_architecture") \in DecompositionsOf(g)
           /\ \A strategy \in FireStrategies :
                Decomposed(g, strategy, "phase_one_component_architecture") \in DecompositionsOf(g)
  BY ChoicesRight, Zenon DEF DecompositionsOf

\* An evaluation of features begins.
LEMMA StartEvaluationKeeps ==
    ASSUME FireInv, NEW n \in 1 .. MaxFeatures, NEW fs \in [1 .. n -> Features], StartEvaluation(fs)
    PROVE  FireInv'
  <1>1. GuidelineInWork'
    BY GuidelineAlone DEF FireInv, StartEvaluation
  <1>2. MaxFeatures \in Nat
    BY EntriesAssumption
  <1>3. PICK w \in Seq(Features) : w = fs /\ Len(w) = n
    <2>1. n \in Nat
      BY <1>2
    <2>2. fs \in Seq(Features) /\ Len(fs) = n
      BY <2>1
    <2> QED BY <2>2
  <1>4. PICK none : none = <<>> /\ Len(none) = 0 /\ none \in Seq(ListedInterventions)
    <2>1. Len(<<>>) = 0 /\ <<>> \in Seq(ListedInterventions)
      OBVIOUS
    <2> QED BY <2>1, Zenon
  <1>5. waiting' = w /\ interventions' = none /\ agent_state' = "PROCESSING" /\ decomposing' = <<>>
    BY <1>3, <1>4 DEF StartEvaluation, FireInv, Evaluated
  <1>6. Len(waiting') + Len(interventions') <= MaxFeatures
    <2>1. n + 0 <= MaxFeatures
      BY <1>2
    <2> QED BY ONLY <1>3, <1>4, <1>5, <2>1, Zenon
  <1>7. \A i \in 1 .. Len(none) : InterventionRight(none[i])
    BY <1>4
  <1>8. Evaluated'
    BY ONLY <1>3, <1>4, <1>5, <1>6, <1>7, w \in Seq(Features), Zenon DEF Evaluated
  <1> QED BY <1>1, <1>8 DEF FireInv

\* The next feature of an evaluation is analyzed.
LEMMA AnalyzeFeatureKeeps ==
    ASSUME FireInv, AnalyzeFeature
    PROVE  FireInv'
  <1>1. GuidelineInWork'
    BY GuidelineAlone DEF FireInv, AnalyzeFeature
  <1>2. waiting \in Seq(Features) /\ waiting # <<>> /\ Head(waiting) \in Features
        /\ Tail(waiting) \in Seq(Features)
    BY DEF FireInv, Evaluated, AnalyzeFeature
  <1>3. PICK f \in Features : f = Head(waiting)
    BY <1>2
  <1>4. PICK w \in Seq(Features) : w = Tail(waiting) /\ Len(w) = Len(waiting) - 1
    <2>1. Len(Tail(waiting)) = Len(waiting) - 1
      BY <1>2
    <2> QED BY <1>2, <2>1, Zenon
  <1>5. PICK l \in Nat : l = Len(waiting)
    BY <1>2
  <1>6. PICK k \in Nat : k = Len(interventions)
    BY DEF FireInv, Evaluated
  <1>7. decomposing = <<>> /\ l + k <= MaxFeatures
    <2>1. Len(waiting) + Len(interventions) <= MaxFeatures
      BY DEF FireInv, Evaluated, AnalyzeFeature
    <2> QED BY <1>5, <1>6, <2>1 DEF AnalyzeFeature
  <1>8. waiting' = w /\ interventions' = interventions /\ agent_state' = "PROCESSING"
        /\ agent_state = "PROCESSING"
    BY <1>4 DEF AnalyzeFeature
  <1>9. /\ Len(waiting') + Len(interventions') <= MaxFeatures
        /\ Len(waiting') + Len(interventions') + 1 <= MaxFeatures
    <2>1. MaxFeatures \in Nat
      BY EntriesAssumption
    <2>2. l - 1 + k <= MaxFeatures /\ l - 1 + k + 1 <= MaxFeatures
      BY <1>7, <2>1
    <2> QED BY ONLY <1>4, <1>5, <1>6, <1>8, <2>2, Zenon
  <1>10. decomposing' = IF FeatureAnalysis(f).exceeds THEN <<f>> ELSE <<>>
    BY <1>3 DEF AnalyzeFeature
  <1>11. /\ interventions \in Seq(ListedInterventions)
         /\ \A i \in 1 .. Len(interventions) : InterventionRight(interventions[i])
    BY DEF FireInv, Evaluated
  <1>12. Evaluated'
    BY ONLY <1>8, <1>9, <1>10, <1>11, w \in Seq(Features), f \in Features, Zenon DEF Evaluated
  <1> QED BY <1>1, <1>12 DEF FireInv

\* A feature that is too complex is decomposed, which is listed.
LEMMA DecomposeFeatureKeeps ==
    ASSUME FireInv, DecomposeFeature
    PROVE  FireInv'
  <1>1. GuidelineInWork'
    BY GuidelineAlone DEF FireInv, DecomposeFeature
  <1>2. PICK f \in Features : decomposing = <<f>> /\ FeatureAnalysis(f).exceeds
    BY DEF FireInv, Evaluated, DecomposeFeature
  <1>3. f \in FeatureEntries /\ decomposing[1] = f
    BY <1>2, EntriesAssumption DEF FeatureEntries
  <1>4. PICK v \in ListedInterventions : InterventionOf(f) = <<v>> /\ InterventionRight(v)
    BY <1>2, <1>3, InterventionsRight
  <1>5. PICK s : s = interventions \o <<v>>
    OBVIOUS
  <1>6. interventions \in Seq(ListedInterventions)
    BY DEF FireInv, Evaluated
  <1>7. PICK k \in Nat : k = Len(interventions)
    BY <1>6
  <1>8. /\ s \in Seq(ListedInterventions) /\ Len(s) = k + 1 /\ s[k + 1] = v
        /\ \A i \in 1 .. k : s[i] = interventions[i]
    BY <1>5, <1>6, <1>7
  <1>9. interventions' = s /\ decomposing' = <<>> /\ waiting' = waiting /\ agent_state' = agent_state
    <2>1. InterventionOf(decomposing[1]) = <<v>>
      BY <1>3, <1>4, Zenon
    <2> QED BY ONLY <1>5, <2>1, DecomposeFeature, Zenon DEF DecomposeFeature
  <1> HIDE <1>5
  <1>10. \A i \in 1 .. Len(s) : InterventionRight(s[i])
    <2>1. \A i \in 1 .. k : InterventionRight(s[i])
      BY <1>7, <1>8 DEF FireInv, Evaluated
    <2>2. \A i \in 1 .. k + 1 : i \in 1 .. k \/ i = k + 1
      OBVIOUS
    <2> QED BY ONLY <1>4, <1>8, <2>1, <2>2, Zenon
  <1>11. PICK l \in Nat : l = Len(waiting)
    BY DEF FireInv, Evaluated
  <1>12. l + k + 1 <= MaxFeatures
    BY <1>2, <1>7, <1>11 DEF FireInv, Evaluated
  <1>13. Len(waiting') + Len(interventions') <= MaxFeatures
    <2>1. l + (k + 1) <= MaxFeatures
      BY <1>12, EntriesAssumption
    <2> QED BY ONLY <1>8, <1>9, <1>11, <2>1, Zenon
  <1>14. /\ agent_state \in {"READY", "PROCESSING", "COMPLETE", "ERROR"} /\ waiting \in Seq(Features)
         /\ agent_state # "PROCESSING" => waiting = <<>>
    BY DEF FireInv, Evaluated
  <1>15. Evaluated'
    BY ONLY <1>8, <1>9, <1>10, <1>13, <1>14, Zenon DEF Evaluated
  <1> QED BY <1>1, <1>15 DEF FireInv

\* The loop over the features fails.
LEMMA LoopFailsKeeps ==
    ASSUME FireInv, LoopFails
    PROVE  FireInv'
  <1>1. GuidelineInWork'
    BY GuidelineAlone DEF FireInv, LoopFails
  <1>2. PICK w \in Seq(Features) : w = <<>> /\ Len(w) = 0
    <2>1. <<>> \in Seq(Features) /\ Len(<<>>) = 0
      OBVIOUS
    <2> QED BY <2>1, Zenon
  <1>3. PICK l \in Nat : l = Len(waiting)
    BY DEF FireInv, Evaluated
  <1>4. PICK k \in Nat : k = Len(interventions)
    BY DEF FireInv, Evaluated
  <1>5. l + k <= MaxFeatures \/ l + k + 1 <= MaxFeatures
    BY <1>3, <1>4 DEF FireInv, Evaluated
  <1>6. /\ waiting' = w /\ decomposing' = <<>> /\ interventions' = interventions
        /\ agent_state' = agent_state /\ agent_state = "PROCESSING"
    BY <1>2 DEF LoopFails
  <1>7. Len(waiting') + Len(interventions') <= MaxFeatures
    <2>1. 0 + k <= MaxFeatures
      BY <1>5, EntriesAssumption
    <2> QED BY ONLY <1>2, <1>4, <1>6, <2>1, Zenon
  <1>8. /\ interventions \in Seq(ListedInterventions)
        /\ \A i \in 1 .. Len(interventions) : InterventionRight(interventions[i])
    BY DEF FireInv, Evaluated
  <1>9. Evaluated'
    BY ONLY <1>2, <1>6, <1>7, <1>8, w \in Seq(Features), Zenon DEF Evaluated
  <1> QED BY <1>1, <1>9 DEF FireInv

\* An evaluation ends and leaves nothing behind.
LEMMA EvaluationEndsKeeps ==
    ASSUME FireInv, NEW state \in {"COMPLETE", "ERROR"}, EvaluationEnds(state)
    PROVE  FireInv'
  <1>1. GuidelineInWork'
    BY GuidelineAlone DEF FireInv, EvaluationEnds
  <1>2. PICK none : none = <<>> /\ Len(none) = 0 /\ none \in Seq(ListedInterventions)
    <2>1. Len(<<>>) = 0 /\ <<>> \in Seq(ListedInterventions)
      OBVIOUS
    <2> QED BY <2>1, Zenon
  <1>3. PICK l \in Nat : l = Len(waiting)
    BY DEF FireInv, Evaluated
  <1>4. PICK k \in Nat : k = Len(interventions)
    BY DEF FireInv, Evaluated
  <1>5. l + k <= MaxFeatures /\ l + 0 <= MaxFeatures
    <2>1. l + k <= MaxFeatures
      BY <1>3, <1>4 DEF FireInv, Evaluated, EvaluationEnds
    <2> QED BY <2>1, EntriesAssumption
  <1>6. /\ waiting' = waiting /\ decomposing' = <<>> /\ agent_state' = state /\ waiting = <<>>
        /\ interventions' = IF state = "ERROR" THEN none ELSE interventions
    BY <1>2 DEF EvaluationEnds
  <1>7. Len(waiting') + Len(interventions') <= MaxFeatures
    BY ONLY <1>2, <1>3, <1>4, <1>5, <1>6, Zenon
  <1>8. /\ interventions' \in Seq(ListedInterventions)
        /\ \A i \in 1 .. Len(interventions') : InterventionRight(interventions'[i])
    <2>1. /\ interventions \in Seq(ListedInterventions)
          /\ \A i \in 1 .. Len(interventions) : InterventionRight(interventions[i])
      BY DEF FireInv, Evaluated
    <2>2. \A i \in 1 .. Len(none) : InterventionRight(none[i])
      BY <1>2
    <2> QED BY ONLY <1>2, <1>6, <2>1, <2>2, Zenon
  <1>9. waiting \in Seq(Features) /\ state \in {"READY", "PROCESSING", "COMPLETE", "ERROR"}
    BY DEF FireInv, Evaluated
  <1>10. Evaluated'
    BY ONLY <1>6, <1>7, <1>8, <1>9, Zenon DEF Evaluated
  <1> QED BY <1>1, <1>10 DEF FireInv

\* Every step of the agent keeps its invariant.
LEMMA FireKept ==
    FireInv /\ [FireNext]_fireVars => FireInv'
  <1> SUFFICES ASSUME FireInv, [FireNext]_fireVars PROVE FireInv'
    OBVIOUS
  <1>1. ASSUME NEW g \in Guidelines, NEW ctx \in Contexts, AnalyzeGuideline(g, ctx) PROVE FireInv'
    BY <1>1, AnalyzeGuidelineKeeps
  <1>2. ASSUME NEW r \in DecompositionsOf(subject[1]), DecomposeGuideline(r) PROVE FireInv'
    BY <1>2, DecomposeGuidelineKeeps
  <1>3. ASSUME NEW n \in 1 .. MaxFeatures, NEW fs \in [1 .. n -> Features], StartEvaluation(fs)
        PROVE  FireInv'
    BY <1>3, StartEvaluationKeeps
  <1>4. CASE AnalyzeFeature
    BY <1>4, AnalyzeFeatureKeeps
  <1>5. CASE DecomposeFeature
    BY <1>5, DecomposeFeatureKeeps
  <1>6. CASE LoopFails
    BY <1>6, LoopFailsKeeps
  <1>7. ASSUME NEW state \in {"COMPLETE", "ERROR"}, EvaluationEnds(state) PROVE FireInv'
    BY <1>7, EvaluationEndsKeeps
  <1>8. CASE UNCHANGED fireVars
    BY <1>8, GuidelineAlone, EvaluationAlone DEF fireVars, FireInv
  <1> QED BY <1>1, <1>2, <1>3, <1>4, <1>5, <1>6, <1>7, <1>8, ChoiceIsOutcome, Zenon
          DEF FireNext, DecomposeByChoice, DecomposeOtherwise

\* The invariant gives the types and the properties.
LEMMA FireTold == FireInv => FireTypeOK /\ FireTellsRight
  <1> SUFFICES ASSUME FireInv PROVE FireTypeOK /\ FireTellsRight
    OBVIOUS
  <1>1. InterventionsReduce
    BY DEF FireInv, Evaluated, InterventionRight, InterventionsReduce
  <1>2. /\ agent_state \in {"READY", "PROCESSING", "COMPLETE", "ERROR"}
        /\ waiting \in Seq(Features) /\ Len(waiting) <= MaxFeatures
        /\ Len(decomposing) <= 1 /\ Len(interventions) <= MaxFeatures
    <2>1. PICK l \in Nat : l = Len(waiting)
      BY DEF FireInv, Evaluated
    <2>2. PICK k \in Nat : k = Len(interventions)
      BY DEF FireInv, Evaluated
    <2>3. l + k <= MaxFeatures \/ l + k + 1 <= MaxFeatures
      BY <2>1, <2>2 DEF FireInv, Evaluated
    <2>4. l <= MaxFeatures /\ k <= MaxFeatures
      BY <2>3, EntriesAssumption
    <2>5. Len(decomposing) <= 1
      <3>1. CASE decomposing = <<>>
        BY <3>1
      <3>2. CASE \E f \in Features : decomposing = <<f>>
        BY <3>2
      <3> QED BY <3>1, <3>2 DEF FireInv, Evaluated
    <2>6. agent_state \in {"READY", "PROCESSING", "COMPLETE", "ERROR"} /\ waiting \in Seq(Features)
      BY DEF FireInv, Evaluated
    <2> QED BY ONLY <2>1, <2>2, <2>4, <2>5, <2>6, Zenon
  <1>3. CASE subject = <<>> /\ analysis = Fallback /\ result = <<>>
    <2>1. AnalysisRight(analysis)
      BY <1>3 DEF AnalysisRight, Fallback, IsScore, PossibleScores
    <2>2. Len(subject) <= 1
      BY <1>3
    <2>3. FireTypeOK
      BY <1>2, <1>3, <2>1, <2>2, Zenon DEF FireTypeOK, AnalysisRight, IsScore
    <2>4. ExceedingHasCause
      BY <2>1 DEF ExceedingHasCause, AnalysisRight
    <2>5. ExceedingComesBackSimple /\ NothingForgotten
      BY <1>3 DEF ExceedingComesBackSimple, NothingForgotten
    <2> QED BY <1>1, <2>3, <2>4, <2>5 DEF FireTellsRight
  <1>4. ASSUME NEW g \in Guidelines, NEW ctx \in Contexts, subject = <<g>>,
               analysis = AnalysisOf(g, ctx),
               \/ result = <<>>
               \/ \E r : r \in DecompositionsOf(g) /\ result = <<r>>
        PROVE  FireTypeOK /\ FireTellsRight
    <2>1. g \in GuidelineEntries
      BY EntriesAssumption DEF GuidelineEntries
    <2>2. AnalysisRight(analysis)
      BY ONLY <1>4, <2>1, AnalysesRight, Zenon
    <2>3. analysis.exceeds => IsHeavy(AnalysisOf(g, "phase_one_component_architecture").score)
      BY ONLY <1>4, <2>1, AnalysesRight, Zenon
    <2>4. Len(subject) <= 1 /\ subject[1] = g
      BY <1>4
    <2>5. ExceedingHasCause
      BY <2>2, Zenon DEF ExceedingHasCause, AnalysisRight
    <2>6. CASE result = <<>>
      <3>1. FireTypeOK
        BY <1>2, <2>2, <2>4, <2>6, Zenon DEF FireTypeOK, AnalysisRight, IsScore
      <3>2. ExceedingComesBackSimple /\ NothingForgotten
        BY <2>6 DEF ExceedingComesBackSimple, NothingForgotten
      <3> QED BY <1>1, <2>5, <3>1, <3>2 DEF FireTellsRight
    <2>7. ASSUME NEW r \in DecompositionsOf(g), result = <<r>>
          PROVE  FireTypeOK /\ FireTellsRight
      <3>1. PICK strategy : ResultRight(r, g, strategy, "phase_one_component_architecture")
        BY ONLY <2>1, OutcomesRight, r \in DecompositionsOf(g), Zenon
      <3>2. result[1] = r
        BY <2>7
      <3>3. r.success \in BOOLEAN /\ IsScore(r.new)
        BY ONLY <3>1, Zenon DEF ResultRight
      <3>4. FireTypeOK
        BY ONLY <1>2, <2>2, <2>4, <3>2, <3>3, Zenon DEF FireTypeOK, AnalysisRight, IsScore
      <3>5. ExceedingComesBackSimple
        BY ONLY <2>3, <3>1, <3>2, Zenon DEF ExceedingComesBackSimple, ResultRight
      <3>6. NothingForgotten
        BY ONLY <2>4, <3>1, <3>2, Zenon DEF NothingForgotten, ResultRight, Complete
      <3> QED BY <1>1, <2>5, <3>4, <3>5, <3>6 DEF FireTellsRight
    <2> QED BY <1>4, <2>6, <2>7
  <1> QED BY <1>3, <1>4, Zenon DEF FireInv, GuidelineInWork

-----------------------------------------------------------------------------
(* The search for cycles (ArchitectureValidation) *)

\* An order of a graph's nodes: each comes after those that it leads to.
Orders(graph, r) ==
    /\ r \in [DOMAIN graph -> Nat]
    /\ \A n \in DOMAIN graph : \A m \in graph[n] : r[m] < r[n]

\* Nodes that were visited and left, and an order of them, by the time they were left.
Left(V, k) == {n \in V : \A i \in 1 .. Len(k) : k[i] # n}
OrdersLeft(graph, S, r) ==
    /\ r \in [DOMAIN graph -> Nat]
    /\ \A n \in S : r[n] \in 1 .. Cardinality(S) /\ \A m \in graph[n] : m \in S /\ r[m] < r[n]

\* A search that has met no cycle: the calls in progress are a path, and what a call
\* has looked at was left, or is being visited.
OnPath(graph, V, k) ==
    /\ k \in Seq(DOMAIN graph) /\ \A i \in 1 .. Len(k) : k[i] \in V
    /\ \A i, j \in 1 .. Len(k) : k[i] = k[j] => i = j
    /\ \A i \in 1 .. Len(k) : i < Len(k) => k[i + 1] \in graph[k[i]]
Seen(graph, V, k, L) ==
    /\ \A n, m \in DOMAIN graph : <<n, m>> \in L => n \in V
    /\ \A i \in 1 .. Len(k) : \A m \in graph[k[i]] :
          <<k[i], m>> \in L => m \in Left(V, k) \/ (i < Len(k) /\ m = k[i + 1])
InSearch(graph, V, k, L) ==
    /\ V \in SUBSET DOMAIN graph /\ L \in SUBSET ((DOMAIN graph) \X (DOMAIN graph))
    /\ OnPath(graph, V, k) /\ Seen(graph, V, k, L)
    /\ \E r : OrdersLeft(graph, Left(V, k), r)

IsGraph(graph) ==
    IsFiniteSet(DOMAIN graph) /\ graph \in [DOMAIN graph -> SUBSET DOMAIN graph]

\* A node is visited that is new.
LEMMA VisitGoesOn ==
    ASSUME NEW graph, IsGraph(graph), NEW V, NEW k, NEW L, InSearch(graph, V, k, L),
           NEW n \in DOMAIN graph, n \notin V, NEW q, q = Append(k, n), NEW M,
           \/ Len(k) = 0 /\ M = L
           \/ Len(k) # 0 /\ n \in graph[k[Len(k)]] /\ M = L \cup {<<k[Len(k)], n>>}
    PROVE  InSearch(graph, V \cup {n}, q, M)
  <1>1. PICK l \in Nat : l = Len(k)
    BY DEF InSearch, OnPath
  <1> DEFINE W == V \cup {n}
  <1>2. /\ q \in Seq(DOMAIN graph) /\ Len(q) = l + 1 /\ q[l + 1] = n
        /\ \A i \in 1 .. l : q[i] = k[i]
    BY <1>1 DEF InSearch, OnPath
  <1>3. /\ \A i \in 1 .. l : k[i] \in V /\ k[i] \in DOMAIN graph
        /\ \A i, j \in 1 .. l : k[i] = k[j] => i = j
        /\ \A i \in 1 .. l : i < l => k[i + 1] \in graph[k[i]]
    BY <1>1 DEF InSearch, OnPath
  <1>4. \A i \in 1 .. l + 1 : (i \in 1 .. l /\ i # l + 1) \/ i = l + 1
    OBVIOUS
  <1>5. Left(W, q) = Left(V, k)
    <2>1. ASSUME NEW x \in Left(W, q) PROVE x \in Left(V, k)
      <3>1. x \in W /\ \A i \in 1 .. l + 1 : q[i] # x
        BY <1>2, <2>1 DEF Left
      <3>2. l + 1 \in 1 .. l + 1 /\ \A i \in 1 .. l : i \in 1 .. l + 1
        OBVIOUS
      <3>3. x # n /\ \A i \in 1 .. l : k[i] # x
        BY ONLY <1>2, <3>1, <3>2, Zenon
      <3> QED BY <1>1, <3>1, <3>3 DEF Left
    <2>2. ASSUME NEW x \in Left(V, k) PROVE x \in Left(W, q)
      <3>1. x \in V /\ \A i \in 1 .. l : k[i] # x
        BY <1>1, <2>2 DEF Left
      <3>2. \A i \in 1 .. l + 1 : q[i] # x
        BY ONLY <1>2, <1>4, <3>1, n \notin V, Zenon
      <3> QED BY <1>2, <3>1, <3>2 DEF Left
    <2> QED BY <2>1, <2>2
  <1>6. OnPath(graph, W, q)
    <2>1. \A i \in 1 .. l + 1 : q[i] \in W
      BY ONLY <1>2, <1>3, <1>4, Zenon
    <2>2. \A i, j \in 1 .. l + 1 : q[i] = q[j] => i = j
      BY ONLY <1>2, <1>3, <1>4, n \notin V, Zenon
    <2>3. \A i \in 1 .. l + 1 : i < l + 1 => q[i + 1] \in graph[q[i]]
      <3> SUFFICES ASSUME NEW i \in 1 .. l + 1, i < l + 1 PROVE q[i + 1] \in graph[q[i]]
        OBVIOUS
      <3>1. i \in 1 .. l /\ (i < l => i + 1 \in 1 .. l) /\ (i < l \/ i = l)
        OBVIOUS
      <3>2. CASE i < l
        BY <1>2, <1>3, <3>1, <3>2
      <3>3. CASE i = l
        BY <1>1, <1>2, <3>1, <3>3
      <3> QED BY ONLY <3>1, <3>2, <3>3
    <2> QED BY <1>2, <2>1, <2>2, <2>3 DEF OnPath
  <1>7. Seen(graph, W, q, M)
    <2>1. \A x, m \in DOMAIN graph : <<x, m>> \in L => x \in V
      BY DEF InSearch, Seen
    <2>2. \A x, m \in DOMAIN graph : <<x, m>> \in M => x \in W
      <3> SUFFICES ASSUME NEW x \in DOMAIN graph, NEW m \in DOMAIN graph, <<x, m>> \in M PROVE x \in W
        OBVIOUS
      <3>1. CASE <<x, m>> \in L
        BY <2>1, <3>1
      <3>2. CASE <<x, m>> \notin L
        <4>1. l # 0 /\ x = k[l]
          BY <1>1, <3>2
        <4>2. l \in 1 .. l
          BY <4>1
        <4> QED BY <1>3, <4>1, <4>2
      <3> QED BY <3>1, <3>2
    <2>3. ASSUME NEW i \in 1 .. l + 1, NEW m \in graph[q[i]], <<q[i], m>> \in M
          PROVE  m \in Left(V, k) \/ (i < l + 1 /\ m = q[i + 1])
      <3>1. m \in DOMAIN graph /\ q[i] \in DOMAIN graph
        BY <1>2 DEF IsGraph
      <3>2. CASE i = l + 1
        <4>1. q[i] = n
          BY <1>2, <3>2
        <4>2. <<n, m>> \notin L
          BY <2>1, <3>1, <4>1
        <4>3. l # 0 /\ <<n, m>> = <<k[l], n>>
          BY <1>1, <2>3, <4>1, <4>2
        <4>4. n = k[l] /\ l \in 1 .. l
          BY <4>3
        <4> QED BY <1>3, <4>4
      <3>3. CASE i # l + 1
        <4>1. i \in 1 .. l /\ i < l + 1 /\ q[i] = k[i]
          BY <1>2, <3>3
        <4>2. CASE <<k[i], m>> \in L
          <5>1. m \in Left(V, k) \/ (i < l /\ m = k[i + 1])
            BY <1>1, <2>3, <4>1, <4>2 DEF InSearch, Seen
          <5>2. i < l => i + 1 \in 1 .. l
            BY <4>1
          <5>3. i < l => q[i + 1] = k[i + 1]
            BY ONLY <1>2, <5>2
          <5> QED BY <4>1, <5>1, <5>3
        <4>3. CASE <<k[i], m>> \notin L
          <5>1. l # 0 /\ k[i] = k[l] /\ m = n
            BY <1>1, <2>3, <4>1, <4>3
          <5>2. l \in 1 .. l
            BY <5>1
          <5>3. i = l
            BY ONLY <1>3, <4>1, <5>1, <5>2
          <5> QED BY <1>2, <4>1, <5>1, <5>3
        <4> QED BY <4>2, <4>3
      <3> QED BY <3>2, <3>3
    <2>4. \A i \in 1 .. l + 1 : \A m \in graph[q[i]] :
            <<q[i], m>> \in M => m \in Left(V, k) \/ (i < l + 1 /\ m = q[i + 1])
      BY <2>3, Zenon
    <2> HIDE DEF W
    <2> QED BY ONLY <1>2, <1>5, <2>2, <2>4, Zenon DEF Seen
  <1>8. W \in SUBSET DOMAIN graph /\ M \in SUBSET ((DOMAIN graph) \X (DOMAIN graph))
    <2>1. l # 0 => k[l] \in DOMAIN graph
      <3>1. l # 0 => l \in 1 .. l
        OBVIOUS
      <3> QED BY <1>3, <3>1
    <2>2. V \subseteq DOMAIN graph /\ L \subseteq (DOMAIN graph) \X (DOMAIN graph)
      BY DEF InSearch
    <2>3. W \subseteq DOMAIN graph
      BY <2>2
    <2>4. M = L \/ (l # 0 /\ M = L \cup {<<k[l], n>>})
      BY <1>1
    <2>5. CASE l # 0
      <3>1. <<k[l], n>> \in (DOMAIN graph) \X (DOMAIN graph)
        <4>1. PICK D : D = DOMAIN graph
          OBVIOUS
        <4>2. PICK a : a = k[l]
          OBVIOUS
        <4>3. a \in D /\ n \in D
          BY <2>1, <2>5, <4>1, <4>2
        <4>4. <<a, n>> \in D \X D
          BY ONLY <4>3
        <4> QED BY ONLY <4>1, <4>2, <4>4, Zenon
      <3> QED BY ONLY <2>2, <2>3, <2>4, <3>1
    <2>6. CASE l = 0
      BY ONLY <2>2, <2>3, <2>4, <2>6
    <2> QED BY <2>5, <2>6
  <1> HIDE DEF W
  <1>9. InSearch(graph, W, q, M)
    BY <1>5, <1>6, <1>7, <1>8 DEF InSearch
  <1> QED BY <1>9 DEF W


\* A node is left when all that it leads to was looked at, and comes after what was left.
LEMMA LeaveGoesOn ==
    ASSUME NEW graph, IsGraph(graph), NEW V, NEW k, NEW L, InSearch(graph, V, k, L),
           Len(k) # 0, \A m \in graph[k[Len(k)]] : <<k[Len(k)], m>> \in L
    PROVE  InSearch(graph, V, Front(k), L)
  <1>1. PICK l \in Nat : l = Len(k)
    BY DEF InSearch, OnPath
  <1>2. PICK q : q = Front(k)
    OBVIOUS
  <1>3. PICK b : b = k[l]
    OBVIOUS
  <1>4. /\ q \in Seq(DOMAIN graph) /\ Len(q) = l - 1 /\ l - 1 \in Nat
        /\ \A i \in 1 .. l - 1 : q[i] = k[i]
    BY <1>1, <1>2 DEF InSearch, OnPath, Front
  <1>5. /\ \A i \in 1 .. l : k[i] \in V /\ k[i] \in DOMAIN graph
        /\ \A i, j \in 1 .. l : k[i] = k[j] => i = j
        /\ \A i \in 1 .. l : i < l => k[i + 1] \in graph[k[i]]
    BY <1>1 DEF InSearch, OnPath
  <1>6. l \in 1 .. l /\ \A i \in 1 .. l - 1 : i \in 1 .. l /\ i < l /\ i # l
    BY <1>1
  <1>7. \A i \in 1 .. l : (i \in 1 .. l - 1 /\ i # l) \/ i = l
    OBVIOUS
  <1>8. b \in V /\ b \in DOMAIN graph
    BY ONLY <1>3, <1>5, <1>6
  <1>9. \A x : x \in Left(V, k) <=> x \in V /\ \A i \in 1 .. l : k[i] # x
    BY <1>1 DEF Left
  <1>10. \A x : x \in Left(V, q) <=> x \in V /\ \A i \in 1 .. l - 1 : k[i] # x
    BY <1>4 DEF Left
  <1>11. b \notin Left(V, k)
    BY ONLY <1>3, <1>6, <1>9
  <1>12. Left(V, q) = Left(V, k) \cup {b}
    <2>1. \A i \in 1 .. l - 1 : k[i] # b
      BY ONLY <1>3, <1>5, <1>6
    <2>2. b \in Left(V, q)
      BY ONLY <1>8, <1>10, <2>1
    <2>3. \A x : x \in Left(V, k) => x \in Left(V, q)
      BY ONLY <1>6, <1>9, <1>10
    <2>4. \A x : x \in Left(V, q) => x \in Left(V, k) \/ x = b
      BY ONLY <1>3, <1>7, <1>9, <1>10
    <2> QED BY ONLY <2>2, <2>3, <2>4
  <1>13. \A i \in 1 .. l : \A m \in graph[k[i]] :
           <<k[i], m>> \in L => m \in Left(V, k) \/ (i < l /\ m = k[i + 1])
    BY <1>1 DEF InSearch, Seen
  <1>14. \A m \in graph[b] : m \in Left(V, k) /\ m # b
    <2>1. \A m \in graph[b] : <<b, m>> \in L
      BY <1>1, <1>3
    <2>2. ~(l < l)
      BY <1>1
    <2> QED BY ONLY <1>3, <1>6, <1>11, <1>13, <2>1, <2>2
  <1>15. OnPath(graph, V, q)
    <2>1. \A i \in 1 .. l - 1 : q[i] \in V
      BY ONLY <1>4, <1>5, <1>6
    <2>2. \A i, j \in 1 .. l - 1 : q[i] = q[j] => i = j
      BY ONLY <1>4, <1>5, <1>6
    <2>3. \A i \in 1 .. l - 1 : i < l - 1 => q[i + 1] \in graph[q[i]]
      <3> SUFFICES ASSUME NEW i \in 1 .. l - 1, i < l - 1 PROVE q[i + 1] \in graph[q[i]]
        OBVIOUS
      <3>1. i + 1 \in 1 .. l - 1 /\ i \in 1 .. l /\ i < l
        BY <1>4
      <3> QED BY ONLY <1>4, <1>5, <3>1, i \in 1 .. l - 1
    <2> QED BY <1>4, <2>1, <2>2, <2>3 DEF OnPath
  <1>16. Seen(graph, V, q, L)
    <2>1. ASSUME NEW i \in 1 .. l - 1, NEW m \in graph[q[i]], <<q[i], m>> \in L
          PROVE  m \in Left(V, q) \/ (i < l - 1 /\ m = q[i + 1])
      <3>1. q[i] = k[i] /\ i \in 1 .. l
        BY <1>4, <1>6
      <3>2. m \in Left(V, k) \/ m = k[i + 1]
        BY ONLY <1>13, <2>1, <3>1
      <3>3. CASE i + 1 = l
        BY ONLY <1>3, <1>12, <3>2, <3>3
      <3>4. CASE i + 1 # l
        <4>1. i < l - 1 /\ i + 1 \in 1 .. l - 1
          BY <1>1, <3>4
        <4>2. q[i + 1] = k[i + 1]
          BY ONLY <1>4, <4>1
        <4> QED BY ONLY <1>12, <3>2, <4>1, <4>2
      <3> QED BY <3>3, <3>4
    <2>2. \A i \in 1 .. l - 1 : \A m \in graph[q[i]] :
            <<q[i], m>> \in L => m \in Left(V, q) \/ (i < l - 1 /\ m = q[i + 1])
      BY <2>1, Zenon
    <2>3. \A n, m \in DOMAIN graph : <<n, m>> \in L => n \in V
      BY DEF InSearch, Seen
    <2> QED BY ONLY <1>4, <2>2, <2>3, Zenon DEF Seen
  <1>17. \E r : OrdersLeft(graph, Left(V, q), r)
    <2>1. PICK r : OrdersLeft(graph, Left(V, k), r)
      BY DEF InSearch
    <2>2. PICK S : S = Left(V, k)
      OBVIOUS
    <2>3. IsFiniteSet(S)
      <3>1. S \subseteq DOMAIN graph /\ IsFiniteSet(DOMAIN graph)
        BY <1>9, <2>2 DEF InSearch, IsGraph
      <3> QED BY ONLY <3>1, FS_Subset
    <2>4. PICK c \in Nat : c = Cardinality(S) /\ Cardinality(S \cup {b}) = c + 1
      BY <1>11, <2>2, <2>3, FS_CardinalityType, FS_AddElement
    <2>5. /\ r \in [DOMAIN graph -> Nat]
          /\ \A n \in S : r[n] \in 1 .. c /\ \A m \in graph[n] : m \in S /\ r[m] < r[n]
      BY ONLY <2>1, <2>2, <2>4 DEF OrdersLeft
    <2>6. PICK h : h = [n \in DOMAIN graph |-> IF n = b THEN c + 1 ELSE r[n]]
      OBVIOUS
    <2>7. h \in [DOMAIN graph -> Nat] /\ h[b] = c + 1
          /\ \A n \in DOMAIN graph : n # b => h[n] = r[n]
      BY ONLY <1>8, <2>4, <2>5, <2>6
    <2>8. S \subseteq DOMAIN graph /\ b \notin S /\ S \cup {b} = Left(V, q)
          /\ \A m \in graph[b] : m \in S /\ m # b
      BY <1>9, <1>11, <1>12, <1>14, <2>2 DEF InSearch
    <2>9. ASSUME NEW n \in S \cup {b}
          PROVE  h[n] \in 1 .. c + 1 /\ \A m \in graph[n] : m \in S \cup {b} /\ h[m] < h[n]
      <3>1. CASE n = b
        <4>1. \A m \in graph[n] : m \in S /\ h[m] = r[m] /\ r[m] \in 1 .. c
          BY ONLY <2>5, <2>7, <2>8, <3>1
        <4>2. \A x \in 1 .. c : x < c + 1
          BY <2>4
        <4>3. c + 1 \in 1 .. c + 1
          BY <2>4
        <4> QED BY ONLY <2>7, <3>1, <4>1, <4>2, <4>3
      <3>2. CASE n # b
        <4>1. n \in S /\ h[n] = r[n] /\ r[n] \in 1 .. c
          BY ONLY <2>5, <2>7, <2>8, <2>9, <3>2
        <4>2. \A m \in graph[n] : m \in S /\ h[m] = r[m] /\ r[m] < r[n]
          BY ONLY <2>5, <2>7, <2>8, <4>1
        <4>3. h[n] \in 1 .. c + 1
          BY ONLY <2>4, <4>1
        <4> QED BY ONLY <4>1, <4>2, <4>3
      <3> QED BY <3>1, <3>2
    <2>10. OrdersLeft(graph, S \cup {b}, h)
      BY <2>4, <2>7, <2>9 DEF OrdersLeft
    <2> QED BY <2>8, <2>10
  <1>18. V \in SUBSET DOMAIN graph /\ L \in SUBSET ((DOMAIN graph) \X (DOMAIN graph))
    BY DEF InSearch
  <1> QED BY <1>2, <1>15, <1>16, <1>17, <1>18 DEF InSearch

\* A node is looked at that was left.
LEMMA LookGoesOn ==
    ASSUME NEW graph, IsGraph(graph), NEW V, NEW k, NEW L, InSearch(graph, V, k, L),
           Len(k) # 0, NEW n \in V, n \in graph[k[Len(k)]], \A i \in 1 .. Len(k) : k[i] # n
    PROVE  InSearch(graph, V, k, L \cup {<<k[Len(k)], n>>})
  <1>1. PICK l \in Nat : l = Len(k)
    BY DEF InSearch, OnPath
  <1>2. PICK M : M = L \cup {<<k[l], n>>}
    OBVIOUS
  <1>3. /\ \A i \in 1 .. l : k[i] \in V /\ k[i] \in DOMAIN graph
        /\ \A i, j \in 1 .. l : k[i] = k[j] => i = j
    BY <1>1 DEF InSearch, OnPath
  <1>4. l \in 1 .. l
    BY <1>1
  <1>5. n \in Left(V, k)
    BY DEF Left
  <1>6. V \subseteq DOMAIN graph /\ L \subseteq (DOMAIN graph) \X (DOMAIN graph)
    BY DEF InSearch
  <1>7. M \in SUBSET ((DOMAIN graph) \X (DOMAIN graph))
    <2>1. <<k[l], n>> \in (DOMAIN graph) \X (DOMAIN graph)
      <3>1. PICK D : D = DOMAIN graph
        OBVIOUS
      <3>2. PICK a : a = k[l]
        OBVIOUS
      <3>3. a \in D /\ n \in D
        BY <1>3, <1>4, <1>6, <3>1, <3>2
      <3>4. <<a, n>> \in D \X D
        BY ONLY <3>3
      <3> QED BY ONLY <3>1, <3>2, <3>4, Zenon
    <2> QED BY ONLY <1>2, <1>6, <2>1
  <1>8. Seen(graph, V, k, M)
    <2>1. \A x, m \in DOMAIN graph : <<x, m>> \in L => x \in V
      BY DEF InSearch, Seen
    <2>2. \A i \in 1 .. l : \A m \in graph[k[i]] :
            <<k[i], m>> \in L => m \in Left(V, k) \/ (i < l /\ m = k[i + 1])
      BY <1>1 DEF InSearch, Seen
    <2>3. \A x, m : <<x, m>> \in M => <<x, m>> \in L \/ (x = k[l] /\ m = n)
      BY ONLY <1>2
    <2>4. \A x, m \in DOMAIN graph : <<x, m>> \in M => x \in V
      BY ONLY <1>3, <1>4, <2>1, <2>3
    <2>5. \A i \in 1 .. l : \A m \in graph[k[i]] :
            <<k[i], m>> \in M => m \in Left(V, k) \/ (i < l /\ m = k[i + 1])
      BY ONLY <1>5, <2>2, <2>3
    <2> QED BY ONLY <1>1, <2>4, <2>5, Zenon DEF Seen
  <1> QED BY <1>1, <1>2, <1>7, <1>8 DEF InSearch

\* A call in progress is met: no order of the nodes has all of its path.
LEMMA CycleMet ==
    ASSUME NEW graph, NEW V, NEW k, OnPath(graph, V, k), NEW j \in 1 .. Len(k),
           k[j] \in graph[k[Len(k)]], NEW r, Orders(graph, r)
    PROVE  FALSE
  <1>1. PICK l \in Nat : l = Len(k)
    BY DEF OnPath
  <1>2. /\ \A i \in 1 .. l : k[i] \in DOMAIN graph
        /\ \A i \in 1 .. l : i < l => k[i + 1] \in graph[k[i]]
    BY <1>1 DEF OnPath
  <1>3. /\ \A n \in DOMAIN graph : r[n] \in Nat
        /\ \A n \in DOMAIN graph : \A m \in graph[n] : r[m] < r[n]
    BY DEF Orders
  <1>4. j \in 1 .. l /\ l - j \in Nat /\ l \in 1 .. l
    BY <1>1
  <1> DEFINE T == {i \in 0 .. l - j : r[k[j + i]] =< r[k[j]]}
  <1>5. 0 \in T
    <2>1. r[k[j]] \in Nat /\ j + 0 = j /\ 0 \in 0 .. l - j
      BY <1>2, <1>3, <1>4
    <2> QED BY <2>1
  <1>6. ASSUME NEW i \in 0 .. l - j - 1, i \in T PROVE i + 1 \in T
    <2>1. PICK a \in 1 .. l : a = j + i
      BY <1>4
    <2>2. a < l /\ a + 1 \in 1 .. l /\ i + 1 \in 0 .. l - j /\ j + (i + 1) = a + 1
      BY <1>4, <2>1
    <2>3. r[k[a + 1]] < r[k[a]] /\ r[k[a + 1]] \in Nat /\ r[k[a]] \in Nat /\ r[k[j]] \in Nat
      BY ONLY <1>2, <1>3, <1>4, <2>1, <2>2
    <2>4. r[k[a]] =< r[k[j]]
      BY <1>6, <2>1
    <2> QED BY <2>2, <2>3, <2>4
  <1>7. l - j \in T
    <2> HIDE DEF T
    <2>1. 0 .. l - j \subseteq T
      BY <1>4, <1>5, <1>6, PassedOn
    <2> QED BY <1>4, <2>1
  <1>8. r[k[l]] =< r[k[j]]
    <2>1. j + (l - j) = l
      BY <1>4
    <2> QED BY <1>7, <2>1
  <1>9. r[k[j]] < r[k[l]] /\ r[k[j]] \in Nat /\ r[k[l]] \in Nat
    BY <1>1, <1>2, <1>3, <1>4
  <1> QED BY <1>8, <1>9

\* What a search has found out is right: a cycle leaves no order, without one it goes on.
Sound(graph, s) ==
    /\ s \in Searches(DOMAIN graph)
    /\ IF s.found THEN \A r : ~Orders(graph, r)
       ELSE InSearch(graph, s.visited, s.recursion_stack, s.looked)

\* It has ended, or every step has visited, looked or returned.
Ended(graph, s) == s.found \/ (s.recursion_stack = <<>> /\ s.visited = DOMAIN graph)
Grown(graph, s, n) ==
    \/ Ended(graph, s)
    \/ n + Len(s.recursion_stack) =< Cardinality(s.looked) + 2 * Cardinality(s.visited)

\* A step without a cycle, by what it changes.
StepsTo(graph, s, t) ==
    LET k == s.recursion_stack
    IN  \/ t = s /\ Ended(graph, s)
        \/ k = <<>> /\ \E n \in DOMAIN graph : n \notin s.visited /\ t = Visits(n, s)
        \/ k # <<>> /\ t = Returns(s) /\ \A m \in graph[k[Len(k)]] : <<k[Len(k)], m>> \in s.looked
        \/ k # <<>> /\ \E n \in graph[k[Len(k)]] :
               <<k[Len(k)], n>> \notin s.looked /\ t = LooksAt(k[Len(k)], n, s)

\* A step is one of four.
LEMMA StepIsOne ==
    ASSUME NEW graph, IsGraph(graph), NEW s, s \in Searches(DOMAIN graph)
    PROVE  StepsTo(graph, s, SearchStep(graph, s))
  <1> DEFINE k == s.recursion_stack
             b == k[Len(k)]
             left == {n \in graph[b] : <<b, n>> \notin s.looked}
             new == DOMAIN graph \ s.visited
             t == SearchStep(graph, s)
  <1>1. /\ s.found \in BOOLEAN /\ k \in Seq(DOMAIN graph)
        /\ s.visited \subseteq DOMAIN graph
    BY DEF Searches
  <1>2. t = CASE s.found -> s
              [] ~s.found /\ k = <<>> -> IF new = {} THEN s ELSE Visits(CHOOSE n \in new : TRUE, s)
              [] ~s.found /\ k # <<>> ->
                   IF left = {} THEN Returns(s) ELSE LooksAt(b, CHOOSE n \in left : TRUE, s)
    BY DEF SearchStep, Last
  <1> HIDE DEF t
  <1>3. CASE s.found
    <2>1. t = s
      BY <1>2, <1>3
    <2> QED BY <1>3, <2>1 DEF t, StepsTo, Ended
  <1>4. CASE ~s.found /\ k = <<>>
    <2> HIDE DEF k, left, new
    <2>1. t = IF new = {} THEN s ELSE Visits(CHOOSE n \in new : TRUE, s)
      BY ONLY <1>2, <1>4
    <2>2. CASE new = {}
      <3>1. t = s /\ s.visited = DOMAIN graph
        BY <1>1, <2>1, <2>2 DEF new
      <3> QED BY <1>4, <3>1 DEF t, k, StepsTo, Ended
    <2>3. CASE new # {}
      <3>1. PICK n : n = CHOOSE x \in new : TRUE
        OBVIOUS
      <3>2. n \in new
        BY ONLY <2>3, <3>1
      <3>3. t = Visits(n, s)
        BY ONLY <2>1, <2>3, <3>1
      <3>4. n \in DOMAIN graph /\ n \notin s.visited
        BY <3>2 DEF new
      <3> QED BY <1>4, <3>3, <3>4 DEF t, k, StepsTo
    <2> QED BY <2>2, <2>3
  <1>5. CASE ~s.found /\ k # <<>>
    <2> HIDE DEF k, left, new
    <2>1. t = IF left = {} THEN Returns(s) ELSE LooksAt(b, CHOOSE n \in left : TRUE, s)
      BY ONLY <1>2, <1>5
    <2>2. CASE left = {}
      <3>1. t = Returns(s)
        BY ONLY <2>1, <2>2
      <3>2. \A m \in graph[b] : <<b, m>> \in s.looked
        BY <2>2 DEF left
      <3> QED BY <1>5, <3>1, <3>2 DEF t, k, StepsTo
    <2>3. CASE left # {}
      <3>1. PICK n : n = CHOOSE x \in left : TRUE
        OBVIOUS
      <3>2. n \in left
        BY ONLY <2>3, <3>1
      <3>3. t = LooksAt(b, n, s)
        BY ONLY <2>1, <2>3, <3>1
      <3>4. n \in graph[b] /\ <<b, n>> \notin s.looked
        BY <3>2 DEF left
      <3> QED BY <1>5, <3>3, <3>4 DEF t, k, StepsTo
    <2> QED BY <2>2, <2>3
  <1> QED BY <1>1, <1>3, <1>4, <1>5 DEF t

\* What a step comes to: a cycle, or a search that goes on and has grown.
GoesFurther(graph, s, t) ==
    /\ Sound(graph, t)
    /\ \/ t.found
       \/ Cardinality(s.looked) + 2 * Cardinality(s.visited) + 1 + Len(t.recursion_stack)
            =< Cardinality(t.looked) + 2 * Cardinality(t.visited) + Len(s.recursion_stack)

\* Sets of nodes and of edges are counted.
LEMMA SearchCounts ==
    ASSUME NEW graph, IsGraph(graph), NEW s, s \in Searches(DOMAIN graph)
    PROVE  /\ Cardinality(s.looked) \in Nat /\ Cardinality(s.visited) \in Nat
           /\ Cardinality(DOMAIN graph) \in Nat
           /\ Cardinality(s.visited) =< Cardinality(DOMAIN graph)
           /\ Cardinality(s.looked) =< Cardinality(DOMAIN graph) * Cardinality(DOMAIN graph)
           /\ \A n : n \notin s.visited => Cardinality(s.visited \cup {n}) = Cardinality(s.visited) + 1
           /\ \A e : e \notin s.looked => Cardinality(s.looked \cup {e}) = Cardinality(s.looked) + 1
  <1>1. PICK D : D = DOMAIN graph
    OBVIOUS
  <1>2. IsFiniteSet(D) /\ s.visited \subseteq D /\ s.looked \subseteq D \X D
    BY <1>1 DEF Searches, IsGraph
  <1>3. IsFiniteSet(D \X D) /\ Cardinality(D \X D) = Cardinality(D) * Cardinality(D)
    BY ONLY <1>2, FS_Product
  <1>4. IsFiniteSet(s.visited) /\ IsFiniteSet(s.looked)
        /\ Cardinality(s.visited) =< Cardinality(D) /\ Cardinality(s.looked) =< Cardinality(D \X D)
    BY ONLY <1>2, <1>3, FS_Subset
  <1>5. /\ Cardinality(s.looked) \in Nat /\ Cardinality(s.visited) \in Nat
        /\ Cardinality(D) \in Nat
    BY ONLY <1>2, <1>4, FS_CardinalityType
  <1>6. /\ \A n : n \notin s.visited => Cardinality(s.visited \cup {n}) = Cardinality(s.visited) + 1
        /\ \A e : e \notin s.looked => Cardinality(s.looked \cup {e}) = Cardinality(s.looked) + 1
    BY ONLY <1>4, FS_AddElement
  <1> QED BY <1>1, <1>3, <1>4, <1>5, <1>6

\* A call from outside.
LEMMA VisitsGo ==
    ASSUME NEW graph, IsGraph(graph), NEW s, Sound(graph, s), ~s.found,
           s.recursion_stack = <<>>, NEW n \in DOMAIN graph, n \notin s.visited,
           NEW t, t = Visits(n, s)
    PROVE  GoesFurther(graph, s, t)
  <1>1. s \in Searches(DOMAIN graph) /\ InSearch(graph, s.visited, s.recursion_stack, s.looked)
    BY DEF Sound
  <1>2. /\ t \in Searches(DOMAIN graph) /\ ~t.found /\ t.looked = s.looked
        /\ t.visited = s.visited \cup {n} /\ t.recursion_stack = Append(s.recursion_stack, n)
    <2>1. PICK D : D = DOMAIN graph
      OBVIOUS
    <2>2. s \in Searches(D) /\ n \in D
      BY <1>1, <2>1
    <2>3. /\ Append(s.recursion_stack, n) \in Seq(D) /\ s.visited \cup {n} \in SUBSET D
      BY ONLY <2>2 DEF Searches
    <2>4. t = [s EXCEPT !.visited = s.visited \cup {n},
                        !.recursion_stack = Append(s.recursion_stack, n)]
      BY DEF Visits
    <2>5. /\ t \in Searches(D) /\ t.found = s.found /\ t.looked = s.looked
          /\ t.visited = s.visited \cup {n} /\ t.recursion_stack = Append(s.recursion_stack, n)
      BY ONLY <2>2, <2>3, <2>4 DEF Searches
    <2> QED BY <2>1, <2>5
  <1>3. Len(s.recursion_stack) = 0 /\ Len(t.recursion_stack) = 1
    BY <1>2
  <1>4. InSearch(graph, t.visited, t.recursion_stack, t.looked)
    <2>1. InSearch(graph, s.visited \cup {n}, Append(s.recursion_stack, n), s.looked)
      BY <1>1, <1>3, VisitGoesOn
    <2> QED BY <1>2, <2>1
  <1>5. Cardinality(t.visited) = Cardinality(s.visited) + 1 /\ Cardinality(s.visited) \in Nat
        /\ Cardinality(s.looked) \in Nat
    BY <1>1, <1>2, SearchCounts
  <1>6. Sound(graph, t)
    BY <1>2, <1>4 DEF Sound
  <1> QED BY <1>2, <1>3, <1>5, <1>6 DEF GoesFurther

\* A return.
LEMMA LeavesGo ==
    ASSUME NEW graph, IsGraph(graph), NEW s, Sound(graph, s), ~s.found, NEW k,
           k = s.recursion_stack, k # <<>>,
           \A m \in graph[k[Len(k)]] : <<k[Len(k)], m>> \in s.looked,
           NEW t, t = Returns(s)
    PROVE  GoesFurther(graph, s, t)
  <1>1. s \in Searches(DOMAIN graph) /\ InSearch(graph, s.visited, k, s.looked)
    BY DEF Sound
  <1>2. k \in Seq(DOMAIN graph) /\ Len(k) # 0 /\ Len(k) \in Nat
    BY <1>1 DEF Searches
  <1>3. Front(k) \in Seq(DOMAIN graph) /\ Len(Front(k)) = Len(k) - 1
    BY <1>2 DEF Front
  <1>4. /\ t \in Searches(DOMAIN graph) /\ ~t.found /\ t.looked = s.looked
        /\ t.visited = s.visited /\ t.recursion_stack = Front(k)
    BY <1>1, <1>3 DEF Searches, Returns
  <1>5. InSearch(graph, t.visited, t.recursion_stack, t.looked)
    BY <1>1, <1>2, <1>4, LeaveGoesOn
  <1>6. Cardinality(s.visited) \in Nat /\ Cardinality(s.looked) \in Nat
    BY <1>1, SearchCounts
  <1>7. Sound(graph, t)
    BY <1>4, <1>5 DEF Sound
  <1>8. Len(t.recursion_stack) = Len(k) - 1
    BY <1>3, <1>4
  <1> QED BY <1>2, <1>4, <1>6, <1>7, <1>8 DEF GoesFurther

\* A look at a neighbour.
LEMMA LooksGo ==
    ASSUME NEW graph, IsGraph(graph), NEW s, Sound(graph, s), ~s.found, NEW k,
           k = s.recursion_stack, k # <<>>, NEW b, b = k[Len(k)],
           NEW n \in graph[b], <<b, n>> \notin s.looked,
           NEW t, t = LooksAt(b, n, s)
    PROVE  GoesFurther(graph, s, t)
  <1>1. s \in Searches(DOMAIN graph) /\ InSearch(graph, s.visited, k, s.looked)
    BY DEF Sound
  <1>2. k \in Seq(DOMAIN graph) /\ Len(k) # 0 /\ Len(k) \in Nat /\ Len(k) \in 1 .. Len(k)
    BY <1>1 DEF Searches
  <1>3. b \in DOMAIN graph
    BY <1>2
  <1>4. n \in DOMAIN graph
    BY <1>3 DEF IsGraph
  <1>5. /\ Cardinality(s.visited) \in Nat /\ Cardinality(s.looked) \in Nat
        /\ Cardinality(s.looked \cup {<<b, n>>}) = Cardinality(s.looked) + 1
    BY <1>1, SearchCounts
  <1>6. \A m : m \in Range(k) <=> \E i \in 1 .. Len(k) : k[i] = m
    BY <1>2 DEF Range
  <1>7. s.looked \cup {<<b, n>>} \in SUBSET ((DOMAIN graph) \X (DOMAIN graph))
    BY <1>1, <1>3, <1>4 DEF InSearch
  <1>8. CASE n \notin s.visited
    <2>1. t = [s EXCEPT !.looked = @ \cup {<<b, n>>}, !.visited = @ \cup {n},
                        !.recursion_stack = Append(@, n)]
      BY <1>1, <1>8 DEF LooksAt, Visits, Searches
    <2>2. /\ t \in Searches(DOMAIN graph) /\ ~t.found /\ t.looked = s.looked \cup {<<b, n>>}
          /\ t.visited = s.visited \cup {n} /\ t.recursion_stack = Append(k, n)
      <3>1. PICK D : D = DOMAIN graph
        OBVIOUS
      <3>2. s \in Searches(D) /\ n \in D /\ s.looked \cup {<<b, n>>} \in SUBSET (D \X D)
        BY <1>1, <1>4, <1>7, <3>1
      <3>3. /\ Append(k, n) \in Seq(D) /\ s.visited \cup {n} \in SUBSET D
        BY ONLY <3>2, k = s.recursion_stack DEF Searches
      <3>4. t = [s EXCEPT !.looked = s.looked \cup {<<b, n>>}, !.visited = s.visited \cup {n},
                          !.recursion_stack = Append(k, n)]
        BY <2>1
      <3>5. /\ t \in Searches(D) /\ t.found = s.found /\ t.looked = s.looked \cup {<<b, n>>}
            /\ t.visited = s.visited \cup {n} /\ t.recursion_stack = Append(k, n)
        BY ONLY <3>2, <3>3, <3>4 DEF Searches
      <3> QED BY <3>1, <3>5
    <2>3. InSearch(graph, t.visited, t.recursion_stack, t.looked)
      <3>1. PICK M : M = s.looked \cup {<<k[Len(k)], n>>}
        OBVIOUS
      <3>2. InSearch(graph, s.visited \cup {n}, Append(k, n), M)
        BY <1>1, <1>2, <1>4, <1>8, <3>1, VisitGoesOn
      <3> QED BY <2>2, <3>1, <3>2
    <2>4. Cardinality(t.visited) = Cardinality(s.visited) + 1
      BY <1>1, <1>8, <2>2, SearchCounts
    <2>5. Len(t.recursion_stack) = Len(k) + 1
      BY <1>2, <2>2
    <2>6. Sound(graph, t)
      BY <2>2, <2>3 DEF Sound
    <2> QED BY <1>2, <1>5, <2>2, <2>4, <2>5, <2>6 DEF GoesFurther
  <1>9. CASE n \in s.visited
    <2>1. t = [s EXCEPT !.looked = @ \cup {<<b, n>>}, !.found = n \in Range(k)]
      BY <1>1, <1>9 DEF LooksAt, Searches
    <2>2. /\ t \in Searches(DOMAIN graph) /\ t.found = (n \in Range(k))
          /\ t.looked = s.looked \cup {<<b, n>>}
          /\ t.visited = s.visited /\ t.recursion_stack = k
      <3>1. PICK D : D = DOMAIN graph
        OBVIOUS
      <3>2. s \in Searches(D) /\ s.looked \cup {<<b, n>>} \in SUBSET (D \X D)
        BY <1>1, <1>7, <3>1
      <3>3. PICK e \in BOOLEAN : e = (n \in Range(k))
        <4>1. CASE n \in Range(k)
          BY <4>1, TRUE \in BOOLEAN, TRUE = (n \in Range(k))
        <4>2. CASE n \notin Range(k)
          BY <4>2, FALSE \in BOOLEAN, FALSE = (n \in Range(k))
        <4> QED BY <4>1, <4>2
      <3>4. t = [s EXCEPT !.looked = s.looked \cup {<<b, n>>}, !.found = e]
        BY <2>1, <3>3
      <3>5. /\ t \in Searches(D) /\ t.found = e /\ t.looked = s.looked \cup {<<b, n>>}
            /\ t.visited = s.visited /\ t.recursion_stack = s.recursion_stack
        BY ONLY <3>2, <3>3, <3>4 DEF Searches
      <3> QED BY <3>1, <3>3, <3>5
    <2>3. CASE n \in Range(k)
      <3>1. PICK j \in 1 .. Len(k) : k[j] = n
        BY <1>6, <2>3
      <3>2. OnPath(graph, s.visited, k)
        BY <1>1 DEF InSearch
      <3>3. \A r : ~Orders(graph, r)
        BY <3>1, <3>2, CycleMet
      <3>4. Sound(graph, t) /\ t.found
        BY <2>2, <2>3, <3>3 DEF Sound
      <3> QED BY <3>4 DEF GoesFurther
    <2>4. CASE n \notin Range(k)
      <3>1. \A i \in 1 .. Len(k) : k[i] # n
        BY <1>6, <2>4
      <3>2. InSearch(graph, s.visited, k, s.looked \cup {<<k[Len(k)], n>>})
        BY <1>1, <1>2, <1>9, <3>1, LookGoesOn
      <3>3. Sound(graph, t)
        BY <2>2, <2>4, <3>2 DEF Sound
      <3> QED BY <1>2, <1>5, <2>2, <3>3 DEF GoesFurther
    <2> QED BY <2>3, <2>4
  <1> QED BY <1>8, <1>9

\* A step keeps what was found out, and the search ends or grows.
LEMMA StepGoes ==
    ASSUME NEW graph, IsGraph(graph), NEW s, Sound(graph, s), NEW t, t = SearchStep(graph, s),
           NEW n \in Nat
    PROVE  Sound(graph, t) /\ (Grown(graph, s, n) => Grown(graph, t, n + 1))
  <1>1. s \in Searches(DOMAIN graph) /\ StepsTo(graph, s, t)
    BY StepIsOne DEF Sound
  <1>2. CASE t = s /\ Ended(graph, s)
    BY <1>2 DEF Grown
  <1>3. CASE s.found
    <2>1. t = s
      BY <1>3 DEF SearchStep
    <2> QED BY <1>3, <2>1 DEF Grown, Ended
  <1>4. CASE ~s.found /\ ~(t = s /\ Ended(graph, s))
    <2>1. GoesFurther(graph, s, t)
      BY <1>1, <1>4, VisitsGo, LeavesGo, LooksGo DEF StepsTo
    <2>2. Sound(graph, t) /\ t \in Searches(DOMAIN graph)
      BY <2>1 DEF GoesFurther, Sound
    <2>3. CASE t.found
      BY <2>2, <2>3 DEF Grown, Ended
    <2>4. CASE ~t.found
      <3>1. /\ Cardinality(s.visited) \in Nat /\ Cardinality(s.looked) \in Nat
            /\ Cardinality(t.visited) \in Nat /\ Cardinality(t.looked) \in Nat
        BY <1>1, <2>2, SearchCounts
      <3>2. Len(s.recursion_stack) \in Nat /\ Len(t.recursion_stack) \in Nat
        BY <1>1, <2>2 DEF Searches
      <3>3. Cardinality(s.looked) + 2 * Cardinality(s.visited) + 1 + Len(t.recursion_stack)
              =< Cardinality(t.looked) + 2 * Cardinality(t.visited) + Len(s.recursion_stack)
        BY <2>1, <2>4 DEF GoesFurther
      <3>6. SUFFICES ASSUME Grown(graph, s, n) PROVE Grown(graph, t, n + 1)
        BY <2>2
      <3>4. CASE Ended(graph, s)
        \* Every node was visited, and no call is in progress: the step changes nothing.
        <4>1. s.recursion_stack = <<>> /\ s.visited = DOMAIN graph
          BY <1>4, <3>4 DEF Ended
        <4>2. t = s
          BY <1>1, <4>1 DEF StepsTo
        <4> QED BY <1>4, <3>4, <4>2
      <3>5. CASE ~Ended(graph, s)
        <4>1. n + Len(s.recursion_stack) =< Cardinality(s.looked) + 2 * Cardinality(s.visited)
          BY <3>5, <3>6 DEF Grown
        <4>2. (n + 1) + Len(t.recursion_stack) =< Cardinality(t.looked) + 2 * Cardinality(t.visited)
          <5>1. PICK a \in Nat, c \in Nat, d \in Nat, e \in Nat, i \in Nat, j \in Nat :
                  /\ a = Cardinality(s.looked) /\ c = Cardinality(s.visited)
                  /\ d = Cardinality(t.looked) /\ e = Cardinality(t.visited)
                  /\ i = Len(s.recursion_stack) /\ j = Len(t.recursion_stack)
            BY ONLY <3>1, <3>2
          <5>2. a + 2 * c + 1 + j =< d + 2 * e + i /\ n + i =< a + 2 * c
            BY ONLY <3>3, <4>1, <5>1
          <5>3. (n + 1) + j =< d + 2 * e
            BY ONLY <5>2, n \in Nat, a \in Nat, c \in Nat, d \in Nat, e \in Nat,
                    i \in Nat, j \in Nat
          <5> QED BY ONLY <5>1, <5>3
        <4> QED BY <2>2, <4>2 DEF Grown
      <3> QED BY <3>4, <3>5
    <2> QED BY <2>3, <2>4
  <1> QED BY <1>2, <1>3, <1>4

\* The search has ended after that many steps.
LEMMA SearchEnds ==
    ASSUME NEW graph, IsGraph(graph)
    PROVE  \E s : Sound(graph, s) /\ Ended(graph, s) /\ HasCycle(graph) = s.found
  <1> DEFINE m == SearchLength(graph)
             N == Cardinality(DOMAIN graph)
             searched[n \in 0 .. SearchLength(graph)] ==
                 IF n = 0 THEN Unsearched ELSE SearchStep(graph, searched[n - 1])
             F(f) == [n \in 0 .. m |-> IF n = 0 THEN Unsearched ELSE SearchStep(graph, f[n - 1])]
             A == {s \in Searches(DOMAIN graph) : Sound(graph, s)}
             g == [n \in 1 .. m |-> [s \in A |-> SearchStep(graph, s)]]
  <1>1. searched = CHOOSE f : f = F(f)
    BY DEF searched
  <1>2. HasCycle(graph) = searched[m].found
    BY DEF HasCycle
  <1>3. N \in Nat /\ m \in Nat /\ m = N * (N + 2)
    <2>1. N \in Nat
      BY FS_CardinalityType DEF IsGraph
    <2>2. m = N * (N + 2)
      BY DEF SearchLength
    <2> HIDE DEF m, N
    <2>3. N * (N + 2) \in Nat
      BY ONLY <2>1
    <2> QED BY <2>1, <2>2, <2>3
  <1>4. Sound(graph, Unsearched) /\ Grown(graph, Unsearched, 0) /\ Unsearched \in Searches(DOMAIN graph)
    <2>1. /\ Unsearched \in Searches(DOMAIN graph) /\ Unsearched.found = FALSE
          /\ Unsearched.visited = {} /\ Unsearched.recursion_stack = <<>> /\ Unsearched.looked = {}
      BY DEF Unsearched, Searches
    <2>2. OnPath(graph, {}, <<>>) /\ Seen(graph, {}, <<>>, {}) /\ Left({}, <<>>) = {}
      BY DEF OnPath, Seen, Left
    <2>3. OrdersLeft(graph, {}, [n \in DOMAIN graph |-> 0])
      BY DEF OrdersLeft
    <2>4. InSearch(graph, {}, <<>>, {})
      BY <2>2, <2>3 DEF InSearch
    <2>5. Sound(graph, Unsearched)
      BY <2>1, <2>4 DEF Sound
    <2>6. Len(Unsearched.recursion_stack) = 0
      BY <2>1
    <2>7. Cardinality(Unsearched.looked) = 0 /\ Cardinality(Unsearched.visited) = 0
      BY <2>1, FS_EmptySet
    <2>8. Grown(graph, Unsearched, 0)
      BY <2>6, <2>7 DEF Grown
    <2> QED BY <2>1, <2>5, <2>8
  <1> HIDE DEF m, searched
  <1>5. \A s \in A : SearchStep(graph, s) \in A
    <2>1. SUFFICES ASSUME NEW s, Sound(graph, s) PROVE Sound(graph, SearchStep(graph, s))
      BY DEF Sound
    <2> QED BY <2>1, 0 \in Nat, StepGoes
  <1>6. g \in [1 .. m -> [A -> A]] /\ Unsearched \in A
    BY <1>4, <1>5
  <1>7. \E f : f = F(f)
    <2>1. PICK h : Computes(h, A, Unsearched, m, g)
      <3> HIDE DEF A, g
      <3> QED BY <1>3, <1>6, Computed
    <2>2. h \in [0 .. m -> A] /\ h[0] = Unsearched /\ \A n \in 1 .. m : h[n] = g[n][h[n - 1]]
      <3> HIDE DEF A, g
      <3> QED BY ONLY <2>1 DEF Computes
    <2>3. \A n \in 1 .. m : h[n - 1] \in A
      <3>1. \A n \in 1 .. m : n - 1 \in 0 .. m
        BY <1>3
      <3> HIDE DEF A, g
      <3> QED BY ONLY <2>2, <3>1
    <2>4. \A n \in 1 .. m : h[n] = SearchStep(graph, h[n - 1])
      <3> HIDE DEF A
      <3> QED BY ONLY <2>2, <2>3
    <2>5. \A n \in 0 .. m : n = 0 \/ n \in 1 .. m
      BY <1>3
    <2>6. \A n \in 0 .. m : h[n] = IF n = 0 THEN Unsearched ELSE SearchStep(graph, h[n - 1])
      BY ONLY <2>2, <2>4, <2>5
    <2>7. h = [n \in 0 .. m |-> h[n]]
      <3> HIDE DEF A, g
      <3> QED BY ONLY <2>2
    <2>8. h = F(h)
      BY ONLY <2>6, <2>7
    <2> HIDE DEF F
    <2> QED BY <2>8
  <1>8. searched = F(searched)
    <2> HIDE DEF F
    <2> QED BY ONLY <1>1, <1>7
  <1>9. searched[0] = Unsearched /\ \A n \in 1 .. m : searched[n] = SearchStep(graph, searched[n - 1])
    <2>1. \A n \in 0 .. m : searched[n] = IF n = 0 THEN Unsearched ELSE SearchStep(graph, searched[n - 1])
      BY ONLY <1>8
    <2>2. 0 \in 0 .. m /\ \A n \in 1 .. m : n \in 0 .. m /\ n # 0
      BY <1>3
    <2> QED BY ONLY <2>1, <2>2
  <1> DEFINE T == {n \in 0 .. m : Sound(graph, searched[n]) /\ Grown(graph, searched[n], n)}
  <1>10. 0 \in T
    BY <1>3, <1>4, <1>9
  <1>11. ASSUME NEW n \in 0 .. m - 1, n \in T PROVE n + 1 \in T
    <2>1. n \in Nat /\ n + 1 \in 1 .. m /\ (n + 1) - 1 = n /\ n + 1 \in 0 .. m
      BY <1>3
    <2>2. searched[n + 1] = SearchStep(graph, searched[n])
      BY ONLY <1>9, <2>1
    <2>3. Sound(graph, searched[n]) /\ Grown(graph, searched[n], n)
      BY <1>11
    <2> QED BY <2>1, <2>2, <2>3, StepGoes
  <1>12. m \in T
    <2> HIDE DEF T
    <2>1. 0 .. m \subseteq T
      BY <1>3, <1>10, <1>11, PassedOn
    <2> QED BY <1>3, <2>1
  <1>13. PICK s : s = searched[m]
    OBVIOUS
  <1>14. Sound(graph, s) /\ Grown(graph, s, m) /\ s \in Searches(DOMAIN graph)
    BY <1>12, <1>13 DEF Sound
  <1>15. Ended(graph, s)
    <2>1. SUFFICES ASSUME m + Len(s.recursion_stack) =< Cardinality(s.looked) + 2 * Cardinality(s.visited)
                   PROVE  s.recursion_stack = <<>> /\ s.visited = DOMAIN graph
      BY <1>14 DEF Grown, Ended
    <2>2. /\ Cardinality(s.looked) \in Nat /\ Cardinality(s.visited) \in Nat
          /\ Cardinality(s.visited) =< N /\ Cardinality(s.looked) =< N * N
      BY <1>14, SearchCounts
    <2>3. s.recursion_stack \in Seq(DOMAIN graph) /\ Len(s.recursion_stack) \in Nat
      BY <1>14 DEF Searches
    <2> HIDE DEF N
    <2>4. N * (N + 2) = N * N + 2 * N /\ N * N \in Nat
      BY ONLY <1>3
    <2>5. PICK a \in Nat, c \in Nat, i \in Nat, z \in Nat :
            a = Cardinality(s.looked) /\ c = Cardinality(s.visited)
            /\ i = Len(s.recursion_stack) /\ z = N * N
      BY ONLY <2>2, <2>3, <2>4
    <2>6. z + 2 * N + i =< a + 2 * c /\ c =< N /\ a =< z
      BY ONLY <1>3, <2>1, <2>2, <2>4, <2>5
    <2>7. i = 0 /\ c = N
      BY ONLY <1>3, <2>6, a \in Nat, c \in Nat, i \in Nat, z \in Nat
    <2>8. s.recursion_stack = <<>>
      <3>1. Len(s.recursion_stack) = 0
        BY ONLY <2>5, <2>7
      <3>2. PICK k \in Seq(DOMAIN graph) : k = s.recursion_stack
        BY <2>3
      <3> QED BY ONLY <3>1, <3>2
    <2>9. s.visited = DOMAIN graph
      <3>1. s.visited \subseteq DOMAIN graph /\ IsFiniteSet(DOMAIN graph)
        BY <1>14 DEF Searches, IsGraph
      <3> QED BY <2>5, <2>7, <3>1, FS_Subset DEF N
    <2> QED BY <2>8, <2>9
  <1> QED BY <1>2, <1>13, <1>14, <1>15

\* has_cycle finds a cycle exactly if the nodes cannot be put in an order in which each
\* comes after those that it leads to; and if it finds none, places 1 to the number of
\* nodes are enough for such an order.
THEOREM SearchDecides ==
    ASSUME NEW graph, IsGraph(graph)
    PROVE  /\ HasCycle(graph) <=> \A r : ~Orders(graph, r)
           /\ ~HasCycle(graph) =>
                \E r \in [DOMAIN graph -> 1 .. Cardinality(DOMAIN graph)] : Orders(graph, r)
  <1>1. PICK s : Sound(graph, s) /\ Ended(graph, s) /\ HasCycle(graph) = s.found
    BY SearchEnds
  <1>2. CASE s.found
    BY <1>1, <1>2 DEF Sound
  <1>3. CASE ~s.found
    <2>1. /\ InSearch(graph, s.visited, s.recursion_stack, s.looked)
          /\ s.visited = DOMAIN graph /\ s.recursion_stack = <<>>
      BY <1>1, <1>3 DEF Sound, Ended
    <2>2. PICK r : OrdersLeft(graph, Left(DOMAIN graph, <<>>), r)
      BY <2>1 DEF InSearch
    <2>3. Left(DOMAIN graph, <<>>) = DOMAIN graph
      BY DEF Left
    <2>4. /\ r \in [DOMAIN graph -> Nat]
          /\ \A n \in DOMAIN graph : r[n] \in 1 .. Cardinality(DOMAIN graph)
          /\ \A n \in DOMAIN graph : \A m \in graph[n] : r[m] < r[n]
      BY <2>2, <2>3 DEF OrdersLeft
    <2>5. r \in [DOMAIN graph -> 1 .. Cardinality(DOMAIN graph)]
      BY ONLY <2>4
    <2>6. Orders(graph, r)
      BY <2>4 DEF Orders
    <2> QED BY <1>1, <1>3, <2>5, <2>6
  <1> QED BY <1>2, <1>3

-----------------------------------------------------------------------------
(* The validators of an architecture (ArchitectureValidation) *)

ErrorCounts == [flow : Nat, structure : Nat, other : Nat]
FlowRecords ==
    [source : Nodes \union {Absent}, destination : Nodes \union {Absent},
     data_type : {"given", Absent}]
ComponentRecords ==
    [name : Names \union {Absent}, number : Nat \union {Absent},
     required : (SUBSET Names) \union {Absent, Unsaid}]

\* A number of positions in a sequence is a number, and zero for no position only.
LEMMA PlacesCounted ==
    ASSUME NEW R, NEW s \in Seq(R), NEW P, P \subseteq DOMAIN s
    PROVE  Cardinality(P) \in Nat /\ (Cardinality(P) = 0 => P = {})
  <1>1. PICK n \in Nat : n = Len(s)
    OBVIOUS
  <1>2. DOMAIN s = 1 .. n
    BY <1>1
  <1>3. IsFiniteSet(1 .. n)
    BY FS_Interval
  <1>4. IsFiniteSet(P)
    BY <1>2, <1>3, FS_Subset
  <1> QED BY <1>4, FS_CardinalityType, FS_EmptySet

\* So is a number of positions with names, or with fields.
LEMMA NamedPlacesCounted ==
    ASSUME NEW R, NEW s \in Seq(R), NEW N, IsFiniteSet(N), NEW P, P \subseteq (DOMAIN s) \X N
    PROVE  Cardinality(P) \in Nat /\ (Cardinality(P) = 0 => P = {})
  <1>1. PICK n \in Nat : n = Len(s)
    OBVIOUS
  <1>2. DOMAIN s = 1 .. n
    BY <1>1
  <1>3. IsFiniteSet(1 .. n)
    BY FS_Interval
  <1>4. IsFiniteSet((1 .. n) \X N)
    BY <1>3, FS_Product
  <1>5. IsFiniteSet(P)
    BY <1>2, <1>4, FS_Subset
  <1> QED BY <1>5, FS_CardinalityType, FS_EmptySet

\* The fields that entries lack are counted; where there are none, entries are whole.
LEMMA LackingCounted ==
    ASSUME NEW R, NEW s \in Seq(R), NEW fields, IsFiniteSet(fields)
    PROVE  /\ Cardinality(Lacking(s, fields)) \in Nat
           /\ Cardinality(Lacking(s, fields)) = 0 => Whole(s, fields) = DOMAIN s
  <1>1. Lacking(s, fields) \subseteq (DOMAIN s) \X fields
    BY DEF Lacking
  <1>2. ASSUME Lacking(s, fields) = {} PROVE Whole(s, fields) = DOMAIN s
    <2>1. ASSUME NEW i \in DOMAIN s, NEW field \in fields PROVE s[i][field] # Absent
      <3>1. <<i, field>> \notin Lacking(s, fields)
        BY <1>2
      <3> QED BY <3>1 DEF Lacking
    <2> QED BY <2>1 DEF Whole
  <1> QED BY <1>1, <1>2, NamedPlacesCounted

\* The fields are three.
LEMMA FieldsFinite == IsFiniteSet(FlowFields) /\ IsFiniteSet(ComponentFields)
  <1>1. /\ IsFiniteSet({"source"}) /\ IsFiniteSet({"destination"}) /\ IsFiniteSet({"data_type"})
        /\ IsFiniteSet({"name"}) /\ IsFiniteSet({"number"}) /\ IsFiniteSet({"required"})
    BY FS_Singleton
  <1>2. /\ FlowFields = ({"source"} \cup {"destination"}) \cup {"data_type"}
        /\ ComponentFields = ({"name"} \cup {"number"}) \cup {"required"}
    BY DEF FlowFields, ComponentFields
  <1> QED BY <1>1, <1>2, FS_Union

\* A cycle counts as one error or none.
LEMMA CycleCounted == \A graph : CycleErrors(graph) \in Nat
  BY DEF CycleErrors

\* Every check counts errors.
LEMMA FlowErrorsCounted ==
    ASSUME NEW flows \in DataFlows
    PROVE  FlowErrorsOf[flows] \in ErrorCounts
  <1>1. FlowErrorsOf[flows] = FlowErrors(flows)
    BY DEF FlowErrorsOf
  <1>2. CASE flows = Malformed
    <2>1. FlowErrors(flows) = [NoErrors EXCEPT !.flow = 1]
      BY <1>2 DEF FlowErrors
    <2> QED BY <1>1, <2>1 DEF NoErrors, ErrorCounts
  <1>3. CASE flows # Malformed
    <2>1. flows \in Seq(FlowRecords)
      BY <1>3, ArchitectureAssumption DEF FlowRecords
    <2> DEFINE selfReferences == {i \in Whole(flows, FlowFields) :
                                   flows[i].source = flows[i].destination}
    <2>2. PICK a \in Nat : a = Cardinality(selfReferences)
      <3>1. selfReferences \subseteq DOMAIN flows
        BY DEF Whole
      <3> QED BY <2>1, <3>1, PlacesCounted
    <2>3. PICK b \in Nat : b = Cardinality(Repeated(flows, FlowFields, {"source", "destination"}))
      <3>1. Repeated(flows, FlowFields, {"source", "destination"}) \subseteq DOMAIN flows
        BY DEF Repeated, Whole
      <3> QED BY <2>1, <3>1, PlacesCounted
    <2>4. PICK c \in Nat : c = CycleErrors(FlowGraph(flows))
      BY CycleCounted
    <2>5. PICK d \in Nat : d = Cardinality(Lacking(flows, FlowFields))
      BY <2>1, LackingCounted, FieldsFinite
    <2>6. FlowErrors(flows) =
            [NoErrors EXCEPT !.flow = Cardinality(selfReferences)
                                        + Cardinality(Repeated(flows, FlowFields, {"source", "destination"}))
                                        + CycleErrors(FlowGraph(flows)),
                             !.other = Cardinality(Lacking(flows, FlowFields))]
      BY <1>3, Zenon DEF FlowErrors
    <2>7. FlowErrors(flows) = [NoErrors EXCEPT !.flow = a + b + c, !.other = d]
      BY ONLY <2>2, <2>3, <2>4, <2>5, <2>6, Zenon
    <2>8. PICK x \in Nat : x = a + b + c
      OBVIOUS
    <2>9. PICK e \in ErrorCounts : e = NoErrors
      BY DEF NoErrors, ErrorCounts
    <2>10. FlowErrors(flows) = [e EXCEPT !.flow = x, !.other = d]
      BY ONLY <2>7, <2>8, <2>9, Zenon
    <2>11. [e EXCEPT !.flow = x, !.other = d] \in ErrorCounts
      BY ONLY x \in Nat, d \in Nat, e \in ErrorCounts DEF ErrorCounts
    <2> QED BY ONLY <1>1, <2>10, <2>11, Zenon
  <1> QED BY <1>2, <1>3

\* What a structure without errors is: its components have names and numbers of their
\* own, and there is an order in which each follows those that it requires.
OwnRight(components) ==
    /\ components \in Seq(ComponentRecords)
    /\ \A i \in DOMAIN components : components[i].name \in Names
    /\ \A i, j \in DOMAIN components : i # j =>
            /\ components[i].name # components[j].name
            /\ components[i].number # components[j].number
    /\ Orderable(components)

\* The requirements of components are a graph, and its orders are the components'.
LEMMA RequirementsOrdered ==
    ASSUME NEW components \in Seq(ComponentRecords), ~HasCycle(RequiredGraph(components)),
           \A i \in DOMAIN components : components[i].name \in Names
    PROVE  Orderable(components)
  <1> DEFINE graph == RequiredGraph(components)
  <1>1. \A c \in Range(components) : c \in ComponentRecords /\ c.name \in Names
    BY DEF Range
  <1>2. \A c \in Range(components) : c.name \in Names /\ Requirements(c) \subseteq Names
    <2> SUFFICES ASSUME NEW c \in Range(components) PROVE Requirements(c) \subseteq Names
      BY <1>1
    <2>1. c.required \in (SUBSET Names) \union {Absent, Unsaid}
      BY <1>1 DEF ComponentRecords
    <2>2. CASE Says(c)
      <3>1. c.required \in SUBSET Names
        BY <2>1, <2>2, Zenon DEF Says
      <3> QED BY <2>2, <3>1 DEF Requirements
    <2>3. CASE ~Says(c)
      BY <2>3 DEF Requirements
    <2> QED BY <2>2, <2>3
  <1>3. /\ DOMAIN graph = Names
        /\ \A n \in Names :
             graph[n] = UNION {Requirements(c) : c \in {d \in Range(components) : d.name = n}}
    BY DEF RequiredGraph
  <1>4. graph = [n \in Names |-> graph[n]]
    BY DEF RequiredGraph
  <1>5. \A n \in Names : graph[n] \subseteq Names
    BY <1>2, <1>3
  <1>6. \A c \in Range(components), n \in Names : n \in Requirements(c) => n \in graph[c.name]
    BY <1>2, <1>3
  <1> HIDE DEF graph
  <1>7. IsGraph(graph)
    <2>1. IsFiniteSet(Names)
      BY ArchitectureAssumption
    <2>2. graph \in [Names -> SUBSET Names]
      BY ONLY <1>4, <1>5
    <2> QED BY <1>3, <2>1, <2>2 DEF IsGraph
  <1>8. ~HasCycle(graph)
    BY DEF graph
  <1>9. PICK r \in [Names -> 1 .. Cardinality(Names)] : Orders(graph, r)
    <2>1. \E r \in [DOMAIN graph -> 1 .. Cardinality(DOMAIN graph)] : Orders(graph, r)
      BY ONLY <1>7, <1>8, SearchDecides
    <2> QED BY ONLY <1>3, <2>1
  <1>10. \A n \in Names : \A m \in graph[n] : r[m] < r[n]
    BY ONLY <1>3, <1>9 DEF Orders
  <1>11. \A c \in Range(components), n \in Names : n \in Requirements(c) => r[n] < r[c.name]
    BY ONLY <1>2, <1>6, <1>10
  <1> QED BY <1>11 DEF Orderable

\* So does the check of a structure, which is right on its own where it finds none.
LEMMA StructureErrorsCounted ==
    ASSUME NEW components \in Structures
    PROVE  /\ StructureErrorsOf[components] \in ErrorCounts
           /\ ~ Found(StructureErrorsOf[components]) => OwnRight(components)
  <1>1. StructureErrorsOf[components] = StructureErrors(components)
    BY DEF StructureErrorsOf
  <1>2. CASE components = Malformed
    <2>1. StructureErrors(components) = [NoErrors EXCEPT !.structure = 1]
      BY <1>2 DEF StructureErrors
    <2>2. Found(StructureErrors(components))
      <3>1. StructureErrors(components).structure # NoErrors.structure
        BY <2>1 DEF NoErrors
      <3> QED BY <3>1 DEF Found
    <2> QED BY <1>1, <2>1, <2>2 DEF NoErrors, ErrorCounts
  <1>3. CASE components # Malformed
    <2>1. components \in Seq(ComponentRecords)
      BY <1>3, ArchitectureAssumption DEF ComponentRecords
    <2>2. PICK a \in Nat : a = Cardinality(Repeated(components, ComponentFields, {"name"}))
      <3>1. Repeated(components, ComponentFields, {"name"}) \subseteq DOMAIN components
        BY DEF Repeated, Whole
      <3> QED BY <2>1, <3>1, PlacesCounted
    <2>3. PICK b \in Nat : b = Cardinality(Repeated(components, ComponentFields, {"number"}))
      <3>1. Repeated(components, ComponentFields, {"number"}) \subseteq DOMAIN components
        BY DEF Repeated, Whole
      <3> QED BY <2>1, <3>1, PlacesCounted
    <2>4. PICK c \in Nat : c = Cardinality(Undefined(components))
      <3>1. Undefined(components) \subseteq (DOMAIN components) \X Names
        BY DEF Undefined, Whole
      <3> QED BY <2>1, <3>1, NamedPlacesCounted, ArchitectureAssumption
    <2>5. PICK d \in Nat : d = CycleErrors(RequiredGraph(components))
      BY CycleCounted
    <2>6. PICK e \in Nat : e = Cardinality(Lacking(components, ComponentFields))
      BY <2>1, LackingCounted, FieldsFinite
    <2>7. StructureErrors(components) =
            [NoErrors EXCEPT !.structure =
                                   Cardinality(Repeated(components, ComponentFields, {"name"}))
                                 + Cardinality(Repeated(components, ComponentFields, {"number"}))
                                 + Cardinality(Undefined(components))
                                 + CycleErrors(RequiredGraph(components)),
                             !.other = Cardinality(Lacking(components, ComponentFields))]
      BY <1>3, Zenon DEF StructureErrors
    <2>8. StructureErrors(components)
            = [NoErrors EXCEPT !.structure = a + b + c + d, !.other = e]
      BY ONLY <2>2, <2>3, <2>4, <2>5, <2>6, <2>7, Zenon
    <2>9. StructureErrors(components) \in ErrorCounts
      <3>1. PICK x \in Nat : x = a + b + c + d
        OBVIOUS
      <3>2. PICK o \in ErrorCounts : o = NoErrors
        BY DEF NoErrors, ErrorCounts
      <3>3. StructureErrors(components) = [o EXCEPT !.structure = x, !.other = e]
        BY ONLY <2>8, <3>1, <3>2, Zenon
      <3>4. [o EXCEPT !.structure = x, !.other = e] \in ErrorCounts
        BY ONLY x \in Nat, e \in Nat, o \in ErrorCounts DEF ErrorCounts
      <3> QED BY ONLY <3>3, <3>4, Zenon
    <2>10. ASSUME ~ Found(StructureErrors(components)) PROVE OwnRight(components)
      <3>1. /\ StructureErrors(components).structure = a + b + c + d
            /\ StructureErrors(components).other = e
        BY ONLY <2>8 DEF NoErrors
      <3>2. StructureErrors(components).structure = 0 /\ StructureErrors(components).other = 0
        BY <2>10 DEF Found, NoErrors
      <3>3. a = 0 /\ b = 0 /\ d = 0 /\ e = 0
        BY ONLY <3>1, <3>2, a \in Nat, b \in Nat, c \in Nat, d \in Nat, e \in Nat
      <3>4. /\ Repeated(components, ComponentFields, {"name"}) = {}
            /\ Repeated(components, ComponentFields, {"number"}) = {}
        <4>1. /\ Repeated(components, ComponentFields, {"name"}) \subseteq DOMAIN components
              /\ Repeated(components, ComponentFields, {"number"}) \subseteq DOMAIN components
          BY DEF Repeated, Whole
        <4> QED BY <2>1, <2>2, <2>3, <3>3, <4>1, PlacesCounted
      <3>5. PICK n \in Nat : n = Len(components) /\ DOMAIN components = 1 .. n
        BY <2>1
      <3>11. Whole(components, ComponentFields) = 1 .. n
        BY <2>1, <2>6, <3>3, <3>5, LackingCounted, FieldsFinite
      <3>6. \A i \in 1 .. n, j \in 1 .. n : j < i =>
              components[j].name # components[i].name /\ components[j].number # components[i].number
        BY <3>4, <3>11 DEF Repeated
      <3>7. \A i, j \in 1 .. n : i # j => j < i \/ i < j
        OBVIOUS
      <3>8. \A i, j \in 1 .. n : i # j =>
              components[i].name # components[j].name /\ components[i].number # components[j].number
        BY ONLY <3>6, <3>7
      <3>9. ~HasCycle(RequiredGraph(components))
        BY <2>5, <3>3 DEF CycleErrors
      <3>12. \A i \in DOMAIN components : components[i].name \in Names
        <4> SUFFICES ASSUME NEW i \in DOMAIN components PROVE components[i].name \in Names
          OBVIOUS
        <4>1. components[i].name # Absent
          BY <3>5, <3>11 DEF Whole, ComponentFields
        <4>2. components[i] \in ComponentRecords
          BY <2>1
        <4> QED BY ONLY <4>1, <4>2 DEF ComponentRecords
      <3>10. Orderable(components)
        BY <2>1, <3>9, <3>12, RequirementsOrdered
      <3> QED BY <2>1, <3>5, <3>8, <3>10, <3>12 DEF OwnRight
    <2> QED BY <1>1, <2>9, <2>10
  <1> QED BY <1>2, <1>3

\* What a structure without errors has to do with the data flow.
Crossed(flows, components) ==
    LET all == IF flows = Malformed THEN {} ELSE Range(flows)
        names == {c.name : c \in Range(components)}
    IN  /\ \A c \in Range(components), n \in names \ {"external"} :
                Says(c) /\ c.name # "external" =>
                    (n \in c.required <=>
                        \E f \in all : f.source = n /\ f.destination = c.name)
        /\ \A f \in all : {f.source, f.destination} \subseteq names \union {"external", Absent}

\* So does the check of a structure against the data flow.
LEMMA CrossErrorsCounted ==
    ASSUME NEW flows \in DataFlows \cup {Absent}, NEW components \in Seq(ComponentRecords),
           \A i \in DOMAIN components : components[i].name \in Names
    PROVE  /\ CrossErrors(flows, components) \in ErrorCounts
           /\ ~ Found(CrossErrors(flows, components)) => Crossed(flows, components)
  <1>1. CASE flows = Absent
    <2>1. CrossErrors(flows, components) = [NoErrors EXCEPT !.other = 1]
      BY <1>1 DEF CrossErrors
    <2>2. CrossErrors(flows, components).other = 1
      BY <2>1 DEF NoErrors
    <2>3. Found(CrossErrors(flows, components))
      BY <2>2 DEF Found, NoErrors
    <2> QED BY <2>1, <2>3 DEF NoErrors, ErrorCounts
  <1>2. CASE flows # Absent
    <2>1. PICK all : all = IF flows = Malformed THEN <<>> ELSE flows
      OBVIOUS
    <2>2. all \in Seq(FlowRecords)
      <3>1. CASE flows = Malformed
        <4>1. <<>> \in Seq(FlowRecords)
          OBVIOUS
        <4> QED BY <2>1, <3>1, <4>1, Zenon
      <3>2. CASE flows # Malformed
        <4>1. flows \in Seq(FlowRecords)
          BY <1>2, <3>2, ArchitectureAssumption DEF FlowRecords
        <4> QED BY <2>1, <3>2, <4>1, Zenon
      <3> QED BY <3>1, <3>2
    <2> DEFINE names == {c.name : c \in Range(components)}
               unknown(field) == {i \in DOMAIN all :
                                     all[i][field] \notin names \union {"external", Absent}}
               from(n) == IF n = "external" THEN {}
                          ELSE {f.source : f \in {g \in Range(all) : g.destination = n}}
                                   \ {"external", Absent}
               saying == {i \in DOMAIN components : Says(components[i])}
               unstructured == {p \in saying \X Names :
                                  p[2] \in from(components[p[1]].name) \ components[p[1]].required}
               flowless == {p \in saying \X (Names \intersect names) :
                              p[2] \in components[p[1]].required \ from(components[p[1]].name)}
    <2>3. PICK a \in Nat : a = Cardinality(unknown("source"))
      BY <2>2, PlacesCounted
    <2>4. PICK b \in Nat : b = Cardinality(unknown("destination"))
      BY <2>2, PlacesCounted
    <2>5. PICK c \in Nat : c = Cardinality(flowless)
      <3>1. saying \subseteq DOMAIN components
        OBVIOUS
      <3>2. flowless \subseteq saying \X Names
        BY Zenon
      <3> HIDE DEF saying, flowless
      <3>3. flowless \subseteq (DOMAIN components) \X Names
        BY <3>1, <3>2
      <3> QED BY <3>3, NamedPlacesCounted, ArchitectureAssumption
    <2>6. PICK d \in Nat : d = Cardinality(unstructured)
      <3>1. saying \subseteq DOMAIN components
        OBVIOUS
      <3>2. unstructured \subseteq saying \X Names
        BY Zenon
      <3> HIDE DEF saying, unstructured
      <3>3. unstructured \subseteq (DOMAIN components) \X Names
        BY <3>1, <3>2
      <3> QED BY <3>3, NamedPlacesCounted, ArchitectureAssumption
    <2>7. CrossErrors(flows, components) =
            [NoErrors EXCEPT !.flow = Cardinality(unknown("source")) + Cardinality(unknown("destination"))
                                        + Cardinality(flowless),
                             !.structure = Cardinality(unstructured)]
      BY ONLY <1>2, <2>1, Zenon DEF CrossErrors
    <2>8. CrossErrors(flows, components) = [NoErrors EXCEPT !.flow = a + b + c, !.structure = d]
      BY ONLY <2>3, <2>4, <2>5, <2>6, <2>7, Zenon
    <2>9. PICK x \in Nat : x = a + b + c
      OBVIOUS
    <2>10. PICK e \in ErrorCounts : e = NoErrors
      BY DEF NoErrors, ErrorCounts
    <2>11. CrossErrors(flows, components) = [e EXCEPT !.flow = x, !.structure = d]
      BY ONLY <2>8, <2>9, <2>10, Zenon
    <2>12. [e EXCEPT !.flow = x, !.structure = d] \in ErrorCounts
      BY ONLY x \in Nat, d \in Nat, e \in ErrorCounts DEF ErrorCounts
    <2>13. ASSUME ~ Found(CrossErrors(flows, components)) PROVE Crossed(flows, components)
      <3>1. e.flow = 0 /\ e.structure = 0
        BY <2>10 DEF NoErrors
      <3>2. [e EXCEPT !.flow = x, !.structure = d] = e
        BY ONLY <2>10, <2>11, <2>13 DEF Found
      <3>3. x = 0 /\ d = 0
        BY ONLY <3>1, <3>2, e \in ErrorCounts, x \in Nat, d \in Nat DEF ErrorCounts
      <3>4. a = 0 /\ b = 0 /\ c = 0
        BY ONLY <2>9, <3>3, a \in Nat, b \in Nat, c \in Nat
      <3>5. unknown("source") = {} /\ unknown("destination") = {}
        BY <2>2, <2>3, <2>4, <3>4, PlacesCounted
      <3>6. flowless = {} /\ unstructured = {}
        <4>1. flowless \subseteq (DOMAIN components) \X Names
              /\ unstructured \subseteq (DOMAIN components) \X Names
          OBVIOUS
        <4>2. IsFiniteSet(Names)
          BY ArchitectureAssumption
        <4>3. Cardinality(flowless) = 0 /\ Cardinality(unstructured) = 0
          BY <2>5, <2>6, <3>3, <3>4
        <4>4. flowless = {}
          <5>1. PICK P : P = flowless
            OBVIOUS
          <5>2. P \subseteq (DOMAIN components) \X Names /\ Cardinality(P) = 0
            BY ONLY <4>1, <4>3, <5>1, Zenon
          <5>3. P = {}
            BY ONLY <4>2, <5>2, NamedPlacesCounted, components \in Seq(ComponentRecords)
          <5> QED BY ONLY <5>1, <5>3, Zenon
        <4>5. unstructured = {}
          <5>1. PICK P : P = unstructured
            OBVIOUS
          <5>2. P \subseteq (DOMAIN components) \X Names /\ Cardinality(P) = 0
            BY ONLY <4>1, <4>3, <5>1, Zenon
          <5>3. P = {}
            BY ONLY <4>2, <5>2, NamedPlacesCounted, components \in Seq(ComponentRecords)
          <5> QED BY ONLY <5>1, <5>3, Zenon
        <4> QED BY <4>4, <4>5
      <3>7. PICK N : N = names
        OBVIOUS
      <3>8. PICK F : F = Range(all)
        OBVIOUS
      <3>9. F = IF flows = Malformed THEN {} ELSE Range(flows)
        BY <2>1, <3>8 DEF Range
      <3>10. \A i \in DOMAIN all : all[i].source \in N \cup {"external", Absent}
                                 /\ all[i].destination \in N \cup {"external", Absent}
        BY <3>5, <3>7
      <3>11. \A f \in F : {f.source, f.destination} \subseteq N \cup {"external", Absent}
        BY <3>8, <3>10 DEF Range
      <3>12. ASSUME NEW c1 \in Range(components), NEW n \in N \ {"external"},
                    Says(c1), c1.name # "external"
             PROVE  n \in c1.required <=> \E f \in F : f.source = n /\ f.destination = c1.name
        <4>1. PICK i \in DOMAIN components : components[i] = c1
          BY <3>12 DEF Range
        <4>2. n \in Names
          BY <3>7, <3>12 DEF Range
        <4>3. n # Absent
          BY <4>2, ArchitectureAssumption DEF Nodes
        <4>4. n \in from(c1.name) <=> \E f \in F : f.source = n /\ f.destination = c1.name
          BY <3>8, <3>12, <4>3
        <4>5. i \in saying
          BY <3>12, <4>1
        <4>6. n \in c1.required => n \in from(c1.name)
          <5>1. <<i, n>> \notin flowless
            BY <3>6
          <5> QED BY <3>7, <3>12, <4>1, <4>2, <4>5, <5>1
        <4>7. n \in from(c1.name) => n \in c1.required
          <5>1. <<i, n>> \notin unstructured
            BY <3>6
          <5> QED BY <4>1, <4>2, <4>5, <5>1
        <4> QED BY <4>4, <4>6, <4>7
      <3> QED BY ONLY <3>7, <3>9, <3>11, <3>12 DEF Crossed
    <2> QED BY ONLY <2>11, <2>12, <2>13, Zenon
  <1> QED BY <1>1, <1>2

ValidationInv ==
    /\ validationState \in ValidationStates
    /\ dataFlow \in DataFlows \union {Absent} /\ structure \in Structures \union {Absent}
    /\ lastErrors \in ErrorCounts
    /\ workflow \in [at : {"idle", "attempt"}, attempt : 0 .. max_attempts]

\* The invariant holds initially.
LEMMA ValidationBegins == ValidationInit => ValidationInv
  BY ArchitectureAssumption
  DEF ValidationInit, ValidationInv, NoErrors, ErrorCounts, ValidationStates

\* The checks of a data flow and of a structure.
LEMMA DataFlowChecked ==
    ASSUME ValidationInv, NEW flows \in DataFlows, ChecksDataFlow(flows)
    PROVE  /\ validationState' \in ValidationStates /\ dataFlow' \in DataFlows \union {Absent}
           /\ structure' \in Structures \union {Absent} /\ lastErrors' \in ErrorCounts
  <1>1. FlowErrorsOf[flows] \in ErrorCounts
    BY FlowErrorsCounted
  <1>2. lastErrors' \in ErrorCounts
    BY <1>1 DEF ChecksDataFlow, Keeps, ValidationInv
  <1>3. validationState' \in ValidationStates
    BY DEF ChecksDataFlow, ValidationStates
  <1> QED BY <1>2, <1>3 DEF ChecksDataFlow, ValidationInv

\* The check of a structure keeps the types.
LEMMA StructureChecked ==
    ASSUME ValidationInv, NEW components \in Structures, ChecksStructure(components)
    PROVE  /\ validationState' \in ValidationStates /\ dataFlow' \in DataFlows \union {Absent}
           /\ structure' \in Structures \union {Absent} /\ lastErrors' \in ErrorCounts
  <1>1. PICK own : own = StructureErrorsOf[components]
    OBVIOUS
  <1>2. PICK errors : errors = IF Found(own) THEN own ELSE CrossErrors(dataFlow, components)
    OBVIOUS
  <1>3. errors \in ErrorCounts
    <2>1. own \in ErrorCounts
      BY <1>1, StructureErrorsCounted
    <2>2. ~ Found(own) => CrossErrors(dataFlow, components) \in ErrorCounts
      BY <1>1, StructureErrorsCounted, CrossErrorsCounted DEF ValidationInv, OwnRight
    <2> QED BY ONLY <1>2, <2>1, <2>2, Zenon
  <1>4. /\ structure' = components /\ Keeps(errors)
        /\ validationState' = CASE Found(own) -> "STRUCTURAL_REVISING"
                                [] ~Found(own) /\ Found(errors) -> "ARBITRATION"
                                [] OTHER -> "COMPLETED"
        /\ UNCHANGED dataFlow
    BY ONLY <1>1, <1>2, ChecksStructure(components), Zenon DEF ChecksStructure
  <1>5. lastErrors' \in ErrorCounts
    BY <1>3, <1>4 DEF Keeps, ValidationInv
  <1>6. validationState' \in ValidationStates
    BY <1>4 DEF ValidationStates
  <1> QED BY <1>4, <1>5, <1>6 DEF ValidationInv

\* The attempts of a workflow stay within their maximum.
LEMMA AttemptsCounted ==
    ASSUME ValidationInv, AttemptEnds
    PROVE  workflow' \in [at : {"idle", "attempt"}, attempt : 0 .. max_attempts]
  <1>1. PICK n \in 0 .. max_attempts : n = workflow.attempt
    BY DEF ValidationInv
  <1>2. max_attempts \in Nat
    BY ArchitectureAssumption
  <1>3. CASE validationState' = "COMPLETED" \/ n = max_attempts
    <2>1. workflow' = [at |-> "idle", attempt |-> 0]
      BY <1>1, <1>3 DEF AttemptEnds
    <2> QED BY <1>2, <2>1
  <1>4. CASE ~ (validationState' = "COMPLETED" \/ n = max_attempts)
    <2>1. PICK m \in 0 .. max_attempts : m = n + 1
      BY <1>2, <1>4
    <2>2. workflow' = [at |-> "attempt", attempt |-> m]
      BY <1>1, <1>4, <2>1 DEF AttemptEnds
    <2> QED BY <2>2
  <1> QED BY <1>3, <1>4

\* Every step of the validators keeps the invariant.
LEMMA ValidationKept ==
    ValidationInv /\ [ValidationNext]_validationVars => ValidationInv'
  <1> SUFFICES ASSUME ValidationInv, [ValidationNext]_validationVars PROVE ValidationInv'
    OBVIOUS
  <1>1. ASSUME NEW flows \in DataFlows, RegisterDataFlow(flows) PROVE ValidationInv'
    BY <1>1, DataFlowChecked DEF RegisterDataFlow, ValidationInv
  <1>2. ASSUME NEW components \in Structures, RegisterStructure(components) PROVE ValidationInv'
    BY <1>2, StructureChecked DEF RegisterStructure, ValidationInv
  <1>3. CASE BeginWorkflow
    BY <1>3, ArchitectureAssumption DEF BeginWorkflow, ValidationInv
  <1>4. CASE ReviseDataFlow
    BY <1>4, DataFlowChecked, AttemptsCounted DEF ReviseDataFlow, ValidationInv
  <1>5. CASE ReviseStructure
    BY <1>5, StructureChecked, AttemptsCounted DEF ReviseStructure, ValidationInv
  <1>6. ASSUME NEW next \in {"DATA_FLOW_REVISING", "STRUCTURAL_REVISING"}, Decide(next)
        PROVE  ValidationInv'
    BY <1>6 DEF Decide, ValidationInv, ValidationStates
  <1>7. Responsible(lastErrors) \in {"DATA_FLOW_REVISING", "STRUCTURAL_REVISING"}
    BY DEF Responsible
  <1>8. CASE IdleAttempt
    BY <1>8, AttemptsCounted DEF IdleAttempt, ValidationInv
  <1>9. CASE WorkflowRaises
    BY <1>9, ArchitectureAssumption DEF WorkflowRaises, ValidationInv
  <1>10. CASE UNCHANGED validationVars
    BY <1>10 DEF validationVars, ValidationInv
  <1> QED BY <1>1, <1>2, <1>3, <1>4, <1>5, <1>6, <1>7, <1>8, <1>9, <1>10, Zenon
          DEF ValidationNext, DecidedByAgent, DecidedByErrors

\* The invariant is of the types.
LEMMA ValidationTyped == ValidationInv => ValidationTypeOK
  BY DEF ValidationInv, ValidationTypeOK, ErrorCounts

\* A validation is completed by the check of a structure that finds nothing.
LEMMA CompletedByChecks ==
    ASSUME ValidationInv, NEW components \in Structures, ChecksStructure(components),
           validationState' = "COMPLETED"
    PROVE  OwnRight(components) /\ Crossed(dataFlow, components)
  <1>1. PICK own : own = StructureErrorsOf[components]
    OBVIOUS
  <1>2. PICK errors : errors = IF Found(own) THEN own ELSE CrossErrors(dataFlow, components)
    OBVIOUS
  <1>3. /\ validationState' = CASE Found(own) -> "STRUCTURAL_REVISING"
                                [] ~Found(own) /\ Found(errors) -> "ARBITRATION"
                                [] OTHER -> "COMPLETED"
    BY ONLY <1>1, <1>2, ChecksStructure(components), Zenon DEF ChecksStructure
  <1>4. ~Found(own) /\ ~Found(errors)
    BY ONLY <1>3, validationState' = "COMPLETED"
  <1>5. OwnRight(components)
    BY <1>1, <1>4, StructureErrorsCounted
  <1>6. components \in Seq(ComponentRecords)
    BY <1>5 DEF OwnRight
  <1>7. ~Found(CrossErrors(dataFlow, components))
    BY ONLY <1>2, <1>4
  <1>8. dataFlow \in DataFlows \cup {Absent}
    BY DEF ValidationInv
  <1>9. Crossed(dataFlow, components)
    BY ONLY <1>5, <1>6, <1>7, <1>8, CrossErrorsCounted DEF OwnRight
  <1> QED BY <1>5, <1>9

\* At first no validation is completed.
LEMMA BuildableBegins == ValidationInit => CompletedIsBuildable
  BY DEF ValidationInit, CompletedIsBuildable

\* While a validation stays completed nothing changes; that it is buildable is kept.
LEMMA BuildableKept ==
    ASSUME ValidationInv, CompletedIsBuildable, [ValidationNext]_validationVars
    PROVE  CompletedIsBuildable'
  <1>1. ASSUME NEW components \in Structures, ChecksStructure(components)
        PROVE  CompletedIsBuildable'
    <2> SUFFICES ASSUME validationState' = "COMPLETED"
                 PROVE  OwnRight(structure') /\ Crossed(dataFlow', structure')
      BY Zenon DEF CompletedIsBuildable, OwnRight, Crossed
    <2>1. structure' = components /\ dataFlow' = dataFlow
      BY <1>1 DEF ChecksStructure
    <2> QED BY <1>1, <2>1, CompletedByChecks
  <1>2. ASSUME NEW flows \in DataFlows, ChecksDataFlow(flows) PROVE CompletedIsBuildable'
    <2>1. validationState' # "COMPLETED"
      BY <1>2 DEF ChecksDataFlow
    <2> QED BY <2>1 DEF CompletedIsBuildable
  <1>3. ASSUME UNCHANGED <<validationState, dataFlow, structure>> PROVE CompletedIsBuildable'
    BY <1>3 DEF CompletedIsBuildable
  <1>4. ASSUME NEW next \in {"DATA_FLOW_REVISING", "STRUCTURAL_REVISING"}, Decide(next)
        PROVE  CompletedIsBuildable'
    <2>1. validationState' # "COMPLETED"
      BY <1>4 DEF Decide
    <2> QED BY <2>1 DEF CompletedIsBuildable
  <1>5. Responsible(lastErrors) \in {"DATA_FLOW_REVISING", "STRUCTURAL_REVISING"}
    BY DEF Responsible
  <1> QED BY <1>1, <1>2, <1>3, <1>4, <1>5, Zenon
          DEF ValidationNext, validationVars, RegisterDataFlow, RegisterStructure, BeginWorkflow,
              ReviseDataFlow, ReviseStructure, DecidedByAgent, DecidedByErrors, IdleAttempt,
              WorkflowRaises

-----------------------------------------------------------------------------
(* The Air agent (AirAgent) *)

AirAgents == {s[1] : s \in Sources} \cup {"fire_agent"}
DecisionTypes ==
    {s[2] : s \in Sources} \cup {"refinement_necessity", "refinement_strategy", "complexity_intervention"}
DecisionPhases == {s[3] : s \in Sources} \cup CyclePhases \cup {"guideline"}
DecisionRecords ==
    [agent : AirAgents, type : DecisionTypes, phase : DecisionPhases, outcome : DecisionOutcomes,
     day : Nat, cleared : BOOLEAN]
FireRecords ==
    [strategy : KnownStrategies, score : Scores, success : BOOLEAN, reduction : Reductions,
     day : Nat, cleared : BOOLEAN]

\* A record is of a day that has come; it is cleared when its days are over.
InTime(rec) ==
    rec.day <= day /\ (rec.cleared => day - rec.day > Retention)

AirInv ==
    /\ day \in 0 .. MaxDay
    /\ decisions \in Seq(DecisionRecords) /\ Len(decisions) <= MaxTracked
    /\ fires \in Seq(FireRecords) /\ Len(fires) <= Len(decisions)
    /\ \A i \in 1 .. Len(decisions) : InTime(decisions[i])
    /\ \A i \in 1 .. Len(fires) : InTime(fires[i])

\* The invariant holds initially.
LEMMA AirBegins == AirInit => AirInv
  <1> SUFFICES ASSUME AirInit PROVE AirInv
    OBVIOUS
  <1>1. Len(decisions) = 0 /\ Len(fires) = 0 /\ decisions \in Seq(DecisionRecords)
        /\ fires \in Seq(FireRecords)
    BY DEF AirInit
  <1>2. day \in 0 .. MaxDay /\ 0 <= MaxTracked
    BY DaysAssumption DEF AirInit
  <1>3. (\A i \in 1 .. 0 : InTime(decisions[i])) /\ (\A i \in 1 .. 0 : InTime(fires[i]))
    OBVIOUS
  <1> QED BY <1>1, <1>2, <1>3 DEF AirInv

\* One more record of today.
LEMMA OneMore ==
    ASSUME NEW R, NEW s \in Seq(R), NEW r \in R, NEW t, t = Append(s, r), InTime(r),
           \A i \in 1 .. Len(s) : InTime(s[i])
    PROVE  /\ t \in Seq(R) /\ Len(t) = Len(s) + 1
           /\ \A i \in 1 .. Len(t) : InTime(t[i])
  <1>1. PICK n \in Nat : n = Len(s)
    OBVIOUS
  <1>2. /\ t \in Seq(R) /\ Len(t) = n + 1 /\ t[n + 1] = r
        /\ \A i \in 1 .. n : t[i] = s[i]
    BY <1>1
  <1>3. \A i \in 1 .. n + 1 : i \in 1 .. n \/ i = n + 1
    BY <1>1
  <1>4. \A i \in 1 .. n + 1 : InTime(t[i])
    BY ONLY <1>1, <1>2, <1>3, InTime(r), \A i \in 1 .. Len(s) : InTime(s[i]), Zenon
  <1> QED BY ONLY <1>1, <1>2, <1>4, Zenon

\* What is left when the days of some are over.
LEMMA ClearingKeeps ==
    ASSUME NEW R, NEW s \in Seq(R), \A r \in R : r.day \in Nat /\ [r EXCEPT !.cleared = TRUE] \in R
             /\ [r EXCEPT !.cleared = TRUE].day = r.day,
           NEW kept, day \in Nat, \A i \in 1 .. Len(s) : InTime(s[i]), NEW t, t = Cleared(s, kept)
    PROVE  /\ t \in Seq(R) /\ Len(t) = Len(s)
           /\ \A i \in 1 .. Len(t) : InTime(t[i])
  <1>1. PICK n \in Nat : n = Len(s)
    OBVIOUS
  <1>2. DOMAIN s = 1 .. n
    BY <1>1
  <1>3. \A i \in 1 .. n : s[i] \in R
    BY <1>1
  <1>4. t = [i \in 1 .. n |-> IF s[i].day < day - Retention /\ i \notin kept
                              THEN [s[i] EXCEPT !.cleared = TRUE] ELSE s[i]]
    BY <1>2, Zenon DEF Cleared
  <1>5. \A i \in 1 .. n : t[i] \in R /\ InTime(t[i])
    <2> SUFFICES ASSUME NEW i \in 1 .. n PROVE t[i] \in R /\ InTime(t[i])
      OBVIOUS
    <2>1. PICK r \in R : r = s[i] /\ InTime(r)
      BY <1>1, <1>3
    <2>2. CASE r.day < day - Retention /\ i \notin kept
      <3>1. t[i] = [r EXCEPT !.cleared = TRUE]
        BY <1>4, <2>1, <2>2
      <3>2. PICK q \in R : q = t[i] /\ q.day = r.day
        BY <3>1
      <3>3. day - r.day > Retention
        <4>1. PICK x \in Nat : x = r.day
          OBVIOUS
        <4>2. PICK y \in Nat : y = day
          OBVIOUS
        <4>3. x < y - Retention
          BY <2>2, <4>1, <4>2
        <4>4. y - x > Retention
          BY <4>3, DaysAssumption
        <4> QED BY <4>1, <4>2, <4>4
      <3> QED BY <2>1, <3>2, <3>3 DEF InTime
    <2>3. CASE ~ (r.day < day - Retention /\ i \notin kept)
      <3>1. t[i] = r
        BY <1>4, <2>1, <2>3
      <3> QED BY <2>1, <3>1
    <2> QED BY <2>2, <2>3
  <1>6. t \in [1 .. n -> R]
    BY ONLY <1>4, <1>5
  <1> HIDE <1>4
  <1>7. t \in Seq(R) /\ Len(t) = n
    BY <1>6
  <1> QED BY <1>1, <1>5, <1>7

\* A decision of today.
LEMMA Decided ==
    ASSUME AirInv, NEW a \in AirAgents, NEW y \in DecisionTypes, NEW p \in DecisionPhases,
           NEW o \in DecisionOutcomes
    PROVE  Decision(<<a, y, p>>, o) \in DecisionRecords /\ InTime(Decision(<<a, y, p>>, o))
  <1>1. Decision(<<a, y, p>>, o) =
          [agent |-> a, type |-> y, phase |-> p, outcome |-> o, day |-> day, cleared |-> FALSE]
    BY DEF Decision
  <1>2. PICK n \in Nat : n = day
    BY DaysAssumption DEF AirInv
  <1>3. PICK r : r = [agent |-> a, type |-> y, phase |-> p, outcome |-> o, day |-> n, cleared |-> FALSE]
    OBVIOUS
  <1>4. r \in DecisionRecords /\ r.day = n /\ r.cleared = FALSE
    BY ONLY <1>3, n \in Nat, a \in AirAgents, y \in DecisionTypes, p \in DecisionPhases,
            o \in DecisionOutcomes DEF DecisionRecords
  <1>5. r = Decision(<<a, y, p>>, o)
    BY ONLY <1>1, <1>2, <1>3, Zenon
  <1>6. InTime(r)
    BY <1>2, <1>4 DEF InTime
  <1> QED BY ONLY <1>4, <1>5, <1>6, Zenon

\* The same, out of a source.
LEMMA DecidedBySource ==
    ASSUME AirInv, NEW source \in Sources, NEW o \in DecisionOutcomes
    PROVE  Decision(source, o) \in DecisionRecords /\ InTime(Decision(source, o))
  <1>1. Decision(source, o) =
          [agent |-> source[1], type |-> source[2], phase |-> source[3], outcome |-> o, day |-> day,
           cleared |-> FALSE]
    BY DEF Decision
  <1>2. day \in Nat
    BY DaysAssumption DEF AirInv
  <1>3. source[1] \in AirAgents /\ source[2] \in DecisionTypes /\ source[3] \in DecisionPhases
    BY DEF AirAgents, DecisionTypes, DecisionPhases
  <1> QED BY ONLY <1>1, <1>2, <1>3, o \in DecisionOutcomes DEF DecisionRecords, InTime

\* The parts of the invariant, from what the step leaves.
LEMMA TrackedKeeps ==
    ASSUME AirInv, NEW t, decisions' = t, day' = day, t \in Seq(DecisionRecords),
           NEW n \in Nat, NEW m \in Nat, n = Len(t), n <= MaxTracked,
           \A i \in 1 .. n : InTime(t[i]),
           NEW u, fires' = u, u \in Seq(FireRecords), m = Len(u), m <= n,
           \A i \in 1 .. m : InTime(u[i])
    PROVE  AirInv'
  <1>1. \A i \in 1 .. n : InTime(t[i])'
    BY DEF InTime
  <1>2. \A i \in 1 .. m : InTime(u[i])'
    BY DEF InTime
  <1>3. (\A i \in 1 .. Len(decisions) : InTime(decisions[i]))'
    BY <1>1 DEF InTime
  <1>4. (\A i \in 1 .. Len(fires) : InTime(fires[i]))'
    BY <1>2 DEF InTime
  <1>5. Len(decisions') <= MaxTracked /\ Len(fires') <= Len(decisions')
    OBVIOUS
  <1> QED BY <1>3, <1>4, <1>5 DEF AirInv

\* A decision is tracked.
LEMMA TrackDecisionKeeps ==
    ASSUME AirInv, NEW source \in Sources, NEW o \in DecisionOutcomes, TrackDecision(source, o)
    PROVE  AirInv'
  <1>1. PICK d \in DecisionRecords : d = Decision(source, o) /\ InTime(d)
    BY DecidedBySource
  <1>2. decisions' = Append(decisions, d) /\ day' = day /\ fires' = fires /\ Len(decisions) < MaxTracked
    BY <1>1 DEF TrackDecision
  <1>3. /\ decisions \in Seq(DecisionRecords) /\ \A i \in 1 .. Len(decisions) : InTime(decisions[i])
        /\ fires \in Seq(FireRecords) /\ \A i \in 1 .. Len(fires) : InTime(fires[i])
        /\ Len(fires) <= Len(decisions)
    BY DEF AirInv
  <1>4. PICK t : t = Append(decisions, d)
    OBVIOUS
  <1>5. /\ t \in Seq(DecisionRecords) /\ Len(t) = Len(decisions) + 1
        /\ \A i \in 1 .. Len(t) : InTime(t[i])
    BY <1>1, <1>3, <1>4, OneMore
  <1>6. decisions' = t
    BY <1>2, <1>4
  <1> HIDE <1>4
  <1>7. PICK l \in Nat : l = Len(decisions)
    BY <1>3
  <1>8. PICK m \in Nat : m = Len(fires)
    BY <1>3
  <1>9. PICK n \in Nat : n = Len(t)
    BY <1>5
  <1>10. n <= MaxTracked /\ m <= n
    BY <1>2, <1>3, <1>5, <1>7, <1>8, <1>9, DaysAssumption
  <1>11. \A i \in 1 .. n : InTime(t[i])
    BY <1>5, <1>9
  <1>12. PICK u : u = fires
    OBVIOUS
  <1> QED BY <1>2, <1>3, <1>5, <1>6, <1>8, <1>9, <1>10, <1>11, <1>12, TrackedKeeps

\* Several more records of today.
LEMMA SomeMore ==
    ASSUME NEW R, NEW s \in Seq(R), NEW v \in Seq(R), NEW t, t = s \o v,
           \A i \in 1 .. Len(s) : InTime(s[i]), \A i \in 1 .. Len(v) : InTime(v[i])
    PROVE  /\ t \in Seq(R) /\ Len(t) = Len(s) + Len(v)
           /\ \A i \in 1 .. Len(t) : InTime(t[i])
  <1>1. PICK n \in Nat : n = Len(s)
    OBVIOUS
  <1>2. PICK m \in Nat : m = Len(v)
    OBVIOUS
  <1>3. /\ t \in Seq(R) /\ Len(t) = n + m
        /\ \A i \in 1 .. n : t[i] = s[i]
        /\ \A i \in 1 .. m : t[n + i] = v[i]
    BY <1>1, <1>2
  <1>4. \A i \in 1 .. n + m : InTime(t[i])
    <2> SUFFICES ASSUME NEW i \in 1 .. n + m PROVE InTime(t[i])
      OBVIOUS
    <2>1. CASE i \in 1 .. n
      BY ONLY <1>1, <1>3, <2>1, \A j \in 1 .. Len(s) : InTime(s[j]), Zenon
    <2>2. CASE i \notin 1 .. n
      <3>1. PICK j \in 1 .. m : i = n + j
        <4>1. i - n \in 1 .. m /\ i = n + (i - n)
          BY <2>2
        <4> QED BY <4>1
      <3> QED BY ONLY <1>2, <1>3, <3>1, j \in 1 .. m, \A k \in 1 .. Len(v) : InTime(v[k]), Zenon
    <2> QED BY <2>1, <2>2
  <1> QED BY ONLY <1>1, <1>2, <1>3, <1>4, Zenon

\* A refinement cycle is tracked, as one decision or two.
LEMMA TrackCycleKeeps ==
    ASSUME AirInv, NEW agent \in {s[1] : s \in Sources}, NEW phase \in CyclePhases,
           NEW necessary \in BOOLEAN, NEW o \in DecisionOutcomes,
           TrackCycle(agent, phase, necessary, o)
    PROVE  AirInv'
  <1>1. agent \in AirAgents /\ phase \in DecisionPhases
        /\ "refinement_necessity" \in DecisionTypes /\ "refinement_strategy" \in DecisionTypes
    BY DEF AirAgents, DecisionPhases, DecisionTypes
  <1>2. PICK a \in DecisionRecords : a = Decision(<<agent, "refinement_necessity", phase>>, o) /\ InTime(a)
    BY <1>1, Decided
  <1>3. PICK b \in DecisionRecords : b = Decision(<<agent, "refinement_strategy", phase>>, o) /\ InTime(b)
    BY <1>1, Decided
  <1> DEFINE count == IF necessary THEN 2 ELSE 1
  <1>4. PICK k \in 1 .. 2 : k = count
    <2>1. count \in 1 .. 2
      OBVIOUS
    <2> HIDE DEF count
    <2> QED BY <2>1
  <1>5. PICK v : v = IF necessary THEN <<a, b>> ELSE <<a>>
    OBVIOUS
  <1>6. v \in Seq(DecisionRecords) /\ Len(v) = k /\ \A i \in 1 .. Len(v) : InTime(v[i])
    <2>1. CASE necessary
      <3>1. v = <<a, b>> /\ k = 2
        BY <1>4, <1>5, <2>1
      <3>2. v \in Seq(DecisionRecords) /\ Len(v) = 2 /\ v[1] = a /\ v[2] = b
        BY <3>1
      <3>3. \A i \in 1 .. 2 : i = 1 \/ i = 2
        OBVIOUS
      <3> QED BY ONLY <1>2, <1>3, <3>1, <3>2, <3>3, Zenon
    <2>2. CASE ~ necessary
      <3>1. v = <<a>> /\ k = 1
        BY <1>4, <1>5, <2>2
      <3>2. v \in Seq(DecisionRecords) /\ Len(v) = 1 /\ v[1] = a
        BY <3>1
      <3>3. \A i \in 1 .. 1 : i = 1
        OBVIOUS
      <3> QED BY ONLY <1>2, <3>1, <3>2, <3>3, Zenon
    <2> QED BY <2>1, <2>2
  <1>7. /\ decisions' = decisions \o v /\ day' = day /\ fires' = fires
        /\ Len(decisions) + k <= MaxTracked
    BY ONLY <1>2, <1>3, <1>4, <1>5, TrackCycle(agent, phase, necessary, o), Zenon DEF TrackCycle
  <1>8. /\ decisions \in Seq(DecisionRecords) /\ \A i \in 1 .. Len(decisions) : InTime(decisions[i])
        /\ fires \in Seq(FireRecords) /\ \A i \in 1 .. Len(fires) : InTime(fires[i])
        /\ Len(fires) <= Len(decisions)
    BY DEF AirInv
  <1> HIDE <1>4, <1>5
  <1>9. PICK t : t = decisions \o v
    OBVIOUS
  <1>10. /\ t \in Seq(DecisionRecords) /\ Len(t) = Len(decisions) + Len(v)
        /\ \A i \in 1 .. Len(t) : InTime(t[i])
    BY <1>6, <1>8, <1>9, SomeMore
  <1>11. decisions' = t
    BY <1>7, <1>9, Zenon
  <1> HIDE <1>9
  <1>12. PICK l \in Nat : l = Len(decisions)
    BY <1>8
  <1>13. PICK m \in Nat : m = Len(fires)
    BY <1>8
  <1>14. PICK n \in Nat : n = Len(t)
    BY <1>10
  <1>15. n <= MaxTracked /\ m <= n
    BY <1>6, <1>7, <1>8, <1>10, <1>12, <1>13, <1>14, DaysAssumption
  <1>16. \A i \in 1 .. n : InTime(t[i])
    BY <1>10, <1>14
  <1>17. PICK u : u = fires
    OBVIOUS
  <1> QED BY <1>7, <1>8, <1>10, <1>11, <1>13, <1>14, <1>15, <1>16, <1>17, TrackedKeeps

\* An intervention of the Fire agent is tracked, as a decision and an intervention.
LEMMA TrackFireKeeps ==
    ASSUME AirInv, NEW strategy \in KnownStrategies, NEW score \in Scores,
           NEW reduction \in Reductions, NEW saved \in BOOLEAN,
           TrackFire(strategy, score, reduction, saved)
    PROVE  AirInv'
  <1>1. PICK d \in DecisionRecords :
          d = Decision(<<"fire_agent", "complexity_intervention", "guideline">>, "unknown") /\ InTime(d)
    <2>1. /\ "fire_agent" \in AirAgents /\ "complexity_intervention" \in DecisionTypes
          /\ "guideline" \in DecisionPhases /\ "unknown" \in DecisionOutcomes
      BY DEF AirAgents, DecisionTypes, DecisionPhases, DecisionOutcomes
    <2> QED BY <2>1, Decided
  <1>2. PICK today \in Nat : today = day
    BY DaysAssumption DEF AirInv
  <1>3. PICK b \in BOOLEAN : b = (reduction > 0)
    <2>1. (reduction > 0) \in BOOLEAN
      OBVIOUS
    <2> QED BY <2>1, Zenon
  <1>4. PICK f : f = [strategy |-> strategy, score |-> score, success |-> b, reduction |-> reduction,
                      day |-> today, cleared |-> FALSE]
    OBVIOUS
  <1>5. f \in FireRecords /\ f.day = today /\ f.cleared = FALSE
    BY ONLY <1>4, strategy \in KnownStrategies, score \in Scores, b \in BOOLEAN,
            reduction \in Reductions, today \in Nat DEF FireRecords
  <1>6. InTime(f)
    BY <1>2, <1>5 DEF InTime
  <1>7. /\ fires' = IF saved THEN Append(fires, f) ELSE fires
        /\ decisions' = Append(decisions, d) /\ day' = day /\ Len(decisions) < MaxTracked
    BY ONLY <1>1, <1>2, <1>3, <1>4, TrackFire(strategy, score, reduction, saved), Zenon DEF TrackFire
  <1> HIDE <1>3, <1>4
  <1>8. /\ decisions \in Seq(DecisionRecords) /\ \A i \in 1 .. Len(decisions) : InTime(decisions[i])
        /\ fires \in Seq(FireRecords) /\ \A i \in 1 .. Len(fires) : InTime(fires[i])
        /\ Len(fires) <= Len(decisions)
    BY DEF AirInv
  <1>9. PICK t : t = Append(decisions, d)
    OBVIOUS
  <1>10. /\ t \in Seq(DecisionRecords) /\ Len(t) = Len(decisions) + 1
         /\ \A i \in 1 .. Len(t) : InTime(t[i])
    BY <1>1, <1>8, <1>9, OneMore
  <1>11. decisions' = t
    BY <1>7, <1>9, Zenon
  <1> HIDE <1>9
  <1>12. PICK g : g = Append(fires, f)
    OBVIOUS
  <1>13. /\ g \in Seq(FireRecords) /\ Len(g) = Len(fires) + 1
         /\ \A i \in 1 .. Len(g) : InTime(g[i])
    BY <1>5, <1>6, <1>8, <1>12, OneMore
  <1>14. fires' = IF saved THEN g ELSE fires
    BY <1>7, <1>12, Zenon
  <1> HIDE <1>12
  <1>15. PICK u : u = IF saved THEN g ELSE fires
    OBVIOUS
  <1>16. /\ u \in Seq(FireRecords) /\ Len(u) <= Len(t) /\ \A i \in 1 .. Len(u) : InTime(u[i])
    <2>1. PICK l \in Nat : l = Len(decisions)
      BY <1>8
    <2>2. PICK m \in Nat : m = Len(fires)
      BY <1>8
    <2>3. m + 1 <= l + 1 /\ m <= l + 1
      BY <1>8, <2>1, <2>2
    <2>4. Len(g) <= Len(t) /\ Len(fires) <= Len(t)
      BY ONLY <1>10, <1>13, <2>1, <2>2, <2>3, Zenon
    <2> QED BY ONLY <1>8, <1>13, <1>15, <2>4, Zenon
  <1>17. PICK l \in Nat : l = Len(decisions)
    BY <1>8
  <1>18. PICK m \in Nat : m = Len(u)
    BY <1>16
  <1>19. PICK n \in Nat : n = Len(t)
    BY <1>10
  <1>20. n <= MaxTracked /\ m <= n
    BY <1>7, <1>10, <1>16, <1>17, <1>18, <1>19, DaysAssumption
  <1>21. (\A i \in 1 .. n : InTime(t[i])) /\ (\A i \in 1 .. m : InTime(u[i]))
    BY <1>10, <1>16, <1>18, <1>19
  <1>22. fires' = u /\ day' = day
    BY <1>7, <1>14, <1>15, Zenon
  <1> HIDE <1>15
  <1> QED BY <1>10, <1>11, <1>16, <1>18, <1>19, <1>20, <1>21, <1>22, TrackedKeeps

\* A record that is cleared is still one.
LEMMA RecordsClear ==
    /\ \A r \in DecisionRecords : /\ r.day \in Nat /\ [r EXCEPT !.cleared = TRUE] \in DecisionRecords
                                  /\ [r EXCEPT !.cleared = TRUE].day = r.day
    /\ \A r \in FireRecords : /\ r.day \in Nat /\ [r EXCEPT !.cleared = TRUE] \in FireRecords
                              /\ [r EXCEPT !.cleared = TRUE].day = r.day
  BY DEF DecisionRecords, FireRecords

\* Old records are cleared: what is marked is old enough.
LEMMA ClearOldHistoryKeeps ==
    ASSUME AirInv, NEW kept, ClearOldHistory(kept)
    PROVE  AirInv'
  <1>1. /\ decisions \in Seq(DecisionRecords) /\ \A i \in 1 .. Len(decisions) : InTime(decisions[i])
        /\ fires \in Seq(FireRecords) /\ \A i \in 1 .. Len(fires) : InTime(fires[i])
        /\ Len(fires) <= Len(decisions) /\ Len(decisions) <= MaxTracked /\ day \in Nat
    BY DaysAssumption DEF AirInv
  <1>2. PICK t : t = Cleared(decisions, kept)
    OBVIOUS
  <1>3. PICK u : u = Cleared(fires, {})
    OBVIOUS
  <1>4. t \in Seq(DecisionRecords) /\ Len(t) = Len(decisions) /\ \A i \in 1 .. Len(t) : InTime(t[i])
    BY <1>1, <1>2, RecordsClear, ClearingKeeps
  <1>5. u \in Seq(FireRecords) /\ Len(u) = Len(fires) /\ \A i \in 1 .. Len(u) : InTime(u[i])
    BY <1>1, <1>3, RecordsClear, ClearingKeeps
  <1>6. decisions' = t /\ fires' = u /\ day' = day
    BY <1>2, <1>3 DEF ClearOldHistory
  <1> HIDE <1>2, <1>3
  <1>7. PICK n \in Nat : n = Len(t)
    BY <1>4
  <1>8. PICK m \in Nat : m = Len(u)
    BY <1>5
  <1>9. n <= MaxTracked /\ m <= n
    BY <1>1, <1>4, <1>5, <1>7, <1>8
  <1>10. (\A i \in 1 .. n : InTime(t[i])) /\ (\A i \in 1 .. m : InTime(u[i]))
    BY <1>4, <1>5, <1>7, <1>8
  <1> QED BY <1>4, <1>5, <1>6, <1>7, <1>8, <1>9, <1>10, TrackedKeeps

\* A day passes: records grow older.
LEMMA DayPassesKeeps ==
    ASSUME AirInv, DayPasses
    PROVE  AirInv'
  <1>1. PICK n \in 0 .. MaxDay : n = day
    BY DEF AirInv
  <1>2. day' = n + 1 /\ n < MaxDay /\ decisions' = decisions /\ fires' = fires
    BY <1>1 DEF DayPasses
  <1>3. day' \in 0 .. MaxDay
    BY <1>2, DaysAssumption
  <1>4. ASSUME NEW r, r.day \in Nat, InTime(r) PROVE InTime(r)'
    <2>1. PICK x \in Nat : x = r.day
      BY <1>4
    <2>2. x <= n /\ (r.cleared => n - x > Retention)
      BY <1>1, <1>4, <2>1 DEF InTime
    <2>3. x <= n + 1 /\ (r.cleared => n + 1 - x > Retention)
      BY <2>2, DaysAssumption
    <2> QED BY <1>2, <2>1, <2>3 DEF InTime
  <1>5. \A i \in 1 .. Len(decisions) : InTime(decisions[i])'
    <2>1. \A i \in 1 .. Len(decisions) : decisions[i].day \in Nat /\ InTime(decisions[i])
      <3>1. \A i \in 1 .. Len(decisions) : decisions[i] \in DecisionRecords /\ InTime(decisions[i])
        BY DEF AirInv
      <3> QED BY <3>1, RecordsClear, Zenon
    <2> QED BY <2>1, <1>2, <1>4
  <1>6. \A i \in 1 .. Len(fires) : InTime(fires[i])'
    <2>1. \A i \in 1 .. Len(fires) : fires[i].day \in Nat /\ InTime(fires[i])
      <3>1. \A i \in 1 .. Len(fires) : fires[i] \in FireRecords /\ InTime(fires[i])
        BY DEF AirInv
      <3> QED BY <3>1, RecordsClear, Zenon
    <2> QED BY <2>1, <1>2, <1>4
  <1> QED BY <1>2, <1>3, <1>5, <1>6 DEF AirInv

\* Every step of the agent keeps its invariant.
LEMMA AirKept == AirInv /\ [AirNext]_airVars => AirInv'
  <1> SUFFICES ASSUME AirInv, [AirNext]_airVars PROVE AirInv'
    OBVIOUS
  <1>1. "success" \in DecisionOutcomes /\ "failure" \in DecisionOutcomes
    BY DEF DecisionOutcomes
  <1>2. ASSUME NEW source \in Sources, NEW o \in {"success", "failure"}, TrackDecision(source, o)
        PROVE  AirInv'
    BY <1>1, <1>2, TrackDecisionKeeps
  <1>3. ASSUME NEW agent \in {s[1] : s \in Sources}, NEW phase \in CyclePhases,
               NEW necessary \in BOOLEAN, NEW o \in {"success", "failure"},
               TrackCycle(agent, phase, necessary, o)
        PROVE  AirInv'
    BY <1>1, <1>3, TrackCycleKeeps
  <1>4. ASSUME NEW strategy \in KnownStrategies, NEW score \in Scores, NEW reduction \in Reductions,
               NEW saved \in BOOLEAN, TrackFire(strategy, score, reduction, saved)
        PROVE  AirInv'
    BY <1>4, TrackFireKeeps
  <1>5. ASSUME NEW kept, ClearOldHistory(kept) PROVE AirInv'
    BY <1>5, ClearOldHistoryKeeps
  <1>6. CASE DayPasses
    BY <1>6, DayPassesKeeps
  <1>7. CASE UNCHANGED airVars
    BY <1>7 DEF airVars, AirInv, InTime
  <1> QED BY <1>2, <1>3, <1>4, <1>5, <1>6, <1>7, Zenon DEF AirNext

\* The invariant is of the types, and what is young was not cleared.
LEMMA AirTold == AirInv => AirTypeOK /\ KeptWhileYoung
  <1> SUFFICES ASSUME AirInv PROVE AirTypeOK /\ KeptWhileYoung
    OBVIOUS
  <1>1. DOMAIN decisions = 1 .. Len(decisions) /\ DOMAIN fires = 1 .. Len(fires)
    BY DEF AirInv
  <1>2. \A i \in 1 .. Len(decisions) : decisions[i] \in DecisionRecords /\ InTime(decisions[i])
    BY DEF AirInv
  <1>3. \A i \in 1 .. Len(fires) : fires[i] \in FireRecords /\ InTime(fires[i])
    BY DEF AirInv
  <1>4. AirTypeOK
    BY <1>1, <1>2, <1>3 DEF AirInv, AirTypeOK, DecisionRecords, InTime
  <1>5. KeptWhileYoung
    BY <1>1, <1>2, <1>3 DEF KeptWhileYoung, InTime
  <1> QED BY <1>4, <1>5

\* Numbers that grow, as the positions of records that a reading keeps; and what they are.
Growing(s) ==
    s \in Seq(Nat) /\ \A i, j \in 1 .. Len(s) : i < j => s[i] < s[j]
Holds(s, x) == \E i \in 1 .. Len(s) : s[i] = x

\* One more number, larger than all.
LEMMA GrowsOn ==
    ASSUME NEW s, Growing(s), NEW x \in Nat, \A i \in 1 .. Len(s) : s[i] < x,
           NEW t, t = Append(s, x)
    PROVE  /\ Growing(t) /\ Len(t) = Len(s) + 1
           /\ \A y : Holds(t, y) <=> Holds(s, y) \/ y = x
  <1>1. PICK n \in Nat : n = Len(s)
    BY DEF Growing
  <1>2. /\ t \in Seq(Nat) /\ Len(t) = n + 1 /\ t[n + 1] = x /\ \A i \in 1 .. n : t[i] = s[i]
    BY <1>1 DEF Growing
  <1>3. \A i \in 1 .. n + 1 : i \in 1 .. n \/ i = n + 1
    OBVIOUS
  <1>4. n + 1 \in 1 .. n + 1 /\ \A i \in 1 .. n : i \in 1 .. n + 1
    OBVIOUS
  <1>5. \A i, j \in 1 .. n + 1 : i < j => t[i] < t[j]
    <2> SUFFICES ASSUME NEW i \in 1 .. n + 1, NEW j \in 1 .. n + 1, i < j PROVE t[i] < t[j]
      OBVIOUS
    <2>1. i \in 1 .. n
      OBVIOUS
    <2>2. CASE j = n + 1
      BY <1>1, <1>2, <2>1, <2>2
    <2>3. CASE j \in 1 .. n
      BY <1>1, <1>2, <2>1, <2>3 DEF Growing
    <2> QED BY ONLY <1>3, <2>2, <2>3, j \in 1 .. n + 1
  <1>6. \A y : Holds(t, y) <=> Holds(s, y) \/ y = x
    BY ONLY <1>1, <1>2, <1>3, <1>4, Zenon DEF Holds
  <1> QED BY <1>1, <1>2, <1>5, <1>6 DEF Growing

AmongIs(s, S, n, t) ==
    /\ Growing(t) /\ Len(t) <= n
    /\ \A y : Holds(t, y) <=> y \in S /\ \E i \in 1 .. n : s[i] = y

\* What a sequence that grows has of a set grows, and is what it holds of the set.
LEMMA AmongRight ==
    ASSUME NEW s, Growing(s), NEW S
    PROVE  AmongIs(s, S, Len(s), Among(s, S))
  <1> DEFINE m == Len(s)
             kept[n \in 0 .. Len(s)] ==
                 IF n = 0 THEN <<>>
                 ELSE IF s[n] \in S THEN Append(kept[n - 1], s[n]) ELSE kept[n - 1]
             F(f) == [n \in 0 .. m |->
                        IF n = 0 THEN <<>>
                        ELSE IF s[n] \in S THEN Append(f[n - 1], s[n]) ELSE f[n - 1]]
             g == [n \in 1 .. m |-> [k \in Seq(Nat) |-> IF s[n] \in S THEN Append(k, s[n]) ELSE k]]
  <1>1. kept = CHOOSE f : f = F(f)
    BY DEF kept
  <1>2. Among(s, S) = kept[m]
    BY DEF Among
  <1>3. m \in Nat /\ \A i \in 1 .. m : s[i] \in Nat
    BY DEF Growing
  <1>4. \A i, j \in 1 .. m : i < j => s[i] < s[j]
    BY DEF Growing
  <1> HIDE DEF m, kept
  <1>5. \E f : f = F(f)
    <2>1. \A n \in 1 .. m : \A k \in Seq(Nat) : Append(k, s[n]) \in Seq(Nat)
      BY <1>3
    <2>2. g \in [1 .. m -> [Seq(Nat) -> Seq(Nat)]] /\ <<>> \in Seq(Nat)
      BY <2>1
    <2>3. PICK h : Computes(h, Seq(Nat), <<>>, m, g)
      <3> HIDE DEF g
      <3> QED BY <1>3, <2>2, Computed
    <2>4. h \in [0 .. m -> Seq(Nat)] /\ h[0] = <<>> /\ \A n \in 1 .. m : h[n] = g[n][h[n - 1]]
      <3> HIDE DEF g
      <3> QED BY ONLY <2>3 DEF Computes
    <2>5. \A n \in 1 .. m : h[n - 1] \in Seq(Nat)
      <3>1. \A n \in 1 .. m : n - 1 \in 0 .. m
        BY <1>3
      <3> HIDE DEF g
      <3> QED BY ONLY <2>4, <3>1
    <2>6. \A n \in 1 .. m : h[n] = IF s[n] \in S THEN Append(h[n - 1], s[n]) ELSE h[n - 1]
      BY ONLY <2>4, <2>5
    <2>7. \A n \in 0 .. m : n = 0 \/ n \in 1 .. m
      BY <1>3
    <2>8. \A n \in 0 .. m : h[n] = IF n = 0 THEN <<>>
                                   ELSE IF s[n] \in S THEN Append(h[n - 1], s[n]) ELSE h[n - 1]
      BY ONLY <2>4, <2>6, <2>7
    <2>9. h = [n \in 0 .. m |-> h[n]]
      <3> HIDE DEF g
      <3> QED BY ONLY <2>4
    <2>10. h = F(h)
      BY ONLY <2>8, <2>9
    <2> HIDE DEF F
    <2> QED BY <2>10
  <1>6. kept = F(kept)
    <2> HIDE DEF F
    <2> QED BY ONLY <1>1, <1>5
  <1>7. /\ kept[0] = <<>>
        /\ \A n \in 1 .. m : kept[n] = IF s[n] \in S THEN Append(kept[n - 1], s[n]) ELSE kept[n - 1]
    <2>1. \A n \in 0 .. m : kept[n] = IF n = 0 THEN <<>>
                             ELSE IF s[n] \in S THEN Append(kept[n - 1], s[n]) ELSE kept[n - 1]
      BY ONLY <1>6
    <2>2. 0 \in 0 .. m /\ \A n \in 1 .. m : n \in 0 .. m /\ n # 0
      BY <1>3
    <2> QED BY ONLY <2>1, <2>2
  <1> DEFINE T == {n \in 0 .. m : AmongIs(s, S, n, kept[n])}
  <1>8. 0 \in T
    <2>1. Len(kept[0]) = 0 /\ kept[0] \in Seq(Nat)
      BY <1>7
    <2>2. AmongIs(s, S, 0, kept[0])
      BY <2>1 DEF AmongIs, Growing, Holds
    <2> QED BY <1>3, <2>2
  <1>9. ASSUME NEW n \in 0 .. m - 1, n \in T PROVE n + 1 \in T
    <2>1. n \in Nat /\ n + 1 \in 1 .. m /\ (n + 1) - 1 = n /\ n + 1 \in 0 .. m
      BY <1>3
    <2>2. PICK x \in Nat : x = s[n + 1]
      BY <1>3, <2>1
    <2>3. PICK t : t = kept[n]
      OBVIOUS
    <2>4. PICK q : q = kept[n + 1]
      OBVIOUS
    <2>5. q = IF x \in S THEN Append(t, x) ELSE t
      BY ONLY <1>7, <2>1, <2>2, <2>3, <2>4
    <2>6. AmongIs(s, S, n, t)
      BY <1>9, <2>3
    <2>7. PICK l \in Nat : l = Len(t) /\ l <= n
      BY <2>6 DEF AmongIs, Growing
    <2>8. Growing(t) /\ \A y : Holds(t, y) <=> y \in S /\ \E i \in 1 .. n : s[i] = y
      BY <2>6 DEF AmongIs
    <2>9. \A i \in 1 .. n + 1 : i \in 1 .. n \/ i = n + 1
      BY <2>1
    <2>10. n + 1 \in 1 .. n + 1 /\ \A i \in 1 .. n : i \in 1 .. n + 1
      BY <2>1
    <2>11. \A y : (\E i \in 1 .. n + 1 : s[i] = y) <=> (\E i \in 1 .. n : s[i] = y) \/ y = x
      BY ONLY <2>2, <2>9, <2>10
    <2>12. CASE x \in S
      <3>1. \A i \in 1 .. Len(t) : t[i] < x
        <4> SUFFICES ASSUME NEW i \in 1 .. Len(t) PROVE t[i] < x
          OBVIOUS
        <4>1. Holds(t, t[i])
          BY DEF Holds
        <4>2. PICK j \in 1 .. n : s[j] = t[i]
          BY <2>8, <4>1
        <4>3. j \in 1 .. m /\ n + 1 \in 1 .. m /\ j < n + 1
          BY <1>3, <2>1
        <4> QED BY <1>4, <2>2, <4>2, <4>3
      <3>2. q = Append(t, x)
        BY <2>5, <2>12
      <3>3. /\ Growing(q) /\ Len(q) = Len(t) + 1 /\ \A y : Holds(q, y) <=> Holds(t, y) \/ y = x
        BY <2>8, <3>1, <3>2, GrowsOn
      <3>4. Len(q) <= n + 1
        BY <2>1, <2>7, <3>3
      <3>5. \A y : Holds(q, y) <=> y \in S /\ \E i \in 1 .. n + 1 : s[i] = y
        BY ONLY <2>8, <2>11, <2>12, <3>3
      <3> QED BY <2>1, <2>4, <3>3, <3>4, <3>5 DEF AmongIs
    <2>13. CASE x \notin S
      <3>1. q = t
        BY <2>5, <2>13
      <3>2. Len(q) <= n + 1
        BY <2>1, <2>7, <3>1
      <3>3. \A y : Holds(q, y) <=> y \in S /\ \E i \in 1 .. n + 1 : s[i] = y
        BY ONLY <2>8, <2>11, <2>13, <3>1
      <3> QED BY <2>1, <2>4, <2>8, <3>1, <3>2, <3>3 DEF AmongIs
    <2> QED BY <2>12, <2>13
  <1>10. m \in T
    <2> HIDE DEF T
    <2>1. 0 .. m \subseteq T
      BY <1>3, <1>8, <1>9, PassedOn
    <2> QED BY <1>3, <2>1
  <1> QED BY <1>2, <1>10 DEF m

\* The first of what grows.
LEMMA FirstGrow ==
    ASSUME NEW s, Growing(s), NEW n \in Nat, NEW t, t = FirstOf(s, n)
    PROVE  /\ Growing(t) /\ Len(t) <= n /\ \A y : Holds(t, y) => Holds(s, y)
           /\ Len(s) <= n => \A y : Holds(s, y) => Holds(t, y)
  <1>1. PICK l \in Nat : l = Len(s)
    BY DEF Growing
  <1>2. PICK k \in Nat : k = IF l < n THEN l ELSE n
    OBVIOUS
  <1>3. t = SubSeq(s, 1, k) /\ k <= l /\ k <= n
    BY <1>1, <1>2 DEF FirstOf
  <1>4. \A i \in 1 .. k : i \in 1 .. l
    BY <1>3
  <1>5. t \in Seq(Nat) /\ Len(t) = k /\ \A i \in 1 .. k : t[i] = s[i]
    BY <1>1, <1>3 DEF Growing
  <1>6. \A i, j \in 1 .. l : i < j => s[i] < s[j]
    BY <1>1 DEF Growing
  <1>7. Growing(t)
    <2>1. \A i, j \in 1 .. k : i < j => t[i] < t[j]
      BY ONLY <1>4, <1>5, <1>6
    <2> QED BY ONLY <1>5, <2>1 DEF Growing
  <1>8. \A y : Holds(t, y) => Holds(s, y)
    BY ONLY <1>1, <1>4, <1>5, Zenon DEF Holds
  <1>9. l <= n => k = l
    BY <1>2
  <1>10. l <= n => \A y : Holds(s, y) => Holds(t, y)
    BY ONLY <1>1, <1>5, <1>9, Zenon DEF Holds
  <1> QED BY <1>1, <1>3, <1>5, <1>7, <1>8, <1>10

\* The positions of records grow.
LEMMA PositionsGrow ==
    ASSUME NEW R, NEW s \in Seq(R)
    PROVE  /\ Growing(Positions(s)) /\ Len(Positions(s)) = Len(s)
           /\ \A y : Holds(Positions(s), y) <=> y \in 1 .. Len(s)
  <1>1. PICK n \in Nat : n = Len(s)
    OBVIOUS
  <1>2. PICK p : p = [i \in 1 .. n |-> i]
    OBVIOUS
  <1>3. p \in Seq(Nat) /\ Len(p) = n /\ \A i \in 1 .. n : p[i] = i
    BY <1>2
  <1>4. p = Positions(s)
    BY <1>1, <1>2 DEF Positions
  <1>5. Growing(p)
    BY <1>3 DEF Growing
  <1>6. \A y : Holds(p, y) <=> y \in 1 .. n
    BY ONLY <1>3 DEF Holds
  <1> QED BY <1>1, <1>3, <1>4, <1>5, <1>6

\* As many numbers grow at most as there are to be held.
LEMMA GrowingCounted ==
    ASSUME NEW s, Growing(s), NEW S, IsFiniteSet(S), \A y : Holds(s, y) => y \in S
    PROVE  Len(s) <= Cardinality(S)
  <1>1. PICK n \in Nat : n = Len(s)
    BY DEF Growing
  <1>2. PICK f : f = [i \in 1 .. n |-> s[i]]
    OBVIOUS
  <1>3. \A i \in 1 .. n : s[i] \in S
    BY <1>1 DEF Holds
  <1>4. \A i, j \in 1 .. n : s[i] = s[j] => i = j
    <2> SUFFICES ASSUME NEW i \in 1 .. n, NEW j \in 1 .. n, i < j PROVE s[i] # s[j]
      OBVIOUS
    <2>1. s[i] < s[j] /\ s[i] \in Nat /\ s[j] \in Nat
      BY <1>1 DEF Growing
    <2> QED BY <2>1
  <1>5. f \in Injection(1 .. n, S)
    BY <1>2, <1>3, <1>4 DEF Injection, IsInjective
  <1>6. Cardinality(1 .. n) <= Cardinality(S)
    BY <1>5, FS_Injection
  <1>7. Cardinality(1 .. n) = n
    BY FS_Interval
  <1> QED BY <1>1, <1>6, <1>7

\* What grows, the last first.
LEMMA Reversed ==
    ASSUME NEW s, Growing(s), NEW t, t = Reverse(s)
    PROVE  /\ t \in Seq(Nat) /\ Len(t) = Len(s) /\ \A y : Holds(t, y) <=> Holds(s, y)
           /\ \A i, j \in 1 .. Len(t) : i < j => t[j] < t[i]
  <1>1. PICK n \in Nat : n = Len(s)
    BY DEF Growing
  <1>2. \A i \in 1 .. n : n - i + 1 \in 1 .. n /\ n - (n - i + 1) + 1 = i
    BY <1>1
  <1>3. t = [i \in 1 .. n |-> s[n - i + 1]]
    BY <1>1 DEF Reverse
  <1>4. \A i \in 1 .. n : s[i] \in Nat
    BY <1>1 DEF Growing
  <1>5. t \in Seq(Nat) /\ Len(t) = n
    BY ONLY <1>2, <1>3, <1>4, n \in Nat
  <1>6. \A i \in 1 .. n : t[i] = s[n - i + 1]
    BY <1>3
  <1>7. \A i \in 1 .. n : t[n - i + 1] = s[i]
    BY ONLY <1>2, <1>6
  <1>8. \A y : Holds(t, y) <=> Holds(s, y)
    BY ONLY <1>1, <1>2, <1>5, <1>6, <1>7, Zenon DEF Holds
  <1>9. \A i, j \in 1 .. n : i < j => t[j] < t[i]
    <2> SUFFICES ASSUME NEW i \in 1 .. n, NEW j \in 1 .. n, i < j PROVE t[j] < t[i]
      OBVIOUS
    <2>1. PICK a \in 1 .. n : a = n - i + 1
      BY <1>2
    <2>2. PICK b \in 1 .. n : b = n - j + 1
      BY <1>2
    <2>3. b < a
      BY <2>1, <2>2
    <2>4. s[b] < s[a]
      BY <1>1, <2>3 DEF Growing
    <2> QED BY <1>6, <2>1, <2>2, <2>4
  <1> QED BY <1>1, <1>5, <1>8, <1>9

\* Days pass while decisions are written.
DaysInOrder ==
    \A i, j \in 1 .. Len(decisions) : i < j => decisions[i].day <= decisions[j].day

\* What a history of decisions holds.
HistoryRight(h, wanted, unreadable) ==
    /\ h \in Seq(Nat) /\ Len(h) <= HistoryLimit
    /\ \A i, j \in 1 .. Len(h) : i < j => h[j] < h[i]
    /\ \A y : Holds(h, y) =>
            y \in wanted /\ y \in 1 .. Len(decisions) /\ Recent(decisions[y]) /\ y \notin unreadable
    /\ Len(decisions) <= 2 * HistoryLimit
        /\ Cardinality({y \in wanted : Recent(decisions[y])}) <= HistoryLimit =>
            \A y \in wanted : Recent(decisions[y]) /\ y \notin unreadable => Holds(h, y)

\* A reading of the history comes to that.
LEMMA HistoryIsRight ==
    ASSUME AirInv, NEW wanted, wanted \subseteq 1 .. Len(decisions), NEW unreadable
    PROVE  HistoryRight(DecisionHistory(wanted, unreadable), wanted, unreadable)
  <1>1. PICK n \in Nat : n = Len(decisions) /\ DOMAIN decisions = 1 .. n
    BY DEF AirInv
  <1>2. PICK p : p = Positions(decisions)
    OBVIOUS
  <1>3. Growing(p) /\ Len(p) = n /\ \A y : Holds(p, y) <=> y \in 1 .. n
    BY <1>1, <1>2, PositionsGrow DEF AirInv
  <1>4. PICK R : R = {i \in 1 .. n : Recent(decisions[i])} \ unreadable
    OBVIOUS
  <1>5. PICK keys : keys = Among(p, R)
    OBVIOUS
  <1>6. keys = DecisionKeys(unreadable)
    BY ONLY <1>1, <1>2, <1>4, <1>5, Zenon DEF DecisionKeys
  <1>7. AmongIs(p, R, n, keys)
    BY <1>3, <1>5, AmongRight
  <1>8. Growing(keys) /\ Len(keys) <= n /\ \A y : Holds(keys, y) <=> y \in R
    <2>1. \A y : (\E i \in 1 .. n : p[i] = y) <=> y \in 1 .. n
      BY ONLY <1>3 DEF Holds
    <2> QED BY ONLY <1>4, <1>7, <2>1 DEF AmongIs
  <1>9. HistoryLimit \in Nat /\ 2 * HistoryLimit \in Nat
    BY DaysAssumption
  <1>10. PICK looked : looked = FirstOf(keys, 2 * HistoryLimit)
    OBVIOUS
  <1>11. /\ Growing(looked) /\ \A y : Holds(looked, y) => Holds(keys, y)
         /\ Len(keys) <= 2 * HistoryLimit => \A y : Holds(keys, y) => Holds(looked, y)
    BY <1>8, <1>9, <1>10, FirstGrow
  <1>12. PICK matching : matching = Among(looked, wanted)
    OBVIOUS
  <1>13. AmongIs(looked, wanted, Len(looked), matching)
    BY <1>11, <1>12, AmongRight
  <1>14. Growing(matching) /\ \A y : Holds(matching, y) <=> y \in wanted /\ Holds(looked, y)
    BY ONLY <1>13 DEF AmongIs, Holds
  <1>15. PICK first : first = FirstOf(matching, HistoryLimit)
    OBVIOUS
  <1>16. /\ Growing(first) /\ Len(first) <= HistoryLimit
         /\ \A y : Holds(first, y) => Holds(matching, y)
         /\ Len(matching) <= HistoryLimit => \A y : Holds(matching, y) => Holds(first, y)
    BY <1>9, <1>14, <1>15, FirstGrow
  <1>17. PICK h : h = Reverse(first)
    OBVIOUS
  <1>18. h = DecisionHistory(wanted, unreadable)
    BY ONLY <1>6, <1>10, <1>12, <1>15, <1>17, Zenon DEF DecisionHistory
  <1>19. /\ h \in Seq(Nat) /\ Len(h) = Len(first) /\ \A y : Holds(h, y) <=> Holds(first, y)
         /\ \A i, j \in 1 .. Len(h) : i < j => h[j] < h[i]
    BY <1>16, <1>17, Reversed
  <1>20. \A y : Holds(matching, y) => y \in wanted /\ y \in R
    BY ONLY <1>8, <1>11, <1>14
  <1>21. ASSUME n <= 2 * HistoryLimit,
                Cardinality({y \in wanted : Recent(decisions[y])}) <= HistoryLimit,
                NEW y \in wanted, Recent(decisions[y]), y \notin unreadable
         PROVE  Holds(h, y)
    <2>1. PICK W : W = {x \in wanted : Recent(decisions[x])}
      OBVIOUS
    <2>2. IsFiniteSet(W)
      <3>1. IsFiniteSet(1 .. n)
        BY FS_Interval
      <3>2. W \subseteq 1 .. n
        BY <1>1, <2>1
      <3> QED BY ONLY <3>1, <3>2, FS_Subset
    <2>3. \A x : Holds(matching, x) => x \in W
      BY ONLY <1>4, <1>20, <2>1
    <2>4. Len(matching) <= Cardinality(W)
      BY <1>14, <2>2, <2>3, GrowingCounted
    <2>5. Cardinality(W) \in Nat /\ Len(matching) \in Nat /\ Len(keys) \in Nat
      BY <1>8, <1>14, <2>2, FS_CardinalityType DEF Growing
    <2>6. Len(matching) <= HistoryLimit
      BY ONLY <1>9, <1>21, <2>1, <2>4, <2>5
    <2>7. Len(keys) <= 2 * HistoryLimit
      BY ONLY <1>8, <1>9, <1>21, <2>5, n \in Nat
    <2>8. y \in R
      BY <1>1, <1>4, <1>21
    <2> QED BY ONLY <1>8, <1>11, <1>14, <1>16, <1>19, <2>6, <2>7, <2>8, y \in wanted
  <1>22. \A y : Holds(h, y) => y \in wanted /\ y \in 1 .. n /\ Recent(decisions[y]) /\ y \notin unreadable
    BY ONLY <1>4, <1>16, <1>19, <1>20
  <1>23. Len(h) <= HistoryLimit
    BY <1>16, <1>19
  <1> QED BY <1>1, <1>18, <1>19, <1>21, <1>22, <1>23 DEF HistoryRight

\* So does what is asked of a history.
LEMMA HistoryTold ==
    ASSUME AirInv, DaysInOrder, NEW wanted, wanted \subseteq 1 .. Len(decisions), NEW unreadable
    PROVE  HistoryOf(wanted, unreadable)
  <1>1. PICK found : found = DecisionHistory(wanted, unreadable)
    OBVIOUS
  <1>2. HistoryRight(found, wanted, unreadable)
    BY <1>1, HistoryIsRight
  <1>3. PICK n \in Nat : n = Len(decisions)
    BY DEF AirInv
  <1>4. PICK l \in Nat : l = Len(found) /\ DOMAIN found = 1 .. l
    BY <1>2 DEF HistoryRight
  <1>5. PICK recent : recent = {i \in wanted : ~ decisions[i].cleared /\ day - decisions[i].day <= Lookback}
    OBVIOUS
  <1>6. \A i \in 1 .. n : decisions[i].day \in Nat /\ decisions[i] \in DecisionRecords
    <2>1. \A i \in 1 .. n : decisions[i] \in DecisionRecords
      BY <1>3 DEF AirInv
    <2> QED BY <2>1, RecordsClear
  <1>7. day \in Nat /\ Lookback \in Nat
    BY DaysAssumption DEF AirInv
  <1>8. \A i \in wanted : Recent(decisions[i]) <=> i \in recent
    <2> SUFFICES ASSUME NEW i \in wanted
                 PROVE  Recent(decisions[i]) <=> ~ decisions[i].cleared /\ day - decisions[i].day <= Lookback
      BY <1>5
    <2>1. PICK x \in Nat : x = decisions[i].day
      BY <1>3, <1>6
    <2>2. PICK y \in Nat : y = day
      BY <1>7
    <2>3. x >= y - Lookback <=> y - x <= Lookback
      BY ONLY <1>7, x \in Nat, y \in Nat
    <2> QED BY ONLY <2>1, <2>2, <2>3 DEF Recent
  <1>9. \A x : x \in ToSet(found) <=> Holds(found, x)
    BY <1>4 DEF ToSet, Holds
  <1>10. ToSet(found) \subseteq recent /\ \A x \in ToSet(found) : x \notin unreadable
    BY ONLY <1>2, <1>8, <1>9 DEF HistoryRight
  <1>11. \A i \in 1 .. l : found[i] \in Nat /\ found[i] \in 1 .. n
    <2>1. \A i \in 1 .. l : Holds(found, found[i])
      BY <1>4 DEF Holds
    <2> QED BY ONLY <1>2, <1>3, <2>1 DEF HistoryRight
  <1>12. \A i, j \in 1 .. l : i < j => found[j] < found[i]
    BY <1>2, <1>4 DEF HistoryRight
  <1>13. IsInjective(found)
    <2>1. ASSUME NEW i \in 1 .. l, NEW j \in 1 .. l, i # j PROVE found[i] # found[j]
      <3>1. i < j \/ j < i
        BY <2>1
      <3> QED BY ONLY <1>11, <1>12, <3>1, i \in 1 .. l, j \in 1 .. l
    <2> QED BY <1>4, <2>1 DEF IsInjective
  <1>14. \A a, b \in 1 .. l : a < b => decisions[found[a]].day >= decisions[found[b]].day
    <2> SUFFICES ASSUME NEW a \in 1 .. l, NEW b \in 1 .. l, a < b
                 PROVE  decisions[found[a]].day >= decisions[found[b]].day
      OBVIOUS
    <2>1. PICK i \in 1 .. n : i = found[a]
      BY <1>11
    <2>2. PICK j \in 1 .. n : j = found[b]
      BY <1>11
    <2>3. decisions[j].day <= decisions[i].day
      BY <1>3, <1>12, <2>1, <2>2 DEF DaysInOrder
    <2> QED BY <1>6, <2>1, <2>2, <2>3
  <1>15. recent = {y \in wanted : Recent(decisions[y])}
    BY <1>5, <1>8
  <1>16. Cardinality(recent) <= HistoryLimit /\ n <= 2 * HistoryLimit
           => \A y \in wanted : Recent(decisions[y]) /\ y \notin unreadable => Holds(found, y)
    BY ONLY <1>2, <1>3, <1>15 DEF HistoryRight
  <1>17. Cardinality(recent) <= HistoryLimit /\ n <= 2 * HistoryLimit
           => ToSet(found) = recent \ unreadable
    BY ONLY <1>9, <1>10, <1>15, <1>16
  <1>18. Len(found) <= HistoryLimit
    BY <1>2 DEF HistoryRight
  <1> QED BY ONLY <1>1, <1>3, <1>4, <1>5, <1>10, <1>13, <1>14, <1>17, <1>18, Zenon DEF HistoryOf

\* At first there are none.
LEMMA DaysBegin == AirInit => DaysInOrder
  <1> SUFFICES ASSUME AirInit PROVE DaysInOrder
    OBVIOUS
  <1>1. Len(decisions) = 0
    BY DEF AirInit
  <1> QED BY <1>1 DEF DaysInOrder

\* Decisions are written under the day's date, and clearing leaves their dates.
LEMMA DaysKept ==
    ASSUME AirInv, DaysInOrder, [AirNext]_airVars
    PROVE  DaysInOrder'
  <1>1. PICK n \in Nat : n = Len(decisions)
    BY DEF AirInv
  <1>2. \A i \in 1 .. n : decisions[i].day \in Nat /\ decisions[i].day <= day
    <2>1. \A i \in 1 .. n : decisions[i] \in DecisionRecords /\ InTime(decisions[i])
      BY <1>1 DEF AirInv
    <2> QED BY <2>1, RecordsClear DEF InTime
  <1>3. \A i, j \in 1 .. n : i < j => decisions[i].day <= decisions[j].day
    BY <1>1 DEF DaysInOrder
  <1>4. day \in Nat
    BY DaysAssumption DEF AirInv
  <1>5. ASSUME NEW v, NEW m \in Nat, m = Len(v), v \in Seq(DecisionRecords),
               \A i \in 1 .. m : v[i].day = day, decisions' = decisions \o v
        PROVE  DaysInOrder'
    <2>1. PICK t : t = decisions \o v
      OBVIOUS
    <2>2. /\ Len(t) = n + m /\ \A i \in 1 .. n : t[i] = decisions[i]
          /\ \A i \in 1 .. m : t[n + i] = v[i]
      BY <1>1, <1>5, <2>1 DEF AirInv
    <2>3. \A i \in 1 .. n + m : i \notin 1 .. n => i - n \in 1 .. m /\ n + (i - n) = i
      BY <1>5
    <2>4. \A i \in 1 .. n + m : i \notin 1 .. n => t[i].day = day
      <3> SUFFICES ASSUME NEW i \in 1 .. n + m, i \notin 1 .. n PROVE t[i].day = day
        OBVIOUS
      <3>1. PICK j : j = i - n
        OBVIOUS
      <3>2. j \in 1 .. m /\ n + j = i
        BY ONLY <2>3, <3>1, i \in 1 .. n + m, i \notin 1 .. n
      <3>3. t[n + j] = v[j] /\ v[j].day = day
        BY ONLY <1>5, <2>2, <3>2
      <3> QED BY ONLY <3>2, <3>3
    <2>5. \A i \in 1 .. n + m : i \in 1 .. n => t[i].day = decisions[i].day
      BY ONLY <2>2
    <2>6. ASSUME NEW i \in 1 .. n + m, NEW j \in 1 .. n + m, i < j
          PROVE  t[i].day <= t[j].day
      <3>1. CASE j \in 1 .. n
        <4>1. i \in 1 .. n
          BY <2>6, <3>1
        <4> QED BY ONLY <1>3, <2>5, <2>6, <3>1, <4>1
      <3>2. CASE j \notin 1 .. n
        <4>1. t[j].day = day
          BY ONLY <2>4, <3>2, j \in 1 .. n + m
        <4>2. CASE i \in 1 .. n
          BY ONLY <1>2, <2>5, <4>1, <4>2, i \in 1 .. n + m
        <4>3. CASE i \notin 1 .. n
          <5>1. t[i].day = day
            BY ONLY <2>4, <4>3, i \in 1 .. n + m
          <5> QED BY <1>4, <4>1, <5>1
        <4> QED BY <4>2, <4>3
      <3> QED BY <3>1, <3>2
    <2>7. decisions' = t
      BY <1>5, <2>1
    <2> QED BY ONLY <2>2, <2>6, <2>7 DEF DaysInOrder
  <1>6. \A a, y, p, o : Decision(<<a, y, p>>, o).day = day
    BY DEF Decision
  <1>7. ASSUME NEW source \in Sources, NEW o \in DecisionOutcomes, TrackDecision(source, o)
        PROVE  DaysInOrder'
    <2>1. PICK d \in DecisionRecords : d = Decision(source, o)
      BY DecidedBySource
    <2>2. d.day = day
      BY <2>1 DEF Decision
    <2>3. decisions' = Append(decisions, d)
      BY <1>7, <2>1 DEF TrackDecision
    <2>4. Append(decisions, d) = decisions \o <<d>>
      BY DEF AirInv
    <2>5. <<d>> \in Seq(DecisionRecords) /\ Len(<<d>>) = 1 /\ \A i \in 1 .. 1 : <<d>>[i].day = day
      BY <2>2
    <2> QED BY <1>5, <2>3, <2>4, <2>5
  <1>8. ASSUME NEW agent \in {s[1] : s \in Sources}, NEW phase \in CyclePhases,
               NEW necessary \in BOOLEAN, NEW o \in DecisionOutcomes,
               TrackCycle(agent, phase, necessary, o)
        PROVE  DaysInOrder'
    <2>1. agent \in AirAgents /\ phase \in DecisionPhases
          /\ "refinement_necessity" \in DecisionTypes /\ "refinement_strategy" \in DecisionTypes
      BY DEF AirAgents, DecisionPhases, DecisionTypes
    <2>2. PICK a \in DecisionRecords : a = Decision(<<agent, "refinement_necessity", phase>>, o)
      BY <2>1, Decided
    <2>3. PICK b \in DecisionRecords : b = Decision(<<agent, "refinement_strategy", phase>>, o)
      BY <2>1, Decided
    <2>4. a.day = day /\ b.day = day
      BY <1>6, <2>2, <2>3
    <2>5. CASE necessary
      <3>1. decisions' = decisions \o <<a, b>>
        BY ONLY <1>8, <2>2, <2>3, <2>5 DEF TrackCycle
      <3>2. <<a, b>> \in Seq(DecisionRecords) /\ Len(<<a, b>>) = 2
            /\ \A i \in 1 .. 2 : <<a, b>>[i].day = day
        BY <2>4
      <3> QED BY <1>5, <3>1, <3>2
    <2>6. CASE ~ necessary
      <3>1. decisions' = decisions \o <<a>>
        BY ONLY <1>8, <2>2, <2>3, <2>6 DEF TrackCycle
      <3>2. <<a>> \in Seq(DecisionRecords) /\ Len(<<a>>) = 1 /\ \A i \in 1 .. 1 : <<a>>[i].day = day
        BY <2>4
      <3> QED BY <1>5, <3>1, <3>2
    <2> QED BY <2>5, <2>6
  <1>9. ASSUME NEW strategy \in KnownStrategies, NEW score \in Scores, NEW reduction \in Reductions,
               NEW saved \in BOOLEAN, TrackFire(strategy, score, reduction, saved)
        PROVE  DaysInOrder'
    <2>1. /\ "fire_agent" \in AirAgents /\ "complexity_intervention" \in DecisionTypes
          /\ "guideline" \in DecisionPhases /\ "unknown" \in DecisionOutcomes
      BY DEF AirAgents, DecisionTypes, DecisionPhases, DecisionOutcomes
    <2>2. PICK d \in DecisionRecords :
            d = Decision(<<"fire_agent", "complexity_intervention", "guideline">>, "unknown")
      BY <2>1, Decided
    <2>3. d.day = day
      BY <1>6, <2>2
    <2>4. decisions' = Append(decisions, d)
      BY ONLY <1>9, <2>2, Zenon DEF TrackFire
    <2>5. Append(decisions, d) = decisions \o <<d>>
      BY DEF AirInv
    <2>6. <<d>> \in Seq(DecisionRecords) /\ Len(<<d>>) = 1 /\ \A i \in 1 .. 1 : <<d>>[i].day = day
      BY <2>3
    <2> QED BY <1>5, <2>4, <2>5, <2>6
  <1>10. ASSUME NEW past, ClearOldHistory(past) PROVE DaysInOrder'
    <2>1. decisions' = Cleared(decisions, past) /\ DOMAIN decisions = 1 .. n
      BY <1>1, <1>10 DEF ClearOldHistory, AirInv
    <2>2. PICK t : t = Cleared(decisions, past)
      OBVIOUS
    <2>3. t = [i \in 1 .. n |-> IF decisions[i].day < day - Retention /\ i \notin past
                                THEN [decisions[i] EXCEPT !.cleared = TRUE] ELSE decisions[i]]
      BY ONLY <2>1, <2>2, Zenon DEF Cleared
    <2>4. \A i \in 1 .. n : [decisions[i] EXCEPT !.cleared = TRUE].day = decisions[i].day
      <3>1. \A i \in 1 .. n : decisions[i] \in DecisionRecords
        BY <1>1 DEF AirInv
      <3> QED BY ONLY <3>1, RecordsClear, Zenon
    <2>5. \A i \in 1 .. n : t[i].day = decisions[i].day
      BY ONLY <2>3, <2>4
    <2>6. Len(t) = n
      BY ONLY <2>3, n \in Nat
    <2>7. decisions' = t
      BY <2>1, <2>2
    <2>8. \A i, j \in 1 .. n : i < j => t[i].day <= t[j].day
      BY ONLY <1>3, <2>5
    <2> QED BY ONLY <2>6, <2>7, <2>8 DEF DaysInOrder
  <1>11. CASE UNCHANGED decisions
    BY <1>11 DEF DaysInOrder
  <1>12. "success" \in DecisionOutcomes /\ "failure" \in DecisionOutcomes
    BY DEF DecisionOutcomes
  <1> QED BY <1>7, <1>8, <1>9, <1>10, <1>11, <1>12, Zenon DEF AirNext, airVars, DayPasses

\* What succeeded and what failed are disjoint parts of the events that are judged.
LEMMA WonAndLost ==
    ASSUME NEW all, IsFiniteSet(all), NEW events, NEW w, w = Cardinality(Having(all, events, "success")),
           NEW l, l = Cardinality(Having(all, events, "failure")), NEW n, n = Cardinality(all)
    PROVE  w \in Nat /\ l \in Nat /\ n \in Nat /\ w + l <= n
  <1>1. PICK W : W = Having(all, events, "success")
    OBVIOUS
  <1>2. PICK L : L = Having(all, events, "failure")
    OBVIOUS
  <1>3. W \subseteq all /\ L \subseteq all /\ W \cap L = {}
    BY <1>1, <1>2 DEF Having
  <1>4. IsFiniteSet(W) /\ IsFiniteSet(L)
    BY ONLY <1>3, IsFiniteSet(all), FS_Subset
  <1>5. Cardinality(W \cup L) = Cardinality(W) + Cardinality(L) - Cardinality({})
        /\ IsFiniteSet(W \cup L)
    BY ONLY <1>3, <1>4, FS_Union
  <1>6. Cardinality({}) = 0
    BY FS_EmptySet
  <1>7. Cardinality(W \cup L) <= Cardinality(all)
    <2>1. W \cup L \subseteq all
      BY <1>3
    <2> QED BY ONLY <2>1, IsFiniteSet(all), FS_Subset
  <1>8. Cardinality(W) \in Nat /\ Cardinality(L) \in Nat /\ Cardinality(all) \in Nat
    BY <1>4, FS_CardinalityType
  <1> QED BY <1>1, <1>2, <1>5, <1>6, <1>7, <1>8

\* The events that advice on refinement is given out of are the agent's decisions.
LEMMA EventsOfAgent ==
    ASSUME AirInv, NEW agent, NEW unreadable, NEW events,
           events = RefinementEvents(agent, unreadable)
    PROVE  /\ events \in Seq(Nat) /\ \A k \in 1 .. Len(events) : decisions[events[k]].agent = agent
  <1>1. ASSUME NEW type, NEW h, h = DecisionHistory(OfType(agent, type, "phase_one"), unreadable)
        PROVE  h \in Seq(Nat) /\ \A k \in 1 .. Len(h) : decisions[h[k]].agent = agent
    <2>1. PICK wanted : wanted = OfType(agent, type, "phase_one")
      OBVIOUS
    <2>2. wanted \subseteq 1 .. Len(decisions) /\ \A i \in wanted : decisions[i].agent = agent
      BY <2>1 DEF OfType, AirInv
    <2>3. HistoryRight(h, wanted, unreadable)
      BY <1>1, <2>1, <2>2, HistoryIsRight
    <2>4. h \in Seq(Nat) /\ \A k \in 1 .. Len(h) : h[k] \in wanted
      BY ONLY <2>3 DEF HistoryRight, Holds
    <2> QED BY <2>2, <2>4
  <1>2. PICK a : a = DecisionHistory(OfType(agent, "refinement_necessity", "phase_one"), unreadable)
    OBVIOUS
  <1>3. PICK b : b = DecisionHistory(OfType(agent, "refinement_strategy", "phase_one"), unreadable)
    OBVIOUS
  <1>4. a \in Seq(Nat) /\ \A k \in 1 .. Len(a) : decisions[a[k]].agent = agent
    BY <1>1, <1>2
  <1>5. b \in Seq(Nat) /\ \A k \in 1 .. Len(b) : decisions[b[k]].agent = agent
    BY <1>1, <1>3
  <1>6. events = a \o b
    BY <1>2, <1>3 DEF RefinementEvents
  <1>7. PICK n \in Nat : n = Len(a)
    BY <1>4
  <1>8. PICK m \in Nat : m = Len(b)
    BY <1>5
  <1>9. /\ events \in Seq(Nat) /\ Len(events) = n + m
        /\ \A k \in 1 .. n : events[k] = a[k]
        /\ \A k \in 1 .. m : events[n + k] = b[k]
    BY ONLY <1>4, <1>5, <1>6, <1>7, <1>8
  <1>10. ASSUME NEW k \in 1 .. n + m PROVE decisions[events[k]].agent = agent
    <2>1. CASE k \in 1 .. n
      BY ONLY <1>4, <1>7, <1>9, <2>1
    <2>2. CASE k \notin 1 .. n
      <3>1. PICK j : j = k - n
        OBVIOUS
      <3>2. j \in 1 .. m /\ n + j = k
        BY <2>2, <3>1
      <3>3. events[n + j] = b[j] /\ decisions[b[j]].agent = agent
        BY ONLY <1>5, <1>8, <1>9, <3>2
      <3> QED BY ONLY <3>2, <3>3
    <2> QED BY <2>1, <2>2
  <1> QED BY <1>9, <1>10

\* Advice does not contradict itself.
LEMMA AdviceConsists ==
    ASSUME AirInv
    PROVE  AdviceConsistent
  <1> SUFFICES ASSUME NEW source \in Sources, NEW unreadable, NEW events,
                      events = RefinementEvents(source[1], unreadable), NEW bad,
                      bad = FailurePatterns(events)
               PROVE  /\ SuccessPatterns(events) \cap bad = {}
                      /\ \A g \in SuccessPatterns(events) :
                           2 * Cardinality(Having(Members(events, g[1], g[2]), events, "failure"))
                             < Cardinality(Having(Members(events, g[1], g[2]), events, "success"))
                      /\ Advice(events) = "proceed" => <<"by_agent", source[1]>> \notin bad
                      /\ Advice(events) # "none" => RefinementConfidence(events) = "MEDIUM"
    BY Zenon DEF AdviceConsistent
  <1>1. /\ events \in Seq(Nat)
        /\ \A k \in 1 .. Len(events) : decisions[events[k]].agent = source[1]
    BY EventsOfAgent
  <1>2. PICK n \in Nat : n = Len(events) /\ DOMAIN events = 1 .. n
    BY <1>1
  <1>3. IsFiniteSet(1 .. n) /\ Cardinality(1 .. n) = n
    BY FS_Interval
  <1>4. ASSUME NEW by, NEW key
        PROVE  IsFiniteSet(Members(events, by, key))
    <2>1. Members(events, by, key) \subseteq 1 .. n
      BY <1>2 DEF Members
    <2> QED BY ONLY <1>3, <2>1, FS_Subset
  <1>5. ASSUME NEW g \in SuccessPatterns(events)
        PROVE  /\ g \notin bad
               /\ 2 * Cardinality(Having(Members(events, g[1], g[2]), events, "failure"))
                    < Cardinality(Having(Members(events, g[1], g[2]), events, "success"))
    <2>1. PICK all : all = Members(events, g[1], g[2])
      OBVIOUS
    <2>2. PICK w : w = Cardinality(Having(all, events, "success"))
      OBVIOUS
    <2>3. PICK l : l = Cardinality(Having(all, events, "failure"))
      OBVIOUS
    <2>4. PICK c : c = Cardinality(all)
      OBVIOUS
    <2>5. w \in Nat /\ l \in Nat /\ c \in Nat /\ w + l <= c
      <3>1. IsFiniteSet(all)
        BY <1>4, <2>1
      <3> QED BY ONLY <2>2, <2>3, <2>4, <3>1, WonAndLost
    <2>6. w >= 3 /\ 10 * w >= 7 * c
      BY ONLY <1>5, <2>1, <2>2, <2>4 DEF SuccessPatterns, AtLeastSevenTenths
    <2>7. g \in bad => 10 * l >= 7 * c
      BY ONLY <2>1, <2>3, <2>4, bad = FailurePatterns(events) DEF FailurePatterns, AtLeastSevenTenths
    <2>8. 2 * l < w /\ ~(10 * l >= 7 * c)
      BY ONLY <2>5, <2>6
    <2> QED BY ONLY <2>1, <2>2, <2>3, <2>7, <2>8
  <1>6. ASSUME Advice(events) = "proceed", <<"by_agent", source[1]>> \in bad PROVE FALSE
    <2>1. PICK all : all = Members(events, "by_agent", source[1])
      OBVIOUS
    <2>2. all = 1 .. n
      BY <1>1, <1>2, <2>1 DEF Members, GroupKey
    <2>3. PICK w : w = Cardinality(Having(all, events, "success"))
      OBVIOUS
    <2>4. PICK l : l = Cardinality(Having(all, events, "failure"))
      OBVIOUS
    <2>5. w \in Nat /\ l \in Nat /\ w + l <= n
      BY ONLY <1>3, <2>2, <2>3, <2>4, WonAndLost
    <2>6. 10 * w > 8 * n
      BY <1>2, <1>6, <2>2, <2>3 DEF Advice
    <2>7. 10 * l >= 7 * n
      <3>1. PICK g : g = <<"by_agent", source[1]>>
        OBVIOUS
      <3>2. g[1] = "by_agent" /\ g[2] = source[1] /\ g \in FailurePatterns(events)
        BY <1>6, <3>1
      <3>3. AtLeastSevenTenths(Cardinality(Having(Members(events, g[1], g[2]), events, "failure")),
                               Cardinality(Members(events, g[1], g[2])))
        BY ONLY <3>2, Zenon DEF FailurePatterns
      <3> QED BY ONLY <1>3, <2>1, <2>2, <2>4, <3>2, <3>3 DEF AtLeastSevenTenths
    <2> QED BY ONLY <2>5, <2>6, <2>7, n \in Nat
  <1>7. ASSUME Advice(events) # "none" PROVE RefinementConfidence(events) = "MEDIUM"
    <2>1. n > ManyEvents
      BY <1>2, <1>7, AdviceAssumption DEF Advice
    <2>2. n >= 3 /\ n >= SomeEvents
      BY <2>1, AdviceAssumption
    <2> QED BY <1>2, <2>2, AdviceAssumption DEF RefinementConfidence
  <1> QED BY <1>5, <1>6, <1>7

\* What is taken off in all, when nothing takes off more than fifteen.
LEMMA LittleInAll ==
    ASSUME NEW keys \in Seq(Nat), \A i \in 1 .. Len(keys) : fires[keys[i]].reduction \in Int,
           \A i \in 1 .. Len(keys) : fires[keys[i]].reduction <= 15
    PROVE  TotalReduction(keys) \in Int /\ TotalReduction(keys) <= 15 * Len(keys)
  <1> DEFINE m == Len(keys)
             total[n \in 0 .. Len(keys)] ==
                 IF n = 0 THEN 0 ELSE total[n - 1] + fires[keys[n]].reduction
             F(f) == [n \in 0 .. m |-> IF n = 0 THEN 0 ELSE f[n - 1] + fires[keys[n]].reduction]
             g == [n \in 1 .. m |-> [k \in Int |-> k + fires[keys[n]].reduction]]
  <1>1. total = CHOOSE f : f = F(f)
    BY DEF total
  <1>2. TotalReduction(keys) = total[m]
    BY DEF TotalReduction
  <1>3. m \in Nat
    OBVIOUS
  <1>4. \A i \in 1 .. m : fires[keys[i]].reduction \in Int /\ fires[keys[i]].reduction <= 15
    OBVIOUS
  <1> HIDE DEF m, total
  <1>5. \E f : f = F(f)
    <2>1. g \in [1 .. m -> [Int -> Int]]
      BY <1>4
    <2>2. PICK h : Computes(h, Int, 0, m, g)
      <3>1. 0 \in Int
        OBVIOUS
      <3> HIDE DEF g
      <3> QED BY <1>3, <2>1, <3>1, Computed
    <2>3. h \in [0 .. m -> Int] /\ h[0] = 0 /\ \A n \in 1 .. m : h[n] = g[n][h[n - 1]]
      <3> HIDE DEF g
      <3> QED BY ONLY <2>2 DEF Computes
    <2>4. \A n \in 1 .. m : h[n - 1] \in Int
      <3>1. \A n \in 1 .. m : n - 1 \in 0 .. m
        BY <1>3
      <3> HIDE DEF g
      <3> QED BY ONLY <2>3, <3>1
    <2>5. \A n \in 1 .. m : h[n] = h[n - 1] + fires[keys[n]].reduction
      BY ONLY <2>3, <2>4
    <2>6. \A n \in 0 .. m : n = 0 \/ n \in 1 .. m
      BY <1>3
    <2>7. \A n \in 0 .. m : h[n] = IF n = 0 THEN 0 ELSE h[n - 1] + fires[keys[n]].reduction
      BY ONLY <2>3, <2>5, <2>6
    <2>8. h = [n \in 0 .. m |-> h[n]]
      <3> HIDE DEF g
      <3> QED BY ONLY <2>3
    <2>9. h = F(h)
      BY ONLY <2>7, <2>8
    <2> HIDE DEF F
    <2> QED BY <2>9
  <1>6. total = F(total)
    <2> HIDE DEF F
    <2> QED BY ONLY <1>1, <1>5
  <1>7. total[0] = 0 /\ \A n \in 1 .. m : total[n] = total[n - 1] + fires[keys[n]].reduction
    <2>1. \A n \in 0 .. m : total[n] = IF n = 0 THEN 0 ELSE total[n - 1] + fires[keys[n]].reduction
      BY ONLY <1>6
    <2>2. 0 \in 0 .. m /\ \A n \in 1 .. m : n \in 0 .. m /\ n # 0
      BY <1>3
    <2> QED BY ONLY <2>1, <2>2
  <1> DEFINE T == {n \in 0 .. m : total[n] \in Int /\ total[n] <= 15 * n}
  <1>8. 0 \in T
    BY <1>3, <1>7
  <1>9. ASSUME NEW n \in 0 .. m - 1, n \in T PROVE n + 1 \in T
    <2>1. n \in Nat /\ n + 1 \in 1 .. m /\ (n + 1) - 1 = n /\ n + 1 \in 0 .. m
      BY <1>3
    <2>2. PICK x \in Int : x = total[n] /\ x <= 15 * n
      BY <1>9
    <2>3. PICK y \in Int : y = fires[keys[n + 1]].reduction /\ y <= 15
      BY <1>4, <2>1
    <2>4. total[n + 1] = x + y
      BY ONLY <1>7, <2>1, <2>2, <2>3
    <2>5. x + y \in Int /\ x + y <= 15 * (n + 1)
      <3>1. PICK k \in Int : k = 15 * n
        BY ONLY <2>1
      <3>2. 15 * (n + 1) = k + 15
        BY ONLY <2>1, <3>1
      <3>3. x <= k /\ y <= 15
        BY ONLY <2>2, <2>3, <3>1
      <3>4. x + y <= k + 15
        BY ONLY <3>3, x \in Int, y \in Int, k \in Int
      <3> QED BY ONLY <3>2, <3>4, x \in Int, y \in Int
    <2> QED BY <2>1, <2>4, <2>5
  <1>10. m \in T
    <2> HIDE DEF T
    <2>1. 0 .. m \subseteq T
      BY <1>3, <1>8, <1>9, PassedOn
    <2> QED BY <1>3, <2>1
  <1> QED BY <1>2, <1>10 DEF m

\* A strategy that is called effective was effective.
LEMMA EffectiveTold ==
    ASSUME AirInv
    PROVE  EffectiveWasEffective
  <1> SUFFICES ASSUME NEW score \in Scores, NEW unreadable, NEW found,
                      found = InterventionHistory(unreadable),
                      NEW s \in EffectiveStrategies(found, score)
               PROVE  \E i \in DOMAIN fires \ unreadable :
                        /\ fires[i].strategy = s /\ fires[i].success /\ fires[i].reduction > 15
                        /\ ~ fires[i].cleared /\ day - fires[i].day <= Lookback
    BY DEF EffectiveWasEffective
  <1>1. PICK n \in Nat : n = Len(fires) /\ DOMAIN fires = 1 .. n
    BY DEF AirInv
  <1>2. \A i \in 1 .. n : fires[i].day \in Nat /\ fires[i].reduction \in Int
    <2>1. \A i \in 1 .. n : fires[i] \in FireRecords
      BY <1>1 DEF AirInv
    <2>2. \A r \in FireRecords : r.day \in Nat /\ r.reduction \in Int
      BY AdviceAssumption DEF FireRecords
    <2> QED BY ONLY <2>1, <2>2
  <1>3. PICK p : p = Positions(fires)
    OBVIOUS
  <1>4. Growing(p) /\ Len(p) = n /\ \A y : Holds(p, y) <=> y \in 1 .. n
    BY <1>1, <1>3, PositionsGrow DEF AirInv
  <1>5. PICK R : R = {i \in 1 .. n : Recent(fires[i])} \ unreadable
    OBVIOUS
  <1>6. found = Among(p, R)
    BY ONLY <1>1, <1>3, <1>5, found = InterventionHistory(unreadable), Zenon DEF InterventionHistory
  <1>7. AmongIs(p, R, n, found)
    BY <1>4, <1>6, AmongRight
  <1>8. Growing(found) /\ \A y : Holds(found, y) => y \in R
    BY ONLY <1>7 DEF AmongIs
  <1>9. PICK S : S = {i \in 1 .. n : /\ fires[i].strategy = s /\ fires[i].success
                                     /\ Distance(fires[i].score, score) <= 20}
    OBVIOUS
  <1>10. PICK similar : similar = Among(found, S)
    OBVIOUS
  <1>11. TotalReduction(similar) > 15 * Len(similar)
    BY ONLY <1>1, <1>9, <1>10, s \in EffectiveStrategies(found, score), Zenon DEF EffectiveStrategies
  <1>12. AmongIs(found, S, Len(found), similar)
    BY <1>8, <1>10, AmongRight
  <1>13. similar \in Seq(Nat) /\ \A i \in 1 .. Len(similar) : similar[i] \in S /\ similar[i] \in R
    BY ONLY <1>8, <1>12 DEF AmongIs, Growing, Holds
  <1>14. \E i \in 1 .. Len(similar) : fires[similar[i]].reduction > 15
    <2> SUFFICES ASSUME \A i \in 1 .. Len(similar) : ~(fires[similar[i]].reduction > 15) PROVE FALSE
      OBVIOUS
    <2>1. \A i \in 1 .. Len(similar) : fires[similar[i]].reduction \in Int
      BY ONLY <1>2, <1>5, <1>13
    <2>2. \A i \in 1 .. Len(similar) : fires[similar[i]].reduction <= 15
      BY <2>1
    <2>3. TotalReduction(similar) \in Int /\ TotalReduction(similar) <= 15 * Len(similar)
      BY ONLY <1>13, <2>1, <2>2, LittleInAll
    <2>4. Len(similar) \in Nat
      BY <1>13
    <2> QED BY ONLY <1>11, <2>3, <2>4
  <1>15. PICK i \in 1 .. n : fires[i].reduction > 15 /\ i \in S /\ i \in R
    BY ONLY <1>5, <1>13, <1>14
  <1>16. fires[i].strategy = s /\ fires[i].success /\ Recent(fires[i]) /\ i \notin unreadable
    BY ONLY <1>5, <1>9, <1>15
  <1>17. ~ fires[i].cleared /\ day - fires[i].day <= Lookback
    <2>1. PICK x \in Nat : x = fires[i].day
      BY <1>2
    <2>2. PICK y \in Nat : y = day
      BY DaysAssumption DEF AirInv
    <2>3. x >= y - Lookback /\ ~ fires[i].cleared
      BY ONLY <1>16, <2>1, <2>2 DEF Recent
    <2>4. y - x <= Lookback
      BY <2>3, DaysAssumption
    <2> QED BY <2>1, <2>2, <2>3, <2>4
  <1> QED BY <1>1, <1>15, <1>16, <1>17

\* All that the agent tells is right.
LEMMA AirTellsAll ==
    ASSUME AirInv, DaysInOrder
    PROVE  AirTellsRight
  <1>1. HistoriesAreHonest
    <2>1. DOMAIN decisions = 1 .. Len(decisions)
      BY DEF AirInv
    <2>2. ASSUME NEW wanted, wanted \subseteq DOMAIN decisions, NEW unreadable
          PROVE  HistoryOf(wanted, unreadable)
      BY <2>1, <2>2, HistoryTold
    <2>3. \A agent, type, phase : OfType(agent, type, phase) \subseteq DOMAIN decisions
      BY DEF OfType
    <2>4. /\ {i \in DOMAIN decisions : decisions[i].agent = "evolution"} \subseteq DOMAIN decisions
          /\ {i \in DOMAIN decisions : decisions[i].type = "complexity_intervention"}
                \subseteq DOMAIN decisions
      OBVIOUS
    <2> QED BY ONLY <2>2, <2>3, <2>4, Zenon DEF HistoriesAreHonest
  <1> QED BY <1>1, AdviceConsists, EffectiveTold, AirTold DEF AirTellsRight
=============================================================================
