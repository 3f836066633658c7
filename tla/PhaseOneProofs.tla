--------------------------- MODULE PhaseOneProofs ---------------------------
(***************************************************************************)
(* Theorems about PhaseOneOrchestrator for every set of operations and      *)
(* every limit of the validation and refinement cycles.                     *)
(***************************************************************************)
EXTENDS PhaseOneOrchestrator, TLAPS

\* The handoffs and the agents they lead to.
LEMMA Handoffs ==
    /\ DOMAIN Receiver = {"garden_to_env", "env_to_root", "root_to_tree"}
    /\ Receiver["garden_to_env"] = "environmental_analysis"
    /\ Receiver["env_to_root"] = "root_system_architect"
    /\ Receiver["root_to_tree"] = "tree_placement_planner"
    /\ DOMAIN HandoffAfter = {"environmental_analysis", "root_system_architect"}
    /\ HandoffAfter["environmental_analysis"] = "env_to_root"
    /\ HandoffAfter["root_system_architect"] = "root_to_tree"
BY DEF Receiver, HandoffAfter

\* What an operation can wait for, listed.
LEMMA WaitsListed ==
    Waits = {"idle", "garden_planner", "environmental_analysis", "root_system_architect",
             "tree_placement_planner", "align", "validate", "refine", "garden_to_env",
             "env_to_root", "root_to_tree", "completed", "failed"}
BY Handoffs DEF Waits, Agents, Validating, Ended

\* Reporting keeps the types of the records.
LEMMA ReportType ==
    ASSUME WorkflowTypeOK, NEW o \in Ops, NEW contents,
           state \in Ops => contents \in Contents,
           Report(o, contents)
    PROVE  /\ dicts' \in [Ops -> Contents]
           /\ record' \in [Ops -> Ops \union {NoOp}]
           /\ state' \in Ops \union {NoOp}
           /\ alone' \in [Ops -> BOOLEAN]
<1>1. ASSUME NEW x \in Ops
      PROVE  (IF x = state THEN contents ELSE dicts[x]) \in Contents
    BY DEF WorkflowTypeOK
<1>2. dicts' = [x \in Ops |-> IF x = state THEN contents ELSE dicts[x]]
    BY DEF Report, WorkflowTypeOK
<1>3. dicts' \in [Ops -> Contents]  BY <1>1, <1>2
<1>4. QED  BY <1>3 DEF Report, WorkflowTypeOK

\* Failing keeps the types.
LEMMA FailsType ==
    ASSUME WorkflowTypeOK, NEW o \in Ops, Fails(o), UNCHANGED validation
    PROVE  WorkflowTypeOK'
<1>1. state \in Ops => [dicts[state] EXCEPT !.status = "failed"] \in Contents
    BY DEF WorkflowTypeOK, Contents
<1>2. Report(o, [dicts[state] EXCEPT !.status = "failed"])  BY DEF Fails
<1>3. pc' \in [Ops -> Waits]  BY WaitsListed DEF Fails, Goto, WorkflowTypeOK
<1>4. QED  BY <1>1, <1>2, <1>3, ReportType DEF WorkflowTypeOK, validation

\* The first step of an operation keeps the types.
LEMMA BeginType ==
    ASSUME WorkflowTypeOK, NEW o \in Ops, Begin(o)
    PROVE  WorkflowTypeOK'
<1>1. [status |-> "started", agent |-> "garden_planner"] \in Contents
    BY DEF Contents, Agents
<1>2. pc' \in [Ops -> Waits]  BY WaitsListed DEF Begin, Goto, WorkflowTypeOK
<1>3. alone' \in [Ops -> BOOLEAN]
    <2>1. \A p \in Ops : alone[p] \in BOOLEAN  BY DEF WorkflowTypeOK
    <2>2. QED  BY <2>1, Zenon DEF Begin
<1>4. dicts' \in [Ops -> Contents]  BY <1>1 DEF Begin, WorkflowTypeOK
<1>5. record' \in [Ops -> Ops \union {NoOp}] /\ state' \in Ops \union {NoOp}
    BY DEF Begin, WorkflowTypeOK
<1>6. QED  BY <1>2, <1>3, <1>4, <1>5 DEF Begin, WorkflowTypeOK, validation

\* A round keeps the types, and the counter within its limit.
LEMMA RoundType ==
    ASSUME WorkflowTypeOK, NEW o \in Ops, RoundOrGiveUp(o)
    PROVE  WorkflowTypeOK'
BY WaitsListed, CyclesAssumption DEF RoundOrGiveUp, Goto, WorkflowTypeOK, status

\* Every step of an operation keeps the types.
LEMMA ProceedType ==
    ASSUME WorkflowTypeOK, NEW o \in Ops, Proceed(o)
    PROVE  WorkflowTypeOK'
<1> USE WaitsListed, CyclesAssumption
<1>1. CASE Planned(o)  BY <1>1 DEF Planned, Goto, WorkflowTypeOK, status
<1>2. CASE NotPlanned(o)  BY <1>2, FailsType DEF NotPlanned
<1>3. CASE Aligned(o) \/ Refined(o)  BY <1>3, RoundType DEF Aligned, Refined
<1>4. CASE Approves(o)  BY <1>4 DEF Approves, Goto, WorkflowTypeOK, status
<1>5. CASE Refuses(o)
    BY <1>5 DEF Refuses, Goto, WorkflowTypeOK, status, validation
<1>6. CASE ValidationTimesOut(o)
    BY <1>6 DEF ValidationTimesOut, Goto, WorkflowTypeOK, status, validation
<1>7. CASE HandedOver(o)
    <2> DEFINE contents == [dicts[state] EXCEPT !.agent = Receiver[pc[o]]]
    <2>1. Receiver[pc[o]] \in Agents  BY <1>7, Handoffs DEF HandedOver, Agents
    <2>2. state \in Ops => contents \in Contents
        BY <2>1 DEF WorkflowTypeOK, Contents
    <2>3. Report(o, contents)  BY <1>7 DEF HandedOver
    <2>4. pc' \in [Ops -> Waits]
        BY <1>7, <2>1 DEF HandedOver, Goto, WorkflowTypeOK, Agents
    <2>5. approved' \in [Ops -> BOOLEAN]  BY <1>7 DEF HandedOver, WorkflowTypeOK, validation
    <2> HIDE DEF contents
    <2>6. QED  BY <1>7, <2>2, <2>3, <2>4, <2>5, ReportType DEF HandedOver, WorkflowTypeOK, validation
<1>8. CASE AgentReturns(o)
    <2>1. HandoffAfter[pc[o]] \in Waits  BY <1>8, Handoffs DEF AgentReturns
    <2>2. QED  BY <1>8, <2>1 DEF AgentReturns, Goto, WorkflowTypeOK, status, validation
<1>9. CASE AgentRaises(o)  BY <1>9, FailsType DEF AgentRaises
<1>10. CASE PlannerReturns(o)
    <2>1. [status |-> "completed", agent |-> "none"] \in Contents  BY DEF Contents
    <2>2. pc' \in [Ops -> Waits]  BY <1>10 DEF PlannerReturns, Goto, WorkflowTypeOK
    <2>3. QED
        BY <1>10, <2>1, <2>2, ReportType DEF PlannerReturns, WorkflowTypeOK, validation
<1>11. QED
    BY <1>1, <1>2, <1>3, <1>4, <1>5, <1>6, <1>7, <1>8, <1>9, <1>10 DEF Proceed

\* Every step of the orchestrator keeps the types.
LEMMA TypeOKStep == TypeOK /\ [Next]_vars => TypeOK'
<1> SUFFICES ASSUME TypeOK, [Next]_vars PROVE TypeOK'
    OBVIOUS
<1> USE DEF Tasks, Results
<1>1. ASSUME NEW o \in Ops, ProcessTask(o) PROVE TypeOK'
    BY <1>1, BeginType DEF ProcessTask, TypeOK
<1>2. ASSUME NEW o \in Ops, WorkflowStep(o) PROVE TypeOK'
    <2>1. WorkflowTypeOK'  BY <1>2, ProceedType DEF WorkflowStep, TypeOK
    <2>2. task' \in [Ops -> Tasks] /\ result' \in [Ops -> Results]
        BY <1>2 DEF WorkflowStep, Return, TypeOK
    <2>3. QED  BY <1>2, <2>1, <2>2 DEF WorkflowStep, TypeOK
<1>3. ASSUME UNCHANGED workflowVars PROVE WorkflowTypeOK'
    BY <1>3 DEF workflowVars, status, validation, TypeOK, WorkflowTypeOK
<1>4. ASSUME NEW o \in Ops,
             NoRefinement(o) \/ NoTarget(o) \/ EnvironmentAgainEnds(o) \/ TreeAgainEnds(o)
      PROVE  TypeOK'
    BY <1>3, <1>4 DEF NoRefinement, NoTarget, EnvironmentAgainEnds, TreeAgainEnds, Return, TypeOK
<1>5. ASSUME NEW o \in Ops, NEW target \in Targets, Refine(o, target) PROVE TypeOK'
    BY <1>3, <1>5 DEF Refine, StartAgain, Return, TypeOK
<1>6. CASE UNCHANGED vars  BY <1>3, <1>6 DEF vars, taskVars, TypeOK
<1>7. QED  BY <1>1, <1>2, <1>4, <1>5, <1>6 DEF Next, Continue

\* Type correctness, and with it that the validation cycle counter the
\* operations share never passes its limit.
THEOREM TypeCorrect == Spec => []TypeOK
<1>1. OInit => TypeOK
    BY WaitsListed, CyclesAssumption
       DEF OInit, Init, TypeOK, WorkflowTypeOK, Contents, Tasks, Results
<1>2. QED  BY <1>1, TypeOKStep, PTL DEF Spec

-----------------------------------------------------------------------------
(* Earth is asked at most max_refinement_cycles times per validation.  A     *)
(* reset of the shared counter gives the rounds still left to the operations *)
(* away: what was asked so far and what the counter still allows never       *)
(* exceed the limit for the validations begun.                               *)

RoundsLeft ==
    /\ validations = 0 => /\ earth_calls = 0
                          /\ \A o \in Ops : pc[o] \notin Validating
    /\ validations > 0 =>
         earth_calls + (max_refinement_cycles - current_cycle)
            <= max_refinement_cycles * validations

\* One validation more allows max_refinement_cycles rounds more.
LEMMA OneMore ==
    ASSUME NEW m \in Nat, NEW n \in Nat
    PROVE  m * (n + 1) = m * n + m /\ m * n \in Nat
OBVIOUS

\* Every step keeps that: asking Earth uses up a round the counter still allows.
LEMMA RoundsLeftStep == TypeOK /\ RoundsLeft /\ [Next]_vars => RoundsLeft'
<1> SUFFICES ASSUME TypeOK, RoundsLeft, [Next]_vars PROVE RoundsLeft'
    OBVIOUS
<1> USE CyclesAssumption
<1>1. /\ validations \in Nat /\ earth_calls \in Nat /\ current_cycle \in Nat
      /\ current_cycle <= max_refinement_cycles
      /\ pc \in [Ops -> Waits]
    BY DEF TypeOK, WorkflowTypeOK
<1> DEFINE m == max_refinement_cycles
<1>2. m * validations \in Nat  BY <1>1, OneMore
<1>3. ASSUME UNCHANGED <<current_cycle, validations, earth_calls>>,
             NEW o \in Ops, NEW wait, pc' = [pc EXCEPT ![o] = wait],
             wait \in Validating => pc[o] \in Validating
      PROVE  RoundsLeft'
    BY <1>1, <1>3 DEF RoundsLeft
<1>4. ASSUME NEW o \in Ops, Planned(o) PROVE RoundsLeft'
    <2>1. m * (validations + 1) = m * validations + m  BY <1>1, OneMore
    <2>2. earth_calls <= m * validations
        <3>1. CASE validations = 0  BY <3>1, <1>1, <1>2 DEF RoundsLeft
        <3>2. CASE validations > 0  BY <3>2, <1>1, <1>2 DEF RoundsLeft
        <3>3. QED  BY <3>1, <3>2, <1>1
    <2>3. /\ validations' = validations + 1
          /\ earth_calls' = earth_calls
          /\ current_cycle' = 0
        BY <1>4 DEF Planned
    <2> HIDE DEF m
    <2>4. earth_calls + (m - 0) <= m * (validations + 1)
        BY <1>1, <1>2, <2>1, <2>2 DEF m
    <2>5. QED  BY <1>1, <2>3, <2>4 DEF RoundsLeft, m
<1>5. ASSUME NEW o \in Ops, pc[o] \in Validating, RoundOrGiveUp(o) PROVE RoundsLeft'
    <2>1. validations > 0 /\ validations' = validations
        BY <1>1, <1>5 DEF RoundsLeft, RoundOrGiveUp
    <2>2. earth_calls + (m - current_cycle) <= m * validations
        BY <2>1 DEF RoundsLeft
    <2>3. CASE current_cycle < m
        <3>1. earth_calls' = earth_calls + 1 /\ current_cycle' = current_cycle + 1
            BY <1>5, <2>3 DEF RoundOrGiveUp
        <3> HIDE DEF m
        <3>2. earth_calls' + (m - current_cycle') <= m * validations
            BY <1>1, <1>2, <2>2, <3>1 DEF m
        <3>3. QED  BY <1>1, <2>1, <3>2 DEF RoundsLeft, m
    <2>4. CASE ~(current_cycle < m)
        BY <1>5, <2>1, <2>2, <2>4 DEF RoundsLeft, RoundOrGiveUp
    <2>5. QED  BY <2>3, <2>4
<1>6. ASSUME NEW o \in Ops, Proceed(o) PROVE RoundsLeft'
    <2> USE Handoffs DEF Validating, Goto
    <2>1. CASE Planned(o)  BY <1>4, <2>1
    <2>2. CASE NotPlanned(o)
        <3>1. pc' = [pc EXCEPT ![o] = "failed"]  BY <2>2 DEF NotPlanned, Fails
        <3>2. QED  BY <1>3, <2>2, <3>1 DEF NotPlanned, validation
    <2>3. CASE Aligned(o) \/ Refined(o)  BY <1>5, <2>3 DEF Aligned, Refined
    <2>4. CASE Approves(o)  BY <1>3, <2>4 DEF Approves
    <2>5. CASE Refuses(o)  BY <1>3, <2>5 DEF Refuses, validation
    <2>6. CASE ValidationTimesOut(o)  BY <1>3, <2>6 DEF ValidationTimesOut, validation
    <2>7. CASE HandedOver(o)
        <3>1. Receiver[pc[o]] \notin Validating  BY <2>7 DEF HandedOver
        <3>2. QED  BY <1>3, <2>7, <3>1 DEF HandedOver, validation
    <2>8. CASE AgentReturns(o)
        <3>1. HandoffAfter[pc[o]] \notin Validating  BY <2>8 DEF AgentReturns
        <3>2. QED  BY <1>3, <2>8, <3>1 DEF AgentReturns, validation
    <2>9. CASE AgentRaises(o)
        <3>1. pc' = [pc EXCEPT ![o] = "failed"]  BY <2>9 DEF AgentRaises, Fails
        <3>2. QED  BY <1>3, <2>9, <3>1 DEF AgentRaises, validation
    <2>10. CASE PlannerReturns(o)  BY <1>3, <2>10 DEF PlannerReturns, validation
    <2>11. QED
        BY <1>6, <2>1, <2>2, <2>3, <2>4, <2>5, <2>6, <2>7, <2>8, <2>9, <2>10 DEF Proceed
<1>7. ASSUME NEW o \in Ops, Begin(o) PROVE RoundsLeft'
    BY <1>3, <1>7 DEF Begin, Goto, Validating, validation
<1>8. ASSUME UNCHANGED workflowVars PROVE RoundsLeft'
    BY <1>8 DEF workflowVars, validation, RoundsLeft
<1>9. QED
    BY <1>6, <1>7, <1>8
       DEF Next, Continue, ProcessTask, WorkflowStep, NoRefinement, NoTarget, Refine,
           EnvironmentAgainEnds, TreeAgainEnds, vars

\* However the operations interleave, and whoever resets the shared counter,
\* Earth is asked at most max_refinement_cycles times per validation.
THEOREM EarthCallsBounded == Spec => []RoundsBounded
<1>1. OInit => RoundsLeft
    BY DEF OInit, Init, RoundsLeft, Validating
<1>2. TypeOK /\ RoundsLeft => RoundsBounded
    <2> SUFFICES ASSUME TypeOK, RoundsLeft PROVE RoundsBounded
        OBVIOUS
    <2>1. /\ validations \in Nat /\ earth_calls \in Nat /\ current_cycle \in Nat
          /\ current_cycle <= max_refinement_cycles
        BY CyclesAssumption DEF TypeOK, WorkflowTypeOK
    <2>2. max_refinement_cycles * validations \in Nat  BY <2>1, CyclesAssumption, OneMore
    <2>3. CASE validations = 0  BY <2>1, <2>2, <2>3 DEF RoundsLeft, RoundsBounded
    <2>4. CASE validations > 0
        BY <2>1, <2>2, <2>4, CyclesAssumption DEF RoundsLeft, RoundsBounded
    <2>5. QED  BY <2>1, <2>3, <2>4
<1>3. QED  BY <1>1, <1>2, RoundsLeftStep, TypeCorrect, PTL DEF Spec

-----------------------------------------------------------------------------
\* The operations together go through at most max_foundation_cycles
\* refinements, because the counter is tested and advanced in one step.
THEOREM BudgetKept == Spec => []RefinementBudget
<1> DEFINE Counted == /\ refinements = refine_cycle
                      /\ refine_cycle \in Nat
                      /\ refine_cycle <= max_foundation_cycles
<1>1. OInit => Counted
    BY FoundationAssumption DEF OInit
<1>2. Counted /\ [Next]_vars => Counted'
    <2> SUFFICES ASSUME Counted, [Next]_vars PROVE Counted'
        OBVIOUS
    <2>1. ASSUME NEW o \in Ops, NEW target \in Targets, Refine(o, target) PROVE Counted'
        BY <2>1, FoundationAssumption DEF Refine
    <2>2. ASSUME UNCHANGED <<refine_cycle, refinements>> PROVE Counted'
        BY <2>2
    <2>3. QED
        BY <2>1, <2>2
           DEF Next, Continue, ProcessTask, WorkflowStep, NoRefinement, NoTarget,
               EnvironmentAgainEnds, TreeAgainEnds, vars, taskVars
<1>3. Counted => RefinementBudget
    BY DEF RefinementBudget
<1>4. QED  BY <1>1, <1>2, <1>3, PTL DEF Spec

-----------------------------------------------------------------------------
(* Phase one implements the safety part of AgentPipeline.                    *)

\* Where process_task is agrees with what its workflow waits for, and a
\* result is there when it has returned.
InStep ==
    \A o \in Ops :
        /\ task[o] = "none" => pc[o] = "idle"
        /\ task[o] = "workflow" => pc[o] \notin {"idle", "completed", "failed"}
        /\ task[o] \in {"analysis", "again_environment", "again_tree"} => pc[o] = "completed"
        /\ task[o] # "returned" => result[o] = "none"

PipelineSafety == Pipeline!Init /\ [][Pipeline!Next]_(Pipeline!vars)

\* What a step of the workflow does to the operation that makes it, and that
\* it leaves the others where they are.
LEMMA ProceedTurns ==
    ASSUME WorkflowTypeOK, NEW o \in Ops, Proceed(o)
    PROVE  \E wait \in Waits :
             /\ pc' = [pc EXCEPT ![o] = wait]
             /\ pc[o] \notin {"idle", "completed", "failed"}
             /\ wait # "idle"
             /\ \/ Turn[wait] = Turn[pc[o]] /\ wait \notin {"completed", "failed"}
                \/ Turn[pc[o]] \in 1..4 /\ Turn[wait] = Turn[pc[o]] + 1 /\ wait # "failed"
                \/ Turn[pc[o]] \in 1..4 /\ wait = "failed"
<1> USE Handoffs, WaitsListed DEF Goto, Validating, Turn
<1>1. CASE Planned(o)  BY <1>1 DEF Planned
<1>2. CASE NotPlanned(o)  BY <1>2 DEF NotPlanned, Fails
<1>3. CASE Aligned(o) \/ Refined(o)  BY <1>3 DEF Aligned, Refined, RoundOrGiveUp
<1>4. CASE Approves(o)  BY <1>4 DEF Approves
<1>5. CASE Refuses(o)  BY <1>5 DEF Refuses
<1>6. CASE ValidationTimesOut(o)  BY <1>6 DEF ValidationTimesOut
<1>7. CASE HandedOver(o)
    <2>1. pc' = [pc EXCEPT ![o] = Receiver[pc[o]]]  BY <1>7 DEF HandedOver
    <2>2. pc[o] \in {"garden_to_env", "env_to_root", "root_to_tree"}
        BY <1>7 DEF HandedOver
    <2>3. Turn[pc[o]] = Turn[Receiver[pc[o]]]  BY <2>2
    <2>4. Receiver[pc[o]] \in Agents \ {"garden_planner"}  BY <2>2 DEF Agents
    <2>5. Receiver[pc[o]] \in Waits  BY <2>4 DEF Agents
    <2> WITNESS Receiver[pc[o]] \in Waits
    <2>6. QED  BY <2>1, <2>2, <2>3, <2>4 DEF Agents
<1>8. CASE AgentReturns(o)
    <2>1. pc' = [pc EXCEPT ![o] = HandoffAfter[pc[o]]]  BY <1>8 DEF AgentReturns
    <2>2. pc[o] \in {"environmental_analysis", "root_system_architect"}
        BY <1>8 DEF AgentReturns
    <2>3. Turn[pc[o]] \in 1..4 /\ Turn[HandoffAfter[pc[o]]] = Turn[pc[o]] + 1  BY <2>2
    <2>4. HandoffAfter[pc[o]] \in {"env_to_root", "root_to_tree"}  BY <2>2
    <2>5. HandoffAfter[pc[o]] \in Waits  BY <2>4
    <2> WITNESS HandoffAfter[pc[o]] \in Waits
    <2>6. QED  BY <2>1, <2>2, <2>3, <2>4
<1>9. CASE AgentRaises(o)  BY <1>9 DEF AgentRaises, Fails
<1>10. CASE PlannerReturns(o)  BY <1>10 DEF PlannerReturns
<1>11. QED
    BY <1>1, <1>2, <1>3, <1>4, <1>5, <1>6, <1>7, <1>8, <1>9, <1>10 DEF Proceed

\* Every step keeps process_task in step with the workflow it waits for.
LEMMA InStepStep == TypeOK /\ InStep /\ [Next]_vars => InStep'
<1> SUFFICES ASSUME TypeOK, InStep, [Next]_vars PROVE InStep'
    OBVIOUS
<1>1. /\ pc \in [Ops -> Waits] /\ task \in [Ops -> Tasks] /\ result \in [Ops -> Results]
    BY DEF TypeOK, WorkflowTypeOK
<1>2. ASSUME NEW o \in Ops, ProcessTask(o) PROVE InStep'
    BY <1>1, <1>2 DEF ProcessTask, Begin, Goto, InStep
<1>3. ASSUME NEW o \in Ops, WorkflowStep(o) PROVE InStep'
    <2>1. PICK wait \in Waits : pc' = [pc EXCEPT ![o] = wait] /\ wait # "idle"
        BY <1>3, ProceedTurns DEF WorkflowStep, TypeOK
    <2>2. pc'[o] = wait  BY <1>1, <2>1
    <2>3. CASE wait = "completed"
        <3>1. task' = [task EXCEPT ![o] = "analysis"] /\ UNCHANGED result
            BY <1>3, <2>2, <2>3 DEF WorkflowStep
        <3>2. QED  BY <1>1, <1>3, <2>1, <2>3, <3>1 DEF InStep, WorkflowStep
    <2>4. CASE wait = "failed"
        <3>1. Return(o, "failed")  BY <1>3, <2>2, <2>4 DEF WorkflowStep
        <3>2. QED  BY <1>1, <1>3, <2>1, <2>4, <3>1 DEF InStep, WorkflowStep, Return
    <2>5. CASE wait \notin {"completed", "failed"}
        <3>1. UNCHANGED <<task, result>>  BY <1>3, <2>2, <2>5 DEF WorkflowStep
        <3>2. QED  BY <1>1, <1>3, <2>1, <2>5, <3>1 DEF InStep, WorkflowStep
    <2>6. QED  BY <2>3, <2>4, <2>5
<1>4. ASSUME NEW o \in Ops,
             NoRefinement(o) \/ NoTarget(o) \/ EnvironmentAgainEnds(o) \/ TreeAgainEnds(o)
      PROVE  InStep'
    BY <1>1, <1>4
       DEF NoRefinement, NoTarget, EnvironmentAgainEnds, TreeAgainEnds, Return, InStep,
           workflowVars
<1>5. ASSUME NEW o \in Ops, NEW target \in Targets, Refine(o, target) PROVE InStep'
    BY <1>1, <1>5 DEF Refine, StartAgain, Return, InStep, workflowVars
<1>6. CASE UNCHANGED vars  BY <1>6 DEF vars, workflowVars, taskVars, InStep
<1>7. QED  BY <1>2, <1>3, <1>4, <1>5, <1>6 DEF Next, Continue

\* Every step is a step of the abstract pipeline, or leaves it unchanged.
LEMMA PipelineStep ==
    TypeOK /\ InStep /\ [Next]_vars => [Pipeline!Next]_(Pipeline!vars)
<1> SUFFICES ASSUME TypeOK, InStep, [Next]_vars PROVE [Pipeline!Next]_(Pipeline!vars)
    OBVIOUS
<1> DEFINE turn == [o \in Ops |-> Turn[pc[o]]]
           outcome == [o \in Ops |-> Outcome(result[o])]
<1>1. /\ pc \in [Ops -> Waits] /\ task \in [Ops -> Tasks] /\ result \in [Ops -> Results]
    BY DEF TypeOK, WorkflowTypeOK
<1>2. ASSUME UNCHANGED <<pc, result>> PROVE UNCHANGED Pipeline!vars
    BY <1>2 DEF Pipeline!vars
<1>3. ASSUME NEW o \in Ops, NEW wait \in Waits, pc' = [pc EXCEPT ![o] = wait]
      PROVE  turn' = [turn EXCEPT ![o] = Turn[wait]]
    <2>1. \A x \in Ops : pc'[x] = IF x = o THEN wait ELSE pc[x]  BY <1>1, <1>3
    <2>2. \A x \in Ops : Turn[pc'[x]] = IF x = o THEN Turn[wait] ELSE Turn[pc[x]]  BY <2>1
    <2>3. [x \in Ops |-> Turn[pc'[x]]] = [turn EXCEPT ![o] = Turn[wait]]
        BY <2>2, Zenon
    <2>4. QED  BY <2>3, Zenon DEF Turn
<1>4. ASSUME NEW o \in Ops, NEW r \in Results, result' = [result EXCEPT ![o] = r]
      PROVE  outcome' = [outcome EXCEPT ![o] = Outcome(r)]
    BY <1>1, <1>4
<1>5. ASSUME NEW o \in Ops, ProcessTask(o) PROVE Pipeline!Next
    <2>1. pc[o] = "idle" /\ pc' = [pc EXCEPT ![o] = "garden_planner"] /\ UNCHANGED result
        BY <1>5 DEF ProcessTask, Begin, Goto
    <2>2. Turn["idle"] = 0 /\ Turn["garden_planner"] = 1  BY DEF Turn
    <2>3. turn' = [turn EXCEPT ![o] = Turn["garden_planner"]]
        BY <1>3, <2>1, WaitsListed
    <2>4. turn[o] = Turn["idle"]  BY <2>1
    <2>5. turn' = [turn EXCEPT ![o] = 1] /\ turn[o] = 0  BY <2>2, <2>3, <2>4
    <2>6. outcome' = outcome  BY <2>1
    <2>7. Pipeline!Begin(o)  BY <2>5, <2>6 DEF Pipeline!Begin
    <2>8. QED  BY <2>7 DEF Pipeline!Next
<1>6. ASSUME NEW o \in Ops, task[o] # "returned", Turn[pc[o]] = 5, UNCHANGED pc,
             NEW r \in Results \ {"none", "failed"}, result' = [result EXCEPT ![o] = r]
      PROVE  Pipeline!Next
    <2>1. turn[o] = 4 + 1 /\ turn' = turn  BY <1>6
    <2>2. outcome[o] = "none"  BY <1>6 DEF InStep, Outcome
    <2>3. outcome' = [outcome EXCEPT ![o] = "success"]  BY <1>4, <1>6 DEF Outcome
    <2>4. Pipeline!Succeed(o)  BY <2>1, <2>2, <2>3 DEF Pipeline!Succeed
    <2>5. QED  BY <2>4 DEF Pipeline!Next, Pipeline!Advance
<1>7. ASSUME NEW o \in Ops, WorkflowStep(o) PROVE [Pipeline!Next]_(Pipeline!vars)
    <2>1. PICK wait \in Waits :
             /\ pc' = [pc EXCEPT ![o] = wait]
             /\ pc[o] \notin {"idle", "completed", "failed"}
             /\ wait # "idle"
             /\ \/ Turn[wait] = Turn[pc[o]] /\ wait \notin {"completed", "failed"}
                \/ Turn[pc[o]] \in 1..4 /\ Turn[wait] = Turn[pc[o]] + 1 /\ wait # "failed"
                \/ Turn[pc[o]] \in 1..4 /\ wait = "failed"
        BY <1>7, ProceedTurns DEF WorkflowStep, TypeOK
    <2>2. pc'[o] = wait  BY <1>1, <2>1
    <2>3. turn' = [turn EXCEPT ![o] = Turn[wait]] /\ turn[o] = Turn[pc[o]]  BY <1>3, <2>1
    <2>4. CASE wait # "failed"
        <3>1. UNCHANGED result  BY <1>7, <2>2, <2>4 DEF WorkflowStep
        <3>2. outcome' = outcome  BY <3>1
        <3>3. CASE Turn[wait] = Turn[pc[o]]
            <4>1. turn' = turn  BY <2>3, <3>3
            <4>2. QED  BY <3>2, <4>1 DEF Pipeline!vars
        <3>4. CASE Turn[pc[o]] \in 1..4 /\ Turn[wait] = Turn[pc[o]] + 1
            <4>1. Pipeline!Pass(o)  BY <2>3, <3>2, <3>4 DEF Pipeline!Pass
            <4>2. QED  BY <4>1 DEF Pipeline!Next, Pipeline!Advance
        <3>5. QED  BY <2>1, <2>4, <3>3, <3>4
    <2>5. CASE wait = "failed"
        <3>1. result' = [result EXCEPT ![o] = "failed"]
            BY <1>7, <2>2, <2>5 DEF WorkflowStep, Return
        <3>2. outcome' = [outcome EXCEPT ![o] = "failed"]
            BY <1>4, <3>1 DEF Outcome, Results
        <3>3. Turn[pc[o]] \in 1..4 /\ Turn[wait] = 4 + 2
            BY <2>1, <2>5 DEF Turn
        <3>4. Pipeline!Fail(o)  BY <2>3, <3>2, <3>3 DEF Pipeline!Fail
        <3>5. QED  BY <3>4 DEF Pipeline!Next, Pipeline!Advance
    <2>6. QED  BY <2>4, <2>5
<1>8. ASSUME NEW o \in Ops, NoRefinement(o) \/ NoTarget(o) \/ EnvironmentAgainEnds(o)
      PROVE  Pipeline!Next
    <2>1. /\ task[o] \in {"analysis", "again_environment"}
          /\ UNCHANGED pc
          /\ result' = [result EXCEPT ![o] = "first"]
        BY <1>8 DEF NoRefinement, NoTarget, EnvironmentAgainEnds, Return, workflowVars
    <2>2. Turn[pc[o]] = 5  BY <2>1 DEF InStep, Turn
    <2>3. QED  BY <1>6, <2>1, <2>2 DEF Results
<1>9. ASSUME NEW o \in Ops, TreeAgainEnds(o) PROVE Pipeline!Next
    <2>1. PICK r \in {"refined", "empty"} : result' = [result EXCEPT ![o] = r]
        BY <1>9 DEF TreeAgainEnds, Return
    <2>2. task[o] = "again_tree" /\ UNCHANGED pc  BY <1>9 DEF TreeAgainEnds, workflowVars
    <2>3. Turn[pc[o]] = 5  BY <2>2 DEF InStep, Turn
    <2>4. r \in Results \ {"none", "failed"}  BY DEF Results
    <2>5. QED  BY <1>6, <2>1, <2>2, <2>3, <2>4
<1>10. ASSUME NEW o \in Ops, NEW target \in Targets, Refine(o, target)
       PROVE  [Pipeline!Next]_(Pipeline!vars)
    <2>1. task[o] = "analysis" /\ UNCHANGED pc  BY <1>10 DEF Refine, workflowVars
    <2>2. Turn[pc[o]] = 5  BY <2>1 DEF InStep, Turn
    <2>3. CASE result' = [result EXCEPT ![o] = "first"]
        BY <1>6, <2>1, <2>2, <2>3 DEF Results
    <2>4. CASE UNCHANGED result  BY <1>2, <2>1, <2>4
    <2>5. QED  BY <1>10, <2>3, <2>4 DEF Refine, StartAgain, Return
<1>11. CASE UNCHANGED vars  BY <1>2, <1>11 DEF vars, workflowVars, taskVars
<1>12. QED  BY <1>5, <1>7, <1>8, <1>9, <1>10, <1>11 DEF Next, Continue

\* Phase one implements the safety part of the abstract pipeline: for any
\* number of concurrent operations, agents have their turns in order, failure
\* ends an operation, and a result once given never changes.
THEOREM PipelineImplemented == Spec => PipelineSafety
<1>1. OInit => InStep /\ Pipeline!Init
    BY DEF OInit, Init, InStep, Pipeline!Init, Turn, Outcome
<1>2. QED
    BY <1>1, TypeCorrect, InStepStep, PipelineStep, PTL DEF Spec, PipelineSafety

-----------------------------------------------------------------------------
(* The record of an operation that was alone is right.                       *)

\* An operation that runs, and ran beside no other, made workflow_state; and if
\* it made workflow_state, no other runs.
StateIsMine ==
    \A o \in Ops : alone[o] =>
        /\ o \in Active => state = o
        /\ state = o => Active \subseteq {o}

RecordInv == StateIsMine /\ RecordRightWhenAlone

\* What workflow_state should say, by what an operation waits for.
LEMMA Described ==
    /\ \A wait \in Waits : StatusAt(wait) = IF wait \in Ended THEN wait ELSE "started"
    /\ \A wait \in {"garden_planner", "align", "validate", "refine", "garden_to_env"} :
          AgentAt(wait) = "garden_planner"
    /\ AgentAt("environmental_analysis") = "environmental_analysis"
    /\ AgentAt("env_to_root") = "environmental_analysis"
    /\ AgentAt("root_system_architect") = "root_system_architect"
    /\ AgentAt("root_to_tree") = "root_system_architect"
    /\ AgentAt("tree_placement_planner") = "tree_placement_planner"
    /\ AgentAt("completed") = "none"
BY DEF StatusAt, AgentAt, Validating, Ended

\* A step of an operation that runs keeps the invariant if what it reports, or
\* what was reported before, describes where it goes.
LEMMA StepReported ==
    ASSUME TypeOK, RecordInv, NEW o \in Active, NEW wait \in Waits,
           wait # "idle", pc' = [pc EXCEPT ![o] = wait], UNCHANGED <<state, alone>>,
           \/ /\ UNCHANGED <<dicts, record>>
              /\ StatusAt(wait) = StatusAt(pc[o])
              /\ AgentAt(wait) = AgentAt(pc[o]) /\ wait # "failed"
           \/ \E contents \in Contents :
                 /\ Report(o, contents)
                 /\ state = o /\ alone[o] => /\ contents.status = StatusAt(wait)
                                             /\ wait # "failed" => contents.agent = AgentAt(wait)
    PROVE  RecordInv'
<1>1. /\ o \in Ops /\ pc[o] \notin {"idle"} \union Ended
      /\ pc \in [Ops -> Waits] /\ record \in [Ops -> Ops \union {NoOp}]
      /\ dicts \in [Ops -> Contents] /\ alone \in [Ops -> BOOLEAN]
    BY DEF Active, TypeOK, WorkflowTypeOK
<1>2. pc'[o] = wait /\ \A p \in Ops : p # o => pc'[p] = pc[p]  BY <1>1
<1>3. Active' \subseteq Active
    BY <1>1, <1>2 DEF Active
<1>4. StateIsMine'
    BY <1>3 DEF StateIsMine, RecordInv
<1>5. ASSUME NEW p \in Ops, alone'[p], pc'[p] # "idle"
      PROVE  /\ record'[p] = p
             /\ dicts'[p].status = StatusAt(pc'[p])
             /\ pc'[p] # "failed" => dicts'[p].agent = AgentAt(pc'[p])
    <2>1. alone[p]  BY <1>5
    <2>2. CASE p # o
        <3>1. state # p  BY <2>1, <2>2 DEF RecordInv, StateIsMine
        <3>2. dicts'[p] = dicts[p] /\ record'[p] = record[p]
            BY <1>1, <2>2, <3>1 DEF Report
        <3>3. QED  BY <1>2, <1>5, <2>1, <2>2, <3>2 DEF RecordInv, RecordRightWhenAlone
    <2>3. CASE p = o
        <3>1. state = o  BY <2>1, <2>3 DEF RecordInv, StateIsMine
        <3>2. CASE UNCHANGED <<dicts, record>> /\ StatusAt(wait) = StatusAt(pc[o])
                      /\ AgentAt(wait) = AgentAt(pc[o]) /\ wait # "failed"
            <4>1. pc[o] # "idle" /\ pc[o] # "failed"  BY <1>1 DEF Ended
            <4>2. QED  BY <1>2, <2>1, <2>3, <3>2, <4>1 DEF RecordInv, RecordRightWhenAlone
        <3>3. ASSUME NEW contents \in Contents, Report(o, contents),
                     state = o /\ alone[o] =>
                        /\ contents.status = StatusAt(wait)
                        /\ wait # "failed" => contents.agent = AgentAt(wait)
              PROVE  /\ record'[p] = p
                     /\ dicts'[p].status = StatusAt(pc'[p])
                     /\ pc'[p] # "failed" => dicts'[p].agent = AgentAt(pc'[p])
            <4>1. dicts'[o] = contents /\ record'[o] = o
                BY <1>1, <3>1, <3>3 DEF Report
            <4>2. QED  BY <1>2, <2>1, <2>3, <3>1, <3>3, <4>1
        <3>4. QED  BY <3>2, <3>3
    <2>4. QED  BY <2>2, <2>3
<1>6. RecordRightWhenAlone'
    BY <1>5 DEF RecordRightWhenAlone, StatusAt, AgentAt
<1>7. QED  BY <1>4, <1>6 DEF RecordInv

\* An operation that fails reports that.
LEMMA FailureReported ==
    ASSUME TypeOK, RecordInv, NEW o \in Active, Fails(o)
    PROVE  RecordInv'
<1> DEFINE contents == [dicts[state] EXCEPT !.status = "failed"]
<1>1. pc' = [pc EXCEPT ![o] = "failed"] /\ Report(o, contents)
    BY DEF Fails, Goto
<1>2. UNCHANGED <<state, alone>>  BY <1>1 DEF Report
<1>3. StatusAt("failed") = "failed"  BY DEF StatusAt, Ended
<1>4. CASE state \in Ops
    <2>1. contents \in Contents /\ contents.status = "failed"
        BY <1>4 DEF TypeOK, WorkflowTypeOK, Contents
    <2> HIDE DEF contents
    <2>2. QED  BY <1>1, <1>2, <1>3, <2>1, WaitsListed, StepReported
<1>5. CASE state \notin Ops
    <2>1. [status |-> "failed", agent |-> "none"] \in Contents  BY DEF Contents
    <2>2. PICK other \in Contents : other = [status |-> "failed", agent |-> "none"]
        BY <2>1
    <2>3. dicts' = [dicts EXCEPT ![state] = other]
        BY <1>1, <1>5 DEF Report, TypeOK, WorkflowTypeOK
    <2>4. Report(o, other)  BY <1>1, <2>3 DEF Report
    <2>5. state # o  BY <1>5 DEF Active
    <2>6. QED  BY <1>1, <1>2, <2>4, <2>5, WaitsListed, StepReported
<1>6. QED  BY <1>4, <1>5

\* A step that reports nothing leaves an operation with the agent it was with.
LEMMA NothingReported ==
    ASSUME TypeOK, RecordInv, NEW o \in Active, NEW wait \in Waits,
           wait \notin {"idle", "failed"},
           pc' = [pc EXCEPT ![o] = wait], UNCHANGED status,
           StatusAt(wait) = StatusAt(pc[o]), AgentAt(wait) = AgentAt(pc[o])
    PROVE  RecordInv'
BY StepReported DEF status

\* Every step of an operation keeps the invariant.
LEMMA ProceedReported ==
    ASSUME TypeOK, RecordInv, NEW o \in Ops, Proceed(o)
    PROVE  RecordInv'
<1> USE Handoffs, WaitsListed DEF Goto
<1>0. o \in Active
    BY ProceedTurns DEF TypeOK, Active, Ended
<1>1. \A wait \in {"garden_planner", "align", "validate", "refine", "garden_to_env",
                   "environmental_analysis", "env_to_root", "root_system_architect",
                   "root_to_tree", "tree_placement_planner"} : StatusAt(wait) = "started"
    BY DEF StatusAt, Ended
<1>2. ASSUME NEW wait \in {"align", "validate", "refine", "garden_to_env"},
             pc[o] \in Validating \union {"garden_planner"},
             pc' = [pc EXCEPT ![o] = wait], UNCHANGED status
      PROVE  RecordInv'
    <2>1. AgentAt(wait) = AgentAt(pc[o])  BY <1>2, Described DEF Validating
    <2>2. StatusAt(wait) = StatusAt(pc[o])  BY <1>1, <1>2 DEF Validating
    <2>3. QED  BY <1>0, <1>2, <2>1, <2>2, NothingReported
<1>3. CASE Planned(o)  BY <1>2, <1>3 DEF Planned
<1>4. CASE NotPlanned(o) \/ AgentRaises(o)
    BY <1>0, <1>4, FailureReported DEF NotPlanned, AgentRaises
<1>5. CASE Aligned(o) \/ Refined(o)
    BY <1>2, <1>5 DEF Aligned, Refined, RoundOrGiveUp, Validating
<1>6. CASE Approves(o)  BY <1>2, <1>6 DEF Approves, Validating
<1>7. CASE Refuses(o)  BY <1>2, <1>7 DEF Refuses, Validating
<1>8. CASE ValidationTimesOut(o)  BY <1>2, <1>8 DEF ValidationTimesOut
<1>9. CASE HandedOver(o)
    <2>1. PICK next \in Waits :
             /\ next = Receiver[pc[o]]
             /\ next \in {"environmental_analysis", "root_system_architect",
                          "tree_placement_planner"}
        BY <1>9 DEF HandedOver
    <2>2. /\ pc' = [pc EXCEPT ![o] = next]
          /\ Report(o, [dicts[state] EXCEPT !.agent = next])
        BY <1>9, <2>1 DEF HandedOver
    <2>3. AgentAt(next) = next /\ StatusAt(next) = "started" /\ next \notin {"idle", "failed"}
        BY <1>1, <2>1, Described
    <2>4. StatusAt(pc[o]) = "started" /\ pc[o] # "idle"
        BY <1>1, <1>9 DEF HandedOver
    <2>5. UNCHANGED <<state, alone>>  BY <2>2 DEF Report
    <2>6. CASE state \in Ops
        <3>a. dicts[state] \in Contents
            BY <2>6 DEF TypeOK, WorkflowTypeOK
        <3>b. /\ [dicts[state] EXCEPT !.agent = next] \in Contents
              /\ [dicts[state] EXCEPT !.agent = next].agent = next
              /\ [dicts[state] EXCEPT !.agent = next].status = dicts[state].status
            BY <2>1, <3>a DEF Contents, Agents
        <3>1. PICK contents \in Contents :
                 /\ contents = [dicts[state] EXCEPT !.agent = next]
                 /\ contents.agent = next /\ contents.status = dicts[state].status
            BY <3>b
        <3>2. state = o /\ alone[o] => contents.status = "started"
            BY <2>4, <3>1 DEF RecordInv, RecordRightWhenAlone
        <3>3. Report(o, contents)  BY <2>2, <3>1
        <3>4. state = o /\ alone[o] => /\ contents.status = StatusAt(next)
                                       /\ next # "failed" => contents.agent = AgentAt(next)
            BY ONLY <2>3, <3>1, <3>2
        <3>5. \E c \in Contents :
                 /\ Report(o, c)
                 /\ state = o /\ alone[o] => /\ c.status = StatusAt(next)
                                             /\ next # "failed" => c.agent = AgentAt(next)
            BY ONLY <3>3, <3>4, contents \in Contents
        <3>6. pc' = [pc EXCEPT ![o] = next] /\ next # "idle"  BY ONLY <2>2, <2>3
        <3>7. QED
            BY ONLY TypeOK, RecordInv, <1>0, next \in Waits, <2>5, <3>5, <3>6, StepReported
    <2>7. CASE state \notin Ops
        <3>1. [status |-> "started", agent |-> "none"] \in Contents  BY DEF Contents
        <3>2. PICK other \in Contents : other = [status |-> "started", agent |-> "none"]
            BY <3>1
        <3>3. dicts' = [dicts EXCEPT ![state] = other]
            BY <2>2, <2>7 DEF Report, TypeOK, WorkflowTypeOK
        <3>4. Report(o, other)  BY <2>2, <3>3 DEF Report
        <3>5. state # o  BY <2>7
        <3>6. \E c \in Contents :
                 /\ Report(o, c)
                 /\ state = o /\ alone[o] => /\ c.status = StatusAt(next)
                                             /\ next # "failed" => c.agent = AgentAt(next)
            BY ONLY <3>4, <3>5, other \in Contents
        <3>7. pc' = [pc EXCEPT ![o] = next] /\ next # "idle"  BY ONLY <2>2, <2>3
        <3>8. QED
            BY ONLY TypeOK, RecordInv, <1>0, next \in Waits, <2>5, <3>6, <3>7, StepReported
    <2>8. QED  BY <2>6, <2>7
<1>10. CASE AgentReturns(o)
    <2>1. PICK next \in Waits :
             /\ next = HandoffAfter[pc[o]]
             /\ next \in {"env_to_root", "root_to_tree"}
        BY <1>10 DEF AgentReturns
    <2>2. AgentAt(next) = AgentAt(pc[o])  BY <1>10, <2>1, Described DEF AgentReturns
    <2>3. StatusAt(next) = StatusAt(pc[o])  BY <1>1, <1>10, <2>1 DEF AgentReturns
    <2>4. pc' = [pc EXCEPT ![o] = next] /\ UNCHANGED status
        BY <1>10, <2>1 DEF AgentReturns
    <2>5. QED  BY <1>0, <2>1, <2>2, <2>3, <2>4, NothingReported
<1>11. CASE PlannerReturns(o)
    <2>a. [status |-> "completed", agent |-> "none"] \in Contents
        BY DEF Contents
    <2>1. PICK contents \in Contents : /\ contents = [status |-> "completed", agent |-> "none"]
                                       /\ contents.status = "completed"
                                       /\ contents.agent = "none"
        BY <2>a
    <2>2. pc' = [pc EXCEPT ![o] = "completed"] /\ Report(o, contents)
        BY <1>11, <2>1 DEF PlannerReturns
    <2>3. UNCHANGED <<state, alone>>  BY <2>2 DEF Report
    <2>4. StatusAt("completed") = "completed" /\ AgentAt("completed") = "none"
        BY Described DEF StatusAt, Ended
    <2>5. QED  BY <1>0, <2>1, <2>2, <2>3, <2>4, StepReported
<1>12. QED
    BY <1>3, <1>4, <1>5, <1>6, <1>7, <1>8, <1>9, <1>10, <1>11 DEF Proceed

\* An operation that begins is not alone any more with those that run.
LEMMA BeginReported ==
    ASSUME TypeOK, RecordInv, NEW o \in Ops, Begin(o)
    PROVE  RecordInv'
<1>1. /\ pc \in [Ops -> Waits] /\ record \in [Ops -> Ops \union {NoOp}]
      /\ dicts \in [Ops -> Contents] /\ alone \in [Ops -> BOOLEAN]
    BY DEF TypeOK, WorkflowTypeOK
<1>2. /\ pc[o] = "idle" /\ pc' = [pc EXCEPT ![o] = "garden_planner"] /\ state' = o
      /\ dicts' = [dicts EXCEPT ![o] = [status |-> "started", agent |-> "garden_planner"]]
      /\ record' = [record EXCEPT ![o] = o]
    BY DEF Begin, Goto
<1>3. \A p \in Ops : alone'[p] => alone[p] /\ (p = o => Active = {})
                                           /\ (p # o => p \notin Active)
    <2>1. \A p \in Ops : alone'[p] =
                            (alone[p] /\ (IF p = o THEN Active = {} ELSE p \notin Active))
        BY Zenon DEF Begin
    <2>2. QED  BY <2>1
<1>4. Active' = Active \union {o}
    BY <1>1, <1>2 DEF Active, Ended
<1>5. StateIsMine'
    BY <1>2, <1>3, <1>4 DEF StateIsMine
<1>6. ASSUME NEW p \in Ops, alone'[p], pc'[p] # "idle"
      PROVE  /\ record'[p] = p
             /\ dicts'[p].status = StatusAt(pc'[p])
             /\ pc'[p] # "failed" => dicts'[p].agent = AgentAt(pc'[p])
    <2>1. CASE p = o
        <3>1. StatusAt("garden_planner") = "started"  BY DEF StatusAt, Ended
        <3>2. QED  BY <1>1, <1>2, <2>1, <3>1, Described
    <2>2. CASE p # o
        <3>1. alone[p]  BY <1>3, <1>6
        <3>2. QED  BY <1>1, <1>2, <1>6, <2>2, <3>1 DEF RecordInv, RecordRightWhenAlone
    <2>3. QED  BY <2>1, <2>2
<1>7. RecordRightWhenAlone'
    BY <1>6 DEF RecordRightWhenAlone, StatusAt, AgentAt
<1>8. QED  BY <1>5, <1>7 DEF RecordInv

\* Every step of the orchestrator keeps the invariant.
LEMMA RecordInvStep == TypeOK /\ RecordInv /\ [Next]_vars => RecordInv'
<1> SUFFICES ASSUME TypeOK, RecordInv, [Next]_vars PROVE RecordInv'
    OBVIOUS
<1>1. ASSUME UNCHANGED workflowVars PROVE RecordInv'
    BY <1>1 DEF workflowVars, status, RecordInv, StateIsMine, RecordRightWhenAlone, Active,
                StatusAt, AgentAt
<1>2. QED
    BY <1>1, BeginReported, ProceedReported
       DEF Next, Continue, ProcessTask, WorkflowStep, NoRefinement, NoTarget, Refine,
           EnvironmentAgainEnds, TreeAgainEnds, vars

\* Nothing done for earlier or later operations reaches the record of one that
\* ran beside no other: it tells how far the operation is and how it ended.
THEOREM RecordKeptRight == Spec => []RecordRightWhenAlone
<1>1. OInit => RecordInv
    BY DEF OInit, Init, RecordInv, StateIsMine, RecordRightWhenAlone, Active
<1>2. RecordInv => RecordRightWhenAlone
    BY DEF RecordInv
<1>3. QED  BY <1>1, <1>2, RecordInvStep, TypeCorrect, PTL DEF Spec
=============================================================================
