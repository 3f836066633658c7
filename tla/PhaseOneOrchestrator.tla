------------------------ MODULE PhaseOneOrchestrator ------------------------
(***************************************************************************)
(* phase_one/orchestrator.py (PhaseOneOrchestrator) around the workflow:    *)
(* process_task runs an operation, has its outputs analysed by the          *)
(* foundation refinement agent (phase_one/agents/foundation_refinement.py), *)
(* and re-executes part of it when the agent asks for that.  Operations     *)
(* share the refinement agent and its cycle counter.                        *)
(* The agent may be handed to the orchestrator by whoever makes it (its     *)
(* tests do): then it may answer anything.  The analysis of the agent that  *)
(* the orchestrator makes itself raises at line 121, which reads breakers   *)
(* that nobody set, and phase one proceeds unrefined (NoRefinement).        *)
(***************************************************************************)
EXTENDS PhaseOneWorkflow

CONSTANTS
    Targets,               \* agents the refinement agent may hold responsible
    max_foundation_cycles  \* its _max_refinement_cycles

ASSUME TargetsAssumption == Targets \subseteq Agents
ASSUME FoundationAssumption == max_foundation_cycles \in Nat

VARIABLES
    task,         \* where process_task is, for each operation
    result,       \* what it returns: the outputs of the first execution, of a
                  \* re-execution, or "empty": a success without components
    message,      \* what the result says of its refinement
    refine_cycle, \* the refinement agent's _current_cycle
    refinements   \* history: refinement cycles the operations went through

taskVars == <<task, result, message, refine_cycle, refinements>>
vars == <<workflowVars, taskVars>>

Tasks == {"none", "workflow", "analysis", "again_environment", "again_tree", "returned"}
Results == {"none", "failed", "first", "refined", "empty"}

OInit ==
    /\ Init
    /\ task = [o \in Ops |-> "none"]
    /\ result = [o \in Ops |-> "none"]
    /\ message = [o \in Ops |-> "none"]
    /\ refine_cycle = 0
    /\ refinements = 0

Return(o, r) ==
    /\ task' = [task EXCEPT ![o] = "returned"]
    /\ result' = [result EXCEPT ![o] = r]

ProcessTask(o) ==
    /\ task[o] = "none"
    /\ Begin(o)
    /\ task' = [task EXCEPT ![o] = "workflow"]
    /\ UNCHANGED <<result, message, refine_cycle, refinements>>

\* A step of the workflow.  IF it completes THEN its outputs go to the
\* refinement agent, IF it fails THEN the failure is returned.
WorkflowStep(o) ==
    /\ task[o] = "workflow"
    /\ Proceed(o)
    /\ CASE pc'[o] = "completed" -> /\ task' = [task EXCEPT ![o] = "analysis"]
                                    /\ UNCHANGED result
         [] pc'[o] = "failed" -> Return(o, "failed")
         [] OTHER -> UNCHANGED <<task, result>>
    /\ UNCHANGED <<message, refine_cycle, refinements>>

\* The analysis raises or names no action that needs a re-execution, or the
\* cycles are used up: the first outputs go to phase two.
NoRefinement(o) ==
    /\ task[o] = "analysis"
    /\ Return(o, "first")
    /\ message' = [message EXCEPT ![o] = "proceed"]
    /\ UNCHANGED <<workflowVars, refine_cycle, refinements>>

\* The agent asks for a re-execution but holds no agent responsible.
NoTarget(o) ==
    /\ task[o] = "analysis"
    /\ refine_cycle < max_foundation_cycles
    /\ Return(o, "first")
    /\ message' = [message EXCEPT ![o] = "no_target"]
    /\ UNCHANGED <<workflowVars, refine_cycle, refinements>>

\* _execute_agent_recursion, up to its first wait.  For the garden planner it
\* calls a method that PhaseOneWorkflow does not have, for the root system
\* architect one with an argument too few: both fail at once, and the first
\* outputs are returned.
StartAgain(o, target) ==
    \/ /\ target \in {"garden_planner", "root_system_architect"}
       /\ Return(o, "first")
       /\ message' = [message EXCEPT ![o] = "re-executed"]
    \/ /\ target = "environmental_analysis"
       /\ task' = [task EXCEPT ![o] = "again_environment"]
       /\ UNCHANGED <<result, message>>
    \/ /\ target = "tree_placement_planner"
       /\ task' = [task EXCEPT ![o] = "again_tree"]
       /\ UNCHANGED <<result, message>>

\* Mutant: a re-execution that has to wait is not counted.
Refine_ForgetsToCount(o, target) ==
    /\ task[o] = "analysis"
    /\ refine_cycle < max_foundation_cycles
    /\ refine_cycle' = IF target = "tree_placement_planner" THEN refine_cycle
                                                            ELSE refine_cycle + 1
    /\ refinements' = refinements + 1
    /\ StartAgain(o, target)
    /\ UNCHANGED workflowVars

\* An injected agent asks for a re-execution and names who is responsible.  The
\* test of the cycles and their increment run without a wait between them.
Refine(o, target) ==
    /\ task[o] = "analysis"
    /\ refine_cycle < max_foundation_cycles
    /\ refine_cycle' = refine_cycle + 1
    /\ refinements' = refinements + 1
    /\ StartAgain(o, target)
    /\ UNCHANGED workflowVars

\* The environmental analysis returned or raised; either way the call of the
\* root system architect that follows, with an argument too few, or the
\* failure itself ends the re-execution.
EnvironmentAgainEnds(o) ==
    /\ task[o] = "again_environment"
    /\ Return(o, "first")
    /\ message' = [message EXCEPT ![o] = "re-executed"]
    /\ UNCHANGED <<workflowVars, refine_cycle, refinements>>

\* Mutant: a re-execution that failed takes the result with it.
TreeAgainEnds_LosesResult(o) ==
    /\ task[o] = "again_tree"
    /\ \E r \in {"refined", "failed"} : Return(o, r)
    /\ message' = [message EXCEPT ![o] = "re-executed"]
    /\ UNCHANGED <<workflowVars, refine_cycle, refinements>>

\* The tree planner returned or raised: its success is not looked at.
TreeAgainEnds(o) ==
    /\ task[o] = "again_tree"
    /\ \E r \in {"refined", "empty"} : Return(o, r)
    /\ message' = [message EXCEPT ![o] = "re-executed"]
    /\ UNCHANGED <<workflowVars, refine_cycle, refinements>>

Continue(o) ==
    \/ WorkflowStep(o)
    \/ NoRefinement(o) \/ NoTarget(o)
    \/ \E target \in Targets : Refine(o, target)
    \/ EnvironmentAgainEnds(o) \/ TreeAgainEnds(o)

Next == \E o \in Ops : ProcessTask(o) \/ Continue(o)

Spec == OInit /\ [][Next]_vars

\* Agents answer: every wait for a model ends, with an answer, an error or a
\* timeout, and the event loop resumes the operation.
FairSpec == Spec /\ \A o \in Ops : WF_vars(Continue(o))

-----------------------------------------------------------------------------
(* Properties *)

\* Every variable keeps its type.
TypeOK ==
    /\ WorkflowTypeOK
    /\ task \in [Ops -> Tasks]
    /\ result \in [Ops -> Results]
    /\ message \in [Ops -> {"none", "proceed", "no_target", "re-executed"}]
    /\ refine_cycle \in Nat /\ refinements \in Nat

\* All operations together go through at most max_foundation_cycles
\* refinements: no two of them pass the test of the counter on the same
\* cycle.  (The counter is never reset, so this is a budget for good.)
RefinementBudget == refinements <= max_foundation_cycles

\* Whose turn it is by what an operation waits for: a handoff is part of the
\* turn of the agent that receives.
Turn == [idle |-> 0,
         garden_planner |-> 1, align |-> 1, validate |-> 1, refine |-> 1,
         garden_to_env |-> 2, environmental_analysis |-> 2,
         env_to_root |-> 3, root_system_architect |-> 3,
         root_to_tree |-> 4, tree_placement_planner |-> 4,
         completed |-> 5, failed |-> 6]

Outcome(r) == IF r \in {"none", "failed"} THEN r ELSE "success"

Pipeline == INSTANCE AgentPipeline WITH
    Length <- 4,
    turn <- [o \in Ops |-> Turn[pc[o]]],
    result <- [o \in Ops |-> Outcome(result[o])]

\* Phase one keeps the promise of AgentPipeline: although operations share
\* the agents, the counters and workflow_state, each has its agents' turns in
\* order, fails where an agent raised, and ends; a refinement, whatever
\* becomes of it, never turns its success into a failure.
ImplementsPipeline == Pipeline!Spec

\* system_flow.md and _execute_refinement_cycle: "Successfully re-executed
\* workflow starting from" the agent held responsible.
ReExecuted ==
    \A o \in Ops : message[o] = "re-executed" => result[o] = "refined"
=============================================================================
