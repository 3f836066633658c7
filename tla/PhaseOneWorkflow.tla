-------------------------- MODULE PhaseOneWorkflow --------------------------
(***************************************************************************)
(* phase_one/workflow.py (PhaseOneWorkflow), with its GardenPlannerValidator *)
(* and SequentialAgentCoordinator: one object that runs several operations  *)
(* at once on an event loop.  Operations interleave where they wait for an  *)
(* agent's model; what a coroutine does between two such waits is a step.   *)
(* The object keeps one workflow_state and one validation cycle counter for *)
(* all its operations.                                                      *)
(***************************************************************************)
EXTENDS Naturals

CONSTANTS
    Ops,                  \* operations, each one call of execute_phase_one
    max_refinement_cycles \* Earth validation rounds of a validation

ASSUME CyclesAssumption == max_refinement_cycles \in Nat

VARIABLES
    pc,             \* what each operation waits for
    approved,       \* the task analysis it holds is one Earth approved
    current_cycle,  \* validator.current_cycle
    state,          \* self.workflow_state: the operation that made this dict
    dicts,          \* the contents of the dict each operation made
    record,         \* the dict stored under each operation's key
    validations,    \* history: validations begun
    earth_calls,    \* history: rounds begun, over all validations
    alone           \* history: no other operation ran while this one did

status == <<state, dicts, record, alone>>
validation == <<approved, current_cycle, validations, earth_calls>>
workflowVars == <<pc, status, validation>>

Agents == {"garden_planner", "environmental_analysis",
           "root_system_architect", "tree_placement_planner"}

NoOp == "no operation"

\* Called agents by what the operation waits for.  "align" is the Water
\* agent's coordination before the rounds, "validate" Earth, "refine" the
\* Garden Planner again.  A handoff is a Water coordination between agents.
Receiver == [garden_to_env |-> "environmental_analysis",
             env_to_root   |-> "root_system_architect",
             root_to_tree  |-> "tree_placement_planner"]
HandoffAfter == [environmental_analysis |-> "env_to_root",
                 root_system_architect  |-> "root_to_tree"]
Validating == {"align", "validate", "refine"}
Ended == {"completed", "failed"}
Waits == {"idle"} \union Agents \union Validating \union DOMAIN Receiver \union Ended

Active == {o \in Ops : pc[o] \notin {"idle"} \union Ended}

Init ==
    /\ pc = [o \in Ops |-> "idle"]
    /\ approved = [o \in Ops |-> FALSE]
    /\ current_cycle = 0
    /\ state = NoOp
    /\ dicts = [o \in Ops |-> [status |-> "not_started", agent |-> "none"]]
    /\ record = [o \in Ops |-> NoOp]
    /\ validations = 0 /\ earth_calls = 0
    /\ alone = [o \in Ops |-> TRUE]

Goto(o, wait) == pc' = [pc EXCEPT ![o] = wait]

\* Change the dict that self.workflow_state is now, and store that dict under
\* the operation's key.  The state manager keeps a reference, not a copy.
Report(o, contents) ==
    /\ dicts' = [dicts EXCEPT ![state] = contents]
    /\ record' = [record EXCEPT ![o] = state]
    /\ UNCHANGED <<state, alone>>

\* Mutant: the failure is not written to the record.
Fails_Unreported(o) ==
    /\ Goto(o, "failed")
    /\ UNCHANGED status

\* An agent raised: the operation ends as failed.
Fails(o) ==
    /\ Goto(o, "failed")
    /\ Report(o, [dicts[state] EXCEPT !.status = "failed"])

-----------------------------------------------------------------------------
\* execute_phase_one is called: a new dict becomes workflow_state.
Begin(o) ==
    /\ pc[o] = "idle"
    /\ Goto(o, "garden_planner")
    /\ state' = o
    /\ dicts' = [dicts EXCEPT ![o] = [status |-> "started", agent |-> "garden_planner"]]
    /\ record' = [record EXCEPT ![o] = o]
    /\ alone' = [p \in Ops |-> alone[p] /\ (IF p = o THEN Active = {} ELSE p \notin Active)]
    /\ UNCHANGED validation

\* The initial analysis is usable: the validator starts over, for everybody.
Planned(o) ==
    /\ pc[o] = "garden_planner"
    /\ Goto(o, "align")
    /\ current_cycle' = 0
    /\ validations' = validations + 1
    /\ UNCHANGED <<status, approved, earth_calls>>

\* The initial analysis is an error, incomplete, or the planner raised.
NotPlanned(o) ==
    /\ pc[o] = "garden_planner"
    /\ Fails(o)
    /\ UNCHANGED validation

\* Mutant: the loop runs once more.
RoundOrGiveUp_OneMore(o) ==
    /\ IF current_cycle <= max_refinement_cycles
         THEN /\ current_cycle' = current_cycle + 1
              /\ earth_calls' = earth_calls + 1
              /\ Goto(o, "validate")
         ELSE /\ Goto(o, "garden_to_env")
              /\ UNCHANGED <<current_cycle, earth_calls>>
    /\ UNCHANGED <<status, approved, validations>>

\* The loop condition: another round with Earth, or the cycles are used up.
RoundOrGiveUp(o) ==
    /\ IF current_cycle < max_refinement_cycles
         THEN /\ current_cycle' = current_cycle + 1
              /\ earth_calls' = earth_calls + 1
              /\ Goto(o, "validate")
         ELSE /\ Goto(o, "garden_to_env")
              /\ UNCHANGED <<current_cycle, earth_calls>>
    /\ UNCHANGED <<status, approved, validations>>

\* The coordination of planner and Earth ended, in whatever way.
Aligned(o) == pc[o] = "align" /\ RoundOrGiveUp(o)

Approves(o) ==
    /\ pc[o] = "validate"
    /\ approved' = [approved EXCEPT ![o] = TRUE]
    /\ Goto(o, "garden_to_env")
    /\ UNCHANGED <<status, current_cycle, validations, earth_calls>>

\* IF Earth corrects or rejects AND cycles are left THEN the planner refines
\* ELSE (also for an answer of no known category) validation ends.
Refuses(o) ==
    /\ pc[o] = "validate"
    /\ \/ current_cycle < max_refinement_cycles /\ Goto(o, "refine")
       \/ Goto(o, "garden_to_env")
    /\ UNCHANGED <<status, validation>>

\* Mutant: a refined analysis goes to Earth without the loop condition.
Refined_FreeRound(o) ==
    /\ pc[o] = "refine"
    /\ earth_calls' = earth_calls + 1
    /\ Goto(o, "validate")
    /\ UNCHANGED <<status, approved, current_cycle, validations>>

\* A refinement that raises keeps the analysis; one that returns replaces it.
Refined(o) == pc[o] = "refine" /\ RoundOrGiveUp(o)

\* The validation timeout cancels the rounds wherever they wait (or one of
\* them raises): the operation goes on with the initial analysis.
ValidationTimesOut(o) ==
    /\ pc[o] \in Validating
    /\ Goto(o, "garden_to_env")
    /\ UNCHANGED <<status, validation>>

-----------------------------------------------------------------------------
\* The coordination between two agents ended, in whatever way.  It hands the
\* output over as it came: the Water agent is made before the coordinator's
\* agent interface, and a detector without one finds nothing.
HandedOver(o) ==
    /\ pc[o] \in DOMAIN Receiver
    /\ Goto(o, Receiver[pc[o]])
    /\ Report(o, [dicts[state] EXCEPT !.agent = Receiver[pc[o]]])
    /\ UNCHANGED validation

\* Whatever an agent returns counts as success, an error dict too.
AgentReturns(o) ==
    /\ pc[o] \in DOMAIN HandoffAfter
    /\ Goto(o, HandoffAfter[pc[o]])
    /\ UNCHANGED <<status, validation>>

AgentRaises(o) ==
    /\ pc[o] \in DOMAIN HandoffAfter \union {"tree_placement_planner"}
    /\ Fails(o)
    /\ UNCHANGED validation

\* The tree planner returned (and the Fire agent's check ended, in whatever
\* way): the operation is complete.
PlannerReturns(o) ==
    /\ pc[o] = "tree_placement_planner"
    /\ Goto(o, "completed")
    /\ Report(o, [status |-> "completed", agent |-> "none"])
    /\ UNCHANGED validation

\* What an operation does by itself once it began.
Proceed(o) ==
    \/ Planned(o) \/ NotPlanned(o)
    \/ Aligned(o) \/ Approves(o) \/ Refuses(o) \/ Refined(o) \/ ValidationTimesOut(o)
    \/ HandedOver(o) \/ AgentReturns(o) \/ AgentRaises(o) \/ PlannerReturns(o)

-----------------------------------------------------------------------------
(* Properties *)

Contents == [status : {"not_started", "started", "completed", "failed"},
             agent : Agents \union {"none"}]

\* Every variable keeps its type; the shared counter stays within its limit,
\* whichever operations reset and advance it.
WorkflowTypeOK ==
    /\ pc \in [Ops -> Waits]
    /\ approved \in [Ops -> BOOLEAN]
    /\ current_cycle \in 0..max_refinement_cycles
    /\ state \in Ops \union {NoOp}
    /\ dicts \in [Ops -> Contents]
    /\ record \in [Ops -> Ops \union {NoOp}]
    /\ validations \in Nat /\ earth_calls \in Nat
    /\ alone \in [Ops -> BOOLEAN]

\* Although an operation can reset the counter under the rounds of another,
\* Earth is asked at most max_refinement_cycles times per validation on the
\* whole: an operation that gets rounds too many takes them from another.
RoundsBounded == earth_calls <= max_refinement_cycles * validations

\* The agent an operation is with, as workflow_state names it.
AgentAt(wait) ==
    CASE wait \in Validating \union {"garden_planner", "garden_to_env"} -> "garden_planner"
      [] wait \in {"environmental_analysis", "env_to_root"} -> "environmental_analysis"
      [] wait \in {"root_system_architect", "root_to_tree"} -> "root_system_architect"
      [] wait = "tree_placement_planner" -> wait
      [] wait = "completed" -> "none"

StatusAt(wait) == IF wait \in Ended THEN wait ELSE "started"

\* The record of an operation that never ran beside another tells how far it
\* is and how it ended: nothing done for earlier or later operations, whose
\* dicts are shared by reference, reaches it.
RecordRightWhenAlone ==
    \A o \in Ops : alone[o] /\ pc[o] # "idle" =>
        /\ record[o] = o
        /\ dicts[o].status = StatusAt(pc[o])
        /\ pc[o] # "failed" => dicts[o].agent = AgentAt(pc[o])

\* get_workflow_status: "Get current workflow status for an operation".
RecordRight ==
    \A o \in Ops : pc[o] # "idle" => dicts[record[o]].status = StatusAt(pc[o])

\* Class comment: "Feedback loop continues until validation passes or max
\* iterations reached" before "Environmental Analysis Agent processes
\* validated task analysis".
EnvironmentGetsValidated ==
    \A o \in Ops : pc[o] = "environmental_analysis"
        => approved[o] \/ current_cycle = max_refinement_cycles
=============================================================================
