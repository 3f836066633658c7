--------------------------- MODULE PhaseCoordinator ---------------------------
(***************************************************************************)
(* The phase coordinator (resources/phase_coordinator/): PhaseManager with *)
(* the states of the phases, NestedExecutionManager, which runs a child    *)
(* phase on behalf of its parent and keeps a record of it,                 *)
(* CheckpointManager, and PhaseMonitor, which gives up records that stay   *)
(* pending.  They are coroutines of one loop; an action is what runs       *)
(* between two awaits.  What executes a phase is simulated by the code.    *)
(*                                                                         *)
(* The state manager, the event queue, the metrics and the circuit         *)
(* breakers are the environment.  _update_phase_state sets the state of    *)
(* the context first and then asks the state manager, which may raise: the *)
(* program's own one does not know the arguments and raises every time.    *)
(***************************************************************************)
EXTENDS Naturals, FiniteSets

CONSTANTS
    Phases,      \* phase ids
    Executions,  \* slots for calls of start_phase, each used once
    MaxAsks      \* bound on pauses, resumptions, aborts, checkpoints and restorations

ASSUME AsksAssumption == MaxAsks \in Nat

NoPhase == "none"

VARIABLES
    after,        \* PhaseManager._phase_dependencies
    phase_state,  \* the state of a phase's context; "NONE" before initialize_phase
    child_phases, \* PhaseContext.child_phases
    active,       \* PhaseManager._active_phases
    aborting,     \* phases that an abort has yet to take from them
    checkpoint,   \* phase -> the state and the children last checkpointed
    execution,    \* what is executed and where it is
    nested,       \* the status of a nested execution's record
    orphaned,     \* records that the monitor has found and is to give up
    asks,         \* pauses, aborts and so on so far
    disturbed,    \* phases started twice, paused, aborted, restored or cancelled
    unrecorded    \* phases cancelled, or with a failure that could not be recorded

phaseVars ==
    <<after, phase_state, child_phases, active, aborting, checkpoint,
      execution, nested, orphaned, asks, disturbed, unrecorded>>

PhaseStates == {"NONE", "READY", "RUNNING", "PAUSED", "COMPLETED", "FAILED", "ABORTED"}
Outcomes == {"success", "error", "raised"}
Places == {"idle", "prepare", "check", "enter", "told", "work", "completing", "closing",
           "failing"} \cup Outcomes
Statuses == {"none", "pending", "completed", "failed", "recovered"}

initial == [state |-> "NONE", children |-> {}]

PhaseInit ==
    /\ after = [p \in Phases |-> {}]
    /\ phase_state = [p \in Phases |-> "NONE"]
    /\ child_phases = [p \in Phases |-> {}]
    /\ active = {} /\ aborting = {}
    /\ checkpoint = [p \in Phases |-> initial]
    /\ execution = [e \in Executions |-> [phase |-> NoPhase, at |-> "idle"]]
    /\ nested = [e \in Executions |-> "none"]
    /\ orphaned = {} /\ asks = 0 /\ disturbed = {} /\ unrecorded = {}

Known(p) == phase_state[p] # "NONE"
phase(e) == execution[e].phase
At(e, place) == execution[e].at = place
Over(e) == execution[e].at \in Outcomes
Executing(p) == {e \in Executions : phase(e) = p /\ ~Over(e)}

\* What the steps of an execution leave alone.
treeVars == <<after, child_phases, aborting, checkpoint, orphaned, asks, disturbed>>

Moves(e, place) == execution' = [execution EXCEPT ![e].at = place]
Becomes(p, s) == phase_state' = [phase_state EXCEPT ![p] = s]

\* What becomes of the record: what start_phase returns, an error too,
\* completes it; what raises, the last metric included, fails it, unless a
\* handler recovers it.
RecordAfter(how) ==
    {"failed", "recovered"} \cup IF how = "raised" THEN {} ELSE {"completed"}

\* start_phase is over, and with it the nested execution that called it.
Ends(e, how) ==
    /\ Moves(e, how)
    /\ IF nested[e] = "none" THEN UNCHANGED nested
       ELSE \E s \in RecordAfter(how) : nested' = [nested EXCEPT ![e] = s]
    /\ UNCHANGED treeVars

-----------------------------------------------------------------------------
\* Mutants: mistakes the properties must reject.  No run uses them as they
\* stand; each is put in the place of the definition it is named after.

\* Mutant: what raises after the completion leaves the phase completed.
Raises_Completed(e) ==
    /\ execution[e].at \in {"told", "work", "completing", "closing"} /\ Moves(e, "failing")
    /\ IF At(e, "closing") THEN UNCHANGED phase_state ELSE Becomes(phase(e), "FAILED")
    /\ UNCHANGED <<active, nested, treeVars, unrecorded>>

-----------------------------------------------------------------------------
\* initialize_phase; a phase that is known already is refused.  Only a parent
\* that is known by now learns of its child.
InitializePhase(p, parent, dependencies) ==
    /\ ~Known(p) /\ Becomes(p, "READY")
    /\ after' = [after EXCEPT ![p] = dependencies]
    /\ child_phases' = [q \in Phases |->
           IF q = parent /\ Known(q) THEN child_phases[q] \cup {p} ELSE child_phases[q]]
    /\ UNCHANGED <<active, aborting, checkpoint, execution, nested, orphaned, asks,
                   disturbed, unrecorded>>

\* A call for p begins at a place; a second one disturbs the first.
Begins(e, p, place) ==
    /\ At(e, "idle")
    /\ execution' = [execution EXCEPT ![e] = [phase |-> p, at |-> place]]
    /\ disturbed' = IF \E d \in Executions : phase(d) = p THEN disturbed \cup {p} ELSE disturbed
    /\ UNCHANGED <<after, phase_state, child_phases, active, aborting, checkpoint, orphaned,
                   asks, unrecorded>>

\* start_phase by the coordinator's own caller.
StartPhase(e, p) == Known(p) /\ Begins(e, p, "check") /\ UNCHANGED nested

\* coordinate_nested_execution: only for a child in the parent's context.
Coordinate(e, p, q) ==
    /\ Known(p) /\ q \in child_phases[p]
    /\ Begins(e, q, "prepare")
    /\ nested' = [nested EXCEPT ![e] = "pending"]

\* The metrics are recorded and the handlers of the transition ran.
Prepared(e) ==
    /\ At(e, "prepare") /\ Moves(e, "check")
    /\ UNCHANGED <<phase_state, active, nested, treeVars, unrecorded>>

\* Before the child is started nothing catches what raises: the record stays.
PreparationRaises(e) ==
    /\ At(e, "prepare") /\ Moves(e, "raised")
    /\ UNCHANGED <<phase_state, active, nested, treeVars, unrecorded>>

\* The dependencies are looked at once; the state of the phase is not.
DependenciesMet(e) ==
    /\ At(e, "check") /\ Moves(e, "enter")
    /\ \A d \in after[phase(e)] : phase_state[d] = "COMPLETED"
    /\ UNCHANGED <<phase_state, active, nested, treeVars, unrecorded>>

\* A dependency is missing, or the circuit breaker of the coordinator is open.
Refused(e) ==
    /\ At(e, "check") /\ Ends(e, "error")
    /\ \/ \E d \in after[phase(e)] : phase_state[d] # "COMPLETED"
       \/ nested[e] = "none"
    /\ UNCHANGED <<phase_state, active, unrecorded>>

Entered(e) ==
    /\ At(e, "enter") /\ Moves(e, "told")
    /\ Becomes(phase(e), "RUNNING")
    /\ UNCHANGED <<active, nested, treeVars, unrecorded>>

Activated(e) ==
    /\ At(e, "told") /\ Moves(e, "work")
    /\ active' = active \cup {phase(e)}
    /\ UNCHANGED <<phase_state, nested, treeVars, unrecorded>>

\* The work is done: completed, whatever the state is by now.
Worked(e) ==
    /\ At(e, "work") /\ Moves(e, "completing")
    /\ Becomes(phase(e), "COMPLETED")
    /\ UNCHANGED <<active, nested, treeVars, unrecorded>>

PhaseCompleted(e) ==
    /\ At(e, "completing") /\ Moves(e, "closing")
    /\ active' = active \ {phase(e)}
    /\ UNCHANGED <<phase_state, nested, treeVars, unrecorded>>

Succeeds(e) ==
    /\ At(e, "closing") /\ Ends(e, "success")
    /\ UNCHANGED <<phase_state, active, unrecorded>>

\* An update, a metric or the work raises an Exception: the phase has failed, by start_phase
\* or, from the work on, by _execute_phase and by start_phase once more.
Raises(e) ==
    /\ execution[e].at \in {"told", "work", "completing", "closing"} /\ Moves(e, "failing")
    /\ Becomes(phase(e), "FAILED")
    /\ UNCHANGED <<active, nested, treeVars, unrecorded>>

\* The failure is recorded; the metric and the event that follow may raise.
Failed(e) ==
    /\ At(e, "failing")
    /\ \E how \in {"error", "raised"} : Ends(e, how)
    /\ active' = active \ {phase(e)}
    /\ UNCHANGED <<phase_state, unrecorded>>

\* Not even the failure is recorded: start_phase raises and leaves the phase
\* among the active ones.
FailureRaises(e) ==
    /\ At(e, "failing") /\ Ends(e, "raised")
    /\ unrecorded' = unrecorded \cup {phase(e)}
    /\ UNCHANGED <<phase_state, active>>

\* Whoever awaits the execution cancels it.  The handlers are for an Exception:
\* the phase keeps its state and stays active, and a nested record stays as it
\* is.  (The coordinator's callers in the repository set no limit.)
ExecutionCancelled(e) ==
    /\ ~At(e, "idle") /\ ~Over(e) /\ Moves(e, "raised")
    /\ unrecorded' = unrecorded \cup {phase(e)} /\ disturbed' = disturbed \cup {phase(e)}
    /\ UNCHANGED <<after, phase_state, child_phases, active, aborting, checkpoint, nested,
                   orphaned, asks>>

-----------------------------------------------------------------------------
\* A caller asks for something about p, within the bound.
Asks(p) ==
    /\ asks < MaxAsks /\ asks' = asks + 1
    /\ UNCHANGED <<after, active, execution, nested, orphaned, unrecorded>>

PausePhase(p) ==
    /\ Asks(p) /\ phase_state[p] = "RUNNING" /\ Becomes(p, "PAUSED")
    /\ disturbed' = disturbed \cup {p}
    /\ UNCHANGED <<child_phases, aborting, checkpoint>>

ResumePhase(p) ==
    /\ Asks(p) /\ phase_state[p] = "PAUSED" /\ Becomes(p, "RUNNING")
    /\ UNCHANGED <<child_phases, aborting, checkpoint, disturbed>>

AbortPhase(p) ==
    /\ Asks(p) /\ phase_state[p] \in {"RUNNING", "PAUSED"} /\ Becomes(p, "ABORTED")
    /\ aborting' = aborting \cup {p} /\ disturbed' = disturbed \cup {p}
    /\ UNCHANGED <<child_phases, checkpoint>>

\* The abort is recorded, or not, which raises; the execution goes on.
AbortEnds(p) ==
    /\ p \in aborting /\ aborting' = aborting \ {p}
    /\ active' \in {active \ {p}, active}
    /\ UNCHANGED <<after, phase_state, child_phases, checkpoint, execution, nested, orphaned,
                   asks, disturbed, unrecorded>>

CreateCheckpoint(p) ==
    /\ Asks(p) /\ Known(p)
    /\ checkpoint' = [checkpoint EXCEPT ![p] =
                          [state |-> phase_state[p], children |-> child_phases[p]]]
    /\ UNCHANGED <<phase_state, child_phases, aborting, disturbed>>

\* A new context takes the place of the phase's, as of the checkpoint.
\* (rollback_to_checkpoint makes one too, but puts it nowhere.)
RestoreCheckpoint(p) ==
    /\ Asks(p) /\ checkpoint[p] # initial
    /\ Becomes(p, checkpoint[p].state)
    /\ child_phases' = [child_phases EXCEPT ![p] = checkpoint[p].children]
    /\ disturbed' = disturbed \cup {p}
    /\ UNCHANGED <<aborting, checkpoint>>

-----------------------------------------------------------------------------
\* The records that may have passed their timeouts.
Orphans == {e \in Executions : nested[e] = "pending"}

\* _check_orphaned_executions finds those that did ...
FindOrphans(S) ==
    /\ orphaned = {} /\ S # {} /\ S \subseteq Orphans /\ orphaned' = S
    /\ UNCHANGED <<after, phase_state, child_phases, active, aborting, checkpoint,
                   execution, nested, asks, disturbed, unrecorded>>

\* ... and, after it sent its warnings, marks one by one as failed, whatever
\* became of them meanwhile.
MarkOrphan(e) ==
    /\ e \in orphaned /\ orphaned' = orphaned \ {e}
    /\ nested' = [nested EXCEPT ![e] = "failed"]
    /\ UNCHANGED <<after, phase_state, child_phases, active, aborting, checkpoint,
                   execution, asks, disturbed, unrecorded>>

-----------------------------------------------------------------------------
ExecutionStep(e) ==
    \/ Prepared(e) \/ PreparationRaises(e) \/ DependenciesMet(e) \/ Refused(e)
    \/ Entered(e) \/ Activated(e) \/ Worked(e) \/ PhaseCompleted(e) \/ Succeeds(e)
    \/ Raises(e) \/ Failed(e) \/ FailureRaises(e)

PhaseNext ==
    \/ \E p \in Phases, parent \in Phases \cup {NoPhase} : \E D \in SUBSET (Phases \ {p}) :
          InitializePhase(p, parent, D)
    \/ \E e \in Executions, p \in Phases : StartPhase(e, p)
    \/ \E e \in Executions, p, q \in Phases : Coordinate(e, p, q)
    \/ \E p \in Phases : \/ PausePhase(p) \/ ResumePhase(p) \/ AbortPhase(p)
                         \/ AbortEnds(p) \/ CreateCheckpoint(p) \/ RestoreCheckpoint(p)
    \/ \E e \in Executions : ExecutionStep(e) \/ ExecutionCancelled(e) \/ MarkOrphan(e)
    \/ \E S \in SUBSET Executions : FindOrphans(S)

-----------------------------------------------------------------------------
\* Every variable has its type.
PhaseTypeOK ==
    /\ after \in [Phases -> SUBSET Phases]
    /\ phase_state \in [Phases -> PhaseStates]
    /\ child_phases \in [Phases -> SUBSET Phases]
    /\ active \subseteq Phases /\ aborting \subseteq Phases
    /\ checkpoint \in [Phases -> [state : PhaseStates, children : SUBSET Phases]]
    /\ execution \in [Executions -> [phase : Phases \cup {NoPhase}, at : Places]]
    /\ nested \in [Executions -> Statuses]
    /\ orphaned \subseteq Executions /\ asks \in Nat
    /\ disturbed \subseteq Phases /\ unrecorded \subseteq Phases

\* A phase among the active ones is being executed: neither an abort in the
\* middle nor a second execution nor a failure leaves one behind, unless its
\* very failure could not be recorded or its execution was cancelled.
ActiveAreExecuted ==
    \A p \in active : p \in unrecorded \/ Executing(p) # {}

\* A phase that was started once and that nobody paused, aborted, restored or
\* cancelled is completed in the end exactly if start_phase returned its result.
StateTellsOutcome ==
    \A e \in Executions :
        Over(e) /\ phase(e) \notin disturbed =>
            (phase_state[phase(e)] = "COMPLETED" <=> At(e, "success"))

\* What the coordinator says of its phases, while they run and in the end, is so.
PhasesToldRight == ActiveAreExecuted /\ StateTellsOutcome
=============================================================================
