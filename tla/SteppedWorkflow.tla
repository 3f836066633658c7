--------------------------- MODULE SteppedWorkflow ---------------------------
(***************************************************************************)
(* Phase one, step by step (phase_one/runners/gui/interface.py             *)
(* PhaseOneInterface) and the window that drives it                        *)
(* (display/core/main_window.py _process_prompt_async).                    *)
(*                                                                         *)
(* The record of an operation is one dict: the state manager's entry and   *)
(* every caller hold the same object.  A caller of execute_next_step reads *)
(* steps_completed and current_step when it begins and writes both when    *)
(* its step is over; in between it awaits an agent or a delay.  An action  *)
(* is what runs between two awaits.                                        *)
(***************************************************************************)
EXTENDS Naturals, Sequences, FiniteSets, SequencesExt

CONSTANTS
    step_sequence,     \* the steps in their order
    Workflows,         \* operation ids
    Window,            \* the caller that is the GUI's window
    Steppers,          \* the other callers
    max_step_retries,  \* execute_next_step starts a step again this often
    max_retries        \* _execute_single_step asks an agent again this often

ASSUME SequenceAssumption ==
    /\ step_sequence \in Seq(STRING) /\ Len(step_sequence) > 1
    /\ IsInjective(step_sequence)
    /\ {"ready", "completed"} \cap ToSet(step_sequence) = {}
ASSUME RetriesAssumption == max_step_retries \in Nat /\ max_retries \in Nat
ASSUME WindowAssumption == Window \notin Steppers

VARIABLES
    record,    \* operation -> its dict
    stored,    \* the operations with an entry in the state manager
    stepping,  \* caller -> where its execute_next_step is
    progress,  \* caller -> what its execute_next_step knows
    prompt,    \* the window's handling of the prompt
    shared     \* operations with two calls of execute_next_step at a time

steppedVars == <<record, stored, stepping, progress, prompt, shared>>

StepNames == ToSet(step_sequence)
First == step_sequence[1]
Final == step_sequence[Len(step_sequence)]
Outcomes == {"success", "error"}
Missing == "missing"
StepCallers == Steppers \cup {Window}

Following(step) ==
    LET i == CHOOSE k \in DOMAIN step_sequence : step_sequence[k] = step
    IN  IF i = Len(step_sequence) THEN "completed" ELSE step_sequence[i + 1]

Waiting == {"asking", "resting", "restarting", "saving"}
Answers == {"none", "step", "completed", "error"}

Unused == [status |-> "unused", current_step |-> "ready", steps_completed |-> <<>>,
           step_results |-> [s \in StepNames |-> Missing]]

Unstarted == [on |-> Missing, step |-> First, before |-> <<>>, restarts |-> 0,
              retries |-> 0, answer |-> "none"]

\* entry tells whether the operation's entry was removed while the prompt was at work.
Blank == [at |-> "ready", on |-> Missing, round |-> 0, outputs |-> {}, entry |-> "kept"]

SteppedInit ==
    /\ record = [o \in Workflows |-> Unused]
    /\ stored = {}
    /\ stepping = [c \in StepCallers |-> "idle"]
    /\ progress = [c \in StepCallers |-> Unstarted]
    /\ prompt = Blank
    /\ shared = {}

Moves(c, place) == stepping' = [stepping EXCEPT ![c] = place]
Notes(c, field, value) == progress' = [progress EXCEPT ![c][field] = value]

-----------------------------------------------------------------------------
\* Mutants: mistakes the properties must reject.  No run uses them as they
\* stand; each is put in the place of the definition it is named after.

\* Mutant: only a step that succeeded counts as completed, with its result kept.
Recorded_Succeeded(o, c, outcome) ==
    record' = [record EXCEPT
        ![o].current_step = progress[c].step,
        ![o].steps_completed =
            IF outcome = "success" THEN progress[c].before \o <<progress[c].step>> ELSE @,
        ![o].step_results[progress[c].step] = outcome,
        ![o].status = IF outcome = "error" THEN "error" ELSE "running"]

-----------------------------------------------------------------------------
\* start_phase_one stores a fresh dict under an id of its own.
Begun(o) ==
    /\ record[o].status = "unused"
    /\ record' = [record EXCEPT ![o].status = "initialized"]
    /\ stored' = stored \cup {o}

StartWorkflow(o) == Begun(o) /\ UNCHANGED <<stepping, progress, prompt, shared>>

\* The output a step needs is there: "... output required for ...".
HasInput(o, step) ==
    step = First \/ \E s \in StepNames :
                        Following(s) = step /\ record[o].step_results[s] # Missing

Answered(c, o, answer) ==
    /\ Moves(c, "answered")
    /\ progress' = [progress EXCEPT ![c] = [Unstarted EXCEPT !.on = o, !.answer = answer]]

\* The step that follows the current one.
NextStep(o) == IF record[o].current_step = "ready" THEN First
               ELSE Following(record[o].current_step)

\* execute_next_step begins.  After the last step, were it a failure, the
\* operation is marked as completed; else the next step asks its agent.
ExecuteNext(c, o) ==
    /\ stepping[c] = "idle"
    /\ IF o \notin stored
       THEN Answered(c, o, "error") /\ UNCHANGED <<record, shared>>
       ELSE IF record[o].current_step = "completed"
       THEN Answered(c, o, "completed") /\ UNCHANGED <<record, shared>>
       ELSE IF NextStep(o) = "completed"
       THEN /\ record' = [record EXCEPT ![o].status = "completed",
                                        ![o].current_step = "completed"]
            /\ Moves(c, "saving")
            /\ progress' = [progress EXCEPT ![c] =
                   [Unstarted EXCEPT !.on = o, !.answer = "completed"]]
            /\ UNCHANGED shared
       ELSE /\ HasInput(o, NextStep(o))
            /\ Moves(c, "asking")
            /\ progress' = [progress EXCEPT ![c] =
                   [Unstarted EXCEPT !.on = o, !.step = NextStep(o),
                                     !.before = record[o].steps_completed]]
            /\ shared' = IF \E d \in StepCallers \ {c} :
                                stepping[d] \in Waiting /\ progress[d].on = o
                         THEN shared \cup {o} ELSE shared
            /\ UNCHANGED record
    /\ UNCHANGED stored

Execute(c, o) == ExecuteNext(c, o) /\ c # Window /\ UNCHANGED prompt

\* The step's outcome goes into the dict, together with the steps that were
\* completed when the call began.
Recorded(o, c, outcome) ==
    record' = [record EXCEPT
        ![o].current_step = IF outcome = "success" /\ progress[c].step = Final
                            THEN "completed" ELSE progress[c].step,
        ![o].steps_completed = progress[c].before \o <<progress[c].step>>,
        ![o].step_results[progress[c].step] = outcome,
        ![o].status = IF outcome = "error" THEN "error"
                      ELSE IF progress[c].step = Final THEN "completed" ELSE "running"]

StepEnds(c, outcome) ==
    /\ Recorded(progress[c].on, c, outcome)
    /\ Moves(c, "saving") /\ Notes(c, "answer", "step")

\* The agent's process returns, whatever it returns.
AgentReturns(c) ==
    /\ stepping[c] = "asking" /\ StepEnds(c, "success")
    /\ UNCHANGED <<stored, prompt, shared>>

\* Its error names something required, missing or not found: no other attempt.
AgentRefuses(c) ==
    /\ stepping[c] = "asking" /\ StepEnds(c, "error")
    /\ UNCHANGED <<stored, prompt, shared>>

\* All attempts failed: the whole step is begun again after a delay.
Restart(c) ==
    /\ progress[c].restarts < max_step_retries
    /\ Moves(c, "restarting")
    /\ UNCHANGED <<record, progress>>

\* It times out, or raises any other exception.
AgentFails(c) ==
    /\ stepping[c] = "asking"
    /\ IF progress[c].retries < max_retries
       THEN Moves(c, "resting") /\ UNCHANGED <<record, progress>>
       ELSE \/ Restart(c)
            \/ progress[c].restarts = max_step_retries /\ StepEnds(c, "error")
    /\ UNCHANGED <<stored, prompt, shared>>

\* The delay is over; the step reads its input from the dict again.
AsksAgain(c) ==
    /\ stepping[c] = "resting" /\ Moves(c, "asking")
    /\ Notes(c, "retries", progress[c].retries + 1)
    /\ UNCHANGED <<record, stored, prompt, shared>>

BeginsAgain(c) ==
    /\ stepping[c] = "restarting" /\ Moves(c, "asking")
    /\ progress' = [progress EXCEPT ![c].retries = 0, ![c].restarts = @ + 1]
    /\ UNCHANGED <<record, stored, prompt, shared>>

\* set_state stores the dict, again if the entry was removed meanwhile.
Saved(c) ==
    /\ stepping[c] = "saving" /\ Moves(c, "answered")
    /\ stored' = stored \cup {progress[c].on}
    /\ UNCHANGED <<record, progress, prompt, shared>>

\* set_state raises: "System error".
SaveFails(c) ==
    /\ stepping[c] = "saving" /\ Moves(c, "answered")
    /\ Notes(c, "answer", "error")
    /\ UNCHANGED <<record, stored, prompt, shared>>

\* The caller takes the answer, or gives up waiting for it.
Leaves(c) ==
    /\ stepping[c] # "idle"
    /\ Moves(c, "idle")
    /\ progress' = [progress EXCEPT ![c] = Unstarted]
    /\ UNCHANGED <<record, stored, shared>>

StepperLeaves(c) == c # Window /\ Leaves(c) /\ UNCHANGED prompt

\* cleanup_workflow_state, reset_all_workflow_states
CleanUp(O) ==
    /\ stored \cap O # {} /\ stored' = stored \ O
    /\ prompt' = [prompt EXCEPT !.entry =
           IF prompt.at = "stepping" /\ prompt.on \in O THEN "removed" ELSE @]
    /\ UNCHANGED <<record, stepping, progress, shared>>

-----------------------------------------------------------------------------
\* The window: one prompt at a time, as many rounds as there are steps.

\* _handle_prompt_submission disables the prompt and starts an operation.
Submit(o) ==
    /\ prompt.at # "stepping" /\ Begun(o)
    /\ prompt' = [Blank EXCEPT !.at = "stepping", !.on = o]
    /\ UNCHANGED <<stepping, progress, shared>>

WindowExecutes ==
    /\ prompt.at = "stepping" /\ ExecuteNext(Window, prompt.on)
    /\ UNCHANGED prompt

\* The window resets the prompt and shows the outputs, or an error.
Shown(result) == prompt' = [prompt EXCEPT !.at = result]

Outputs(o) == {s \in StepNames : record[o].step_results[s] # Missing}

\* get_step_status, asked again: an entry that was removed has no results.
LookedUp(o) == IF o \in stored THEN Outputs(o) ELSE {}

WindowTakes ==
    /\ stepping[Window] = "answered"
    /\ \/ progress[Window].answer = "error" /\ Shown("failed")
       \/ /\ progress[Window].answer = "completed"
          /\ prompt' = [prompt EXCEPT !.at = "success", !.outputs = LookedUp(prompt.on)]
       \/ /\ progress[Window].answer = "step"
          /\ prompt' = [prompt EXCEPT
                 !.outputs = @ \cup {progress[Window].step}, !.round = @ + 1,
                 !.at = IF prompt.round + 1 = Len(step_sequence)
                        THEN "success" ELSE "stepping"]
    /\ Leaves(Window)

\* After two minutes the window cancels the step, which may just have ended.
TimedOut == Shown("failed")

WindowTimesOut == stepping[Window] # "idle" /\ TimedOut /\ Leaves(Window)

SteppedNext ==
    \/ \E o \in Workflows : StartWorkflow(o) \/ Submit(o)
    \/ \E c \in Steppers, o \in Workflows : Execute(c, o)
    \/ \E c \in StepCallers :
         \/ AgentReturns(c) \/ AgentRefuses(c) \/ AgentFails(c)
         \/ AsksAgain(c) \/ BeginsAgain(c) \/ Saved(c) \/ SaveFails(c)
         \/ StepperLeaves(c)
    \/ \E O \in {{o} : o \in Workflows} \cup {Workflows} : CleanUp(O)
    \/ WindowExecutes \/ WindowTakes \/ WindowTimesOut

SteppedSpec == SteppedInit /\ [][SteppedNext]_steppedVars

-----------------------------------------------------------------------------
\* The types of the variables; the attempts stay within both retry limits, so
\* that a step asks its agent (max_step_retries + 1) * (max_retries + 1) times
\* at most.
SteppedTypeOK ==
    /\ record \in [Workflows ->
           [status : {"unused", "initialized", "running", "error", "completed"},
            current_step : StepNames \cup {"ready", "completed"},
            steps_completed : Seq(StepNames),
            step_results : [StepNames -> Outcomes \cup {Missing}]]]
    /\ stored \subseteq Workflows
    /\ stepping \in [StepCallers -> Waiting \cup {"idle", "answered"}]
    /\ \A c \in StepCallers :
           /\ progress[c].on \in Workflows \cup {Missing}
           /\ progress[c].step \in StepNames
           /\ progress[c].restarts \in 0 .. max_step_retries
           /\ progress[c].retries \in 0 .. max_retries
           /\ progress[c].answer \in Answers
    /\ prompt.at \in {"ready", "stepping", "success", "failed"}
    /\ prompt.on \in Workflows \cup {Missing}
    /\ prompt.round \in 0 .. Len(step_sequence)
    /\ prompt.outputs \subseteq StepNames
    /\ prompt.entry \in {"kept", "removed"}
    /\ shared \subseteq Workflows

\* As long as no two calls worked on an operation at a time, whatever failed,
\* timed out or was removed meanwhile: its completed steps are the first ones
\* of the sequence, each once and in order, with a result for these and for no
\* other step; the current step is the last of them; and an operation that is
\* completed ran every step.
RecordTellsProgress ==
    \A o \in Workflows \ shared :
        LET done == record[o].steps_completed
        IN  /\ IsPrefix(done, step_sequence)
            /\ \A s \in StepNames :
                  (record[o].step_results[s] # Missing) <=> (s \in ToSet(done))
            /\ CASE record[o].current_step = "ready" -> done = <<>>
                 [] record[o].current_step = "completed" -> done = step_sequence
                 [] OTHER -> done # <<>> /\ Last(done) = record[o].current_step

\* When the window shows success, whatever other callers did in between, the
\* operation's record has a result of every step, and so do the outputs that the
\* window shows; it shows none only if the operation's entry was removed while the
\* prompt was at work.  A step that timed out, in time or with a late answer, never
\* counts as one of its rounds.
SuccessShowsEveryStep ==
    prompt.at = "success" /\ prompt.on \notin shared =>
        /\ Outputs(prompt.on) = StepNames
        /\ prompt.outputs = StepNames \/ (prompt.entry = "removed" /\ prompt.outputs = {})

\* What main_window.py says of a prompt that ran all its steps, "Phase One
\* completed successfully": no step failed.
SuccessMeansSucceeded ==
    prompt.at = "success" =>
        \A s \in StepNames : record[prompt.on].step_results[s] = "success"

\* What the record and the window say of an operation is so.
StepsToldRight == RecordTellsProgress /\ SuccessShowsEveryStep
=============================================================================
