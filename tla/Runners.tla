------------------------------- MODULE Runners -------------------------------
(***************************************************************************)
(* The runners of phase one (phase_one/runners): how the program is set up, *)
(* run and taken down again, with its window (main.py, gui/app.py,          *)
(* gui/lifecycle.py, gui/event_management.py) or on the command line        *)
(* (cli/interface.py), and the debugger's session (cli/debugger.py).  Any   *)
(* stage of the set-up may fail.  With the window a background thread       *)
(* watches the circuit breakers; it interleaves with the main thread.  What *)
(* phase one does with a prompt is PhaseOneOrchestrator's.                  *)
(***************************************************************************)
EXTENDS Naturals, Sequences

CONSTANT BreakStages  \* the stages that the user may set a breakpoint at

VARIABLES
    mode,      \* "gui" or "cli"
    stage,     \* the stages of the set-up that are done
    at,        \* what the main thread does
    queue,     \* the event queue: "none", "made", "started", "stopped", or
               \* "unstopped" if its stop raised
    worker,    \* the background thread
    loop_taken,           \* another loop is registered as the background loop
    _shutdown_background, \* the thread is told to end
    _healthcheck_timer,   \* the timer is active
    prompt_line  \* the debugger: its switches and where a stepped run is

runnerVars == <<mode, stage, at, queue, worker, loop_taken, _shutdown_background,
                _healthcheck_timer, prompt_line>>

GuiStages == <<"queue", "coordinators", "managers", "worker", "phase_zero",
               "components", "interface", "window", "window_async">>
CliStages == <<"queue", "managers", "phase_zero", "components", "debugger">>
Stages == IF mode = "gui" THEN GuiStages ELSE CliStages
Done(s) == \E i \in 1 .. stage : Stages[i] = s

\* What the debugger shows as the steps of a run, and the names it takes for a
\* breakpoint.
steps == <<"Initializing workflow", "Garden Planner processing",
           "Earth Agent validation", "Water Agent coordination",
           "Environmental Analysis", "Root System Architect",
           "Tree Placement Planner", "Phase Zero analysis", "Refinement processing">>
valid_stages == {"garden_planner", "earth_validation", "water_coordination",
                 "environmental_analysis", "root_system", "tree_placement",
                 "air_summary", "fire_decomposition", "phase_zero", "refinement"}

ASSUME BreakStagesAssumption == BreakStages \subseteq valid_stages

NewDebugger == [step_mode |-> FALSE, break_points |-> {}, current |-> FALSE,
                step |-> 0, hit |-> {}, ran |-> "no"]

RunnerInit ==
    /\ mode \in {"gui", "cli"}
    /\ stage = 0 /\ at = "starting" /\ queue = "none"
    /\ worker = "none" /\ loop_taken = FALSE /\ _shutdown_background = FALSE
    /\ _healthcheck_timer = FALSE /\ prompt_line = NewDebugger

Main(here, there) == at = here /\ at' = there

-----------------------------------------------------------------------------
\* Mutants: mistakes the properties must reject.  No run uses them as they
\* stand; each is put in the place of the definition it is named after.

\* Mutant: the thread is waited for without being told to end.
TellsWorker_Not ==
    /\ Main("cleaning", "joining") /\ worker \in {"starting", "registered", "working"}
    /\ UNCHANGED <<mode, stage, queue, worker, loop_taken, _shutdown_background,
                   _healthcheck_timer, prompt_line>>

-----------------------------------------------------------------------------
\* PhaseOneApp(): the timer, and the queue, which is started by the set-up.  If it
\* fails there is no app to close, whether the timer was started by then or not.
MakesApp ==
    /\ mode = "gui" /\ at = "starting" /\ queue = "none"
    /\ \/ /\ queue' = "made" /\ _healthcheck_timer' = TRUE /\ at' = at
       \/ /\ at' = "exited" /\ _healthcheck_timer' \in BOOLEAN /\ UNCHANGED queue
    /\ UNCHANGED <<mode, stage, worker, loop_taken, _shutdown_background, prompt_line>>

\* setup_async, setup_cli: the next stage.
SetsUp ==
    /\ at = "starting" /\ mode = "gui" => queue # "none"
    /\ at = "starting" /\ stage < Len(Stages)
    /\ stage' = stage + 1
    /\ queue' = IF Stages[stage + 1] = "queue" THEN "started" ELSE queue
    /\ worker' = IF Stages[stage + 1] = "worker" THEN "starting" ELSE worker
    /\ at' = IF stage + 1 = Len(Stages) THEN "running" ELSE at
    /\ UNCHANGED <<mode, loop_taken, _shutdown_background, _healthcheck_timer, prompt_line>>

\* A stage fails.  The queue may have been started by then.
SetupFails ==
    /\ at = "starting" /\ mode = "gui" => queue # "none"
    /\ at = "starting" /\ stage < Len(Stages) /\ at' = "closing"
    /\ UNCHANGED <<mode, stage, queue, worker, loop_taken, _shutdown_background,
                   _healthcheck_timer, prompt_line>>

-----------------------------------------------------------------------------
\* background_worker: a loop of the thread's own becomes the background loop; if
\* another took its place before the thread looks, the thread gives up.
WorkerRegisters ==
    /\ worker = "starting" /\ worker' = "registered" /\ loop_taken' = FALSE
    /\ UNCHANGED <<mode, stage, at, queue, _shutdown_background, _healthcheck_timer,
                   prompt_line>>

OtherRegisters ==
    /\ worker \in {"starting", "registered"} /\ ~loop_taken /\ loop_taken' = TRUE
    /\ UNCHANGED <<mode, stage, at, queue, worker, _shutdown_background,
                   _healthcheck_timer, prompt_line>>

WorkerChecks ==
    /\ worker = "registered"
    /\ worker' = IF loop_taken THEN "gone" ELSE "working"
    /\ UNCHANGED <<mode, stage, at, queue, loop_taken, _shutdown_background,
                   _healthcheck_timer, prompt_line>>

\* It ends when it is told to, or when the monitoring cannot be started.
WorkerEnds(told) ==
    /\ worker = "working" /\ worker' = "gone"
    /\ told => _shutdown_background
    /\ UNCHANGED <<mode, stage, at, queue, loop_taken, _shutdown_background,
                   _healthcheck_timer, prompt_line>>

-----------------------------------------------------------------------------
\* The window is closed, or a signal comes.
Quits ==
    /\ mode = "gui" /\ Main("running", "closing")
    /\ UNCHANGED <<mode, stage, queue, worker, loop_taken, _shutdown_background,
                   _healthcheck_timer, prompt_line>>

\* LifecycleManager.shutdown: the window goes; neither the orchestrator nor the
\* event queue has what the clean-up looks for.
ShutsDown ==
    /\ mode = "gui" /\ Main("closing", "cleaning")
    /\ UNCHANGED <<mode, stage, queue, worker, loop_taken, _shutdown_background,
                   _healthcheck_timer, prompt_line>>

\* EventManager.cleanup.  The thread that was never made has no is_alive: the
\* clean-up ends there.
NoWorker ==
    /\ worker = "none" /\ Main("cleaning", "exited")
    /\ UNCHANGED <<mode, stage, queue, worker, loop_taken, _shutdown_background,
                   _healthcheck_timer, prompt_line>>

TellsWorker ==
    /\ Main("cleaning", "joining") /\ worker \in {"starting", "registered", "working"}
    /\ _shutdown_background' = TRUE
    /\ UNCHANGED <<mode, stage, queue, worker, loop_taken, _healthcheck_timer, prompt_line>>

\* The thread has ended, or five seconds are over; then the timer is stopped.
Cleaned ==
    /\ at = "joining" \/ (at = "cleaning" /\ worker = "gone")
    /\ at' = "exited" /\ _healthcheck_timer' = FALSE
    /\ UNCHANGED <<mode, stage, queue, worker, loop_taken, _shutdown_background, prompt_line>>

\* PhaseOneCLI.cleanup: what it shuts down is known to it once the set-up is
\* complete.  A stop that raises is logged.
CleansCli ==
    /\ at = "closing" /\ mode = "cli" /\ at' = "exited"
    /\ IF Done("debugger") THEN queue' \in {"stopped", "unstopped"} ELSE UNCHANGED queue
    /\ UNCHANGED <<mode, stage, worker, loop_taken, _shutdown_background,
                   _healthcheck_timer, prompt_line>>

-----------------------------------------------------------------------------
\* The debugger's commands; a stepped run takes the next line itself.
Typing == mode = "cli" /\ at = "running"
Prompted == Typing /\ prompt_line.step = 0
Types(line) ==
    /\ prompt_line' = line
    /\ UNCHANGED <<mode, stage, at, queue, worker, loop_taken, _shutdown_background,
                   _healthcheck_timer>>

CmdStep == Prompted /\ \E on \in BOOLEAN : Types([prompt_line EXCEPT !.step_mode = on])

CmdBreakpoint ==
    Prompted /\ \E s \in BreakStages :
        Types([prompt_line EXCEPT !.break_points = @ \cup {s}])

CmdReset ==
    /\ Prompted
    /\ Types([prompt_line EXCEPT !.step_mode = FALSE, !.break_points = {}, !.current = FALSE])

\* A run without stepping goes straight to the orchestrator, whose result is
\* printed or whose exception is.
CmdRun ==
    /\ Prompted
    /\ IF prompt_line.step_mode
       THEN Types([prompt_line EXCEPT !.current = TRUE, !.step = 1, !.ran = "no",
                       !.hit = {steps[1]} \cap prompt_line.break_points])
       ELSE Types([prompt_line EXCEPT !.current = TRUE, !.ran = "yes", !.hit = {}])

\* Before a step its name is looked up among the breakpoints.  "q" gives the run
\* up, "c" ends the stepping, of later runs as well; the last step begins the run.
StepsOn ==
    /\ Typing /\ prompt_line.step > 0
    /\ LET i == prompt_line.step
       IN  \/ Types([prompt_line EXCEPT !.step = 0, !.ran = "aborted"])
           \/ Types([prompt_line EXCEPT !.step = 0, !.ran = "yes", !.step_mode = FALSE])
           \/ IF i = Len(steps) THEN Types([prompt_line EXCEPT !.step = 0, !.ran = "yes"])
              ELSE Types([prompt_line EXCEPT !.step = i + 1,
                              !.hit = @ \cup ({steps[i + 1]} \cap prompt_line.break_points)])

CmdQuit ==
    /\ Prompted /\ at' = "closing"
    /\ UNCHANGED <<mode, stage, queue, worker, loop_taken, _shutdown_background,
                   _healthcheck_timer, prompt_line>>

RunnerNext ==
    \/ MakesApp \/ SetsUp \/ SetupFails
    \/ WorkerRegisters \/ OtherRegisters \/ WorkerChecks
    \/ \E told \in BOOLEAN : WorkerEnds(told)
    \/ Quits \/ ShutsDown \/ NoWorker \/ TellsWorker \/ Cleaned \/ CleansCli
    \/ CmdStep \/ CmdBreakpoint \/ CmdReset \/ CmdRun \/ StepsOn \/ CmdQuit

RunnerSpec == RunnerInit /\ [][RunnerNext]_runnerVars

-----------------------------------------------------------------------------
\* The runners' variables keep their types.
RunnerTypeOK ==
    /\ mode \in {"gui", "cli"} /\ stage \in 0 .. Len(Stages)
    /\ at \in {"starting", "running", "closing", "cleaning", "joining", "exited"}
    /\ queue \in {"none", "made", "started", "stopped", "unstopped"}
    /\ worker \in {"none", "starting", "registered", "working", "gone"}
    /\ loop_taken \in BOOLEAN /\ _shutdown_background \in BOOLEAN
    /\ _healthcheck_timer \in BOOLEAN
    /\ prompt_line \in [step_mode : BOOLEAN, break_points : SUBSET BreakStages,
                        current : BOOLEAN, step : 0 .. Len(steps),
                        hit : SUBSET BreakStages, ran : {"no", "yes", "aborted"}]

\* When the program has exited, whatever failed on the way, the thread has ended or
\* was told to, and no more is left running than this: the timer of a window that
\* failed before it had its thread, the queue of a window, and the queue of a
\* command line that failed before it had its debugger.  (Those three are left.)
TakenDown ==
    at = "exited" =>
        /\ worker \in {"none", "gone"} \/ _shutdown_background
        /\ _healthcheck_timer => mode = "gui" /\ worker = "none"
        /\ queue = "started" => mode = "gui" \/ ~Done("debugger")

\* Not so: the event queue is never running after the program took itself down
\* (gui/lifecycle.py: "Shutdown event queue last", "Event queue cleanup completed").
QueueStopped == at = "exited" => queue # "started"

\* Not so: a run that is stepped to its end with a breakpoint set stops at one.
BreakpointsHit ==
    prompt_line.step = Len(steps) /\ prompt_line.break_points # {} => prompt_line.hit # {}
=============================================================================
