------------------------------ MODULE Monitoring ------------------------------
(***************************************************************************)
(* The monitors that all managers share (resources/monitoring/): the       *)
(* memory monitor, the system monitor, and the monitoring of the circuit   *)
(* registry, which the system monitor starts and stops.  Each is a flag    *)
(* and a task.  Every manager may start and stop the first two             *)
(* (resources/base.py); stop() of the memory monitor waits for its loop,   *)
(* which looks at the flag when its sleep of minutes is over.  An action   *)
(* is what a coroutine does between two awaits.  What the monitors measure *)
(* and report is left out.                                                 *)
(***************************************************************************)
EXTENDS Naturals, FiniteSets

CONSTANTS
    Monitored,  \* the managers
    MaxLoops    \* bound: loops of the memory monitor ever begun

ASSUME LoopsAssumption == MaxLoops \in Nat

VARIABLES
    memory_running,    \* MemoryMonitor._running
    memory_loops,      \* loop -> what became of it; the last one is _monitoring_task
    system_running,    \* SystemMonitor._running
    system_task,       \* its task
    registry_running,  \* CircuitBreakerRegistry._running
    stop_at,          \* manager -> where its stop() is
    awaited,           \* manager -> the loop that its stop() waits for, or 0
    wanted,            \* history: the monitors were started, and no stop called since
    overlapped,        \* history: a start came before a stop was through
    cut                \* history: a stop was cancelled, or a monitor broke

monitorVars == <<memory_running, memory_loops, system_running, system_task,
                 registry_running, stop_at, awaited, wanted, overlapped, cut>>

Loops == 1 .. MaxLoops
Begun == {t \in Loops : memory_loops[t] # "none"}
Alive(t) == memory_loops[t] \in {"first", "looping"}
LastLoop == Cardinality(Begun)
WaitsForLoop == {"memory", "memory_again"}

MonitorInit ==
    /\ memory_running = FALSE /\ system_running = FALSE /\ registry_running = FALSE
    /\ memory_loops = [t \in Loops |-> "none"]
    /\ system_task = "none"
    /\ stop_at = [m \in Monitored |-> "no"]
    /\ awaited = [m \in Monitored |-> 0]
    /\ wanted = FALSE /\ overlapped = FALSE /\ cut = FALSE

StopGoesTo(m, place, loop) ==
    /\ stop_at' = [stop_at EXCEPT ![m] = place]
    /\ awaited' = [awaited EXCEPT ![m] = loop]

-----------------------------------------------------------------------------
\* MemoryMonitor.start: a monitor that is not running gets a loop, whatever the
\* loop before it is doing.
MemoryStarts ==
    IF memory_running /\ LastLoop > 0 /\ Alive(LastLoop)
    THEN UNCHANGED <<memory_running, memory_loops>>
    ELSE /\ LastLoop < MaxLoops
         /\ memory_running' = TRUE
         /\ memory_loops' = [memory_loops EXCEPT ![LastLoop + 1] = "first"]

\* SystemMonitor.start: nothing while it runs, and nothing while its last task
\* is still being cancelled.
SystemStarts ==
    IF system_running \/ system_task \in {"running", "cancelled"}
    THEN UNCHANGED <<system_running, system_task>>
    ELSE system_running' = TRUE /\ system_task' = "running"

\* MemoryMonitor.stop, as the first and as the last step of a manager's stop.
MemoryMustEnd == memory_running /\ LastLoop > 0

MemoryStops(m, place) ==
    /\ MemoryMustEnd /\ memory_running' = FALSE
    /\ StopGoesTo(m, place, LastLoop)

\* SystemMonitor.stop, up to its wait of two seconds for the task it cancels.
SystemStops(m) ==
    IF system_running
    THEN /\ system_running' = FALSE
         /\ system_task' = IF system_task = "running" THEN "cancelled" ELSE system_task
         /\ StopGoesTo(m, "system", 0)
    ELSE StopGoesTo(m, "no", 0) /\ UNCHANGED <<system_running, system_task>>

-----------------------------------------------------------------------------
\* Mutants: mistakes the properties must reject.  No run uses them as they
\* stand; each is put in the place of the definition it is named after.

\* Mutant: a stop that does not wait for the cancelled task's registry.
RegistryStops_Late(m) ==
    /\ stop_at[m] = "system"
    /\ StopGoesTo(m, "registry", 0)
    /\ UNCHANGED <<memory_running, memory_loops, system_running, system_task,
                   registry_running, wanted, overlapped, cut>>

-----------------------------------------------------------------------------
\* BaseManager.start, and initialize: neither monitor suspends it.
Starts(m) ==
    /\ stop_at[m] = "no"
    /\ MemoryStarts /\ SystemStarts
    /\ wanted' = TRUE
    /\ overlapped' = \/ overlapped \/ system_task = "cancelled"
                      \/ \E n \in Monitored : stop_at[n] # "no"
    /\ UNCHANGED <<registry_running, stop_at, awaited, cut>>

\* BaseManager.stop, and terminate.
Stops(m) ==
    /\ stop_at[m] = "no" /\ wanted' = FALSE
    /\ \/ MemoryStops(m, "memory") /\ UNCHANGED <<system_running, system_task>>
       \/ ~MemoryMustEnd /\ SystemStops(m) /\ UNCHANGED memory_running
    /\ UNCHANGED <<memory_loops, registry_running, overlapped, cut>>

\* The loop has ended.  One that failed raises: out of stop(), before the rest.
MemoryEnded(m) ==
    /\ stop_at[m] \in WaitsForLoop
    /\ \/ /\ memory_loops[awaited[m]] = "ended" /\ stop_at[m] = "memory"
          /\ SystemStops(m)
       \/ /\ \/ memory_loops[awaited[m]] = "ended" /\ stop_at[m] = "memory_again"
             \/ memory_loops[awaited[m]] = "failed"
          /\ StopGoesTo(m, "no", 0) /\ UNCHANGED <<system_running, system_task>>
    /\ UNCHANGED <<memory_running, memory_loops, registry_running, wanted, overlapped, cut>>

\* The cancelled task has ended, or two seconds are over.
RegistryStops(m) ==
    /\ stop_at[m] = "system"
    /\ registry_running' = FALSE /\ StopGoesTo(m, "registry", 0)
    /\ UNCHANGED <<memory_running, memory_loops, system_running, system_task, wanted,
                   overlapped, cut>>

RegistryStopped(m) ==
    /\ stop_at[m] = "registry"
    /\ \/ MemoryStops(m, "memory_again")
       \/ ~MemoryMustEnd /\ StopGoesTo(m, "no", 0) /\ UNCHANGED memory_running
    /\ UNCHANGED <<memory_loops, system_running, system_task, registry_running, wanted,
                   overlapped, cut>>

\* The one who waits for a loop is cancelled, and the loop with it.
StopCancelled(m) ==
    /\ stop_at[m] # "no" /\ StopGoesTo(m, "no", 0)
    /\ memory_loops' = [t \in Loops |-> IF t = awaited[m] /\ Alive(t) THEN "ended"
                                        ELSE memory_loops[t]]
    /\ cut' = TRUE
    /\ UNCHANGED <<memory_running, system_running, system_task, registry_running, wanted,
                   overlapped>>

-----------------------------------------------------------------------------
\* _monitor_memory: its first check is outside the try.
FirstCheck(t) ==
    /\ memory_loops[t] = "first"
    /\ \/ memory_loops' = [memory_loops EXCEPT ![t] = "looping"] /\ UNCHANGED cut
       \/ memory_loops' = [memory_loops EXCEPT ![t] = "failed"] /\ cut' = TRUE
    /\ UNCHANGED <<memory_running, system_running, system_task, registry_running, stop_at,
                   awaited, wanted, overlapped>>

\* A loop wakes and finds that it is no longer to run.
LoopEnds(t) ==
    /\ memory_loops[t] = "looping" /\ ~memory_running
    /\ memory_loops' = [memory_loops EXCEPT ![t] = "ended"]
    /\ UNCHANGED <<memory_running, system_running, system_task, registry_running, stop_at,
                   awaited, wanted, overlapped, cut>>

\* _check_circuit_breakers starts the registry's monitoring where it does not run.
ChecksCircuits ==
    /\ system_task = "running" /\ ~registry_running /\ registry_running' = TRUE
    /\ UNCHANGED <<memory_running, memory_loops, system_running, system_task, stop_at,
                   awaited, wanted, overlapped, cut>>

\* The cancelled task ends; or the event about an error of the loop raises, which
\* ends the loop and leaves the flag.
SystemTaskEnds ==
    /\ \/ system_task = "cancelled" /\ UNCHANGED cut
       \/ system_task = "running" /\ cut' = TRUE
    /\ system_task' = "done"
    /\ UNCHANGED <<memory_running, memory_loops, system_running, registry_running, stop_at,
                   awaited, wanted, overlapped>>

MonitorNext ==
    \/ \E m \in Monitored :
          \/ Starts(m) \/ Stops(m) \/ MemoryEnded(m) \/ RegistryStops(m)
          \/ RegistryStopped(m) \/ StopCancelled(m)
    \/ \E t \in Loops : FirstCheck(t) \/ LoopEnds(t)
    \/ ChecksCircuits \/ SystemTaskEnds

MonitorSpec == MonitorInit /\ [][MonitorNext]_monitorVars

-----------------------------------------------------------------------------
\* The types of the variables.
MonitorTypeOK ==
    /\ memory_running \in BOOLEAN /\ system_running \in BOOLEAN
    /\ registry_running \in BOOLEAN
    /\ memory_loops \in [Loops -> {"none", "first", "looping", "ended", "failed"}]
    /\ system_task \in {"none", "running", "cancelled", "done"}
    /\ stop_at \in [Monitored -> WaitsForLoop \cup {"no", "system", "registry"}]
    /\ awaited \in [Monitored -> Loops \cup {0}]
    /\ wanted \in BOOLEAN /\ overlapped \in BOOLEAN /\ cut \in BOOLEAN

\* Starts and stops of many managers that do not overlap leave the shared
\* monitors as the last of them says: they run once started and not stopped, by
\* one loop, and a stop waits for a loop that is about to end.  The registry's
\* loop does not outlive the system monitor that started it, unless a stop was
\* cut short.
MonitorsAsAsked ==
    /\ ~overlapped =>
          /\ wanted => memory_running /\ system_running
          /\ Cardinality({t \in Loops : Alive(t)}) <= 1
          /\ \A m \in Monitored : stop_at[m] \in WaitsForLoop /\ Alive(awaited[m]) =>
                 ~memory_running
    /\ registry_running /\ ~cut =>
          \/ system_running
          \/ \E m \in Monitored : stop_at[m] = "system"
=============================================================================
