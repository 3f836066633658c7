------------------------- MODULE ResourceCoordinator -------------------------
(***************************************************************************)
(* resources/managers/coordinator.py (ResourceCoordinator): starts the      *)
(* resource managers in the order of their required dependencies and stops   *)
(* them in reverse.  initialize_all may be called again, also while a call    *)
(* is under way, managers may be registered late, and shutdown may come at    *)
(* any time; all run on one event loop and interleave where a manager's       *)
(* start() or stop() is awaited.                                             *)
(***************************************************************************)
EXTENDS Naturals

CONSTANTS
    Managers,   \* managers, by their ids
    Preset,     \* those whose constructor sets a flag that says they run
    Flagging,   \* those whose start() begins with setting such a flag for good
    Critical,   \* those without which initialize_all stops
    Starters    \* calls of initialize_all

ASSUME FlagsAssumption == Preset \subseteq Managers /\ Flagging \subseteq Managers

VARIABLES
    required,     \* _required_dependencies, of registered managers
    registered,   \* the keys of _managers
    initState,    \* _initialization_state
    initialized,  \* _initialized
    shutdownList, \* _shutdown_order
    starter,      \* each call of initialize_all: what it does, on which manager
    toStart,      \* what is left of its order
    successful,   \* calls that have started a manager
    delayed,      \* managers registered late: how far their delayed start is
    shutter,      \* the call of shutdown, and the manager it stops
    toStop,       \* what is left of its order
    flagged,      \* managers whose flag says that they run
    begun, up,    \* history: start() was called, returned without an error
    asked,        \* history: managers whose stop() shutdown has called
    plain         \* history: one initialize_all, nobody late, then shutdown

starting == <<initialized, starter, toStart, successful, delayed>>
stopping == <<shutdownList, shutter, toStop, asked>>
managers == <<initState, flagged, begun, up>>
coordinatorVars == <<required, registered, starting, stopping, managers, plain>>

Nobody == "nobody"
Idle == [does |-> "idle", with |-> Nobody]
Over == {"returned", "raised"}

\* Every set of managers has one that requires none of the set.
AcyclicOn(S) ==
    \A T \in SUBSET S : T # {} => \E m \in T : required[m] \intersect T = {}

CoordinatorInit ==
    /\ required \in [Managers -> SUBSET Managers]
    /\ registered \in SUBSET Managers
    /\ initState = [m \in Managers |-> "not_started"]
    /\ initialized = FALSE /\ shutdownList = {}
    /\ starter = [c \in Starters |-> Idle]
    /\ toStart = [c \in Starters |-> {}] /\ successful = {}
    /\ delayed = [m \in Managers |-> "none"]
    /\ shutter = Idle /\ toStop = {}
    /\ flagged = Preset
    /\ begun = {} /\ up = {} /\ asked = {}
    /\ plain = TRUE

InitBusy == \E c \in Starters : starter[c].does \in {"loop", "start"}
Does(c, does, m) == starter' = [starter EXCEPT ![c] = [does |-> does, with |-> m]]

-----------------------------------------------------------------------------
(* Mutants: mistakes the properties must reject.  No run uses them as they *)
(* stand; each is put in the place of the definition it is named after.    *)

\* Mutant: managers are stopped in any order.
NextToStop_Any(m) == m \in toStop

-----------------------------------------------------------------------------
(* _initialize_manager *)

RequiredComplete(m) ==
    required[m] \subseteq {d \in registered : initState[d] = "complete"}

\* start() is called; a flagging manager sets its flag at once.
StartCalled(m) ==
    /\ begun' = begun \union {m}
    /\ flagged' = flagged \union ({m} \intersect Flagging)
    /\ UNCHANGED up

\* start() returned or raised.
StartReturned(m, success) ==
    /\ up' = IF success THEN up \union {m} ELSE up
    /\ UNCHANGED <<flagged, begun>>

\* initialize_all, where a manager is done: after a critical failure the loop
\* is left.
Counted(c, m, success) ==
    /\ initState' = [initState EXCEPT ![m] = IF success THEN "complete" ELSE "failed"]
    /\ Does(c, "loop", Nobody)
    /\ successful' = IF success THEN successful \union {c} ELSE successful
    /\ toStart' = IF ~success /\ m \in Critical
                    THEN [toStart EXCEPT ![c] = {}]
                    ELSE [toStart EXCEPT ![c] = @ \ {m}]

-----------------------------------------------------------------------------
(* register_manager, initialize_all *)

\* Once the coordinator is initialized, a task is made that starts the manager
\* after a while.
Register(m) ==
    /\ m \notin registered
    /\ registered' = registered \union {m}
    /\ delayed' = IF initialized THEN [delayed EXCEPT ![m] = "scheduled"] ELSE delayed
    /\ plain' = (plain /\ \A c \in Starters : starter[c] = Idle)
    /\ UNCHANGED <<required, initialized, starter, toStart, successful, stopping, managers>>

\* IF all managers are complete THEN the call ends with an AttributeError for the
\* results it means to return; IF dependencies are circular THEN it raises, ELSE
\* it goes through the managers in the order of Kahn's algorithm.
InitializeAll(c) ==
    /\ starter[c] = Idle
    /\ plain' = (plain /\ \A d \in Starters : starter[d] = Idle /\ shutter = Idle)
    /\ \/ /\ \A m \in registered : initState[m] = "complete"
          /\ initialized' = TRUE
          /\ Does(c, "raised", Nobody)
          /\ UNCHANGED <<toStart, shutdownList>>
       \/ /\ \E m \in registered : initState[m] # "complete"
          /\ ~AcyclicOn(registered)
          /\ Does(c, "raised", Nobody)
          /\ UNCHANGED <<initialized, toStart, shutdownList>>
       \/ /\ \E m \in registered : initState[m] # "complete"
          /\ AcyclicOn(registered)
          /\ toStart' = [toStart EXCEPT ![c] = registered]
          /\ shutdownList' = registered
          /\ Does(c, "loop", Nobody)
          /\ UNCHANGED initialized
    /\ UNCHANGED <<required, registered, successful, delayed, shutter, toStop, asked, managers>>

\* The next manager is marked in_progress, also if it was complete.  IF its flag
\* says that it runs THEN that counts as started, ELSE IF a required manager is
\* not complete THEN it fails, ELSE its start() is awaited.
InitializeNext(c) ==
    /\ starter[c].does = "loop"
    /\ \E m \in toStart[c] :
        /\ required[m] \intersect toStart[c] = {}
        /\ \/ m \in flagged /\ Counted(c, m, TRUE) /\ UNCHANGED <<flagged, begun, up>>
           \/ /\ m \notin flagged /\ ~RequiredComplete(m)
              /\ Counted(c, m, FALSE)
              /\ UNCHANGED <<flagged, begun, up>>
           \/ /\ m \notin flagged /\ RequiredComplete(m)
              /\ initState' = [initState EXCEPT ![m] = "in_progress"]
              /\ Does(c, "start", m)
              /\ StartCalled(m)
              /\ UNCHANGED <<toStart, successful>>
    /\ UNCHANGED <<required, registered, initialized, delayed, stopping, plain>>

StartEnds(c, success) ==
    /\ starter[c].does = "start"
    /\ StartReturned(starter[c].with, success)
    /\ Counted(c, starter[c].with, success)
    /\ UNCHANGED <<required, registered, initialized, delayed, stopping, plain>>

\* The coordinator counts as initialized if this call has started a manager.
InitializeAllEnds(c) ==
    /\ starter[c].does = "loop" /\ toStart[c] = {}
    /\ Does(c, "returned", Nobody)
    /\ initialized' = (c \in successful)
    /\ UNCHANGED <<required, registered, toStart, successful, delayed, stopping, managers, plain>>

\* The delayed task of a late manager: only a flag makes it complete; started
\* in this way it stays not_started.
DelayedStart(m) ==
    /\ delayed[m] = "scheduled"
    /\ \/ /\ initState[m] # "complete" /\ m \notin flagged /\ RequiredComplete(m)
          /\ delayed' = [delayed EXCEPT ![m] = "start"]
          /\ StartCalled(m)
          /\ UNCHANGED initState
       \/ /\ initState[m] = "complete" \/ m \in flagged \/ ~RequiredComplete(m)
          /\ delayed' = [delayed EXCEPT ![m] = "over"]
          /\ initState' = IF m \in flagged THEN [initState EXCEPT ![m] = "complete"]
                                           ELSE initState
          /\ UNCHANGED <<flagged, begun, up>>
    /\ UNCHANGED <<required, registered, initialized, starter, toStart, successful, stopping, plain>>

DelayedStartEnds(m, success) ==
    /\ delayed[m] = "start"
    /\ delayed' = [delayed EXCEPT ![m] = "over"]
    /\ StartReturned(m, success)
    /\ UNCHANGED <<required, registered, initialized, starter, toStart, successful,
                   stopping, initState, plain>>

-----------------------------------------------------------------------------
(* shutdown *)

\* The order of the last initialize_all, else one computed now (any order, if
\* dependencies are circular).
Shutdown ==
    /\ shutter = Idle
    /\ shutter' = [does |-> "loop", with |-> Nobody]
    /\ shutdownList' = IF shutdownList = {} THEN registered ELSE shutdownList
    /\ toStop' = shutdownList'
    /\ plain' = (plain /\ ~InitBusy)
    /\ UNCHANGED <<required, registered, starting, asked, managers>>

\* Reverse order: nothing that is left to stop requires the manager.
NextToStop(m) ==
    /\ m \in toStop
    /\ AcyclicOn(toStop) => \A q \in toStop : m \notin required[q]

\* Managers that are neither complete nor in progress are skipped.
StopNext ==
    /\ shutter.does = "loop"
    /\ \E m \in toStop :
        /\ NextToStop(m)
        /\ toStop' = toStop \ {m}
        /\ IF initState[m] \in {"complete", "in_progress"}
             THEN /\ shutter' = [does |-> "stop", with |-> m]
                  /\ asked' = asked \union {m}
             ELSE UNCHANGED <<shutter, asked>>
    /\ UNCHANGED <<required, registered, starting, shutdownList, managers, plain>>

\* stop() returned, raised, or was given up after its ten seconds; the manager's
\* state remains.
StopEnds ==
    /\ shutter.does = "stop"
    /\ shutter' = [does |-> "loop", with |-> Nobody]
    /\ UNCHANGED <<required, registered, starting, shutdownList, toStop, asked, managers, plain>>

ShutdownEnds ==
    /\ shutter.does = "loop" /\ toStop = {}
    /\ shutter' = [does |-> "returned", with |-> Nobody]
    /\ initialized' = FALSE
    /\ UNCHANGED <<required, registered, starter, toStart, successful, delayed,
                   shutdownList, toStop, asked, managers, plain>>

ShutdownProceeds == StopNext \/ StopEnds \/ ShutdownEnds

CoordinatorNext ==
    \/ \E c \in Starters :
        InitializeAll(c) \/ InitializeNext(c) \/ InitializeAllEnds(c)
            \/ \E success \in BOOLEAN : StartEnds(c, success)
    \/ \E m \in Managers :
        Register(m) \/ DelayedStart(m) \/ \E success \in BOOLEAN : DelayedStartEnds(m, success)
    \/ Shutdown \/ ShutdownProceeds

-----------------------------------------------------------------------------
(* Properties *)

InitStates == {"not_started", "in_progress", "complete", "failed"}

\* Every variable keeps its type, and only what is registered is started.
CoordinatorTypeOK ==
    /\ required \in [Managers -> SUBSET Managers]
    /\ registered \in SUBSET Managers
    /\ initState \in [Managers -> InitStates]
    /\ initialized \in BOOLEAN /\ plain \in BOOLEAN
    /\ shutdownList \subseteq registered /\ toStop \subseteq shutdownList
    /\ starter \in [Starters -> [does : {"idle", "loop", "start"} \union Over,
                                 with : Managers \union {Nobody}]]
    /\ toStart \in [Starters -> SUBSET registered] /\ successful \in SUBSET Starters
    /\ delayed \in [Managers -> {"none", "scheduled", "start", "over"}]
    /\ shutter \in [does : {"idle", "loop", "stop", "returned"},
                    with : Managers \union {Nobody}]
    /\ flagged \in SUBSET Managers
    /\ begun \in SUBSET registered /\ up \in SUBSET begun /\ asked \in SUBSET registered

\* No manager's start() is called before that of what it requires, whatever
\* calls overlap, fail or come late; when nothing is started twice, what it
\* requires has come up by then or was taken to run from the beginning.
RequiredStartFirst ==
    \A m \in begun : \A d \in required[m] :
        /\ d \in begun \union Preset
        /\ plain => d \in up \union Preset

\* A plain shutdown stops a manager only when everybody that requires it and
\* came up was asked to stop, and in the end has asked all that came up.
OrderlyShutdown ==
    plain =>
        /\ \A m \in asked : \A q \in up : m \in required[q] => q \in asked
        /\ shutter.does = "returned" => up \subseteq asked

\* Start-up and shutdown follow the requirements in both directions.
StartedAndStoppedInOrder == RequiredStartFirst /\ OrderlyShutdown
=============================================================================
