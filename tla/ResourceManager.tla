--------------------------- MODULE ResourceManager ---------------------------
(***************************************************************************)
(* main.py (ResourceManager): starts and stops the application's resources. *)
(* The order it computes counts a resource's dependants where it means to    *)
(* count its dependencies, so it lists the resources nobody depends on; each *)
(* of them starts what it needs by recursion.  The recursion is a stack of   *)
(* calls of initialize_resource.  A step ends where a resource's own         *)
(* initialize() or shutdown() is awaited.                                    *)
(***************************************************************************)
EXTENDS Naturals, Sequences

CONSTANT Resources  \* ids that ForestApplication registers

VARIABLES
    dependencies,   \* _dependencies, as registered; nobody registers cycles
    resourceState,  \* _resource_states
    managerPhase,   \* what the application has asked for last
    order,          \* what the walk over the computed order has still to do
    calls,          \* initialize_resource in progress, the innermost first
    started         \* history: how often a resource was initialized

managerVars == <<dependencies, resourceState, managerPhase, order, calls, started>>

ResourceStates == {"registered", "initializing", "initialized", "error",
                   "shutting_down", "shutdown", "error_shutdown"}

\* Every set of resources has one that depends on none of the set.
Acyclic(deps) ==
    \A S \in SUBSET Resources : S # {} => \E r \in S : deps[r] \intersect S = {}

ManagerInit ==
    /\ dependencies \in {deps \in [Resources -> SUBSET Resources] : Acyclic(deps)}
    /\ resourceState = [r \in Resources |-> "registered"]
    /\ managerPhase = "registered" /\ order = {} /\ calls = << >>
    /\ started = [r \in Resources |-> 0]

-----------------------------------------------------------------------------
(* Mutants: mistakes the properties must reject.  No run uses them as they *)
(* stand; each is put in the place of the definition it is named after.    *)

\* Mutant: a dependency that was listed is not waited for.
CheckDependency_Skips ==
    /\ calls # << >>
    /\ \E d \in Head(calls).unchecked :
        calls' = [calls EXCEPT ![1].unchecked = @ \ {d}]
    /\ UNCHANGED <<dependencies, resourceState, managerPhase, order, started>>

-----------------------------------------------------------------------------
\* _calculate_initialization_order: nobody depends on what it lists, so no
\* in-degree is ever reduced.  The list is in the order of registration.
Order == {r \in Resources : \A q \in Resources : r \notin dependencies[q]}

\* initialize_resource up to its loop over the dependencies.
Enter(r, waiting) ==
    IF resourceState[r] = "initialized"
      THEN calls' = waiting /\ UNCHANGED resourceState
      ELSE /\ resourceState' = [resourceState EXCEPT ![r] = "initializing"]
           /\ calls' = <<[resource |-> r, unchecked |-> dependencies[r]]>> \o waiting

InitializeResources ==
    /\ managerPhase = "registered"
    /\ managerPhase' = "starting"
    /\ order' = Order
    /\ UNCHANGED <<dependencies, resourceState, calls, started>>

\* initialize_all goes on with the next resource of its list.
InitializeListed ==
    /\ managerPhase = "starting" /\ calls = << >>
    /\ \E r \in order : order' = order \ {r} /\ Enter(r, << >>)
    /\ UNCHANGED <<dependencies, managerPhase, started>>

\* IF the dependency is not initialized THEN it is, or tried again if it failed
\* for another dependant.
CheckDependency ==
    /\ calls # << >>
    /\ \E d \in Head(calls).unchecked :
        Enter(d, [calls EXCEPT ![1].unchecked = @ \ {d}])
    /\ UNCHANGED <<dependencies, managerPhase, order, started>>

\* The resource's own initialize() succeeds or raises, whatever became of its
\* dependencies.
Initialized(success) ==
    /\ calls # << >> /\ Head(calls).unchecked = {}
    /\ LET r == Head(calls).resource
       IN  /\ resourceState' = [resourceState EXCEPT ![r] =
                                   IF success THEN "initialized" ELSE "error"]
           /\ started' = IF success THEN [started EXCEPT ![r] = @ + 1] ELSE started
    /\ calls' = Tail(calls)
    /\ UNCHANGED <<dependencies, managerPhase, order>>

ResourcesInitialized ==
    /\ managerPhase = "starting" /\ calls = << >> /\ order = {}
    /\ managerPhase' = "running"
    /\ UNCHANGED <<dependencies, resourceState, order, calls, started>>

\* shutdown() walks the same list backwards.  What it lists has no dependants,
\* so its recursion over them has nothing to do.
StopResources ==
    /\ managerPhase = "running"
    /\ managerPhase' = "stopping"
    /\ order' = Order
    /\ UNCHANGED <<dependencies, resourceState, calls, started>>

ShutdownBegins ==
    /\ managerPhase = "stopping"
    /\ \A r \in Resources : resourceState[r] # "shutting_down"
    /\ \E r \in order :
        /\ order' = order \ {r}
        /\ resourceState' = [resourceState EXCEPT ![r] = "shutting_down"]
    /\ UNCHANGED <<dependencies, managerPhase, calls, started>>

\* shutdown(), stop() or close() of the resource returned or raised.
ResourceStopped(success) ==
    /\ \E r \in Resources :
        /\ resourceState[r] = "shutting_down"
        /\ resourceState' = [resourceState EXCEPT ![r] =
                                IF success THEN "shutdown" ELSE "error_shutdown"]
    /\ UNCHANGED <<dependencies, managerPhase, order, calls, started>>

ManagerProceeds ==
    \/ InitializeListed \/ CheckDependency \/ ResourcesInitialized
    \/ ShutdownBegins
    \/ \E success \in BOOLEAN : Initialized(success) \/ ResourceStopped(success)

ManagerNext == InitializeResources \/ StopResources \/ ManagerProceeds

-----------------------------------------------------------------------------
(* Properties *)

\* Every variable keeps its type, and the calls in progress are a chain of
\* dependencies, each at most once: the recursion ends.
ManagerTypeOK ==
    /\ dependencies \in [Resources -> SUBSET Resources]
    /\ resourceState \in [Resources -> ResourceStates]
    /\ managerPhase \in {"registered", "starting", "running", "stopping"}
    /\ order \in SUBSET Resources
    /\ \A i \in DOMAIN calls :
        /\ calls[i].resource \in Resources
        /\ calls[i].unchecked \subseteq dependencies[calls[i].resource]
        /\ \A j \in DOMAIN calls : j > i => calls[j].resource # calls[i].resource
    /\ started \in [Resources -> Nat]

\* Although the order lists no dependency, a resource's own initialize() runs
\* only when all it depends on was started or has failed; and no resource is
\* started twice, however many depend on it.
StartedAfterDependencies ==
    /\ \A r \in Resources : started[r] <= 1
    /\ calls # << >> /\ Head(calls).unchecked = {} =>
        \A d \in dependencies[Head(calls).resource] :
            resourceState[d] \in {"initialized", "error"}
=============================================================================
