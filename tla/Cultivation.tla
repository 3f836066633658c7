------------------------------ MODULE Cultivation ------------------------------
(***************************************************************************)
(* Phase three: PhaseThreeInterface.start_feature_cultivation              *)
(* (phase_three/interface.py), which starts the features of a component in *)
(* the order of their list, and ParallelFeatureDevelopment                 *)
(* (phase_three/development/parallel.py), which develops each started      *)
(* feature in a task of its own, at most max_parallel of them at a time.   *)
(* Phase two calls one cultivation after the other and does not wait for   *)
(* the features, so that a feature id may be started again while it is     *)
(* being developed.  An action is what runs between two awaits.            *)
(*                                                                         *)
(* The agents, phase four and the managers are the environment: they       *)
(* answer, answer with an error or raise.                                  *)
(***************************************************************************)
EXTENDS Naturals, FiniteSets, SequencesExt

CONSTANTS
    Features,      \* feature ids
    max_parallel,  \* the semaphore's value
    MaxStarts,     \* bound on the features started
    MaxList        \* bound on the length of a component's list of features

ASSUME ParallelAssumption == max_parallel \in Nat \ {0}
ASSUME StartsAssumption == MaxStarts \in Nat /\ MaxList \in Nat

Starts == 1..MaxStarts  \* a start makes a context, and then a task

VARIABLES
    requires,  \* feature -> the dependencies that its list entry names
    list,      \* the features of the cultivation in progress
    next,      \* the position in the list; 0 when no cultivation is in progress
    step,      \* what the cultivation waits for
    started,   \* started_features
    latest,    \* _development_contexts: the start whose context it is, or 0
    feature,   \* the features of the starts so far
    dev_state, \* the states of their contexts
    task,      \* where their tasks are
    uses       \* start -> the start whose context its task took, or 0

cultivationVars == <<requires, list, next, step, started, latest, feature, dev_state, task, uses>>

\* What a task waits for while it holds a slot of the semaphore; after an
\* error it has a last state to record.
Holding == {"elaborate", "specify", "write_tests", "implement", "test", "integrate",
            "evaluate", "refused"}
TaskStates == {"none", "new", "waiting", "handle", "over"} \cup Holding
FeatureStates == {"PLANNING", "ELABORATION", "TEST_CREATION", "IMPLEMENTATION", "TESTING",
                  "INTEGRATION", "FAILED"}

CultivationInit ==
    /\ requires \in [Features -> SUBSET Features]
    /\ list = <<>> /\ next = 0 /\ step = "ready" /\ started = <<>>
    /\ latest = [f \in Features |-> 0]
    /\ feature = <<>> /\ dev_state = <<>>
    /\ task = [i \in Starts |-> "none"] /\ uses = [i \in Starts |-> 0]

taskVars == <<dev_state, task, uses>>
listVars == <<requires, list, next, step, started, latest, feature>>

\* The tasks of lower numbers were made earlier.
FirstOf(S, i) == i \in S /\ \A j \in S : i <= j

\* Task i waits for something else now, its context in a new state or not.
Waits(i, where) == task' = [task EXCEPT ![i] = where] /\ UNCHANGED uses
Enters(i, s) == dev_state' = [dev_state EXCEPT ![uses[i]] = s]

-----------------------------------------------------------------------------
\* Mutants: mistakes the properties must reject.  No run uses them as they
\* stand; each is put in the place of the definition it is named after.

\* Mutant: one dependency that was started is enough.
MayStart_Any(f) == requires[f] = {} \/ requires[f] \cap Range(started) # {}

-----------------------------------------------------------------------------
\* start_feature_cultivation is called for the features of a component.
Cultivate(l) ==
    /\ next = 0 /\ next' = 1 /\ list' = l
    /\ UNCHANGED <<requires, step, started, latest, feature, taskVars>>

\* Every dependency was started earlier in this call.
MayStart(f) == requires[f] \subseteq Range(started)

\* A feature that may not start now is left out for good.
SkipFeature ==
    /\ step = "ready" /\ next \in 1..Len(list)
    /\ ~MayStart(list[next])
    /\ next' = next + 1
    /\ UNCHANGED <<requires, list, step, started, latest, feature, taskVars>>

\* The start is recorded, and there is a new context for the feature, whether
\* or not a task is at work on an earlier one.
NewContext ==
    /\ step = "ready" /\ next \in 1..Len(list) /\ Len(feature) < MaxStarts
    /\ LET f == list[next]
       IN  /\ MayStart(f)
           /\ feature' = Append(feature, f)
           /\ dev_state' = Append(dev_state, "PLANNING")
           /\ latest' = [latest EXCEPT ![f] = Len(feature) + 1]
    /\ step' = "planned"
    /\ UNCHANGED <<requires, list, next, started, task, uses>>

\* The state is recorded and the task made.
StartTask ==
    /\ step = "planned" /\ step' = "ready"
    /\ task' = [task EXCEPT ![Len(feature)] = "new"]
    /\ started' = Append(started, list[next]) /\ next' = next + 1
    /\ UNCHANGED <<requires, list, latest, feature, dev_state, uses>>

CultivationOver == next' = 0 /\ step' = "ready" /\ list' = <<>> /\ started' = <<>>

CultivationEnds ==
    /\ next = Len(list) + 1 /\ CultivationOver
    /\ UNCHANGED <<requires, latest, feature, taskVars>>

\* A manager raises: the answer is an error, the tasks made so far go on.
CultivationRaises ==
    /\ next # 0 /\ CultivationOver
    /\ UNCHANGED <<requires, latest, feature, taskVars>>

-----------------------------------------------------------------------------
\* _develop_feature begins with the context that is the feature's by now.
TaskBegins(i) ==
    /\ FirstOf({j \in Starts : task[j] = "new"}, i)
    /\ task' = [task EXCEPT ![i] = "waiting"]
    /\ uses' = [uses EXCEPT ![i] = latest[feature[i]]]
    /\ UNCHANGED <<listVars, dev_state>>

\* Slots of the semaphore that are taken.
Slots == Cardinality({i \in Starts : task[i] \in Holding})

\* asyncio's semaphore serves the tasks in the order in which they came.
Acquire(i) ==
    /\ FirstOf({j \in Starts : task[j] = "waiting"}, i)
    /\ Slots < max_parallel
    /\ Waits(i, "elaborate") /\ Enters(i, "ELABORATION")
    /\ UNCHANGED listVars

Elaborated(i) ==
    /\ task[i] = "elaborate"
    /\ Waits(i, "specify") /\ Enters(i, "TEST_CREATION")
    /\ UNCHANGED listVars

\* Tests are specified; phase four is to write them.
Specified(i) ==
    /\ task[i] = "specify"
    /\ Waits(i, "write_tests")
    /\ UNCHANGED <<listVars, dev_state>>

\* Phase four wrote the tests or failed to, which does not matter.
TestsWritten(i) ==
    /\ task[i] = "write_tests"
    /\ Waits(i, "implement") /\ Enters(i, "IMPLEMENTATION")
    /\ UNCHANGED listVars

FeatureImplemented(i) ==
    /\ task[i] = "implement"
    /\ Waits(i, "test") /\ Enters(i, "TESTING")
    /\ UNCHANGED listVars

\* With dependencies, those that the elaboration named, integration follows.
FeatureTested(i) ==
    /\ task[i] = "test"
    /\ \/ Waits(i, "integrate") /\ Enters(i, "INTEGRATION")
       \/ Waits(i, "evaluate") /\ UNCHANGED dev_state
    /\ UNCHANGED listVars

FeatureIntegrated(i) ==
    /\ task[i] = "integrate"
    /\ Waits(i, "evaluate")
    /\ UNCHANGED <<listVars, dev_state>>

\* The agent or phase four answers with an error.
FeatureFails(i) ==
    /\ task[i] \in {"elaborate", "specify", "implement"}
    /\ Waits(i, "refused") /\ Enters(i, "FAILED")
    /\ UNCHANGED listVars

FailureTold(i) ==
    /\ task[i] = "refused"
    /\ Waits(i, "over")
    /\ UNCHANGED <<listVars, dev_state>>

\* Something raises: the slot is free before the handler runs.  The answer of
\* the performance agent always ends so: FeaturePerformanceMetrics is not
\* defined in the module, and what follows, COMPLETED included, never happens.
DevelopmentRaises(i) ==
    /\ task[i] \in Holding
    /\ Waits(i, "handle") /\ Enters(i, "FAILED")
    /\ UNCHANGED listVars

Handled(i) ==
    /\ task[i] = "handle"
    /\ Waits(i, "over")
    /\ UNCHANGED <<listVars, dev_state>>

\* The handler raises too: _handle_task_completion fails the context that is
\* the feature's by now.
HandlerRaises(i) ==
    /\ task[i] = "handle"
    /\ Waits(i, "over")
    /\ dev_state' = [dev_state EXCEPT ![latest[feature[i]]] = "FAILED"]
    /\ UNCHANGED listVars

-----------------------------------------------------------------------------
TaskStep(i) ==
    \/ TaskBegins(i) \/ Acquire(i) \/ Elaborated(i) \/ Specified(i) \/ TestsWritten(i)
    \/ FeatureImplemented(i) \/ FeatureTested(i) \/ FeatureIntegrated(i)
    \/ FeatureFails(i) \/ FailureTold(i) \/ DevelopmentRaises(i) \/ Handled(i)
    \/ HandlerRaises(i)

CultivationNext ==
    \/ \E l \in SeqOf(Features, MaxList) : Cultivate(l)
    \/ SkipFeature \/ NewContext \/ StartTask \/ CultivationEnds \/ CultivationRaises
    \/ \E i \in Starts : TaskStep(i)

-----------------------------------------------------------------------------
\* Every variable has its type.
CultivationTypeOK ==
    /\ requires \in [Features -> SUBSET Features]
    /\ list \in Seq(Features) /\ next \in 0..Len(list) + 1
    /\ step \in {"ready", "planned"} /\ started \in Seq(Features)
    /\ latest \in [Features -> 0..MaxStarts]
    /\ feature \in Seq(Features) /\ dev_state \in Seq(FeatureStates)
    /\ Len(dev_state) = Len(feature)
    /\ task \in [Starts -> TaskStates] /\ uses \in [Starts -> 0..MaxStarts]

\* Nobody waits for a dependency to be developed, but a feature that was given
\* a slot comes after every dependency its entry names: each has a task that
\* was given a slot before, by the order of the list and of the semaphore.
DependenciesBegin ==
    \A i \in Starts : task[i] \in Holding =>
        \A f \in requires[feature[i]] :
            \E j \in 1..i - 1 : feature[j] = f /\ task[j] \in Holding \cup {"handle", "over"}

=============================================================================
