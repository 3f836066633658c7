------------------------------ MODULE Development ------------------------------
(***************************************************************************)
(* Phase two (phase_two/orchestrator.py PhaseTwo and                       *)
(* phase_two/component_development.py ComponentDeveloper): the components  *)
(* that phase one found are developed one after the other, each through    *)
(* tests, implementation by phase three, testing and integration.  A run   *)
(* is one call of process_structural_components; a call that finds another *)
(* one in progress is refused, so that there is one run at a time.  An     *)
(* action is what runs between two awaits.                                 *)
(*                                                                         *)
(* Phase three, the agents, the phase coordination and the managers are    *)
(* the environment: they answer, answer with an error or raise.            *)
(***************************************************************************)
EXTENDS Naturals, SequencesExt

CONSTANTS
    Components,      \* component ids
    MaxDevelopments  \* bound on the components of all runs together

ASSUME DevelopmentsAssumption == MaxDevelopments \in Nat
ASSUME ComponentsAssumption == IsFiniteSet(Components)

NoComponent == "none"

VARIABLES
    depends,        \* component -> its dependencies, as phase one gave them
    is_processing,  \* PhaseTwo._is_processing
    phase_id,       \* is there a _phase_id?
    context,        \* the states in _development_contexts
    completed,      \* _completed_components
    stage,          \* where the run is
    component,      \* the component being developed
    queue,          \* the components of the run still to come
    given,          \* the components of the run
    developments    \* how many components the runs so far were given

devVars == <<depends, is_processing, phase_id, context, completed, stage,
             component, queue, given, developments>>

States == {"NONE", "PLANNING", "TEST_CREATION", "IMPLEMENTATION", "TESTING",
           "INTEGRATION", "COMPLETED", "FAILED"}

\* Steps of develop_component, by what they wait for.
Developing == {"tests", "cultivate", "status", "testing", "integrate", "complete"}
Stages == {"idle", "begin", "next", "record", "failing", "system", "report", "recover"}
              \cup Developing

\* No component names itself.
DevInit ==
    /\ depends \in {d \in [Components -> SUBSET Components] : \A c \in Components : c \notin d[c]}
    /\ is_processing = FALSE /\ phase_id = FALSE
    /\ context = [c \in Components |-> "NONE"]
    /\ completed = <<>> /\ stage = "idle" /\ component = NoComponent
    /\ queue = <<>> /\ given = {} /\ developments = 0

weight(c) == Cardinality(depends[c])

ComponentEnters(state) == context' = [context EXCEPT ![component] = state]

\* What a step of develop_component leaves alone.
runVars == <<depends, is_processing, phase_id, component, queue, given, developments>>

\* Between two components nothing of the last one is kept but its context.
Leaves(step) == stage' = step /\ component' = NoComponent

-----------------------------------------------------------------------------
\* Mutants: mistakes the properties must reject.  No run uses them as they
\* stand; each is put in the place of the definition it is named after.

\* Mutant: the most dependent components come first.
Sorted_Descending(S) ==
    {s \in SetToSeqs(S) : \A i, j \in 1..Len(s) : i < j => weight(s[i]) >= weight(s[j])}

-----------------------------------------------------------------------------
\* sort_components_by_dependencies: by how many dependencies they have; what
\* has as many keeps the order of the list, which may be any.
Sorted(S) ==
    {s \in SetToSeqs(S) : \A i, j \in 1..Len(s) : i < j => weight(s[i]) <= weight(s[j])}

\* process_structural_components is called while no run is in progress; other
\* calls return already_processing and change nothing.
Process(S) ==
    /\ ~is_processing /\ is_processing' = TRUE
    /\ developments' = developments + Cardinality(S) /\ developments' <= MaxDevelopments
    /\ stage' = "begin" /\ given' = S /\ queue' \in Sorted(S)
    /\ UNCHANGED <<depends, phase_id, context, completed, component>>

\* The phase is initialized by the first run only; the start is recorded.
PhaseInitialized ==
    /\ stage = "begin" /\ stage' = "next"
    /\ phase_id' = TRUE
    /\ UNCHANGED <<depends, is_processing, context, completed, component, queue, given, developments>>

\* A new context, whatever an earlier run left, and its record.
TakeComponent ==
    /\ stage = "next" /\ queue # <<>>
    /\ component' = Head(queue) /\ queue' = Tail(queue)
    /\ context' = [context EXCEPT ![Head(queue)] = "PLANNING"]
    /\ stage' = "record"
    /\ UNCHANGED <<depends, is_processing, phase_id, completed, given, developments>>

Recorded ==
    /\ stage = "record" /\ stage' = "tests"
    /\ ComponentEnters("TEST_CREATION")
    /\ UNCHANGED <<runVars, completed>>

TestsCreated ==
    /\ stage = "tests" /\ stage' = "cultivate"
    /\ ComponentEnters("IMPLEMENTATION")
    /\ UNCHANGED <<runVars, completed>>

\* Phase three started the features; use_internal_implementation is always true.
CultivationStarted ==
    /\ stage = "cultivate" /\ stage' = "status"
    /\ UNCHANGED <<runVars, context, completed>>

\* The states of the features are read once, whether or not they are done, and
\* what they have so far, a header at least, is the implementation.
Implemented ==
    /\ stage = "status" /\ stage' = "testing"
    /\ ComponentEnters("TESTING")
    /\ UNCHANGED <<runVars, completed>>

\* The tests passed: a component without dependencies is done.
Tested ==
    /\ stage = "testing"
    /\ IF depends[component] = {}
       THEN stage' = "complete" /\ ComponentEnters("COMPLETED")
       ELSE stage' = "integrate" /\ ComponentEnters("INTEGRATION")
    /\ UNCHANGED <<runVars, completed>>

\* The integration tests passed, or the agent's error left none to run.
Integrated ==
    /\ stage = "integrate" /\ stage' = "complete"
    /\ ComponentEnters("COMPLETED")
    /\ UNCHANGED <<runVars, completed>>

\* The result of develop_component carries no error.
ComponentCompleted ==
    /\ stage = "complete" /\ Leaves("next")
    /\ completed' = Append(completed, component)
    /\ UNCHANGED <<depends, is_processing, phase_id, context, queue, given, developments>>

\* An error of the test agent or of phase three, or failed tests.
Fails ==
    /\ stage \in {"tests", "cultivate", "testing", "integrate"}
    /\ ComponentEnters("FAILED") /\ Leaves("next")
    /\ UNCHANGED <<depends, is_processing, phase_id, completed, queue, given, developments>>

\* Something in develop_component raised; even the last metric can.
DevelopRaises ==
    /\ stage \in Developing /\ stage' = "failing"
    /\ ComponentEnters("FAILED")
    /\ UNCHANGED <<runVars, completed>>

FailureRecorded ==
    /\ stage = "failing" /\ Leaves("next")
    /\ UNCHANGED <<depends, is_processing, phase_id, context, completed, queue, given, developments>>

\* All components were tried.  System and deployment tests are made of all
\* that _completed_components holds, those of earlier runs included.
AllTried ==
    /\ stage = "next" /\ queue = <<>>
    /\ stage' = IF completed = <<>> THEN "report" ELSE "system"
    /\ UNCHANGED <<runVars, context, completed>>

SystemTested ==
    /\ stage = "system" /\ stage' = "report"
    /\ UNCHANGED <<runVars, context, completed>>

\* The metric and the checkpoint; the run is over.
RunEnds ==
    /\ stage \in {"report", "recover"} /\ Leaves("idle")
    /\ is_processing' = FALSE
    /\ UNCHANGED <<depends, phase_id, context, completed, queue, given, developments>>

\* Something outside develop_component's own handler raised.
RunRaises ==
    /\ stage \in {"begin", "record", "failing", "system", "report"} /\ stage' = "recover"
    /\ UNCHANGED <<runVars, context, completed>>

\* The run is cancelled, which its handlers do not catch, or the handler's
\* metric raises: _is_processing stays set.
RunLost ==
    /\ stage # "idle" /\ Leaves("idle")
    /\ UNCHANGED <<depends, is_processing, phase_id, context, completed, queue, given, developments>>

-----------------------------------------------------------------------------
DevelopStep ==
    \/ Recorded \/ TestsCreated \/ CultivationStarted \/ Implemented \/ Tested
    \/ Integrated \/ ComponentCompleted \/ Fails \/ DevelopRaises \/ FailureRecorded

DevNext ==
    \/ \E S \in SUBSET Components : Process(S)
    \/ PhaseInitialized \/ TakeComponent \/ DevelopStep
    \/ AllTried \/ SystemTested \/ RunEnds \/ RunRaises \/ RunLost

-----------------------------------------------------------------------------
\* Every variable has its type.
DevTypeOK ==
    /\ depends \in [Components -> SUBSET Components]
    /\ is_processing \in BOOLEAN /\ phase_id \in BOOLEAN
    /\ context \in [Components -> States]
    /\ completed \in Seq(Components) /\ queue \in Seq(Components)
    /\ stage \in Stages /\ component \in Components \cup {NoComponent}
    /\ given \subseteq Components /\ developments \in Nat

\* The components of S name all that they depend on within S, directly or not,
\* and do not depend on themselves.
Layered(S) ==
    \A c \in S : /\ c \notin depends[c]
                 /\ \A d \in depends[c] \cap S : depends[d] \subseteq depends[c] \ {d}

\* Components that name their indirect dependencies too, without a cycle, are
\* developed after what they depend on, although they are sorted by nothing
\* but the number of their dependencies: the implementations that integration
\* looks up exist by then, if they will.
DependenciesFirst ==
    component # NoComponent /\ Layered(given) =>
        depends[component] \cap Range(queue) = {}

\* What the first run reports as completed, and has the system tests made of,
\* is what its contexts say, whichever steps failed or raised.
ReportMatchesContexts ==
    developments = Cardinality(given) /\ stage \notin {"complete", "idle"} =>
        Range(completed) = {c \in Components : context[c] = "COMPLETED"}

\* Components are developed in the order of their dependencies, and the report on
\* them says what became of each.
DevelopedAsReported == DependenciesFirst /\ ReportMatchesContexts
=============================================================================
