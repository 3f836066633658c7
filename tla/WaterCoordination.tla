-------------------------- MODULE WaterCoordination --------------------------
(***************************************************************************)
(* resources/water_agent/coordinator.py (WaterAgentCoordinator) and         *)
(* context_manager.py (WaterAgentContextManager): one coordinator that runs  *)
(* several coordinations between pairs of agents on one event loop.  A       *)
(* coordination finds the misunderstandings between two outputs, puts        *)
(* questions to the agents and has the answers assessed, for a few           *)
(* iterations.  Each keeps its iteration and questions to itself; which      *)
(* issues are resolved is in one AmbiguityResolutionTracker for all.  A step *)
(* is what a coroutine does between two calls of a model.                    *)
(***************************************************************************)
EXTENDS Naturals

CONSTANTS
    Coordinations,  \* calls of coordinate_agents, each with an id of its own
    Issues,         \* ids of misunderstandings; answers number them afresh
    max_iterations  \* of the coordination context, 3 by default

ASSUME IterationsAssumption == max_iterations \in Nat \ {0}

VARIABLES
    waterPc,      \* what each coordination waits for
    iteration,    \* its local count
    resolved,     \* tracker.resolved_issues
    unresolved,   \* tracker.unresolved_issues: id -> severity
    context,      \* the CoordinationContext kept for each coordination
    tracked,      \* history: the issues the tracker was last initialized with
    own,          \* history: unresolved issues, by a coordination's own answers
    undisturbed   \* history: no other coordination used the tracker meanwhile

tracker == <<resolved, unresolved, tracked, own, undisturbed>>
waterVars == <<waterPc, iteration, context, tracker>>

\* CRITICAL, HIGH and MEDIUM issues keep a coordination going, LOW ones do not.
Severities == {"blocking", "low"}
IssueMaps == UNION {[S -> Severities] : S \in SUBSET Issues}

Tracking == {"ask", "assess", "refine"}
Waiting == {"detect"} \union Tracking
Done == {"returned", "raised", "cancelled"}

NewContext == [status |-> "created", iterations |-> 0, final_status |-> "none"]

WaterInit ==
    /\ waterPc = [c \in Coordinations |-> "idle"]
    /\ iteration = [c \in Coordinations |-> 0]
    /\ resolved = {} /\ unresolved = [i \in {} |-> "low"]
    /\ context = [c \in Coordinations |-> NewContext]
    /\ tracked = {}
    /\ own = [c \in Coordinations |-> [i \in {} |-> "low"]]
    /\ undisturbed = [c \in Coordinations |-> FALSE]

WaitFor(c, wait) == waterPc' = [waterPc EXCEPT ![c] = wait]

\* all_resolved(): nothing is left, or issues of LOW severity only.
AllResolved(issues) == \A i \in DOMAIN issues : issues[i] = "low"

\* What an assessment does to a map of issues: the resolved ones leave it, the
\* severities of those that stay are brought up to date.
AfterAssessment(issues, gone, severities) ==
    [i \in DOMAIN issues \ gone |->
        IF i \in DOMAIN severities THEN severities[i] ELSE issues[i]]

\* The tracker is used by c: whoever else counts on it is disturbed.
Disturbs(c) ==
    [d \in Coordinations |-> undisturbed[d] /\ (d = c \/ waterPc[d] \notin Tracking)]

-----------------------------------------------------------------------------
(* Mutants: mistakes the properties must reject.  No run uses them as they *)
(* stand; each is put in the place of the definition it is named after.    *)

\* Mutant: the issues of the coordination before are kept.
Track_Adds(c, issues) ==
    /\ resolved' = resolved
    /\ unresolved' = issues
    /\ tracked' = DOMAIN issues
    /\ own' = [own EXCEPT ![c] = issues]
    /\ undisturbed' = [Disturbs(c) EXCEPT ![c] = TRUE]

\* Mutant: an assessment that fails is asked for again.
AssessmentFails_Retries(c) ==
    /\ waterPc[c] = "assess"
    /\ WaitFor(c, "ask")
    /\ UNCHANGED <<iteration, context, tracker>>

-----------------------------------------------------------------------------
(* The tracker and the contexts *)

\* initialize_tracking: the tracker forgets whatever it tracked.
Track(c, issues) ==
    /\ resolved' = {}
    /\ unresolved' = issues
    /\ tracked' = DOMAIN issues
    /\ own' = [own EXCEPT ![c] = issues]
    /\ undisturbed' = [Disturbs(c) EXCEPT ![c] = TRUE]

\* The update at the end of assess_resolution: only ids that the tracker holds
\* now count, whoever put them there.
Assess(c, gone, severities) ==
    /\ resolved' = resolved \union (gone \intersect DOMAIN unresolved)
    /\ unresolved' = AfterAssessment(unresolved, gone, severities)
    /\ own' = [own EXCEPT ![c] = AfterAssessment(@, gone, severities)]
    /\ undisturbed' = Disturbs(c)
    /\ UNCHANGED tracked

\* update_coordination_iteration: an entry for the iteration.
RecordIteration(c) ==
    context' = [context EXCEPT ![c].status = "in_progress", ![c].iterations = @ + 1]

\* complete_coordination and then prune_temporary_data, whose copy keeps the
\* status, the final status and the number of the iterations.
Complete(c, status) ==
    context' = [context EXCEPT ![c] =
        [@ EXCEPT !.status = "completed", !.final_status = status]]

\* The status is what the tracker says now.
FinalStatus(c, issues) ==
    IF AllResolved(issues) THEN "all_issues_resolved"
    ELSE IF iteration'[c] >= max_iterations THEN "max_iterations_reached"
    ELSE "partially_resolved"

-----------------------------------------------------------------------------
(* coordinate_agents *)

\* A context is created under the coordination's id, the outputs are saved in
\* it and the detector is asked.
BeginCoordination(c) ==
    /\ waterPc[c] = "idle"
    /\ WaitFor(c, "detect")
    /\ context' = [context EXCEPT ![c] = NewContext]
    /\ UNCHANGED <<iteration, tracker>>

\* The outputs are returned as they came; the context stays "created".
NothingDetected(c) ==
    /\ waterPc[c] = "detect"
    /\ WaitFor(c, "returned")
    /\ UNCHANGED <<iteration, context, tracker>>

\* MisunderstandingDetectionError becomes a CoordinationError.
DetectionFails(c) ==
    /\ waterPc[c] = "detect"
    /\ WaitFor(c, "raised")
    /\ UNCHANGED <<iteration, context, tracker>>

\* IF only LOW issues were found THEN there is no iteration and nothing to
\* refine, ELSE IF there are questions THEN the agents are asked, ELSE the one
\* iteration ends without asking anybody.
Detected(c) ==
    /\ waterPc[c] = "detect"
    /\ \E issues \in IssueMaps, questions \in BOOLEAN :
        /\ DOMAIN issues # {}
        /\ Track(c, issues)
        /\ IF AllResolved(issues)
             THEN /\ WaitFor(c, "returned")
                  /\ iteration' = [iteration EXCEPT ![c] = 0]
                  /\ Complete(c, FinalStatus(c, issues))
             ELSE /\ iteration' = [iteration EXCEPT ![c] = 1]
                  /\ \/ questions /\ WaitFor(c, "ask") /\ UNCHANGED context
                     \/ /\ ~questions /\ WaitFor(c, "refine")
                        /\ RecordIteration(c)

\* Both agents have answered, or their errors stand for answers.
AgentsAnswered(c) ==
    /\ waterPc[c] = "ask"
    /\ WaitFor(c, "assess")
    /\ UNCHANGED <<iteration, context, tracker>>

\* The model says which of the coordination's issues are resolved and how severe
\* the others are.  The agents are asked again if questions are left, the
\* tracker as it is now has issues left, and iterations are left.
Assessed(c) ==
    /\ waterPc[c] = "assess"
    /\ \E gone \in SUBSET DOMAIN own[c], questions \in BOOLEAN :
       \E severities \in [DOMAIN own[c] \ gone -> Severities] :
        /\ Assess(c, gone, severities)
        /\ RecordIteration(c)
        /\ IF questions /\ ~AllResolved(unresolved') /\ iteration[c] < max_iterations
             THEN /\ iteration' = [iteration EXCEPT ![c] = @ + 1]
                  /\ WaitFor(c, "ask")
             ELSE WaitFor(c, "refine") /\ UNCHANGED iteration

\* The model raised, or its answer was no JSON: nothing is resolved, what the
\* tracker holds is left, and no questions are.
AssessmentFails(c) ==
    /\ waterPc[c] = "assess"
    /\ RecordIteration(c)
    /\ WaitFor(c, "refine")
    /\ UNCHANGED <<iteration, tracker>>

\* Both agents refined their outputs, or kept them after an error.
RefinementEnds(c) ==
    /\ waterPc[c] = "refine"
    /\ WaitFor(c, "returned")
    /\ UNCHANGED <<iteration, tracker>>
    /\ Complete(c, FinalStatus(c, unresolved))

\* The caller's timeout cancels the coordination wherever it waits; neither
\* the tracker nor the context hears of it.
CoordinationCancelled(c) ==
    /\ waterPc[c] \in Waiting
    /\ WaitFor(c, "cancelled")
    /\ UNCHANGED <<iteration, context, tracker>>

CoordinationProceeds(c) ==
    \/ NothingDetected(c) \/ DetectionFails(c) \/ Detected(c)
    \/ AgentsAnswered(c) \/ Assessed(c) \/ AssessmentFails(c) \/ RefinementEnds(c)

WaterNext ==
    \E c \in Coordinations :
        BeginCoordination(c) \/ CoordinationProceeds(c) \/ CoordinationCancelled(c)

-----------------------------------------------------------------------------
(* Properties *)

Contexts == [status : {"created", "in_progress", "completed"},
             iterations : 0..max_iterations,
             final_status : {"none", "all_issues_resolved",
                             "max_iterations_reached", "partially_resolved"}]

\* Every variable keeps its type, and no coordination goes through more than
\* max_iterations, whatever others do to the tracker its loop tests.
WaterTypeOK ==
    /\ waterPc \in [Coordinations -> {"idle"} \union Waiting \union Done]
    /\ iteration \in [Coordinations -> 0..max_iterations]
    /\ resolved \in SUBSET Issues /\ unresolved \in IssueMaps
    /\ context \in [Coordinations -> Contexts]
    /\ tracked \in SUBSET Issues
    /\ own \in [Coordinations -> IssueMaps]
    /\ undisturbed \in [Coordinations -> BOOLEAN]

\* The tracker's two collections always part the issues it was last
\* initialized with, although assessments begun before, about the issues of
\* another coordination, are entered into it.
TrackerPartition ==
    /\ resolved \intersect DOMAIN unresolved = {}
    /\ resolved \union DOMAIN unresolved = tracked

\* A coordination during which no other used the tracker ends with the status
\* that its own answers justify.
VerdictRightWhenUndisturbed ==
    \A c \in Coordinations :
        undisturbed[c] /\ context[c].status = "completed" =>
            (context[c].final_status = "all_issues_resolved" <=> AllResolved(own[c]))

\* Every coordination that began ends, even if others reset the tracker that
\* its loop tests.
CoordinationsEnd ==
    \A c \in Coordinations : waterPc[c] = "detect" ~> waterPc[c] \in Done

\* The tracker shared by all coordinations stays whole, and the verdict of one that
\* none disturbed is right.
CoordinationsRight == TrackerPartition /\ VerdictRightWhenUndisturbed
=============================================================================
