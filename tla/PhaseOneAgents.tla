---------------------------- MODULE PhaseOneAgents ----------------------------
(***************************************************************************)
(* One agent of phase one (phase_one/agents/base.py ReflectiveAgent and    *)
(* its subclasses GardenPlannerAgent, EnvironmentalAnalysisAgent,          *)
(* RootSystemArchitectAgent, TreePlacementPlannerAgent and EarthAgent).    *)
(* Its operations are coroutines of one loop that share its development    *)
(* state, the health it has reported last and, for the Earth agent, the    *)
(* history of validations.  An action is what runs between two awaits.     *)
(*                                                                         *)
(* process_with_validation is the environment (AgentCalls): it answers, or *)
(* answers with an error, or raises.  So are the memory monitor, the       *)
(* health tracker, the metrics and the state manager: a call of theirs     *)
(* may raise.                                                              *)
(***************************************************************************)
EXTENDS Naturals, Sequences

CONSTANTS
    AgentOps,       \* slots for operations of the agent
    history_limit,  \* validations remembered, 10 in the code
    MaxAgentOps     \* bound on the operations begun

ASSUME HistoryAssumption == history_limit \in Nat \ {0}

VARIABLES
    agent_class,
    development_state,
    health,              \* the status last given to the health tracker
    greeting,            \* is the first health report still to come?
    validation_history,  \* categories
    agentOp,             \* what each operation is doing and knows
    lastEnd,             \* how the last operation ended
    opsBegun

agentsVars == <<agent_class, development_state, health, greeting,
                validation_history, agentOp, lastEnd, opsBegun>>

Designers == {"EnvironmentalAnalysis", "RootSystemArchitect", "TreePlacementPlanner"}
Classes == Designers \cup {"GardenPlanner", "Earth"}
DevelopmentStates ==
    {"INITIALIZING", "ANALYZING", "DESIGNING", "VALIDATING", "REFINING", "ERROR", "COMPLETE"}
Categories == {"APPROVED", "CORRECTED", "REJECTED", "UNKNOWN"}
Accepting == {"APPROVED", "CORRECTED"}

\* What an operation answers.  rejection: the reflection in place of what it
\* reflects on; failure: a dict that tells of an error.
OpAnswers == {"design", "result", "rejection", "reflection", "refinement", "failure", "raised", "cancelled"}
           \cup Categories

\* outline: what PhaseOneWorkflow does with the Garden Planner, whose call it
\* makes itself after it has set the state.
Methods == {"process", "_process", "outline", "reflect", "refine", "validate"}
MethodsOf(class) ==
    {"process", "reflect", "refine"}
        \cup (IF class = "Earth" THEN {"validate"} ELSE {"_process"})
        \cup (IF class = "GardenPlanner" THEN {"outline"} ELSE {})

OpSteps == {"idle", "start", "call", "reflect", "reflection", "finish", "report", "revise", "store"}

\* found: what the LLM gave, a category for a validation.  passed: what its
\* reflection said.  alone: no other operation ran meanwhile.
NoOp == [method |-> "process", at |-> "idle", found |-> "none", passed |-> "none", alone |-> TRUE]
NoEnd == [method |-> "none", answer |-> "none", alone |-> TRUE, passed |-> "none", told |-> TRUE]

AgentsInit ==
    /\ agent_class \in Classes
    /\ development_state = "INITIALIZING" /\ health = "none" /\ greeting = TRUE
    /\ validation_history = <<>>
    /\ agentOp = [o \in AgentOps |-> NoOp] /\ lastEnd = NoEnd /\ opsBegun = 0

\* The status that a report without one of its own gives for a state.
StatusOf(s) ==
    CASE s = "REFINING" -> "DEGRADED" [] s = "ERROR" -> "CRITICAL" [] OTHER -> "HEALTHY"

Move(o, step) == agentOp' = [agentOp EXCEPT ![o].at = step]
AgentBusy == \E o \in AgentOps : agentOp[o].at # "idle"

\* The operation ends.  told: it has not failed to report its health.
EndWith(o, answer, told) ==
    /\ agentOp' = [agentOp EXCEPT ![o] = NoOp]
    /\ lastEnd' = [method |-> agentOp[o].method, answer |-> answer, alone |-> agentOp[o].alone,
                passed |-> agentOp[o].passed, told |-> told]

unmoved == <<agent_class, opsBegun, greeting>>
shown == <<development_state, health>>

-----------------------------------------------------------------------------
\* Mutants: mistakes the properties must reject.  No run uses them as they
\* stand; each is put in the place of the definition it is named after.

\* Mutant: the architect forgets that a reflection may be an error.
MayPass_Errors(class, r) == r = "passed" \/ (r \in {"unclear", "error"} /\ class = "RootSystemArchitect")

-----------------------------------------------------------------------------
\* The first report, made by a task of its own, for the state of that moment.
Greet ==
    /\ greeting /\ greeting' = FALSE
    /\ health' = StatusOf(development_state)
    /\ UNCHANGED <<agent_class, development_state, validation_history, agentOp, lastEnd, opsBegun>>

\* An operation begins, up to its first await.  The designers' first report
\* tells the state that an earlier operation left, unless the workflow has set
\* it before.
BeginOp(o, m) ==
    /\ agentOp[o].at = "idle" /\ opsBegun < MaxAgentOps /\ opsBegun' = opsBegun + 1
    /\ m \in MethodsOf(agent_class)
    /\ agentOp' = [p \in AgentOps |->
          IF p = o THEN [NoOp EXCEPT !.method = m, !.alone = ~AgentBusy /\ ~greeting,
                                     !.at = IF m \in {"process", "outline"} THEN "call" ELSE "start"]
                   ELSE [agentOp[p] EXCEPT !.alone = @ /\ agentOp[p].at = "idle"]]
    /\ development_state' \in
          CASE m \in {"process", "outline"} -> {"ANALYZING"}
            [] m \in {"reflect", "validate"} -> {"VALIDATING"}
            [] m = "refine" -> {"REFINING"}
            [] OTHER -> {development_state, "ANALYZING"}
    /\ health' = IF m = "_process" /\ agent_class \in Designers
                   THEN StatusOf(development_state') ELSE health
    /\ UNCHANGED <<agent_class, greeting, validation_history, lastEnd>>

\* The workflow's own call of the Garden Planner leaves the state as it is.
Outlined(o) ==
    /\ agentOp[o].method = "outline" /\ agentOp[o].at = "call" /\ EndWith(o, "result", TRUE)
    /\ UNCHANGED <<unmoved, shown, validation_history>>

\* process ends: only a status of "success" completes the agent.
ProcessEnds(o) ==
    /\ agentOp[o].method = "process" /\ agentOp[o].at = "call"
    /\ \/ development_state' = "COMPLETE" /\ EndWith(o, "result", TRUE)
       \/ development_state' = "ERROR" /\ EndWith(o, "failure", TRUE)
    /\ UNCHANGED <<unmoved, health, validation_history>>

-----------------------------------------------------------------------------
\* _process goes on to its call; the Garden Planner leaves its state alone.
DesignBegins(o) ==
    /\ agentOp[o].method = "_process" /\ agentOp[o].at = "start" /\ Move(o, "call")
    /\ development_state' = CASE agent_class = "GardenPlanner" -> development_state
                              [] agent_class = "EnvironmentalAnalysis" -> "ANALYZING"
                              [] OTHER -> "DESIGNING"
    /\ UNCHANGED <<unmoved, health, validation_history, lastEnd>>

\* The call raises: two classes report it, one way or the other.
DesignFails(o) ==
    /\ agentOp[o].method = "_process" /\ agentOp[o].at = "call"
    /\ development_state' = "ERROR"
    /\ LET reports == agent_class \in {"RootSystemArchitect", "TreePlacementPlanner"}
       IN  /\ health' = IF reports THEN "CRITICAL" ELSE health
           /\ EndWith(o, "failure", reports)
    /\ UNCHANGED <<unmoved, validation_history>>

\* The call has answered, with a design or with an error: nobody looks.  The
\* state of standard_reflect is set at once, or when the answer's size has
\* been tracked.
Designed(o) ==
    /\ agentOp[o].method = "_process" /\ agentOp[o].at = "call"
    /\ agentOp' = [agentOp EXCEPT ![o].at = "reflect", ![o].found = "design"]
    /\ development_state' =
          IF agent_class = "GardenPlanner" THEN "VALIDATING" ELSE development_state
    /\ UNCHANGED <<unmoved, health, validation_history, lastEnd>>

ReflectionBegins(o) ==
    /\ \/ agentOp[o].method = "_process" /\ agentOp[o].at = "reflect"
       \/ agentOp[o].method = "reflect" /\ agentOp[o].at = "start"
    /\ Move(o, "reflection")
    /\ development_state' = IF agentOp[o].method = "_process" /\ agent_class \in Designers
                               THEN "VALIDATING" ELSE development_state
    /\ UNCHANGED <<unmoved, health, validation_history, lastEnd>>

\* What a class makes of a reflection: passed, rejected, without a verdict, an
\* error.  One that raised is a rejection.  TreePlacementPlanner looks for
\* other signs of a verdict, EnvironmentalAnalysis indexes and raises.
Reflections == {"passed", "rejected", "unclear", "error"}
MayPass(class, r) ==
    r = "passed" \/ (r = "unclear" /\ class \in {"RootSystemArchitect", "TreePlacementPlanner"})

MayReject(class, r) ==
    \/ r = "rejected"
    \/ r = "unclear" /\ class \in {"GardenPlanner", "TreePlacementPlanner"}
    \/ r = "error" /\ class # "EnvironmentalAnalysis"

\* A reflection that raised has reported it; the answer of reflect stands for
\* what standard_reflect returns.
Reflected(o) ==
    /\ agentOp[o].method = "reflect" /\ agentOp[o].at = "reflection"
    /\ \/ health' \in {health, "CRITICAL"} /\ EndWith(o, "failure", TRUE)
       \/ UNCHANGED health /\ EndWith(o, "reflection", TRUE)
    /\ UNCHANGED <<unmoved, development_state, validation_history>>

\* The verdict is bad: the reflection is the answer.
Rejects(o, r) ==
    /\ MayReject(agent_class, r)
    /\ development_state' = "REFINING"
    /\ \/ health' = IF agent_class = "GardenPlanner" THEN health ELSE "DEGRADED"
       \/ r = "rejected" /\ agent_class = "GardenPlanner" /\ health' = "CRITICAL"
    /\ EndWith(o, "rejection", agent_class # "GardenPlanner")

\* The verdict is good: a designer is complete, and reports it after further
\* awaits; the Garden Planner only reports.
Completes(o, r) ==
    /\ MayPass(agent_class, r)
    /\ \/ /\ agent_class = "GardenPlanner" /\ health' = "HEALTHY"
          /\ agentOp' = [agentOp EXCEPT ![o] = NoOp]
          /\ lastEnd' = [method |-> agentOp[o].method, answer |-> "design", alone |-> agentOp[o].alone,
                      passed |-> r, told |-> TRUE]
          /\ UNCHANGED development_state
       \/ /\ agent_class \in Designers /\ development_state' = "COMPLETE"
          /\ agentOp' = [agentOp EXCEPT ![o].at = "report", ![o].passed = r]
          /\ UNCHANGED <<health, lastEnd>>

Judged(o) ==
    /\ agentOp[o].method = "_process" /\ agentOp[o].at = "reflection"
    /\ \E r \in Reflections : Rejects(o, r) \/ Completes(o, r)
    /\ UNCHANGED <<unmoved, validation_history>>

\* The metrics are recorded, and the state of that moment is reported.
DesignReported(o) ==
    /\ agentOp[o].method = "_process" /\ agentOp[o].at = "report"
    /\ health' = StatusOf(development_state)
    /\ EndWith(o, "design", TRUE)
    /\ UNCHANGED <<unmoved, development_state, validation_history>>

\* Anything else of _process raises, a reflection that cannot be read for one,
\* or the report of a failed call: the agent is in error, and tries to say so.
DesignRaises(o) ==
    /\ agentOp[o].method = "_process" /\ agentOp[o].at # "idle"
    /\ agentOp[o].at = "call" => agent_class \in {"RootSystemArchitect", "TreePlacementPlanner"}
    /\ development_state' = "ERROR"
    /\ \E told \in BOOLEAN :
          /\ health' = IF told THEN "CRITICAL" ELSE health
          /\ EndWith(o, "raised", told)
    /\ UNCHANGED <<unmoved, validation_history>>

-----------------------------------------------------------------------------
\* standard_refine: the state stays REFINING, whatever comes of it.
RefineBegins(o) ==
    /\ agentOp[o].method = "refine" /\ agentOp[o].at = "start" /\ Move(o, "call")
    /\ UNCHANGED <<unmoved, shown, validation_history, lastEnd>>

Refined(o) ==
    /\ agentOp[o].method = "refine" /\ agentOp[o].at = "call"
    /\ \/ health' \in {"HEALTHY", "DEGRADED"} /\ EndWith(o, "refinement", TRUE)
       \/ health' = "CRITICAL" /\ EndWith(o, "failure", TRUE)
    /\ UNCHANGED <<unmoved, development_state, validation_history>>

\* The size of what reflect or refine were given cannot be tracked, the failure
\* of a refinement not reported or a metric not recorded; or the caller is
\* cancelled, whatever it was in: nothing is put back.
HelperRaises(o) ==
    /\ agentOp[o].at # "idle"
    /\ \/ agentOp[o].method \in {"reflect", "refine"} /\ EndWith(o, "raised", FALSE)
       \/ EndWith(o, "cancelled", FALSE)
    /\ UNCHANGED <<unmoved, shown, validation_history>>

-----------------------------------------------------------------------------
\* validate_garden_planner_output.  An error is answered with a rejection
\* that tells of it, once the health is reported.
ErrorResponse(o) ==
    /\ development_state' = "ERROR"
    /\ \/ health' = "CRITICAL" /\ EndWith(o, "failure", TRUE)
       \/ UNCHANGED health /\ EndWith(o, "raised", FALSE)

\* The output has no good structure, or something raised on the way.
ValidationFails(o) ==
    /\ agentOp[o].method = "validate" /\ agentOp[o].at \in {"start", "call", "finish", "report"}
    /\ ErrorResponse(o)
    /\ UNCHANGED <<unmoved, validation_history>>

\* The context is stored; then the LLM is asked.
ContextStored(o) ==
    /\ agentOp[o].method = "validate" /\ agentOp[o].at = "start" /\ Move(o, "call")
    /\ UNCHANGED <<unmoved, shown, validation_history, lastEnd>>

\* The first validation; an error, which has no category, is not reflected on.
Validated(o, category) ==
    /\ agentOp[o].method = "validate" /\ agentOp[o].at = "call"
    /\ agentOp' = [agentOp EXCEPT ![o].found = category,
                        ![o].at = IF category = "UNKNOWN" THEN "finish" ELSE "reflection"]
    /\ UNCHANGED <<unmoved, shown, validation_history, lastEnd>>

\* The reflection: only critical improvements lead to a revision, and a
\* failure keeps the validation.
ValidationReflected(o) ==
    /\ agentOp[o].method = "validate" /\ agentOp[o].at = "reflection"
    /\ \E step \in {"finish", "revise"} : Move(o, step)
    /\ UNCHANGED <<unmoved, shown, validation_history, lastEnd>>

\* The revision, which gives a revised validation or is given up; what it
\* gives is the answer only when it could be stored.
Revised(o, category) ==
    /\ agentOp[o].method = "validate" /\ agentOp[o].at = "revise"
    /\ agentOp' = [agentOp EXCEPT ![o].found = category, ![o].at = "finish"]
    /\ UNCHANGED <<unmoved, shown, validation_history, lastEnd>>

KeepNewest(s) == IF Len(s) > history_limit THEN SubSeq(s, Len(s) - history_limit + 1, Len(s)) ELSE s

\* The history gets its entry, the metrics theirs.
HistoryUpdated(o) ==
    /\ agentOp[o].method = "validate" /\ agentOp[o].at = "finish" /\ Move(o, "report")
    /\ validation_history' = KeepNewest(Append(validation_history, agentOp[o].found))
    /\ UNCHANGED <<unmoved, shown, lastEnd>>

\* The state follows the category, and the health.
StateFollows(o) ==
    /\ agentOp[o].method = "validate" /\ agentOp[o].at = "report"
    /\ development_state' = CASE agentOp[o].found \in Accepting -> "COMPLETE"
                              [] agentOp[o].found = "REJECTED" -> "REFINING"
                              [] OTHER -> "ERROR"
    /\ health' = StatusOf(development_state')
    /\ EndWith(o, agentOp[o].found, TRUE)
    /\ UNCHANGED <<unmoved, validation_history>>

-----------------------------------------------------------------------------
DesignStep(o) ==
    \/ DesignBegins(o) \/ DesignFails(o) \/ Designed(o) \/ ReflectionBegins(o)
    \/ Judged(o) \/ DesignReported(o) \/ DesignRaises(o)

ValidationStep(o) ==
    \/ ValidationFails(o) \/ ContextStored(o) \/ ValidationReflected(o)
    \/ HistoryUpdated(o) \/ StateFollows(o)
    \/ \E c \in Categories : Validated(o, c) \/ Revised(o, c)

AgentsNext ==
    \/ Greet
    \/ \E o \in AgentOps, m \in Methods : BeginOp(o, m)
    \/ \E o \in AgentOps :
          \/ ProcessEnds(o) \/ Outlined(o) \/ DesignStep(o) \/ ValidationStep(o)
          \/ Reflected(o) \/ RefineBegins(o) \/ Refined(o) \/ HelperRaises(o)

-----------------------------------------------------------------------------
\* Every variable has its type.
AgentsTypeOK ==
    /\ agent_class \in Classes /\ development_state \in DevelopmentStates
    /\ health \in {"none", "HEALTHY", "DEGRADED", "CRITICAL"} /\ greeting \in BOOLEAN
    /\ validation_history \in Seq(Categories) /\ Len(validation_history) <= history_limit
    /\ agentOp \in [AgentOps -> [method : Methods, at : OpSteps, alone : BOOLEAN,
                            found : Categories \cup {"none", "design"},
                            passed : Reflections \cup {"none"}]]
    /\ lastEnd \in [method : Methods \cup {"none"}, answer : OpAnswers \cup {"none"},
                 alone : BOOLEAN, passed : Reflections \cup {"none"}, told : BOOLEAN]
    /\ opsBegun \in Nat

\* Nothing runs, and what ran last ran alone.
Settled == ~AgentBusy /\ lastEnd.alone /\ lastEnd.method # "none" /\ lastEnd.answer # "cancelled"

\* An agent at rest is COMPLETE just when its last operation gave what it was
\* asked for, if nothing overlapped it; the Garden Planner's _process is not
\* followed by its state, nor is the workflow's call.
CompleteIsEarned ==
    Settled => (development_state = "COMPLETE" <=>
                   \/ lastEnd.answer \in Accepting
                   \/ lastEnd.answer = "result" /\ lastEnd.method = "process"
                   \/ lastEnd.answer = "design" /\ agent_class # "GardenPlanner")

\* It is in ERROR just when its last operation failed or raised; reflect and
\* refine fail without a trace in the state.
ErrorIsMarked ==
    Settled => (development_state = "ERROR" <=>
                   \/ lastEnd.answer \in {"failure", "raised"} /\ lastEnd.method \notin {"reflect", "refine"}
                   \/ lastEnd.answer = "UNKNOWN")

\* The health tracker has an agent CRITICAL just when it is in ERROR, after an
\* operation of the kinds that report and that could report.
HealthFollows ==
    Settled /\ lastEnd.told /\ lastEnd.method \in {"_process", "validate"} =>
        (health = "CRITICAL" <=> development_state = "ERROR")

\* A validation is answered with the category that the history has last; a
\* design is only given out when its own reflection was no error and no
\* rejection, whatever else the agent was doing.
AnswersAreBacked ==
    /\ Settled /\ lastEnd.answer \in Categories =>
           /\ validation_history # <<>>
           /\ validation_history[Len(validation_history)] = lastEnd.answer
    /\ lastEnd.answer = "design" => lastEnd.passed \in {"passed", "unclear"}

\* What an agent shows of itself is what its last operation came to.
AgentsTellRight == CompleteIsEarned /\ ErrorIsMarked /\ HealthFollows /\ AnswersAreBacked
=============================================================================
