------------------------------ MODULE AgentCalls ------------------------------
(***************************************************************************)
(* One agent and its interface (interfaces/agent/interface.py              *)
(* AgentInterface, interfaces/base.py BaseInterface, agent.py              *)
(* Agent.get_response).  Calls of process_with_validation and visits of    *)
(* the Water agent (clarify, coordinate_with_next_agent) are coroutines of *)
(* one loop that share the agent's state, the agent's schema attribute and *)
(* the dict that counts the validations of a request.  An action is what   *)
(* runs between two awaits.                                                *)
(*                                                                         *)
(* The LLM API, the output validator and the other managers are the        *)
(* environment: they answer, refuse, raise or stay silent.  Whoever awaits *)
(* an operation may cancel it: the window, the runner and the validator do *)
(* at their own timeouts.                                                  *)
(***************************************************************************)
EXTENDS Naturals, FiniteSets

CONSTANTS
    Calls,      \* slots for calls of process_with_validation
    Visits,     \* slots for clarifications and coordinations
    Requests,   \* request ids (operation_id)
    max_validation_attempts,
    MaxOperations  \* bound on the operations begun

ASSUME AttemptsAssumption == max_validation_attempts \in Nat \ {0, 1}
ASSUME OperationsAssumption == MaxOperations \in Nat
ASSUME SlotsAssumption == Calls \cap Visits = {}

None == "none"

VARIABLES
    agent_state,  \* AgentInterface.agent_state
    schema,       \* Agent.schema: the call whose schema it is
    entry,        \* request -> the call whose dict is its validation state
    attempts,     \* request, call -> the "attempts" of the dict the call made
    at,           \* where each operation is
    wanted,       \* the agent state an operation sets, or means to restore
    call,         \* what a call of get_response knows
    mixed,        \* has a visit overlapped another operation?
    abandoned,    \* was an operation cancelled, and no last state set since?
    begun,        \* operations begun
    crowded       \* requests with two calls of get_response at a time

agentVars ==
    <<agent_state, schema, entry, attempts, at, wanted, call, mixed, abandoned, begun, crowded>>

Resting == {"READY", "COMPLETE", "ERROR"}
Visiting == {"CLARIFYING", "COORDINATING"}
AgentStates == Resting \cup Visiting \cup {"PROCESSING"}

Responding == {"lookup", "create", "take", "ask", "answer", "validate"}
Steps == {"idle", "enter", "work", "leave"} \cup Responding

Operations == Calls \cup Visits
Running == {c \in Calls : at[c] \in Responding}
Quiet == \A o \in Operations : at[o] = "idle"

\* given: the caller brought a schema.  held: the dict it counts in.  own: the
\* API and the validator were given its own schema so far.  alone: no other
\* call of get_response overlapped.
NotCalled == [request |-> None, given |-> FALSE, held |-> None, retries |-> FALSE,
              own |-> TRUE, alone |-> TRUE]

AgentInit ==
    /\ agent_state = "READY" /\ schema = None
    /\ entry = [r \in Requests |-> None]
    /\ attempts = [r \in Requests |-> [c \in Calls |-> 0]]
    /\ at = [o \in Operations |-> "idle"]
    /\ wanted = [o \in Operations |-> "READY"]
    /\ call = [c \in Calls |-> NotCalled]
    /\ mixed = FALSE /\ abandoned = FALSE /\ begun = 0 /\ crowded = {}

Goto(o, step) == at' = [at EXCEPT ![o] = step]

Learns(c, field, value) == call' = [call EXCEPT ![c][field] = value]

count(c) == attempts[call[c].request][call[c].held]

\* An operation begins; it may meet another, one of the two being a visit.
Begin(o) ==
    /\ begun < MaxOperations /\ begun' = begun + 1
    /\ UNCHANGED abandoned
    /\ mixed' = (mixed \/ \E p \in Operations \ {o} :
                              at[p] # "idle" /\ (o \in Visits \/ p \in Visits))

countVars == <<entry, attempts>>

-----------------------------------------------------------------------------
\* Mutants: mistakes the properties must reject.  No run uses them as they
\* stand; each is put in the place of the definition it is named after.

\* Mutant: a visit whose work failed leaves its own state behind.
Restored_OnSuccess(v) == {wanted[v], agent_state}

-----------------------------------------------------------------------------
\* The end of set_agent_state(s).  The state of the agent's resource follows,
\* or a refusal is logged; when the waits for the locks time out, the outermost
\* sets the attribute again.
Follow(s) == agent_state' \in {agent_state, s}

\* process_with_validation for request r, with a schema or without.
Call(c, r, given) ==
    /\ at[c] = "idle" /\ Goto(c, "enter")
    /\ agent_state' = "PROCESSING"
    /\ call' = [call EXCEPT ![c] = [NotCalled EXCEPT !.request = r, !.given = given]]
    /\ Begin(c)
    /\ UNCHANGED <<schema, countVars, wanted, crowded>>

\* The schema that the system prompt names becomes the agent's.
Load(c) == schema' = c

\* set_agent_state ends and the task of get_response begins; only a call
\* without a schema of its own has one loaded.
Begun(c) ==
    /\ at[c] = "enter" /\ Goto(c, "lookup")
    /\ Follow("PROCESSING")
    /\ IF call[c].given THEN UNCHANGED schema ELSE Load(c)
    /\ call' = [d \in Calls |->
          [call[d] EXCEPT !.alone = @ /\ d \notin Running /\ (d = c => Running = {})]]
    /\ crowded' = crowded \cup ({call[d].request : d \in Running} \cap {call[c].request})
    /\ UNCHANGED <<countVars, wanted, mixed, abandoned, begun>>

\* Earlier calls for the request have not used up its attempts.
MayTry(c, held) == attempts[call[c].request][held] < max_validation_attempts

\* The validation state of the request, if there is one with attempts left.
Admit(c) ==
    LET held == entry[call[c].request]
    IN  held # None /\ MayTry(c, held) /\ Learns(c, "held", held) /\ Goto(c, "ask")

LookedUp(c) ==
    /\ at[c] = "lookup"
    /\ \/ Admit(c)
       \/ entry[call[c].request] = None /\ Goto(c, "create") /\ UNCHANGED call
    /\ UNCHANGED <<agent_state, schema, countVars, wanted, mixed, abandoned, begun, crowded>>

\* There is none: a new dict is stored ...
StateCreated(c) ==
    /\ at[c] = "create" /\ Goto(c, "take")
    /\ entry' = [entry EXCEPT ![call[c].request] = c]
    /\ UNCHANGED <<agent_state, schema, attempts, wanted, call, mixed, abandoned, begun, crowded>>

\* ... and read back, which may find another call's.
Taken(c) ==
    /\ at[c] = "take" /\ Admit(c)
    /\ UNCHANGED <<agent_state, schema, countVars, wanted, mixed, abandoned, begun, crowded>>

\* api.call is given the schema that is the agent's now; there must be one.
Asked(c) ==
    /\ at[c] = "ask" /\ schema # None /\ Goto(c, "answer")
    /\ Learns(c, "own", call[c].own /\ schema = c)
    /\ UNCHANGED <<agent_state, schema, countVars, wanted, mixed, abandoned, begun, crowded>>

\* The LLM answers, and the validator is given what is the schema now.
Answered(c) ==
    /\ at[c] = "answer" /\ Goto(c, "validate")
    /\ Learns(c, "own", call[c].own /\ schema = c)
    /\ UNCHANGED <<agent_state, schema, countVars, wanted, mixed, abandoned, begun, crowded>>

\* An attempt is counted in the dict, which the state manager is given, except
\* after a retry that was the last.
Count(c) ==
    /\ attempts' = [attempts EXCEPT ![call[c].request][call[c].held] = @ + 1]
    /\ entry' = IF call[c].retries /\ count(c) + 1 >= max_validation_attempts
                  THEN entry
                  ELSE [entry EXCEPT ![call[c].request] = call[c].held]

\* What raises or is cancelled after a validation has counted it.
MayCount(c) == UNCHANGED countVars \/ (at[c] = "validate" /\ Count(c))

\* The output is valid; the loop breaks before it looks at a last attempt.
Accepted(c) ==
    /\ at[c] = "validate" /\ Count(c)
    /\ LET late == call[c].retries /\ count(c) + 1 >= max_validation_attempts
           state == IF late THEN "ERROR" ELSE "COMPLETE"
       IN  agent_state' = state /\ wanted' = [wanted EXCEPT ![c] = state]
    /\ Goto(c, "leave") /\ abandoned' = FALSE
    /\ UNCHANGED <<schema, call, mixed, begun, crowded>>

\* The output is not valid, and there is a next attempt.
Rejected(c) ==
    /\ at[c] = "validate" /\ Count(c)
    /\ count(c) + 1 < max_validation_attempts - 1
    /\ Learns(c, "retries", TRUE) /\ Goto(c, "ask")
    /\ UNCHANGED <<agent_state, schema, wanted, mixed, abandoned, begun, crowded>>

\* get_response ends with an error, or process_with_validation gives up.
Errs(c) ==
    /\ agent_state' = "ERROR"
    /\ wanted' = [wanted EXCEPT ![c] = "ERROR"]
    /\ Goto(c, "leave") /\ abandoned' = FALSE
    /\ UNCHANGED <<schema, call, mixed, begun, crowded>>

Exhausted(c) ==
    /\ at[c] = "validate" /\ Count(c)
    /\ count(c) + 1 >= max_validation_attempts - 1
    /\ Errs(c)

\* The attempts are used up, there is no schema, or something raised.
CallRaises(c) ==
    /\ at[c] \in Responding \ {"answer"}
    /\ Errs(c) /\ MayCount(c)

\* The timeout of process_with_validation, which cancels get_response.
Expires(c) ==
    /\ at[c] \in Responding
    /\ Errs(c) /\ MayCount(c)

\* The last state is set; the operation's own context is deleted.
Returns(c) ==
    /\ at[c] = "leave" /\ Goto(c, "idle")
    /\ Follow(wanted[c])
    /\ call' = [call EXCEPT ![c] = NotCalled]
    /\ wanted' = [wanted EXCEPT ![c] = "READY"]
    /\ UNCHANGED <<schema, countVars, mixed, abandoned, begun, crowded>>

\* Nothing sets a state for an operation that is cancelled: the handlers are for
\* an Exception.  One that had set its last state already leaves that behind.
Cancels(o) ==
    /\ at[o] # "idle" /\ Goto(o, "idle")
    /\ abandoned' = (abandoned \/ at[o] # "leave")
    /\ wanted' = [wanted EXCEPT ![o] = "READY"]
    /\ UNCHANGED <<agent_state, schema, mixed, begun, crowded>>

\* Whoever awaits the call cancels it, and get_response with it.
CallCancelled(c) ==
    /\ Cancels(c) /\ MayCount(c)
    /\ call' = [call EXCEPT ![c] = NotCalled]

-----------------------------------------------------------------------------
\* clarify or coordinate_with_next_agent: the state now is what to restore.
Visit(v) ==
    /\ at[v] = "idle" /\ Goto(v, "enter")
    /\ wanted' = [wanted EXCEPT ![v] = agent_state]
    /\ Begin(v)
    /\ UNCHANGED <<agent_state, schema, countVars, call, crowded>>

\* The resource does not follow a visit.
Marked(v) ==
    /\ at[v] = "enter" /\ Goto(v, "work")
    /\ agent_state' \in Visiting
    /\ UNCHANGED <<schema, countVars, wanted, call, mixed, abandoned, begun, crowded>>

\* The states that a visit may leave behind.
Restored(v) == {wanted[v]}

\* The work under the visit's lock ends, fails or times out.
VisitWorked(v) ==
    /\ at[v] = "work" /\ Goto(v, "leave")
    /\ agent_state' \in Restored(v)
    /\ UNCHANGED <<schema, countVars, wanted, call, mixed, abandoned, begun, crowded>>

Left(v) ==
    /\ at[v] = "leave" /\ Goto(v, "idle")
    /\ Follow(wanted[v])
    /\ wanted' = [wanted EXCEPT ![v] = "READY"]
    /\ UNCHANGED <<schema, countVars, call, mixed, abandoned, begun, crowded>>

\* The coordination that asked is over, by its own timeout or its caller's.
VisitCancelled(v) == Cancels(v) /\ UNCHANGED <<countVars, call>>

-----------------------------------------------------------------------------
CallStep(c) ==
    \/ Begun(c) \/ LookedUp(c) \/ StateCreated(c) \/ Taken(c)
    \/ Asked(c) \/ Answered(c) \/ Accepted(c) \/ Rejected(c) \/ Exhausted(c) \/ CallRaises(c)
    \/ Returns(c) \/ CallCancelled(c)

VisitStep(v) == Marked(v) \/ VisitWorked(v) \/ Left(v) \/ VisitCancelled(v)

AgentNext ==
    \/ \E c \in Calls, r \in Requests, given \in BOOLEAN : Call(c, r, given)
    \/ \E c \in Calls : CallStep(c) \/ Expires(c)
    \/ \E v \in Visits : Visit(v) \/ VisitStep(v)

-----------------------------------------------------------------------------
\* Every variable has its type.
AgentTypeOK ==
    /\ agent_state \in AgentStates
    /\ schema \in Calls \cup {None}
    /\ entry \in [Requests -> Calls \cup {None}]
    /\ attempts \in [Requests -> [Calls -> Nat]]
    /\ at \in [Operations -> Steps] /\ wanted \in [Operations -> AgentStates]
    /\ call \in [Calls -> [request : Requests \cup {None}, given : BOOLEAN,
                           held : Calls \cup {None}, retries : BOOLEAN,
                           own : BOOLEAN, alone : BOOLEAN]]
    /\ mixed \in BOOLEAN /\ abandoned \in BOOLEAN /\ begun \in Nat /\ crowded \subseteq Requests

\* An agent that nothing uses is at rest, and after a cancellation, which may
\* leave PROCESSING, CLARIFYING or COORDINATING behind, it is so again when a
\* call has set its last state.  A visit puts back the state that it found, so
\* that this holds only while no visit overlaps another operation: a visit
\* that found PROCESSING or another visit's state leaves it behind.
AtRestUnlessMixed == Quiet /\ ~mixed /\ ~abandoned => agent_state \in Resting

\* A call without a schema of its own that no other call overlapped has the
\* LLM and the validator work to its own schema at every attempt, although
\* the schema is an attribute of the agent and is read after awaits.
OwnSchemaWhenAlone ==
    \A c \in Calls : call[c].alone /\ ~call[c].given => call[c].own

\* Calls for one request, one after the other, use max_validation_attempts
\* validations between them: the count outlives the call.  Calls at a time
\* may both find attempts left and exceed it.
AttemptsBounded ==
    \A r \in Requests \ crowded : \A c \in Calls : attempts[r][c] <= max_validation_attempts

\* What the calls of one agent share, its state, its schema and its counts of
\* validations, is right as long as no two of them overlap and, for the state,
\* nobody cancels one; the next call after a cancellation puts it right.
ApartUnlessOverlapping == AtRestUnlessMixed /\ OwnSchemaWhenAlone /\ AttemptsBounded
=============================================================================
