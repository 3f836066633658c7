---------------------------- MODULE PhasesProofs ----------------------------
(***************************************************************************)
(* Theorems about agent calls, validation, development, cultivation, phases *)
(* and refinement for every value of their constants.  The parts share no    *)
(* variable, so that a step of one is a stutter of the others (OneAtATime),  *)
(* and each has an inductive invariant of its own.                          *)
(***************************************************************************)
EXTENDS MCPhases, TLAPS, SequenceTheorems, FiniteSetTheorems

-----------------------------------------------------------------------------
(* Calls and visits of an agent (AgentCalls) *)

\* What is known of a call.
CallRecords == [request : Requests \cup {None}, given : BOOLEAN, held : Calls \cup {None},
                retries : BOOLEAN, own : BOOLEAN, alone : BOOLEAN]

\* While no visit overlaps another operation, a visit is the only one and, unless
\* a cancelled operation left its state, means to restore a state of rest, and an
\* agent that nothing works with is at rest.
RestsInTurn ==
    /\ \A c \in Calls : at[c] = "leave" => wanted[c] \in {"COMPLETE", "ERROR"}
    /\ ~mixed => \A v \in Visits : at[v] # "idle" =>
                     /\ ~abandoned => wanted[v] \in Resting
                     /\ \A o \in Operations \ {v} : at[o] = "idle"
    /\ ~mixed /\ ~abandoned /\ (\A o \in Operations : at[o] \in {"idle", "leave"}) =>
           agent_state \in Resting

\* A call that is alone runs alone, with its own schema in the agent.
SchemaInPlace ==
    \A c \in Running : call[c].alone =>
        Running = {c} /\ (~call[c].given => schema = c)

\* Steps at which the next validation will be counted.
Trying == {"ask", "answer", "validate"}

\* Calls for a request that is not crowded run one at a time, and one that is to
\* be validated has an attempt left.
AttemptsLeft ==
    /\ \A c \in Calls : at[c] # "idle" => call[c].request \in Requests
    /\ \A c, d \in Running : call[c].request = call[d].request /\ call[c].request \notin crowded => c = d
    /\ \A c \in Calls : at[c] \in Trying =>
          /\ call[c].held \in Calls
          /\ call[c].request \notin crowded => count(c) < max_validation_attempts

AInv == /\ AgentTypeOK /\ RestsInTurn /\ SchemaInPlace /\ AttemptsLeft
        /\ OwnSchemaWhenAlone /\ AttemptsBounded

\* The invariant says what the run checks.
LEMMA CallsApart ==
    ASSUME AInv
    PROVE  ApartUnlessOverlapping
  BY DEF AInv, ApartUnlessOverlapping, AtRestUnlessMixed, Quiet, RestsInTurn

\* A step of a call keeps the invariant, if it leaves the agent at rest with its
\* end, and a validation ahead only where an attempt is left.
LEMMA CallMoves ==
    ASSUME AInv, NEW c \in Calls, at[c] # "idle",
           NEW to \in Steps, NEW rec \in CallRecords, NEW w \in AgentStates, NEW s \in AgentStates,
           at' = [at EXCEPT ![c] = to], call' = [call EXCEPT ![c] = rec],
           wanted' = [wanted EXCEPT ![c] = w], agent_state' = s,
           UNCHANGED <<schema, mixed, begun, crowded>>, abandoned' \in BOOLEAN,
           entry' \in [Requests -> Calls \cup {None}],
           attempts' \in [Requests -> [Calls -> Nat]],
           \/ attempts' = attempts
           \/ /\ at[c] = "validate"
              /\ \A r \in Requests, d \in Calls :
                    attempts'[r][d] = IF r = call[c].request /\ d = call[c].held
                                        THEN attempts[r][d] + 1 ELSE attempts[r][d],
           to \in {"idle", "leave"} /\ ~abandoned' =>
               s \in Resting \/ (at[c] = "leave" /\ s = agent_state /\ ~abandoned),
           to = "leave" => w \in {"COMPLETE", "ERROR"},
           to \in Responding =>
               /\ at[c] \in Responding /\ rec.request = call[c].request
               /\ rec.given = call[c].given /\ rec.alone = call[c].alone,
           to # "idle" => rec.request \in Requests,
           rec.alone /\ ~rec.given => rec.own,
           to \in Trying =>
               /\ rec.held \in Calls
               /\ rec.request \notin crowded =>
                     attempts'[rec.request][rec.held] < max_validation_attempts
    PROVE  AInv'
  <1>1. /\ at \in [Operations -> Steps] /\ wanted \in [Operations -> AgentStates]
        /\ call \in [Calls -> CallRecords] /\ c \in Operations /\ c \notin Visits
        /\ attempts \in [Requests -> [Calls -> Nat]] /\ max_validation_attempts \in Nat
    BY SlotsAssumption, AttemptsAssumption DEF AInv, AgentTypeOK, CallRecords, Operations
  <1>2. /\ \A o \in Operations \ {c} : at'[o] = at[o] /\ wanted'[o] = wanted[o]
        /\ at'[c] = to /\ wanted'[c] = w
        /\ \A d \in Calls \ {c} : call'[d] = call[d]
        /\ call'[c] = rec
    BY <1>1
  <1>3. AgentTypeOK'
    BY <1>1 DEF AInv, AgentTypeOK, CallRecords
  <1>4. RestsInTurn'
    <2>1. \A d \in Calls : at'[d] = "leave" => wanted'[d] \in {"COMPLETE", "ERROR"}
      BY <1>2 DEF AInv, RestsInTurn, Operations
    <2>2. ASSUME ~mixed, NEW v \in Visits, at'[v] # "idle"
          PROVE  /\ wanted'[v] \in Resting
                 /\ \A o \in Operations \ {v} : at'[o] = "idle"
      <3>1. v # c /\ v \in Operations
        BY <1>1 DEF Operations
      <3>2. at[v] # "idle"
        BY <1>2, <2>2, <3>1
      <3>3. at[c] = "idle"
        BY <1>1, <2>2, <3>1, <3>2 DEF AInv, RestsInTurn
      <3> QED BY <3>3
    <2>3. ASSUME ~mixed, ~abandoned', \A o \in Operations : at'[o] \in {"idle", "leave"}
          PROVE  agent_state' \in Resting
      <3>1. to \in {"idle", "leave"}
        BY <1>1, <1>2, <2>3
      <3>2. CASE at[c] = "leave" /\ s = agent_state /\ ~abandoned
        <4>1. \A o \in Operations : at[o] \in {"idle", "leave"}
          BY <1>2, <2>3, <3>2
        <4> QED BY <2>3, <3>2, <4>1 DEF AInv, RestsInTurn
      <3> QED BY <2>3, <3>1, <3>2
    <2> QED BY <2>1, <2>2, <2>3 DEF RestsInTurn
  <1>5. Running' \subseteq Running
    BY <1>2 DEF Running, Operations
  <1>6. \A d \in Running' : /\ d \in Running /\ call'[d].request = call[d].request
                            /\ call'[d].given = call[d].given /\ call'[d].alone = call[d].alone
    <2> TAKE d \in Running'
    <2>1. d \in Calls /\ at'[d] \in Responding /\ d \in Running
      BY <1>5 DEF Running
    <2> QED BY <1>2, <2>1
  <1>7. SchemaInPlace'
    BY <1>5, <1>6 DEF AInv, SchemaInPlace
  <1>8. OwnSchemaWhenAlone'
    BY <1>2 DEF AInv, OwnSchemaWhenAlone
  <1>9. /\ \A d \in Calls : at'[d] # "idle" => call'[d].request \in Requests
        /\ \A d, e \in Running' : call'[d].request = call'[e].request
                                  /\ call'[d].request \notin crowded => d = e
    BY <1>2, <1>6 DEF AInv, AttemptsLeft, Operations
  <1>10. ASSUME NEW d \in Calls, at'[d] \in Trying
         PROVE  /\ call'[d].held \in Calls
                /\ call'[d].request \notin crowded =>
                      attempts'[call'[d].request][call'[d].held] < max_validation_attempts
    <2>1. CASE d = c
      BY <1>2, <1>10, <2>1
    <2>2. CASE d # c
      <3>1. at[d] \in Trying /\ call'[d] = call[d]
        BY <1>2, <1>10, <2>2 DEF Operations
      <3>2. /\ call[d].held \in Calls /\ call[d].request \in Requests
            /\ call[d].request \notin crowded =>
                  attempts[call[d].request][call[d].held] < max_validation_attempts
        BY <3>1 DEF AInv, AttemptsLeft, count, Trying
      <3>3. at[c] = "validate" /\ call[d].request \notin crowded => call[d].request # call[c].request
        BY <2>2, <3>1 DEF AInv, AttemptsLeft, Running, Responding, Trying
      <3> QED BY <3>1, <3>2, <3>3
    <2> QED BY <2>1, <2>2
  <1>11. AttemptsLeft'
    BY <1>9, <1>10 DEF AttemptsLeft, count
  <1>12. AttemptsBounded'
    <2>1. ASSUME NEW r \in Requests \ crowded, NEW d \in Calls
          PROVE  attempts'[r][d] <= max_validation_attempts
      <3>1. attempts[r][d] \in Nat /\ attempts[r][d] <= max_validation_attempts
        BY <1>1, <2>1 DEF AInv, AttemptsBounded
      <3>2. at[c] = "validate" /\ r = call[c].request /\ d = call[c].held =>
                attempts[r][d] < max_validation_attempts
        BY <2>1 DEF AInv, AttemptsLeft, count, Trying
      <3> QED BY <1>1, <3>1, <3>2
    <2> QED BY <2>1 DEF AttemptsBounded
  <1> QED BY <1>3, <1>4, <1>7, <1>8, <1>11, <1>12 DEF AInv

\* A step of a visit keeps the invariant, if it leaves a state of rest behind.
LEMMA VisitMoves ==
    ASSUME AInv, NEW v \in Visits, at[v] # "idle",
           NEW to \in Steps, NEW w \in AgentStates, NEW s \in AgentStates,
           at' = [at EXCEPT ![v] = to], wanted' = [wanted EXCEPT ![v] = w], agent_state' = s,
           UNCHANGED <<schema, entry, attempts, call, mixed, begun, crowded>>,
           abandoned' \in BOOLEAN, abandoned => abandoned',
           ~mixed /\ ~abandoned' /\ to # "idle" => w \in Resting,
           ~mixed /\ ~abandoned' /\ to \in {"idle", "leave"} => s \in Resting
    PROVE  AInv'
  <1>1. /\ at \in [Operations -> Steps] /\ wanted \in [Operations -> AgentStates]
        /\ v \in Operations /\ v \notin Calls
    BY SlotsAssumption DEF AInv, AgentTypeOK, Operations
  <1>2. /\ \A o \in Operations \ {v} : at'[o] = at[o] /\ wanted'[o] = wanted[o]
        /\ at'[v] = to /\ wanted'[v] = w
        /\ \A c \in Calls : at'[c] = at[c] /\ wanted'[c] = wanted[c]
    BY <1>1 DEF Operations
  <1>3. AgentTypeOK'
    BY <1>1 DEF AInv, AgentTypeOK
  <1>4. RestsInTurn'
    <2>1. \A d \in Calls : at'[d] = "leave" => wanted'[d] \in {"COMPLETE", "ERROR"}
      BY <1>2 DEF AInv, RestsInTurn
    <2>2. ASSUME ~mixed
          PROVE  /\ \A o \in Operations \ {v} : at'[o] = "idle"
                 /\ \A u \in Visits : at'[u] # "idle" => u = v
      BY <1>1, <1>2, <2>2 DEF AInv, RestsInTurn, Operations
    <2>3. ASSUME ~mixed, NEW u \in Visits, at'[u] # "idle"
          PROVE  (~abandoned' => wanted'[u] \in Resting) /\ \A o \in Operations \ {u} : at'[o] = "idle"
      BY <1>2, <2>2, <2>3
    <2>4. ASSUME ~mixed, ~abandoned', \A o \in Operations : at'[o] \in {"idle", "leave"}
          PROVE  agent_state' \in Resting
      BY <1>1, <1>2, <2>4
    <2> QED BY <2>1, <2>3, <2>4 DEF RestsInTurn
  <1>5. Running' = Running
    BY <1>2 DEF Running
  <1>6. SchemaInPlace' /\ OwnSchemaWhenAlone' /\ AttemptsBounded'
    BY <1>5 DEF AInv, SchemaInPlace, OwnSchemaWhenAlone, AttemptsBounded
  <1>7. AttemptsLeft'
    BY <1>2, <1>5 DEF AInv, AttemptsLeft, count
  <1> QED BY <1>3, <1>4, <1>6, <1>7 DEF AInv

\* What is known of a call that is not idle.
LEMMA CallKnown ==
    ASSUME AInv, NEW c \in Calls
    PROVE  /\ call[c] \in CallRecords /\ call = [call EXCEPT ![c] = call[c]]
           /\ wanted[c] \in AgentStates /\ wanted = [wanted EXCEPT ![c] = wanted[c]]
           /\ agent_state \in AgentStates /\ max_validation_attempts \in Nat \ {0, 1}
           /\ entry \in [Requests -> Calls \cup {None}] /\ attempts \in [Requests -> [Calls -> Nat]]
           /\ at[c] # "idle" => call[c].request \in Requests
           /\ call[c].alone /\ ~call[c].given => call[c].own
           /\ at[c] \in Trying =>
                 /\ call[c].held \in Calls
                 /\ call[c].request \notin crowded => count(c) < max_validation_attempts
  BY AttemptsAssumption
  DEF AInv, AgentTypeOK, Operations, CallRecords, AttemptsLeft, OwnSchemaWhenAlone

\* Whether an operation was abandoned is known.
LEMMA AbandonedKnown ==
    ASSUME AInv
    PROVE  abandoned \in BOOLEAN
  BY DEF AInv, AgentTypeOK

\* An attempt is counted in one place.
LEMMA Counted ==
    ASSUME AInv, NEW c \in Calls, at[c] = "validate", Count(c)
    PROVE  /\ entry' \in [Requests -> Calls \cup {None}]
           /\ attempts' \in [Requests -> [Calls -> Nat]]
           /\ \A r \in Requests, d \in Calls :
                 attempts'[r][d] = IF r = call[c].request /\ d = call[c].held
                                     THEN attempts[r][d] + 1 ELSE attempts[r][d]
  <1>1. PICK r0 \in Requests : r0 = call[c].request
    BY CallKnown
  <1>2. PICK h \in Calls : h = call[c].held
    BY CallKnown DEF Trying
  <1>3. attempts' = [attempts EXCEPT ![r0][h] = attempts[r0][h] + 1]
    BY <1>1, <1>2 DEF Count
  <1>4. entry' = entry \/ entry' = [entry EXCEPT ![r0] = h]
    BY <1>1, <1>2 DEF Count
  <1>5. entry \in [Requests -> Calls \cup {None}] /\ attempts \in [Requests -> [Calls -> Nat]]
    BY CallKnown
  <1> QED BY <1>1, <1>2, <1>3, <1>4, <1>5

\* A call that fails, its last validation counted or not, keeps the invariant.
LEMMA ErrsKeeps ==
    ASSUME AInv, NEW c \in Calls, at[c] # "idle", Errs(c),
           UNCHANGED countVars \/ (at[c] = "validate" /\ Count(c))
    PROVE  AInv'
  <1>1. PICK rec \in CallRecords : rec = call[c]
    BY CallKnown
  <1>2. call = [call EXCEPT ![c] = rec] /\ (rec.alone /\ ~rec.given => rec.own)
        /\ rec.request \in Requests
    BY <1>1, CallKnown
  <1>3. /\ agent_state' = "ERROR" /\ wanted' = [wanted EXCEPT ![c] = "ERROR"]
        /\ at' = [at EXCEPT ![c] = "leave"] /\ abandoned' \in BOOLEAN
        /\ UNCHANGED <<schema, call, mixed, begun, crowded>>
    BY DEF Errs, Goto
  <1>4. /\ "ERROR" \in AgentStates /\ "ERROR" \in Resting /\ "leave" \in Steps
        /\ "leave" \notin Responding /\ "leave" \notin Trying
    BY DEF AgentStates, Resting, Steps, Responding, Trying
  <1>5. /\ entry' \in [Requests -> Calls \cup {None}]
        /\ attempts' \in [Requests -> [Calls -> Nat]]
        /\ \/ attempts' = attempts
           \/ /\ at[c] = "validate"
              /\ \A r \in Requests, d \in Calls :
                    attempts'[r][d] = IF r = call[c].request /\ d = call[c].held
                                        THEN attempts[r][d] + 1 ELSE attempts[r][d]
    BY Counted, CallKnown DEF countVars
  <1> QED BY <1>2, <1>3, <1>4, <1>5, CallMoves

\* A call that goes on with its response keeps the invariant.
LEMMA ResponseKeeps ==
    ASSUME AInv, NEW c \in Calls, at[c] \in Responding, NEW to \in Responding,
           NEW rec \in CallRecords, call' = [call EXCEPT ![c] = rec],
           rec.request = call[c].request, rec.given = call[c].given, rec.alone = call[c].alone,
           rec.alone /\ ~rec.given => rec.own,
           to \in Trying => rec.held \in Calls
                            /\ (rec.request \notin crowded =>
                                  attempts[rec.request][rec.held] < max_validation_attempts),
           at' = [at EXCEPT ![c] = to],
           UNCHANGED <<agent_state, schema, attempts, wanted, mixed, abandoned, begun, crowded>>,
           entry' \in [Requests -> Calls \cup {None}]
    PROVE  AInv'
  <1>1. PICK s \in AgentStates : s = agent_state
    BY CallKnown
  <1>2. PICK w \in AgentStates : w = wanted[c]
    BY CallKnown
  <1>3. wanted' = [wanted EXCEPT ![c] = w] /\ agent_state' = s
    BY <1>1, <1>2, CallKnown
  <1>4. to \in Steps /\ to \notin {"idle", "leave"} /\ at[c] # "idle"
    BY DEF Steps, Responding
  <1>5. /\ rec.request \in Requests /\ attempts' \in [Requests -> [Calls -> Nat]]
        /\ abandoned' \in BOOLEAN
    BY <1>4, CallKnown, AbandonedKnown
  <1> QED BY <1>3, <1>4, <1>5, CallMoves

\* A call that is let in has an attempt left.
LEMMA AdmitKeeps ==
    ASSUME AInv, NEW c \in Calls, at[c] \in Responding, Admit(c),
           UNCHANGED <<agent_state, schema, countVars, wanted, mixed, abandoned, begun, crowded>>
    PROVE  AInv'
  <1>1. at[c] # "idle"
    BY DEF Responding
  <1>2. PICK r \in Requests : r = call[c].request
    BY <1>1, CallKnown
  <1>3. PICK h \in Calls : h = entry[r] /\ attempts[r][h] < max_validation_attempts
    BY <1>2, CallKnown DEF Admit, MayTry
  <1>4. call' = [call EXCEPT ![c].held = h] /\ at' = [at EXCEPT ![c] = "ask"]
    BY <1>2, <1>3 DEF Admit, Learns, Goto
  <1>5. /\ [call[c] EXCEPT !.held = h] \in CallRecords
        /\ [call[c] EXCEPT !.held = h].request = call[c].request
        /\ [call[c] EXCEPT !.held = h].given = call[c].given
        /\ [call[c] EXCEPT !.held = h].alone = call[c].alone
        /\ [call[c] EXCEPT !.held = h].own = call[c].own
        /\ [call[c] EXCEPT !.held = h].held = h
    BY CallKnown DEF CallRecords
  <1>6. PICK rec \in CallRecords :
           /\ rec = [call[c] EXCEPT !.held = h]
           /\ rec.request = call[c].request /\ rec.given = call[c].given
           /\ rec.alone = call[c].alone /\ rec.own = call[c].own /\ rec.held = h
    BY <1>5
  <1>7. call' = [call EXCEPT ![c] = rec]
    BY <1>4, <1>6
  <1>8. "ask" \in Responding
    BY DEF Responding
  <1>9. (rec.alone /\ ~rec.given => rec.own) /\ entry' \in [Requests -> Calls \cup {None}]
        /\ attempts' = attempts
    BY <1>6, CallKnown DEF countVars
  <1> QED BY <1>2, <1>3, <1>4, <1>6, <1>7, <1>8, <1>9, ResponseKeeps

\* Asking, or being answered, notes whether the schema is the call's own: for a
\* call that is alone it is.
LEMMA NotesKeep ==
    ASSUME AInv, NEW c \in Calls, at[c] \in Trying, NEW to \in Trying,
           at' = [at EXCEPT ![c] = to], Learns(c, "own", call[c].own /\ schema = c),
           UNCHANGED <<agent_state, schema, countVars, wanted, mixed, abandoned, begun, crowded>>
    PROVE  AInv'
  <1>1. at[c] \in Responding /\ to \in Responding /\ c \in Running
    BY DEF Responding, Trying, Running
  <1>2. PICK b \in BOOLEAN : b = (call[c].own /\ schema = c)
    OBVIOUS
  <1>3. call' = [call EXCEPT ![c].own = b]
    BY <1>2 DEF Learns
  <1>4. /\ [call[c] EXCEPT !.own = b] \in CallRecords
        /\ [call[c] EXCEPT !.own = b].request = call[c].request
        /\ [call[c] EXCEPT !.own = b].given = call[c].given
        /\ [call[c] EXCEPT !.own = b].alone = call[c].alone
        /\ [call[c] EXCEPT !.own = b].own = b
        /\ [call[c] EXCEPT !.own = b].held = call[c].held
    BY CallKnown DEF CallRecords
  <1>5. PICK rec \in CallRecords :
           /\ rec = [call[c] EXCEPT !.own = b]
           /\ rec.request = call[c].request /\ rec.given = call[c].given
           /\ rec.alone = call[c].alone /\ rec.own = b /\ rec.held = call[c].held
    BY <1>4
  <1>6. call' = [call EXCEPT ![c] = rec]
    BY <1>3, <1>5
  <1>7. rec.alone /\ ~rec.given => rec.own
    <2> SUFFICES ASSUME call[c].alone, ~call[c].given PROVE b
      BY <1>5
    <2>1. schema = c
      BY <1>1 DEF AInv, SchemaInPlace
    <2>2. call[c].own
      BY CallKnown
    <2> QED BY <1>2, <2>1, <2>2
  <1>8. entry' \in [Requests -> Calls \cup {None}] /\ attempts' = attempts
    BY CallKnown DEF countVars
  <1>9. /\ rec.held \in Calls
        /\ rec.request \notin crowded => attempts[rec.request][rec.held] < max_validation_attempts
    BY <1>5, CallKnown DEF count
  <1> QED BY <1>1, <1>5, <1>6, <1>7, <1>8, <1>9, ResponseKeeps

\* A validation that ends the call, or that is to be tried again, keeps the
\* invariant.
LEMMA ValidatedKeeps ==
    ASSUME AInv, NEW c \in Calls, Accepted(c) \/ Rejected(c)
    PROVE  AInv'
  <1>1. at[c] = "validate" /\ Count(c)
    BY DEF Accepted, Rejected
  <1>2. /\ entry' \in [Requests -> Calls \cup {None}]
        /\ attempts' \in [Requests -> [Calls -> Nat]]
        /\ \A r \in Requests, d \in Calls :
              attempts'[r][d] = IF r = call[c].request /\ d = call[c].held
                                  THEN attempts[r][d] + 1 ELSE attempts[r][d]
    BY <1>1, Counted
  <1>3. /\ call[c].request \in Requests /\ call[c].held \in Calls
        /\ call[c].alone /\ ~call[c].given => call[c].own
    BY <1>1, CallKnown DEF Trying
  <1>4. CASE Accepted(c)
    <2>1. PICK s \in {"ERROR", "COMPLETE"} :
             agent_state' = s /\ wanted' = [wanted EXCEPT ![c] = s]
      BY <1>4 DEF Accepted
    <2>2. /\ at' = [at EXCEPT ![c] = "leave"] /\ abandoned' \in BOOLEAN
          /\ UNCHANGED <<schema, call, mixed, begun, crowded>>
      BY <1>4 DEF Accepted, Goto
    <2>3. PICK rec \in CallRecords : rec = call[c]
      BY CallKnown
    <2>4. call' = [call EXCEPT ![c] = rec]
      BY <2>2, <2>3, CallKnown
    <2>5. /\ s \in AgentStates /\ s \in Resting /\ "leave" \in Steps
          /\ "leave" \notin Responding /\ "leave" \notin Trying
      BY DEF AgentStates, Resting, Steps, Responding, Trying
    <2> QED BY <1>1, <1>2, <1>3, <2>1, <2>2, <2>3, <2>4, <2>5, CallMoves
  <1>5. CASE Rejected(c)
    <2>1. /\ call' = [call EXCEPT ![c].retries = TRUE] /\ at' = [at EXCEPT ![c] = "ask"]
          /\ UNCHANGED <<agent_state, schema, wanted, mixed, abandoned, begun, crowded>>
          /\ count(c) + 1 < max_validation_attempts - 1
      BY <1>5 DEF Rejected, Learns, Goto
    <2>2. /\ [call[c] EXCEPT !.retries = TRUE] \in CallRecords
          /\ [call[c] EXCEPT !.retries = TRUE].request = call[c].request
          /\ [call[c] EXCEPT !.retries = TRUE].given = call[c].given
          /\ [call[c] EXCEPT !.retries = TRUE].alone = call[c].alone
          /\ [call[c] EXCEPT !.retries = TRUE].own = call[c].own
          /\ [call[c] EXCEPT !.retries = TRUE].held = call[c].held
      BY CallKnown DEF CallRecords
    <2>3. PICK rec \in CallRecords :
             /\ rec = [call[c] EXCEPT !.retries = TRUE]
             /\ rec.request = call[c].request /\ rec.given = call[c].given
             /\ rec.alone = call[c].alone /\ rec.own = call[c].own /\ rec.held = call[c].held
      BY <2>2
    <2>4. call' = [call EXCEPT ![c] = rec]
      BY <2>1, <2>3
    <2>5. PICK s \in AgentStates : s = agent_state
      BY CallKnown
    <2>6. PICK w \in AgentStates : w = wanted[c] /\ wanted = [wanted EXCEPT ![c] = w]
      BY CallKnown
    <2>7. /\ "ask" \in Steps /\ "ask" \in Responding /\ "validate" \in Responding
      BY DEF Steps, Responding
    <2>8. attempts'[rec.request][rec.held] < max_validation_attempts
      <3>1. attempts[call[c].request][call[c].held] \in Nat
        BY <1>3, CallKnown
      <3>2. attempts'[rec.request][rec.held] = attempts[call[c].request][call[c].held] + 1
        BY <1>2, <1>3, <2>3
      <3> QED BY <2>1, <3>1, <3>2, CallKnown DEF count
    <2>9. /\ wanted' = [wanted EXCEPT ![c] = w] /\ agent_state' = s
          /\ UNCHANGED <<schema, mixed, begun, crowded>> /\ at' = [at EXCEPT ![c] = "ask"]
          /\ abandoned' \in BOOLEAN
      BY <2>1, <2>5, <2>6, AbandonedKnown
    <2>10. rec.request \in Requests /\ (rec.alone /\ ~rec.given => rec.own) /\ rec.held \in Calls
      BY <1>3, <2>3
    <2>11. /\ at[c] = "validate" /\ at[c] # "idle" /\ at[c] \in Responding
           /\ "ask" \notin {"idle", "leave"}
      BY ONLY <1>1, <2>7
    <2> QED
      BY ONLY AInv, c \in Calls, rec \in CallRecords, w \in AgentStates, s \in AgentStates,
              <1>2, <2>3, <2>4, <2>7, <2>8, <2>9, <2>10, <2>11, CallMoves
  <1> QED BY <1>4, <1>5

\* The end of a call keeps the invariant.
LEMMA ReturnsKeeps ==
    ASSUME AInv, NEW c \in Calls, Returns(c)
    PROVE  AInv'
  <1>1. /\ at[c] = "leave" /\ at' = [at EXCEPT ![c] = "idle"]
        /\ agent_state' \in {agent_state, wanted[c]}
        /\ call' = [call EXCEPT ![c] = NotCalled]
        /\ wanted' = [wanted EXCEPT ![c] = "READY"]
        /\ UNCHANGED <<schema, mixed, abandoned, begun, crowded>> /\ UNCHANGED countVars
    BY DEF Returns, Goto, Follow
  <1>2. wanted[c] \in Resting
    BY <1>1 DEF AInv, RestsInTurn, Resting
  <1>3. /\ NotCalled \in CallRecords /\ NotCalled.own /\ "READY" \in AgentStates
        /\ "idle" \in Steps /\ "idle" \notin Responding /\ "idle" \notin Trying
    BY DEF NotCalled, CallRecords, AgentStates, Resting, Steps, Responding, Trying
  <1>4. PICK rec \in CallRecords : rec = NotCalled
    BY <1>3
  <1>5. PICK s \in AgentStates : s = agent_state' /\ (s \in Resting \/ s = agent_state)
    BY <1>1, <1>2, CallKnown DEF AgentStates
  <1>6. /\ entry' \in [Requests -> Calls \cup {None}] /\ attempts' \in [Requests -> [Calls -> Nat]]
        /\ attempts' = attempts /\ abandoned' \in BOOLEAN
    BY <1>1, CallKnown, AbandonedKnown DEF countVars
  <1> QED BY <1>1, <1>3, <1>4, <1>5, <1>6, CallMoves

\* A call that is cancelled keeps the invariant: what it leaves is abandoned.
LEMMA CallCancelledKeeps ==
    ASSUME AInv, NEW c \in Calls, CallCancelled(c)
    PROVE  AInv'
  <1>1. /\ at[c] # "idle" /\ at' = [at EXCEPT ![c] = "idle"]
        /\ abandoned' = (abandoned \/ at[c] # "leave")
        /\ wanted' = [wanted EXCEPT ![c] = "READY"] /\ call' = [call EXCEPT ![c] = NotCalled]
        /\ UNCHANGED <<agent_state, schema, mixed, begun, crowded>>
        /\ UNCHANGED countVars \/ (at[c] = "validate" /\ Count(c))
    BY DEF CallCancelled, Cancels, Goto, MayCount
  <1>2. /\ NotCalled \in CallRecords /\ NotCalled.own /\ "READY" \in AgentStates
        /\ "idle" \in Steps /\ "idle" \notin Responding /\ "idle" \notin Trying
    BY DEF NotCalled, CallRecords, AgentStates, Resting, Steps, Responding, Trying
  <1>3. PICK rec \in CallRecords : rec = NotCalled
    BY <1>2
  <1>4. PICK s \in AgentStates : s = agent_state /\ agent_state' = s
    BY <1>1, CallKnown
  <1>5. /\ entry' \in [Requests -> Calls \cup {None}]
        /\ attempts' \in [Requests -> [Calls -> Nat]]
        /\ \/ attempts' = attempts
           \/ /\ at[c] = "validate"
              /\ \A r \in Requests, d \in Calls :
                    attempts'[r][d] = IF r = call[c].request /\ d = call[c].held
                                        THEN attempts[r][d] + 1 ELSE attempts[r][d]
    BY <1>1, Counted, CallKnown DEF countVars
  <1>6. /\ abandoned' \in BOOLEAN
        /\ ~abandoned' => at[c] = "leave" /\ s = agent_state /\ ~abandoned
    BY <1>1, <1>4, AbandonedKnown
  <1> QED BY <1>1, <1>2, <1>3, <1>4, <1>5, <1>6, CallMoves

\* A call that begins to respond keeps the invariant: it loads its schema, and is
\* alone only if no other responds.
LEMMA BegunKeeps ==
    ASSUME AInv, NEW c \in Calls, Begun(c)
    PROVE  AInv'
  <1>1. /\ at[c] = "enter" /\ at' = [at EXCEPT ![c] = "lookup"]
        /\ agent_state' \in {agent_state, "PROCESSING"}
        /\ (call[c].given /\ schema' = schema) \/ (~call[c].given /\ schema' = c)
        /\ crowded' = crowded \cup ({call[d].request : d \in Running} \cap {call[c].request})
        /\ UNCHANGED <<entry, attempts, wanted, mixed, abandoned, begun>>
    BY DEF Begun, Goto, Follow, Load, countVars
  <1>2. /\ at \in [Operations -> Steps] /\ wanted \in [Operations -> AgentStates]
        /\ call \in [Calls -> CallRecords] /\ c \in Operations
        /\ crowded \subseteq Requests /\ call[c].request \in Requests
        /\ agent_state \in AgentStates /\ schema \in Calls \cup {None}
    BY <1>1 DEF AInv, AgentTypeOK, CallRecords, Operations, AttemptsLeft
  <1>3. call' = [d \in Calls |-> [call[d] EXCEPT !.alone =
                    call[d].alone /\ d \notin Running /\ (d = c => Running = {})]]
    BY DEF Begun
  <1>4. ASSUME NEW d \in Calls
        PROVE  /\ call'[d] \in CallRecords /\ call'[d].request = call[d].request
               /\ call'[d].given = call[d].given /\ call'[d].own = call[d].own
               /\ call'[d].held = call[d].held
               /\ call'[d].alone <=> call[d].alone /\ d \notin Running /\ (d = c => Running = {})
    <2>1. PICK b \in BOOLEAN : b = (call[d].alone /\ d \notin Running /\ (d = c => Running = {}))
      OBVIOUS
    <2>2. call'[d] = [call[d] EXCEPT !.alone = b]
      BY <1>3, <2>1, Zenon
    <2>3. call[d] \in CallRecords
      BY <1>2
    <2>4. /\ call'[d] \in CallRecords /\ call'[d].request = call[d].request
          /\ call'[d].given = call[d].given /\ call'[d].own = call[d].own
          /\ call'[d].held = call[d].held /\ call'[d].alone = b
      BY <2>2, <2>3 DEF CallRecords
    <2> QED BY <2>1, <2>4
  <1>5. call' \in [Calls -> CallRecords]
    BY <1>3, <1>4
  <1>6. /\ \A o \in Operations \ {c} : at'[o] = at[o]
        /\ at'[c] = "lookup" /\ Running' = Running \cup {c} /\ c \notin Running
    BY <1>1, <1>2 DEF Running, Responding, Operations
  <1>7. AgentTypeOK'
    <2>1. "PROCESSING" \in AgentStates /\ "lookup" \in Steps
      BY DEF AgentStates, Steps, Responding
    <2>2. crowded' \subseteq Requests /\ at' \in [Operations -> Steps]
      BY <1>1, <1>2, <2>1
    <2> QED BY <1>1, <1>2, <1>5, <2>1, <2>2 DEF AInv, AgentTypeOK, CallRecords
  <1>8. RestsInTurn'
    <2>1. \A d \in Calls : at'[d] = "leave" => wanted'[d] \in {"COMPLETE", "ERROR"}
      BY <1>1, <1>6 DEF AInv, RestsInTurn, Operations
    <2>2. ASSUME ~mixed, NEW v \in Visits, at'[v] # "idle"
          PROVE  FALSE
      <3>1. v # c /\ v \in Operations
        BY SlotsAssumption DEF Operations
      <3>2. at[v] # "idle"
        BY <1>6, <2>2, <3>1
      <3>3. at[c] = "idle"
        BY <1>2, <2>2, <3>1, <3>2 DEF AInv, RestsInTurn
      <3> QED BY <1>1, <3>3
    <2>3. ~(\A o \in Operations : at'[o] \in {"idle", "leave"})
      BY <1>2, <1>6
    <2> QED BY <1>1, <2>1, <2>2, <2>3 DEF RestsInTurn
  <1>9. SchemaInPlace'
    <2>1. ASSUME NEW d \in Running', call'[d].alone
          PROVE  Running' = {d} /\ (~call'[d].given => schema' = d)
      <3>1. d \in Calls
        BY DEF Running
      <3>2. d = c /\ Running = {}
        BY <1>4, <1>6, <2>1, <3>1
      <3> QED BY <1>1, <1>4, <1>6, <3>2
    <2> QED BY <2>1 DEF SchemaInPlace
  <1>10. OwnSchemaWhenAlone'
    BY <1>4 DEF AInv, OwnSchemaWhenAlone
  <1>11. crowded \subseteq crowded'
    BY <1>1
  <1>12. AttemptsBounded'
    BY <1>1, <1>11 DEF AInv, AttemptsBounded
  <1>13. AttemptsLeft'
    <2>1. \A d \in Calls : at'[d] # "idle" => call'[d].request \in Requests
      BY <1>2, <1>4, <1>6 DEF AInv, AttemptsLeft, Operations
    <2>2. ASSUME NEW d \in Running', NEW e \in Running', call'[d].request = call'[e].request,
                 call'[d].request \notin crowded'
          PROVE  d = e
      <3>1. d \in Calls /\ e \in Calls
        BY DEF Running
      <3>2. call[d].request = call[e].request /\ call[d].request \notin crowded'
        BY <1>4, <2>2, <3>1
      <3>3. \A f \in Running : call[f].request = call[c].request => call[f].request \in crowded'
        BY <1>1
      <3> QED BY <1>6, <1>11, <2>2, <3>2, <3>3 DEF AInv, AttemptsLeft
    <2>3. ASSUME NEW d \in Calls, at'[d] \in Trying
          PROVE  /\ call'[d].held \in Calls
                 /\ call'[d].request \notin crowded' =>
                       attempts'[call'[d].request][call'[d].held] < max_validation_attempts
      <3>1. at[d] \in Trying
        BY <1>6, <2>3 DEF Trying, Operations
      <3> QED BY <1>1, <1>4, <1>11, <3>1 DEF AInv, AttemptsLeft, count
    <2> QED BY <2>1, <2>2, <2>3 DEF AttemptsLeft, count
  <1> QED BY <1>7, <1>8, <1>9, <1>10, <1>12, <1>13 DEF AInv

\* Every step of a call keeps the invariant.
LEMMA CallStepKeeps ==
    ASSUME AInv, NEW c \in Calls, CallStep(c) \/ Expires(c)
    PROVE  AInv'
  <1>1. CASE LookedUp(c)
    <2>1. /\ at[c] = "lookup"
          /\ UNCHANGED <<agent_state, schema, countVars, wanted, mixed, abandoned, begun, crowded>>
      BY <1>1 DEF LookedUp
    <2>2. at[c] \in Responding /\ "create" \in Responding /\ "create" \notin Trying /\ at[c] # "idle"
      BY <2>1 DEF Responding, Trying
    <2>3. CASE Admit(c)
      BY <2>1, <2>2, <2>3, AdmitKeeps
    <2>4. CASE at' = [at EXCEPT ![c] = "create"] /\ UNCHANGED call
      <3>1. PICK rec \in CallRecords : rec = call[c]
        BY CallKnown
      <3>2. call' = [call EXCEPT ![c] = rec] /\ (rec.alone /\ ~rec.given => rec.own)
        BY <2>4, <3>1, CallKnown
      <3>3. entry' \in [Requests -> Calls \cup {None}] /\ UNCHANGED attempts
        BY <2>1, CallKnown DEF countVars
      <3> QED BY <2>1, <2>2, <2>4, <3>1, <3>2, <3>3, ResponseKeeps
    <2> QED BY <1>1, <2>3, <2>4 DEF LookedUp, Goto
  <1>2. CASE StateCreated(c)
    <2>1. /\ at[c] = "create" /\ at' = [at EXCEPT ![c] = "take"]
          /\ entry' = [entry EXCEPT ![call[c].request] = c]
          /\ UNCHANGED <<agent_state, schema, attempts, wanted, call, mixed, abandoned, begun, crowded>>
      BY <1>2 DEF StateCreated, Goto
    <2>2. at[c] \in Responding /\ "take" \in Responding /\ "take" \notin Trying
      BY <2>1 DEF Responding, Trying
    <2>3. PICK rec \in CallRecords : rec = call[c]
      BY CallKnown
    <2>4. call' = [call EXCEPT ![c] = rec] /\ (rec.alone /\ ~rec.given => rec.own)
      BY <2>1, <2>3, CallKnown
    <2>5. entry' \in [Requests -> Calls \cup {None}]
      BY <2>1, CallKnown
    <2> QED BY <2>1, <2>2, <2>3, <2>4, <2>5, ResponseKeeps
  <1>3. CASE Taken(c)
    BY <1>3, AdmitKeeps DEF Taken, Responding
  <1>4. CASE Asked(c) \/ Answered(c)
    <2>1. PICK to \in Trying : at' = [at EXCEPT ![c] = to]
      BY <1>4 DEF Asked, Answered, Goto, Trying
    <2>2. /\ at[c] \in Trying /\ Learns(c, "own", call[c].own /\ schema = c)
          /\ UNCHANGED <<agent_state, schema, countVars, wanted, mixed, abandoned, begun, crowded>>
      BY <1>4 DEF Asked, Answered, Trying
    <2> QED BY <2>1, <2>2, NotesKeep
  <1>5. CASE Exhausted(c) \/ CallRaises(c) \/ Expires(c)
    <2>1. /\ at[c] # "idle" /\ Errs(c)
          /\ UNCHANGED countVars \/ (at[c] = "validate" /\ Count(c))
      BY <1>5 DEF Exhausted, CallRaises, Expires, MayCount, Responding
    <2> QED BY <2>1, ErrsKeeps
  <1> QED
    BY <1>1, <1>2, <1>3, <1>4, <1>5, BegunKeeps, ReturnsKeeps, CallCancelledKeeps,
       ValidatedKeeps DEF CallStep

\* What an operation that begins does to the agreement of the operations.
LEMMA BeginKnown ==
    ASSUME AInv, NEW o \in Operations, Begin(o), ~mixed'
    PROVE  /\ ~mixed
           /\ o \in Visits => \A p \in Operations \ {o} : at[p] = "idle"
           /\ \A v \in Visits \ {o} : at[v] = "idle"
  BY DEF Begin, Operations

\* A call that is made keeps the invariant.
LEMMA CallKeeps ==
    ASSUME AInv, NEW c \in Calls, NEW r \in Requests, NEW g \in BOOLEAN, Call(c, r, g)
    PROVE  AInv'
  <1>1. /\ at[c] = "idle" /\ at' = [at EXCEPT ![c] = "enter"] /\ agent_state' = "PROCESSING"
        /\ Begin(c) /\ UNCHANGED <<schema, entry, attempts, wanted, abandoned, crowded>>
    BY DEF Call, Goto, countVars, Begin
  <1>2. [NotCalled EXCEPT !.request = r, !.given = g] \in CallRecords
    BY DEF NotCalled, CallRecords
  <1>3. /\ [NotCalled EXCEPT !.request = r, !.given = g].request = r
        /\ [NotCalled EXCEPT !.request = r, !.given = g].own
    BY DEF NotCalled
  <1>4. PICK rec \in CallRecords : /\ rec = [NotCalled EXCEPT !.request = r, !.given = g]
                                   /\ rec.request = r /\ rec.own
    BY <1>2, <1>3
  <1>5. call' = [call EXCEPT ![c] = rec]
    BY <1>4, Zenon DEF Call
  <1>6. /\ at \in [Operations -> Steps] /\ call \in [Calls -> CallRecords] /\ c \in Operations
        /\ begun' \in Nat /\ mixed' \in BOOLEAN
    BY <1>1 DEF AInv, AgentTypeOK, CallRecords, Operations, Begin
  <1>7. /\ \A o \in Operations \ {c} : at'[o] = at[o]
        /\ at'[c] = "enter" /\ Running' = Running /\ c \notin Running
        /\ \A d \in Calls \ {c} : call'[d] = call[d]
        /\ call'[c] = rec
    BY <1>1, <1>5, <1>6 DEF Running, Responding, Operations
  <1>8. AgentTypeOK'
    <2>1. "PROCESSING" \in AgentStates /\ "enter" \in Steps
      BY DEF AgentStates, Steps
    <2>2. at' \in [Operations -> Steps] /\ call' \in [Calls -> CallRecords]
      BY <1>1, <1>5, <1>6, <2>1
    <2> QED BY <1>1, <1>6, <2>1, <2>2 DEF AInv, AgentTypeOK, CallRecords
  <1>9. RestsInTurn'
    <2>1. \A d \in Calls : at'[d] = "leave" => wanted'[d] \in {"COMPLETE", "ERROR"}
      BY <1>1, <1>7 DEF AInv, RestsInTurn, Operations
    <2>2. ~mixed' => \A v \in Visits : at'[v] = "idle"
      BY <1>1, <1>6, <1>7, BeginKnown, SlotsAssumption DEF Operations
    <2>3. ~(\A o \in Operations : at'[o] \in {"idle", "leave"})
      BY <1>6, <1>7
    <2> QED BY <2>1, <2>2, <2>3 DEF RestsInTurn
  <1>10. SchemaInPlace' /\ OwnSchemaWhenAlone' /\ AttemptsBounded'
    <2>1. \A d \in Running : d \in Calls /\ call'[d] = call[d]
      BY <1>7 DEF Running
    <2>2. SchemaInPlace'
      BY <1>1, <1>7, <2>1 DEF AInv, SchemaInPlace
    <2>3. OwnSchemaWhenAlone'
      BY <1>4, <1>7 DEF AInv, OwnSchemaWhenAlone
    <2>4. AttemptsBounded'
      BY <1>1 DEF AInv, AttemptsBounded
    <2> QED BY <2>2, <2>3, <2>4
  <1>11. AttemptsLeft'
    <2>1. \A d \in Calls : at'[d] # "idle" => call'[d].request \in Requests
      BY <1>4, <1>7 DEF AInv, AttemptsLeft, Operations
    <2>2. \A d, e \in Running' : call'[d].request = call'[e].request
                                 /\ call'[d].request \notin crowded' => d = e
      BY <1>1, <1>7 DEF AInv, AttemptsLeft, Running
    <2>3. \A d \in Calls : at'[d] \in Trying => d # c /\ at[d] \in Trying
      BY <1>7 DEF Trying, Operations
    <2> QED BY <1>1, <1>7, <2>1, <2>2, <2>3 DEF AInv, AttemptsLeft, count
  <1> QED BY <1>8, <1>9, <1>10, <1>11 DEF AInv

\* A visit that begins keeps the invariant, as it finds an agent at rest if it
\* overlaps nothing.
LEMMA VisitKeeps ==
    ASSUME AInv, NEW v \in Visits, Visit(v)
    PROVE  AInv'
  <1>1. /\ at[v] = "idle" /\ at' = [at EXCEPT ![v] = "enter"]
        /\ wanted' = [wanted EXCEPT ![v] = agent_state]
        /\ Begin(v) /\ UNCHANGED <<agent_state, schema, entry, attempts, call, abandoned, crowded>>
    BY DEF Visit, Goto, countVars, Begin
  <1>2. /\ at \in [Operations -> Steps] /\ wanted \in [Operations -> AgentStates]
        /\ v \in Operations /\ v \notin Calls /\ agent_state \in AgentStates
        /\ begun' \in Nat /\ mixed' \in BOOLEAN
    BY <1>1, SlotsAssumption DEF AInv, AgentTypeOK, Operations, Begin
  <1>3. /\ \A o \in Operations \ {v} : at'[o] = at[o] /\ wanted'[o] = wanted[o]
        /\ at'[v] = "enter" /\ wanted'[v] = agent_state
        /\ \A c \in Calls : at'[c] = at[c] /\ wanted'[c] = wanted[c]
    BY <1>1, <1>2 DEF Operations
  <1>4. AgentTypeOK'
    <2>1. "enter" \in Steps
      BY DEF Steps
    <2>2. at' \in [Operations -> Steps] /\ wanted' \in [Operations -> AgentStates]
      BY <1>1, <1>2, <2>1
    <2> QED BY <1>1, <1>2, <2>2 DEF AInv, AgentTypeOK
  <1>5. RestsInTurn'
    <2>1. \A d \in Calls : at'[d] = "leave" => wanted'[d] \in {"COMPLETE", "ERROR"}
      BY <1>3 DEF AInv, RestsInTurn
    <2>2. ASSUME ~mixed'
          PROVE  /\ ~abandoned => agent_state \in Resting
                 /\ \A o \in Operations \ {v} : at'[o] = "idle"
      <3>1. ~mixed /\ \A o \in Operations : at[o] = "idle"
        BY <1>1, <1>2, <2>2, BeginKnown
      <3> QED BY <1>3, <3>1 DEF AInv, RestsInTurn
    <2>3. ASSUME ~mixed', NEW u \in Visits, at'[u] # "idle"
          PROVE  u = v
      BY <2>2, <2>3 DEF Operations
    <2>4. ~(\A o \in Operations : at'[o] \in {"idle", "leave"})
      BY <1>2, <1>3
    <2> QED BY <1>1, <1>3, <2>1, <2>2, <2>3, <2>4 DEF RestsInTurn
  <1>6. Running' = Running
    BY <1>3 DEF Running
  <1>7. SchemaInPlace' /\ OwnSchemaWhenAlone' /\ AttemptsBounded'
    BY <1>1, <1>6 DEF AInv, SchemaInPlace, OwnSchemaWhenAlone, AttemptsBounded
  <1>8. AttemptsLeft'
    BY <1>1, <1>3, <1>6 DEF AInv, AttemptsLeft, count
  <1> QED BY <1>4, <1>5, <1>7, <1>8 DEF AInv

\* Every step of a visit keeps the invariant.
LEMMA VisitStepKeeps ==
    ASSUME AInv, NEW v \in Visits, VisitStep(v)
    PROVE  AInv'
  <1>0. /\ v \in Operations /\ abandoned \in BOOLEAN /\ wanted[v] \in AgentStates /\ agent_state \in AgentStates
        /\ wanted = [wanted EXCEPT ![v] = wanted[v]]
        /\ at[v] # "idle" /\ ~mixed /\ ~abandoned => wanted[v] \in Resting
    BY DEF AInv, AgentTypeOK, Operations, RestsInTurn
  <1>1. PICK w \in AgentStates : w = wanted[v]
    BY <1>0
  <1>2. CASE Marked(v)
    <2>1. PICK s \in Visiting : agent_state' = s
      BY <1>2 DEF Marked
    <2>2. /\ at[v] = "enter" /\ at' = [at EXCEPT ![v] = "work"]
          /\ UNCHANGED <<schema, entry, attempts, wanted, call, mixed, abandoned, begun, crowded>>
      BY <1>2 DEF Marked, Goto, countVars
    <2>3. s \in AgentStates /\ "work" \in Steps /\ wanted' = [wanted EXCEPT ![v] = w]
      BY <1>0, <1>1, <2>2 DEF AgentStates, Steps
    <2> QED BY <1>0, <1>1, <2>1, <2>2, <2>3, VisitMoves
  <1>3. CASE VisitWorked(v)
    <2>1. /\ at[v] = "work" /\ at' = [at EXCEPT ![v] = "leave"] /\ agent_state' = w
          /\ UNCHANGED <<schema, entry, attempts, wanted, call, mixed, abandoned, begun, crowded>>
      BY <1>1, <1>3 DEF VisitWorked, Restored, Goto, countVars
    <2>2. "leave" \in Steps /\ wanted' = [wanted EXCEPT ![v] = w]
      BY <1>0, <1>1, <2>1 DEF Steps
    <2> QED BY <1>0, <1>1, <2>1, <2>2, VisitMoves
  <1>4. CASE Left(v)
    <2>1. /\ at[v] = "leave" /\ at' = [at EXCEPT ![v] = "idle"]
          /\ agent_state' \in {agent_state, wanted[v]} /\ wanted' = [wanted EXCEPT ![v] = "READY"]
          /\ UNCHANGED <<schema, entry, attempts, call, mixed, abandoned, begun, crowded>>
      BY <1>4 DEF Left, Follow, Goto, countVars
    <2>2. "idle" \in Steps /\ "READY" \in AgentStates
      BY DEF Steps, AgentStates, Resting
    <2>3. PICK s \in AgentStates : s = agent_state'
      BY <1>0, <2>1
    <2>4. ~mixed /\ ~abandoned => s \in Resting
      <3> SUFFICES ASSUME ~mixed, ~abandoned PROVE s \in Resting
        OBVIOUS
      <3>1. wanted[v] \in Resting
        BY <1>0, <2>1
      <3>2. \A o \in Operations : at[o] \in {"idle", "leave"}
        BY <2>1 DEF AInv, RestsInTurn
      <3>3. agent_state \in Resting
        BY <3>2 DEF AInv, RestsInTurn
      <3> QED BY <2>1, <2>3, <3>1, <3>3
    <2> QED BY <1>0, <2>1, <2>2, <2>3, <2>4, VisitMoves
  <1>5. CASE VisitCancelled(v)
    <2>1. /\ at[v] # "idle" /\ at' = [at EXCEPT ![v] = "idle"]
          /\ abandoned' = (abandoned \/ at[v] # "leave")
          /\ wanted' = [wanted EXCEPT ![v] = "READY"]
          /\ UNCHANGED <<agent_state, schema, entry, attempts, call, mixed, begun, crowded>>
      BY <1>5 DEF VisitCancelled, Cancels, Goto, countVars
    <2>2. "idle" \in Steps /\ "READY" \in AgentStates
      BY DEF Steps, AgentStates, Resting
    <2>3. PICK s \in AgentStates : s = agent_state /\ agent_state' = s
      BY <1>0, <2>1
    <2>4. abandoned' \in BOOLEAN /\ (abandoned => abandoned')
      BY <1>0, <2>1
    <2>5. ~mixed /\ ~abandoned' => s \in Resting
      <3> SUFFICES ASSUME ~mixed, ~abandoned' PROVE s \in Resting
        OBVIOUS
      <3>1. at[v] = "leave" /\ ~abandoned
        BY <2>1
      <3>2. \A o \in Operations : at[o] \in {"idle", "leave"}
        BY <3>1 DEF AInv, RestsInTurn
      <3> QED BY <2>3, <3>1, <3>2 DEF AInv, RestsInTurn
    <2> QED BY <1>0, <2>1, <2>2, <2>3, <2>4, <2>5, VisitMoves
  <1> QED BY <1>2, <1>3, <1>4, <1>5 DEF VisitStep

\* Every step keeps the invariant.
LEMMA CallsKept ==
    ASSUME AInv, [AgentNext]_agentVars
    PROVE  AInv'
  <1>1. CASE UNCHANGED agentVars
    BY <1>1 DEF agentVars, AInv, AgentTypeOK, RestsInTurn, SchemaInPlace, AttemptsLeft,
                OwnSchemaWhenAlone, AttemptsBounded, Running, count
  <1> QED
    BY <1>1, CallKeeps, CallStepKeeps, VisitKeeps, VisitStepKeeps DEF AgentNext

\* Calls begin as the invariant says.
LEMMA CallsBegin ==
    ASSUME AgentInit
    PROVE  AInv
  <1>1. \A o \in Operations : at[o] = "idle" /\ wanted[o] = "READY"
    BY DEF AgentInit
  <1>2. \A c \in Calls : at[c] = "idle" /\ call[c] = NotCalled
    BY <1>1 DEF AgentInit, Operations
  <1>3. Running = {}
    BY <1>2 DEF Running, Responding
  <1>4. NotCalled \in CallRecords /\ NotCalled.own
    BY DEF NotCalled, CallRecords
  <1>5. AgentTypeOK
    BY <1>4 DEF AgentInit, AgentTypeOK, CallRecords, AgentStates, Resting, Steps
  <1>6. RestsInTurn /\ SchemaInPlace /\ AttemptsLeft
    BY <1>1, <1>2, <1>3 DEF AgentInit, RestsInTurn, SchemaInPlace, AttemptsLeft, Resting, Trying,
                            Operations
  <1>7. OwnSchemaWhenAlone
    BY <1>2, <1>4 DEF OwnSchemaWhenAlone
  <1>8. AttemptsBounded
    BY AttemptsAssumption DEF AgentInit, AttemptsBounded
  <1> QED BY <1>5, <1>6, <1>7, <1>8 DEF AInv

-----------------------------------------------------------------------------
(* Validations that share their clients (OutputValidation) *)

\* A validation that no other overlapped is the only one in progress: the
\* schema is its own, and what it is to be analysed with is open.
AloneUnmet ==
    \A v \in Validations : v \notin met /\ doing[v] # "idle" =>
        /\ Under(v) = {} /\ current_schema = v
        /\ doing[v] = "analyze" => clients = "open"

VInv == ValidatorTypeOK /\ AloneUnmet /\ UndisturbedNotMisled

\* The levels of a validation, when its innermost attempt is counted and when
\* one is left.
LEMMA LevelsChange ==
    ASSUME NEW l \in Seq(Nat), l # << >>, NEW n \in Nat
    PROVE  /\ Len(l) \in Nat \ {0} /\ l[Len(l)] \in Nat
           /\ [l EXCEPT ![Len(l)] = n] \in Seq(Nat) \ {<< >>}
           /\ [l EXCEPT ![Len(l)] = l[Len(l)] + 1] \in Seq(Nat) \ {<< >>}
           /\ Append(l, n) \in Seq(Nat) \ {<< >>}
           /\ SubSeq(l, 1, Len(l) - 1) \in Seq(Nat)
           /\ Len(SubSeq(l, 1, Len(l) - 1)) = Len(l) - 1
  <1>1. Len(l) \in Nat \ {0} /\ l[Len(l)] \in Nat
    BY EmptySeq
  <1>2. PICK k \in Nat : k = l[Len(l)] + 1
    BY <1>1
  <1>3. ASSUME NEW m \in Nat
        PROVE  [l EXCEPT ![Len(l)] = m] \in Seq(Nat) \ {<< >>}
    <2>1. [l EXCEPT ![Len(l)] = m] \in Seq(Nat)
      BY <1>1, ExceptSeq
    <2>2. Len([l EXCEPT ![Len(l)] = m]) = Len(l)
      BY <1>1, ExceptSeq
    <2> QED BY <1>1, <2>1, <2>2, EmptySeq
  <1>4. Append(l, n) \in Seq(Nat) /\ Len(Append(l, n)) = Len(l) + 1
    BY AppendProperties
  <1>5. Append(l, n) # << >>
    BY <1>1, <1>4, EmptySeq
  <1>6. SubSeq(l, 1, Len(l) - 1) \in Seq(Nat) /\ Len(SubSeq(l, 1, Len(l) - 1)) = Len(l) - 1
    <2>1. PICK n0 \in Nat : n0 = Len(l) - 1
      BY <1>1
    <2>2. \A i \in 1..n0 : l[i] \in Nat
      BY <1>1, <2>1, LenProperties
    <2>3. SubSeq(l, 1, n0) \in Seq(Nat) /\ Len(SubSeq(l, 1, n0)) = n0
      BY <2>2, SubSeqProperties
    <2> QED BY <2>1, <2>3
  <1> QED BY <1>1, <1>2, <1>3, <1>4, <1>5, <1>6

\* What a validation in progress does keeps the invariant, if it analyses with
\* open clients only and is misled only when it was overlapped.
LEMMA OwnWorkKeeps ==
    ASSUME VInv, NEW v \in Validations, doing[v] # "idle",
           NEW l \in Seq(Nat), NEW d \in Doings, d = "idle" <=> l = << >>,
           NEW c \in {"none", "open", "closed"}, d = "analyze" => c = "open" \/ c = clients,
           d = "analyze" /\ c # "open" => doing[v] = "analyze",
           NEW s \in Validations \cup {NoSchema}, s = current_schema \/ s = v,
           NEW m \in SUBSET Validations, m = misled \/ (v \in met /\ m = misled \cup {v}),
           levels' = [levels EXCEPT ![v] = l], doing' = [doing EXCEPT ![v] = d],
           clients' = c, current_schema' = s, met' = met, misled' = m
    PROVE  VInv'
  <1>1. /\ levels \in [Validations -> Seq(Nat)] /\ doing \in [Validations -> Doings]
        /\ \A w \in Validations : doing[w] = "idle" <=> levels[w] = << >>
        /\ met \subseteq Validations
    BY DEF VInv, ValidatorTypeOK
  <1>2. ValidatorTypeOK'
    <2>1. ASSUME NEW w \in Validations
          PROVE  doing'[w] = "idle" <=> levels'[w] = << >>
      BY <1>1
    <2> QED BY <1>1, <2>1 DEF ValidatorTypeOK
  <1>3. AloneUnmet'
    <2>1. ASSUME NEW w \in Validations, w \notin met, doing'[w] # "idle"
          PROVE  /\ Under(w)' = {} /\ current_schema' = w
                 /\ doing'[w] = "analyze" => clients' = "open"
      <3>1. w = v
        <4> SUFFICES ASSUME w # v PROVE FALSE
          OBVIOUS
        <4>1. doing[w] # "idle" /\ v \in Under(w)
          BY <1>1, <2>1 DEF Under
        <4> QED BY <2>1, <4>1 DEF VInv, AloneUnmet
      <3>2. /\ Under(v) = {} /\ current_schema = v
            /\ doing[v] = "analyze" => clients = "open"
        BY <2>1, <3>1 DEF VInv, AloneUnmet
      <3>3. Under(w)' = {}
        BY <1>1, <3>1, <3>2 DEF Under
      <3>4. doing'[w] = d
        BY <1>1, <3>1
      <3> QED BY <3>1, <3>2, <3>3, <3>4
    <2> QED BY <2>1 DEF AloneUnmet
  <1>4. UndisturbedNotMisled'
    BY DEF VInv, UndisturbedNotMisled
  <1> QED BY <1>2, <1>3, <1>4 DEF VInv

\* What is known of a validation in progress.
LEMMA ValidationKnown ==
    ASSUME VInv, NEW v \in Validations
    PROVE  /\ levels[v] \in Seq(Nat) /\ doing[v] \in Doings
           /\ clients \in {"none", "open", "closed"}
           /\ current_schema \in Validations \cup {NoSchema}
           /\ misled \in SUBSET Validations
           /\ doing[v] = "idle" <=> levels[v] = << >>
           /\ levels = [levels EXCEPT ![v] = levels[v]]
           /\ doing = [doing EXCEPT ![v] = doing[v]]
  BY DEF VInv, ValidatorTypeOK

\* The beginning of a level keeps the invariant.
LEMMA CheckKeeps ==
    ASSUME VInv, NEW v \in Validations, doing[v] # "idle", NEW l \in Seq(Nat),
           l = levels[v], Check(v, l), UNCHANGED <<met, misled>>
    PROVE  VInv'
  <1>1. PICK k \in Seq(Nat) : k = Append(l, 0) /\ k # << >>
    BY ValidationKnown, LevelsChange
  <1>2. PICK d \in {"reject", "accept", "analyze"} :
           doing' = [doing EXCEPT ![v] = d]
           /\ (d = "analyze" => clients' = "open") /\ (d # "analyze" => clients' = clients)
    BY DEF Check, Does, Opened
  <1>3. levels' = [levels EXCEPT ![v] = k]
    BY <1>1, Zenon DEF Check
  <1>4. PICK s \in Validations \cup {NoSchema} : s = v
    OBVIOUS
  <1>5. PICK c \in {"none", "open", "closed"} : c = clients'
    BY <1>2, ValidationKnown
  <1>6. PICK m \in SUBSET Validations : m = misled
    BY ValidationKnown
  <1>7. d \in Doings /\ d # "idle"
    BY DEF Doings
  <1>8. current_schema' = s /\ met' = met /\ misled' = m
    BY <1>4, <1>6 DEF Check
  <1> QED
    BY <1>1, <1>2, <1>3, <1>4, <1>5, <1>6, <1>7, <1>8, OwnWorkKeeps

\* What changes neither the schema nor what the validations met keeps the
\* invariant, if it leads to no analysis.
LEMMA WorkKeeps ==
    ASSUME VInv, NEW v \in Validations, doing[v] # "idle",
           NEW l \in Seq(Nat), NEW d \in Doings \ {"analyze"}, d = "idle" <=> l = << >>,
           NEW c \in {"none", "open", "closed"},
           levels' = [levels EXCEPT ![v] = l], doing' = [doing EXCEPT ![v] = d],
           clients' = c, UNCHANGED <<current_schema, met>>,
           misled' = misled \/ (v \in met /\ misled' = misled \cup {v})
    PROVE  VInv'
  <1>1. PICK s \in Validations \cup {NoSchema} : s = current_schema
    BY ValidationKnown
  <1>2. PICK m \in SUBSET Validations : m = misled'
    BY ValidationKnown
  <1>3. current_schema' = s /\ met' = met /\ misled' = m
    BY <1>1, <1>2
  <1>4. d \in Doings /\ d # "analyze"
    OBVIOUS
  <1>5. m = misled \/ (v \in met /\ m = misled \cup {v})
    BY <1>2
  <1> QED BY <1>1, <1>3, <1>4, <1>5, OwnWorkKeeps

\* A further attempt at a level keeps the invariant, and so does giving up.
LEMMA RetryKeeps ==
    ASSUME VInv, NEW v \in Validations, doing[v] # "idle", Retry(v) \/ GiveUp(v),
           UNCHANGED <<current_schema, met, misled>>
    PROVE  VInv'
  <1>1. levels[v] \in Seq(Nat) \ {<< >>}
    BY ValidationKnown
  <1>2. CASE Retry(v)
    <2>1. PICK k \in Seq(Nat) :
             /\ k = [levels[v] EXCEPT ![Len(levels[v])] = levels[v][Len(levels[v])] + 1]
             /\ k # << >>
      <3>1. PICK l \in Seq(Nat) : l = levels[v]
        BY <1>1
      <3> QED BY <1>1, <3>1, LevelsChange
    <2>2. levels' = [levels EXCEPT ![v] = k]
      BY <1>2, <2>1 DEF Retry, depth, attempt
    <2>3. doing' = [doing EXCEPT ![v] = "correct"] /\ clients' = clients
      BY <1>2 DEF Retry, Does
    <2>4. "correct" \in Doings \ {"analyze"} /\ "correct" # "idle"
      BY DEF Doings
    <2>5. PICK c \in {"none", "open", "closed"} : c = clients
      BY ValidationKnown
    <2> QED BY <2>1, <2>2, <2>3, <2>4, <2>5, WorkKeeps
  <1>3. CASE GiveUp(v)
    <2>1. /\ doing' = [doing EXCEPT ![v] = "reject"] /\ clients' = "closed"
          /\ levels' = levels
      BY <1>3 DEF GiveUp, Does, Shut
    <2>2. levels' = [levels EXCEPT ![v] = levels[v]]
      BY <2>1, ValidationKnown
    <2>3. "reject" \in Doings \ {"analyze"} /\ "reject" # "idle"
      BY DEF Doings
    <2>4. "closed" \in {"none", "open", "closed"}
      OBVIOUS
    <2> QED BY <1>1, <2>1, <2>2, <2>3, <2>4, WorkKeeps
  <1> QED BY <1>2, <1>3

\* Coming to the first attempt of a level keeps the invariant, if a validation
\* that is misled was overlapped.
LEMMA SemanticKeeps ==
    ASSUME VInv, NEW v \in Validations, doing[v] # "idle", Semantic(v),
           UNCHANGED <<current_schema, met>>,
           misled' = misled \/ (v \in met /\ misled' = misled \cup {v})
    PROVE  VInv'
  <1>1. levels[v] \in Seq(Nat) \ {<< >>}
    BY ValidationKnown
  <1>2. PICK k \in Seq(Nat) : k = [levels[v] EXCEPT ![Len(levels[v])] = 1] /\ k # << >>
    <2>1. PICK l \in Seq(Nat) : l = levels[v]
      BY <1>1
    <2> QED BY <1>1, <2>1, LevelsChange
  <1>3. levels' = [levels EXCEPT ![v] = k]
    BY <1>2 DEF Semantic, depth
  <1>4. doing' = [doing EXCEPT ![v] = "correct"] /\ clients' = "open"
    BY DEF Semantic, Does, Opened
  <1>5. "correct" \in Doings \ {"analyze"} /\ "correct" # "idle"
    BY DEF Doings
  <1>6. "open" \in {"none", "open", "closed"}
    OBVIOUS
  <1> QED BY <1>2, <1>3, <1>4, <1>5, <1>6, WorkKeeps

\* A step that leaves the levels alone and comes to something else than an
\* analysis keeps the invariant likewise.
LEMMA TurnsKeep ==
    ASSUME VInv, NEW v \in Validations, doing[v] # "idle",
           NEW d \in Doings \ {"analyze", "idle"}, doing' = [doing EXCEPT ![v] = d],
           clients' \in {clients, "open", "closed"}, UNCHANGED <<levels, current_schema, met>>,
           misled' = misled \/ (v \in met /\ misled' = misled \cup {v})
    PROVE  VInv'
  <1>1. PICK l \in Seq(Nat) : l = levels[v] /\ l # << >>
    BY ValidationKnown
  <1>2. levels' = [levels EXCEPT ![v] = l]
    BY <1>1, ValidationKnown
  <1>3. PICK c \in {"none", "open", "closed"} : clients' = c
    BY ValidationKnown
  <1> QED BY <1>1, <1>2, <1>3, WorkKeeps

\* Every step of a validation keeps the invariant.
LEMMA ValidateKeeps ==
    ASSUME VInv, NEW v \in Validations, Validate(v)
    PROVE  VInv'
  <1>0. doing[v] # "idle"
    BY DEF Validate, Analyze, AnalysisRefused, AnalysedSemantic, AnalysedFormatting, NotAnalysed,
           Formatted, NotCorrected, Corrected, TooDeep, Return, CorrectionAccepted,
           CorrectionRejected
  <1>w. /\ levels[v] \in Seq(Nat) \ {<< >>} /\ "analyzing" \in Doings \ {"analyze", "idle"}
        /\ "format" \in Doings \ {"analyze", "idle"} /\ "reject" \in Doings \ {"analyze", "idle"}
        /\ "accept" \in Doings \ {"analyze", "idle"} /\ "correct" \in Doings \ {"analyze", "idle"}
        /\ "idle" \in Doings \ {"analyze"}
    BY <1>0, ValidationKnown DEF Doings
  <1>x. /\ v \notin met => current_schema = v
        /\ v \notin met /\ doing[v] = "analyze" => clients = "open"
    BY <1>0 DEF VInv, AloneUnmet
  <1>1. CASE Analyze(v)
    <2>1. /\ doing' = [doing EXCEPT ![v] = "analyzing"]
          /\ UNCHANGED <<levels, current_schema, clients, met, misled>>
      BY <1>1 DEF Analyze, Does
    <2> QED BY <1>0, <1>w, <2>1, TurnsKeep
  <1>2. CASE AnalysisRefused(v)
    <2>1. /\ Semantic(v) /\ v \in met /\ misled' = misled \cup {v}
          /\ UNCHANGED <<current_schema, met>>
      BY <1>2, <1>x DEF AnalysisRefused
    <2> QED BY <1>0, <2>1, SemanticKeeps
  <1>3. CASE AnalysedSemantic(v)
    <2>1. Semantic(v) /\ UNCHANGED <<current_schema, met, misled>>
      BY <1>3 DEF AnalysedSemantic
    <2> QED BY <1>0, <2>1, SemanticKeeps
  <1>4. CASE AnalysedFormatting(v)
    <2>1. /\ doing' = [doing EXCEPT ![v] = "format"] /\ clients' = "open"
          /\ UNCHANGED <<levels, current_schema, met>>
      BY <1>4 DEF AnalysedFormatting, Does, Opened
    <2>2. misled' = misled \/ (v \in met /\ misled' = misled \cup {v})
      BY <1>4, <1>x DEF AnalysedFormatting
    <2> QED BY <1>0, <1>w, <2>1, <2>2, TurnsKeep
  <1>5. CASE NotAnalysed(v)
    <2>1. /\ doing' = [doing EXCEPT ![v] = "reject"] /\ clients' = "closed"
          /\ UNCHANGED <<levels, current_schema, met, misled>>
      BY <1>5 DEF NotAnalysed, Does, Shut
    <2> QED BY <1>0, <1>w, <2>1, TurnsKeep
  <1>6. CASE Formatted(v)
    <2>1. PICK d \in {"accept", "reject"} : doing' = [doing EXCEPT ![v] = d]
      BY <1>6 DEF Formatted
    <2>2. clients' = "closed" /\ UNCHANGED <<levels, current_schema, met, misled>>
      BY <1>6 DEF Formatted, Shut
    <2> QED BY <1>0, <1>w, <2>1, <2>2, TurnsKeep
  <1>7. CASE NotCorrected(v)
    BY <1>0, <1>7, RetryKeeps DEF NotCorrected
  <1>8. CASE Corrected(v)
    <2>1. Check(v, levels[v]) /\ UNCHANGED <<met, misled>>
      BY <1>8 DEF Corrected
    <2>2. PICK l \in Seq(Nat) : l = levels[v]
      BY <1>w
    <2>3. Check(v, l)
      BY <2>1, <2>2
    <2> QED BY <1>0, <2>1, <2>2, <2>3, CheckKeeps
  <1>9. CASE TooDeep(v)
    <2>1. UNCHANGED <<current_schema, met, misled>>
      BY <1>9 DEF TooDeep
    <2>2. CASE Retry(v) \/ GiveUp(v)
      BY <1>0, <2>1, <2>2, RetryKeeps
    <2>3. CASE Does(v, "reject") /\ clients' = Shut /\ UNCHANGED levels
      <3>1. doing' = [doing EXCEPT ![v] = "reject"] /\ clients' = "closed" /\ UNCHANGED levels
        BY <2>3 DEF Does, Shut
      <3> QED BY <1>0, <1>w, <2>1, <3>1, TurnsKeep
    <2> QED BY <1>9, <2>2, <2>3 DEF TooDeep
  <1>10. CASE Return(v)
    <2>1. /\ doing' = [doing EXCEPT ![v] = "idle"] /\ levels' = [levels EXCEPT ![v] = << >>]
          /\ UNCHANGED <<current_schema, clients, met, misled>>
      BY <1>10 DEF Return, Does
    <2>2. PICK k \in Seq(Nat) : k = << >>
      BY EmptySeq
    <2>3. PICK c \in {"none", "open", "closed"} : clients = c
      BY ValidationKnown
    <2> QED BY <1>0, <1>w, <2>1, <2>2, <2>3, WorkKeeps
  <1>11. CASE CorrectionAccepted(v)
    <2>1. /\ doing[v] = "accept" /\ Len(levels[v]) > 1 /\ clients' = "closed"
          /\ UNCHANGED <<doing, current_schema, met, misled>>
          /\ levels' = [levels EXCEPT ![v] = SubSeq(levels[v], 1, Len(levels[v]) - 1)]
      BY <1>11 DEF CorrectionAccepted, Shut, depth
    <2>2. PICK k \in Seq(Nat) :
             /\ k = SubSeq(levels[v], 1, Len(levels[v]) - 1) /\ Len(k) = Len(levels[v]) - 1
           /\ Len(levels[v]) \in Nat
      <3>1. PICK l \in Seq(Nat) : l = levels[v] /\ l # << >>
        BY <1>w
      <3> QED BY <3>1, LevelsChange
    <2>3. k # << >>
      <3>1. Len(k) = Len(levels[v]) - 1 /\ Len(levels[v]) > 1 /\ Len(levels[v]) \in Nat
        BY <2>1, <2>2, Zenon
      <3>2. PICK n \in Nat : n = Len(levels[v])
        BY <3>1
      <3>3. PICK m \in Nat : m = n - 1 /\ m # 0
        BY <3>1, <3>2
      <3>4. Len(k) = m
        BY <3>1, <3>2, <3>3, Zenon
      <3> QED BY <3>3, <3>4, EmptySeq
    <2>4. levels' = [levels EXCEPT ![v] = k]
      BY <2>1, <2>2, Zenon
    <2>5. doing' = [doing EXCEPT ![v] = "accept"]
      BY <2>1, ValidationKnown
    <2>6. "closed" \in {"none", "open", "closed"} /\ "accept" # "idle"
      OBVIOUS
    <2>7. clients' = "closed" /\ UNCHANGED <<current_schema, met>> /\ misled' = misled
      BY <2>1, Zenon
    <2> HIDE <2>1
    <2> QED BY <1>0, <1>w, <2>3, <2>4, <2>5, <2>6, <2>7, WorkKeeps
  <1>12. CASE CorrectionRejected(v)
    <2>1. /\ doing[v] = "reject" /\ Len(levels[v]) > 1
          /\ UNCHANGED <<current_schema, met, misled>>
      BY <1>12 DEF CorrectionRejected, depth
    <2>2. PICK outer \in Seq(Nat) :
             /\ outer = SubSeq(levels[v], 1, Len(levels[v]) - 1)
             /\ Len(outer) = Len(levels[v]) - 1 /\ Len(levels[v]) \in Nat
      <3>1. PICK l \in Seq(Nat) : l = levels[v] /\ l # << >>
        BY <1>w
      <3> QED BY <3>1, LevelsChange
    <2>3. outer # << >>
      <3>1. Len(outer) # 0
        BY <2>1, <2>2
      <3> QED BY <3>1, EmptySeq
    <2>4. \/ /\ levels' = [levels EXCEPT ![v] = [outer EXCEPT ![Len(outer)] = outer[Len(outer)] + 1]]
             /\ Does(v, "correct") /\ UNCHANGED clients
          \/ levels' = [levels EXCEPT ![v] = outer] /\ clients' = "closed" /\ UNCHANGED doing
      BY <1>12, <2>2, Zenon DEF CorrectionRejected, depth, Shut
    <2>5. PICK k \in Seq(Nat) :
             k = [outer EXCEPT ![Len(outer)] = outer[Len(outer)] + 1] /\ k # << >>
      BY <2>3, LevelsChange
    <2>6. PICK c \in {"none", "open", "closed"} : clients = c
      BY ValidationKnown
    <2>7. CASE /\ levels' = [levels EXCEPT ![v] = [outer EXCEPT ![Len(outer)] = outer[Len(outer)] + 1]]
               /\ Does(v, "correct") /\ UNCHANGED clients
      <3>1. levels' = [levels EXCEPT ![v] = k] /\ doing' = [doing EXCEPT ![v] = "correct"]
        BY <2>5, <2>7, Zenon DEF Does
      <3> QED BY <1>0, <1>w, <2>1, <2>5, <2>6, <2>7, <3>1, WorkKeeps
    <2>8. CASE levels' = [levels EXCEPT ![v] = outer] /\ clients' = "closed" /\ UNCHANGED doing
      <3>1. doing' = [doing EXCEPT ![v] = "reject"]
        BY <2>1, <2>8, ValidationKnown
      <3> QED BY <1>0, <1>w, <2>1, <2>3, <2>8, <3>1, WorkKeeps
    <2> QED BY <2>4, <2>7, <2>8
  <1> QED
    BY <1>1, <1>2, <1>3, <1>4, <1>5, <1>6, <1>7, <1>8, <1>9, <1>10, <1>11, <1>12
    DEF Validate

\* A validation that is submitted meets those in progress.
LEMMA SubmitKeeps ==
    ASSUME VInv, NEW v \in Validations, Submit(v)
    PROVE  VInv'
  <1>1. PICK k \in Seq(Nat) : k = Append(<< >>, 0) /\ k # << >>
    BY EmptySeq, AppendProperties
  <1>2. PICK d \in {"reject", "accept", "analyze"} :
           doing' = [doing EXCEPT ![v] = d]
           /\ (d = "analyze" => clients' = "open") /\ (d # "analyze" => clients' = clients)
    BY DEF Submit, Check, Does, Opened
  <1>3. levels' = [levels EXCEPT ![v] = k] /\ current_schema' = v
    BY <1>1, Zenon DEF Submit, Check
  <1>4. /\ met' = (IF Under(v) = {} THEN met \ {v} ELSE met \cup Under(v) \cup {v})
        /\ misled' = misled \ {v} /\ doing[v] = "idle"
    BY DEF Submit
  <1>5. /\ levels \in [Validations -> Seq(Nat)] /\ doing \in [Validations -> Doings]
        /\ \A w \in Validations : doing[w] = "idle" <=> levels[w] = << >>
        /\ met \subseteq Validations /\ misled \subseteq Validations
        /\ clients \in {"none", "open", "closed"}
    BY DEF VInv, ValidatorTypeOK
  <1>6. ValidatorTypeOK'
    <2>1. d \in Doings /\ d # "idle"
      BY DEF Doings
    <2>2. ASSUME NEW w \in Validations
          PROVE  doing'[w] = "idle" <=> levels'[w] = << >>
      BY <1>1, <1>2, <1>3, <1>5, <2>1
    <2>3. met' \subseteq Validations
      BY <1>4, <1>5 DEF Under
    <2> QED BY <1>1, <1>2, <1>3, <1>4, <1>5, <2>1, <2>2, <2>3 DEF ValidatorTypeOK
  <1>7. AloneUnmet'
    <2>1. ASSUME NEW w \in Validations, w \notin met', doing'[w] # "idle"
          PROVE  /\ Under(w)' = {} /\ current_schema' = w
                 /\ doing'[w] = "analyze" => clients' = "open"
      <3>1. w = v
        BY <1>2, <1>4, <1>5, <2>1 DEF Under
      <3>2. Under(v) = {}
        BY <1>4, <2>1, <3>1
      <3>3. Under(w)' = {}
        BY <1>2, <1>5, <3>1, <3>2 DEF Under
      <3>4. doing'[w] = d
        BY <1>2, <1>5, <3>1
      <3> QED BY <1>2, <1>3, <3>1, <3>3, <3>4
    <2> QED BY <2>1 DEF AloneUnmet
  <1>8. UndisturbedNotMisled'
    BY <1>4 DEF VInv, UndisturbedNotMisled
  <1> QED BY <1>6, <1>7, <1>8 DEF VInv

\* Every step keeps the invariant.
LEMMA ValidationKept ==
    ASSUME VInv, [ValidatorNext]_validatorVars
    PROVE  VInv'
  <1>1. CASE UNCHANGED validatorVars
    BY <1>1 DEF validatorVars, VInv, ValidatorTypeOK, AloneUnmet, UndisturbedNotMisled, Under
  <1> QED BY <1>1, SubmitKeeps, ValidateKeeps DEF ValidatorNext

\* Validations begin as the invariant says.
LEMMA ValidationBegins ==
    ASSUME ValidatorInit
    PROVE  VInv
  BY EmptySeq DEF ValidatorInit, VInv, ValidatorTypeOK, AloneUnmet, UndisturbedNotMisled, Doings

-----------------------------------------------------------------------------
(* Development of components (Development) *)

\* Stages at which a component is being developed, and at which none is; a run
\* that recovers may have been at either.
WithComponent == Developing \cup {"record", "failing"}
Without == {"idle", "begin", "next", "system", "report"}

Chosen == stage \in WithComponent \/ component # NoComponent

\* What is still to come is in the order of the numbers of dependencies, and
\* the component being developed has no more than any of them.
InOrder ==
    /\ \A i \in 1..Len(queue) : queue[i] \in given
    /\ \A i, j \in 1..Len(queue) :
          i < j => weight(queue[i]) <= weight(queue[j]) /\ queue[i] # queue[j]
    /\ Chosen => /\ component \in given
                 /\ \A i \in 1..Len(queue) :
                       weight(component) <= weight(queue[i]) /\ component # queue[i]
    /\ stage \in Without => component = NoComponent
    /\ ~is_processing => stage = "idle"

\* Until a component is given to a run nothing is known of any.
NothingYet ==
    developments = 0 =>
        /\ completed = << >> /\ queue = << >> /\ stage \notin WithComponent
        /\ \A c \in Components : context[c] = "NONE"

\* The first run reports what its contexts say, up to the component whose
\* completion it is about to note, and has yet to develop none of what it reports.
Reported ==
    developments = Cardinality(given) /\ stage # "idle" =>
        /\ \A i \in 1..Len(queue) : queue[i] \notin Range(completed)
        /\ stage \in WithComponent => component \notin Range(completed)
        /\ \A c \in Components :
              context[c] = "COMPLETED" <=>
                  c \in Range(completed) \/ (stage = "complete" /\ c = component)

DInv == DevTypeOK /\ InOrder /\ NothingYet /\ Reported

\* The numbers of dependencies can be compared.
LEMMA Weights ==
    ASSUME DInv, NEW c \in Components
    PROVE  depends[c] \subseteq Components /\ IsFiniteSet(depends[c]) /\ weight(c) \in Nat
  <1>1. depends[c] \subseteq Components
    BY DEF DInv, DevTypeOK
  <1>2. IsFiniteSet(depends[c])
    BY <1>1, ComponentsAssumption, FS_Subset
  <1> QED BY <1>1, <1>2, FS_CardinalityType DEF weight

\* What the queue and the list of the completed ones hold.
LEMMA ListsKnown ==
    ASSUME DInv
    PROVE  /\ queue \in Seq(Components) /\ Len(queue) \in Nat
           /\ \A i \in 1..Len(queue) : queue[i] \in Components
           /\ completed \in Seq(Components) /\ Range(completed) \subseteq Components
           /\ given \subseteq Components /\ IsFiniteSet(given) /\ Cardinality(given) \in Nat
           /\ stage \in WithComponent => component \in Components
  <1>1. queue \in Seq(Components) /\ completed \in Seq(Components) /\ given \subseteq Components
    BY DEF DInv, DevTypeOK
  <1>2. /\ Len(queue) \in Nat /\ \A i \in 1..Len(queue) : queue[i] \in Components
        /\ Range(completed) \subseteq Components
    BY <1>1, LenProperties DEF Range
  <1>3. IsFiniteSet(given)
    BY <1>1, ComponentsAssumption, FS_Subset
  <1>4. Cardinality(given) \in Nat
    BY <1>3, FS_CardinalityType
  <1> QED BY <1>1, <1>2, <1>3, <1>4 DEF DInv, InOrder, Chosen

\* The invariant says what the run checks.
LEMMA DevelopmentRight ==
    ASSUME DInv
    PROVE  DevelopedAsReported
  <1>1. ASSUME component # NoComponent, Layered(given), NEW d \in depends[component],
               d \in Range(queue)
        PROVE  FALSE
    <2>1. PICK i \in 1..Len(queue) : d = queue[i]
      BY <1>1, ListsKnown, LenProperties DEF Range
    <2>2. /\ component \in given /\ d \in given /\ weight(component) <= weight(d)
      BY <1>1, <2>1 DEF DInv, InOrder, Chosen
    <2>3. PICK c \in Components : c = component
      BY <2>2, ListsKnown
    <2>4. d \in Components /\ d \in depends[c]
      BY <1>1, <2>2, <2>3, ListsKnown
    <2>5. depends[d] \subseteq depends[c] \ {d}
      BY <1>1, <2>2, <2>3 DEF Layered
    <2>6. IsFiniteSet(depends[c]) /\ weight(c) \in Nat /\ weight(d) \in Nat
      BY <2>4, Weights
    <2>7. /\ Cardinality(depends[d]) <= Cardinality(depends[c])
          /\ Cardinality(depends[d]) = Cardinality(depends[c]) => depends[d] = depends[c]
      <3>1. depends[d] \in SUBSET depends[c]
        BY <2>5
      <3> QED BY <2>6, <3>1, FS_Subset
    <2>8. weight(d) < weight(c)
      BY <2>4, <2>5, <2>6, <2>7 DEF weight
    <2> QED BY <2>2, <2>3, <2>6, <2>8
  <1>2. DependenciesFirst
    BY <1>1 DEF DependenciesFirst
  <1>3. ReportMatchesContexts
    <2>1. ASSUME developments = Cardinality(given), stage \notin {"complete", "idle"}
          PROVE  Range(completed) = {c \in Components : context[c] = "COMPLETED"}
      BY <2>1, ListsKnown DEF DInv, Reported
    <2> QED BY <2>1 DEF ReportMatchesContexts
  <1> QED BY <1>2, <1>3 DEF DevelopedAsReported

\* A step that takes nothing and completes nothing keeps the invariant, if a
\* context becomes complete only where its completion is noted next.
LEMMA StageMoves ==
    ASSUME DInv, NEW t \in Stages, stage' = t,
           UNCHANGED <<depends, queue, given, developments, completed>>,
           phase_id' \in BOOLEAN, is_processing' \in BOOLEAN,
           ~is_processing' => t = "idle",
           component' = component \/ component' = NoComponent,
           t \in WithComponent => stage \in WithComponent /\ component' = component,
           t \in Without => component' = NoComponent,
           stage # "idle" \/ t = "idle",
           \/ context' = context /\ (t # "idle" => stage # "complete" /\ t # "complete")
           \/ /\ stage \in WithComponent
              /\ \E s \in States : /\ context' = [context EXCEPT ![component] = s]
                                   /\ s = "COMPLETED" <=> t = "complete"
    PROVE  DInv'
  <1>1. /\ context \in [Components -> States] /\ component \in Components \cup {NoComponent}
        /\ stage \in WithComponent => component \in Components
    BY ListsKnown DEF DInv, DevTypeOK
  <1>2. context' \in [Components -> States]
    BY <1>1
  <1>3. DevTypeOK'
    BY <1>1, <1>2 DEF DInv, DevTypeOK
  <1>4. \A c : weight(c)' = weight(c)
    BY DEF weight
  <1>5. Chosen' => Chosen /\ component' = component
    BY DEF Chosen
  <1>6. InOrder'
    BY <1>4, <1>5 DEF DInv, InOrder
  <1>7. NothingYet'
    BY DEF DInv, NothingYet
  <1>8. Reported'
    <2>1. ASSUME developments = Cardinality(given), t # "idle"
          PROVE  /\ \A i \in 1..Len(queue) : queue[i] \notin Range(completed)
                 /\ t \in WithComponent => component' \notin Range(completed)
                 /\ \A c \in Components :
                       context'[c] = "COMPLETED" <=>
                           c \in Range(completed) \/ (t = "complete" /\ c = component')
      <3>1. stage # "idle"
        BY <2>1
      <3>2. /\ \A i \in 1..Len(queue) : queue[i] \notin Range(completed)
            /\ stage \in WithComponent => component \notin Range(completed)
            /\ \A c \in Components :
                  context[c] = "COMPLETED" <=>
                      c \in Range(completed) \/ (stage = "complete" /\ c = component)
        BY <2>1, <3>1 DEF DInv, Reported
      <3>3. CASE context' = context
        <4>1. t = "complete" => t \in WithComponent
          BY DEF WithComponent, Developing
        <4>2. CASE stage # "complete" /\ t # "complete"
          BY <3>2, <3>3, <4>2
        <4>3. CASE ~(stage # "complete" /\ t # "complete")
          <5>1. PICK s \in States : /\ stage \in WithComponent
                                    /\ context = [context EXCEPT ![component] = s]
                                    /\ s = "COMPLETED" <=> t = "complete"
            BY <2>1, <3>3, <4>3
          <5>2. context[component] = s /\ component \in Components
            BY <1>1, <5>1
          <5>3. t = "complete" => component' = component
            BY <4>1
          <5>4. component \notin Range(completed)
            BY <3>2, <5>1
          <5>5. stage = "complete" <=> t = "complete"
            BY <3>2, <5>1, <5>2, <5>4
          <5> QED BY <3>2, <3>3, <5>3, <5>5
        <4> QED BY <4>2, <4>3
      <3>4. CASE /\ stage \in WithComponent
                 /\ \E s \in States : /\ context' = [context EXCEPT ![component] = s]
                                      /\ s = "COMPLETED" <=> t = "complete"
        <4>1. PICK s \in States : /\ context' = [context EXCEPT ![component] = s]
                                  /\ s = "COMPLETED" <=> t = "complete"
          BY <3>4
        <4>2. component \in Components /\ component \notin Range(completed)
          BY <1>1, <3>2, <3>4
        <4>3. \A c \in Components : c # component => context'[c] = context[c]
          BY <1>1, <4>1
        <4>4. context'[component] = s
          BY <1>1, <4>1, <4>2
        <4>5. t = "complete" => component' = component
          BY DEF WithComponent, Developing
        <4> QED BY <3>2, <4>1, <4>2, <4>3, <4>4, <4>5
      <3> QED BY <3>2, <3>3, <3>4
    <2> QED BY <2>1 DEF Reported
  <1> QED BY <1>3, <1>6, <1>7, <1>8 DEF DInv

\* The order in which the components of a run are developed.
LEMMA SortedKnown ==
    ASSUME DInv, NEW S \in SUBSET Components, NEW s \in Sorted(S)
    PROVE  /\ s \in Seq(Components) /\ Len(s) = Cardinality(S) /\ Cardinality(S) \in Nat
           /\ \A i \in 1..Len(s) : s[i] \in S
           /\ \A i, j \in 1..Len(s) : i < j => weight(s[i]) <= weight(s[j]) /\ s[i] # s[j]
  <1>1. IsFiniteSet(S)
    BY ComponentsAssumption, FS_Subset
  <1>2. PICK n \in Nat : n = Cardinality(S)
    BY <1>1, FS_CardinalityType
  <1>3. s \in [1..n -> S] /\ \A i, j \in 1..n : i # j => s[i] # s[j]
    BY <1>2 DEF Sorted, SetToSeqs
  <1>4. s \in Seq(Components)
    <2>1. s \in [1..n -> Components]
      BY <1>3
    <2> QED BY <2>1, SeqDef
  <1>5. Len(s) = n
    BY <1>3, <1>4, LenProperties
  <1>6. \A i, j \in 1..Len(s) : i < j => weight(s[i]) <= weight(s[j])
    BY DEF Sorted
  <1> QED BY <1>2, <1>3, <1>4, <1>5, <1>6

\* A run that begins keeps the invariant.
LEMMA ProcessKeeps ==
    ASSUME DInv, NEW S \in SUBSET Components, Process(S)
    PROVE  DInv'
  <1>1. PICK s \in Sorted(S) : queue' = s
    BY DEF Process
  <1>2. /\ s \in Seq(Components) /\ Len(s) = Cardinality(S) /\ Cardinality(S) \in Nat
        /\ \A i \in 1..Len(s) : s[i] \in S
        /\ \A i, j \in 1..Len(s) : i < j => weight(s[i]) <= weight(s[j]) /\ s[i] # s[j]
    BY SortedKnown
  <1>3. /\ ~is_processing /\ is_processing' = TRUE /\ stage' = "begin" /\ given' = S
        /\ developments' = developments + Cardinality(S)
        /\ UNCHANGED <<depends, phase_id, context, completed, component>>
    BY DEF Process
  <1>4. developments \in Nat /\ "begin" \in Stages /\ "begin" \notin WithComponent
    BY DEF DInv, DevTypeOK, Stages, WithComponent, Developing
  <1>5. component = NoComponent
    BY <1>3 DEF DInv, InOrder, Without
  <1>6. DevTypeOK'
    BY <1>1, <1>2, <1>3, <1>4 DEF DInv, DevTypeOK
  <1>7. \A c : weight(c)' = weight(c)
    BY <1>3 DEF weight
  <1>8. InOrder'
    BY <1>1, <1>2, <1>3, <1>4, <1>5, <1>7 DEF InOrder, Chosen
  <1>9. developments' = 0 \/ developments' = Cardinality(given') => developments = 0
    BY <1>2, <1>3, <1>4
  <1>10. developments = 0 => completed = << >> /\ \A c \in Components : context[c] = "NONE"
    BY DEF DInv, NothingYet
  <1>11. NothingYet'
    <2>1. developments' = 0 => Len(s) = 0
      BY <1>2, <1>3, <1>4
    <2>2. Len(s) = 0 => s = << >>
      BY <1>2, EmptySeq
    <2> QED BY <1>1, <1>3, <1>4, <1>9, <1>10, <2>1, <2>2 DEF NothingYet
  <1>12. Reported'
    <2>1. Range(<< >>) = {}
      BY EmptySeq DEF Range
    <2> QED BY <1>3, <1>4, <1>9, <1>10, <2>1 DEF Reported
  <1> QED BY <1>6, <1>8, <1>11, <1>12 DEF DInv

\* What is left of a list once its first element is taken.
LEMMA TailKnown ==
    ASSUME NEW S, NEW l \in Seq(S), l # << >>, NEW m, m = Tail(l)
    PROVE  m \in Seq(S) /\ Len(m) = Len(l) - 1 /\ \A i \in 1..Len(m) : m[i] = l[i + 1]
  BY HeadTailProperties

\* Taking the next component keeps the invariant.
LEMMA TakeKeeps ==
    ASSUME DInv, TakeComponent
    PROVE  DInv'
  <1>1. /\ stage = "next" /\ queue # << >> /\ stage' = "record"
        /\ component' = Head(queue) /\ queue' = Tail(queue)
        /\ context' = [context EXCEPT ![Head(queue)] = "PLANNING"]
        /\ UNCHANGED <<depends, is_processing, phase_id, completed, given, developments>>
    BY DEF TakeComponent
  <1>2. PICK n \in Nat : Len(queue) = n + 1
    <2>1. Len(queue) \in Nat \ {0}
      BY <1>1, ListsKnown, EmptySeq
    <2>2. PICK n \in Nat : n = Len(queue) - 1
      BY <2>1
    <2> QED BY <2>1, <2>2
  <1>3. PICK q \in Seq(Components) :
           q = Tail(queue) /\ Len(q) = n /\ \A i \in 1..n : q[i] = queue[i + 1]
    <2>1. PICK l \in Seq(Components) : l = queue /\ l # << >>
      BY <1>1, ListsKnown
    <2>2. PICK m : m = Tail(l)
      OBVIOUS
    <2>3. m \in Seq(Components) /\ Len(m) = Len(l) - 1 /\ \A i \in 1..Len(m) : m[i] = l[i + 1]
      BY <2>1, <2>2, TailKnown
    <2>4. m = Tail(queue)
      BY <2>1, <2>2, Zenon
    <2>5. Len(m) = n
      BY <1>2, <2>1, <2>3
    <2> HIDE <2>2, <1>1
    <2> QED BY <2>1, <2>3, <2>4, <2>5, Zenon
  <1>4. PICK c \in Components : c = Head(queue) /\ c = queue[1]
    BY <1>1, <1>2, ListsKnown, HeadTailProperties
  <1>5. component' = c /\ queue' = q /\ context' = [context EXCEPT ![c] = "PLANNING"]
    BY <1>1, <1>3, <1>4, Zenon
  <1>6. 1 \in 1..Len(queue) /\ \A i \in 1..n : i \in Nat /\ i + 1 \in 1..Len(queue) /\ 1 < i + 1
    BY <1>2
  <1>7. "PLANNING" \in States /\ "record" \in Stages /\ "record" \in WithComponent
        /\ "record" \notin Without /\ "record" # "idle" /\ "record" # "complete"
    BY DEF States, Stages, WithComponent, Without
  <1>8. UNCHANGED <<depends, is_processing, phase_id, completed, given, developments>>
        /\ stage' = "record" /\ stage = "next"
    BY <1>1
  <1> HIDE <1>1
  <1>9. DevTypeOK'
    BY <1>3, <1>4, <1>5, <1>7, <1>8 DEF DInv, DevTypeOK
  <1>10. \A d : weight(d)' = weight(d)
    BY <1>8 DEF weight
  <1>11. InOrder'
    <2>1. \A i \in 1..n : q[i] \in given /\ weight(c) <= weight(q[i]) /\ c # q[i]
      BY <1>3, <1>4, <1>6 DEF DInv, InOrder
    <2>2. ASSUME NEW i \in 1..n, NEW j \in 1..n, i < j
          PROVE  weight(q[i]) <= weight(q[j]) /\ q[i] # q[j]
      <3>1. q[i] = queue[i + 1] /\ q[j] = queue[j + 1] /\ i + 1 < j + 1
        BY <1>3, <1>6, <2>2
      <3> QED BY <1>6, <3>1 DEF DInv, InOrder
    <2>3. c \in given /\ is_processing
      BY <1>4, <1>6, <1>8 DEF DInv, InOrder
    <2>4. (\A i \in 1..Len(queue) : queue[i] \in given)'
      BY <1>3, <1>5, <1>8, <2>1
    <2>5. (\A i, j \in 1..Len(queue) :
              i < j => weight(queue[i]) <= weight(queue[j]) /\ queue[i] # queue[j])'
      BY <1>3, <1>5, <1>10, <2>2
    <2>6. (component \in given /\ \A i \in 1..Len(queue) :
              weight(component) <= weight(queue[i]) /\ component # queue[i])'
      BY <1>3, <1>5, <1>8, <1>10, <2>1, <2>3
    <2> QED BY <1>7, <1>8, <2>3, <2>4, <2>5, <2>6 DEF InOrder
  <1>12. NothingYet'
    <2>1. developments # 0
      BY <1>2, EmptySeq DEF DInv, NothingYet
    <2> QED BY <1>8, <2>1 DEF NothingYet
  <1>13. Reported'
    <2>1. ASSUME developments = Cardinality(given)
          PROVE  /\ \A i \in 1..n : q[i] \notin Range(completed)
                 /\ c \notin Range(completed)
                 /\ \A d \in Components : context'[d] = "COMPLETED" <=> d \in Range(completed)
      <3>1. /\ \A i \in 1..Len(queue) : queue[i] \notin Range(completed)
            /\ \A d \in Components : context[d] = "COMPLETED" <=> d \in Range(completed)
        BY <1>8, <2>1 DEF DInv, Reported
      <3>2. c \notin Range(completed) /\ \A i \in 1..n : q[i] \notin Range(completed)
        BY <1>3, <1>4, <1>6, <3>1
      <3>3. context \in [Components -> States]
        BY DEF DInv, DevTypeOK
      <3> QED BY <1>4, <1>5, <3>1, <3>2, <3>3
    <2> QED BY <1>3, <1>5, <1>7, <1>8, <2>1 DEF Reported
  <1> QED BY <1>9, <1>11, <1>12, <1>13 DEF DInv

\* Noting a completion keeps the invariant.
LEMMA CompletionKeeps ==
    ASSUME DInv, ComponentCompleted
    PROVE  DInv'
  <1>1. PICK c \in Components : c = component
    BY ListsKnown DEF ComponentCompleted, WithComponent, Developing
  <1>2. PICK l \in Seq(Components) :
           /\ l = Append(completed, c) /\ Range(l) = Range(completed) \cup {c}
    <2>1. PICK m : m = Append(completed, c)
      OBVIOUS
    <2>2. /\ m \in Seq(Components) /\ Len(m) = Len(completed) + 1
          /\ \A i \in 1..Len(completed) : m[i] = completed[i]
          /\ m[Len(completed) + 1] = c /\ Len(completed) \in Nat
      BY <2>1, ListsKnown, AppendProperties, LenProperties
    <2>3. DOMAIN m = 1..Len(m) /\ DOMAIN completed = 1..Len(completed)
      BY <2>2, ListsKnown, LenProperties
    <2>4. \A x : x \in Range(m) <=> x \in Range(completed) \/ x = c
      <3>1. ASSUME NEW x \in Range(m)
            PROVE  x \in Range(completed) \/ x = c
        <4>1. PICK i \in 1..Len(completed) + 1 : x = m[i]
          BY <2>2, <2>3, <3>1 DEF Range
        <4>2. i \in 1..Len(completed) \/ i = Len(completed) + 1
          BY <2>2
        <4> QED BY <2>2, <2>3, <4>1, <4>2 DEF Range
      <3>2. c \in Range(m)
        BY <2>2, <2>3 DEF Range
      <3>3. ASSUME NEW x \in Range(completed)
            PROVE  x \in Range(m)
        <4>1. PICK i \in 1..Len(completed) : x = completed[i]
          BY <2>3, <3>3 DEF Range
        <4>2. i \in DOMAIN m /\ m[i] = x
          BY <2>2, <2>3, <4>1
        <4> QED BY <4>2 DEF Range
      <3> QED BY <3>1, <3>2, <3>3
    <2> QED BY <2>1, <2>2, <2>4
  <1>3. completed' = l
    BY <1>1, <1>2, Zenon DEF ComponentCompleted
  <1>4. /\ stage = "complete" /\ stage' = "next" /\ component' = NoComponent
        /\ UNCHANGED <<depends, is_processing, phase_id, context, queue, given, developments>>
    BY DEF ComponentCompleted, Leaves
  <1>5. /\ "next" \in Stages /\ "next" \notin WithComponent /\ "complete" \in WithComponent
    BY DEF Stages, WithComponent, Developing
  <1>6. DevTypeOK'
    BY <1>3, <1>4, <1>5 DEF DInv, DevTypeOK
  <1>7. \A d : weight(d)' = weight(d)
    BY <1>4 DEF weight
  <1>8. InOrder'
    BY <1>4, <1>5, <1>7 DEF DInv, InOrder, Chosen
  <1>9. NothingYet'
    BY <1>4, <1>5 DEF DInv, NothingYet
  <1>10. Reported'
    <2>1. ASSUME developments = Cardinality(given)
          PROVE  /\ \A i \in 1..Len(queue) : queue[i] \notin Range(l)
                 /\ \A d \in Components : context[d] = "COMPLETED" <=> d \in Range(l)
      <3>1. /\ \A i \in 1..Len(queue) : queue[i] \notin Range(completed)
            /\ \A d \in Components : context[d] = "COMPLETED" <=>
                                         d \in Range(completed) \/ d = c
        BY <1>1, <1>4, <2>1 DEF DInv, Reported
      <3>2. \A i \in 1..Len(queue) : queue[i] # c
        BY <1>1, <1>4, <1>5 DEF DInv, InOrder, Chosen
      <3> QED BY <1>2, <3>1, <3>2
    <2> QED BY <1>3, <1>4, <1>5, <2>1 DEF Reported
  <1> QED BY <1>6, <1>8, <1>9, <1>10 DEF DInv

\* Every other step of a run keeps the invariant.
LEMMA RunStepKeeps ==
    ASSUME DInv,
           \/ PhaseInitialized \/ Recorded \/ TestsCreated \/ CultivationStarted \/ Implemented
           \/ Tested \/ Integrated \/ Fails \/ DevelopRaises \/ FailureRecorded
           \/ AllTried \/ SystemTested \/ RunEnds \/ RunRaises \/ RunLost
    PROVE  DInv'
  <1>0. /\ phase_id \in BOOLEAN /\ is_processing \in BOOLEAN
        /\ stage \in Without => component = NoComponent
        /\ stage # "idle" => is_processing
    BY DEF DInv, DevTypeOK, InOrder
  <1>1. CASE PhaseInitialized \/ AllTried \/ SystemTested
    <2>1. PICK t \in {"next", "report", "system"} : stage' = t
      BY <1>1 DEF PhaseInitialized, AllTried, SystemTested
    <2>2. /\ UNCHANGED <<depends, is_processing, context, completed, component, queue, given, developments>>
          /\ phase_id' \in BOOLEAN /\ stage \in {"begin", "next", "system"}
      BY <1>0, <1>1 DEF PhaseInitialized, AllTried, SystemTested, runVars
    <2>3. t \in Stages /\ t \notin WithComponent /\ stage \in Without
      BY <2>2 DEF Stages, WithComponent, Without, Developing
    <2> QED BY <1>0, <2>1, <2>2, <2>3, StageMoves
  <1>2. CASE Recorded \/ TestsCreated \/ Implemented \/ Tested \/ Integrated \/ DevelopRaises
    <2>1. /\ UNCHANGED <<depends, is_processing, phase_id, component, queue, given, developments, completed>>
          /\ stage \in WithComponent
      BY <1>2 DEF Recorded, TestsCreated, Implemented, Tested, Integrated, DevelopRaises, runVars,
                  WithComponent, Developing
    <2>2. PICK t \in WithComponent, s \in States :
             /\ stage' = t /\ context' = [context EXCEPT ![component] = s]
             /\ s = "COMPLETED" <=> t = "complete"
      BY <1>2 DEF Recorded, TestsCreated, Implemented, Tested, Integrated, DevelopRaises,
                  ComponentEnters, WithComponent, Developing, States
    <2>3. t \in Stages /\ t \notin Without /\ t # "idle" /\ stage # "idle"
      BY <2>1 DEF Stages, WithComponent, Without, Developing
    <2> QED BY <1>0, <2>1, <2>2, <2>3, StageMoves
  <1>3. CASE CultivationStarted
    <2>1. /\ UNCHANGED <<depends, is_processing, phase_id, component, queue, given, developments, completed>>
          /\ stage = "cultivate" /\ stage' = "status" /\ context' = context
      BY <1>3 DEF CultivationStarted, runVars
    <2>2. /\ "status" \in Stages /\ "status" \in WithComponent /\ "cultivate" \in WithComponent
          /\ "status" \notin Without
      BY DEF Stages, WithComponent, Without, Developing
    <2> QED BY <1>0, <2>1, <2>2, StageMoves
  <1>4. CASE Fails
    <2>1. /\ UNCHANGED <<depends, is_processing, phase_id, queue, given, developments, completed>>
          /\ stage \in WithComponent /\ stage' = "next" /\ component' = NoComponent
          /\ context' = [context EXCEPT ![component] = "FAILED"] /\ stage # "idle"
      BY <1>4 DEF Fails, Leaves, ComponentEnters, WithComponent, Developing
    <2>2. "next" \in Stages /\ "next" \notin WithComponent /\ "FAILED" \in States
      BY DEF Stages, WithComponent, Developing, States
    <2> QED BY <1>0, <2>1, <2>2, StageMoves
  <1>5. CASE FailureRecorded
    <2>1. /\ UNCHANGED <<depends, is_processing, phase_id, context, queue, given, developments, completed>>
          /\ stage = "failing" /\ stage' = "next" /\ component' = NoComponent
      BY <1>5 DEF FailureRecorded, Leaves
    <2>2. "next" \in Stages /\ "next" \notin WithComponent
      BY DEF Stages, WithComponent, Developing
    <2> QED BY <1>0, <2>1, <2>2, StageMoves
  <1>6. CASE RunEnds \/ RunLost
    <2>1. /\ UNCHANGED <<depends, phase_id, context, queue, given, developments, completed>>
          /\ stage' = "idle" /\ component' = NoComponent /\ is_processing' \in BOOLEAN
      BY <1>0, <1>6 DEF RunEnds, RunLost, Leaves
    <2>2. "idle" \in Stages /\ "idle" \notin WithComponent
      BY DEF Stages, WithComponent, Developing
    <2> QED BY <1>0, <2>1, <2>2, StageMoves
  <1>7. CASE RunRaises
    <2>1. /\ UNCHANGED <<depends, is_processing, phase_id, component, queue, given, developments, completed, context>>
          /\ stage \in {"begin", "record", "failing", "system", "report"} /\ stage' = "recover"
      BY <1>7 DEF RunRaises, runVars
    <2>2. "recover" \in Stages /\ "recover" \notin WithComponent /\ "recover" \notin Without
      BY DEF Stages, WithComponent, Without, Developing
    <2> QED BY <1>0, <2>1, <2>2, StageMoves
  <1> QED BY <1>1, <1>2, <1>3, <1>4, <1>5, <1>6, <1>7

\* Every step keeps the invariant.
LEMMA DevelopmentKept ==
    ASSUME DInv, [DevNext]_devVars
    PROVE  DInv'
  <1>1. CASE UNCHANGED devVars
    BY <1>1 DEF devVars, DInv, DevTypeOK, InOrder, NothingYet, Reported, Chosen, weight
  <1> QED
    BY <1>1, ProcessKeeps, TakeKeeps, CompletionKeeps, RunStepKeeps DEF DevNext, DevelopStep

\* Developments begin as the invariant says.
LEMMA DevelopmentBegins ==
    ASSUME DevInit
    PROVE  DInv
  <1>1. Len(<< >>) = 0 /\ << >> \in Seq(Components) /\ Range(<< >>) = {}
    BY EmptySeq DEF Range
  <1>2. DevTypeOK
    BY <1>1 DEF DevInit, DevTypeOK, States, Stages
  <1>3. "idle" \notin WithComponent
    BY DEF WithComponent, Developing
  <1>4. InOrder /\ NothingYet /\ Reported
    BY <1>1, <1>3 DEF DevInit, InOrder, NothingYet, Reported, Chosen
  <1> QED BY <1>2, <1>4 DEF DInv

-----------------------------------------------------------------------------
(* Cultivation of features (Cultivation) *)

Past == Holding \cup {"handle", "over"}

\* What a feature requires has an earlier context with a task.
RequiredEarlier ==
    \A i \in 1..Len(feature) : \A f \in requires[feature[i]] :
        \E j \in 1..i - 1 : feature[j] = f /\ task[j] # "none"

\* So has what the cultivation in progress started.
StartedHaveTasks ==
    \A k \in 1..Len(started) : \E j \in 1..Len(feature) : feature[j] = started[k] /\ task[j] # "none"

\* Tasks begin, and are given a slot, in the order in which they were made.
InTurn ==
    \A i \in Starts : \A j \in 1..i - 1 :
        /\ task[i] \notin {"none", "new"} => task[j] # "new"
        /\ task[i] \in Past => task[j] # "waiting"

\* A task has a context, and a context that was just made gets the next task.
ContextsFirst ==
    /\ Len(feature) <= MaxStarts
    /\ \A i \in Starts : task[i] # "none" => i <= Len(feature)
    /\ step = "planned" =>
          /\ Len(feature) # 0 /\ task[Len(feature)] = "none"
          /\ next \in 1..Len(list) /\ feature[Len(feature)] = list[next]

UInv == /\ CultivationTypeOK /\ RequiredEarlier /\ StartedHaveTasks /\ InTurn /\ ContextsFirst

\* The lengths and the numbers that the invariant speaks of.
LEMMA CultivationKnown ==
    ASSUME UInv
    PROVE  /\ feature \in Seq(Features) /\ Len(feature) \in Nat /\ MaxStarts \in Nat
           /\ \A i \in 1..Len(feature) : feature[i] \in Features /\ i \in Starts
           /\ started \in Seq(Features) /\ Len(started) \in Nat /\ list \in Seq(Features)
           /\ Len(list) \in Nat /\ next \in Nat /\ Len(feature) <= MaxStarts
           /\ dev_state \in Seq(FeatureStates) /\ Len(dev_state) = Len(feature)
           /\ task \in [Starts -> TaskStates] /\ uses \in [Starts -> 0..MaxStarts]
  <1>1. feature \in Seq(Features) /\ started \in Seq(Features) /\ list \in Seq(Features)
    BY DEF UInv, CultivationTypeOK
  <1>2. /\ Len(feature) \in Nat /\ Len(started) \in Nat /\ Len(list) \in Nat
        /\ \A i \in 1..Len(feature) : feature[i] \in Features
    BY <1>1, LenProperties
  <1>3. MaxStarts \in Nat
    BY StartsAssumption
  <1>4. Len(feature) <= MaxStarts
    BY DEF UInv, ContextsFirst
  <1>5. \A i \in 1..Len(feature) : i \in Starts
    BY <1>2, <1>3, <1>4 DEF Starts
  <1>6. next \in 0..Len(list) + 1
    BY DEF UInv, CultivationTypeOK
  <1>7. next \in Nat
    BY <1>2, <1>6
  <1> QED BY <1>1, <1>2, <1>3, <1>4, <1>5, <1>7 DEF UInv, CultivationTypeOK

\* The invariant says what the run checks.
LEMMA DependenciesHaveBegun ==
    ASSUME UInv
    PROVE  DependenciesBegin
  <1>1. ASSUME NEW i \in Starts, task[i] \in Holding, NEW f \in requires[feature[i]]
        PROVE  \E j \in 1..i - 1 : feature[j] = f /\ task[j] \in Past
    <2>1. i \in 1..Len(feature)
      <3>1. task[i] # "none"
        BY <1>1 DEF Holding
      <3>2. i <= Len(feature)
        BY <3>1 DEF UInv, ContextsFirst
      <3> QED BY <3>2, CultivationKnown DEF Starts
    <2>2. PICK j \in 1..i - 1 : feature[j] = f /\ task[j] # "none"
      BY <1>1, <2>1 DEF UInv, RequiredEarlier
    <2>3. task[j] # "new" /\ task[j] # "waiting"
      BY <1>1, <2>2 DEF UInv, InTurn, Past, Holding
    <2>4. j \in Starts
      BY <2>1, <2>2, CultivationKnown DEF Starts
    <2>5. task[j] \in TaskStates
      BY <2>4, CultivationKnown
    <2> QED BY <2>2, <2>3, <2>5 DEF TaskStates, Past
  <1> QED BY <1>1 DEF DependenciesBegin, Past

\* A sequence stays one when one of its elements changes, and when it is asked
\* to change where it has none.
LEMMA ElementChanges ==
    ASSUME NEW S, NEW l \in Seq(S), NEW x \in Nat, NEW s \in S, NEW m,
           m = [l EXCEPT ![x] = s]
    PROVE  m \in Seq(S) /\ Len(m) = Len(l)
  <1>1. CASE x \in 1..Len(l)
    BY <1>1, ExceptSeq
  <1>2. CASE x \notin 1..Len(l)
    <2>1. DOMAIN l = 1..Len(l) /\ l \in [1..Len(l) -> S]
      BY LenProperties
    <2>2. [l EXCEPT ![x] = s] = l
      BY <1>2, <2>1
    <2> QED BY <2>2
  <1> QED BY <1>1, <1>2

\* The states of the contexts, when one of them may change.
LEMMA StatesStay ==
    ASSUME UInv, dev_state' = dev_state \/ \E x \in 0..MaxStarts, s \in FeatureStates :
                                               dev_state' = [dev_state EXCEPT ![x] = s]
    PROVE  dev_state' \in Seq(FeatureStates) /\ Len(dev_state') = Len(dev_state)
  <1>1. PICK l \in Seq(FeatureStates) : l = dev_state
    BY CultivationKnown
  <1>2. PICK d : d = dev_state'
    OBVIOUS
  <1> QED BY <1>1, <1>2, ElementChanges, StartsAssumption

\* A sequence that is appended to.
LEMMA Appended ==
    ASSUME NEW S, NEW l \in Seq(S), NEW x \in S, NEW m, m = Append(l, x)
    PROVE  /\ m \in Seq(S) /\ Len(l) \in Nat /\ Len(m) = Len(l) + 1 /\ m[Len(l) + 1] = x
           /\ \A i \in 1..Len(l) : m[i] = l[i]
  BY AppendProperties, LenProperties

\* A task that goes on keeps the invariant, if it does not overtake.
LEMMA TaskMoves ==
    ASSUME UInv, NEW i \in Starts, task[i] # "none",
           NEW where \in TaskStates \ {"none", "new"},
           where = "waiting" => task[i] = "new",
           \A j \in 1..i - 1 : task[j] # "new",
           where # "waiting" => \A j \in 1..i - 1 : task[j] # "waiting",
           task' = [task EXCEPT ![i] = where],
           uses' \in [Starts -> 0..MaxStarts],
           dev_state' \in Seq(FeatureStates), Len(dev_state') = Len(dev_state),
           UNCHANGED listVars
    PROVE  UInv'
  <1>1. UNCHANGED <<requires, list, next, step, started, latest, feature>>
    BY DEF listVars
  <1>2. task \in [Starts -> TaskStates] /\ MaxStarts \in Nat
    BY CultivationKnown
  <1>3. /\ \A j \in Starts : j # i => task'[j] = task[j]
        /\ task'[i] = where
        /\ \A j \in Starts : task'[j] = "none" <=> task[j] = "none"
    BY <1>2
  <1>4. CultivationTypeOK'
    <2>1. task' \in [Starts -> TaskStates]
      BY <1>2
    <2> QED BY <1>1, <2>1 DEF UInv, CultivationTypeOK
  <1>5. \A k \in 1..Len(feature) : k \in Starts /\ k \in Nat
    BY CultivationKnown
  <1>6. RequiredEarlier'
    <2>0. requires' = requires /\ feature' = feature
      BY <1>1
    <2>1. ASSUME NEW k \in 1..Len(feature)', NEW f \in (requires[feature[k]])'
          PROVE  (\E j \in 1..k - 1 : feature[j] = f /\ task[j] # "none")'
      <3>0. k \in 1..Len(feature) /\ f \in requires[feature[k]]
        BY <2>0, <2>1
      <3>1. PICK j \in 1..k - 1 : feature[j] = f /\ task[j] # "none"
        BY <3>0 DEF UInv, RequiredEarlier
      <3>2. j \in Starts
        BY <1>2, <1>5, <3>0, <3>1 DEF Starts
      <3> QED BY <1>3, <2>0, <3>1, <3>2
    <2> QED BY <2>1 DEF RequiredEarlier
  <1>7. StartedHaveTasks'
    <2>1. ASSUME NEW k \in 1..Len(started)
          PROVE  \E j \in 1..Len(feature) : feature[j] = started[k] /\ task'[j] # "none"
      <3>1. PICK j \in 1..Len(feature) : feature[j] = started[k] /\ task[j] # "none"
        BY <2>1 DEF UInv, StartedHaveTasks
      <3> QED BY <1>3, <1>5, <3>1
    <2> QED BY <1>1, <2>1 DEF StartedHaveTasks
  <1>8. InTurn'
    <2>1. ASSUME NEW k \in Starts, NEW j \in 1..k - 1
          PROVE  /\ task'[k] \notin {"none", "new"} => task'[j] # "new"
                 /\ task'[k] \in Past => task'[j] # "waiting"
      <3>1. j \in Starts /\ j # k
        BY <1>2, <2>1 DEF Starts
      <3>2. /\ task[k] \notin {"none", "new"} => task[j] # "new"
            /\ task[k] \in Past => task[j] # "waiting"
        BY <2>1 DEF UInv, InTurn
      <3>3. CASE k = i
        BY <1>3, <2>1, <3>1, <3>3 DEF Past, Holding
      <3>4. CASE k # i /\ j = i
        <4>1. task'[k] = task[k] /\ task'[j] = where
          BY <1>3, <3>4
        <4> QED BY <3>2, <3>4, <4>1 DEF Past, Holding
      <3>5. CASE k # i /\ j # i
        BY <1>3, <3>1, <3>2, <3>5
      <3> QED BY <3>3, <3>4, <3>5
    <2> QED BY <2>1 DEF InTurn
  <1>9. ContextsFirst'
    <2>1. step = "planned" => Len(feature) \in Starts
      BY <1>5, CultivationKnown DEF UInv, ContextsFirst
    <2> QED BY <1>1, <1>3, <2>1 DEF UInv, ContextsFirst
  <1> QED BY <1>4, <1>6, <1>7, <1>8, <1>9 DEF UInv

\* A task that is past its turn may go on as it likes.
LEMMA PastMoves ==
    ASSUME UInv, NEW i \in Starts, task[i] \in Past,
           NEW where \in Past, Waits(i, where),
           dev_state' = dev_state \/ \E x \in 0..MaxStarts, s \in FeatureStates :
                                         dev_state' = [dev_state EXCEPT ![x] = s],
           UNCHANGED listVars
    PROVE  UInv'
  <1>1. dev_state \in Seq(FeatureStates) /\ uses \in [Starts -> 0..MaxStarts]
    BY CultivationKnown
  <1>2. dev_state' \in Seq(FeatureStates) /\ Len(dev_state') = Len(dev_state)
    BY StatesStay
  <1>3. /\ task[i] # "none" /\ where \in TaskStates \ {"none", "new"} /\ where # "waiting"
        /\ \A j \in 1..i - 1 : task[j] # "new" /\ task[j] # "waiting"
    BY DEF Past, Holding, TaskStates, UInv, InTurn
  <1>4. task' = [task EXCEPT ![i] = where] /\ uses' \in [Starts -> 0..MaxStarts]
    BY <1>1 DEF Waits
  <1> QED BY <1>2, <1>3, <1>4, TaskMoves

\* Every step of a task keeps the invariant.
LEMMA TaskStepKeeps ==
    ASSUME UInv, NEW i \in Starts, TaskStep(i)
    PROVE  UInv'
  <1>0. /\ uses[i] \in 0..MaxStarts /\ uses \in [Starts -> 0..MaxStarts]
        /\ \A f \in Features : latest[f] \in 0..MaxStarts
        /\ dev_state \in Seq(FeatureStates)
    BY CultivationKnown DEF UInv, CultivationTypeOK
  <1>1. task[i] # "none" => feature[i] \in Features
    BY CultivationKnown DEF UInv, ContextsFirst, Starts
  <1>2. CASE TaskBegins(i)
    <2>1. /\ task[i] = "new" /\ \A j \in Starts : task[j] = "new" => i <= j
          /\ task' = [task EXCEPT ![i] = "waiting"] /\ UNCHANGED listVars
          /\ uses' = [uses EXCEPT ![i] = latest[feature[i]]] /\ dev_state' = dev_state
      BY <1>2 DEF TaskBegins, FirstOf
    <2>2. latest[feature[i]] \in 0..MaxStarts
      BY <1>0, <1>1, <2>1
    <2>3. uses' \in [Starts -> 0..MaxStarts]
      BY <1>0, <2>1, <2>2
    <2>4. \A j \in 1..i - 1 : task[j] # "new"
      BY <2>1, CultivationKnown DEF Starts
    <2>5. "waiting" \in TaskStates \ {"none", "new"} /\ Len(dev_state') = Len(dev_state)
      BY <2>1 DEF TaskStates
    <2> QED BY <1>0, <2>1, <2>3, <2>4, <2>5, TaskMoves
  <1>3. CASE Acquire(i)
    <2>1. /\ task[i] = "waiting" /\ \A j \in Starts : task[j] = "waiting" => i <= j
          /\ task' = [task EXCEPT ![i] = "elaborate"] /\ uses' = uses
          /\ UNCHANGED listVars /\ dev_state' = [dev_state EXCEPT ![uses[i]] = "ELABORATION"]
      BY <1>3 DEF Acquire, FirstOf, Waits, Enters
    <2>2. \A j \in 1..i - 1 : task[j] # "new" /\ task[j] # "waiting"
      BY <2>1, CultivationKnown DEF Starts, UInv, InTurn
    <2>3. dev_state' \in Seq(FeatureStates) /\ Len(dev_state') = Len(dev_state)
      <3>1. "ELABORATION" \in FeatureStates
        BY DEF FeatureStates
      <3>2. PICK u \in 0..MaxStarts : u = uses[i]
        BY <1>0
      <3>3. dev_state' = [dev_state EXCEPT ![u] = "ELABORATION"]
        BY <2>1, <3>2
      <3> QED BY <3>1, <3>3, StatesStay
    <2>4. "elaborate" \in TaskStates \ {"none", "new"} /\ "elaborate" # "waiting"
      BY DEF TaskStates, Holding
    <2> QED BY <1>0, <2>1, <2>2, <2>3, <2>4, TaskMoves
  <1>4. CASE ~(TaskBegins(i) \/ Acquire(i))
    <2>1. /\ task[i] \in Past /\ UNCHANGED listVars
          /\ \E where \in Past : Waits(i, where)
      BY <1>4
      DEF TaskStep, Elaborated, Specified, TestsWritten, FeatureImplemented, FeatureTested,
          FeatureIntegrated, FeatureFails, FailureTold, DevelopmentRaises, Handled, HandlerRaises,
          Past, Holding
    <2>2. task[i] # "none"
      BY <2>1 DEF Past, Holding
    <2>3. latest[feature[i]] \in 0..MaxStarts
      BY <1>0, <1>1, <2>2
    <2>4. dev_state' = dev_state \/ \E x \in 0..MaxStarts, s \in FeatureStates :
                                        dev_state' = [dev_state EXCEPT ![x] = s]
      BY <1>0, <1>4, <2>3
      DEF TaskStep, Elaborated, Specified, TestsWritten, FeatureImplemented, FeatureTested,
          FeatureIntegrated, FeatureFails, FailureTold, DevelopmentRaises, Handled, HandlerRaises,
          Enters, FeatureStates
    <2> QED BY <2>1, <2>4, PastMoves
  <1> QED BY <1>2, <1>3, <1>4

\* What changes neither tasks nor contexts keeps the invariant, if nothing more
\* was started.
LEMMA ListKeeps ==
    ASSUME UInv, UNCHANGED <<requires, latest, feature>>, UNCHANGED taskVars,
           list' \in Seq(Features), next' \in 0..Len(list') + 1,
           step' = step \/ step' = "ready", step' = "planned" => UNCHANGED <<list, next>>,
           started' = started \/ started' = << >>
    PROVE  UInv'
  <1>1. UNCHANGED <<dev_state, task, uses>>
    BY DEF taskVars
  <1>2. Len(<< >>) = 0 /\ << >> \in Seq(Features)
    BY EmptySeq
  <1>3. CultivationTypeOK'
    <2>1. started' \in Seq(Features) /\ step' \in {"ready", "planned"}
      BY <1>2 DEF UInv, CultivationTypeOK
    <2> QED BY <1>1, <2>1 DEF UInv, CultivationTypeOK
  <1>4. StartedHaveTasks'
    <2>1. CASE started' = started
      BY <1>1, <2>1 DEF UInv, StartedHaveTasks
    <2>2. CASE started' = << >>
      BY <1>2, <2>2 DEF StartedHaveTasks
    <2> QED BY <2>1, <2>2
  <1>5. RequiredEarlier' /\ InTurn' /\ ContextsFirst'
    BY <1>1 DEF UInv, RequiredEarlier, InTurn, ContextsFirst
  <1> QED BY <1>3, <1>4, <1>5 DEF UInv

\* A context of a feature whose dependencies were started keeps the invariant.
LEMMA NewContextKeeps ==
    ASSUME UInv, NewContext
    PROVE  UInv'
  <1>1. PICK f \in Features : f = list[next]
    BY CultivationKnown, LenProperties DEF NewContext
  <1>2. PICK n \in Nat : n = Len(feature) /\ n < MaxStarts
    BY CultivationKnown DEF NewContext
  <1>3. PICK l \in Seq(Features) :
           /\ l = Append(feature, f) /\ Len(l) = n + 1 /\ l[n + 1] = f
           /\ \A i \in 1..n : l[i] = feature[i]
    <2>1. PICK l0 \in Seq(Features) : l0 = feature
      BY CultivationKnown
    <2>2. PICK l : l = Append(l0, f)
      OBVIOUS
    <2>3. /\ l \in Seq(Features) /\ Len(l) = Len(l0) + 1 /\ l[Len(l0) + 1] = f
          /\ \A i \in 1..Len(l0) : l[i] = l0[i]
      BY <2>2, Appended
    <2> QED BY <1>2, <2>1, <2>2, <2>3, Zenon
  <1>4. PICK d \in Seq(FeatureStates) : d = Append(dev_state, "PLANNING") /\ Len(d) = n + 1
    <2>1. PICK s \in FeatureStates : s = "PLANNING"
      BY DEF FeatureStates
    <2>2. PICK l0 \in Seq(FeatureStates) : l0 = dev_state /\ Len(l0) = n
      BY <1>2, CultivationKnown
    <2>3. PICK d : d = Append(l0, s)
      OBVIOUS
    <2>4. d \in Seq(FeatureStates) /\ Len(d) = Len(l0) + 1
      BY <2>3, Appended
    <2> QED BY <2>1, <2>2, <2>3, <2>4, Zenon
  <1>5. /\ feature' = l /\ dev_state' = d /\ latest' = [latest EXCEPT ![f] = n + 1]
        /\ requires[f] \subseteq Range(started)
    BY <1>1, <1>2, <1>3, <1>4, Zenon DEF NewContext, MayStart
  <1>6. /\ step = "ready" /\ step' = "planned" /\ next \in 1..Len(list)
        /\ UNCHANGED <<requires, list, next, started, task, uses>>
    BY DEF NewContext
  <1> HIDE DEF NewContext
  <1>7. MaxStarts \in Nat /\ task \in [Starts -> TaskStates]
    BY CultivationKnown
  <1>8. CultivationTypeOK'
    <2>1. latest' \in [Features -> 0..MaxStarts]
      BY <1>2, <1>5, <1>7 DEF UInv, CultivationTypeOK
    <2> QED BY <1>3, <1>4, <1>5, <1>6, <2>1 DEF UInv, CultivationTypeOK
  <1>9. StartedHaveTasks'
    <2>1. ASSUME NEW k \in 1..Len(started)
          PROVE  \E j \in 1..n + 1 : l[j] = started[k] /\ task[j] # "none"
      <3>1. PICK j \in 1..n : feature[j] = started[k] /\ task[j] # "none"
        BY <1>2, <2>1 DEF UInv, StartedHaveTasks
      <3>2. l[j] = feature[j] /\ j \in 1..n + 1
        BY <1>2, <1>3, <3>1
      <3> QED BY <3>1, <3>2
    <2> QED BY <1>3, <1>5, <1>6, <2>1 DEF StartedHaveTasks
  <1>10. RequiredEarlier'
    <2>0. requires' = requires /\ feature' = l /\ task' = task /\ Len(l) = n + 1
      BY <1>3, <1>5, <1>6, Zenon
    <2>1. ASSUME NEW i \in 1..Len(feature)', NEW g \in (requires[feature[i]])'
          PROVE  (\E j \in 1..i - 1 : feature[j] = g /\ task[j] # "none")'
      <3>0. i \in 1..n + 1 /\ g \in requires[l[i]]
        BY <2>0, <2>1, Zenon
      <3>1. CASE i = n + 1
        <4>1. g \in Range(started)
          BY <1>3, <1>5, <3>0, <3>1
        <4>2. PICK k \in 1..Len(started) : started[k] = g
          BY <4>1, CultivationKnown, LenProperties DEF Range
        <4>3. PICK j \in 1..n : feature[j] = g /\ task[j] # "none"
          BY <1>2, <4>2 DEF UInv, StartedHaveTasks
        <4>4. j \in 1..i - 1 /\ l[j] = g
          BY <1>2, <1>3, <3>1, <4>3
        <4> QED BY <2>0, <4>3, <4>4
      <3>2. CASE i \in 1..n
        <4>1. l[i] = feature[i]
          BY <1>3, <3>2
        <4>2. PICK j \in 1..i - 1 : feature[j] = g /\ task[j] # "none"
          BY <1>2, <3>0, <3>2, <4>1 DEF UInv, RequiredEarlier
        <4>3. l[j] = feature[j]
          BY <1>2, <1>3, <3>2, <4>2
        <4> QED BY <2>0, <4>2, <4>3
      <3> QED BY <1>2, <3>0, <3>1, <3>2
    <2> QED BY <2>1 DEF RequiredEarlier
  <1>11. InTurn'
    BY <1>6 DEF UInv, InTurn
  <1>12. ContextsFirst'
    <2>1. \A i \in Starts : task[i] # "none" => i <= n
      BY <1>2 DEF UInv, ContextsFirst
    <2>2. n + 1 \in Starts
      BY <1>2, <1>7 DEF Starts
    <2>3. task[n + 1] = "none"
      <3>1. ~(n + 1 <= n)
        BY <1>2
      <3> QED BY <2>1, <2>2, <3>1
    <2>4. \A i \in Starts : task[i] # "none" => i <= n + 1
      BY <1>2, <1>7, <2>1 DEF Starts
    <2>5. n + 1 <= MaxStarts /\ n + 1 # 0
      BY <1>2, <1>7
    <2> QED BY <1>1, <1>3, <1>5, <1>6, <2>3, <2>4, <2>5 DEF ContextsFirst
  <1> QED BY <1>8, <1>9, <1>10, <1>11, <1>12 DEF UInv

\* The task that the context gets keeps the invariant.
LEMMA StartTaskKeeps ==
    ASSUME UInv, StartTask
    PROVE  UInv'
  <1>1. PICK n \in Nat : n = Len(feature) /\ n # 0 /\ n <= MaxStarts
    BY CultivationKnown DEF StartTask, UInv, ContextsFirst
  <1>2. /\ task[n] = "none" /\ next \in 1..Len(list) /\ feature[n] = list[next]
    BY <1>1 DEF StartTask, UInv, ContextsFirst
  <1>3. n \in Starts /\ task \in [Starts -> TaskStates] /\ MaxStarts \in Nat
    BY <1>1, CultivationKnown DEF Starts
  <1>4. PICK f \in Features : f = list[next]
    BY <1>2, CultivationKnown, LenProperties
  <1>5. PICK s \in Seq(Features) :
           /\ s = Append(started, f) /\ Len(s) = Len(started) + 1 /\ s[Len(started) + 1] = f
           /\ \A k \in 1..Len(started) : s[k] = started[k]
    <2>1. PICK l0 \in Seq(Features) : l0 = started
      BY CultivationKnown
    <2>2. PICK l : l = Append(l0, f)
      OBVIOUS
    <2>3. /\ l \in Seq(Features) /\ Len(l) = Len(l0) + 1 /\ l[Len(l0) + 1] = f
          /\ \A i \in 1..Len(l0) : l[i] = l0[i]
      BY <2>2, Appended
    <2> QED BY <2>1, <2>2, <2>3, Zenon
  <1>6. started' = s
    BY <1>4, <1>5, Zenon DEF StartTask
  <1>7. /\ step' = "ready" /\ task' = [task EXCEPT ![n] = "new"] /\ next' = next + 1
        /\ UNCHANGED <<requires, list, latest, feature, dev_state, uses>>
    BY <1>1 DEF StartTask
  <1> HIDE DEF StartTask
  <1>8. /\ \A j \in Starts : j # n => task'[j] = task[j]
        /\ task'[n] = "new"
    BY <1>3, <1>7
  <1>9. CultivationTypeOK'
    <2>1. next' \in 0..Len(list) + 1
      BY <1>2, <1>7, CultivationKnown
    <2>2. task' \in [Starts -> TaskStates]
      BY <1>3, <1>7 DEF TaskStates
    <2> QED BY <1>6, <1>7, <2>1, <2>2 DEF UInv, CultivationTypeOK
  <1>10. ASSUME NEW j \in Starts, task[j] # "none"
         PROVE  task'[j] # "none"
    BY <1>8, <1>10
  <1>11. RequiredEarlier'
    <2>1. ASSUME NEW i \in 1..n, NEW g \in requires[feature[i]]
          PROVE  \E j \in 1..i - 1 : feature[j] = g /\ task'[j] # "none"
      <3>1. PICK j \in 1..i - 1 : feature[j] = g /\ task[j] # "none"
        BY <1>1, <2>1 DEF UInv, RequiredEarlier
      <3>2. j \in Starts
        BY <1>1, <1>3, <2>1, <3>1 DEF Starts
      <3> QED BY <1>10, <3>1, <3>2
    <2> QED BY <1>1, <1>7, <2>1 DEF RequiredEarlier
  <1>12. StartedHaveTasks'
    <2>1. ASSUME NEW k \in 1..Len(started) + 1
          PROVE  \E j \in 1..n : feature[j] = s[k] /\ task'[j] # "none"
      <3>1. CASE k = Len(started) + 1
        <4>1. s[k] = feature[n] /\ task'[n] # "none" /\ n \in 1..n
          BY <1>1, <1>2, <1>4, <1>5, <1>8, <3>1
        <4> QED BY <4>1
      <3>2. CASE k \in 1..Len(started)
        <4>1. PICK j \in 1..n : feature[j] = started[k] /\ task[j] # "none"
          BY <1>1, <3>2 DEF UInv, StartedHaveTasks
        <4>2. j \in Starts /\ s[k] = started[k]
          BY <1>1, <1>3, <1>5, <3>2, <4>1 DEF Starts
        <4> QED BY <1>10, <4>1, <4>2
      <3>3. Len(started) \in Nat
        BY CultivationKnown
      <3>4. k = Len(started) + 1 \/ k \in 1..Len(started)
        BY <2>1, <3>3
      <3> QED BY <3>1, <3>2, <3>4
    <2> QED BY <1>1, <1>5, <1>6, <1>7, <2>1 DEF StartedHaveTasks
  <1>13. \A i \in Starts : task[i] # "none" => i < n
    <2> TAKE i \in Starts
    <2>1. task[i] # "none" => i <= n
      BY <1>1 DEF UInv, ContextsFirst
    <2> QED BY <1>1, <1>2, <1>3, <2>1 DEF Starts
  <1>14. InTurn'
    <2>1. ASSUME NEW k \in Starts, NEW j \in 1..k - 1
          PROVE  /\ task'[k] \notin {"none", "new"} => task'[j] # "new"
                 /\ task'[k] \in Past => task'[j] # "waiting"
      <3>1. j \in Starts /\ j # k /\ j < k
        BY <1>3, <2>1 DEF Starts
      <3>2. CASE k = n
        BY <1>8, <3>2 DEF Past, Holding
      <3>3. CASE k # n
        <4>1. task'[k] = task[k]
          BY <1>8, <3>3
        <4>2. task[k] # "none" => j # n
          BY <1>1, <1>3, <1>13, <3>1 DEF Starts
        <4>3. j # n => task'[j] = task[j]
          BY <1>8, <3>1
        <4>4. /\ task[k] \notin {"none", "new"} => task[j] # "new"
              /\ task[k] \in Past => task[j] # "waiting"
          BY <2>1 DEF UInv, InTurn
        <4>5. "none" \notin Past
          BY DEF Past, Holding
        <4> QED BY <4>1, <4>2, <4>3, <4>4, <4>5
      <3> QED BY <3>2, <3>3
    <2> QED BY <2>1 DEF InTurn
  <1>15. ContextsFirst'
    <2>1. \A i \in Starts : task'[i] # "none" => i <= n
      BY <1>1, <1>3, <1>8, <1>13 DEF Starts
    <2> QED BY <1>1, <1>7, <2>1 DEF ContextsFirst
  <1> QED BY <1>9, <1>11, <1>12, <1>14, <1>15 DEF UInv

\* Every step keeps the invariant.
LEMMA CultivationKept ==
    ASSUME UInv, [CultivationNext]_cultivationVars
    PROVE  UInv'
  <1>0. list \in Seq(Features) /\ next \in 0..Len(list) + 1 /\ Len(list) \in Nat
    BY CultivationKnown DEF UInv, CultivationTypeOK
  <1>1. CASE UNCHANGED cultivationVars
    BY <1>0, <1>1, ListKeeps DEF cultivationVars, taskVars
  <1>2. ASSUME NEW l \in SeqOf(Features, MaxList), Cultivate(l)
        PROVE  UInv'
    <2>1. l \in Seq(Features)
      <3>1. PICK m \in 0..MaxList : l \in [1..m -> Features]
        BY <1>2 DEF SeqOf
      <3>2. m \in Nat
        BY <3>1, StartsAssumption
      <3> QED BY <3>1, <3>2, SeqDef
    <2>2. Len(l) \in Nat
      BY <2>1, LenProperties
    <2>3. list' = l /\ next' = 1 /\ next = 0 /\ UNCHANGED <<requires, step, started, latest, feature>>
          /\ UNCHANGED taskVars
      BY <1>2 DEF Cultivate
    <2>4. step = "ready"
      BY <2>3, <1>0 DEF UInv, ContextsFirst, CultivationTypeOK
    <2>5. next' \in 0..Len(list') + 1
      BY <2>2, <2>3
    <2> QED BY <2>1, <2>3, <2>4, <2>5, ListKeeps
  <1>3. CASE SkipFeature
    <2>1. /\ step = "ready" /\ next \in 1..Len(list) /\ next' = next + 1 /\ UNCHANGED taskVars
          /\ UNCHANGED <<requires, list, step, started, latest, feature>>
      BY <1>3 DEF SkipFeature
    <2>2. next' \in 0..Len(list') + 1
      BY <1>0, <2>1
    <2> QED BY <1>0, <2>1, <2>2, ListKeeps
  <1>4. CASE CultivationEnds \/ CultivationRaises
    <2>1. /\ next' = 0 /\ step' = "ready" /\ list' = << >> /\ started' = << >>
          /\ UNCHANGED <<requires, latest, feature>> /\ UNCHANGED taskVars
      BY <1>4 DEF CultivationEnds, CultivationRaises, CultivationOver
    <2>2. list' \in Seq(Features) /\ next' \in 0..Len(list') + 1
      BY <2>1, EmptySeq
    <2> QED BY <2>1, <2>2, ListKeeps
  <1> QED
    BY <1>1, <1>2, <1>3, <1>4, NewContextKeeps, StartTaskKeeps, TaskStepKeeps DEF CultivationNext

\* Cultivations begin as the invariant says.
LEMMA CultivationBegins ==
    ASSUME CultivationInit
    PROVE  UInv
  <1>1. /\ Len(<< >>) = 0 /\ << >> \in Seq(Features) /\ << >> \in Seq(FeatureStates)
        /\ MaxStarts \in Nat
    BY EmptySeq, StartsAssumption
  <1>2. CultivationTypeOK
    BY <1>1 DEF CultivationInit, CultivationTypeOK, TaskStates
  <1>3. RequiredEarlier /\ StartedHaveTasks /\ InTurn /\ ContextsFirst
    BY <1>1 DEF CultivationInit, RequiredEarlier, StartedHaveTasks, InTurn, ContextsFirst, Past,
                Holding, Starts
  <1> QED BY <1>2, <1>3 DEF UInv

-----------------------------------------------------------------------------
(* Phases and their executions (PhaseCoordinator) *)

\* What the state of a phase may be while its only execution, which nobody
\* disturbs, is at a place.
Fits(s, place) ==
    /\ place \in {"prepare", "check", "enter"} => s \in {"NONE", "READY"}
    /\ place \in {"told", "work"} => s = "RUNNING"
    /\ place \in {"completing", "closing", "success"} => s = "COMPLETED"
    /\ place = "failing" => s = "FAILED"
    /\ place \in {"error", "raised"} => s \in {"NONE", "READY", "FAILED"}

\* Where an execution stands that has its phase among the active ones.
Active == {"work", "completing", "failing"}

HeldActive ==
    \A p \in active : p \in unrecorded \/ \E e \in Executions : phase(e) = p /\ execution[e].at \in Active

OfAPhase == \A e \in Executions : ~At(e, "idle") => phase(e) \in Phases

OneEach ==
    \A d, e \in Executions :
        ~At(d, "idle") /\ ~At(e, "idle") /\ phase(d) = phase(e) /\ phase(e) \notin disturbed => d = e

NotBegun ==
    \A p \in Phases \ disturbed :
        (\A e \in Executions : phase(e) = p => At(e, "idle")) => phase_state[p] \in {"NONE", "READY"}

Fitting ==
    \A e \in Executions :
        ~At(e, "idle") /\ phase(e) \notin disturbed => Fits(phase_state[phase(e)], execution[e].at)

PInv == /\ PhaseTypeOK /\ HeldActive /\ OfAPhase /\ OneEach /\ NotBegun /\ Fitting

\* The invariant says what the run checks.
LEMMA PhasesRight ==
    ASSUME PInv
    PROVE  PhasesToldRight
  <1>1. ActiveAreExecuted
    BY DEF PInv, HeldActive, ActiveAreExecuted, Executing, Over, Active, Outcomes
  <1>2. StateTellsOutcome
    BY DEF PInv, Fitting, StateTellsOutcome, Over, Outcomes, Fits, At, OfAPhase
  <1> QED BY <1>1, <1>2 DEF PhasesToldRight

\* The record of an execution that moves.
LEMMA Moving ==
    ASSUME PInv, NEW e \in Executions, NEW place \in Places,
           execution' = [execution EXCEPT ![e].at = place]
    PROVE  /\ execution' \in [Executions -> [phase : Phases \cup {NoPhase}, at : Places]]
           /\ \A d \in Executions : execution'[d].phase = execution[d].phase
           /\ execution'[e].at = place
           /\ \A d \in Executions \ {e} : execution'[d].at = execution[d].at
  BY DEF PInv, PhaseTypeOK

\* A step of an execution keeps the invariant, if it leaves its phase in a state
\* that fits and among the active ones only where it may be.
LEMMA ExecutionMoves ==
    ASSUME PInv, NEW e \in Executions, ~At(e, "idle"), NEW p \in Phases, p = phase(e),
           NEW place \in Places \ {"idle"}, NEW s \in PhaseStates,
           execution' = [execution EXCEPT ![e].at = place],
           phase_state' = [phase_state EXCEPT ![p] = s],
           p \notin disturbed => Fits(s, place),
           active' \subseteq active \cup {p},
           p \in active' => p \in active \/ place \in Active,
           execution[e].at \in Active /\ p \in active' => place \in Active \/ p \in unrecorded',
           unrecorded' = unrecorded \/ unrecorded' = unrecorded \cup {p},
           nested' \in [Executions -> Statuses], UNCHANGED treeVars
    PROVE  PInv'
  <1>1. /\ execution' \in [Executions -> [phase : Phases \cup {NoPhase}, at : Places]]
        /\ \A d \in Executions : execution'[d].phase = execution[d].phase
        /\ execution'[e].at = place
        /\ \A d \in Executions \ {e} : execution'[d].at = execution[d].at
    BY Moving
  <1>2. /\ phase_state \in [Phases -> PhaseStates] /\ active \subseteq Phases
        /\ unrecorded \subseteq Phases
    BY DEF PInv, PhaseTypeOK
  <1>3. \A d \in Executions : phase(d)' = phase(d) /\ (At(d, "idle")' <=> At(d, "idle"))
    BY <1>1 DEF phase, At
  <1>4. PhaseTypeOK'
    BY <1>1, <1>2 DEF PInv, PhaseTypeOK, treeVars
  <1>5. HeldActive'
    <2>1. ASSUME NEW q \in active', q \notin unrecorded'
          PROVE  \E d \in Executions : phase(d)' = q /\ execution'[d].at \in Active
      <3>1. CASE q = p /\ place \in Active
        BY <1>1, <1>3, <3>1
      <3>2. CASE ~(q = p /\ place \in Active)
        <4>1. q \in active /\ q \notin unrecorded
          BY <2>1, <3>2
        <4>2. PICK d \in Executions : phase(d) = q /\ execution[d].at \in Active
          BY <4>1 DEF PInv, HeldActive
        <4>3. d # e
          BY <2>1, <3>2, <4>2
        <4> QED BY <1>1, <1>3, <4>2, <4>3
      <3> QED BY <3>1, <3>2
    <2> QED BY <2>1 DEF HeldActive
  <1>6. OfAPhase' /\ OneEach'
    BY <1>3 DEF PInv, OfAPhase, OneEach, treeVars
  <1>7. NotBegun'
    <2>1. ASSUME NEW q \in Phases \ disturbed, \A d \in Executions : phase(d) = q => At(d, "idle")
          PROVE  phase_state'[q] \in {"NONE", "READY"}
      <3>1. q # p
        BY <2>1
      <3>2. phase_state[q] \in {"NONE", "READY"}
        BY <2>1 DEF PInv, NotBegun
      <3> QED BY <1>2, <3>1, <3>2
    <2> QED BY <1>3, <2>1 DEF NotBegun, treeVars
  <1>8. Fitting'
    <2>1. ASSUME NEW d \in Executions, ~At(d, "idle"), phase(d) \notin disturbed
          PROVE  Fits(phase_state'[phase(d)], execution'[d].at)
      <3>1. CASE d = e
        BY <1>1, <1>2, <2>1, <3>1
      <3>2. CASE d # e
        <4>1. phase(d) # p
          BY <2>1, <3>2 DEF PInv, OneEach
        <4>2. Fits(phase_state[phase(d)], execution[d].at)
          BY <2>1 DEF PInv, Fitting
        <4>3. phase_state'[phase(d)] = phase_state[phase(d)]
          BY <1>2, <2>1, <4>1 DEF PInv, OfAPhase
        <4>4. execution'[d].at = execution[d].at
          BY <1>1, <3>2
        <4> QED BY <4>2, <4>3, <4>4
      <3> QED BY <3>1, <3>2
    <2>2. disturbed' = disturbed
      BY DEF treeVars
    <2> QED BY <1>3, <2>1, <2>2 DEF Fitting
  <1> QED BY <1>4, <1>5, <1>6, <1>7, <1>8 DEF PInv

\* What is known of an execution that is at work.
LEMMA ExecutionKnown ==
    ASSUME PInv, NEW e \in Executions, ~At(e, "idle")
    PROVE  /\ phase(e) \in Phases /\ phase_state[phase(e)] \in PhaseStates
           /\ phase_state = [phase_state EXCEPT ![phase(e)] = phase_state[phase(e)]]
           /\ phase(e) \notin disturbed => Fits(phase_state[phase(e)], execution[e].at)
           /\ nested \in [Executions -> Statuses]
  BY DEF PInv, PhaseTypeOK, OfAPhase, Fitting

\* The end of an execution leaves the record of its nesting a record.
LEMMA EndsKnown ==
    ASSUME PInv, NEW e \in Executions, NEW how, Ends(e, how)
    PROVE  /\ execution' = [execution EXCEPT ![e].at = how]
           /\ nested' \in [Executions -> Statuses] /\ UNCHANGED treeVars
  <1>1. nested \in [Executions -> Statuses]
    BY DEF PInv, PhaseTypeOK
  <1>2. CASE nested[e] = "none"
    BY <1>1, <1>2 DEF Ends, Moves
  <1>3. CASE nested[e] # "none"
    <2>1. PICK s \in RecordAfter(how) : nested' = [nested EXCEPT ![e] = s]
      BY <1>3 DEF Ends
    <2>2. s \in Statuses
      BY DEF RecordAfter, Statuses
    <2> QED BY <1>1, <2>1, <2>2 DEF Ends, Moves
  <1> QED BY <1>2, <1>3

\* Every step of an execution keeps the invariant.
LEMMA ExecutionStepKeeps ==
    ASSUME PInv, NEW e \in Executions, ExecutionStep(e)
    PROVE  PInv'
  <1>1. ~At(e, "idle")
    BY DEF ExecutionStep, Prepared, PreparationRaises, DependenciesMet, Refused, Entered, Activated,
           Worked, PhaseCompleted, Succeeds, Raises, Failed, FailureRaises, At
  <1>2. PICK p \in Phases : p = phase(e)
    BY <1>1, ExecutionKnown
  <1>3. PICK s \in PhaseStates : s = phase_state[p]
    BY <1>1, <1>2, ExecutionKnown
  <1>4. /\ phase_state = [phase_state EXCEPT ![p] = s] /\ nested \in [Executions -> Statuses]
        /\ p \notin disturbed => Fits(s, execution[e].at)
    BY <1>1, <1>2, <1>3, ExecutionKnown
  <1>5. CASE Prepared(e) \/ PreparationRaises(e) \/ DependenciesMet(e)
    <2>1. PICK place \in {"check", "raised", "enter"} : execution' = [execution EXCEPT ![e].at = place]
      BY <1>5 DEF Prepared, PreparationRaises, DependenciesMet, Moves
    <2>2. UNCHANGED <<phase_state, active, nested, unrecorded>> /\ UNCHANGED treeVars
      BY <1>5 DEF Prepared, PreparationRaises, DependenciesMet
    <2>3. execution[e].at \in {"prepare", "check"}
      BY <1>5 DEF Prepared, PreparationRaises, DependenciesMet, At
    <2>4. p \notin disturbed => Fits(s, place)
      BY <1>4, <2>1, <2>3 DEF Fits
    <2>5. place \in Places \ {"idle"} /\ execution[e].at \notin Active
      BY <2>3 DEF Places, Outcomes, Active
    <2> QED BY <1>1, <1>2, <1>4, <2>1, <2>2, <2>4, <2>5, ExecutionMoves
  <1>6. CASE Refused(e) \/ Succeeds(e)
    <2>1. PICK place \in {"error", "success"} : Ends(e, place) /\ (place = "error" <=> At(e, "check"))
                                               /\ (place = "success" <=> At(e, "closing"))
      BY <1>6 DEF Refused, Succeeds, At
    <2>2. /\ execution' = [execution EXCEPT ![e].at = place]
          /\ nested' \in [Executions -> Statuses] /\ UNCHANGED treeVars
      BY <2>1, EndsKnown
    <2>3. UNCHANGED <<phase_state, active, unrecorded>>
      BY <1>6 DEF Refused, Succeeds
    <2>4. p \notin disturbed => Fits(s, place)
      BY <1>4, <2>1 DEF Fits, At
    <2>5. place \in Places \ {"idle"} /\ execution[e].at \notin Active
      BY <2>1 DEF Places, Outcomes, Active, At
    <2> QED BY <1>1, <1>2, <1>4, <2>2, <2>3, <2>4, <2>5, ExecutionMoves
  <1>7. CASE Entered(e)
    <2>1. /\ execution' = [execution EXCEPT ![e].at = "told"]
          /\ phase_state' = [phase_state EXCEPT ![p] = "RUNNING"] /\ At(e, "enter")
          /\ UNCHANGED <<active, nested, unrecorded>> /\ UNCHANGED treeVars
      BY <1>2, <1>7 DEF Entered, Moves, Becomes
    <2>2. /\ "told" \in Places \ {"idle"} /\ "RUNNING" \in PhaseStates
          /\ Fits("RUNNING", "told") /\ execution[e].at \notin Active
      BY <2>1 DEF Places, Outcomes, PhaseStates, Fits, Active, At
    <2> QED BY <1>1, <1>2, <1>4, <2>1, <2>2, ExecutionMoves
  <1>8. CASE Activated(e)
    <2>1. /\ execution' = [execution EXCEPT ![e].at = "work"] /\ At(e, "told")
          /\ active' = active \cup {p} /\ UNCHANGED <<phase_state, nested, unrecorded>>
          /\ UNCHANGED treeVars
      BY <1>2, <1>8 DEF Activated, Moves
    <2>2. "work" \in Places \ {"idle"} /\ "work" \in Active
      BY DEF Places, Outcomes, Active
    <2>3. p \notin disturbed => Fits(s, "work")
      BY <1>4, <2>1 DEF Fits, At
    <2> QED BY <1>1, <1>2, <1>4, <2>1, <2>2, <2>3, ExecutionMoves
  <1>9. CASE Worked(e)
    <2>1. /\ execution' = [execution EXCEPT ![e].at = "completing"]
          /\ phase_state' = [phase_state EXCEPT ![p] = "COMPLETED"]
          /\ UNCHANGED <<active, nested, unrecorded>> /\ UNCHANGED treeVars
      BY <1>2, <1>9 DEF Worked, Moves, Becomes
    <2>2. /\ "completing" \in Places \ {"idle"} /\ "COMPLETED" \in PhaseStates
          /\ Fits("COMPLETED", "completing") /\ "completing" \in Active
      BY DEF Places, Outcomes, PhaseStates, Fits, Active
    <2> QED BY <1>1, <1>2, <1>4, <2>1, <2>2, ExecutionMoves
  <1>10. CASE PhaseCompleted(e)
    <2>1. /\ execution' = [execution EXCEPT ![e].at = "closing"] /\ At(e, "completing")
          /\ active' = active \ {p} /\ UNCHANGED <<phase_state, nested, unrecorded>>
          /\ UNCHANGED treeVars
      BY <1>2, <1>10 DEF PhaseCompleted, Moves
    <2>2. "closing" \in Places \ {"idle"}
      BY DEF Places
    <2>3. p \notin disturbed => Fits(s, "closing")
      BY <1>4, <2>1 DEF Fits, At
    <2> QED BY <1>1, <1>2, <1>4, <2>1, <2>2, <2>3, ExecutionMoves
  <1>11. CASE Raises(e)
    <2>1. /\ execution' = [execution EXCEPT ![e].at = "failing"]
          /\ phase_state' = [phase_state EXCEPT ![p] = "FAILED"]
          /\ UNCHANGED <<active, nested, unrecorded>> /\ UNCHANGED treeVars
      BY <1>2, <1>11 DEF Raises, Moves, Becomes
    <2>2. /\ "failing" \in Places \ {"idle"} /\ "FAILED" \in PhaseStates
          /\ Fits("FAILED", "failing") /\ "failing" \in Active
      BY DEF Places, Outcomes, PhaseStates, Fits, Active
    <2> QED BY <1>1, <1>2, <1>4, <2>1, <2>2, ExecutionMoves
  <1>12. CASE Failed(e) \/ FailureRaises(e)
    <2>1. PICK place \in {"error", "raised"} : Ends(e, place)
      BY <1>12 DEF Failed, FailureRaises
    <2>2. /\ execution' = [execution EXCEPT ![e].at = place]
          /\ nested' \in [Executions -> Statuses] /\ UNCHANGED treeVars
      BY <2>1, EndsKnown
    <2>3. phase_state' = phase_state /\ At(e, "failing")
      BY <1>12 DEF Failed, FailureRaises
    <2>4. p \notin disturbed => Fits(s, place)
      BY <1>4, <2>1, <2>3 DEF Fits, At
    <2>5. place \in Places \ {"idle"}
      BY DEF Places, Outcomes
    <2>6. \/ active' = active \ {p} /\ unrecorded' = unrecorded
          \/ active' = active /\ unrecorded' = unrecorded \cup {p}
      BY <1>2, <1>12 DEF Failed, FailureRaises
    <2> QED BY <1>1, <1>2, <1>4, <2>2, <2>3, <2>4, <2>5, <2>6, ExecutionMoves
  <1> QED
    BY <1>5, <1>6, <1>7, <1>8, <1>9, <1>10, <1>11, <1>12 DEF ExecutionStep

\* An execution that is cancelled keeps the invariant, as its phase counts as
\* disturbed and unrecorded.
LEMMA CancelledKeeps ==
    ASSUME PInv, NEW e \in Executions, ExecutionCancelled(e)
    PROVE  PInv'
  <1>1. PICK p \in Phases : p = phase(e)
    BY DEF ExecutionCancelled, PInv, OfAPhase
  <1>2. /\ ~At(e, "idle") /\ execution' = [execution EXCEPT ![e].at = "raised"]
        /\ unrecorded' = unrecorded \cup {p} /\ disturbed' = disturbed \cup {p}
        /\ UNCHANGED <<after, phase_state, child_phases, active, aborting, checkpoint, nested,
                       orphaned, asks>>
    BY <1>1 DEF ExecutionCancelled, Moves
  <1>3. "raised" \in Places /\ "raised" # "idle"
    BY DEF Places, Outcomes
  <1>4. /\ execution' \in [Executions -> [phase : Phases \cup {NoPhase}, at : Places]]
        /\ \A d \in Executions : execution'[d].phase = execution[d].phase
        /\ execution'[e].at = "raised"
        /\ \A d \in Executions \ {e} : execution'[d].at = execution[d].at
    BY <1>2, <1>3, Moving
  <1>5. \A d \in Executions : phase(d)' = phase(d) /\ (At(d, "idle")' <=> At(d, "idle"))
    BY <1>2, <1>3, <1>4 DEF phase, At
  <1>6. PhaseTypeOK'
    BY <1>2, <1>4 DEF PInv, PhaseTypeOK
  <1>7. HeldActive'
    <2>1. ASSUME NEW q \in active, q \notin unrecorded'
          PROVE  \E d \in Executions : phase(d)' = q /\ execution'[d].at \in Active
      <3>1. PICK d \in Executions : phase(d) = q /\ execution[d].at \in Active
        BY <1>2, <2>1 DEF PInv, HeldActive
      <3>2. d # e
        BY <1>1, <1>2, <2>1, <3>1
      <3> QED BY <1>4, <1>5, <3>1, <3>2
    <2> QED BY <1>2, <2>1 DEF HeldActive
  <1>8. OfAPhase' /\ OneEach' /\ NotBegun'
    BY <1>2, <1>5 DEF PInv, OfAPhase, OneEach, NotBegun
  <1>9. Fitting'
    <2>1. ASSUME NEW d \in Executions, ~At(d, "idle"), phase(d) \notin disturbed'
          PROVE  Fits(phase_state[phase(d)], execution'[d].at)
      <3>1. d # e /\ phase(d) \notin disturbed
        BY <1>1, <1>2, <2>1
      <3> QED BY <1>4, <2>1, <3>1 DEF PInv, Fitting
    <2> QED BY <1>2, <1>5, <2>1 DEF Fitting
  <1> QED BY <1>6, <1>7, <1>8, <1>9 DEF PInv

\* A call that begins keeps the invariant: a second one disturbs the phase.
LEMMA BeginsKeeps ==
    ASSUME PInv, NEW e \in Executions, NEW p \in Phases, NEW place \in {"check", "prepare"},
           Begins(e, p, place), nested' \in [Executions -> Statuses]
    PROVE  PInv'
  <1>1. /\ At(e, "idle") /\ execution' = [execution EXCEPT ![e] = [phase |-> p, at |-> place]]
        /\ disturbed' = (IF \E d \in Executions : phase(d) = p THEN disturbed \cup {p} ELSE disturbed)
        /\ UNCHANGED <<after, phase_state, child_phases, active, aborting, checkpoint, orphaned,
                       asks, unrecorded>>
    BY DEF Begins
  <1>2. execution \in [Executions -> [phase : Phases \cup {NoPhase}, at : Places]]
    BY DEF PInv, PhaseTypeOK
  <1>3. /\ \A d \in Executions \ {e} : execution'[d] = execution[d]
        /\ execution'[e].phase = p /\ execution'[e].at = place
    BY <1>1, <1>2
  <1>4. PhaseTypeOK'
    <2>1. [phase |-> p, at |-> place] \in [phase : Phases \cup {NoPhase}, at : Places]
      BY DEF Places
    <2>2. execution' \in [Executions -> [phase : Phases \cup {NoPhase}, at : Places]]
      BY <1>1, <1>2, <2>1
    <2> QED BY <1>1, <2>2 DEF PInv, PhaseTypeOK
  <1>5. /\ \A d \in Executions \ {e} :
              phase(d)' = phase(d) /\ (At(d, "idle")' <=> At(d, "idle"))
        /\ phase(e)' = p /\ ~At(e, "idle")' /\ execution[e].at \notin Active
        /\ disturbed \subseteq disturbed'
    BY <1>1, <1>3 DEF phase, At, Active
  <1>6. HeldActive'
    <2>1. ASSUME NEW q \in active, q \notin unrecorded
          PROVE  \E d \in Executions : phase(d)' = q /\ execution'[d].at \in Active
      <3>1. PICK d \in Executions : phase(d) = q /\ execution[d].at \in Active
        BY <2>1 DEF PInv, HeldActive
      <3>2. d # e
        BY <1>5, <3>1
      <3> QED BY <1>3, <1>5, <3>1, <3>2
    <2> QED BY <1>1, <2>1 DEF HeldActive
  <1>7. OfAPhase'
    BY <1>5 DEF PInv, OfAPhase
  <1>8. p \notin disturbed' => \A d \in Executions : phase(d) # p
    BY <1>1
  <1>9. OneEach'
    <2>1. ASSUME NEW d \in Executions, NEW f \in Executions, ~At(d, "idle")', ~At(f, "idle")',
                 phase(d)' = phase(f)', phase(f)' \notin disturbed'
          PROVE  d = f
      BY <1>5, <1>8, <2>1 DEF PInv, OneEach
    <2> QED BY <2>1 DEF OneEach
  <1>10. NotBegun'
    <2>1. ASSUME NEW q \in Phases, q \notin disturbed',
                 \A d \in Executions : phase(d)' = q => At(d, "idle")'
          PROVE  phase_state[q] \in {"NONE", "READY"}
      <3>1. \A d \in Executions : phase(d) = q => At(d, "idle")
        BY <1>1, <1>5, <2>1
      <3>2. q \notin disturbed
        BY <1>5, <2>1
      <3> QED BY <3>1, <3>2 DEF PInv, NotBegun
    <2> QED BY <1>1, <2>1 DEF NotBegun
  <1>11. Fitting'
    <2>1. ASSUME NEW d \in Executions, ~At(d, "idle")', phase(d)' \notin disturbed'
          PROVE  Fits(phase_state[phase(d)'], execution'[d].at)
      <3>1. CASE d = e
        <4>1. phase(d)' = p /\ execution'[d].at = place
          BY <1>3, <1>5, <3>1
        <4>2. p \notin disturbed
          BY <1>5, <2>1, <4>1
        <4>3. phase_state[p] \in {"NONE", "READY"}
          BY <1>5, <1>8, <2>1, <4>1, <4>2 DEF PInv, NotBegun
        <4> QED BY <4>1, <4>3 DEF Fits
      <3>2. CASE d # e
        BY <1>3, <1>5, <2>1, <3>2 DEF PInv, Fitting
      <3> QED BY <3>1, <3>2
    <2> QED BY <1>1, <2>1 DEF Fitting
  <1> QED BY <1>4, <1>6, <1>7, <1>9, <1>10, <1>11 DEF PInv

\* What changes no execution, and no state of a phase that is not disturbed but
\* from unknown to ready, keeps the invariant.
LEMMA OthersKeep ==
    ASSUME PInv, PhaseTypeOK', UNCHANGED <<execution, unrecorded>>, active' \subseteq active,
           disturbed \subseteq disturbed',
           \A p \in Phases : p \notin disturbed' =>
               phase_state'[p] = phase_state[p]
               \/ (phase_state[p] = "NONE" /\ phase_state'[p] = "READY")
    PROVE  PInv'
  <1>1. \A e \in Executions : phase(e)' = phase(e) /\ (At(e, "idle")' <=> At(e, "idle"))
    BY DEF phase, At
  <1>2. HeldActive' /\ OfAPhase' /\ OneEach'
    BY <1>1 DEF PInv, HeldActive, OfAPhase, OneEach
  <1>3. NotBegun'
    BY <1>1 DEF PInv, NotBegun
  <1>4. Fitting'
    <2>1. ASSUME NEW e \in Executions, ~At(e, "idle"), phase(e) \notin disturbed'
          PROVE  Fits(phase_state'[phase(e)], execution[e].at)
      <3>1. PICK p \in Phases : p = phase(e)
        BY <2>1 DEF PInv, OfAPhase
      <3>2. Fits(phase_state[p], execution[e].at)
        BY <2>1, <3>1 DEF PInv, Fitting
      <3>3. execution[e].at \in Places
        BY DEF PInv, PhaseTypeOK
      <3>4. CASE phase_state'[p] = phase_state[p]
        BY <3>1, <3>2, <3>4
      <3>5. CASE phase_state[p] = "NONE" /\ phase_state'[p] = "READY"
        <4>1. Fits("NONE", execution[e].at)
          BY <3>2, <3>5
        <4>2. Fits("READY", execution[e].at)
          BY <4>1 DEF Fits
        <4> QED BY <3>1, <3>5, <4>2
      <3> QED BY <2>1, <3>1, <3>4, <3>5
    <2> QED BY <1>1, <2>1 DEF Fitting
  <1> QED BY <1>2, <1>3, <1>4 DEF PInv

\* A phase that nobody disturbed is not paused.
LEMMA NotPaused ==
    ASSUME PInv, NEW p \in Phases, phase_state[p] = "PAUSED"
    PROVE  p \in disturbed
  <1> SUFFICES ASSUME p \notin disturbed PROVE FALSE
    OBVIOUS
  <1>1. PICK e \in Executions : phase(e) = p /\ ~At(e, "idle")
    BY DEF PInv, NotBegun
  <1>2. Fits("PAUSED", execution[e].at)
    BY <1>1 DEF PInv, Fitting
  <1>3. execution[e].at \in Places
    BY DEF PInv, PhaseTypeOK
  <1> QED BY <1>1, <1>2, <1>3 DEF Fits, Places, Outcomes, At

\* What callers ask for, and what the monitor does, keeps the invariant.
LEMMA AsksKeep ==
    ASSUME PInv, NEW p \in Phases,
           \/ PausePhase(p) \/ ResumePhase(p) \/ AbortPhase(p)
           \/ AbortEnds(p) \/ CreateCheckpoint(p) \/ RestoreCheckpoint(p)
    PROVE  PInv'
  <1>0. PhaseTypeOK
    BY DEF PInv
  <1>1. CASE PausePhase(p) \/ ResumePhase(p) \/ AbortPhase(p)
    <2>1. PICK s \in {"PAUSED", "RUNNING", "ABORTED"} :
             phase_state' = [phase_state EXCEPT ![p] = s]
      BY <1>1 DEF PausePhase, ResumePhase, AbortPhase, Becomes
    <2>2. /\ UNCHANGED <<after, child_phases, active, checkpoint, execution, nested, orphaned, unrecorded>>
          /\ asks' = asks + 1 /\ aborting' \in {aborting, aborting \cup {p}}
          /\ disturbed' \in {disturbed, disturbed \cup {p}}
      BY <1>1 DEF PausePhase, ResumePhase, AbortPhase, Asks
    <2>3. p \in disturbed'
      BY <1>1, NotPaused DEF PausePhase, ResumePhase, AbortPhase
    <2>4. PhaseTypeOK'
      <3>1. s \in PhaseStates
        BY DEF PhaseStates
      <3>2. phase_state' \in [Phases -> PhaseStates]
        BY <1>0, <2>1, <3>1 DEF PhaseTypeOK
      <3> QED BY <1>0, <2>2, <3>2 DEF PhaseTypeOK
    <2>5. \A q \in Phases : q \notin disturbed' => phase_state'[q] = phase_state[q]
      BY <1>0, <2>1, <2>3 DEF PhaseTypeOK
    <2> QED BY <2>2, <2>4, <2>5, OthersKeep
  <1>2. CASE AbortEnds(p)
    <2>1. PhaseTypeOK'
      BY <1>0, <1>2 DEF PhaseTypeOK, AbortEnds
    <2> QED BY <1>2, <2>1, OthersKeep DEF AbortEnds
  <1>3. CASE CreateCheckpoint(p)
    <2>1. [state |-> phase_state[p], children |-> child_phases[p]]
              \in [state : PhaseStates, children : SUBSET Phases]
      BY <1>0 DEF PhaseTypeOK
    <2>2. PhaseTypeOK'
      BY <1>0, <1>3, <2>1 DEF PhaseTypeOK, CreateCheckpoint, Asks
    <2> QED BY <1>3, <2>2, OthersKeep DEF CreateCheckpoint, Asks
  <1>4. CASE RestoreCheckpoint(p)
    <2>1. checkpoint[p].state \in PhaseStates /\ checkpoint[p].children \in SUBSET Phases
      BY <1>0 DEF PhaseTypeOK
    <2>2. PhaseTypeOK'
      BY <1>0, <1>4, <2>1 DEF PhaseTypeOK, RestoreCheckpoint, Asks, Becomes
    <2>3. \A q \in Phases : q \notin disturbed' => phase_state'[q] = phase_state[q]
      BY <1>0, <1>4 DEF PhaseTypeOK, RestoreCheckpoint, Becomes
    <2> QED BY <1>4, <2>2, <2>3, OthersKeep DEF RestoreCheckpoint, Asks
  <1> QED BY <1>1, <1>2, <1>3, <1>4

\* A phase that is initialized becomes ready.
LEMMA InitializeKeeps ==
    ASSUME PInv, NEW p \in Phases, NEW parent \in Phases \cup {NoPhase},
           NEW D \in SUBSET (Phases \ {p}), InitializePhase(p, parent, D)
    PROVE  PInv'
  <1>0. PhaseTypeOK
    BY DEF PInv
  <1>1. /\ phase_state[p] = "NONE" /\ phase_state' = [phase_state EXCEPT ![p] = "READY"]
        /\ after' = [after EXCEPT ![p] = D]
        /\ UNCHANGED <<active, aborting, checkpoint, execution, nested, orphaned, asks,
                       disturbed, unrecorded>>
    BY DEF InitializePhase, Known, Becomes
  <1>2. child_phases' \in [Phases -> SUBSET Phases]
    <2>1. \A q \in Phases : child_phases[q] \cup {p} \in SUBSET Phases
      BY <1>0 DEF PhaseTypeOK
    <2>2. \A q \in Phases : child_phases[q] \in SUBSET Phases
      BY <1>0 DEF PhaseTypeOK
    <2> QED BY <2>1, <2>2 DEF InitializePhase
  <1>3. PhaseTypeOK'
    <2>1. "READY" \in PhaseStates
      BY DEF PhaseStates
    <2>2. phase_state' \in [Phases -> PhaseStates] /\ after' \in [Phases -> SUBSET Phases]
      BY <1>0, <1>1, <2>1 DEF PhaseTypeOK
    <2> QED BY <1>0, <1>1, <1>2, <2>2 DEF PhaseTypeOK
  <1>4. \A q \in Phases : phase_state'[q] = phase_state[q]
                          \/ (phase_state[q] = "NONE" /\ phase_state'[q] = "READY")
    BY <1>0, <1>1 DEF PhaseTypeOK
  <1> QED BY <1>1, <1>3, <1>4, OthersKeep

\* Every step keeps the invariant.
LEMMA PhasesKept ==
    ASSUME PInv, [PhaseNext]_phaseVars
    PROVE  PInv'
  <1>1. CASE UNCHANGED phaseVars
    <2>1. PhaseTypeOK'
      BY <1>1 DEF phaseVars, PInv, PhaseTypeOK
    <2> QED BY <1>1, <2>1, OthersKeep DEF phaseVars
  <1>2. ASSUME NEW e \in Executions, NEW p \in Phases, StartPhase(e, p)
        PROVE  PInv'
    <2>1. Begins(e, p, "check") /\ nested' \in [Executions -> Statuses]
      BY <1>2 DEF StartPhase, PInv, PhaseTypeOK
    <2>2. "check" \in {"check", "prepare"}
      OBVIOUS
    <2> QED BY <2>1, <2>2, BeginsKeeps
  <1>3. ASSUME NEW e \in Executions, NEW p \in Phases, NEW q \in Phases, Coordinate(e, p, q)
        PROVE  PInv'
    <2>1. Begins(e, q, "prepare") /\ nested' \in [Executions -> Statuses]
      BY <1>3 DEF Coordinate, PInv, PhaseTypeOK, Statuses
    <2>2. "prepare" \in {"check", "prepare"}
      OBVIOUS
    <2> QED BY <2>1, <2>2, BeginsKeeps
  <1>4. ASSUME NEW e \in Executions, MarkOrphan(e)
        PROVE  PInv'
    <2>1. PhaseTypeOK'
      BY <1>4 DEF MarkOrphan, PInv, PhaseTypeOK, Statuses
    <2> QED BY <1>4, <2>1, OthersKeep DEF MarkOrphan
  <1>5. ASSUME NEW S \in SUBSET Executions, FindOrphans(S)
        PROVE  PInv'
    <2>1. PhaseTypeOK'
      BY <1>5 DEF FindOrphans, PInv, PhaseTypeOK
    <2> QED BY <1>5, <2>1, OthersKeep DEF FindOrphans
  <1> QED
    BY <1>1, <1>2, <1>3, <1>4, <1>5, InitializeKeeps, AsksKeep, ExecutionStepKeeps,
       CancelledKeeps DEF PhaseNext

\* Phases begin as the invariant says.
LEMMA PhasesBegin ==
    ASSUME PhaseInit
    PROVE  PInv
  <1>1. PhaseTypeOK
    BY DEF PhaseInit, PhaseTypeOK, PhaseStates, Places, Outcomes, Statuses, initial
  <1>2. \A e \in Executions : At(e, "idle")
    BY DEF PhaseInit, At
  <1> QED
    BY <1>1, <1>2 DEF PhaseInit, PInv, HeldActive, OfAPhase, OneEach, NotBegun, Fitting

-----------------------------------------------------------------------------
(* Refinements of code (CodeRefinement) *)

\* A call that is alone and at work is alone at work: nobody else writes the
\* file.  What it compiles it wrote there, and the tools it has passed find no
\* fault with it.
CheckedSoFar ==
    \A r \in Refinements :
        /\ awaits[r] \in {"idle", "generate"} => attempt_no[r] = 0
        /\ awaits[r] \notin {"idle", "analyse"} => report[r] = "none"
        /\ alone[r] /\ awaits[r] # "idle" => Busy(r) = {}
        /\ alone[r] /\ awaits[r] = "run" => source_file = code[r]
        /\ alone[r] /\ awaits[r] \in {"write", "run"} =>
              \A t \in code[r] : compiler[r] <= t
        /\ alone[r] /\ awaits[r] = "analyse" /\ report[r] = "success" => code[r] = {}

CInv == /\ RefinementTypeOK /\ attempt_no \in [Refinements -> Nat]
        /\ CheckedSoFar /\ SuccessWasChecked

\* What one call does to its own record only keeps the invariant, if the record
\* is right afterwards.
LEMMA OwnStepKeeps ==
    ASSUME CInv, NEW r \in Refinements, awaits[r] # "idle",
           NEW c \in Codes, NEW t \in 1..Tools, NEW n \in Nat, NEW what \in Awaits,
           NEW success \in {"none", "success", "failure"},
           code' = [code EXCEPT ![r] = c], compiler' = [compiler EXCEPT ![r] = t],
           attempt_no' = [attempt_no EXCEPT ![r] = n], awaits' = [awaits EXCEPT ![r] = what],
           report' = [report EXCEPT ![r] = success], UNCHANGED <<kind, alone>>,
           source_file' \in Codes, what \in {"idle", "generate"} => n = 0,
           n <= Limit(r),
           what \notin {"idle", "analyse"} => success = "none",
           source_file' = source_file \/ source_file' = c,
           alone[r] /\ what = "run" => source_file' = c,
           alone[r] /\ what \in {"write", "run"} => \A x \in c : t <= x,
           alone[r] /\ what \in {"idle", "analyse"} /\ success = "success" => c = {}
    PROVE  CInv'
  <1>1. /\ code \in [Refinements -> Codes] /\ compiler \in [Refinements -> 1..Tools]
        /\ attempt_no \in [Refinements -> Nat] /\ awaits \in [Refinements -> Awaits]
        /\ report \in [Refinements -> {"none", "success", "failure"}]
        /\ \A q \in Refinements : Limit(q) \in Nat /\ attempt_no[q] <= Limit(q)
        /\ alone \in [Refinements -> BOOLEAN]
    BY RefinementAssumption DEF CInv, RefinementTypeOK, Limit
  <1>2. \A q \in Refinements : Limit(q)' = Limit(q)
    BY DEF Limit
  <1>3. RefinementTypeOK'
    <2>1. \A q \in Refinements : attempt_no'[q] \in 0..Limit(q)'
      BY <1>1, <1>2
    <2> QED BY <1>1, <2>1 DEF CInv, RefinementTypeOK
  <1>4. attempt_no' \in [Refinements -> Nat]
    BY <1>1
  <1>5. \A q \in Refinements : Busy(q)' \subseteq Busy(q)
    BY <1>1 DEF Busy
  <1>6. \A q \in Refinements : q # r => r \in Busy(q)
    BY DEF Busy
  <1>7. ASSUME NEW q \in Refinements
        PROVE  /\ awaits'[q] \in {"idle", "generate"} => attempt_no'[q] = 0
               /\ awaits'[q] \notin {"idle", "analyse"} => report'[q] = "none"
               /\ alone'[q] /\ awaits'[q] # "idle" => Busy(q)' = {}
               /\ alone'[q] /\ awaits'[q] = "run" => source_file' = code'[q]
               /\ alone'[q] /\ awaits'[q] \in {"write", "run"} =>
                     \A x \in code'[q] : compiler'[q] <= x
               /\ alone'[q] /\ awaits'[q] \in {"idle", "analyse"} /\ report'[q] = "success"
                     => code'[q] = {}
    <2>1. CASE q = r
      <3>1. /\ awaits'[q] = what /\ attempt_no'[q] = n /\ report'[q] = success
            /\ code'[q] = c /\ compiler'[q] = t /\ alone'[q] = alone[q]
        BY <1>1, <2>1
      <3>2. alone[q] => Busy(q) = {}
        BY <2>1 DEF CInv, CheckedSoFar
      <3> QED BY <1>5, <2>1, <3>1, <3>2
    <2>2. CASE q # r
      <3>1. /\ awaits'[q] = awaits[q] /\ attempt_no'[q] = attempt_no[q]
            /\ report'[q] = report[q] /\ code'[q] = code[q]
            /\ compiler'[q] = compiler[q] /\ alone'[q] = alone[q]
        BY <1>1, <2>2
      <3>2. alone[q] => awaits[q] = "idle"
        BY <1>6, <2>2 DEF CInv, CheckedSoFar
      <3> QED BY <3>1, <3>2 DEF CInv, CheckedSoFar, SuccessWasChecked
    <2> QED BY <2>1, <2>2
  <1>8. CheckedSoFar' /\ SuccessWasChecked'
    BY <1>7 DEF CheckedSoFar, SuccessWasChecked
  <1> QED BY <1>3, <1>4, <1>8 DEF CInv

\* What the invariant says of one call.
LEMMA RefinementKnown ==
    ASSUME CInv, NEW r \in Refinements
    PROVE  /\ code[r] \in Codes /\ compiler[r] \in 1..Tools /\ attempt_no[r] \in Nat
           /\ awaits[r] \in Awaits /\ report[r] \in {"none", "success", "failure"}
           /\ source_file \in Codes /\ attempt_no[r] <= Limit(r) /\ Limit(r) \in Nat \ {0}
           /\ code = [code EXCEPT ![r] = code[r]]
           /\ compiler = [compiler EXCEPT ![r] = compiler[r]]
           /\ attempt_no = [attempt_no EXCEPT ![r] = attempt_no[r]]
           /\ report = [report EXCEPT ![r] = report[r]]
  BY RefinementAssumption DEF CInv, RefinementTypeOK, Limit

\* A call that answers keeps the invariant, unless it reports an unchecked success.
LEMMA AnswersKeep ==
    ASSUME CInv, NEW r \in Refinements, awaits[r] # "idle", NEW c \in Codes,
           code' = [code EXCEPT ![r] = c], UNCHANGED fixed,
           NEW success \in {"none", "success", "failure"}, Answers(r, success),
           alone[r] /\ success = "success" => c = {}
    PROVE  CInv'
  <1>1. 0 \in Nat /\ 1 \in 1..Tools /\ "idle" \in Awaits
    BY RefinementAssumption DEF Awaits
  <1>2. /\ awaits' = [awaits EXCEPT ![r] = "idle"] /\ report' = [report EXCEPT ![r] = success]
        /\ compiler' = [compiler EXCEPT ![r] = 1]
        /\ attempt_no' = [attempt_no EXCEPT ![r] = 0]
        /\ UNCHANGED <<source_file, kind, alone>>
    BY DEF Answers, Await, fixed
  <1>3. /\ source_file' \in Codes /\ source_file' = source_file /\ 0 <= Limit(r)
        /\ "idle" \notin {"write", "run"} /\ "idle" # "run"
    BY <1>2, RefinementKnown
  <1>4. success \in {"none", "success", "failure"}
    OBVIOUS
  <1> QED
    BY ONLY CInv, r \in Refinements, c \in Codes, awaits[r] # "idle",
            code' = [code EXCEPT ![r] = c], alone[r] /\ success = "success" => c = {},
            <1>1, <1>2, <1>3, <1>4, OwnStepKeeps

\* A call that concludes keeps the invariant likewise.
LEMMA ConcludesKeeps ==
    ASSUME CInv, NEW r \in Refinements, awaits[r] # "idle", NEW c \in Codes,
           code' = [code EXCEPT ![r] = c], UNCHANGED fixed,
           NEW success \in {"success", "failure"}, Concludes(r, success),
           alone[r] /\ success = "success" => c = {}
    PROVE  CInv'
  <1>1. CASE kind[r] = "improvement"
    BY <1>1, AnswersKeep DEF Concludes
  <1>2. CASE kind[r] # "improvement"
    <2>1. /\ awaits' = [awaits EXCEPT ![r] = "analyse"]
          /\ report' = [report EXCEPT ![r] = success]
          /\ UNCHANGED <<compiler, attempt_no, source_file, kind, alone>>
      BY <1>2 DEF Concludes, Await, progress, fixed
    <2>2. "analyse" \in Awaits
      BY DEF Awaits
    <2> QED BY <2>1, <2>2, RefinementKnown, OwnStepKeeps
  <1> QED BY <1>1, <1>2

\* A compilation that begins keeps the invariant.
LEMMA CompileKeeps ==
    ASSUME CInv, NEW r \in Refinements, awaits[r] \notin {"idle", "analyse"}, NEW c \in Codes,
           Compile(r, c), attempt_no[r] < Limit(r), UNCHANGED fixed, UNCHANGED report
    PROVE  CInv'
  <1>1. PICK n \in Nat : n = attempt_no[r] + 1
    BY RefinementKnown
  <1>2. /\ awaits' = [awaits EXCEPT ![r] = "write"] /\ code' = [code EXCEPT ![r] = c]
        /\ compiler' = [compiler EXCEPT ![r] = 1]
        /\ attempt_no' = [attempt_no EXCEPT ![r] = n]
        /\ UNCHANGED <<source_file, kind, alone, report>>
    BY <1>1 DEF Compile, Await, fixed
  <1>3. n <= Limit(r) /\ "write" \in Awaits /\ 1 \in 1..Tools
    BY <1>1, RefinementKnown, RefinementAssumption DEF Awaits
  <1>4. \A x \in c : 1 <= x
    BY RefinementAssumption DEF Codes
  <1>5. report[r] = "none" /\ report' = [report EXCEPT ![r] = "none"]
    BY <1>2, RefinementKnown DEF CInv, CheckedSoFar
  <1>6. source_file' \in Codes /\ source_file' = source_file /\ awaits[r] # "idle"
    BY <1>2, RefinementKnown
  <1>7. "none" \in {"none", "success", "failure"} /\ "write" \in Awaits
    BY <1>3
  <1> HIDE DEF Awaits
  <1> QED BY ONLY CInv, r \in Refinements, c \in Codes, n \in Nat, <1>2, <1>3, <1>4, <1>5,
                  <1>6, <1>7, OwnStepKeeps

\* Every step of a call keeps the invariant.
LEMMA RefinementStepKeeps ==
    ASSUME CInv, NEW r \in Refinements, RefinementStep(r)
    PROVE  CInv'
  <1>0. awaits[r] # "idle"
    BY DEF RefinementStep, Generated, NotGenerated, ToolBegins, ToolPasses, ToolFails,
           CompilerBreaks, Debugged, NotDebugged, Analysed, RefinementRaises
  <1>1. CASE Generated(r)
    <2>1. PICK c \in Codes : Compile(r, c)
      BY <1>1 DEF Generated
    <2>2. awaits[r] = "generate" /\ UNCHANGED fixed /\ UNCHANGED report
      BY <1>1 DEF Generated
    <2>3. attempt_no[r] < Limit(r)
      BY <2>2, RefinementKnown DEF CInv, CheckedSoFar
    <2> QED BY <2>1, <2>2, <2>3, CompileKeeps
  <1>2. CASE NotGenerated(r) \/ RefinementRaises(r)
    <2>1. Answers(r, "failure") /\ UNCHANGED fixed /\ UNCHANGED code
      BY <1>2 DEF NotGenerated, RefinementRaises
    <2> QED BY <1>0, <2>1, RefinementKnown, AnswersKeep
  <1>3. CASE ToolBegins(r)
    <2>1. /\ awaits[r] = "write" /\ awaits' = [awaits EXCEPT ![r] = "run"]
          /\ source_file' = code[r]
          /\ UNCHANGED <<code, compiler, attempt_no, kind, alone, report>>
      BY <1>3 DEF ToolBegins, Await, progress
    <2>2. "run" \in Awaits
      BY DEF Awaits
    <2>3. /\ report[r] = "none"
          /\ alone[r] => \A x \in code[r] : compiler[r] <= x
      BY <2>1 DEF CInv, CheckedSoFar
    <2> QED BY <2>1, <2>2, <2>3, RefinementKnown, OwnStepKeeps
  <1>4. CASE ToolPasses(r)
    <2>1. /\ awaits[r] = "run" /\ compiler[r] \notin source_file
          /\ UNCHANGED fixed /\ UNCHANGED code
      BY <1>4 DEF ToolPasses
    <2>2. alone[r] => \A x \in code[r] : compiler[r] < x
      <3> SUFFICES ASSUME alone[r], NEW x \in code[r]
                   PROVE  compiler[r] < x
        OBVIOUS
      <3>1. source_file = code[r] /\ compiler[r] <= x
        BY <2>1 DEF CInv, CheckedSoFar
      <3>2. x \in Nat /\ compiler[r] \in Nat
        BY RefinementKnown, RefinementAssumption DEF Codes
      <3> QED BY <2>1, <3>1, <3>2
    <2>3. CASE compiler[r] = Tools
      <3>1. Concludes(r, "success")
        BY <1>4, <2>3 DEF ToolPasses
      <3>2. alone[r] => code[r] = {}
        <4> SUFFICES ASSUME alone[r], NEW x \in code[r]
                     PROVE  FALSE
          OBVIOUS
        <4>1. x \in 2..Tools
          BY RefinementKnown DEF Codes
        <4> QED BY <2>2, <2>3, <4>1, RefinementAssumption
      <3> QED BY <1>0, <2>1, <3>1, <3>2, RefinementKnown, ConcludesKeeps
    <2>4. CASE compiler[r] # Tools
      <3>1. PICK t \in 1..Tools : t = compiler[r] + 1
        BY <2>4, RefinementKnown, RefinementAssumption
      <3>2. /\ awaits' = [awaits EXCEPT ![r] = "write"] /\ UNCHANGED <<attempt_no, report>>
            /\ compiler' = [compiler EXCEPT ![r] = t]
            /\ UNCHANGED <<source_file, kind, alone, code>>
        BY <1>4, <2>1, <2>4, <3>1 DEF ToolPasses, Await, fixed
      <3>3. \A x \in code[r] : x \in Nat
        BY RefinementKnown, RefinementAssumption DEF Codes
      <3>4. alone[r] => \A x \in code[r] : t <= x
        BY <2>2, <3>1, <3>3, RefinementKnown, RefinementAssumption
      <3>5. "write" \in Awaits /\ report[r] = "none"
        BY <2>1 DEF Awaits, CInv, CheckedSoFar
      <3> QED BY <1>0, <3>1, <3>2, <3>4, <3>5, RefinementKnown, OwnStepKeeps
    <2> QED BY <2>3, <2>4
  <1>5. CASE ToolFails(r) \/ CompilerBreaks(r)
    <2>1. awaits[r] = "run" /\ CompilationFails(r) /\ UNCHANGED fixed /\ UNCHANGED code
      BY <1>5 DEF ToolFails, CompilerBreaks
    <2>2. CASE kind[r] = "improvement" /\ Spent(r)
      <3>1. Answers(r, "failure")
        BY <2>1, <2>2 DEF CompilationFails
      <3> QED BY <1>0, <2>1, <3>1, RefinementKnown, AnswersKeep
    <2>3. CASE ~(kind[r] = "improvement" /\ Spent(r))
      <3>1. /\ awaits' = [awaits EXCEPT ![r] = "debug"]
            /\ UNCHANGED <<compiler, attempt_no, report, source_file, kind, alone, code>>
        BY <2>1, <2>3 DEF CompilationFails, Await, progress, fixed
      <3>2. "debug" \in Awaits /\ report[r] = "none"
        BY <2>1 DEF Awaits, CInv, CheckedSoFar
      <3> QED BY <1>0, <3>1, <3>2, RefinementKnown, OwnStepKeeps
    <2> QED BY <2>2, <2>3
  <1>6. CASE Debugged(r)
    <2>1. awaits[r] = "debug" /\ UNCHANGED fixed
      BY <1>6 DEF Debugged
    <2>2. PICK c \in Codes :
             IF Spent(r) THEN LastFix(r, c) ELSE Compile(r, c) /\ UNCHANGED report
      BY <1>6 DEF Debugged
    <2>3. CASE Spent(r)
      <3>1. code' = [code EXCEPT ![r] = c] /\ Concludes(r, "failure")
        BY <2>2, <2>3 DEF LastFix
      <3> QED BY <1>0, <2>1, <3>1, ConcludesKeeps
    <2>4. CASE ~Spent(r)
      <3>1. attempt_no[r] < Limit(r)
        BY <2>4, RefinementKnown DEF Spent
      <3> QED BY <2>1, <2>2, <2>4, <3>1, CompileKeeps
    <2> QED BY <2>3, <2>4
  <1>7. CASE NotDebugged(r)
    <2>1. Concludes(r, "failure") /\ UNCHANGED fixed /\ UNCHANGED code
      BY <1>7 DEF NotDebugged
    <2> QED BY <1>0, <2>1, RefinementKnown, ConcludesKeeps
  <1>8. CASE Analysed(r)
    <2>1. /\ awaits[r] = "analyse" /\ UNCHANGED fixed /\ UNCHANGED code
          /\ Answers(r, report[r]) \/ Answers(r, "failure")
      BY <1>8 DEF Analysed
    <2>2. PICK s \in {"none", "success", "failure"} : s = report[r]
      BY RefinementKnown
    <2>3. Answers(r, s) \/ Answers(r, "failure")
      BY <2>1, <2>2
    <2>4. alone[r] /\ s = "success" => code[r] = {}
      BY <2>1, <2>2 DEF CInv, CheckedSoFar
    <2> QED BY <1>0, <2>1, <2>3, <2>4, RefinementKnown, AnswersKeep
  <1> QED
    BY <1>1, <1>2, <1>3, <1>4, <1>5, <1>6, <1>7, <1>8 DEF RefinementStep

\* A call that begins keeps the invariant.
LEMMA RequestKeeps ==
    ASSUME CInv, NEW r \in Refinements, Request(r)
    PROVE  CInv'
  <1>1. /\ awaits[r] = "idle" /\ awaits' = [awaits EXCEPT ![r] = "generate"]
        /\ report' = [report EXCEPT ![r] = "none"]
        /\ alone' = [q \in Refinements |->
              IF q = r THEN Busy(r) = {} ELSE alone[q] /\ awaits[q] = "idle"]
        /\ UNCHANGED <<source_file, code, compiler, attempt_no>>
    BY DEF Request, Await, progress
  <1>2. PICK k \in {"refinement", "improvement"} : kind' = [kind EXCEPT ![r] = k]
    BY DEF Request
  <1>3. /\ kind \in [Refinements -> {"refinement", "improvement"}]
        /\ awaits \in [Refinements -> Awaits] /\ alone \in [Refinements -> BOOLEAN]
        /\ report \in [Refinements -> {"none", "success", "failure"}]
        /\ attempt_no[r] = 0
    BY <1>1 DEF CInv, RefinementTypeOK, CheckedSoFar
  <1>4. \A q \in Refinements : alone'[q] \in BOOLEAN
    BY <1>1, <1>3
  <1>5. RefinementTypeOK'
    <2>1. \A q \in Refinements : attempt_no'[q] \in 0..Limit(q)'
      <3> TAKE q \in Refinements
      <3>1. CASE q = r
        BY <3>1, <1>1, <1>2, <1>3, RefinementAssumption DEF Limit
      <3>2. CASE q # r
        BY <3>2, <1>1, <1>2, <1>3 DEF Limit, CInv, RefinementTypeOK
      <3> QED BY <3>1, <3>2
    <2>2. alone' \in [Refinements -> BOOLEAN]
      BY <1>1, <1>4
    <2>3. awaits' \in [Refinements -> Awaits]
      BY <1>1, <1>3 DEF Awaits
    <2> QED BY <1>1, <1>2, <1>3, <2>1, <2>2, <2>3 DEF CInv, RefinementTypeOK
  <1>6. ASSUME NEW q \in Refinements
        PROVE  /\ awaits'[q] \in {"idle", "generate"} => attempt_no'[q] = 0
               /\ awaits'[q] \notin {"idle", "analyse"} => report'[q] = "none"
               /\ alone'[q] /\ awaits'[q] # "idle" => Busy(q)' = {}
               /\ alone'[q] /\ awaits'[q] = "run" => source_file' = code'[q]
               /\ alone'[q] /\ awaits'[q] \in {"write", "run"} =>
                     \A x \in code'[q] : compiler'[q] <= x
               /\ alone'[q] /\ awaits'[q] \in {"idle", "analyse"} /\ report'[q] = "success"
                     => code'[q] = {}
    <2>1. CASE q = r
      <3>1. awaits'[q] = "generate" /\ attempt_no'[q] = 0 /\ report'[q] = "none"
        BY <1>1, <1>3, <2>1
      <3>2. alone'[q] => Busy(q) = {}
        BY <1>1, <2>1
      <3>3. Busy(q)' \subseteq Busy(q)
        BY <1>1, <1>3, <2>1 DEF Busy
      <3> QED BY <3>1, <3>2, <3>3
    <2>2. CASE q # r
      <3>1. alone'[q] => alone[q] /\ awaits[q] = "idle"
        BY <1>1, <2>2
      <3>2. awaits'[q] = awaits[q] /\ report'[q] = report[q]
        BY <1>1, <1>3, <2>2
      <3> QED BY <1>1, <3>1, <3>2 DEF CInv, CheckedSoFar, SuccessWasChecked
    <2> QED BY <2>1, <2>2
  <1>7. CheckedSoFar' /\ SuccessWasChecked'
    BY <1>6 DEF CheckedSoFar, SuccessWasChecked
  <1> QED BY <1>1, <1>5, <1>7 DEF CInv

\* Every step keeps the invariant.
LEMMA RefinementKept ==
    ASSUME CInv, [RefinementNext]_refinementVars
    PROVE  CInv'
  <1>1. CASE UNCHANGED refinementVars
    BY <1>1 DEF refinementVars, CInv, RefinementTypeOK, CheckedSoFar, SuccessWasChecked,
                Limit, Busy
  <1> QED BY <1>1, RequestKeeps, RefinementStepKeeps DEF RefinementNext

\* Calls begin as the invariant says.
LEMMA RefinementBegins ==
    ASSUME RefinementInit
    PROVE  CInv
  <1>1. \A r \in Refinements : /\ code[r] = {} /\ attempt_no[r] = 0 /\ awaits[r] = "idle"
                               /\ report[r] = "none"
    BY DEF RefinementInit
  <1>2. RefinementTypeOK
    BY <1>1, RefinementAssumption DEF RefinementInit, RefinementTypeOK, Codes, Awaits, Limit
  <1> QED BY <1>1, <1>2 DEF RefinementInit, CInv, CheckedSoFar, SuccessWasChecked

-----------------------------------------------------------------------------
(* The parts together *)

\* A step is one of a single part, and the others stutter.
LEMMA OneAtATime ==
    ASSUME [Next]_vars
    PROVE  /\ [AgentNext]_agentVars /\ [ValidatorNext]_validatorVars /\ [DevNext]_devVars
           /\ [CultivationNext]_cultivationVars /\ [PhaseNext]_phaseVars
           /\ [RefinementNext]_refinementVars
  <1>1. CASE Next
    BY <1>1, Zenon DEF Next
  <1>2. CASE UNCHANGED vars
    BY <1>2, Zenon DEF vars
  <1> QED BY <1>1, <1>2

\* The invariants of all parts hold throughout.
THEOREM Inductive == Spec => [](AInv /\ VInv /\ DInv /\ UInv /\ PInv /\ CInv)
  <1>1. Init => AInv /\ VInv /\ DInv /\ UInv /\ PInv /\ CInv
    BY CallsBegin, ValidationBegins, DevelopmentBegins, CultivationBegins, PhasesBegin,
       RefinementBegins, Zenon DEF Init
  <1>2. /\ AInv /\ VInv /\ DInv /\ UInv /\ PInv /\ CInv
        /\ [Next]_vars
        => (AInv /\ VInv /\ DInv /\ UInv /\ PInv /\ CInv)'
    BY OneAtATime, CallsKept, ValidationKept, DevelopmentKept, CultivationKept, PhasesKept,
       RefinementKept, Zenon
  <1> QED BY <1>1, <1>2, PTL DEF Spec

\* Every variable of the part at work keeps its type.
THEOREM PartsTyped == Spec => []PartsTypeOK
  <1>1. AInv /\ VInv /\ DInv /\ UInv /\ PInv /\ CInv => PartsTypeOK
    BY DEF PartsTypeOK, AInv, VInv, DInv, UInv, PInv, CInv
  <1> QED BY <1>1, Inductive, PTL

\* What the calls and visits of one agent share is right as long as they do not
\* overlap: the agent is found at rest, unless one was cancelled and none has set
\* its last state since, a call without a schema of its own works
\* to the agent's for it, and the calls for a request have no more validations
\* between them than they may.
THEOREM CallsKeptApart == Spec => []ApartUnlessOverlapping
  <1>1. AInv => ApartUnlessOverlapping
    BY CallsApart
  <1> QED BY <1>1, Inductive, PTL

\* A validation that no other overlapped finds its clients open and corrects
\* with its own schema, however its own levels open and shut them.
THEOREM UndisturbedNeverMisled == Spec => []UndisturbedNotMisled
  <1>1. VInv => UndisturbedNotMisled
    BY DEF VInv
  <1> QED BY <1>1, Inductive, PTL

\* If dependencies come in layers, what a component depends on is developed
\* before it, and the first run reports as completed what its contexts say.
THEOREM DevelopmentKeptRight == Spec => []DevelopedAsReported
  <1>1. DInv => DevelopedAsReported
    BY DevelopmentRight
  <1> QED BY <1>1, Inductive, PTL

\* A feature that was given a slot comes after a task of each feature that it
\* requires that was given one, whichever tasks fail or wait.
THEOREM DependenciesAlwaysBegin == Spec => []DependenciesBegin
  <1>1. UInv => DependenciesBegin
    BY DependenciesHaveBegun
  <1> QED BY <1>1, Inductive, PTL

\* Active phases are being executed, but for those whose failure could not be
\* recorded or whose execution was cancelled, and a phase that was started once and
\* that nobody disturbed is completed exactly if start_phase returned its result.
THEOREM PhasesAlwaysToldRight == Spec => []PhasesToldRight
  <1>1. PInv => PhasesToldRight
    BY PhasesRight
  <1> QED BY <1>1, Inductive, PTL

\* A refinement that no other overlapped reports success only with code that no
\* tool finds fault with, although every tool reads it from a shared file.
THEOREM SuccessAlwaysChecked == Spec => []SuccessWasChecked
  <1>1. CInv => SuccessWasChecked
    BY DEF CInv
  <1> QED BY <1>1, Inductive, PTL
=============================================================================
