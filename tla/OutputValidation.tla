--------------------------- MODULE OutputValidation ---------------------------
(***************************************************************************)
(* The validator of an agent's output (agent_validation.py: Validator,     *)
(* ValidationErrorAnalyzer, SemanticErrorHandler).  A validation that      *)
(* fails for semantic errors asks the agent for a correction, up to        *)
(* max_retries times, and validates each correction in the same way: the   *)
(* validations nest.  All of them share the validator's current_schema and *)
(* the error analyzer's API clients, which every async-with block opens    *)
(* anew and shuts down.  An action is what runs between two awaits.        *)
(*                                                                         *)
(* The LLM is the environment.  MaxDepth stands for the interpreter's      *)
(* recursion limit, whose RecursionError fails the innermost validation.   *)
(***************************************************************************)
EXTENDS Naturals, Sequences, FiniteSets

CONSTANTS
    Validations,  \* calls of validate_output from outside
    max_retries,
    MaxDepth

ASSUME ValidatorAssumption == max_retries \in Nat \ {0} /\ MaxDepth \in Nat \ {0}

NoSchema == "none"

VARIABLES
    levels,          \* validation -> the attempts of its nested levels
    doing,           \* what the innermost level does
    current_schema,  \* Validator.current_schema: the validation whose it is
    clients,         \* the error analyzer's API clients
    met,             \* validations that another one overlapped
    misled           \* those that used what was not theirs

validatorVars == <<levels, doing, current_schema, clients, met, misled>>

Doings == {"idle", "analyze", "analyzing", "format", "correct", "accept", "reject"}

ValidatorInit ==
    /\ levels = [v \in Validations |-> << >>]
    /\ doing = [v \in Validations |-> "idle"]
    /\ current_schema = NoSchema
    /\ clients = "none"
    /\ met = {} /\ misled = {}

Does(v, what) == doing' = [doing EXCEPT ![v] = what]

depth(v) == Len(levels[v])
attempt(v) == levels[v][depth(v)]

\* The other validations in progress.
Under(v) == {w \in Validations \ {v} : doing[w] # "idle"}

-----------------------------------------------------------------------------
\* Mutants: mistakes the properties must reject.  No run uses them as they
\* stand; each is put in the place of the definition it is named after.

\* Mutant: clients that exist already are taken for open.
Opened_IfNone == IF clients = "none" THEN "open" ELSE clients

-----------------------------------------------------------------------------
\* async with self.error_analyzer: new clients take the place of the old, and
\* the clients of the moment are shut down at the end.
Opened == "open"

Shut == "closed"

\* The part of validate_output before its first await, at a new level: the
\* output is no JSON object, satisfies the schema, or its errors are analysed.
Check(v, outer) ==
    /\ levels' = [levels EXCEPT ![v] = Append(outer, 0)]
    /\ current_schema' = v
    /\ \/ Does(v, "reject") /\ UNCHANGED clients
       \/ Does(v, "accept") /\ UNCHANGED clients
       \/ Does(v, "analyze") /\ clients' = Opened

\* validate_output is called from outside.
Submit(v) ==
    /\ doing[v] = "idle"
    /\ Check(v, << >>)
    /\ met' = IF Under(v) = {} THEN met \ {v} ELSE met \cup Under(v) \cup {v}
    /\ misled' = misled \ {v}

\* The loop of handle_semantic_errors comes to an attempt.
MayRetry(v) == attempt(v) < max_retries

Retry(v) ==
    /\ MayRetry(v)
    /\ levels' = [levels EXCEPT ![v][depth(v)] = @ + 1]
    /\ Does(v, "correct")
    /\ UNCHANGED clients

GiveUp(v) ==
    /\ ~MayRetry(v)
    /\ Does(v, "reject") /\ clients' = Shut
    /\ UNCHANGED levels

\* Semantic errors: the clients are opened again for the whole of the loop.
Semantic(v) ==
    /\ levels' = [levels EXCEPT ![v][depth(v)] = 1]
    /\ Does(v, "correct") /\ clients' = Opened

\* The analysis is recorded as begun; then the LLM is asked for it.
Analyze(v) ==
    /\ doing[v] = "analyze" /\ clients = "open"
    /\ Does(v, "analyzing")
    /\ UNCHANGED <<levels, current_schema, clients, met, misled>>

\* Clients that were shut down refuse the call, which counts as a semantic error.
AnalysisRefused(v) ==
    /\ doing[v] = "analyze" /\ clients # "open"
    /\ Semantic(v)
    /\ misled' = misled \cup {v}
    /\ UNCHANGED <<current_schema, met>>

\* The analysis tells semantic errors, or it failed, which is taken for one.
AnalysedSemantic(v) ==
    /\ doing[v] = "analyzing"
    /\ Semantic(v)
    /\ UNCHANGED <<current_schema, met, misled>>

\* It tells formatting errors; the correction is asked for with the schema
\* that is the validator's now.
AnalysedFormatting(v) ==
    /\ doing[v] = "analyzing"
    /\ Does(v, "format") /\ clients' = Opened
    /\ misled' = IF current_schema = v THEN misled ELSE misled \cup {v}
    /\ UNCHANGED <<levels, current_schema, met>>

\* It tells neither, or recording it raised.
NotAnalysed(v) ==
    /\ doing[v] = "analyzing"
    /\ Does(v, "reject") /\ clients' = Shut
    /\ UNCHANGED <<levels, current_schema, met, misled>>

\* The formatting correction satisfies the schema, or is of no use.
Formatted(v) ==
    /\ doing[v] = "format"
    /\ doing' \in {[doing EXCEPT ![v] = "accept"], [doing EXCEPT ![v] = "reject"]}
    /\ clients' = Shut
    /\ UNCHANGED <<levels, current_schema, met, misled>>

\* The agent's correction is empty, is no JSON or was not made.
NotCorrected(v) ==
    /\ doing[v] = "correct"
    /\ Retry(v) \/ GiveUp(v)
    /\ UNCHANGED <<current_schema, met, misled>>

\* The correction is validated, one level further down.
Corrected(v) ==
    /\ doing[v] = "correct" /\ depth(v) < MaxDepth
    /\ Check(v, levels[v])
    /\ UNCHANGED <<met, misled>>

\* No level is left: the RecursionError is caught in the validation of the
\* correction, or in the loop around it.
TooDeep(v) ==
    /\ doing[v] = "correct" /\ depth(v) = MaxDepth
    /\ \/ Retry(v) \/ GiveUp(v)
       \/ Does(v, "reject") /\ clients' = Shut /\ UNCHANGED levels
    /\ UNCHANGED <<current_schema, met, misled>>

\* A level has recorded its answer.  Outside it is returned; the loop around a
\* nested level ends with a valid correction and goes on otherwise.
Return(v) ==
    /\ doing[v] \in {"accept", "reject"} /\ depth(v) = 1
    /\ Does(v, "idle")
    /\ levels' = [levels EXCEPT ![v] = << >>]
    /\ UNCHANGED <<current_schema, clients, met, misled>>

CorrectionAccepted(v) ==
    /\ doing[v] = "accept" /\ depth(v) > 1
    /\ levels' = [levels EXCEPT ![v] = SubSeq(@, 1, Len(@) - 1)]
    /\ clients' = Shut
    /\ UNCHANGED <<doing, current_schema, met, misled>>

CorrectionRejected(v) ==
    /\ doing[v] = "reject" /\ depth(v) > 1
    /\ LET outer == SubSeq(levels[v], 1, depth(v) - 1)
           tried == outer[Len(outer)]
       IN  \/ /\ tried < max_retries
              /\ levels' = [levels EXCEPT ![v] = [outer EXCEPT ![Len(outer)] = tried + 1]]
              /\ Does(v, "correct")
              /\ UNCHANGED clients
           \/ /\ tried >= max_retries
              /\ levels' = [levels EXCEPT ![v] = outer]
              /\ clients' = Shut
              /\ UNCHANGED doing
    /\ UNCHANGED <<current_schema, met, misled>>

-----------------------------------------------------------------------------
Validate(v) ==
    \/ Analyze(v) \/ AnalysisRefused(v)
    \/ AnalysedSemantic(v) \/ AnalysedFormatting(v) \/ NotAnalysed(v)
    \/ Formatted(v) \/ NotCorrected(v) \/ Corrected(v) \/ TooDeep(v)
    \/ Return(v) \/ CorrectionAccepted(v) \/ CorrectionRejected(v)

ValidatorNext == \E v \in Validations : Submit(v) \/ Validate(v)

-----------------------------------------------------------------------------
\* Every variable has its type.
ValidatorTypeOK ==
    /\ levels \in [Validations -> Seq(Nat)] /\ doing \in [Validations -> Doings]
    /\ current_schema \in Validations \cup {NoSchema}
    /\ clients \in {"none", "open", "closed"}
    /\ met \subseteq Validations /\ misled \subseteq Validations
    /\ \A v \in Validations : doing[v] = "idle" <=> levels[v] = << >>

\* A validation that no other overlapped never finds its clients shut down,
\* however its own levels open and shut them, and has a formatting corrected
\* with its own schema.  One that another overlaps may do either.
UndisturbedNotMisled == misled \subseteq met

=============================================================================
