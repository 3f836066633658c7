---------------------------- MODULE CodeRefinement ----------------------------
(***************************************************************************)
(* Phase four (phase_four/interface.py, agents/refinement.py,              *)
(* agents/static_compilation.py): code is put through one tool after the   *)
(* other and, when a tool fails, replaced by a fixed version, a few times. *)
(* A feature has one source file, however many refinements of it are in    *)
(* progress; here all are of one feature.  The tools run in threads while  *)
(* the loop goes on.  An action is what runs between two awaits.           *)
(*                                                                         *)
(* The LLM and the tools are the environment.  The program hands the       *)
(* compilation agent the error handler in the place of the metrics         *)
(* manager, so that each of its compilations ends with CompilerBreaks.     *)
(***************************************************************************)
EXTENDS Naturals

CONSTANTS
    Refinements,  \* calls of process_feature_code and process_feature_improvement
    Tools,        \* how many compilers there are: the five of CompilerType
    max_attempts  \* max_iterations of a refinement; an improvement has two

ASSUME RefinementAssumption == Tools \in Nat \ {0} /\ max_attempts \in Nat \ {0}

VARIABLES
    source_file,  \* what the file holds
    code,         \* what each refinement works with
    compiler,     \* the tool that its compilation is at
    attempt_no,   \* its compilations so far
    kind,         \* what it is
    awaits,       \* what it waits for
    report,       \* the "success" that it returned
    alone         \* was no other in progress meanwhile?

refinementVars ==
    <<source_file, code, compiler, attempt_no, kind, awaits, report, alone>>

\* Code is told apart by the tools that find fault with it.  The first tool
\* never does: black reports on another stream than the one that is looked at.
Codes == SUBSET (2..Tools)

Awaits == {"idle", "generate", "write", "run", "debug", "analyse"}

RefinementInit ==
    /\ source_file = {}
    /\ code = [r \in Refinements |-> {}]
    /\ compiler = [r \in Refinements |-> 1]
    /\ attempt_no = [r \in Refinements |-> 0]
    /\ kind = [r \in Refinements |-> "refinement"]
    /\ awaits = [r \in Refinements |-> "idle"]
    /\ report = [r \in Refinements |-> "none"]
    /\ alone = [r \in Refinements |-> TRUE]

Await(r, what) == awaits' = [awaits EXCEPT ![r] = what]

Busy(r) == {q \in Refinements \ {r} : awaits[q] # "idle"}

Limit(r) == IF kind[r] = "improvement" THEN 2 ELSE max_attempts

\* r compiles code c from the first tool on.
Compile(r, c) ==
    /\ Await(r, "write")
    /\ code' = [code EXCEPT ![r] = c]
    /\ compiler' = [compiler EXCEPT ![r] = 1]
    /\ attempt_no' = [attempt_no EXCEPT ![r] = @ + 1]

progress == <<compiler, attempt_no>>

\* r returns; the answer has the last code.
Answers(r, success) ==
    /\ Await(r, "idle")
    /\ report' = [report EXCEPT ![r] = success]
    /\ compiler' = [compiler EXCEPT ![r] = 1]
    /\ attempt_no' = [attempt_no EXCEPT ![r] = 0]

fixed == <<source_file, kind, alone>>

-----------------------------------------------------------------------------
\* Mutants: mistakes the properties must reject.  No run uses them as they
\* stand; each is put in the place of the definition it is named after.

\* Mutant: one compilation too many.
Spent_OneLater(r) == attempt_no[r] > Limit(r)

\* Mutant: the last fixed version is taken for good.
LastFix_Trusted(r, c) ==
    /\ code' = [code EXCEPT ![r] = c]
    /\ Answers(r, "success")

-----------------------------------------------------------------------------
\* A call begins: code is to be generated, or improved, or was given.
Request(r) ==
    /\ awaits[r] = "idle"
    /\ \E k \in {"refinement", "improvement"} : kind' = [kind EXCEPT ![r] = k]
    /\ report' = [report EXCEPT ![r] = "none"]
    /\ alone' = [q \in Refinements |->
          IF q = r THEN Busy(r) = {} ELSE alone[q] /\ awaits[q] = "idle"]
    /\ Await(r, "generate")
    /\ UNCHANGED <<source_file, code, progress>>

\* There is code, the LLM's or the caller's, or an error.
Generated(r) ==
    /\ awaits[r] = "generate"
    /\ \E c \in Codes : Compile(r, c)
    /\ UNCHANGED <<fixed, report>>

NotGenerated(r) ==
    /\ awaits[r] = "generate"
    /\ Answers(r, "failure")
    /\ UNCHANGED <<fixed, code>>

\* The code is written into the feature's file and the tool started.
ToolBegins(r) ==
    /\ awaits[r] = "write" /\ Await(r, "run")
    /\ source_file' = code[r]
    /\ UNCHANGED <<code, progress, kind, alone, report>>

\* A refinement goes on to the analysis of its last compilation, an
\* improvement returns.
Concludes(r, success) ==
    IF kind[r] = "improvement" THEN Answers(r, success)
    ELSE /\ Await(r, "analyse") /\ UNCHANGED progress
         /\ report' = [report EXCEPT ![r] = success]

\* There was the last compilation.
Spent(r) == attempt_no[r] >= Limit(r)

\* The failures are to be analysed, unless an improvement failed twice.
CompilationFails(r) ==
    IF kind[r] = "improvement" /\ Spent(r) THEN Answers(r, "failure")
    ELSE Await(r, "debug") /\ UNCHANGED <<progress, report>>

\* The tool has read the file, as it is by then, and judges it.
ToolPasses(r) ==
    /\ awaits[r] = "run" /\ compiler[r] \notin source_file
    /\ IF compiler[r] = Tools
         THEN Concludes(r, "success")
         ELSE /\ Await(r, "write") /\ UNCHANGED <<attempt_no, report>>
              /\ compiler' = [compiler EXCEPT ![r] = @ + 1]
    /\ UNCHANGED <<fixed, code>>

ToolFails(r) ==
    /\ awaits[r] = "run" /\ compiler[r] \in source_file
    /\ CompilationFails(r)
    /\ UNCHANGED <<fixed, code>>

\* The tool cannot be run, its metric raises, or the caller cancels the call,
\* which is swallowed here: that counts as a failure of the tool.
CompilerBreaks(r) ==
    /\ awaits[r] = "run"
    /\ CompilationFails(r)
    /\ UNCHANGED <<fixed, code>>

\* The last fixed version is the answer, without a compilation of its own.
LastFix(r, c) ==
    /\ code' = [code EXCEPT ![r] = c]
    /\ Concludes(r, "failure")

Debugged(r) ==
    /\ awaits[r] = "debug"
    /\ \E c \in Codes :
         IF Spent(r) THEN LastFix(r, c) ELSE Compile(r, c) /\ UNCHANGED report
    /\ UNCHANGED fixed

\* No fixed version: the code stays as it was last compiled.
NotDebugged(r) ==
    /\ awaits[r] = "debug"
    /\ Concludes(r, "failure")
    /\ UNCHANGED <<fixed, code>>

\* The analysis ends, well or not, which the report does not tell; or what
\* follows it raises, which makes the report an error.
Analysed(r) ==
    /\ awaits[r] = "analyse"
    /\ Answers(r, report[r]) \/ Answers(r, "failure")
    /\ UNCHANGED <<fixed, code>>

\* Something else raises, or the call is cancelled elsewhere.
RefinementRaises(r) ==
    /\ awaits[r] # "idle"
    /\ Answers(r, "failure")
    /\ UNCHANGED <<fixed, code>>

RefinementStep(r) ==
    \/ Generated(r) \/ NotGenerated(r) \/ ToolBegins(r)
    \/ ToolPasses(r) \/ ToolFails(r) \/ CompilerBreaks(r)
    \/ Debugged(r) \/ NotDebugged(r) \/ Analysed(r) \/ RefinementRaises(r)

RefinementNext == \E r \in Refinements : Request(r) \/ RefinementStep(r)

-----------------------------------------------------------------------------
\* Every variable has its type, and no call compiles more often than it may.
RefinementTypeOK ==
    /\ source_file \in Codes /\ code \in [Refinements -> Codes]
    /\ compiler \in [Refinements -> 1..Tools]
    /\ \A r \in Refinements : attempt_no[r] \in 0..Limit(r)
    /\ kind \in [Refinements -> {"refinement", "improvement"}]
    /\ awaits \in [Refinements -> Awaits]
    /\ report \in [Refinements -> {"none", "success", "failure"}]
    /\ alone \in [Refinements -> BOOLEAN]

\* A call that reports success and that no other call overlapped returns code
\* with which no tool finds fault, although fixed versions take the place of
\* the code and every tool reads it from a file of the feature.  Calls that
\* overlap write the same file, and may have a tool judge the other's code.
SuccessWasChecked ==
    \A r \in Refinements :
        alone[r] /\ awaits[r] = "idle" /\ report[r] = "success" => code[r] = {}

=============================================================================
