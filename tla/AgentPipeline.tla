---------------------------- MODULE AgentPipeline ----------------------------
(***************************************************************************)
(* What phase one promises for each operation, whatever its agents, its     *)
(* validation rounds and its refinement do: the agents have their turns in  *)
(* a fixed order, an operation whose agent fails ends there as failed, one  *)
(* that passed them all succeeds, and every operation that began ends.      *)
(***************************************************************************)
EXTENDS Naturals

CONSTANTS
    Ops,   \* operations
    Length \* number of agents

VARIABLES
    turn,  \* 0 before the operation begins, then the number of the agent whose
           \* turn it is; Length + 1: all had theirs, Length + 2: one failed
    result \* "none" until the operation ends

vars == <<turn, result>>

Init ==
    /\ turn = [o \in Ops |-> 0]
    /\ result = [o \in Ops |-> "none"]

Begin(o) ==
    /\ turn[o] = 0
    /\ turn' = [turn EXCEPT ![o] = 1]
    /\ UNCHANGED result

Pass(o) ==
    /\ turn[o] \in 1..Length
    /\ turn' = [turn EXCEPT ![o] = @ + 1]
    /\ UNCHANGED result

Fail(o) ==
    /\ turn[o] \in 1..Length
    /\ result' = [result EXCEPT ![o] = "failed"]
    /\ turn' = [turn EXCEPT ![o] = Length + 2]

Succeed(o) ==
    /\ turn[o] = Length + 1
    /\ result[o] = "none"
    /\ result' = [result EXCEPT ![o] = "success"]
    /\ UNCHANGED turn

Advance(o) == Pass(o) \/ Fail(o) \/ Succeed(o)

Next == \E o \in Ops : Begin(o) \/ Advance(o)

Spec == Init /\ [][Next]_vars /\ \A o \in Ops : WF_vars(Advance(o))
=============================================================================
