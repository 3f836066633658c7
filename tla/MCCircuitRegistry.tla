------------------------- MODULE MCCircuitRegistry -------------------------
(* CircuitCascade, and with it CircuitRegistry, on small instances. *)
EXTENDS CircuitCascade, TLC

\* Neither callers nor names are told apart.
Symmetry == Permutations(Callers) \cup Permutations(Names)
=============================================================================
