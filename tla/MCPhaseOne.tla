---------------------------- MODULE MCPhaseOne ----------------------------
(* Small instances of PhaseOneOrchestrator, with the workflow inside. *)
EXTENDS PhaseOneOrchestrator
=============================================================================
