------------------------------ MODULE MCPhases ------------------------------
(***************************************************************************)
(* AgentCalls, OutputValidation, Development, Cultivation, PhaseCoordinator  *)
(* and CodeRefinement on small instances, in one run: each behaviour is one  *)
(* of the parts'.  What joins them in the program, a call and its answer, is *)
(* the environment of each.                                                  *)
(***************************************************************************)
EXTENDS AgentCalls, OutputValidation, Development, Cultivation, PhaseCoordinator,
        CodeRefinement, TLC

VARIABLE part  \* the part whose behaviour it is

vars == <<part, agentVars, validatorVars, devVars, cultivationVars, phaseVars, refinementVars>>

\* Parts that are not at work have nothing to choose.
Init ==
    /\ part \in {"agent", "validator", "development", "cultivation", "phases",
             "refinement"}
    /\ AgentInit /\ ValidatorInit /\ PhaseInit /\ RefinementInit
    /\ DevInit /\ CultivationInit
    /\ part # "development" => depends = [c \in Components |-> {}]
    /\ part # "cultivation" => requires = [f \in Features |-> {}]

Next ==
    \/ /\ part = "agent" /\ AgentNext
       /\ UNCHANGED <<part, validatorVars, devVars, cultivationVars, phaseVars, refinementVars>>
    \/ /\ part = "validator" /\ ValidatorNext
       /\ UNCHANGED <<part, agentVars, devVars, cultivationVars, phaseVars, refinementVars>>
    \/ /\ part = "development" /\ DevNext
       /\ UNCHANGED <<part, agentVars, validatorVars, cultivationVars, phaseVars, refinementVars>>
    \/ /\ part = "cultivation" /\ CultivationNext
       /\ UNCHANGED <<part, agentVars, validatorVars, devVars, phaseVars, refinementVars>>
    \/ /\ part = "phases" /\ PhaseNext
       /\ UNCHANGED <<part, agentVars, validatorVars, devVars, cultivationVars, refinementVars>>
    \/ /\ part = "refinement" /\ RefinementNext
       /\ UNCHANGED <<part, agentVars, validatorVars, devVars, cultivationVars, phaseVars>>

Spec == Init /\ [][Next]_vars

\* Phases are not told apart, nor their executions.
Symmetry == Permutations(Phases) \cup Permutations(Executions)

-----------------------------------------------------------------------------
\* The variables of the part at work keep their types; the others' do not
\* change.
PartsTypeOK ==
    /\ part = "agent" => AgentTypeOK
    /\ part = "validator" => ValidatorTypeOK
    /\ part = "development" => DevTypeOK
    /\ part = "cultivation" => CultivationTypeOK
    /\ part = "phases" => PhaseTypeOK
    /\ part = "refinement" => RefinementTypeOK
=============================================================================
