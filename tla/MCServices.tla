----------------------------- MODULE MCServices -----------------------------
(***************************************************************************)
(* The services on small instances, in one run: each behaviour is one of     *)
(* theirs.  They share nothing, so that what another would do meanwhile      *)
(* changes nothing for the one that is at work.                              *)
(***************************************************************************)
EXTENDS WaterCoordination, StateManager, ResourceManager, ResourceCoordinator,
        SimpleBreaker, ManagedOperations, Monitoring

VARIABLE service  \* the service of the behaviour

vars == <<service, waterVars, stateVars, managerVars, coordinatorVars, breakerVars,
          managedVars, monitorVars>>

\* Services that are not at work have nothing to choose.
Init ==
    /\ service \in {"water", "states", "resources", "managers", "breakers", "operations",
                    "monitors"}
    /\ WaterInit /\ StateInit /\ ManagerInit /\ CoordinatorInit
    /\ BreakerInit /\ ManagedInit /\ MonitorInit
    /\ service # "resources" => dependencies = [r \in Resources |-> {}]
    /\ service # "managers" => registered = {} /\ required = [m \in Managers |-> {}]
    /\ service # "operations" => manager = "cache"

Next ==
    \/ /\ service = "water" /\ WaterNext
       /\ UNCHANGED <<service, stateVars, managerVars, coordinatorVars,
                      breakerVars, managedVars, monitorVars>>
    \/ /\ service = "states" /\ StateNext
       /\ UNCHANGED <<service, waterVars, managerVars, coordinatorVars,
                      breakerVars, managedVars, monitorVars>>
    \/ /\ service = "resources" /\ ManagerNext
       /\ UNCHANGED <<service, waterVars, stateVars, coordinatorVars,
                      breakerVars, managedVars, monitorVars>>
    \/ /\ service = "managers" /\ CoordinatorNext
       /\ UNCHANGED <<service, waterVars, stateVars, managerVars,
                      breakerVars, managedVars, monitorVars>>
    \/ /\ service = "breakers" /\ BreakerNext
       /\ UNCHANGED <<service, waterVars, stateVars, managerVars,
                      coordinatorVars, managedVars, monitorVars>>
    \/ /\ service = "operations" /\ ManagedNext
       /\ UNCHANGED <<service, waterVars, stateVars, managerVars,
                      coordinatorVars, breakerVars, monitorVars>>
    \/ /\ service = "monitors" /\ MonitorNext
       /\ UNCHANGED <<service, waterVars, stateVars, managerVars,
                      coordinatorVars, breakerVars, managedVars>>

\* A coordination waits for the client of the model's API and for agents' answers
\* only, both with timeouts of their own: it proceeds.  Nothing else has to.
Fairness ==
    \A c \in Coordinations : WF_waterVars(service = "water" /\ CoordinationProceeds(c))

Spec == Init /\ [][Next]_vars /\ Fairness

-----------------------------------------------------------------------------
\* The variables of the service at work keep their types; the others' do not
\* change.
ServicesTypeOK ==
    /\ service = "water" => WaterTypeOK
    /\ service = "states" => StateTypeOK
    /\ service = "resources" => ManagerTypeOK
    /\ service = "managers" => CoordinatorTypeOK
    /\ service = "breakers" => BreakerTypeOK
    /\ service = "operations" => ManagedTypeOK
    /\ service = "monitors" => MonitorTypeOK

\* Managers start after what they require and stop before it, and the monitors
\* that they share run as they were last asked to.
ManagersInOrder == StartedAndStoppedInOrder /\ MonitorsAsAsked

\* What failed is counted, and acted upon, as often as it failed: by a circuit
\* breaker, and by the error recovery of a manager, whose cleanups leave the
\* accounts of the memory monitor in order.
FailuresCounted == BreakersCountRight /\ ErrorsHandledOnce /\ SizesOfEntries
=============================================================================
