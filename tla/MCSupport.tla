------------------------------ MODULE MCSupport ------------------------------
(***************************************************************************)
(* What stands around phase one, on small instances, in one run: each        *)
(* behaviour is one facility's.  They share nothing in these models, so that *)
(* what another would do meanwhile changes nothing for the one at work.      *)
(***************************************************************************)
EXTENDS ArchitectureValidation, SteppedWorkflow, HandOffs, LoopRegistry,
        LockManager, Runners, UpdateSlots, PhaseOneAgents, FireDecomposition, AirAgent

CONSTANTS
    na, nb,     \* the names of components
    ga, gb, gc  \* the agents that update their states

VARIABLE facility  \* the facility whose behaviour it is

vars == <<facility, validationVars, steppedVars, handVars, loopVars, lockVars, runnerVars,
          slotVars, agentsVars, fireVars, airVars>>

MCPriorities == [a \in SlotAgents |->
    CASE a = ga -> "HIGH" [] a = gb -> "CRITICAL" [] OTHER -> "LOW"]

MCSequence == <<"garden", "earth", "refine">>

\* Order does not matter to any check of flows: one order of each two.  One flow to
\* its own source is enough, one flow twice, and of two flows from or to the outside
\* those of one component.
MCFlows == [source : Nodes, destination : Nodes, data_type : {"given"}]
MCOutside(f) == "external" \in {f.source, f.destination}
MCTwoFlows ==
    {fs \in kSubset(2, {f \in MCFlows : f.source # f.destination}) :
        (\A f \in fs : MCOutside(f)) => \A f \in fs : na \in {f.source, f.destination}}
MCFlow(from, to, type) == [source |-> from, destination |-> to, data_type |-> type]
MCIncompleteFlows ==
    {MCFlow(Absent, nb, "given"), MCFlow(na, Absent, "given"), MCFlow(na, nb, Absent)}
MCDataFlows ==
    {<<>>, Malformed} \cup {SetToSeq(f) : f \in MCTwoFlows}
        \cup {<<f>> : f \in MCFlows \cup MCIncompleteFlows}
        \cup {<<f, MCFlow(na, nb, "given")>> : f \in MCIncompleteFlows}
        \cup {<<MCFlow(na, nb, "given"), MCFlow(na, nb, "given")>>}

\* The first component is na, with number 1: names and numbers are only compared.
MCComponents ==
    [name : Names, number : 1 .. 2, required : (SUBSET Names) \cup {Unsaid}]
MCIncomplete ==
    {[name |-> Absent, number |-> 2, required |-> {na}],
     [name |-> nb, number |-> Absent, required |-> {na}],
     [name |-> nb, number |-> Absent, required |-> Absent]}
MCFirst == {c \in MCComponents : c.name = na /\ c.number = 1}
MCStructures ==
    {<<>>, Malformed} \cup {<<c>> : c \in MCFirst}
        \cup {cd \in MCFirst \X MCComponents :
                    \/ cd[2].name = nb /\ cd[2].number = 2
                    \/ cd[1].required = cd[2].required /\ cd[1].required \in {{}, {nb}}}
        \cup {c \in MCFirst : c.required = {}} \X MCIncomplete

\* A number of entries under each key, on both sides of the limits of the
\* scores; keys no other key is weighed against go with few others.
MCGuidelines ==
    { g \in [ responsibilities : {0, 1, 6}, capabilities : {0, 4}, core : {0, 2, 4},
              external : {0, 1, 4}, internal : {0}, features : {0, 5}, components : {0, 8},
              interfaces : {0, 4}, broad : {0, 7}, nested : {0, 2},
              words : {{}, {"ui", "data"}}, extra : {0, 20}, deep : {0, 5},
              wellformed : BOOLEAN ] :
        /\ (g.extra = 0) = (g.deep = 0) /\ (g.extra > 0) = (g.interfaces > 0)
        /\ (g.nested > 0 \/ g.words # {}) => g.capabilities = 0 /\ g.external = 0
        /\ g.nested > 0 => g.responsibilities = 0
        /\ g.words # {} => g.features = 0
        /\ g.broad > 0 => g.components = 0 /\ g.capabilities = 0 /\ g.external = 0
        /\ g.wellformed \/ g.core + g.external + g.responsibilities = 0 }

\* Words in the id and in the name, text for a scope, and a feature that exceeds
\* by what it is related to alone.
MCFeatures ==
    { f \in [ scope : {0, 3, 40}, responsibilities : {0, 5}, dependencies : {0, 4},
              related : {0, 5}, concerns : {0, 5}, areas : {0}, texts : {{}, {"scope"}},
              id : {{}, {"validation", "service"}}, name : {{}, {"ui"}}, words : {{}},
              wellformed : BOOLEAN ] :
        /\ f.wellformed \/ f.scope + f.responsibilities + f.dependencies + f.related + f.concerns = 0
        /\ f.wellformed \/ f.id = {}
        /\ (f.related > 0 \/ f.concerns > 0) => f.scope > 0 /\ f.dependencies = 0
        /\ (f.scope = 40) = ("scope" \in f.texts)
        /\ f.scope = 40 => f.responsibilities = 5 /\ f.dependencies = 0
        /\ f.id # {} => f.scope = 3 /\ f.dependencies = 0 /\ f.related + f.concerns > 0
        /\ (f.name # {}) = (f.id # {} /\ f.concerns > 0) }
MCConcernWords == {"logging", "validation"}
MCAreaWords == {"service", "ui"}

MCSources == {<<"refiner", "refinement_necessity", "phase_one">>,
              <<"refiner", "refinement_strategy", "phase_one">>}

\* What the validators say of each input are counts of errors: TLC evaluates this
\* before it searches, and with it each input once.  (No proof uses it: AgentsProofs
\* shows it for all inputs.)
ASSUME ErrorsCounted ==
    LET Counts == [{"flow", "structure", "other"} -> Nat]
    IN  /\ FlowErrorsOf \in [DataFlows -> Counts]
        /\ StructureErrorsOf \in [Structures -> Counts]

\* Facilities that are not at work have nothing to choose.
Init ==
    /\ facility \in {"validation", "steps", "handoffs", "loops", "lock", "runner",
                    "slots", "agents", "fire", "air"}
    /\ ValidationInit /\ SteppedInit /\ HandInit /\ LoopInit /\ LockInit /\ RunnerInit
    /\ SlotInit /\ AgentsInit /\ FireInit /\ AirInit
    /\ facility # "lock" => \A x \in Acquirers : acquirer[x].thread = MainThread
    /\ facility # "runner" => mode = "gui"
    /\ facility # "agents" => agent_class = "Earth"

Next ==
    \/ /\ facility = "validation" /\ ValidationNext
       /\ UNCHANGED <<facility, steppedVars, handVars, loopVars, lockVars,
                      runnerVars, slotVars, agentsVars, fireVars, airVars>>
    \/ /\ facility = "steps" /\ SteppedNext
       /\ UNCHANGED <<facility, validationVars, handVars, loopVars, lockVars,
                      runnerVars, slotVars, agentsVars, fireVars, airVars>>
    \/ /\ facility = "handoffs" /\ HandNext
       /\ UNCHANGED <<facility, validationVars, steppedVars, loopVars, lockVars,
                      runnerVars, slotVars, agentsVars, fireVars, airVars>>
    \/ /\ facility = "loops" /\ LoopNext
       /\ UNCHANGED <<facility, validationVars, steppedVars, handVars, lockVars,
                      runnerVars, slotVars, agentsVars, fireVars, airVars>>
    \/ /\ facility = "lock" /\ LockNext
       /\ UNCHANGED <<facility, validationVars, steppedVars, handVars, loopVars,
                      runnerVars, slotVars, agentsVars, fireVars, airVars>>
    \/ /\ facility = "runner" /\ RunnerNext
       /\ UNCHANGED <<facility, validationVars, steppedVars, handVars, loopVars,
                      lockVars, slotVars, agentsVars, fireVars, airVars>>
    \/ /\ facility = "slots" /\ SlotsNext
       /\ UNCHANGED <<facility, validationVars, steppedVars, handVars, loopVars,
                      lockVars, runnerVars, agentsVars, fireVars, airVars>>
    \/ /\ facility = "agents" /\ AgentsNext
       /\ UNCHANGED <<facility, validationVars, steppedVars, handVars, loopVars,
                      lockVars, runnerVars, slotVars, fireVars, airVars>>
    \/ /\ facility = "fire" /\ FireNext
       /\ UNCHANGED <<facility, validationVars, steppedVars, handVars, loopVars,
                      lockVars, runnerVars, slotVars, agentsVars, airVars>>
    \/ /\ facility = "air" /\ AirNext
       /\ UNCHANGED <<facility, validationVars, steppedVars, handVars, loopVars,
                      lockVars, runnerVars, slotVars, agentsVars, fireVars>>

Spec == Init /\ [][Next]_vars

-----------------------------------------------------------------------------
\* The variables of the facility at work keep their types; the others' do not
\* change.
SupportTypeOK ==
    /\ facility = "validation" => ValidationTypeOK
    /\ facility = "steps" => SteppedTypeOK
    /\ facility = "handoffs" => HandTypeOK
    /\ facility = "loops" => LoopTypeOK
    /\ facility = "lock" => LockTypeOK
    /\ facility = "runner" => RunnerTypeOK
    /\ facility = "slots" => SlotsTypeOK
    /\ facility = "agents" => AgentsTypeOK
    /\ facility = "fire" => FireTypeOK
    /\ facility = "air" => AirTypeOK

\* What the lock manager counts says who holds it and who waits, but for the readers
\* that failed; what the coordinator of the agents' updates counts says who is in a
\* slot, but for those whose agent's record another took away.
AccountsKept == LockAccounts /\ SlotsKept

\* What a stepped workflow, an agent of phase one, the Fire agent and the Air
\* agent tell is what happened.
ToldRight ==
    /\ facility = "steps" => StepsToldRight
    /\ facility = "agents" => AgentsTellRight
    /\ facility = "fire" => FireTellsRight
    /\ facility = "air" => AirTellsRight
=============================================================================
