----------------------- MODULE ArchitectureValidation -----------------------
(***************************************************************************)
(* phase_one/validation/technical_validator.py and validator.py over         *)
(* dependency.py's DependencyValidator: data flows and component structures  *)
(* are registered, checked on their own and against one another, and revised *)
(* by the agents that wrote them until they fit or the attempts are used up. *)
(* The two validators differ in the agent that decides between the authors.  *)
(* One caller uses a validator at a time.                                    *)
(***************************************************************************)
EXTENDS Naturals, FiniteSets, SequencesExt

CONSTANTS
    Names,          \* names of components
    Malformed,      \* a dict without the expected key
    Absent,         \* None, or a field that an entry lacks
    Unsaid,         \* dependencies that lack "required"
    DataFlows,      \* what agents may write
    Structures,
    max_attempts

VARIABLES
    validationState,
    dataFlow,   \* _data_flow, of the validator and of its dependency validator
    structure,  \* _structural_breakdown, of both
    lastErrors, \* _last_validation_errors
    workflow    \* execute_validation_workflow: where it is, and its attempts

validationVars == <<validationState, dataFlow, structure, lastErrors, workflow>>

ValidationStates == {"NOT_STARTED", "DATA_FLOW_VALIDATING", "DATA_FLOW_REVISING",
                     "STRUCTURAL_VALIDATING", "STRUCTURAL_REVISING", "CROSS_VALIDATING",
                     "ARBITRATION", "COMPLETED"}

Nodes == Names \union {"external"}

ASSUME ArchitectureAssumption ==
    /\ IsFiniteSet(Names) /\ Absent \notin Nodes
    /\ DataFlows \ {Malformed} \subseteq
           Seq([source : Nodes \union {Absent}, destination : Nodes \union {Absent},
                data_type : {"given", Absent}])
    /\ Structures \ {Malformed} \subseteq
           Seq([name : Names \union {Absent}, number : Nat \union {Absent},
                required : (SUBSET Names) \union {Absent, Unsaid}])
    /\ max_attempts \in Nat \ {0}

\* Errors are counted by the agent they are laid to; "other" ones to none.
NoErrors == [flow |-> 0, structure |-> 0, other |-> 0]
Found(errors) == errors # NoErrors

-----------------------------------------------------------------------------
\* Mutants: mistakes the properties must reject.  No run uses them as they
\* stand; each is put in the place of the definition it is named after.

\* Mutant: the search forgets a node on every way out, so that nothing is on the way.
CycleErrors_SelfOnly(graph) ==
    IF \E n \in DOMAIN graph : n \in graph[n] THEN 1 ELSE 0

-----------------------------------------------------------------------------
(* DependencyInterface: the checks *)

\* The fields that each entry must have; required stands for the dependencies.
FlowFields == {"source", "destination", "data_type"}
ComponentFields == {"name", "number", "required"}

\* The fields that are missing, each an error that is laid to no agent; an entry without
\* one of them is not checked any further on its own.
Lacking(seq, fields) == {p \in (DOMAIN seq) \X fields : seq[p[1]][p[2]] = Absent}
Whole(seq, fields) == {i \in DOMAIN seq : \A field \in fields : seq[i][field] # Absent}

\* Whole entries whose like occurred before, by the fields that they are compared by.
Repeated(seq, fields, compared) ==
    {i \in Whole(seq, fields) : \E j \in Whole(seq, fields) :
        j < i /\ \A field \in compared : seq[j][field] = seq[i][field]}

\* What a component says that it requires, if it does.
Says(c) == c.required \notin {Absent, Unsaid}
Requirements(c) == IF Says(c) THEN c.required ELSE {}

\* has_cycle, depth first: what was visited, the calls in progress from the start on,
\* the edges looked at, and whether one led back to a call in progress.
Searches(nodes) ==
    [visited : SUBSET nodes, recursion_stack : Seq(nodes), looked : SUBSET (nodes \X nodes),
     found : BOOLEAN]
Unsearched == [visited |-> {}, recursion_stack |-> <<>>, looked |-> {}, found |-> FALSE]

Visits(node, s) ==
    [s EXCEPT !.visited = @ \union {node}, !.recursion_stack = Append(@, node)]
Returns(s) == [s EXCEPT !.recursion_stack = Front(@)]

\* A neighbour is visited when it is new; a call in progress that is met closes a cycle.
LooksAt(node, next, s) ==
    LET seen == [s EXCEPT !.looked = @ \union {<<node, next>>}]
    IN  IF next \notin s.visited THEN Visits(next, seen)
        ELSE [seen EXCEPT !.found = next \in Range(s.recursion_stack)]

\* The last call goes on to its next neighbour, or returns; between two calls from
\* outside, a node that was not visited is next.  A cycle ends the search.
SearchStep(graph, s) ==
    LET node == Last(s.recursion_stack)
        left == {n \in graph[node] : <<node, n>> \notin s.looked}
        new == DOMAIN graph \ s.visited
    IN  CASE s.found -> s
          [] ~s.found /\ s.recursion_stack = <<>> ->
                IF new = {} THEN s ELSE Visits(CHOOSE n \in new : TRUE, s)
          [] ~s.found /\ s.recursion_stack # <<>> ->
                IF left = {} THEN Returns(s) ELSE LooksAt(node, CHOOSE n \in left : TRUE, s)

\* Each node is called and left once, each edge looked at once.
SearchLength(graph) == Cardinality(DOMAIN graph) * (Cardinality(DOMAIN graph) + 2)
HasCycle(graph) ==
    LET searched[n \in 0..SearchLength(graph)] ==
            IF n = 0 THEN Unsearched ELSE SearchStep(graph, searched[n - 1])
    IN  searched[SearchLength(graph)].found

\* The number of errors that the search over all nodes adds: the first cycle ends it.
CycleErrors(graph) == IF HasCycle(graph) THEN 1 ELSE 0

\* "external" is a node like the others; a flow needs no type to be an edge.
FlowGraph(flows) ==
    [n \in Nodes |-> {f.destination : f \in {g \in Range(flows) : g.source = n}} \ {Absent}]

FlowErrors(flows) ==
    IF flows = Malformed THEN [NoErrors EXCEPT !.flow = 1]
    ELSE LET selfReferences == {i \in Whole(flows, FlowFields) :
                                   flows[i].source = flows[i].destination}
         IN  [NoErrors EXCEPT !.flow = Cardinality(selfReferences)
                                         + Cardinality(Repeated(flows, FlowFields, {"source", "destination"}))
                                         + CycleErrors(FlowGraph(flows)),
                              !.other = Cardinality(Lacking(flows, FlowFields))]

NamesUpTo(components, i) ==
    {components[j].name : j \in {k \in Whole(components, ComponentFields) : k <= i}}

\* The first component may require what follows.
Undefined(components) ==
    {p \in (Whole(components, ComponentFields) \ {1}) \X Names :
        p[2] \in Requirements(components[p[1]]) \ NamesUpTo(components, p[1])}

\* A component needs no number to be in the graph.
RequiredGraph(components) ==
    [n \in Names |-> UNION {Requirements(c) : c \in {d \in Range(components) : d.name = n}}]

StructureErrors(components) ==
    IF components = Malformed THEN [NoErrors EXCEPT !.structure = 1]
    ELSE [NoErrors EXCEPT !.structure =
                               Cardinality(Repeated(components, ComponentFields, {"name"}))
                             + Cardinality(Repeated(components, ComponentFields, {"number"}))
                             + Cardinality(Undefined(components))
                             + CycleErrors(RequiredGraph(components)),
                          !.other = Cardinality(Lacking(components, ComponentFields))]

\* The flows of a malformed data flow are none; the structure has been checked, so that
\* its components are whole.  Those that do not say what they require are passed over,
\* and so are flows without a source or a destination.
CrossErrors(flows, components) ==
    IF flows = Absent THEN [NoErrors EXCEPT !.other = 1]
    ELSE LET all == IF flows = Malformed THEN <<>> ELSE flows
             names == {c.name : c \in Range(components)}
             unknown(field) == {i \in DOMAIN all :
                                   all[i][field] \notin names \union {"external", Absent}}
             from(n) == IF n = "external" THEN {}
                        ELSE {f.source : f \in {g \in Range(all) : g.destination = n}}
                                 \ {"external", Absent}
             saying == {i \in DOMAIN components : Says(components[i])}
             unstructured == {p \in saying \X Names :
                 p[2] \in from(components[p[1]].name) \ components[p[1]].required}
             flowless == {p \in saying \X (Names \intersect names) :
                 p[2] \in components[p[1]].required \ from(components[p[1]].name)}
         IN  [NoErrors EXCEPT !.flow = Cardinality(unknown("source"))
                                         + Cardinality(unknown("destination"))
                                         + Cardinality(flowless),
                              !.structure = Cardinality(unstructured)]

-----------------------------------------------------------------------------
(* The validators *)

FlowErrorsOf == [flows \in DataFlows |-> FlowErrors(flows)]
StructureErrorsOf == [components \in Structures |-> StructureErrors(components)]

ValidationInit ==
    /\ validationState = "NOT_STARTED"
    /\ dataFlow = Absent /\ structure = Absent /\ lastErrors = NoErrors
    /\ workflow = [at |-> "idle", attempt |-> 0]

\* Errors replace those of the last check; a check without errors leaves them.
Keeps(errors) == lastErrors' = IF Found(errors) THEN errors ELSE lastErrors

ChecksDataFlow(flows) ==
    LET errors == FlowErrorsOf[flows]
    IN  /\ dataFlow' = flows
        /\ Keeps(errors)
        /\ validationState' = IF Found(errors) THEN "DATA_FLOW_REVISING"
                                               ELSE "DATA_FLOW_VALIDATING"
        /\ UNCHANGED structure

\* A structure without errors is checked against the data flow, whatever the checks
\* said of that.
ChecksStructure(components) ==
    LET own == StructureErrorsOf[components]
        errors == IF Found(own) THEN own ELSE CrossErrors(dataFlow, components)
    IN  /\ structure' = components
        /\ Keeps(errors)
        /\ validationState' = CASE Found(own) -> "STRUCTURAL_REVISING"
                                [] ~Found(own) /\ Found(errors) -> "ARBITRATION"
                                [] OTHER -> "COMPLETED"
        /\ UNCHANGED dataFlow

RegisterDataFlow(flows) ==
    /\ workflow.at = "idle"
    /\ ChecksDataFlow(flows)
    /\ UNCHANGED workflow

RegisterStructure(components) ==
    /\ workflow.at = "idle"
    /\ ChecksStructure(components)
    /\ UNCHANGED workflow

BeginWorkflow ==
    /\ workflow.at = "idle"
    /\ workflow' = [at |-> "attempt", attempt |-> 1]
    /\ UNCHANGED <<validationState, dataFlow, structure, lastErrors>>

\* The end of an attempt: the workflow returns when the validation is complete.
AttemptEnds ==
    workflow' = IF validationState' = "COMPLETED" \/ workflow.attempt = max_attempts
                  THEN [at |-> "idle", attempt |-> 0]
                  ELSE [at |-> "attempt", attempt |-> workflow.attempt + 1]

\* An answer without the revised part changes nothing.
ReviseDataFlow ==
    /\ workflow.at = "attempt" /\ validationState = "DATA_FLOW_REVISING"
    /\ \/ \E flows \in DataFlows : ChecksDataFlow(flows)
       \/ UNCHANGED <<validationState, dataFlow, structure, lastErrors>>
    /\ AttemptEnds

ReviseStructure ==
    /\ workflow.at = "attempt" /\ validationState = "STRUCTURAL_REVISING"
    /\ \/ \E components \in Structures : ChecksStructure(components)
       \/ UNCHANGED <<validationState, dataFlow, structure, lastErrors>>
    /\ AttemptEnds

\* determine_responsible_agent
Responsible(errors) ==
    IF errors.structure > errors.flow THEN "STRUCTURAL_REVISING" ELSE "DATA_FLOW_REVISING"

\* perform_technical_validation, perform_arbitration: an agent names the author, or
\* the counts of errors do; the same attempt goes on with the revision.
Decide(next) ==
    /\ workflow.at = "attempt" /\ validationState = "ARBITRATION"
    /\ validationState' = next
    /\ UNCHANGED <<dataFlow, structure, lastErrors, workflow>>

DecidedByAgent == \E next \in {"DATA_FLOW_REVISING", "STRUCTURAL_REVISING"} : Decide(next)
DecidedByErrors == Decide(Responsible(lastErrors))

\* In any other state an attempt does nothing.
IdleAttempt ==
    /\ workflow.at = "attempt"
    /\ validationState \notin {"DATA_FLOW_REVISING", "STRUCTURAL_REVISING", "ARBITRATION"}
    /\ UNCHANGED <<validationState, dataFlow, structure, lastErrors>>
    /\ AttemptEnds

\* An agent's exception ends the workflow.
WorkflowRaises ==
    /\ workflow.at = "attempt"
    /\ validationState \in {"DATA_FLOW_REVISING", "STRUCTURAL_REVISING", "ARBITRATION"}
    /\ workflow' = [at |-> "idle", attempt |-> 0]
    /\ UNCHANGED <<validationState, dataFlow, structure, lastErrors>>

ValidationNext ==
    \/ \E flows \in DataFlows : RegisterDataFlow(flows)
    \/ \E components \in Structures : RegisterStructure(components)
    \/ BeginWorkflow \/ ReviseDataFlow \/ ReviseStructure
    \/ DecidedByAgent \/ DecidedByErrors \/ IdleAttempt \/ WorkflowRaises

-----------------------------------------------------------------------------
(* Properties *)

ValidationTypeOK ==
    /\ validationState \in ValidationStates
    /\ dataFlow \in DataFlows \union {Absent} /\ structure \in Structures \union {Absent}
    /\ DOMAIN lastErrors = {"flow", "structure", "other"}
    /\ \A kind \in DOMAIN lastErrors : lastErrors[kind] \in Nat
    /\ workflow \in [at : {"idle", "attempt"}, attempt : 0..max_attempts]

\* The components can be put in an order in which each follows those that it requires.
Orderable(components) ==
    \E rank \in [Names -> 1..Cardinality(Names)] :
        \A c \in Range(components), n \in Names :
            n \in Requirements(c) => rank[n] < rank[c.name]

\* What a completed validation says: every component has its own name and number, an
\* order of development exists, and a component that says what it requires requires
\* another exactly if data flows to it from there.  One whose dependencies lack
\* "required" is held to nothing, whatever flows to it; nor are a flow's missing fields
\* looked at again; and one that is named "external" is taken for the outside.
CompletedIsBuildable ==
    validationState = "COMPLETED" =>
        LET flows == IF dataFlow = Malformed THEN {} ELSE Range(dataFlow)
            names == {c.name : c \in Range(structure)}
        IN  /\ \A i, j \in DOMAIN structure : i # j =>
                    /\ structure[i].name # structure[j].name
                    /\ structure[i].number # structure[j].number
            /\ Orderable(structure)
            /\ \A c \in Range(structure), n \in names \ {"external"} :
                    Says(c) /\ c.name # "external" =>
                        (n \in c.required <=>
                            \E f \in flows : f.source = n /\ f.destination = c.name)
            /\ \A f \in flows :
                    {f.source, f.destination} \subseteq names \union {"external", Absent}
=============================================================================
