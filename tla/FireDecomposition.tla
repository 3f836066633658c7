-------------------------- MODULE FireDecomposition --------------------------
(***************************************************************************)
(* The Fire agent (resources/fire_agent): the score of a guideline and of  *)
(* a feature, the level and the strategy that follow from it, and the      *)
(* decompositions; and the natural selection of phase three, which has the *)
(* features it evaluates analysed and decomposed one after the other.      *)
(*                                                                         *)
(* A guideline is the number of entries under each of its keys that the    *)
(* scores and the decompositions tell apart, and the words of layers in    *)
(* its text.  A key without entries is absent.  A feature is the same, the *)
(* keys that hold text instead of a list, and the words that count in its  *)
(* id, in its name and elsewhere in it.  Scores are in hundredths, so that *)
(* the weights are whole numbers.                                          *)
(***************************************************************************)
EXTENDS Integers, Sequences, FiniteSets

CONSTANTS
  Guidelines,    \* the guidelines that are analysed
  Features,      \* the features that are evaluated
  ConcernWords,  \* the words counted as cross-cutting concerns
  AreaWords,     \* the words counted as areas of the implementation
  MaxFeatures    \* bound: features of one evaluation

ASSUME WordsAssumption ==
  /\ IsFiniteSet(ConcernWords) /\ IsFiniteSet(AreaWords) /\ ConcernWords \cap AreaWords = {}
  /\ {"logging", "validation"} \subseteq ConcernWords /\ "service" \in AreaWords

Words == ConcernWords \cup AreaWords

ASSUME EntriesAssumption ==
  /\ Guidelines \subseteq
       [ responsibilities : Nat, capabilities : Nat, core : Nat, external : Nat, internal : Nat,
         features : Nat, components : Nat, interfaces : Nat, broad : Nat, nested : Nat, extra : Nat,
         deep : Nat, words : SUBSET {"ui", "logic", "data"}, wellformed : BOOLEAN ]
  /\ Features \subseteq
       [ scope : Nat, responsibilities : Nat, dependencies : Nat, related : Nat, concerns : Nat,
         areas : Nat, texts : SUBSET {"scope", "responsibilities"}, id : SUBSET Words,
         name : SUBSET Words, words : SUBSET Words, wellformed : BOOLEAN ]
  /\ MaxFeatures \in Nat

VARIABLES
  subject,       \* <<>>, or the guideline in work
  analysis,      \* the ComplexityAnalysis of it
  result,        \* <<>>, or the DecompositionResult of it
  agent_state,   \* of the natural selection agent
  waiting,       \* the features still to be looked at
  decomposing,   \* <<>>, or the feature whose decomposition is due
  interventions  \* fire_interventions of the evaluation

fireVars == <<subject, analysis, result, agent_state, waiting, decomposing, interventions>>

Contexts == {"phase_one", "phase_one_component_architecture"}

Capped(n, top) == IF n < top THEN n ELSE top
Present(n) == IF n > 0 THEN 1 ELSE 0
-----------------------------------------------------------------------------
(* What the scores see of a dictionary. *)

Dependencies(g) == g.core + g.external + g.internal

\* count_depth and count_keys; `extra` and `deep` are the keys and the depth of
\* what no score reads otherwise.
Shape(g) ==
  [ depth |-> LET listed == IF g.responsibilities + g.capabilities + Dependencies(g) + g.features
                                 + g.components + g.interfaces + g.broad > 0 THEN 2 ELSE 0
                  inner  == IF g.nested > 0 THEN 3 ELSE listed
              IN IF g.deep > inner THEN g.deep ELSE inner,
    keys |-> g.extra + Present(g.responsibilities) + Present(g.capabilities) + Present(Dependencies(g))
               + Present(g.features) + Present(g.components) + Present(g.interfaces)
               + Present(g.broad) + 2 * Present(g.nested),
    dependencies |-> Dependencies(g),
    scope |-> g.components + g.features + g.responsibilities + g.interfaces,
    responsibilities |-> g.responsibilities + g.capabilities,
    integration |-> g.interfaces ]

StructureScore(s) == Capped(10 * s.depth, 50) + Capped(2 * s.keys, 40)
DependencyScore(s) == Capped(Capped(15 * s.dependencies, 80) + (IF s.dependencies > 5 THEN 20 ELSE 0), 100)
ScopeScore(s, ctx) ==
  Capped(Capped(8 * s.scope, 80) + (IF ctx = "phase_one" /\ s.scope > 8 THEN 20 ELSE 0), 100)
ResponsibilityScore(s) == Capped(12 * s.responsibilities, 100)
IntegrationScore(s) == Capped(20 * s.integration, 100)

GuidelineScore(s, ctx) ==
  20 * StructureScore(s) + 25 * DependencyScore(s) + 25 * ScopeScore(s, ctx)
    + 20 * ResponsibilityScore(s) + 10 * IntegrationScore(s)

GuidelineCauses(s, ctx) ==
  { c \in {"HIGH_DEPENDENCY_COUNT", "BROAD_IMPLEMENTATION_SCOPE", "MULTIPLE_RESPONSIBILITIES",
           "INTEGRATION_COMPLEXITY"} :
      CASE c = "HIGH_DEPENDENCY_COUNT"      -> DependencyScore(s) > 60
        [] c = "BROAD_IMPLEMENTATION_SCOPE" -> ScopeScore(s, ctx) > 70
        [] c = "MULTIPLE_RESPONSIBILITIES"  -> ResponsibilityScore(s) > 65
        [] c = "INTEGRATION_COMPLEXITY"     -> IntegrationScore(s) > 75 }

\* ComplexityThreshold.get_level
Level(score, context) ==
  LET feature == context = "phase_three_feature"
      low == IF feature THEN 4500 ELSE 5500
      high == IF feature THEN 6000 ELSE 7000
      top == IF feature THEN 7500 ELSE 9000
  IN CASE score >= top  -> "CRITICAL"
       [] score >= high /\ score < top -> "HIGH"
       [] score >= low /\ score < high -> "MEDIUM"
       [] OTHER -> "LOW"

\* _determine_decomposition_strategy, which the decomposer does not ask
RecommendedStrategy(causes, score) ==
  IF causes = {} \/ score < 7000 THEN "none"
  ELSE IF "MULTIPLE_RESPONSIBILITIES" \in causes THEN "responsibility_extraction"
  ELSE IF "HIGH_DEPENDENCY_COUNT" \in causes THEN "dependency_reduction"
  ELSE IF "BROAD_IMPLEMENTATION_SCOPE" \in causes THEN "scope_narrowing"
  ELSE "functional_separation"

Fallback == [score |-> 5000, level |-> "MEDIUM", exceeds |-> FALSE, causes |-> {}, strategy |-> "none"]

\* analyze_guideline_complexity; an answer of the agent that is no dictionary
\* makes the analysis raise, and its fallback says that nothing is exceeded.
AnalysisOf(g, ctx) ==
  IF ~ g.wellformed THEN Fallback
  ELSE LET score == GuidelineScore(Shape(g), ctx)
           level == Level(score, "general")
           causes == GuidelineCauses(Shape(g), ctx)
       IN [ score |-> score, level |-> level, exceeds |-> level \in {"HIGH", "CRITICAL"},
            causes |-> causes, strategy |-> RecommendedStrategy(causes, score) ]
-----------------------------------------------------------------------------
(* Decomposition of a guideline. *)

\* _identify_architectural_layers; the key "interfaces" is a word of the
\* presentation layer itself.
Layers(g) ==
  { l \in {"presentation", "business", "data"} :
      CASE l = "presentation" -> "ui" \in g.words \/ g.interfaces > 0
        [] l = "business"     -> "logic" \in g.words
        [] l = "data"         -> "data" \in g.words }

\* _determine_guideline_strategy
ChosenStrategy(g) ==
  IF g.responsibilities > 3 \/ g.capabilities > 3 THEN "responsibility_extraction"
  ELSE IF Dependencies(g) > 5 THEN "dependency_reduction"
  ELSE IF g.broad > 6 \/ g.components > 6 THEN "scope_narrowing"
  ELSE IF Cardinality(g.words \cap {"ui", "data"}) >= 2 THEN "layer_separation"
  ELSE "functional_separation"

Made(depth, keys, dependencies, interfaces) ==
  [ depth |-> depth, keys |-> keys, dependencies |-> dependencies, scope |-> interfaces,
    responsibilities |-> 0, integration |-> interfaces ]

NoArchitecture == [made |-> FALSE, shape |-> Made(0, 0, 0, 0), parts |-> <<>>, single |-> 0, elements |-> 0]

\* _extract_responsibilities_from_guideline: the responsibilities under that key
\* alone, or else those of the nested architecture, four at most.
Extracted(g) ==
  LET found == IF g.responsibilities > 0 THEN g.responsibilities ELSE g.nested
      clusters == Capped(found, 4)
  IN IF clusters <= 1 THEN NoArchitecture
     ELSE [ made |-> TRUE,
            shape |-> Made(4, 4 + 4 * clusters, Capped(Dependencies(g), 3), Capped(g.interfaces, 2)),
            parts |-> [i \in 1..clusters |-> 1], single |-> 0, elements |-> clusters ]

\* _reduce_guideline_dependencies: a class of several dependencies becomes an
\* abstraction, a single one is kept.
Abstraction(n) == IF n > 1 THEN <<n>> ELSE <<>>
KeptAlone(n) == IF n = 1 THEN 1 ELSE 0
Reduced(g) ==
  LET abstracted == Abstraction(g.core) \o Abstraction(g.external) \o Abstraction(g.internal)
      single == KeptAlone(g.core) + KeptAlone(g.external) + KeptAlone(g.internal)
  IN IF Dependencies(g) = 0 THEN NoArchitecture
     ELSE [ made |-> TRUE,
            shape |-> Made(IF abstracted # <<>> THEN 4 ELSE IF g.features + g.interfaces > 0 THEN 3 ELSE 2,
                           6 + 3 * Len(abstracted), 0, 0),
            parts |-> abstracted, single |-> single, elements |-> Len(abstracted) ]

\* _narrow_guideline_scope: two core features, the others deferred in halves.
Narrowed(g) ==
  LET deferred == g.features - 2
  IN IF deferred <= 0 THEN NoArchitecture
     ELSE [ made |-> TRUE, shape |-> Made(4, 12 + 6 * deferred, 0, 0),
            parts |-> <<2, deferred \div 2, deferred - deferred \div 2>>, single |-> 0,
            elements |-> 1 + deferred ]

\* _separate_guideline_layers
Layered(g) ==
  LET n == Cardinality(Layers(g))
  IN IF n <= 1 THEN NoArchitecture
     ELSE [ made |-> TRUE, shape |-> Made(4, 3 + 5 * n, 0, 0),
            parts |-> [i \in 1..n |-> 1], single |-> 0, elements |-> n ]

\* _functionally_separate_guideline: always the same two areas, whatever it is given
Separated(g) ==
  [ made |-> TRUE, shape |-> Made(4, 9, 0, 0), parts |-> <<1, 1>>, single |-> 0, elements |-> 2 ]

\* The text of an answer that is no dictionary has layers like another; the
\* strategies that read keys find none and make nothing.
Architecture(g, strategy) ==
  CASE strategy = "layer_separation"      -> Layered(g)
    [] strategy = "functional_separation" -> Separated(g)
    [] OTHER ->
         CASE ~ g.wellformed                          -> NoArchitecture
           [] g.wellformed /\ strategy = "responsibility_extraction" -> Extracted(g)
           [] g.wellformed /\ strategy = "dependency_reduction"      -> Reduced(g)
           [] g.wellformed /\ strategy = "scope_narrowing"           -> Narrowed(g)

Failure == [success |-> FALSE, original |-> 0, new |-> 0, strategy |-> "none", arch |-> NoArchitecture]

\* Only an architecture with a lower score is a success; one with a higher score
\* is answered all the same, with a warning.
IsReduction(original, new) == new < original

\* decompose_complex_guideline with a strategy; the guideline is scored anew.
Decomposed(g, strategy, ctx) ==
  LET arch == Architecture(g, strategy)
      original == AnalysisOf(g, ctx).score
      new == IF arch.made THEN GuidelineScore(arch.shape, ctx) ELSE 0
  IN [ success |-> arch.made /\ IsReduction(original, new), original |-> original, new |-> new,
       strategy |-> strategy, arch |-> arch ]

\* Without a strategy: choosing one raises for an answer that is no dictionary.
DecomposedByChoice(g, ctx) ==
  IF g.wellformed THEN Decomposed(g, ChosenStrategy(g), ctx) ELSE Failure
-----------------------------------------------------------------------------
(* Features. *)

\* str(feature): a word counts wherever in it it stands, and once.
Text(f) == f.id \cup f.name \cup f.words
Concerns(f) == f.concerns + Cardinality(ConcernWords \cap Text(f))
Areas(f) == f.areas + Cardinality(AreaWords \cap Text(f))

ResponsibilitiesScore(f) ==
  Capped((IF "responsibilities" \in f.texts THEN 20 ELSE 25) * f.responsibilities, 100)

\* The five scores of analyze_feature_complexity under their weights
FeatureScore(f) ==
  30 * Capped((IF "scope" \in f.texts THEN 3 ELSE 20) * f.scope, 100)
    + 25 * ResponsibilitiesScore(f)
    + 20 * Capped(22 * (f.dependencies + f.related), 100)
    + 15 * Capped(18 * Concerns(f), 100) + 10 * Capped(15 * Areas(f), 100)

\* _determine_feature_decomposition_strategy
FeatureStrategy(f, score) ==
  IF score < 4500 THEN "none"
  ELSE IF Capped(18 * Concerns(f), 100) > 60 THEN "concern_isolation"
  ELSE IF ResponsibilitiesScore(f) > 70 THEN "functional_separation"
  ELSE "scope_narrowing"

FeatureExceeds(score) == Level(score, "phase_three_feature") \in {"MEDIUM", "HIGH", "CRITICAL"}

FeatureAnalysis(f) ==
  IF ~ f.wellformed THEN [Fallback EXCEPT !.strategy = "none"]
  ELSE [ score |-> FeatureScore(f), level |-> Level(FeatureScore(f), "phase_three_feature"),
         exceeds |-> FeatureExceeds(FeatureScore(f)), causes |-> {},
         strategy |-> FeatureStrategy(f, FeatureScore(f)) ]

\* A part has a scope and words of its own and carries what its parent gives it:
\* the id, and the name but in a service split off.
Part(given, scope, own) ==
  [ scope |-> scope, responsibilities |-> 0, dependencies |-> 0, related |-> 0, concerns |-> 0,
    areas |-> 0, texts |-> {}, id |-> given, name |-> {}, words |-> own, wellformed |-> TRUE ]

\* By the strategies that the analysis recommends; their number and their own
\* contents are the same whatever the feature holds.
FeatureParts(f, strategy) ==
  LET called == f.id \cup f.name
  IN CASE strategy = "concern_isolation" ->
            <<Part(called, 1, {}), Part(f.id, 1, {"logging", "service"}),
              Part(f.id, 1, {"validation", "service"})>>
       [] strategy = "scope_narrowing" ->
            <<Part(called, 1, {}), Part(called, 2, {}), Part(called, 2, {})>>
       [] OTHER -> <<Part(called, 0, {}), Part(called, 0, {"validation"})>>

SumOfScores(parts) ==
  LET total[i \in 0..Len(parts)] == IF i = 0 THEN 0 ELSE total[i - 1] + FeatureScore(parts[i])
  IN total[Len(parts)]

\* decompose_complex_feature: the original score is taken without the related
\* features of the performance data; the reduction is times the number of parts.
\* A decomposition that reduces nothing is a success all the same.
Alone(f) == [f EXCEPT !.related = 0]
FeatureDecomposition(f, strategy) ==
  LET parts == FeatureParts(f, strategy)
      original == IF f.wellformed THEN FeatureScore(Alone(f)) ELSE Fallback.score
  IN [ success |-> Len(parts) > 1, strategy |-> strategy, parts |-> parts,
       reduction |-> Len(parts) * original - SumOfScores(parts) ]
-----------------------------------------------------------------------------
FireInit ==
  /\ subject = <<>> /\ analysis = Fallback /\ result = <<>>
  /\ agent_state = "READY" /\ waiting = <<>> /\ decomposing = <<>> /\ interventions = <<>>

evaluationVars == <<agent_state, waiting, decomposing, interventions>>

\* A guideline and an evaluation are not in work at once: they share nothing.
AnalyzeGuideline(g, ctx) ==
  /\ agent_state = "READY" /\ subject = <<>>
  /\ subject' = <<g>> /\ analysis' = AnalysisOf(g, ctx) /\ result' = <<>>
  /\ UNCHANGED evaluationVars

\* The workflow decomposes what exceeds, under a context of another name; other
\* callers name a strategy of theirs.
DecomposeGuideline(outcome) ==
  /\ subject # <<>> /\ result = <<>>
  /\ result' = <<outcome>>
  /\ UNCHANGED <<subject, analysis>> /\ UNCHANGED evaluationVars

DecomposeByChoice ==
  subject # <<>> /\ DecomposeGuideline(DecomposedByChoice(subject[1], "phase_one_component_architecture"))

DecomposeOtherwise(strategy) ==
  subject # <<>> /\ DecomposeGuideline(Decomposed(subject[1], strategy, "phase_one_component_architecture"))

\* evaluate_features up to the loop of the Fire agent
StartEvaluation(fs) ==
  /\ agent_state # "PROCESSING" /\ subject = <<>>
  /\ agent_state' = "PROCESSING" /\ waiting' = fs /\ interventions' = <<>>
  /\ UNCHANGED <<subject, analysis, result, decomposing>>

AnalyzeFeature ==
  /\ agent_state = "PROCESSING" /\ decomposing = <<>> /\ waiting # <<>>
  /\ waiting' = Tail(waiting)
  /\ decomposing' = IF FeatureAnalysis(Head(waiting)).exceeds THEN <<Head(waiting)>> ELSE <<>>
  /\ UNCHANGED <<subject, analysis, result, agent_state, interventions>>

InterventionOf(f) ==
  LET strategy == FeatureAnalysis(f).strategy
      done == FeatureDecomposition(f, IF strategy = "none" THEN "functional_separation" ELSE strategy)
  IN IF done.success THEN <<[feature |-> f, reduction |-> done.reduction, parts |-> done.parts]>> ELSE <<>>

DecomposeFeature ==
  /\ decomposing # <<>>
  /\ interventions' = interventions \o InterventionOf(decomposing[1])
  /\ decomposing' = <<>>
  /\ UNCHANGED <<subject, analysis, result, agent_state, waiting>>

\* A state that cannot be stored ends the loop; the features left are not looked
\* at and the evaluation goes on with what it has.
LoopFails ==
  /\ agent_state = "PROCESSING" /\ (waiting # <<>> \/ decomposing # <<>>)
  /\ waiting' = <<>> /\ decomposing' = <<>>
  /\ UNCHANGED <<subject, analysis, result, agent_state, interventions>>

\* The feedback and the decision of the model come back as dictionaries, errors
\* included, and the agent is COMPLETE with either; or its state cannot be set, or
\* the features cannot be written as JSON, and the answer is an error.
EvaluationEnds(state) ==
  /\ agent_state = "PROCESSING" /\ waiting = <<>> /\ decomposing = <<>>
  /\ agent_state' = state
  /\ interventions' = IF state = "ERROR" THEN <<>> ELSE interventions
  /\ UNCHANGED <<subject, analysis, result, waiting, decomposing>>

FireStrategies == {"responsibility_extraction", "dependency_reduction", "scope_narrowing",
               "layer_separation", "functional_separation"}

FireNext ==
  \/ subject = <<>> /\ \E g \in Guidelines, ctx \in Contexts : AnalyzeGuideline(g, ctx)
  \/ DecomposeByChoice
  \/ \E strategy \in FireStrategies : DecomposeOtherwise(strategy)
  \/ /\ subject = <<>> /\ agent_state # "PROCESSING"
     /\ \E n \in 1..MaxFeatures : \E fs \in [1..n -> Features] : StartEvaluation(fs)
  \/ AnalyzeFeature \/ DecomposeFeature \/ LoopFails
  \/ \E state \in {"COMPLETE", "ERROR"} : EvaluationEnds(state)

FireSpec == FireInit /\ [][FireNext]_fireVars
-----------------------------------------------------------------------------
PossibleScores == {n \in Nat : n <= 10000}

FireTypeOK ==
  /\ Len(subject) <= 1
  /\ analysis.score \in PossibleScores /\ analysis.level \in {"LOW", "MEDIUM", "HIGH", "CRITICAL"}
  /\ analysis.exceeds \in BOOLEAN
  /\ result = <<>> \/ (result[1].success \in BOOLEAN /\ result[1].new \in PossibleScores)
  /\ agent_state \in {"READY", "PROCESSING", "COMPLETE", "ERROR"}
  /\ waiting \in Seq(Features) /\ Len(waiting) <= MaxFeatures
  /\ Len(decomposing) <= 1
  /\ Len(interventions) <= MaxFeatures

\* A guideline over the threshold is over it for a reason: the scores that name
\* no cause do not add up to the threshold, so a strategy is always recommended
\* (complexity_detector.py:69-98).
ExceedingHasCause == analysis.exceeds => analysis.causes # {} /\ analysis.strategy # "none"

\* A guideline that exceeded comes back simple: whatever architecture is made of
\* it by whichever strategy scores LOW, although the decomposer scores the
\* guideline anew under another context than the analysis (decomposer.py:105-119).
ExceedingComesBackSimple ==
  result # <<>> /\ analysis.exceeds /\ result[1].arch.made
    => result[1].success /\ Level(result[1].new, "general") = "LOW"

\* What a decomposition distributes it distributes completely: every dependency
\* is in one abstraction or kept, every feature is in one of the three phases and
\* the deferred ones are halved; an extraction keeps at most four clusters and
\* never one alone (decomposer.py:445-570).
SumOfParts(s) == LET total[i \in 0..Len(s)] == IF i = 0 THEN 0 ELSE total[i - 1] + s[i] IN total[Len(s)]

NothingForgotten ==
  result # <<>> /\ result[1].arch.made =>
    LET g == subject[1]
        arch == result[1].arch
    IN CASE result[1].strategy = "dependency_reduction" ->
              SumOfParts(arch.parts) + arch.single = Dependencies(g)
         [] result[1].strategy = "scope_narrowing" ->
              SumOfParts(arch.parts) = g.features /\ arch.parts[3] - arch.parts[2] \in 0..1
         [] result[1].strategy = "responsibility_extraction" ->
              /\ Len(arch.parts) \in 2..4
              /\ g.responsibilities \in 1..4 => Len(arch.parts) = g.responsibilities
         [] OTHER -> Len(arch.parts) \in 2..3

\* Natural selection is told of an intervention whose parts do not exceed again,
\* whatever words the id and the name of the feature carry into all of them.  The
\* feature was found complex with its related features and is scored without them
\* when it is decomposed: each part is simpler than it if it exceeds without them
\* as well, or if no word of its id and name counts (natural_selection.py:100-145,
\* decomposer.py:661-799).
PartsAreSimpler(v) ==
  LET alone == FeatureScore(Alone(v.feature))
  IN FeatureExceeds(alone) \/ v.feature.id \cup v.feature.name = {} =>
       v.reduction > 0 /\ \A k \in 1..Len(v.parts) : FeatureScore(v.parts[k]) < alone

InterventionsReduce ==
  \A i \in 1..Len(interventions) :
    /\ \A k \in 1..Len(interventions[i].parts) : ~ FeatureAnalysis(interventions[i].parts[k]).exceeds
    /\ PartsAreSimpler(interventions[i])

FireTellsRight ==
  ExceedingHasCause /\ ExceedingComesBackSimple /\ NothingForgotten /\ InterventionsReduce
=============================================================================
