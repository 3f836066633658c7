------------------------------ MODULE AirAgent ------------------------------
(***************************************************************************)
(* The Air agent (resources/air_agent): the history of decisions and of    *)
(* Fire interventions that is kept under keys of a store, the patterns of  *)
(* success and failure that are read out of it, and the contexts that are  *)
(* given to the agents that ask for advice.                                *)
(*                                                                         *)
(* Reading changes nothing, so histories, patterns and contexts are        *)
(* operators over the store, for any key that cannot be read; tracking,    *)
(* clearing and the passing of days are the actions.  The store is one     *)
(* that lists keys in the order of writing and gives records back with     *)
(* their times as text, as the agent expects.                              *)
(***************************************************************************)
EXTENDS Integers, Sequences, FiniteSets, SequencesExt

CONSTANTS
  Sources,       \* <<agent, decision type, phase>> of the decisions
  CyclePhases,   \* phases that the details of refinement cycles name
  KnownStrategies, \* strategies of interventions
  Scores,        \* original complexity scores of interventions
  Reductions,    \* reductions of complexity; 0 when an intervention failed
  Lookback,      \* days that a context looks back
  Retention,     \* days that clear_old_history keeps
  HistoryLimit,  \* max_events of a question
  ManyEvents,    \* events from which on they are judged (10)
  SomeEvents,    \* events for medium confidence (5)
  MaxTracked,    \* bound: records
  MaxDay         \* bound: days

ASSUME DaysAssumption ==
  /\ MaxTracked \in Nat /\ MaxDay \in Nat
  /\ Retention \in Nat /\ Lookback \in Nat /\ HistoryLimit \in Nat

\* Medium confidence takes no more events than a judgement does, which takes some;
\* complexity is taken off in numbers.
ASSUME AdviceAssumption ==
  /\ SomeEvents \in Nat /\ ManyEvents \in Nat \ {0, 1} /\ SomeEvents <= ManyEvents + 1
  /\ Reductions \subseteq Int

VARIABLES
  day,           \* today
  decisions,     \* decision events in the order of their keys
  fires          \* Fire interventions in the order of their keys

airVars == <<day, decisions, fires>>

DecisionOutcomes == {"success", "failure", "unknown"}
-----------------------------------------------------------------------------
(* Tracking. *)

Decision(source, outcome) ==
  [agent |-> source[1], type |-> source[2], phase |-> source[3], outcome |-> outcome, day |-> day,
   cleared |-> FALSE]

\* track_decision_event; a store that fails leaves nothing, and is not told of.
TrackDecision(source, outcome) ==
  /\ Len(decisions) < MaxTracked
  /\ decisions' = Append(decisions, Decision(source, outcome))
  /\ UNCHANGED <<day, fires>>

\* track_refinement_cycle: the decision that a refinement is needed, and, if it
\* is, the one on its strategy; a caller that names no phase has "" recorded.
TrackCycle(agent, phase, necessary, outcome) ==
  LET necessity == Decision(<<agent, "refinement_necessity", phase>>, outcome)
      strategy == Decision(<<agent, "refinement_strategy", phase>>, outcome)
  IN /\ Len(decisions) + (IF necessary THEN 2 ELSE 1) <= MaxTracked
     /\ decisions' = decisions \o (IF necessary THEN <<necessity, strategy>> ELSE <<necessity>>)
     /\ UNCHANGED <<day, fires>>

\* _determine_initial_outcome finds none of its keys in what an intervention
\* reports: the decision it is tracked as has an unknown outcome.
TrackFire(strategy, score, reduction, stored) ==
  LET intervention == [strategy |-> strategy, score |-> score, success |-> reduction > 0,
                       reduction |-> reduction, day |-> day, cleared |-> FALSE]
      source == <<"fire_agent", "complexity_intervention", "guideline">>
  IN /\ Len(decisions) < MaxTracked
     /\ fires' = IF stored THEN Append(fires, intervention) ELSE fires
     /\ decisions' = Append(decisions, Decision(source, "unknown"))
     /\ UNCHANGED day

\* clear_old_history; a record that cannot be read or deleted stays.
Cleared(records, kept) ==
  [i \in DOMAIN records |->
     IF records[i].day < day - Retention /\ i \notin kept
     THEN [records[i] EXCEPT !.cleared = TRUE] ELSE records[i]]

ClearOldHistory(kept) ==
  /\ decisions # <<>> /\ kept \subseteq DOMAIN decisions
  /\ decisions' = Cleared(decisions, kept)
  /\ fires' = Cleared(fires, {})
  /\ UNCHANGED day

DayPasses == day < MaxDay /\ day' = day + 1 /\ UNCHANGED <<decisions, fires>>
-----------------------------------------------------------------------------
(* Reading. *)

Positions(records) == [i \in 1..Len(records) |-> i]

\* What a sequence has of a set, in its order.
Among(seq, S) ==
  LET kept[n \in 0..Len(seq)] ==
        IF n = 0 THEN <<>>
        ELSE IF seq[n] \in S THEN Append(kept[n - 1], seq[n]) ELSE kept[n - 1]
  IN kept[Len(seq)]

FirstOf(seq, n) == SubSeq(seq, 1, IF Len(seq) < n THEN Len(seq) ELSE n)

Recent(record) == ~ record.cleared /\ record.day >= day - Lookback

\* The keys of _get_decision_event_keys: listing must succeed and each record
\* must be readable to be compared with the cutoff.
DecisionKeys(unreadable) ==
  Among(Positions(decisions), {i \in DOMAIN decisions : Recent(decisions[i])} \ unreadable)

\* get_decision_history: of the first 2 * max_events keys, the oldest as the store
\* lists them, the first max_events that match, and these the latest first; a
\* decision behind them is not found.
DecisionHistory(wanted, unreadable) ==
  LET looked == FirstOf(DecisionKeys(unreadable), 2 * HistoryLimit)
  IN Reverse(FirstOf(Among(looked, wanted), HistoryLimit))

\* What a question asks for: decisions of an agent, of a type, of a phase.
OfType(agent, type, phase) ==
  {i \in DOMAIN decisions : /\ decisions[i].agent = agent /\ decisions[i].type = type
                            /\ decisions[i].phase = phase}

RefinementEvents(agent, unreadable) ==
  DecisionHistory(OfType(agent, "refinement_necessity", "phase_one"), unreadable)
    \o DecisionHistory(OfType(agent, "refinement_strategy", "phase_one"), unreadable)

InterventionHistory(unreadable) ==
  Among(Positions(fires), {i \in DOMAIN fires : Recent(fires[i])} \ unreadable)
-----------------------------------------------------------------------------
(* Patterns. *)

GroupTypes == {"by_agent", "by_type", "by_phase"}

GroupKey(d, by) == CASE by = "by_agent" -> d.agent [] by = "by_type" -> d.type [] by = "by_phase" -> d.phase

Members(events, by, key) == {k \in DOMAIN events : GroupKey(decisions[events[k]], by) = key}

Having(members, events, outcome) == {k \in members : decisions[events[k]].outcome = outcome}

Groups(events) == {<<by, GroupKey(decisions[events[k]], by)>> : by \in GroupTypes, k \in DOMAIN events}

\* n of total are at least seven tenths
AtLeastSevenTenths(n, total) == 10 * n >= 7 * total

\* identify_success_patterns (threshold 0.7, at least three) and
\* identify_failure_patterns (success rate of 0.3 at most, at least two).
SuccessPatterns(events) ==
  { g \in Groups(events) :
      LET all == Members(events, g[1], g[2])
          won == Having(all, events, "success")
      IN Cardinality(won) >= 3 /\ AtLeastSevenTenths(Cardinality(won), Cardinality(all)) }

FailurePatterns(events) ==
  { g \in Groups(events) :
      LET all == Members(events, g[1], g[2])
          lost == Having(all, events, "failure")
      IN Cardinality(lost) >= 2 /\ AtLeastSevenTenths(Cardinality(lost), Cardinality(all)) }

\* _assess_context_confidence.  High confidence takes two patterns of the types
\* the refinement context asks for; it asks for types of decisions, which no
\* pattern has, so that there are none.
RefinementConfidence(events) ==
  IF Len(events) < 3 THEN "INSUFFICIENT_DATA"
  ELSE IF Len(events) >= SomeEvents THEN "MEDIUM" ELSE "LOW"

\* _generate_refinement_recommendations and _cautions, as far as the history has
\* a part in them
Advice(events) ==
  LET won == Having(DOMAIN events, events, "success")
  IN IF Len(events) <= ManyEvents THEN "none"
     ELSE IF 10 * Cardinality(won) > 8 * Len(events) THEN "proceed"
     ELSE IF 10 * Cardinality(won) < 4 * Len(events) THEN "conservative"
     ELSE "none"

Distance(a, b) == IF a < b THEN b - a ELSE a - b

\* _identify_effective_strategies: successful interventions whose score is within
\* twenty of the present one, and an average reduction above fifteen.
TotalReduction(keys) ==
  LET total[n \in 0..Len(keys)] == IF n = 0 THEN 0 ELSE total[n - 1] + fires[keys[n]].reduction
  IN total[Len(keys)]

EffectiveStrategies(found, score) ==
  { s \in KnownStrategies :
      LET similar == Among(found, {i \in DOMAIN fires :
                       /\ fires[i].strategy = s /\ fires[i].success
                       /\ Distance(fires[i].score, score) <= 20})
      IN similar # <<>> /\ TotalReduction(similar) > 15 * Len(similar) }
-----------------------------------------------------------------------------
AirInit == day = 0 /\ decisions = <<>> /\ fires = <<>>

AirNext ==
  \/ \E source \in Sources, outcome \in {"success", "failure"} : TrackDecision(source, outcome)
  \/ \E agent \in {s[1] : s \in Sources}, phase \in CyclePhases, necessary \in BOOLEAN,
        outcome \in {"success", "failure"} : TrackCycle(agent, phase, necessary, outcome)
  \/ \E strategy \in KnownStrategies, score \in Scores, reduction \in Reductions, stored \in BOOLEAN :
       TrackFire(strategy, score, reduction, stored)
  \/ \E kept \in {{}, {1}} : ClearOldHistory(kept)
  \/ DayPasses

AirSpec == AirInit /\ [][AirNext]_airVars
-----------------------------------------------------------------------------
AirTypeOK ==
  /\ day \in 0..MaxDay /\ Len(decisions) <= MaxTracked /\ Len(fires) <= Len(decisions)
  /\ \A i \in DOMAIN decisions : /\ decisions[i].outcome \in DecisionOutcomes /\ decisions[i].day <= day
                                 /\ decisions[i].cleared \in BOOLEAN
  /\ \A i \in DOMAIN fires : fires[i].day <= day

UnreadableKeys == {{}} \cup {{i} : i \in DOMAIN decisions}

\* A history holds decisions that were tracked, match and are recent, each once and
\* in falling order of days; it holds all of them only when the keys are no more
\* than are looked at and the matches no more than are asked for: otherwise the
\* latest are the ones left out (history_tracker.py:355-390).
HistoryOf(wanted, unreadable) ==
  LET found == DecisionHistory(wanted, unreadable)
      recent == {i \in wanted : ~ decisions[i].cleared /\ day - decisions[i].day <= Lookback}
  IN /\ ToSet(found) \subseteq recent /\ IsInjective(found) /\ Len(found) <= HistoryLimit
     /\ \A a, b \in DOMAIN found : a < b => decisions[found[a]].day >= decisions[found[b]].day
     /\ Cardinality(recent) <= HistoryLimit /\ Len(decisions) <= 2 * HistoryLimit
          => ToSet(found) = recent \ unreadable

HistoriesAreHonest ==
  \A unreadable \in UnreadableKeys :
    /\ \A source \in Sources :
         HistoryOf(OfType(source[1], source[2], source[3]), unreadable)
    /\ HistoryOf({i \in DOMAIN decisions : decisions[i].agent = "evolution"}, unreadable)
    /\ HistoryOf({i \in DOMAIN decisions : decisions[i].type = "complexity_intervention"},
                 unreadable)

\* The advice out of one history does not contradict itself: nothing is named as
\* to be continued and to be avoided, what is to be continued failed in less than
\* half as many cases as it succeeded, and an agent that is told to proceed is not
\* among those to be avoided (pattern_analyzer.py:82-236, context_provider.py:500).
AdviceConsistent ==
  \A source \in Sources, unreadable \in UnreadableKeys :
    LET events == RefinementEvents(source[1], unreadable)
        bad == FailurePatterns(events)
    IN /\ SuccessPatterns(events) \cap bad = {}
       /\ \A g \in SuccessPatterns(events) :
            LET all == Members(events, g[1], g[2])
            IN 2 * Cardinality(Having(all, events, "failure")) < Cardinality(Having(all, events, "success"))
       /\ Advice(events) = "proceed" => <<"by_agent", source[1]>> \notin bad
       /\ Advice(events) # "none" => RefinementConfidence(events) = "MEDIUM"

\* A strategy is called effective for a complexity only if it once took off more
\* than fifteen at a complexity like it, lately (context_provider.py:659-692).
EffectiveWasEffective ==
  \A score \in Scores, unreadable \in UnreadableKeys :
    \A s \in EffectiveStrategies(InterventionHistory(unreadable), score) :
      \E i \in DOMAIN fires \ unreadable :
        /\ fires[i].strategy = s /\ fires[i].success /\ fires[i].reduction > 15
        /\ ~ fires[i].cleared /\ day - fires[i].day <= Lookback

\* What is cleared is older than the days that are kept (history_tracker.py:420-460).
KeptWhileYoung ==
  \A records \in {decisions, fires} : \A i \in DOMAIN records :
    records[i].cleared => day - records[i].day > Retention

AirTellsRight == HistoriesAreHonest /\ AdviceConsistent /\ EffectiveWasEffective /\ KeptWhileYoung
=============================================================================
