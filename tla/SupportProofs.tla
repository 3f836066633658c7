---------------------------- MODULE SupportProofs ----------------------------
(***************************************************************************)
(* Theorems about what stands around phase one, for every value of the       *)
(* constants.  The facilities share no variable, so that a step of one is a   *)
(* stutter of the others (OneAtATime), and each has an inductive invariant   *)
(* of its own: the parts below, and AgentsProofs for the agents and the      *)
(* validators of what they design.                                           *)
(***************************************************************************)
EXTENDS MCSupport, AgentsProofs

-----------------------------------------------------------------------------
(* Hand-offs (HandOffs) *)

\* Where a hand-off has written "in_progress" and not yet how it ended.
Pending == {"announcing", "analyzing", "noting", "finishing", "failing"}

\* What a hand-off knows at each place; who is alone with its id; and what the
\* record of an id says by then.
HandsInPlace ==
    \A h \in HandOffSlots :
        /\ handing[h] # "idle" => hand[h].id \in HandOffIds
        /\ handing[h] = "failing" => hand[h].answer \in Failures
        /\ handing[h] \in {"starting", "announcing", "analyzing", "noting", "finishing", "reporting"} =>
              hand[h].answer \notin Failures
        /\ handing[h] = "deploring" => hand[h].answer \in Failures

AloneWithId ==
    \A h, g \in HandOffSlots :
        /\ handing[h] # "idle" /\ hand[h].alone
        /\ handing[g] \in Busy /\ g # h
        => hand[g].id # hand[h].id

RecordsTold ==
    /\ \A i \in HandOffIds :
          tracking[i] = "in_progress" /\ i \notin broken =>
              \E h \in HandOffSlots : handing[h] \in Pending /\ hand[h].id = i
    /\ \A h \in HandOffSlots :
          handing[h] \in {"reporting", "deploring", "done"} /\ hand[h].alone =>
              tracking[hand[h].id] = Outcome(hand[h].answer)

HInv == HandTypeOK /\ HandsInPlace /\ AloneWithId /\ RecordsTold

\* The invariant says more than HandOffsTracked: who is alone knows.
LEMMA HandsRight == HInv => HandOffsTracked
  BY DEF HInv, RecordsTold, HandOffsTracked, Pending, Busy, Guarded, Unguarded

\* A hand-off begins: its id is its own or nobody is alone with it.
LEMMA BeginKeeps ==
    ASSUME HInv, NEW h \in HandOffSlots, NEW id \in HandOffIds, NEW how \in Modes,
           Begin(h, id, how)
    PROVE  HInv'
  <1> DEFINE others == {g \in HandOffSlots \ {h} : handing[g] \in Busy /\ hand[g].id = id}
             Hands == [id : HandOffIds \cup {"none"}, mode : Modes,
                       answer : HandAnswers \cup {"none"},
                       first : OutputForms, second : OutputForms, alone : BOOLEAN]
  <1>1. /\ handing[h] = "idle" /\ handing' = [handing EXCEPT ![h] = "starting"]
        /\ coordination_history' = {}
        /\ hand' = [g \in HandOffSlots |->
               IF g = h THEN [NoHand EXCEPT !.id = id, !.mode = how, !.alone = (others = {})]
               ELSE IF g \in others \/ hand[g].id = id
               THEN [hand[g] EXCEPT !.alone = FALSE] ELSE hand[g]]
        /\ UNCHANGED <<tracking, attempt, broken>>
    BY DEF Begin, Turns
  <1>2. /\ handing \in [HandOffSlots -> Busy \cup {"idle", "done"}]
        /\ hand \in [HandOffSlots -> Hands]
        /\ tracking \in [HandOffIds -> {"absent", "in_progress", "completed"} \cup Failures]
        /\ attempt \subseteq HandOffIds /\ broken \subseteq HandOffIds
    BY DEF HInv, HandTypeOK
  <1>3. PICK alone \in BOOLEAN : alone = (others = {})
    OBVIOUS
  <1>10. /\ handing'[h] = "starting"
         /\ \A g \in HandOffSlots : g # h => handing'[g] = handing[g]
         /\ handing' \in [HandOffSlots -> Busy \cup {"idle", "done"}]
    BY <1>1, <1>2 DEF Busy, Unguarded
  <1>4. /\ hand'[h] \in Hands
        /\ hand'[h].id = id /\ hand'[h].answer = "none" /\ (hand'[h].alone <=> alone)
    <2>1. NoHand \in Hands /\ NoHand.answer = "none"
      BY DEF NoHand, Modes, OutputForms
    <2>2. PICK r : r = [NoHand EXCEPT !.id = id, !.mode = how, !.alone = alone]
      OBVIOUS
    <2>3. r \in Hands /\ r.id = id /\ r.answer = "none" /\ (r.alone <=> alone)
      <3> HIDE <1>3
      <3> QED BY <2>1, <2>2
    <2>4. hand'[h] = r
      BY <1>1, <1>3, <2>2, Zenon
    <2> QED BY <2>3, <2>4, Zenon
  <1>5. ASSUME NEW g \in HandOffSlots, g # h
        PROVE  /\ hand'[g] \in Hands
               /\ hand'[g].id = hand[g].id /\ hand'[g].answer = hand[g].answer
               /\ hand'[g].alone => hand[g].alone /\ hand[g].id # id
    BY <1>1, <1>2, <1>5
  <1>6. HandTypeOK'
    <2>1. hand' \in [HandOffSlots -> Hands]
      BY <1>1, <1>4, <1>5
    <2>2. handing' \in [HandOffSlots -> Busy \cup {"idle", "done"}]
      BY <1>1, <1>2 DEF Busy, Unguarded
    <2> QED BY <1>1, <1>2, <2>1, <2>2 DEF HandTypeOK
  <1>7. HandsInPlace'
    BY <1>10, <1>4, <1>5 DEF HInv, HandsInPlace, Failures
  <1>8. AloneWithId'
    <2> SUFFICES ASSUME NEW k \in HandOffSlots, NEW g \in HandOffSlots,
                        handing'[k] # "idle", hand'[k].alone, handing'[g] \in Busy, g # k
                 PROVE  hand'[g].id # hand'[k].id
      BY DEF AloneWithId
    <2>1. CASE k = h
      <3>1. alone
        BY <1>4, <2>1
      <3>2. others = {}
        BY <1>3, <3>1
      <3> QED BY <1>10, <1>4, <1>5, <2>1, <3>2
    <2>2. CASE k # h /\ g = h
      BY <1>4, <1>5, <2>2
    <2>3. CASE k # h /\ g # h
      BY <1>10, <1>5, <2>3 DEF HInv, AloneWithId
    <2> QED BY <2>1, <2>2, <2>3
  <1>9. RecordsTold'
    <2>1. ASSUME NEW i \in HandOffIds, tracking'[i] = "in_progress", i \notin broken'
          PROVE  \E k \in HandOffSlots : handing'[k] \in Pending /\ hand'[k].id = i
      <3>1. PICK k \in HandOffSlots : handing[k] \in Pending /\ hand[k].id = i
        BY <1>1, <2>1 DEF HInv, RecordsTold
      <3>2. k # h
        BY <1>1, <3>1 DEF Pending
      <3> QED BY <1>1, <1>2, <1>5, <3>1, <3>2
    <2>2. ASSUME NEW k \in HandOffSlots, handing'[k] \in {"reporting", "deploring", "done"},
                 hand'[k].alone
          PROVE  tracking'[hand'[k].id] = Outcome(hand'[k].answer)
      <3>1. k # h
        BY <1>1, <1>2, <2>2
      <3> QED BY <1>1, <1>2, <1>5, <2>2, <3>1 DEF HInv, RecordsTold, Outcome
    <2> QED BY <2>1, <2>2 DEF RecordsTold, Outcome
  <1> QED BY <1>6, <1>7, <1>8, <1>9 DEF HInv

\* A step of a hand-off, of which only it and its id's record know.
HandStep(h, place, kept) ==
    /\ place \in Busy \cup {"idle", "done"} /\ handing[h] # "idle"
    /\ kept \in [id : HandOffIds \cup {"none"}, mode : Modes,
                 answer : HandAnswers \cup {"none"},
                 first : OutputForms, second : OutputForms, alone : BOOLEAN]
    /\ handing' = [handing EXCEPT ![h] = place]
    /\ hand' = [hand EXCEPT ![h] = kept]
    /\ place # "idle" => kept.id = hand[h].id /\ (kept.alone <=> hand[h].alone)
    /\ place \in Busy => handing[h] \in Busy
    /\ place \in {"failing", "deploring"} => kept.answer \in Failures
    /\ place \in {"starting", "announcing", "analyzing", "noting", "finishing", "reporting"} =>
           kept.answer \notin Failures
    /\ broken \subseteq broken' /\ broken' \subseteq HandOffIds
    /\ attempt' \subseteq HandOffIds /\ coordination_history' \subseteq HandOffSlots

\* It leaves the record as it is,
LeavesRecord(h, place, kept) ==
    /\ tracking' = tracking
    /\ place \notin {"reporting", "deploring"}
    /\ place = "done" => handing[h] \in {"reporting", "deploring"} /\ kept.answer = hand[h].answer
    /\ handing[h] \in Pending /\ place \notin Pending => hand[h].id \in broken'

\* or writes the beginning or the end of the hand-off.
WritesRecord(h, place, kept) ==
    /\ handing[h] \in Busy
    /\ \/ /\ tracking' = [tracking EXCEPT ![hand[h].id] = "in_progress"]
          /\ place = "announcing"
       \/ /\ tracking' = [tracking EXCEPT ![hand[h].id] = Outcome(kept.answer)]
          /\ place \in {"reporting", "deploring"}

\* Such a step keeps the invariant.
LEMMA HandStepKeeps ==
    ASSUME HInv, NEW h \in HandOffSlots, NEW place, NEW kept, HandStep(h, place, kept),
           LeavesRecord(h, place, kept) \/ WritesRecord(h, place, kept)
    PROVE  HInv'
  <1> DEFINE Hands == [id : HandOffIds \cup {"none"}, mode : Modes,
                       answer : HandAnswers \cup {"none"},
                       first : OutputForms, second : OutputForms, alone : BOOLEAN]
             Records == {"absent", "in_progress", "completed"} \cup Failures
  <1> USE DEF HandStep, LeavesRecord, WritesRecord
  <1>0. /\ handing \in [HandOffSlots -> Busy \cup {"idle", "done"}]
        /\ hand \in [HandOffSlots -> Hands]
        /\ tracking \in [HandOffIds -> Records]
        /\ hand[h].id \in HandOffIds
    BY DEF HInv, HandTypeOK, HandsInPlace
  <1>1. /\ handing'[h] = place /\ hand'[h] = kept
        /\ \A g \in HandOffSlots : g # h => handing'[g] = handing[g] /\ hand'[g] = hand[g]
        /\ hand' \in [HandOffSlots -> Hands]
        /\ handing' \in [HandOffSlots -> Busy \cup {"idle", "done"}]
    BY <1>0
  <1>2. /\ \A i \in HandOffIds : i # hand[h].id => tracking'[i] = tracking[i]
        /\ tracking' \in [HandOffIds -> Records]
    BY <1>0 DEF Outcome
  <1>3. HandTypeOK'
    BY <1>1, <1>2 DEF HandTypeOK
  <1>4. HandsInPlace'
    BY <1>0, <1>1 DEF HInv, HandsInPlace
  <1>5. AloneWithId'
    <2> SUFFICES ASSUME NEW k \in HandOffSlots, NEW g \in HandOffSlots,
                        handing'[k] # "idle", hand'[k].alone, handing'[g] \in Busy, g # k
                 PROVE  hand'[g].id # hand'[k].id
      BY DEF AloneWithId
    <2>1. handing[k] # "idle" /\ hand[k].alone /\ hand'[k].id = hand[k].id
      BY <1>1
    <2>2. handing[g] \in Busy /\ hand'[g].id = hand[g].id
      BY <1>1 DEF Busy, Guarded, Unguarded
    <2> QED BY <2>1, <2>2 DEF HInv, AloneWithId
  <1>6. ASSUME NEW i \in HandOffIds, tracking'[i] = "in_progress", i \notin broken'
        PROVE  \E k \in HandOffSlots : handing'[k] \in Pending /\ hand'[k].id = i
    <2>1. CASE tracking'[i] = tracking[i]
      <3>1. PICK k \in HandOffSlots : handing[k] \in Pending /\ hand[k].id = i
        BY <1>6, <2>1 DEF HInv, RecordsTold
      <3>2. CASE k # h
        BY <1>1, <3>1, <3>2
      <3>3. CASE k = h
        <4>1. place \in Pending
          BY <1>0, <1>6, <3>1, <3>3 DEF Pending, Outcome, Failures
        <4>2. place # "idle"
          BY <4>1 DEF Pending
        <4> QED BY <1>1, <3>1, <3>3, <4>1, <4>2
      <3> QED BY <3>2, <3>3
    <2>2. CASE tracking'[i] # tracking[i]
      <3>1. i = hand[h].id
        BY <1>2, <2>2
      <3>2. place = "announcing"
        BY <1>0, <1>6, <2>2, <3>1 DEF Outcome, Failures
      <3> QED BY <1>1, <3>1, <3>2 DEF Pending
    <2> QED BY <2>1, <2>2
  <1>7. ASSUME NEW k \in HandOffSlots, handing'[k] \in {"reporting", "deploring", "done"},
               hand'[k].alone
        PROVE  tracking'[hand'[k].id] = Outcome(hand'[k].answer)
    <2>1. CASE k = h
      <3>1. hand'[k].id = hand[h].id /\ hand[h].alone
        BY <1>1, <1>7, <2>1
      <3>2. CASE tracking' = tracking
        <4>1. place = "done" \/ (handing[h] \in Busy /\ place \in {"reporting", "deploring"}
                                   /\ tracking' = [tracking EXCEPT ![hand[h].id] = Outcome(kept.answer)])
          BY <1>1, <1>7, <2>1
        <4>2. CASE place = "done"
          BY <1>1, <2>1, <3>1, <3>2, <4>2 DEF HInv, RecordsTold, Outcome
        <4>3. CASE place # "done"
          BY <1>0, <1>1, <2>1, <3>1, <4>1, <4>3
        <4> QED BY <4>2, <4>3
      <3>3. CASE tracking' # tracking
        BY <1>0, <1>1, <1>7, <2>1, <3>1, <3>3
      <3> QED BY <3>2, <3>3
    <2>2. CASE k # h
      <3>1. /\ handing[k] \in {"reporting", "deploring", "done"} /\ hand[k].alone
            /\ hand'[k] = hand[k] /\ hand[k].id \in HandOffIds
        BY <1>1, <1>7, <2>2 DEF HInv, HandsInPlace
      <3>2. tracking'[hand[k].id] = tracking[hand[k].id]
        <4>1. CASE handing[h] \in Busy
          BY <1>2, <2>2, <3>1, <4>1 DEF HInv, AloneWithId
        <4>2. CASE handing[h] \notin Busy
          BY <4>2
        <4> QED BY <4>1, <4>2
      <3> QED BY <3>1, <3>2 DEF HInv, RecordsTold, Outcome
    <2> QED BY <2>1, <2>2
  <1>8. RecordsTold'
    BY <1>6, <1>7 DEF RecordsTold, Outcome
  <1> QED BY <1>3, <1>4, <1>5, <1>8 DEF HInv

\* The writes of records, and the Water agent's answers.
LEMMA HandsProceed ==
    ASSUME HInv, NEW h \in HandOffSlots,
           \/ Started(h) \/ Announced(h) \/ Analyzed(h) \/ Noted(h) \/ Finished(h)
           \/ Reported(h) \/ HandFails(h) \/ FailureTracked(h) \/ Breaks(h) \/ HandTaken(h)
    PROVE  HInv'
  <1> DEFINE Hands == [id : HandOffIds \cup {"none"}, mode : Modes,
                       answer : HandAnswers \cup {"none"},
                       first : OutputForms, second : OutputForms, alone : BOOLEAN]
  <1>0. /\ handing \in [HandOffSlots -> Busy \cup {"idle", "done"}]
        /\ hand \in [HandOffSlots -> Hands] /\ hand[h] \in Hands
        /\ tracking \in [HandOffIds -> {"absent", "in_progress", "completed"} \cup Failures]
        /\ attempt \subseteq HandOffIds /\ broken \subseteq HandOffIds
        /\ coordination_history \subseteq HandOffSlots
        /\ handing[h] # "idle" => hand[h].id \in HandOffIds
        /\ handing[h] \in {"starting", "announcing", "analyzing", "noting", "finishing", "reporting"} =>
              hand[h].answer \notin Failures
        /\ handing[h] \in {"failing", "deploring"} => hand[h].answer \in Failures
    BY DEF HInv, HandTypeOK, HandsInPlace
  <1>1. hand = [hand EXCEPT ![h] = hand[h]]
    BY <1>0
  <1>2. CASE Started(h)
    <2>1. /\ handing[h] = "starting" /\ handing' = [handing EXCEPT ![h] = "announcing"]
          /\ tracking' = [tracking EXCEPT ![hand[h].id] = "in_progress"]
          /\ hand' = [hand EXCEPT ![h] = hand[h]]
          /\ UNCHANGED <<attempt, coordination_history, broken>>
      BY <1>1, <1>2 DEF Started, Turns, Tracks
    <2>8. HandStep(h, "announcing", hand[h])
      BY <1>0, <2>1 DEF HandStep, Busy, Unguarded, Guarded
    <2>9. LeavesRecord(h, "announcing", hand[h]) \/ WritesRecord(h, "announcing", hand[h])
      BY <1>0, <2>1 DEF LeavesRecord, WritesRecord, Pending, Busy, Unguarded, Guarded
    <2> QED BY <2>8, <2>9, HandStepKeeps
  <1>3. CASE Announced(h)
    <2>1. /\ handing[h] = "announcing" /\ handing' = [handing EXCEPT ![h] = "analyzing"]
          /\ hand' = [hand EXCEPT ![h] = hand[h]]
          /\ UNCHANGED <<tracking, attempt, coordination_history, broken>>
      BY <1>1, <1>3 DEF Announced, Turns
    <2>8. HandStep(h, "analyzing", hand[h])
      BY <1>0, <2>1 DEF HandStep, Busy, Unguarded, Guarded
    <2>9. LeavesRecord(h, "analyzing", hand[h]) \/ WritesRecord(h, "analyzing", hand[h])
      BY <1>0, <2>1 DEF LeavesRecord, WritesRecord, Pending, Busy, Unguarded, Guarded
    <2> QED BY <2>8, <2>9, HandStepKeeps
  <1>4. CASE Analyzed(h)
    <2>1. PICK kept \in Hands, place \in {"finishing", "noting"} :
             /\ handing[h] = "analyzing" /\ handing' = [handing EXCEPT ![h] = place]
             /\ hand' = [hand EXCEPT ![h] = kept]
             /\ kept.id = hand[h].id /\ kept.alone = hand[h].alone
             /\ kept.answer \notin Failures
             /\ coordination_history' \subseteq coordination_history \cup {h}
             /\ UNCHANGED <<tracking, attempt, broken>>
      <3>1. CASE NothingFound(h)
        <4>1. [hand[h] EXCEPT !.answer = "no_misunderstandings"] \in Hands
          BY <1>0 DEF HandAnswers
        <4>2. hand' = [hand EXCEPT ![h] = [hand[h] EXCEPT !.answer = "no_misunderstandings"]]
          BY <1>0, <3>1 DEF NothingFound
        <4> QED BY <1>0, <1>4, <3>1, <4>1, <4>2 DEF Analyzed, NothingFound, Turns, Failures
      <3>2. CASE Applied(h)
        <4>1. PICK first \in Returned(hand[h].mode), second \in Returned(hand[h].mode) :
                 hand' = [hand EXCEPT ![h].answer = "coordination_applied",
                               ![h].first = first,
                               ![h].second = IF @ = "given" /\ hand[h].mode = "preventive"
                                             THEN @ ELSE second]
          BY <3>2 DEF Applied
        <4>2. first \in OutputForms /\ second \in OutputForms
          BY DEF Returned, OutputForms
        <4> DEFINE both == IF hand[h].second = "given" /\ hand[h].mode = "preventive"
                           THEN hand[h].second ELSE second
                   kept == [hand[h] EXCEPT !.answer = "coordination_applied",
                                           !.first = first, !.second = both]
        <4>3. both \in OutputForms
          BY <1>0, <4>2
        <4>4. hand' = [hand EXCEPT ![h] = kept]
          BY <1>0, <4>1
        <4>5. kept \in Hands /\ kept.id = hand[h].id /\ kept.alone = hand[h].alone
                /\ kept.answer \notin Failures
          <5> HIDE DEF both
          <5> QED BY <1>0, <4>2, <4>3 DEF HandAnswers, Failures
        <4>6. /\ handing[h] = "analyzing" /\ handing' = [handing EXCEPT ![h] = "noting"]
              /\ coordination_history' \subseteq coordination_history \cup {h}
              /\ UNCHANGED <<tracking, attempt, broken>>
          BY <1>4, <3>2 DEF Analyzed, Applied, Turns
        <4> QED BY <4>4, <4>5, <4>6
      <3> QED BY <1>4, <3>1, <3>2 DEF Analyzed
    <2>2. coordination_history' \subseteq HandOffSlots
      BY <1>0, <2>1
    <2>8. HandStep(h, place, kept)
      BY <1>0, <2>1, <2>2 DEF HandStep, Busy, Unguarded, Guarded
    <2>9. LeavesRecord(h, place, kept) \/ WritesRecord(h, place, kept)
      BY <1>0, <2>1, <2>2 DEF LeavesRecord, WritesRecord, Pending, Busy, Unguarded, Guarded
    <2> QED BY <2>8, <2>9, HandStepKeeps
  <1>5. CASE Noted(h)
    <2>1. /\ handing[h] = "noting" /\ handing' = [handing EXCEPT ![h] = "finishing"]
          /\ hand' = [hand EXCEPT ![h] = hand[h]]
          /\ attempt' = attempt \cup {hand[h].id}
          /\ UNCHANGED <<tracking, coordination_history, broken>>
      BY <1>1, <1>5 DEF Noted, Turns
    <2>2. attempt' \subseteq HandOffIds
      BY <1>0, <2>1
    <2>8. HandStep(h, "finishing", hand[h])
      BY <1>0, <2>1, <2>2 DEF HandStep, Busy, Unguarded, Guarded
    <2>9. LeavesRecord(h, "finishing", hand[h]) \/ WritesRecord(h, "finishing", hand[h])
      BY <1>0, <2>1, <2>2 DEF LeavesRecord, WritesRecord, Pending, Busy, Unguarded, Guarded
    <2> QED BY <2>8, <2>9, HandStepKeeps
  <1>6. CASE Finished(h)
    <2>1. /\ handing[h] = "finishing" /\ handing' = [handing EXCEPT ![h] = "reporting"]
          /\ hand' = [hand EXCEPT ![h] = hand[h]]
          /\ tracking' = [tracking EXCEPT ![hand[h].id] = Outcome(hand[h].answer)]
          /\ UNCHANGED <<attempt, coordination_history, broken>>
      BY <1>0, <1>1, <1>6 DEF Finished, Turns, Tracks, Outcome
    <2>8. HandStep(h, "reporting", hand[h])
      BY <1>0, <2>1 DEF HandStep, Busy, Unguarded, Guarded
    <2>9. LeavesRecord(h, "reporting", hand[h]) \/ WritesRecord(h, "reporting", hand[h])
      BY <1>0, <2>1 DEF LeavesRecord, WritesRecord, Pending, Busy, Unguarded, Guarded
    <2> QED BY <2>8, <2>9, HandStepKeeps
  <1>7. CASE Reported(h)
    <2>1. /\ handing[h] \in {"reporting", "deploring"}
          /\ handing' = [handing EXCEPT ![h] = "done"]
          /\ hand' = [hand EXCEPT ![h] = hand[h]]
          /\ UNCHANGED <<tracking, attempt, coordination_history, broken>>
      BY <1>1, <1>7 DEF Reported, Turns
    <2>8. HandStep(h, "done", hand[h])
      BY <1>0, <2>1 DEF HandStep, Busy, Unguarded, Guarded
    <2>9. LeavesRecord(h, "done", hand[h]) \/ WritesRecord(h, "done", hand[h])
      BY <1>0, <2>1 DEF LeavesRecord, WritesRecord, Pending, Busy, Unguarded, Guarded
    <2> QED BY <2>8, <2>9, HandStepKeeps
  <1>8. CASE HandFails(h)
    <2>1. PICK f \in Failures :
             hand' = [hand EXCEPT
              ![h].answer = f,
              ![h].first = IF hand[h].mode = "interactive" THEN "given" ELSE @,
              ![h].second = "given"]
      BY <1>8 DEF HandFails
    <2> DEFINE first == IF hand[h].mode = "interactive" THEN "given" ELSE hand[h].first
               kept == [hand[h] EXCEPT !.answer = f, !.first = first, !.second = "given"]
    <2>2. first \in OutputForms
      BY <1>0 DEF OutputForms
    <2>3. hand' = [hand EXCEPT ![h] = kept]
      BY <1>0, <2>1
    <2>4. kept \in Hands /\ kept.id = hand[h].id /\ kept.alone = hand[h].alone /\ kept.answer = f
      <3>1. PICK s \in OutputForms : s = "given"
        BY DEF OutputForms
      <3>2. f \in HandAnswers
        BY DEF HandAnswers
      <3> HIDE DEF first
      <3>3. [hand[h] EXCEPT !.answer = f, !.first = first, !.second = s] \in Hands
        BY <1>0, <2>2, <3>2
      <3> QED BY <1>0, <3>1, <3>3
    <2>5. /\ handing[h] \in Guarded /\ handing' = [handing EXCEPT ![h] = "failing"]
          /\ UNCHANGED <<tracking, attempt, coordination_history, broken>>
      BY <1>8 DEF HandFails, Turns
    <2> HIDE DEF kept
    <2>8. HandStep(h, "failing", kept)
      BY <1>0, <2>3, <2>4, <2>5 DEF HandStep, Busy, Unguarded, Guarded
    <2>9. LeavesRecord(h, "failing", kept) \/ WritesRecord(h, "failing", kept)
      BY <1>0, <2>3, <2>4, <2>5 DEF LeavesRecord, WritesRecord, Pending, Busy, Unguarded, Guarded
    <2> QED BY <2>8, <2>9, HandStepKeeps
  <1>9. CASE FailureTracked(h)
    <2>1. /\ handing[h] = "failing" /\ handing' = [handing EXCEPT ![h] = "deploring"]
          /\ hand' = [hand EXCEPT ![h] = hand[h]]
          /\ tracking' = [tracking EXCEPT ![hand[h].id] = Outcome(hand[h].answer)]
          /\ UNCHANGED <<attempt, coordination_history, broken>>
      BY <1>0, <1>1, <1>9 DEF FailureTracked, Turns, Tracks, Outcome
    <2>8. HandStep(h, "deploring", hand[h])
      BY <1>0, <2>1 DEF HandStep, Busy, Unguarded, Guarded
    <2>9. LeavesRecord(h, "deploring", hand[h]) \/ WritesRecord(h, "deploring", hand[h])
      BY <1>0, <2>1 DEF LeavesRecord, WritesRecord, Pending, Busy, Unguarded, Guarded
    <2> QED BY <2>8, <2>9, HandStepKeeps
  <1>10. CASE Breaks(h)
    <2>1. /\ handing[h] \in Busy /\ handing' = [handing EXCEPT ![h] = "idle"]
          /\ hand' = [hand EXCEPT ![h] = NoHand]
          /\ broken' = broken \cup {hand[h].id}
          /\ UNCHANGED <<tracking, attempt, coordination_history>>
      BY <1>10 DEF Breaks, Turns
    <2>2. NoHand \in Hands
      BY DEF NoHand, Modes, OutputForms
    <2>3. broken \subseteq broken' /\ broken' \subseteq HandOffIds /\ hand[h].id \in broken'
      BY <1>0, <2>1 DEF Busy, Guarded, Unguarded
    <2>8. HandStep(h, "idle", NoHand)
      BY <1>0, <2>1, <2>2, <2>3 DEF HandStep, Busy, Unguarded, Guarded
    <2>9. LeavesRecord(h, "idle", NoHand) \/ WritesRecord(h, "idle", NoHand)
      BY <1>0, <2>1, <2>2, <2>3 DEF LeavesRecord, WritesRecord, Pending, Busy, Unguarded, Guarded
    <2> QED BY <2>8, <2>9, HandStepKeeps
  <1>11. CASE HandTaken(h)
    <2>1. /\ handing[h] = "done" /\ handing' = [handing EXCEPT ![h] = "idle"]
          /\ hand' = [hand EXCEPT ![h] = NoHand]
          /\ UNCHANGED <<tracking, attempt, coordination_history, broken>>
      BY <1>11 DEF HandTaken, Turns
    <2>2. NoHand \in Hands
      BY DEF NoHand, Modes, OutputForms
    <2>8. HandStep(h, "idle", NoHand)
      BY <1>0, <2>1, <2>2 DEF HandStep, Busy, Unguarded, Guarded
    <2>9. LeavesRecord(h, "idle", NoHand) \/ WritesRecord(h, "idle", NoHand)
      BY <1>0, <2>1, <2>2 DEF LeavesRecord, WritesRecord, Pending, Busy, Unguarded, Guarded
    <2> QED BY <2>8, <2>9, HandStepKeeps
  <1> QED BY <1>2, <1>3, <1>4, <1>5, <1>6, <1>7, <1>8, <1>9, <1>10, <1>11

\* Every step keeps the invariant.
LEMMA HandsKept ==
    ASSUME HInv, [HandNext]_handVars
    PROVE  HInv'
  <1>1. CASE UNCHANGED handVars
    BY <1>1 DEF handVars, HInv, HandTypeOK, HandsInPlace, AloneWithId, RecordsTold
  <1> QED BY <1>1, BeginKeeps, HandsProceed, Zenon DEF HandNext

\* Hand-offs begin as the invariant says.
LEMMA HandsBegin ==
    ASSUME HandInit
    PROVE  HInv
  BY DEF HandInit, HInv, HandTypeOK, HandsInPlace, AloneWithId, RecordsTold, NoHand, Busy,
         Guarded, Unguarded, Modes, OutputForms

-----------------------------------------------------------------------------
(* The loops and their registry (LoopRegistry) *)

RegistryVars == <<main_loop, background_loop, registration_history, displaced>>

\* The registry's part of the invariant, and the owners' part.
RegistryTyped ==
    /\ main_loop \in Loops \cup {NoLoop} /\ background_loop \in Loops \cup {NoLoop}
    /\ registration_history \subseteq
           [thread : Threads, loop : Loops, kind : {"main", "background"}]
    /\ displaced \subseteq [thread : Threads, loop : Loops, kind : {"main", "background"}]

OwnersTyped ==
    /\ open \subseteq made /\ made \subseteq Loops
    /\ running \in [Threads -> open \cup {NoLoop}]
    /\ default_loop \in [Threads -> Loops \cup {NoLoop}] /\ seeking \subseteq Threads

LInv == LoopTypeOK /\ LoopsKeptApart

\* The types, by part.
LEMMA LoopTypes == LoopTypeOK <=> RegistryTyped /\ OwnersTyped
  BY DEF LoopTypeOK, RegistryTyped, OwnersTyped

\* A registration of a loop by a thread keeps the registry right, whether it is
\* accepted, refused or remembered.
LEMMA RegistersKeeps ==
    ASSUME RegistryTyped, LoopsKeptApart,
           NEW t \in Threads, NEW l \in Loops, NEW kind \in {"main", "background"},
           Registers(t, l, kind)
    PROVE  RegistryTyped' /\ LoopsKeptApart'
  <1> DEFINE k == Key(t, l, kind)
  <1>0. /\ k \in [thread : Threads, loop : Loops, kind : {"main", "background"}]
        /\ k.thread = t /\ k.loop = l /\ k.kind = kind
    BY DEF Key
  <1>1. CASE ~MayRegister(t, l, kind)
    <2>1. UNCHANGED RegistryVars
      BY <1>1, Zenon DEF Registers, Remembered, RegistryVars
    <2> QED BY <2>1 DEF RegistryVars, RegistryTyped, LoopsKeptApart, Slot, Key
  <1>2. CASE MayRegister(t, l, kind) /\ k \in registration_history
    <2>1. registration_history \cup {k} = registration_history
      BY <1>2
    <2>2. UNCHANGED RegistryVars
      BY <1>2, <2>1, Zenon DEF Registers, Remembered, RegistryVars
    <2> QED BY <2>2 DEF RegistryVars, RegistryTyped, LoopsKeptApart, Slot, Key
  <1>3. CASE MayRegister(t, l, kind) /\ k \notin registration_history
    <2> DEFINE gone == {h \in registration_history :
                            h.kind = kind /\ h.loop = Slot(kind) /\ h.loop # l}
    <2>1. /\ Filled(kind, l)
          /\ registration_history' = registration_history \cup {k}
          /\ displaced' = displaced \cup gone
      BY <1>3 DEF Registers, Remembered
    <2> HIDE DEF k
    <2>2. RegistryTyped'
      BY <1>0, <2>1 DEF RegistryTyped, Filled
    <2>3. ASSUME NEW h \in (registration_history \ displaced)'
          PROVE  Slot(h.kind)' = h.loop
      <3>1. CASE h = k
        BY <1>0, <2>1, <3>1 DEF Slot, Filled
      <3>2. CASE h \in registration_history \ displaced
        <4>1. Slot(h.kind) = h.loop /\ h.kind \in {"main", "background"}
          BY <3>2 DEF LoopsKeptApart, RegistryTyped
        <4>2. CASE h.kind = kind
          BY <2>1, <2>3, <3>2, <4>1, <4>2 DEF Slot, Filled
        <4>3. CASE h.kind # kind
          BY <2>1, <4>1, <4>3 DEF Slot, Filled
        <4> QED BY <4>2, <4>3
      <3> QED BY <2>1, <3>1, <3>2
    <2>4. main_loop' # NoLoop => main_loop' # background_loop'
      BY <1>3, <2>1 DEF Filled, MayRegister, OtherSlot, LoopsKeptApart
    <2>5. main_loop' # NoLoop => Key(MainThread, main_loop', "main") \in registration_history'
      BY <1>0, <1>3, <2>1 DEF k, Filled, MayRegister, LoopsKeptApart
    <2> QED BY <2>2, <2>3, <2>4, <2>5 DEF LoopsKeptApart, Key
  <1> QED BY <1>1, <1>2, <1>3

\* So it stays while the registry does not change.
LEMMA RegistryAlone ==
    ASSUME RegistryTyped, LoopsKeptApart, UNCHANGED RegistryVars
    PROVE  RegistryTyped' /\ LoopsKeptApart'
  BY DEF RegistryVars, RegistryTyped, LoopsKeptApart, Slot, Key

\* A new loop.
LEMMA MakesKeeps ==
    ASSUME OwnersTyped, NEW t \in Threads, NEW l, Makes(t, l), running' = running,
           seeking' \subseteq Threads
    PROVE  OwnersTyped' /\ l \in Loops
  BY DEF OwnersTyped, Makes

\* The running loop or a new one.
LEMMA RunningOrNewKeeps ==
    ASSUME RegistryTyped, LoopsKeptApart, OwnersTyped, NEW t \in Threads,
           NEW r \in {"main", "background", "nothing"}, RunningOrNew(t, r),
           running' = running, seeking' \subseteq Threads
    PROVE  RegistryTyped' /\ LoopsKeptApart' /\ OwnersTyped'
  <1>1. CASE /\ running[t] # NoLoop
             /\ IF r = "main" THEN Registers(t, running[t], "main")
                ELSE UNCHANGED <<main_loop, background_loop, registration_history, displaced>>
             /\ UNCHANGED <<made, open, default_loop>>
    <2>1. PICK l \in Loops : l = running[t]
      BY <1>1 DEF OwnersTyped
    <2>2. Registers(t, l, "main") \/ UNCHANGED RegistryVars
      BY <1>1, <2>1, Zenon DEF RegistryVars
    <2>3. RegistryTyped' /\ LoopsKeptApart'
      BY <2>2, RegistersKeeps, RegistryAlone
    <2> QED BY <1>1, <2>3 DEF OwnersTyped
  <1>2. CASE /\ running[t] = NoLoop
             /\ \E l \in Loops :
                   /\ Makes(t, l)
                   /\ IF r = "nothing"
                      THEN UNCHANGED <<main_loop, background_loop, registration_history, displaced>>
                      ELSE Registers(t, l, r)
    <2>1. PICK l \in Loops : /\ Makes(t, l)
                             /\ \/ UNCHANGED RegistryVars
                                \/ r # "nothing" /\ Registers(t, l, r)
      BY <1>2 DEF RegistryVars
    <2> QED BY <2>1, MakesKeeps, RegistersKeeps, RegistryAlone
  <1> QED BY <1>1, <1>2, Zenon DEF RunningOrNew

\* Every step keeps the invariant.
LEMMA LoopsKept ==
    ASSUME LInv, [LoopNext]_loopVars
    PROVE  LInv'
  <1>0. RegistryTyped /\ OwnersTyped /\ LoopsKeptApart
    BY LoopTypes DEF LInv
  <1> SUFFICES RegistryTyped' /\ OwnersTyped' /\ LoopsKeptApart'
    <2>1. RegistryTyped' /\ OwnersTyped' => LoopTypeOK'
      BY DEF RegistryTyped, OwnersTyped, LoopTypeOK
    <2> QED BY <2>1 DEF LInv
  <1>1. CASE UNCHANGED loopVars
    BY <1>0, <1>1 DEF loopVars, RegistryTyped, OwnersTyped, LoopsKeptApart, Slot, Key
  <1>2. ASSUME NEW t \in Threads, LooksUp(t)
        PROVE  RegistryTyped' /\ OwnersTyped' /\ LoopsKeptApart'
    <2>1. UNCHANGED RegistryVars
      BY <1>2 DEF LooksUp, RegistryVars
    <2>2. OwnersTyped'
      BY <1>0, <1>2 DEF LooksUp, OwnersTyped
    <2> QED BY <1>0, <2>1, <2>2, RegistryAlone
  <1>3. ASSUME NEW t \in Threads, EnsureEventLoop(t)
        PROVE  RegistryTyped' /\ OwnersTyped' /\ LoopsKeptApart'
    <2>1. PICK r \in {"main", "background", "nothing"} :
              r = (IF t = MainThread THEN "main" ELSE "nothing")
      OBVIOUS
    <2>2. /\ RunningOrNew(t, r) /\ running' = running /\ seeking' = seeking
      BY <1>3, <2>1, Zenon DEF EnsureEventLoop
    <2>3. seeking' \subseteq Threads
      BY <1>0, <2>2 DEF OwnersTyped
    <2> QED BY <1>0, <2>2, <2>3, RunningOrNewKeeps
  <1>4. ASSUME NEW t \in Threads, CompatibleLoop(t)
        PROVE  RegistryTyped' /\ OwnersTyped' /\ LoopsKeptApart'
    <2>1. CASE UNCHANGED RegistryVars /\ default_loop' = [default_loop EXCEPT ![t] = main_loop]
                 /\ UNCHANGED <<made, open, running, seeking>>
      <3>1. OwnersTyped'
        BY <1>0, <2>1 DEF OwnersTyped, RegistryTyped
      <3> QED BY <1>0, <2>1, <3>1, RegistryAlone
    <2>2. CASE \E l \in Loops : /\ Makes(t, l) /\ UNCHANGED <<running, seeking>>
                                /\ UNCHANGED RegistryVars \/ Registers(t, l, "main")
      <3>1. PICK l \in Loops : /\ Makes(t, l) /\ UNCHANGED <<running, seeking>>
                               /\ UNCHANGED RegistryVars \/ Registers(t, l, "main")
        BY <2>2
      <3>2. seeking' \subseteq Threads
        BY <1>0, <3>1 DEF OwnersTyped
      <3>3. OwnersTyped'
        BY <1>0, <3>1, <3>2, MakesKeeps
      <3>4. RegistryTyped' /\ LoopsKeptApart'
        BY <1>0, <3>1, RegistersKeeps, RegistryAlone
      <3> QED BY <3>3, <3>4
    <2>3. \/ /\ UNCHANGED RegistryVars /\ default_loop' = [default_loop EXCEPT ![t] = main_loop]
             /\ UNCHANGED <<made, open, running, seeking>>
          \/ \E l \in Loops : /\ Makes(t, l) /\ UNCHANGED <<running, seeking>>
                              /\ UNCHANGED RegistryVars \/ Registers(t, l, "main")
      BY <1>4 DEF CompatibleLoop, RegistryVars
    <2> QED BY <2>1, <2>2, <2>3
  <1>5. ASSUME NEW t \in Threads, MakesOwn(t)
        PROVE  RegistryTyped' /\ OwnersTyped' /\ LoopsKeptApart'
    <2>1. PICK l \in Loops : Makes(t, l) /\ UNCHANGED RegistryVars /\ UNCHANGED <<running, seeking>>
      BY <1>5 DEF MakesOwn, RegistryVars
    <2>2. seeking' \subseteq Threads
      BY <1>0, <2>1 DEF OwnersTyped
    <2> QED BY <1>0, <2>1, <2>2, MakesKeeps, RegistryAlone
  <1>6. ASSUME NEW t \in Threads, Stops(t) \/ \E l \in Loops : Runs(t, l)
        PROVE  RegistryTyped' /\ OwnersTyped' /\ LoopsKeptApart'
    <2>1. UNCHANGED RegistryVars
      BY <1>6 DEF Stops, Runs, RegistryVars
    <2>2. OwnersTyped'
      BY <1>0, <1>6 DEF Stops, Runs, OwnersTyped
    <2> QED BY <1>0, <2>1, <2>2, RegistryAlone
  <1>7. ASSUME NEW t \in Threads, NEW l \in Loops, NEW kind \in {"main", "background"},
               SetLoop(t, l, kind)
        PROVE  RegistryTyped' /\ OwnersTyped' /\ LoopsKeptApart'
    <2>1. Registers(t, l, kind) /\ UNCHANGED <<made, open, running, default_loop, seeking>>
      BY <1>7 DEF SetLoop
    <2>2. OwnersTyped'
      BY <1>0, <2>1 DEF OwnersTyped
    <2> QED BY <1>0, <2>1, <2>2, RegistersKeeps
  <1>8. ASSUME NEW t \in Threads, NEW l \in Loops, LegacySetLoop(t, l)
        PROVE  RegistryTyped' /\ OwnersTyped' /\ LoopsKeptApart'
    <2>1. PICK kind \in {"main", "background"} : kind = ThreadKind(t)
      BY DEF ThreadKind
    <2> QED BY <1>7, <1>8, <2>1 DEF LegacySetLoop
  <1>9. ASSUME NEW t \in seeking, FindsOwn(t)
        PROVE  RegistryTyped' /\ OwnersTyped' /\ LoopsKeptApart'
    <2>1. PICK r \in {"main", "background", "nothing"} : r = ThreadKind(t)
      BY DEF ThreadKind
    <2>2. t \in Threads /\ seeking' \subseteq Threads /\ running' = running
      BY <1>0, <1>9 DEF FindsOwn, OwnersTyped
    <2>3. RunningOrNew(t, r)
      BY <1>9, <2>1 DEF FindsOwn
    <2> QED BY <1>0, <2>2, <2>3, RunningOrNewKeeps
  <1>10. CASE ClearLoops
    BY <1>0, <1>10 DEF ClearLoops, RegistryTyped, OwnersTyped, LoopsKeptApart
  <1>11. CASE \E l \in Loops : Closes(l)
    <2>1. PICK l \in Loops : Closes(l)
      BY <1>11
    <2>2. UNCHANGED RegistryVars
      BY <2>1 DEF Closes, RegistryVars
    <2>3. OwnersTyped'
      BY <1>0, <2>1 DEF Closes, OwnersTyped
    <2> QED BY <1>0, <2>2, <2>3, RegistryAlone
  <1>12. CASE LoopNext
    BY <1>2, <1>3, <1>4, <1>5, <1>6, <1>7, <1>8, <1>9, <1>10, <1>11, <1>12, Zenon DEF LoopNext
  <1> QED BY <1>1, <1>12

\* The program begins without loops.
LEMMA LoopsBegin ==
    ASSUME LoopInit
    PROVE  LInv
  <1>1. RegistryTyped /\ OwnersTyped /\ LoopsKeptApart
    BY DEF LoopInit, NoLoops, RegistryTyped, OwnersTyped, LoopsKeptApart
  <1> QED BY <1>1, LoopTypes DEF LInv

-----------------------------------------------------------------------------
(* The read/write lock (LockManager) *)

\* What the lock's own fields have to do with those that hold it, for a lock held
\* by owner o, d times, with count c of readers, when R and W are the readers and
\* writers of each thread.
Excludes(o, d, c, R, W) ==
    /\ o = NoThread <=> d = 0
    /\ o = NoThread => c = 0
    /\ \A t \in LockThreads :
          /\ o # t => R[t] = {} /\ W[t] = {}
          /\ o = t => c = Cardinality(R[t]) /\ d = Cardinality(W[t]) + (IF c > 0 THEN 1 ELSE 0)

HoldersOfKind(kind) == [t \in LockThreads |-> Holders(kind, t)]

\* Those that will not come again.
GoneAway == {a \in Acquirers : acquirer[a].at = "gone"}

LockRecords ==
    /\ owner \in LockThreads \cup {NoThread}
    /\ acquirer \in [Acquirers ->
           [at : {"idle", "trying", "waiting", "acquired", "holding", "gone"},
            thread : LockThreads, kind : {"read", "write"}, timed : BOOLEAN]]
    /\ abandoned \in [held : SUBSET Acquirers, counted : SUBSET Acquirers,
                     doubled : SUBSET Acquirers]

\* What is abandoned was left for good.
AbandonedGone ==
    abandoned.held \cup abandoned.counted \cup abandoned.doubled \subseteq GoneAway

HeldRight ==
    Excludes(owner, depth, read_count, HoldersOfKind("read"), HoldersOfKind("write"))

LockInv ==
    LockRecords /\ AbandonedGone /\ HeldRight /\ WritersCounted /\ ReadersCounted

\* The coroutines that hold the lock, with those that were told they do not.
HoldingNow ==
    {a \in Acquirers : acquirer[a].at \in {"acquired", "holding"} \/ a \in abandoned.held}

\* A set that gains an element or loses one.
LEMMA OneMoreOneLess ==
    ASSUME NEW S, NEW A, IsFiniteSet(A), S \subseteq A, NEW a
    PROVE  /\ IsFiniteSet(S) /\ Cardinality(S) \in Nat
           /\ a \notin S => Cardinality(S \cup {a}) = Cardinality(S) + 1
           /\ a \in S => Cardinality(S \ {a}) = Cardinality(S) - 1 /\ Cardinality(S) > 0
           /\ Cardinality(S) = 0 <=> S = {}
           /\ Cardinality(S) <= Cardinality(A)
  <1>1. IsFiniteSet(S) /\ Cardinality(S) \in Nat /\ Cardinality(S) <= Cardinality(A)
    BY FS_Subset, FS_CardinalityType
  <1>2. Cardinality(S) = 0 <=> S = {}
    BY <1>1, FS_EmptySet
  <1>3. a \notin S => Cardinality(S \cup {a}) = Cardinality(S) + 1
    BY <1>1, FS_AddElement
  <1>4. a \in S => Cardinality(S \ {a}) = Cardinality(S) - 1
    BY <1>1, FS_RemoveElement
  <1>5. a \in S => Cardinality(S) > 0
    BY <1>1, <1>2
  <1> QED BY <1>1, <1>2, <1>3, <1>4, <1>5

\* The numbers of two sets of coroutines, one of which is joined.
LEMMA JoinCounts ==
    ASSUME NEW S \in SUBSET Acquirers, NEW V \in SUBSET Acquirers, NEW a, a \notin S
    PROVE  \E r \in Nat, w \in Nat :
              /\ r = Cardinality(S) /\ w = Cardinality(V)
              /\ Cardinality(S \cup {a}) = r + 1
              /\ r = 0 <=> S = {}
              /\ w = 0 <=> V = {}
  <1>1. PICK r \in Nat : r = Cardinality(S) /\ (r = 0 <=> S = {})
    BY OneMoreOneLess, LockAssumption
  <1>2. PICK w \in Nat : w = Cardinality(V) /\ (w = 0 <=> V = {})
    BY OneMoreOneLess, LockAssumption
  <1>3. Cardinality(S \cup {a}) = r + 1
    BY <1>1, OneMoreOneLess, LockAssumption
  <1> QED BY <1>1, <1>2, <1>3

\* The same when one leaves.
LEMMA LeaveCounts ==
    ASSUME NEW S \in SUBSET Acquirers, NEW V \in SUBSET Acquirers, NEW a \in S
    PROVE  \E r \in Nat, w \in Nat, q \in Nat :
              /\ r = Cardinality(S) /\ w = Cardinality(V)
              /\ q = Cardinality(S \ {a}) /\ q = r - 1
              /\ q = 0 <=> S \ {a} = {}
              /\ w = 0 <=> V = {}
  <1>1. PICK r \in Nat : r = Cardinality(S)
    BY OneMoreOneLess, LockAssumption
  <1>2. PICK w \in Nat : w = Cardinality(V) /\ (w = 0 <=> V = {})
    BY OneMoreOneLess, LockAssumption
  <1>3. PICK q \in Nat : q = Cardinality(S \ {a}) /\ (q = 0 <=> S \ {a} = {})
    <2>1. S \ {a} \in SUBSET Acquirers
      OBVIOUS
    <2> QED BY <2>1, OneMoreOneLess, LockAssumption
  <1>4. q = r - 1
    BY <1>1, <1>3, OneMoreOneLess, LockAssumption
  <1> QED BY <1>1, <1>2, <1>3, <1>4

\* A reader that takes the lock for the readers of its thread, or joins them.
LEMMA ReaderEnters ==
    ASSUME NEW o \in LockThreads \cup {NoThread}, NEW d, NEW c, NEW R, NEW W,
           R \in [LockThreads -> SUBSET Acquirers], W \in [LockThreads -> SUBSET Acquirers],
           Excludes(o, d, c, R, W), NEW t \in LockThreads, NEW a \in Acquirers,
           a \notin R[t], o \in {NoThread, t},
           NEW o2, NEW d2,
           IF c + 1 = 1 THEN o2 = t /\ d2 = d + 1 ELSE o2 = o /\ d2 = d
    PROVE  Excludes(o2, d2, c + 1, [R EXCEPT ![t] = @ \cup {a}], W)
  <1> USE LockAssumption
  <1> DEFINE R2 == [R EXCEPT ![t] = @ \cup {a}]
  <1>1. PICK r \in Nat, w \in Nat :
           /\ r = Cardinality(R[t]) /\ w = Cardinality(W[t])
           /\ Cardinality(R[t] \cup {a}) = r + 1
           /\ r = 0 <=> R[t] = {}
           /\ w = 0 <=> W[t] = {}
    BY JoinCounts
  <1>2. c = r /\ (o = NoThread => c = 0 /\ w = 0 /\ d = 0)
        /\ (o = t => d = w + (IF c > 0 THEN 1 ELSE 0))
    BY <1>1 DEF Excludes
  <1>3. o2 = t /\ d2 = w + 1
    BY <1>2
  <1>4. /\ R2[t] = R[t] \cup {a}
        /\ \A s \in LockThreads : s # t => R2[s] = R[s] /\ R[s] = {} /\ W[s] = {}
    BY DEF Excludes
  <1>5. t # NoThread /\ d2 # 0 /\ c + 1 > 0 /\ c + 1 = r + 1
    BY <1>2, <1>3
  <1>6. ASSUME NEW s \in LockThreads
        PROVE  /\ o2 # s => R2[s] = {} /\ W[s] = {}
               /\ o2 = s => /\ c + 1 = Cardinality(R2[s])
                            /\ d2 = Cardinality(W[s]) + (IF c + 1 > 0 THEN 1 ELSE 0)
    <2>1. CASE s = t
      BY <1>1, <1>3, <1>4, <1>5, <2>1
    <2>2. CASE s # t
      BY <1>3, <1>4, <2>2
    <2> QED BY <2>1, <2>2
  <1> HIDE DEF R2
  <1>7. Excludes(o2, d2, c + 1, R2, W)
    BY <1>3, <1>5, <1>6 DEF Excludes
  <1> QED BY <1>7 DEF R2

\* A writer that takes it once more.
LEMMA WriterEnters ==
    ASSUME NEW o \in LockThreads \cup {NoThread}, NEW d, NEW c, NEW R, NEW W,
           R \in [LockThreads -> SUBSET Acquirers], W \in [LockThreads -> SUBSET Acquirers],
           Excludes(o, d, c, R, W), NEW t \in LockThreads, NEW a \in Acquirers,
           a \notin W[t], o \in {NoThread, t}
    PROVE  Excludes(t, d + 1, c, R, [W EXCEPT ![t] = @ \cup {a}])
  <1> USE LockAssumption
  <1> DEFINE W2 == [W EXCEPT ![t] = @ \cup {a}]
  <1>1. PICK r \in Nat, w \in Nat :
           /\ r = Cardinality(R[t]) /\ w = Cardinality(W[t])
           /\ Cardinality(W[t] \cup {a}) = w + 1
           /\ r = 0 <=> R[t] = {}
           /\ w = 0 <=> W[t] = {}
    BY JoinCounts
  <1>2. /\ c = r /\ (o = NoThread => c = 0 /\ w = 0 /\ d = 0)
        /\ o = t => d = w + (IF c > 0 THEN 1 ELSE 0)
    BY <1>1 DEF Excludes
  <1>3. d + 1 = (w + 1) + (IF c > 0 THEN 1 ELSE 0) /\ d + 1 # 0
    BY <1>2
  <1>4. /\ W2[t] = W[t] \cup {a}
        /\ \A s \in LockThreads : s # t => W2[s] = W[s] /\ R[s] = {} /\ W[s] = {}
    BY DEF Excludes
  <1>5. ASSUME NEW s \in LockThreads
        PROVE  /\ t # s => R[s] = {} /\ W2[s] = {}
               /\ t = s => /\ c = Cardinality(R[s])
                           /\ d + 1 = Cardinality(W2[s]) + (IF c > 0 THEN 1 ELSE 0)
    <2>1. CASE s = t
      BY <1>1, <1>2, <1>3, <1>4, <2>1
    <2>2. CASE s # t
      BY <1>4, <2>2
    <2> QED BY <2>1, <2>2
  <1> HIDE DEF W2
  <1>6. Excludes(t, d + 1, c, R, W2)
    BY <1>3, <1>5 DEF Excludes
  <1> QED BY <1>6 DEF W2

\* A reader that leaves, and with the last of them their hold.
LEMMA ReaderLeaves ==
    ASSUME NEW o \in LockThreads \cup {NoThread}, NEW d, NEW c, NEW R, NEW W,
           R \in [LockThreads -> SUBSET Acquirers], W \in [LockThreads -> SUBSET Acquirers],
           Excludes(o, d, c, R, W), NEW t \in LockThreads, NEW a \in R[t],
           NEW o2, NEW d2,
           IF c = 1 THEN o2 = (IF d = 1 THEN NoThread ELSE o) /\ d2 = d - 1
                    ELSE o2 = o /\ d2 = d
    PROVE  Excludes(o2, d2, c - 1, [R EXCEPT ![t] = @ \ {a}], W)
  <1> USE LockAssumption
  <1> DEFINE R2 == [R EXCEPT ![t] = @ \ {a}]
  <1>1. PICK r \in Nat, w \in Nat, q \in Nat :
           /\ r = Cardinality(R[t]) /\ w = Cardinality(W[t])
           /\ q = Cardinality(R[t] \ {a}) /\ q = r - 1
           /\ q = 0 <=> R[t] \ {a} = {}
           /\ w = 0 <=> W[t] = {}
    BY LeaveCounts
  <1>2. o = t
    BY DEF Excludes
  <1>3. c = r /\ d = w + (IF c > 0 THEN 1 ELSE 0)
    BY <1>1, <1>2 DEF Excludes
  <1>4. /\ R2[t] = R[t] \ {a}
        /\ \A s \in LockThreads : s # t => R2[s] = {} /\ W[s] = {}
    BY <1>2 DEF Excludes
  <1>5. c - 1 = q /\ d2 = w + (IF c - 1 > 0 THEN 1 ELSE 0)
    BY <1>1, <1>3
  <1>6. o2 \in {t, NoThread} /\ (o2 = NoThread <=> d2 = 0) /\ (o2 = NoThread => c - 1 = 0 /\ w = 0)
    BY <1>1, <1>2, <1>3, <1>5
  <1>7. ASSUME NEW s \in LockThreads
        PROVE  /\ o2 # s => R2[s] = {} /\ W[s] = {}
               /\ o2 = s => /\ c - 1 = Cardinality(R2[s])
                            /\ d2 = Cardinality(W[s]) + (IF c - 1 > 0 THEN 1 ELSE 0)
    <2>1. CASE s = t
      BY <1>1, <1>4, <1>5, <1>6, <2>1
    <2>2. CASE s # t
      BY <1>4, <1>6, <2>2
    <2> QED BY <2>1, <2>2
  <1> HIDE DEF R2
  <1>8. Excludes(o2, d2, c - 1, R2, W)
    BY <1>6, <1>7 DEF Excludes
  <1> QED BY <1>8 DEF R2

\* A writer that leaves.
LEMMA WriterLeaves ==
    ASSUME NEW o \in LockThreads \cup {NoThread}, NEW d, NEW c, NEW R, NEW W,
           R \in [LockThreads -> SUBSET Acquirers], W \in [LockThreads -> SUBSET Acquirers],
           Excludes(o, d, c, R, W), NEW t \in LockThreads, NEW a \in W[t]
    PROVE  Excludes(IF d = 1 THEN NoThread ELSE o, d - 1, c, R, [W EXCEPT ![t] = @ \ {a}])
  <1> USE LockAssumption
  <1> DEFINE W2 == [W EXCEPT ![t] = @ \ {a}]
             o2 == IF d = 1 THEN NoThread ELSE o
  <1>1. PICK w \in Nat, r \in Nat, q \in Nat :
           /\ w = Cardinality(W[t]) /\ r = Cardinality(R[t])
           /\ q = Cardinality(W[t] \ {a}) /\ q = w - 1
           /\ q = 0 <=> W[t] \ {a} = {}
           /\ r = 0 <=> R[t] = {}
    BY LeaveCounts
  <1>2. o = t
    BY DEF Excludes
  <1>3. c = r /\ d = w + (IF c > 0 THEN 1 ELSE 0)
    BY <1>1, <1>2 DEF Excludes
  <1>4. /\ W2[t] = W[t] \ {a}
        /\ \A s \in LockThreads : s # t => R[s] = {} /\ W2[s] = {}
    BY <1>2 DEF Excludes
  <1>5. d - 1 = q + (IF c > 0 THEN 1 ELSE 0)
    BY <1>1, <1>3
  <1>6. o2 \in {t, NoThread} /\ (o2 = NoThread <=> d - 1 = 0) /\ (o2 = NoThread => c = 0 /\ q = 0)
    BY <1>1, <1>2, <1>3, <1>5
  <1>7. ASSUME NEW s \in LockThreads
        PROVE  /\ o2 # s => R[s] = {} /\ W2[s] = {}
               /\ o2 = s => /\ c = Cardinality(R[s])
                            /\ d - 1 = Cardinality(W2[s]) + (IF c > 0 THEN 1 ELSE 0)
    <2>1. CASE s = t
      BY <1>1, <1>3, <1>4, <1>5, <1>6, <2>1
    <2>2. CASE s # t
      BY <1>4, <1>6, <2>2
    <2> QED BY <2>1, <2>2
  <1> HIDE DEF W2, o2
  <1>8. Excludes(o2, d - 1, c, R, W2)
    BY <1>6, <1>7 DEF Excludes
  <1> QED BY <1>8 DEF W2, o2

\* The holders by kind and thread when nobody joins or leaves them, ...
LEMMA HoldersStay ==
    ASSUME HoldingNow' = HoldingNow,
           \A b \in HoldingNow : /\ acquirer'[b].kind = acquirer[b].kind
                                 /\ acquirer'[b].thread = acquirer[b].thread
    PROVE  \A k : HoldersOfKind(k)' = HoldersOfKind(k)
  <1>1. \A k, t : /\ Holders(k, t) = {b \in HoldingNow : acquirer[b].kind = k /\ acquirer[b].thread = t}
                  /\ Holders(k, t)' = {b \in HoldingNow' : acquirer'[b].kind = k /\ acquirer'[b].thread = t}
    BY DEF Holders, HoldingNow
  <1> HIDE DEF HoldingNow
  <1>2. \A k, t : Holders(k, t)' = Holders(k, t)
    BY <1>1
  <1> QED BY <1>2 DEF HoldersOfKind

EntersHolders(a, k, t) ==
    /\ HoldingNow' = HoldingNow \cup {a}
    /\ k = acquirer[a].kind /\ t = acquirer[a].thread
    /\ \A b \in Acquirers : /\ acquirer'[b].kind = acquirer[b].kind
                            /\ acquirer'[b].thread = acquirer[b].thread

HoldersJoined(a, k, t) ==
    /\ HoldersOfKind(k)' = [HoldersOfKind(k) EXCEPT ![t] = @ \cup {a}]
    /\ \A j : j # k => HoldersOfKind(j)' = HoldersOfKind(j)

\* ... when one joins them, ...
LEMMA HoldersJoin ==
    ASSUME NEW a \in Acquirers, NEW k, NEW t \in LockThreads, EntersHolders(a, k, t)
    PROVE  HoldersJoined(a, k, t)
  <1>0. /\ HoldingNow' = HoldingNow \cup {a}
        /\ k = acquirer[a].kind /\ t = acquirer[a].thread
        /\ \A b \in Acquirers : /\ acquirer'[b].kind = acquirer[b].kind
                                /\ acquirer'[b].thread = acquirer[b].thread
    BY DEF EntersHolders
  <1>1. \A j, s : /\ Holders(j, s) = {b \in HoldingNow : acquirer[b].kind = j /\ acquirer[b].thread = s}
                  /\ Holders(j, s)' = {b \in HoldingNow' : acquirer'[b].kind = j /\ acquirer'[b].thread = s}
    BY DEF Holders, HoldingNow
  <1>2. HoldingNow \subseteq Acquirers
    BY DEF HoldingNow
  <1> HIDE DEF HoldingNow
  <1>3. Holders(k, t)' = Holders(k, t) \cup {a}
    BY <1>0, <1>1, <1>2
  <1>4. \A j, s : j # k \/ s # t => Holders(j, s)' = Holders(j, s)
    BY <1>0, <1>1, <1>2
  <1> QED BY <1>3, <1>4 DEF HoldersOfKind, HoldersJoined

LeavesHolders(a, k, t) ==
    /\ HoldingNow' = HoldingNow \ {a} /\ a \in HoldingNow
    /\ k = acquirer[a].kind /\ t = acquirer[a].thread
    /\ \A b \in Acquirers : /\ acquirer'[b].kind = acquirer[b].kind
                            /\ acquirer'[b].thread = acquirer[b].thread

HoldersLeft(a, k, t) ==
    /\ HoldersOfKind(k)' = [HoldersOfKind(k) EXCEPT ![t] = @ \ {a}]
    /\ a \in HoldersOfKind(k)[t]
    /\ \A j : j # k => HoldersOfKind(j)' = HoldersOfKind(j)

\* ... and when one leaves them.
LEMMA HoldersLeave ==
    ASSUME NEW a \in Acquirers, NEW k, NEW t \in LockThreads, LeavesHolders(a, k, t)
    PROVE  HoldersLeft(a, k, t)
  <1>0. /\ HoldingNow' = HoldingNow \ {a} /\ a \in HoldingNow
        /\ k = acquirer[a].kind /\ t = acquirer[a].thread
        /\ \A b \in Acquirers : /\ acquirer'[b].kind = acquirer[b].kind
                                /\ acquirer'[b].thread = acquirer[b].thread
    BY DEF LeavesHolders
  <1>1. \A j, s : /\ Holders(j, s) = {b \in HoldingNow : acquirer[b].kind = j /\ acquirer[b].thread = s}
                  /\ Holders(j, s)' = {b \in HoldingNow' : acquirer'[b].kind = j /\ acquirer'[b].thread = s}
    BY DEF Holders, HoldingNow
  <1>2. HoldingNow \subseteq Acquirers
    BY DEF HoldingNow
  <1> HIDE DEF HoldingNow
  <1>3. Holders(k, t)' = Holders(k, t) \ {a} /\ a \in Holders(k, t)
    BY <1>0, <1>1, <1>2
  <1>4. \A j, s : j # k \/ s # t => Holders(j, s)' = Holders(j, s)
    BY <1>0, <1>1, <1>2
  <1> QED BY <1>3, <1>4 DEF HoldersOfKind, HoldersLeft

\* How the counts of those that wait go with who waits.
WriterComes(a) == write_waiting' = write_waiting + 1
    /\ a \notin WritersWaiting /\ WritersWaiting' = WritersWaiting \cup {a}
WriterGoes(a) == write_waiting' = write_waiting - 1
    /\ a \in WritersWaiting /\ WritersWaiting' = WritersWaiting \ {a}
WritersStay == write_waiting' = write_waiting /\ WritersWaiting' = WritersWaiting

ReaderComes(a) == read_waiting' = read_waiting + 1
    /\ a \notin ReadersWaiting /\ ReadersWaiting' = ReadersWaiting \cup {a}
    /\ abandoned'.doubled = abandoned.doubled
ReaderIn(a) == read_waiting' = read_waiting - 1
    /\ a \in ReadersWaiting /\ ReadersWaiting' = ReadersWaiting \ {a}
    /\ abandoned'.doubled = abandoned.doubled
ReaderGone(a) == read_waiting' = read_waiting - 2
    /\ a \in ReadersWaiting /\ ReadersWaiting' = ReadersWaiting \ {a}
    /\ a \notin abandoned.doubled /\ abandoned'.doubled = abandoned.doubled \cup {a}
ReadersStay == read_waiting' = read_waiting /\ ReadersWaiting' = ReadersWaiting
    /\ abandoned'.doubled = abandoned.doubled

\* The counts stay right.
LEMMA CountsStep ==
    ASSUME WritersCounted, ReadersCounted, NEW a \in Acquirers,
           abandoned.doubled \subseteq Acquirers,
           WriterComes(a) \/ WriterGoes(a) \/ WritersStay,
           ReaderComes(a) \/ ReaderIn(a) \/ ReaderGone(a) \/ ReadersStay
    PROVE  WritersCounted' /\ ReadersCounted'
  <1>0. /\ WritersWaiting \subseteq Acquirers /\ ReadersWaiting \subseteq Acquirers
        /\ IsFiniteSet(Acquirers)
    BY LockAssumption DEF WritersWaiting, ReadersWaiting
  <1>1. PICK w \in Nat : /\ w = Cardinality(WritersWaiting)
                         /\ a \notin WritersWaiting => Cardinality(WritersWaiting \cup {a}) = w + 1
                         /\ a \in WritersWaiting => Cardinality(WritersWaiting \ {a}) = w - 1
    BY <1>0, OneMoreOneLess
  <1>2. PICK r \in Nat : /\ r = Cardinality(ReadersWaiting)
                         /\ a \notin ReadersWaiting => Cardinality(ReadersWaiting \cup {a}) = r + 1
                         /\ a \in ReadersWaiting => Cardinality(ReadersWaiting \ {a}) = r - 1
    BY <1>0, OneMoreOneLess
  <1>3. PICK g \in Nat :
           /\ g = Cardinality(abandoned.doubled)
           /\ a \notin abandoned.doubled => Cardinality(abandoned.doubled \cup {a}) = g + 1
    <2>1. PICK g \in Nat : g = Cardinality(abandoned.doubled)
      BY <1>0, OneMoreOneLess
    <2>2. a \notin abandoned.doubled => Cardinality(abandoned.doubled \cup {a}) = g + 1
      BY <1>0, <2>1, OneMoreOneLess
    <2> QED BY <2>1, <2>2
  <1>4. write_waiting = w /\ read_waiting = r - g
    BY <1>1, <1>2, <1>3 DEF WritersCounted, ReadersCounted
  <1>5. \/ write_waiting' = w + 1 /\ Cardinality(WritersWaiting') = w + 1
        \/ write_waiting' = w - 1 /\ Cardinality(WritersWaiting') = w - 1
        \/ write_waiting' = w /\ Cardinality(WritersWaiting') = w
    BY <1>1, <1>4 DEF WriterComes, WriterGoes, WritersStay
  <1>6. WritersCounted'
    BY <1>5 DEF WritersCounted
  <1>7. \/ /\ read_waiting' = read_waiting + 1
           /\ Cardinality(ReadersWaiting') = r + 1 /\ Cardinality(abandoned'.doubled) = g
        \/ /\ read_waiting' = read_waiting - 1
           /\ Cardinality(ReadersWaiting') = r - 1 /\ Cardinality(abandoned'.doubled) = g
        \/ /\ read_waiting' = read_waiting - 2
           /\ Cardinality(ReadersWaiting') = r - 1 /\ Cardinality(abandoned'.doubled) = g + 1
        \/ /\ read_waiting' = read_waiting
           /\ Cardinality(ReadersWaiting') = r /\ Cardinality(abandoned'.doubled) = g
    BY <1>2, <1>3, Zenon DEF ReaderComes, ReaderIn, ReaderGone, ReadersStay
  <1>8. PICK r2 \in Int, g2 \in Int :
           /\ r2 = Cardinality(ReadersWaiting') /\ g2 = Cardinality(abandoned'.doubled)
           /\ read_waiting' = r2 - g2
    BY <1>4, <1>7
  <1>9. ReadersCounted'
    BY <1>8 DEF ReadersCounted
  <1> QED BY <1>6, <1>9

Places == {"idle", "trying", "waiting", "acquired", "holding", "gone"}

\* A coroutine goes on: nothing but its place changes.
LEMMA GoesOn ==
    ASSUME LockRecords, NEW a \in Acquirers, NEW place \in Places, Goes(a, place)
    PROVE  /\ acquirer' \in [Acquirers ->
                 [at : {"idle", "trying", "waiting", "acquired", "holding", "gone"},
                  thread : LockThreads, kind : {"read", "write"}, timed : BOOLEAN]]
           /\ acquirer'[a].at = place
           /\ \A b \in Acquirers : /\ acquirer'[b].kind = acquirer[b].kind
                                   /\ acquirer'[b].thread = acquirer[b].thread
                                   /\ b # a => acquirer'[b].at = acquirer[b].at
           /\ acquirer[a].thread \in LockThreads /\ acquirer[a].kind \in {"read", "write"}
  BY DEF LockRecords, Goes, Places

\* The parts of the invariant are enough for the lock's types.
LEMMA LockTyped ==
    ASSUME LockInv
    PROVE  LockTypeOK /\ LockAccounts
  <1> USE LockAssumption
  <1>0. LockRecords /\ HeldRight /\ WritersCounted /\ ReadersCounted
    BY DEF LockInv
  <1>1. PICK n \in Nat : n = Cardinality(Acquirers)
    BY FS_CardinalityType
  <1>2. write_waiting \in 0 .. n
    <2>1. WritersWaiting \subseteq Acquirers
      BY DEF WritersWaiting
    <2>2. PICK w \in Nat : w = Cardinality(WritersWaiting) /\ w <= n
      BY <1>1, <2>1, OneMoreOneLess
    <2> QED BY <1>0, <2>2 DEF WritersCounted
  <1>3. read_waiting \in (-n) .. n
    <2>1. ReadersWaiting \subseteq Acquirers /\ abandoned.doubled \subseteq Acquirers
      BY <1>0 DEF ReadersWaiting, LockRecords
    <2>2. PICK r \in Nat : r = Cardinality(ReadersWaiting) /\ r <= n
      BY <1>1, <2>1, OneMoreOneLess
    <2>3. PICK g \in Nat : g = Cardinality(abandoned.doubled) /\ g <= n
      BY <1>1, <2>1, OneMoreOneLess
    <2> QED BY <1>0, <2>2, <2>3 DEF ReadersCounted
  <1>4. \A t \in LockThreads : HoldersOfKind("read")[t] = Holders("read", t)
            /\ HoldersOfKind("write")[t] = Holders("write", t)
    BY DEF HoldersOfKind
  <1>5. depth \in 0 .. n /\ read_count \in 0 .. n
    <2>1. CASE owner = NoThread
      BY <1>0, <1>1, <2>1 DEF HeldRight, Excludes
    <2>2. CASE owner \in LockThreads
      <3>1. PICK R, W : R = Holders("read", owner) /\ W = Holders("write", owner)
        OBVIOUS
      <3>2. R \subseteq Acquirers /\ W \subseteq Acquirers /\ R \cap W = {}
        BY <3>1 DEF Holders
      <3>3. PICK r \in Nat, w \in Nat : r = Cardinality(R) /\ w = Cardinality(W)
        BY <3>2, OneMoreOneLess
      <3>4. r + w <= n
        <4>1. Cardinality(R \cup W) = Cardinality(R) + Cardinality(W)
          <5>1. IsFiniteSet(R) /\ IsFiniteSet(W) /\ Cardinality(R \cap W) = 0
            BY <3>2, OneMoreOneLess, FS_EmptySet
          <5>2. Cardinality(R \cup W) = Cardinality(R) + Cardinality(W) - Cardinality(R \cap W)
            BY <5>1, FS_Union
          <5> QED BY <3>3, <5>1, <5>2
        <4>2. R \cup W \subseteq Acquirers
          BY <3>2
        <4>3. Cardinality(R \cup W) <= n
          BY <1>1, <4>2, OneMoreOneLess
        <4> QED BY <3>3, <4>1, <4>3
      <3>5. read_count = r /\ depth = w + (IF read_count > 0 THEN 1 ELSE 0)
        BY <1>0, <1>4, <2>2, <3>1, <3>3 DEF HeldRight, Excludes
      <3> QED BY <3>3, <3>4, <3>5
    <2> QED BY <1>0, <2>1, <2>2 DEF LockRecords
  <1>6. LockTypeOK
    BY <1>0, <1>1, <1>2, <1>3, <1>5 DEF LockTypeOK, LockRecords
  <1>7. ThreadsExcluded
    BY <1>0, <1>4 DEF HeldRight, Excludes, ThreadsExcluded
  <1> QED BY <1>0, <1>6, <1>7 DEF LockAccounts

\* Steps that leave the lock itself alone keep who holds it.
LEMMA HeldStays ==
    ASSUME LockInv, HoldingNow' = HoldingNow,
           \A b \in HoldingNow : /\ acquirer'[b].kind = acquirer[b].kind
                                 /\ acquirer'[b].thread = acquirer[b].thread,
           UNCHANGED <<owner, depth, read_count>>
    PROVE  HeldRight'
  BY HoldersStay DEF LockInv, HeldRight, Excludes

\* A coroutine asks for the lock.
LEMMA AskKeeps ==
    ASSUME LockInv, NEW a \in Acquirers, NEW kind \in {"read", "write"}, NEW timed \in BOOLEAN,
           Asks(a, kind, timed)
    PROVE  LockInv'
  <1>0. LockRecords /\ AbandonedGone /\ WritersCounted /\ ReadersCounted /\ acquirer[a].at = "idle"
    BY DEF LockInv, Asks, At
  <1>1. PICK p \in {"idle", "trying", "waiting", "acquired", "holding", "gone"} : p = "trying"
    OBVIOUS
  <1>2. acquirer' = [acquirer EXCEPT ![a].at = p, ![a].kind = kind, ![a].timed = timed]
    BY <1>1, Zenon DEF Asks
  <1>3. /\ LockRecords' /\ acquirer'[a].at = p /\ acquirer'[a].kind = kind
        /\ \A b \in Acquirers : b # a => acquirer'[b] = acquirer[b]
    <2>1. UNCHANGED <<owner, abandoned>>
      BY DEF Asks
    <2> DEFINE Places1 == {"idle", "trying", "waiting", "acquired", "holding", "gone"}
               Kinds == {"read", "write"}
               As == [at : Places1, thread : LockThreads, kind : Kinds, timed : BOOLEAN]
    <2>2. acquirer \in [Acquirers -> As] /\ p \in Places1 /\ kind \in Kinds
          /\ timed \in BOOLEAN
      BY <1>0 DEF LockRecords
    <2> HIDE DEF Places1, Kinds
    <2>3. acquirer' \in [Acquirers -> As] /\ acquirer'[a].at = p /\ acquirer'[a].kind = kind
          /\ \A b \in Acquirers : b # a => acquirer'[b] = acquirer[b]
      BY ONLY <1>2, <2>2
    <2>4. LockRecords'
      BY <1>0, <2>1, <2>3 DEF LockRecords, Places1, Kinds
    <2> QED BY <2>3, <2>4
  <1>4. acquirer'[a].at = "trying" /\ abandoned' = abandoned
    BY <1>1, <1>3 DEF Asks
  <1>5. AbandonedGone'
    BY <1>0, <1>3, <1>4 DEF AbandonedGone, GoneAway
  <1>6. a \notin HoldingNow /\ HoldingNow' = HoldingNow
    BY <1>0, <1>3, <1>4 DEF HoldingNow, AbandonedGone, GoneAway
  <1>7. HeldRight'
    <2>1. \A b \in HoldingNow : /\ acquirer'[b].kind = acquirer[b].kind
                                /\ acquirer'[b].thread = acquirer[b].thread
      BY <1>3, <1>6 DEF HoldingNow
    <2>2. UNCHANGED <<owner, depth, read_count>>
      BY DEF Asks
    <2> QED BY <1>6, <2>1, <2>2, HeldStays
  <1>8. abandoned'.doubled = abandoned.doubled /\ abandoned.doubled \subseteq Acquirers
    BY <1>0, <1>4 DEF LockRecords
  <1>9. CASE kind = "read"
    <2>1. WritersStay
      BY <1>0, <1>3, <1>4, <1>9 DEF WritersStay, WritersWaiting, Asks, AbandonedGone, GoneAway
    <2>2. ReaderComes(a)
      BY <1>0, <1>3, <1>4, <1>8, <1>9 DEF ReaderComes, ReadersWaiting, Asks
    <2> QED BY <1>0, <1>3, <1>5, <1>7, <1>8, <2>1, <2>2, CountsStep DEF LockInv
  <1>10. CASE kind = "write"
    <2>1. WriterComes(a)
      BY <1>0, <1>3, <1>4, <1>10 DEF WriterComes, WritersWaiting, Asks, AbandonedGone, GoneAway
    <2>2. ReadersStay
      BY <1>0, <1>3, <1>4, <1>8, <1>10 DEF ReadersStay, ReadersWaiting, Asks
    <2> QED BY <1>0, <1>3, <1>5, <1>7, <1>8, <2>1, <2>2, CountsStep DEF LockInv
  <1> QED BY <1>9, <1>10

\* A coroutine that got the lock, and knows it or not, or that goes on without it.
LEMMA CountsGoOn ==
    ASSUME LockInv, NEW a \in Acquirers, NEW place \in Places, Goes(a, place),
           acquirer[a].at \in {"trying", "waiting", "acquired"},
           \/ place \in {"waiting", "acquired"} /\ UNCHANGED <<read_waiting, write_waiting>>
              /\ abandoned'.counted = abandoned.counted /\ abandoned'.doubled = abandoned.doubled
           \/ place = "holding" /\ Uncounted(a, "succeeds")
              /\ abandoned'.counted = abandoned.counted /\ abandoned'.doubled = abandoned.doubled
           \/ place = "gone" /\ \E how \in {"fails", "cancelled"} :
                 /\ Uncounted(a, how) /\ abandoned'.counted = StillCounted(a, how)
                 /\ abandoned'.doubled = Doubled(a, how)
    PROVE  WritersCounted' /\ ReadersCounted'
  <1>0. LockRecords /\ AbandonedGone /\ WritersCounted /\ ReadersCounted
    BY DEF LockInv
  <1>1. /\ acquirer'[a].at = place /\ acquirer[a].kind \in {"read", "write"}
        /\ \A b \in Acquirers : /\ acquirer'[b].kind = acquirer[b].kind
                                /\ b # a => acquirer'[b].at = acquirer[b].at
    BY <1>0, GoesOn
  <1>2. a \notin abandoned.counted /\ a \notin abandoned.doubled
        /\ abandoned.doubled \subseteq Acquirers
    BY <1>0 DEF AbandonedGone, GoneAway, LockRecords
  <1>3. acquirer[a].kind = "write" => abandoned'.doubled = abandoned.doubled
    BY DEF Doubled
  <1>4. \/ place \in {"waiting", "acquired"} /\ ReadersWaiting' = ReadersWaiting
        \/ place \in {"holding", "gone"} /\ ReadersWaiting' = ReadersWaiting \ {a}
    BY <1>1 DEF ReadersWaiting, Places
  <1>5. CASE acquirer[a].kind = "read"
    <2>1. a \in ReadersWaiting
      BY <1>5 DEF ReadersWaiting
    <2>2. ReaderIn(a) \/ ReaderGone(a) \/ ReadersStay
      <3>1. CASE place \in {"waiting", "acquired"}
        BY <1>4, <3>1 DEF ReadersStay
      <3>2. CASE place = "holding"
        BY <1>4, <1>5, <2>1, <3>2 DEF ReaderIn, Uncounted
      <3>3. CASE place = "gone"
        <4>1. CASE Uncounted(a, "fails") /\ abandoned'.doubled = Doubled(a, "fails")
          BY <1>2, <1>4, <1>5, <2>1, <3>3, <4>1 DEF ReaderGone, Uncounted, Doubled
        <4>2. CASE Uncounted(a, "cancelled") /\ abandoned'.doubled = Doubled(a, "cancelled")
          BY <1>4, <1>5, <2>1, <3>3, <4>2 DEF ReaderIn, Uncounted, Doubled
        <4> QED BY <3>3, <4>1, <4>2
      <3> QED BY <3>1, <3>2, <3>3 DEF Places
    <2>3. WritersStay
      <3>1. abandoned'.counted = abandoned.counted /\ write_waiting' = write_waiting
        BY <1>5 DEF Uncounted, StillCounted
      <3> QED BY <1>1, <1>2, <1>5, <3>1 DEF WritersStay, WritersWaiting
    <2> QED BY <1>0, <1>2, <2>2, <2>3, CountsStep
  <1>6. CASE acquirer[a].kind = "write"
    <2>1. a \in WritersWaiting /\ a \notin ReadersWaiting
      BY <1>6 DEF WritersWaiting, ReadersWaiting
    <2>2. ReadersStay
      <3>1. read_waiting' = read_waiting
        BY <1>6 DEF Uncounted
      <3> QED BY <1>3, <1>4, <1>6, <2>1, <3>1 DEF ReadersStay
    <2>3. WriterGoes(a) \/ WritersStay
      <3>1. CASE \/ place \in {"waiting", "acquired"} /\ UNCHANGED write_waiting
                    /\ abandoned'.counted = abandoned.counted
                 \/ place = "gone" /\ UNCHANGED write_waiting
                    /\ abandoned'.counted = abandoned.counted \cup {a}
        <4>1. WritersWaiting' = WritersWaiting
          BY <1>1, <1>2, <1>6, <3>1 DEF WritersWaiting
        <4> QED BY <3>1, <4>1 DEF WritersStay
      <3>2. CASE /\ place \in {"holding", "gone"} /\ write_waiting' = write_waiting - 1
                 /\ abandoned'.counted = abandoned.counted
        <4>1. WritersWaiting' = WritersWaiting \ {a}
          BY <1>1, <1>2, <1>6, <3>2 DEF WritersWaiting
        <4> QED BY <2>1, <3>2, <4>1 DEF WriterGoes
      <3>3. write_waiting \in Nat
        <4>1. WritersWaiting \subseteq Acquirers
          BY DEF WritersWaiting
        <4> QED BY <1>0, <4>1, OneMoreOneLess, LockAssumption DEF WritersCounted
      <3>4. \/ place \in {"waiting", "acquired"} /\ UNCHANGED write_waiting
               /\ abandoned'.counted = abandoned.counted
            \/ place = "gone" /\ UNCHANGED write_waiting
               /\ abandoned'.counted = abandoned.counted \cup {a}
            \/ place \in {"holding", "gone"} /\ write_waiting' = write_waiting - 1
               /\ abandoned'.counted = abandoned.counted
        <4>1. ASSUME NEW how, Uncounted(a, how)
              PROVE  write_waiting' = IF how = "cancelled" THEN write_waiting ELSE write_waiting - 1
          BY <1>6, <3>3, <4>1 DEF Uncounted
        <4>2. \A how : StillCounted(a, how) =
                 IF how = "cancelled" THEN abandoned.counted \cup {a} ELSE abandoned.counted
          BY <1>6 DEF StillCounted
        <4> QED BY <4>1, <4>2
      <3> QED BY <3>1, <3>2, <3>4
    <2> QED BY <1>0, <1>2, <2>2, <2>3, CountsStep
  <1> QED BY <1>1, <1>5, <1>6

\* A coroutine takes the lock, on its first try or a later one.
LEMMA AcquireKeeps ==
    ASSUME LockInv, NEW a \in Acquirers, Acquires(a)
    PROVE  LockInv'
  <1> DEFINE R == HoldersOfKind("read")
             W == HoldersOfKind("write")
  <1>0. LockRecords /\ AbandonedGone /\ HeldRight
    BY DEF LockInv
  <1>t. PICK t \in LockThreads, k \in {"read", "write"} :
           t = acquirer[a].thread /\ k = acquirer[a].kind
    BY <1>0 DEF LockRecords
  <1>1. /\ acquirer[a].at \in {"waiting", "trying"} /\ abandoned' = abandoned
        /\ owner \in {NoThread, t}
    BY <1>t DEF Acquires, At, Free
  <1>2. PICK place \in {"acquired", "holding"} :
           /\ Goes(a, place)
           /\ \/ place = "acquired" /\ UNCHANGED <<read_waiting, write_waiting>>
              \/ place = "holding" /\ Uncounted(a, "succeeds")
    BY DEF Acquires
  <1>3. place \in Places
    BY DEF Places
  <1>4. WritersCounted' /\ ReadersCounted'
    BY <1>1, <1>2, <1>3, CountsGoOn
  <1>5. /\ acquirer' \in [Acquirers ->
                 [at : {"idle", "trying", "waiting", "acquired", "holding", "gone"},
                  thread : LockThreads, kind : {"read", "write"}, timed : BOOLEAN]]
        /\ acquirer'[a].at = place
        /\ \A b \in Acquirers : /\ acquirer'[b].kind = acquirer[b].kind
                                /\ acquirer'[b].thread = acquirer[b].thread
                                /\ b # a => acquirer'[b].at = acquirer[b].at
    BY <1>0, <1>2, <1>3, GoesOn
  <1>6. AbandonedGone'
    BY <1>0, <1>1, <1>5 DEF AbandonedGone, GoneAway
  <1>7. a \notin HoldingNow /\ HoldingNow' = HoldingNow \cup {a}
    BY <1>0, <1>1, <1>2, <1>5 DEF HoldingNow, AbandonedGone, GoneAway
  <1>8. /\ HoldersOfKind(k)' = [HoldersOfKind(k) EXCEPT ![t] = @ \cup {a}]
        /\ \A j : j # k => HoldersOfKind(j)' = HoldersOfKind(j)
    <2>1. \A b \in Acquirers : /\ acquirer'[b].kind = acquirer[b].kind
                               /\ acquirer'[b].thread = acquirer[b].thread
      BY <1>5
    <2>2. HoldersJoined(a, k, t)
      <3>1. EntersHolders(a, k, t)
        BY <1>t, <1>7, <2>1 DEF EntersHolders
      <3> QED BY <3>1, HoldersJoin
    <2> QED BY <2>2, Zenon DEF HoldersJoined
  <1>9. /\ R \in [LockThreads -> SUBSET Acquirers] /\ W \in [LockThreads -> SUBSET Acquirers]
        /\ a \notin R[t] /\ a \notin W[t]
    BY <1>5, <1>7 DEF HoldersOfKind, Holders, HoldingNow
  <1>10. Excludes(owner, depth, read_count, R, W) /\ owner \in LockThreads \cup {NoThread}
    BY <1>0 DEF HeldRight, LockRecords
  <1>11. HeldRight' /\ owner' \in LockThreads \cup {NoThread}
    <2>1. CASE k = "read"
      <3>1. /\ read_count' = read_count + 1
            /\ IF read_count + 1 = 1 THEN owner' = t /\ depth' = depth + 1
               ELSE owner' = owner /\ depth' = depth
        BY <1>t, <2>1 DEF Acquires, KeepsLock, Takes
      <3>2. /\ HoldersOfKind("read")' = [R EXCEPT ![t] = @ \cup {a}]
            /\ HoldersOfKind("write")' = W
        BY <1>8, <2>1
      <3> HIDE DEF R, W
      <3>3. Excludes(owner', depth', read_count + 1, [R EXCEPT ![t] = @ \cup {a}], W)
        BY ONLY <1>1, <1>9, <1>10, <3>1, t \in LockThreads, a \in Acquirers, ReaderEnters
      <3> QED BY <1>5, <1>10, <3>1, <3>2, <3>3 DEF HeldRight
    <2>2. CASE k = "write"
      <3>1. /\ read_count' = read_count /\ owner' = t /\ depth' = depth + 1
        BY <1>t, <2>2 DEF Acquires, Takes
      <3>2. /\ HoldersOfKind("write")' = [W EXCEPT ![t] = @ \cup {a}]
            /\ HoldersOfKind("read")' = R
        BY <1>8, <2>2
      <3> HIDE DEF R, W
      <3>3. Excludes(t, depth + 1, read_count, R, [W EXCEPT ![t] = @ \cup {a}])
        BY ONLY <1>1, <1>9, <1>10, t \in LockThreads, a \in Acquirers, WriterEnters
      <3> QED BY <1>5, <3>1, <3>2, <3>3 DEF HeldRight
    <2> QED BY <2>1, <2>2
  <1>12. LockRecords'
    BY <1>0, <1>1, <1>5, <1>11 DEF LockRecords
  <1> QED BY <1>4, <1>6, <1>11, <1>12 DEF LockInv

\* A coroutine lets go of the lock.
LEMMA LetKeeps ==
    ASSUME LockInv, NEW a \in Acquirers, Lets(a)
    PROVE  LockInv'
  <1> DEFINE R == HoldersOfKind("read")
             W == HoldersOfKind("write")
  <1>0. LockRecords /\ AbandonedGone /\ HeldRight /\ WritersCounted /\ ReadersCounted
    BY DEF LockInv
  <1>t. PICK t \in LockThreads, k \in {"read", "write"} :
           t = acquirer[a].thread /\ k = acquirer[a].kind
    BY <1>0 DEF LockRecords
  <1>1. /\ acquirer[a].at = "holding"
        /\ UNCHANGED <<write_waiting, read_waiting, abandoned>>
    BY DEF Lets, At
  <1>2. PICK place \in Places : place = "idle" /\ Goes(a, place)
    BY DEF Lets, Places
  <1>3. /\ acquirer' \in [Acquirers ->
                 [at : {"idle", "trying", "waiting", "acquired", "holding", "gone"},
                  thread : LockThreads, kind : {"read", "write"}, timed : BOOLEAN]]
        /\ acquirer'[a].at = place
        /\ \A b \in Acquirers : /\ acquirer'[b].kind = acquirer[b].kind
                                /\ acquirer'[b].thread = acquirer[b].thread
                                /\ b # a => acquirer'[b].at = acquirer[b].at
    BY <1>0, <1>2, GoesOn
  <1>4. AbandonedGone'
    BY <1>0, <1>1, <1>3 DEF AbandonedGone, GoneAway
  <1>5. a \in HoldingNow /\ HoldingNow' = HoldingNow \ {a}
    BY <1>0, <1>1, <1>2, <1>3 DEF HoldingNow, AbandonedGone, GoneAway
  <1>6. WritersCounted' /\ ReadersCounted'
    <2>1. WritersWaiting' = WritersWaiting
      BY <1>0, <1>1, <1>2, <1>3 DEF WritersWaiting, AbandonedGone, GoneAway
    <2>2. ReadersWaiting' = ReadersWaiting
      BY <1>1, <1>2, <1>3 DEF ReadersWaiting
    <2> QED BY <1>0, <1>1, <2>1, <2>2 DEF WritersCounted, ReadersCounted
  <1>7. /\ HoldersOfKind(k)' = [HoldersOfKind(k) EXCEPT ![t] = @ \ {a}]
        /\ a \in HoldersOfKind(k)[t]
        /\ \A j : j # k => HoldersOfKind(j)' = HoldersOfKind(j)
    <2>1. \A b \in Acquirers : /\ acquirer'[b].kind = acquirer[b].kind
                               /\ acquirer'[b].thread = acquirer[b].thread
      BY <1>3
    <2>2. HoldersLeft(a, k, t)
      <3>1. LeavesHolders(a, k, t)
        BY <1>t, <1>5, <2>1 DEF LeavesHolders
      <3> QED BY <3>1, HoldersLeave
    <2> QED BY <2>2, Zenon DEF HoldersLeft
  <1>8. /\ R \in [LockThreads -> SUBSET Acquirers] /\ W \in [LockThreads -> SUBSET Acquirers]
    BY DEF HoldersOfKind, Holders
  <1>9. Excludes(owner, depth, read_count, R, W) /\ owner \in LockThreads \cup {NoThread}
    BY <1>0 DEF HeldRight, LockRecords
  <1>10. HeldRight' /\ owner' \in LockThreads \cup {NoThread}
    <2>1. CASE k = "read"
      <3>1. /\ read_count' = read_count - 1
            /\ IF read_count = 1
               THEN owner' = (IF depth = 1 THEN NoThread ELSE owner) /\ depth' = depth - 1
               ELSE owner' = owner /\ depth' = depth
        BY <1>t, <2>1 DEF Lets, LastReader, Releases
      <3>2. /\ HoldersOfKind("read")' = [R EXCEPT ![t] = @ \ {a}] /\ a \in R[t]
            /\ HoldersOfKind("write")' = W
        BY <1>7, <2>1
      <3> HIDE DEF R, W
      <3>3. Excludes(owner', depth', read_count - 1, [R EXCEPT ![t] = @ \ {a}], W)
        BY ONLY <1>8, <1>9, <3>1, <3>2, t \in LockThreads, a \in Acquirers, ReaderLeaves
      <3> QED BY <1>9, <3>1, <3>2, <3>3 DEF HeldRight
    <2>2. CASE k = "write"
      <3>1. /\ read_count' = read_count /\ depth' = depth - 1
            /\ owner' = (IF depth = 1 THEN NoThread ELSE owner)
        BY <1>t, <2>2 DEF Lets, Releases
      <3>2. /\ HoldersOfKind("write")' = [W EXCEPT ![t] = @ \ {a}] /\ a \in W[t]
            /\ HoldersOfKind("read")' = R
        BY <1>7, <2>2
      <3> HIDE DEF R, W
      <3>3. Excludes(IF depth = 1 THEN NoThread ELSE owner, depth - 1, read_count, R,
                     [W EXCEPT ![t] = @ \ {a}])
        BY ONLY <1>8, <1>9, <3>2, t \in LockThreads, a \in Acquirers, WriterLeaves
      <3> QED BY <1>9, <3>1, <3>2, <3>3 DEF HeldRight
    <2> QED BY <2>1, <2>2
  <1>11. LockRecords'
    BY <1>0, <1>1, <1>3, <1>10 DEF LockRecords
  <1> QED BY <1>4, <1>6, <1>10, <1>11 DEF LockInv

\* A coroutine waits on, learns that it has the lock, or ends without it, which it
\* may nonetheless hold.
LEMMA WaitKeeps ==
    ASSUME LockInv, NEW a \in Acquirers,
           \/ Sleeps(a) \/ Learns(a) \/ Fails(a) \/ Cancelled(a)
           \/ \E how \in {"fails", "cancelled"} : Abandons(a, how)
    PROVE  LockInv'
  <1>0. LockRecords /\ AbandonedGone /\ HeldRight
    BY DEF LockInv
  <1>1. /\ acquirer[a].at \in {"trying", "waiting", "acquired"}
        /\ UNCHANGED <<owner, depth, read_count>>
    BY DEF Sleeps, Learns, Fails, Cancelled, Abandons, GoesAway, At
  <1>2. /\ abandoned' \in [held : SUBSET Acquirers, counted : SUBSET Acquirers,
                           doubled : SUBSET Acquirers]
        /\ abandoned'.held \cup abandoned'.counted \cup abandoned'.doubled
               \subseteq abandoned.held \cup abandoned.counted \cup abandoned.doubled \cup {a}
    BY <1>0 DEF Sleeps, Learns, Fails, Cancelled, Abandons, GoesAway, StillCounted, Doubled,
                LockRecords
  <1>3. PICK place \in Places :
           /\ Goes(a, place)
           /\ \/ place = "waiting" /\ UNCHANGED <<read_waiting, write_waiting>>
                 /\ abandoned' = abandoned /\ acquirer[a].at = "trying"
              \/ place = "holding" /\ Uncounted(a, "succeeds")
                 /\ abandoned' = abandoned /\ acquirer[a].at = "acquired"
              \/ /\ place = "gone" /\ \E how \in {"fails", "cancelled"} :
                       /\ Uncounted(a, how) /\ abandoned'.counted = StillCounted(a, how)
                       /\ abandoned'.doubled = Doubled(a, how)
                 /\ \/ acquirer[a].at \in {"trying", "waiting"} /\ abandoned'.held = abandoned.held
                    \/ acquirer[a].at = "acquired" /\ abandoned'.held = abandoned.held \cup {a}
    <2>1. CASE Sleeps(a)
      BY <2>1 DEF Sleeps, At, Places
    <2>2. CASE Learns(a)
      BY <2>2 DEF Learns, At, Places
    <2>3. CASE Fails(a)
      BY <2>3 DEF Fails, GoesAway, At, Places
    <2>4. CASE Cancelled(a)
      BY <2>4 DEF Cancelled, GoesAway, At, Places
    <2>5. CASE \E how \in {"fails", "cancelled"} : Abandons(a, how)
      BY <2>5 DEF Abandons, GoesAway, At, Places
    <2> QED BY <2>1, <2>2, <2>3, <2>4, <2>5
  <1>4. WritersCounted' /\ ReadersCounted'
    BY <1>1, <1>3, CountsGoOn
  <1>5. /\ acquirer' \in [Acquirers ->
                 [at : {"idle", "trying", "waiting", "acquired", "holding", "gone"},
                  thread : LockThreads, kind : {"read", "write"}, timed : BOOLEAN]]
        /\ acquirer'[a].at = place
        /\ \A b \in Acquirers : /\ acquirer'[b].kind = acquirer[b].kind
                                /\ acquirer'[b].thread = acquirer[b].thread
                                /\ b # a => acquirer'[b].at = acquirer[b].at
    BY <1>0, <1>3, GoesOn
  <1>6. LockRecords'
    BY <1>0, <1>1, <1>2, <1>5 DEF LockRecords
  <1>7. AbandonedGone'
    BY <1>0, <1>1, <1>2, <1>3, <1>5 DEF AbandonedGone, GoneAway
  <1>8. HoldingNow' = HoldingNow
    <2>1. a \notin abandoned.held
      BY <1>0, <1>1 DEF AbandonedGone, GoneAway
    <2>2. \/ /\ acquirer[a].at \in {"trying", "waiting"} /\ acquirer'[a].at \in {"waiting", "gone"}
             /\ abandoned'.held = abandoned.held
          \/ /\ acquirer[a].at = "acquired"
             /\ \/ acquirer'[a].at = "holding" /\ abandoned'.held = abandoned.held
                \/ abandoned'.held = abandoned.held \cup {a}
      BY <1>3, <1>5
    <2> QED BY <1>5, <2>1, <2>2 DEF HoldingNow
  <1>9. HeldRight'
    <2>1. \A b \in HoldingNow : /\ acquirer'[b].kind = acquirer[b].kind
                                /\ acquirer'[b].thread = acquirer[b].thread
      BY <1>5 DEF HoldingNow
    <2> QED BY <1>1, <1>8, <2>1, HeldStays
  <1> QED BY <1>4, <1>6, <1>7, <1>9 DEF LockInv

\* Every step keeps the invariant.
LEMMA LockKept ==
    ASSUME LockInv, [LockNext]_lockVars
    PROVE  LockInv'
  <1>1. CASE UNCHANGED lockVars
    BY <1>1 DEF lockVars, LockInv, LockRecords, AbandonedGone, HeldRight, WritersCounted,
            ReadersCounted, HoldersOfKind, Holders, WritersWaiting, ReadersWaiting, GoneAway
  <1>2. CASE LockNext
    BY <1>2, AskKeeps, AcquireKeeps, LetKeeps, WaitKeeps, Zenon DEF LockNext
  <1> QED BY <1>1, <1>2

\* Nobody holds the lock or waits for it at first.
LEMMA LockBegins ==
    ASSUME LockInit
    PROVE  LockInv
  <1>0. /\ owner = NoThread /\ depth = 0 /\ read_count = 0
        /\ write_waiting = 0 /\ read_waiting = 0
        /\ abandoned = [held |-> {}, counted |-> {}, doubled |-> {}]
    BY DEF LockInit
  <1>1. /\ acquirer \in [Acquirers ->
                 [at : {"idle", "trying", "waiting", "acquired", "holding", "gone"},
                  thread : LockThreads, kind : {"read", "write"}, timed : BOOLEAN]]
        /\ \A a \in Acquirers : acquirer[a].at = "idle"
    <2>1. PICK f \in [Acquirers -> LockThreads] : acquirer = [a \in Acquirers |-> Idle(f[a])]
      BY DEF LockInit
    <2> QED BY <2>1 DEF Idle
  <1>2. \A k, t : Holders(k, t) = {}
    BY <1>0, <1>1 DEF Holders
  <1>3. WritersWaiting = {} /\ ReadersWaiting = {} /\ GoneAway = {}
    BY <1>0, <1>1 DEF WritersWaiting, ReadersWaiting, GoneAway
  <1>4. WritersCounted /\ ReadersCounted
    <2>1. Cardinality({}) = 0
      BY FS_EmptySet
    <2> QED BY <1>0, <1>3, <2>1 DEF WritersCounted, ReadersCounted
  <1>5. HeldRight
    BY <1>0, <1>2, LockAssumption DEF HeldRight, Excludes, HoldersOfKind
  <1> QED BY <1>0, <1>1, <1>4, <1>5 DEF LockInv, LockRecords, AbandonedGone

-----------------------------------------------------------------------------
(* Set-up and shutdown (Runners) *)

\* The command line has neither timer nor background thread, and the window's thread
\* is made after the queue; who waits for the thread has told it to end.
ExitsInOrder ==
    /\ _healthcheck_timer => mode = "gui"
    /\ mode = "cli" \/ queue = "none" => worker = "none"
    /\ at \in {"cleaning", "joining"} => mode = "gui"
    /\ at = "joining" => _shutdown_background

KInv == RunnerTypeOK /\ ExitsInOrder /\ TakenDown

\* The stages of a mode.
LEMMA StagesOfMode ==
    ASSUME mode \in {"gui", "cli"}
    PROVE  /\ Len(Stages) \in Nat
           /\ mode = "cli" => \A i \in 1..Len(Stages) : Stages[i] # "worker"
  BY DEF Stages, GuiStages, CliStages

\* The set-up, and its end.
LEMMA SettingUpKeeps ==
    ASSUME KInv, MakesApp \/ SetsUp \/ SetupFails
    PROVE  KInv'
  <1>0. /\ mode \in {"gui", "cli"} /\ mode' = mode
        /\ Stages' = Stages
    BY DEF KInv, RunnerTypeOK, MakesApp, SetsUp, SetupFails, Stages
  <1>1. CASE MakesApp
    BY <1>0, <1>1 DEF MakesApp, KInv, RunnerTypeOK, ExitsInOrder, TakenDown, Done
  <1>2. CASE SetsUp
    <2> DEFINE s == Stages[stage + 1]
    <2>1. PICK n \in Nat : n = Len(Stages)
      BY <1>0, StagesOfMode
    <2>2. /\ stage \in 0..n /\ stage' = stage + 1 /\ stage + 1 \in 1..n
          /\ stage' \in 0..n
      BY <1>2, <2>1 DEF SetsUp, KInv, RunnerTypeOK
    <2>3. mode = "cli" => s # "worker"
      BY <1>0, <2>1, <2>2, StagesOfMode
    <2>4. /\ queue' = IF s = "queue" THEN "started" ELSE queue
          /\ worker' = IF s = "worker" THEN "starting" ELSE worker
          /\ at' \in {"starting", "running"} /\ at = "starting"
          /\ mode = "gui" => queue # "none"
          /\ UNCHANGED <<loop_taken, _shutdown_background, _healthcheck_timer, prompt_line>>
      BY <1>2, <2>1, <2>2 DEF SetsUp
    <2> HIDE DEF s
    <2>5. RunnerTypeOK'
      BY <1>0, <2>1, <2>2, <2>4 DEF KInv, RunnerTypeOK
    <2> QED BY <1>0, <2>3, <2>4, <2>5 DEF KInv, RunnerTypeOK, ExitsInOrder, TakenDown
  <1>3. CASE SetupFails
    BY <1>0, <1>3 DEF SetupFails, KInv, RunnerTypeOK, ExitsInOrder, TakenDown, Done
  <1> QED BY <1>1, <1>2, <1>3

\* The background thread, and the ends of the program.
LEMMA TakingDownKeeps ==
    ASSUME KInv,
           \/ WorkerRegisters \/ OtherRegisters \/ WorkerChecks
           \/ \E told \in BOOLEAN : WorkerEnds(told)
           \/ Quits \/ ShutsDown \/ NoWorker \/ TellsWorker \/ Cleaned \/ CleansCli \/ CmdQuit
    PROVE  KInv'
  <1>0. /\ mode \in {"gui", "cli"} /\ mode' = mode /\ stage' = stage
        /\ Stages' = Stages /\ Done("debugger")' = Done("debugger")
        /\ prompt_line' = prompt_line
    BY DEF KInv, RunnerTypeOK, WorkerRegisters, OtherRegisters, WorkerChecks, WorkerEnds,
           Quits, ShutsDown, NoWorker, TellsWorker, Cleaned, CleansCli, CmdQuit, Stages, Done
  <1>1. CASE WorkerRegisters \/ OtherRegisters \/ WorkerChecks \/ \E told \in BOOLEAN : WorkerEnds(told)
    <2>1. /\ at' = at /\ queue' = queue /\ _shutdown_background' = _shutdown_background
          /\ _healthcheck_timer' = _healthcheck_timer
          /\ worker' \in {"none", "starting", "registered", "working", "gone"}
          /\ worker # "none" /\ loop_taken' \in BOOLEAN
          /\ worker = "gone" => worker' = "gone"
      BY <1>1 DEF WorkerRegisters, OtherRegisters, WorkerChecks, WorkerEnds, KInv, RunnerTypeOK
    <2> QED BY <1>0, <2>1 DEF KInv, RunnerTypeOK, ExitsInOrder, TakenDown
  <1>2. CASE Quits \/ ShutsDown \/ NoWorker \/ CmdQuit
    BY <1>0, <1>2 DEF Quits, ShutsDown, NoWorker, CmdQuit, Main, Prompted, Typing,
                      KInv, RunnerTypeOK, ExitsInOrder, TakenDown
  <1>3. CASE TellsWorker \/ Cleaned
    <2>1. CASE TellsWorker
      BY <1>0, <2>1 DEF TellsWorker, Main, KInv, RunnerTypeOK, ExitsInOrder, TakenDown
    <2>2. CASE Cleaned
      <3>1. mode = "gui" /\ (worker = "gone" \/ _shutdown_background)
        BY <2>2 DEF Cleaned, KInv, ExitsInOrder
      <3> QED BY <1>0, <2>2, <3>1 DEF Cleaned, KInv, RunnerTypeOK, ExitsInOrder, TakenDown
    <2> QED BY <1>3, <2>1, <2>2
  <1>4. CASE CleansCli
    BY <1>0, <1>4 DEF CleansCli, KInv, RunnerTypeOK, ExitsInOrder, TakenDown
  <1> QED BY <1>1, <1>2, <1>3, <1>4

\* What is typed changes the prompt's line only.
LEMMA TypingKeeps ==
    ASSUME KInv, CmdStep \/ CmdBreakpoint \/ CmdReset \/ CmdRun \/ StepsOn
    PROVE  KInv'
  <1> DEFINE Lines == [step_mode : BOOLEAN, break_points : SUBSET BreakStages,
                       current : BOOLEAN, step : 0 .. 9,
                       hit : SUBSET BreakStages, ran : {"no", "yes", "aborted"}]
  <1>0. prompt_line \in Lines /\ Len(steps) = 9
    <2>1. Len(steps) = 9
      BY DEF steps
    <2> QED BY <2>1 DEF KInv, RunnerTypeOK
  <1>1. \E line \in Lines : Types(line)
    <2>1. CASE CmdStep
      BY <1>0, <2>1 DEF CmdStep
    <2>2. CASE CmdBreakpoint
      BY <1>0, <2>2 DEF CmdBreakpoint
    <2>3. CASE CmdReset
      BY <1>0, <2>3 DEF CmdReset
    <2>4. CASE CmdRun
      <3>1. {steps[1]} \cap prompt_line.break_points \in SUBSET BreakStages
        BY <1>0
      <3>2. PICK h \in SUBSET BreakStages : h = {steps[1]} \cap prompt_line.break_points
        BY <3>1
      <3> HIDE <3>1
      <3>3. \/ Types([prompt_line EXCEPT !.current = TRUE, !.step = 1, !.ran = "no", !.hit = h])
            \/ Types([prompt_line EXCEPT !.current = TRUE, !.ran = "yes", !.hit = {}])
        BY <2>4, <3>2, Zenon DEF CmdRun
      <3> HIDE <3>2
      <3>4. /\ [prompt_line EXCEPT !.current = TRUE, !.step = 1, !.ran = "no", !.hit = h] \in Lines
            /\ [prompt_line EXCEPT !.current = TRUE, !.ran = "yes", !.hit = {}] \in Lines
        <4>a. PICK c \in BOOLEAN : c = TRUE
          OBVIOUS
        <4>b. PICK j \in 0..9 : j = 1
          OBVIOUS
        <4>c. PICK e \in SUBSET BreakStages : e = {}
          OBVIOUS
        <4>d. PICK no \in {"no", "yes", "aborted"} : no = "no"
          OBVIOUS
        <4>e. PICK yes \in {"no", "yes", "aborted"} : yes = "yes"
          OBVIOUS
        <4>2. /\ [prompt_line EXCEPT !.current = c, !.step = j, !.ran = no, !.hit = h] \in Lines
              /\ [prompt_line EXCEPT !.current = c, !.ran = yes, !.hit = e] \in Lines
          BY <1>0
        <4> QED BY <4>a, <4>b, <4>c, <4>d, <4>e, <4>2, Zenon
      <3> QED BY <3>3, <3>4, Zenon
    <2>5. CASE StepsOn
      <3>1. PICK i \in 0..9 : i = prompt_line.step
        BY <1>0
      <3>2. PICK s : s = steps[i + 1]
        OBVIOUS
      <3>3. prompt_line.hit \cup ({s} \cap prompt_line.break_points) \in SUBSET BreakStages
        BY <1>0
      <3>4. PICK h \in SUBSET BreakStages : h = prompt_line.hit \cup ({s} \cap prompt_line.break_points)
        BY <3>3
      <3>5. \/ Types([prompt_line EXCEPT !.step = 0, !.ran = "aborted"])
            \/ Types([prompt_line EXCEPT !.step = 0, !.ran = "yes", !.step_mode = FALSE])
            \/ Types([prompt_line EXCEPT !.step = 0, !.ran = "yes"])
            \/ i # Len(steps) /\ Types([prompt_line EXCEPT !.step = i + 1, !.hit = h])
        <4>1. prompt_line.hit \cup ({steps[prompt_line.step + 1]} \cap prompt_line.break_points) = h
          BY <3>1, <3>2, <3>4, Zenon
        <4> QED BY <2>5, <3>1, <4>1 DEF StepsOn
      <3>6. /\ [prompt_line EXCEPT !.step = 0, !.ran = "aborted"] \in Lines
            /\ [prompt_line EXCEPT !.step = 0, !.ran = "yes", !.step_mode = FALSE] \in Lines
            /\ [prompt_line EXCEPT !.step = 0, !.ran = "yes"] \in Lines
            /\ i # Len(steps) => [prompt_line EXCEPT !.step = i + 1, !.hit = h] \in Lines
        <4>a. PICK m \in BOOLEAN : m = FALSE
          OBVIOUS
        <4>b. PICK j \in 0..9 : j = 0
          OBVIOUS
        <4>c. PICK k \in 0..9 : i # Len(steps) => k = i + 1
          BY <1>0, <3>1
        <4>d. PICK gone \in {"no", "yes", "aborted"} : gone = "aborted"
          OBVIOUS
        <4>e. PICK yes \in {"no", "yes", "aborted"} : yes = "yes"
          OBVIOUS
        <4>2. /\ [prompt_line EXCEPT !.step = j, !.ran = gone] \in Lines
              /\ [prompt_line EXCEPT !.step = j, !.ran = yes, !.step_mode = m] \in Lines
              /\ [prompt_line EXCEPT !.step = j, !.ran = yes] \in Lines
              /\ [prompt_line EXCEPT !.step = k, !.hit = h] \in Lines
          BY <1>0
        <4> QED BY <4>a, <4>b, <4>c, <4>d, <4>e, <4>2, Zenon
      <3> QED BY <3>5, <3>6, Zenon
    <2> QED BY <2>1, <2>2, <2>3, <2>4, <2>5
  <1> QED BY <1>0, <1>1 DEF Types, KInv, RunnerTypeOK, ExitsInOrder, TakenDown, Stages, Done

\* Every step of a runner keeps the invariant.
LEMMA RunnersKept ==
    ASSUME KInv, [RunnerNext]_runnerVars
    PROVE  KInv'
  <1>1. CASE UNCHANGED runnerVars
    BY <1>1 DEF runnerVars, KInv, RunnerTypeOK, ExitsInOrder, TakenDown, Stages, Done
  <1> QED BY <1>1, SettingUpKeeps, TakingDownKeeps, TypingKeeps DEF RunnerNext

\* A runner begins as the invariant says.
LEMMA RunnersBegin ==
    ASSUME RunnerInit
    PROVE  KInv
  <1>1. Len(Stages) \in Nat /\ Len(steps) = 9
    BY DEF RunnerInit, Stages, GuiStages, CliStages, steps
  <1>2. 0 \in 0 .. Len(Stages)
    BY <1>1
  <1>3. NewDebugger \in [step_mode : BOOLEAN, break_points : SUBSET BreakStages,
                         current : BOOLEAN, step : 0 .. Len(steps),
                         hit : SUBSET BreakStages, ran : {"no", "yes", "aborted"}]
    BY <1>1 DEF NewDebugger
  <1>4. RunnerTypeOK
    BY <1>2, <1>3, Zenon DEF RunnerInit, RunnerTypeOK
  <1> QED BY <1>4 DEF RunnerInit, KInv, ExitsInOrder, TakenDown

-----------------------------------------------------------------------------
(* The slots of the agents' updates (UpdateSlots) *)

\* A critical agent is let in whatever the limit of those of high priority, so
\* that only the others of them stay within it.
OnlyHigh(A) == {a \in A : priority_of[a] = "HIGH"}

HighWithinLimit ==
    /\ IsFiniteSet(active_updates)
    /\ Cardinality(OnlyHigh(active_updates)) <= max_high_priority_updates

SlotInv == SlotsTypeOK /\ HighWithinLimit /\ SlotsKept

\* Sets of active agents that grow by one or shrink.
LEMMA SlotSets ==
    ASSUME NEW A, IsFiniteSet(A), A \subseteq SlotAgents, NEW a \in SlotAgents
    PROVE  /\ IsFiniteSet(A \cup {a}) /\ IsFiniteSet(A \ {a})
           /\ Cardinality(A) \in Nat /\ Cardinality(A \cup {a}) \in Nat
           /\ Cardinality(A \cup {a}) <= Cardinality(A) + 1
           /\ IsFiniteSet(OnlyHigh(A)) /\ Cardinality(OnlyHigh(A)) \in Nat
           /\ Cardinality(OnlyHigh(A \ {a})) <= Cardinality(OnlyHigh(A))
           /\ Cardinality(OnlyHigh(A \ {a})) \in Nat
           /\ IsFiniteSet(HighAmong(A)) /\ Cardinality(HighAmong(A)) \in Nat
           /\ Cardinality(OnlyHigh(A)) <= Cardinality(HighAmong(A))
           /\ priority_of[a] = "HIGH" =>
                 Cardinality(OnlyHigh(A \cup {a})) <= Cardinality(OnlyHigh(A)) + 1
           /\ priority_of[a] # "HIGH" => OnlyHigh(A \cup {a}) = OnlyHigh(A)
           /\ Cardinality(OnlyHigh(A \cup {a})) \in Nat
  <1>1. /\ IsFiniteSet(A \cup {a}) /\ IsFiniteSet(A \ {a})
        /\ Cardinality(A) \in Nat /\ Cardinality(A \cup {a}) \in Nat
        /\ Cardinality(A \cup {a}) <= Cardinality(A) + 1
    BY FS_AddElement, FS_RemoveElement, FS_CardinalityType
  <1>2. /\ OnlyHigh(A) \subseteq A /\ HighAmong(A) \subseteq A
        /\ OnlyHigh(A) \subseteq HighAmong(A)
        /\ OnlyHigh(A \ {a}) \subseteq OnlyHigh(A)
        /\ OnlyHigh(A \cup {a}) \subseteq A \cup {a}
    BY DEF OnlyHigh, HighAmong
  <1>3. /\ IsFiniteSet(OnlyHigh(A)) /\ IsFiniteSet(HighAmong(A))
        /\ IsFiniteSet(OnlyHigh(A \cup {a})) /\ IsFiniteSet(OnlyHigh(A \ {a}))
        /\ Cardinality(OnlyHigh(A)) \in Nat /\ Cardinality(HighAmong(A)) \in Nat
        /\ Cardinality(OnlyHigh(A \cup {a})) \in Nat /\ Cardinality(OnlyHigh(A \ {a})) \in Nat
        /\ Cardinality(OnlyHigh(A \ {a})) <= Cardinality(OnlyHigh(A))
        /\ Cardinality(OnlyHigh(A)) <= Cardinality(HighAmong(A))
    BY <1>1, <1>2, FS_Subset, FS_CardinalityType
  <1>4. priority_of[a] = "HIGH" =>
           Cardinality(OnlyHigh(A \cup {a})) <= Cardinality(OnlyHigh(A)) + 1
    <2>1. priority_of[a] = "HIGH" => OnlyHigh(A \cup {a}) = OnlyHigh(A) \cup {a}
      BY DEF OnlyHigh
    <2>2. Cardinality(OnlyHigh(A) \cup {a}) <= Cardinality(OnlyHigh(A)) + 1
      <3>1. PICK H : H = OnlyHigh(A)
        OBVIOUS
      <3>2. IsFiniteSet(H)
        BY <1>3, <3>1
      <3>3. Cardinality(H \cup {a}) <= Cardinality(H) + 1
        <4>1. PICK n \in Nat : n = Cardinality(H)
          BY <3>2, FS_CardinalityType
        <4>2. Cardinality(H \cup {a}) = n \/ Cardinality(H \cup {a}) = n + 1
          BY <3>2, <4>1, FS_AddElement
        <4> QED BY <4>1, <4>2
      <3> QED BY <3>1, <3>3, Zenon
    <2> QED BY <2>1, <2>2, Zenon
  <1>5. priority_of[a] # "HIGH" => OnlyHigh(A \cup {a}) = OnlyHigh(A)
    BY DEF OnlyHigh
  <1> QED BY <1>1, <1>3, <1>4, <1>5

\* The limits after an agent was let in.
LEMMA LetInWithinLimits ==
    ASSUME SlotInv, NEW a \in SlotAgents, SlotAvailable(a),
           active_updates' = active_updates \cup {a},
           peak_concurrent' = Larger(peak_concurrent, Cardinality(active_updates'))
    PROVE  /\ HighWithinLimit' /\ WithinLimits' /\ peak_concurrent' \in Nat
           /\ active_updates' \subseteq SlotAgents
  <1>0. /\ active_updates \subseteq SlotAgents /\ IsFiniteSet(active_updates)
        /\ peak_concurrent \in Nat /\ peak_concurrent <= max_concurrent_updates
        /\ Cardinality(OnlyHigh(active_updates)) <= max_high_priority_updates
        /\ max_concurrent_updates \in Nat \ {0} /\ max_high_priority_updates \in Nat \ {0}
    BY SlotLimitAssumption DEF SlotInv, SlotsTypeOK, HighWithinLimit, SlotsKept, WithinLimits
  <1> DEFINE B == active_updates \cup {a}
  <1>1. PICK n \in Nat : n = Cardinality(active_updates)
    BY <1>0, SlotSets
  <1>2. PICK m \in Nat : m = Cardinality(B) /\ m <= n + 1
    BY <1>0, <1>1, SlotSets
  <1>3. n < max_concurrent_updates
    BY <1>1 DEF SlotAvailable
  <1>4. m <= max_concurrent_updates
    BY <1>0, <1>2, <1>3
  <1>5. Cardinality(active_updates') = m
    BY <1>2
  <1>6. peak_concurrent' \in Nat /\ peak_concurrent' <= max_concurrent_updates
    BY <1>0, <1>4, <1>5 DEF Larger
  <1>7. Cardinality(OnlyHigh(B)) <= max_high_priority_updates
    <2>1. PICK k \in Nat : k = Cardinality(OnlyHigh(active_updates))
      BY <1>0, SlotSets
    <2>2. PICK j \in Nat : j = Cardinality(OnlyHigh(B))
      BY <1>0, SlotSets
    <2>3. CASE priority_of[a] = "HIGH"
      <3>1. PICK h \in Nat : h = Cardinality(HighAmong(active_updates)) /\ k <= h
        BY <1>0, <2>1, SlotSets
      <3>2. h < max_high_priority_updates
        BY <2>3, <3>1 DEF SlotAvailable
      <3>3. j <= k + 1
        BY <1>0, <2>1, <2>2, <2>3, SlotSets
      <3> QED BY <1>0, <2>2, <3>1, <3>2, <3>3
    <2>4. CASE priority_of[a] # "HIGH"
      <3>1. OnlyHigh(B) = OnlyHigh(active_updates)
        BY <1>0, <2>4, SlotSets
      <3> QED BY <1>0, <3>1, Zenon
    <2> QED BY <2>3, <2>4
  <1>8. HighWithinLimit'
    <2>1. IsFiniteSet(B)
      BY <1>0, SlotSets
    <2>2. OnlyHigh(active_updates') = OnlyHigh(B)
      BY DEF OnlyHigh
    <2>3. OnlyHigh(active_updates)' = OnlyHigh(active_updates')
      BY DEF OnlyHigh
    <2> QED BY <1>7, <2>1, <2>2, <2>3 DEF HighWithinLimit
  <1>9. active_updates' \subseteq SlotAgents
    BY <1>0
  <1>10. (HighWithinLimit /\ active_updates \subseteq SlotAgents)'
    BY <1>8, <1>9
  <1>11. (Cardinality(HighAmong(active_updates)) > max_high_priority_updates =>
            \E x \in active_updates : priority_of[x] = "CRITICAL")'
    <2> SUFFICES ASSUME (\A x \in active_updates : priority_of[x] # "CRITICAL")'
                 PROVE  ~((Cardinality(HighAmong(active_updates)) > max_high_priority_updates)')
      OBVIOUS
    <2>1. HighAmong(active_updates)' = OnlyHigh(B)
      BY DEF HighAmong, OnlyHigh
    <2>2. PICK j \in Nat : j = Cardinality(OnlyHigh(B))
      BY <1>0, SlotSets
    <2>3. ~(j > max_high_priority_updates)
      BY <1>0, <1>7, <2>2
    <2> QED BY <2>1, <2>2, <2>3, Zenon
  <1> QED BY <1>6, <1>8, <1>9, <1>11 DEF WithinLimits

\* The limits after a record has gone.
LEMMA GoneWithinLimits ==
    ASSUME SlotInv, NEW a \in SlotAgents, active_updates' = active_updates \ {a},
           peak_concurrent' = peak_concurrent
    PROVE  HighWithinLimit' /\ WithinLimits' /\ active_updates' \subseteq SlotAgents
  <1>0. /\ active_updates \subseteq SlotAgents /\ IsFiniteSet(active_updates)
        /\ Cardinality(OnlyHigh(active_updates)) <= max_high_priority_updates
        /\ max_high_priority_updates \in Nat \ {0}
        /\ peak_concurrent <= max_concurrent_updates
    BY SlotLimitAssumption DEF SlotInv, SlotsTypeOK, HighWithinLimit, SlotsKept, WithinLimits
  <1> DEFINE B == active_updates \ {a}
  <1>1. PICK j \in Nat : j = Cardinality(OnlyHigh(B)) /\ j <= max_high_priority_updates
    <2>1. PICK j \in Nat : j = Cardinality(OnlyHigh(B))
      BY <1>0, SlotSets
    <2>2. PICK k \in Nat : k = Cardinality(OnlyHigh(active_updates)) /\ j <= k
      BY <1>0, <2>1, SlotSets
    <2> QED BY <1>0, <2>1, <2>2
  <1>2. IsFiniteSet(B)
    BY <1>0, SlotSets
  <1>3. OnlyHigh(active_updates)' = OnlyHigh(B)
    BY DEF OnlyHigh
  <1>4. HighWithinLimit'
    BY <1>1, <1>2, <1>3 DEF HighWithinLimit
  <1>5. (Cardinality(HighAmong(active_updates)) > max_high_priority_updates =>
            \E x \in active_updates : priority_of[x] = "CRITICAL")'
    <2> SUFFICES ASSUME (\A x \in active_updates : priority_of[x] # "CRITICAL")'
                 PROVE  ~((Cardinality(HighAmong(active_updates)) > max_high_priority_updates)')
      OBVIOUS
    <2>1. HighAmong(active_updates)' = OnlyHigh(B)
      BY DEF HighAmong, OnlyHigh
    <2>2. ~(j > max_high_priority_updates)
      BY <1>0, <1>1
    <2> QED BY <1>1, <2>1, <2>2, Zenon
  <1> QED BY <1>0, <1>4, <1>5 DEF WithinLimits

\* A turn of the wait for a slot, whatever of the events in the table is set.
LEMMA TryKeeps ==
    ASSUME SlotInv, NEW u \in Updates, NEW a \in SlotAgents, NEW set \in SUBSET raised,
           TryFor(u, a, set), update[u].at # "holding", asked' \in Nat
    PROVE  SlotInv'
  <1> DEFINE Us == [agent : SlotAgents, at : UpdateSteps, orphan : BOOLEAN]
  <1>0. /\ active_updates \subseteq SlotAgents
        /\ waiting_updates \subseteq SlotAgents /\ raised \subseteq waiting_updates
        /\ update \in [Updates -> Us] /\ forced \in Nat /\ peak_concurrent \in Nat
        /\ \A v \in recordless : v \in Updates /\ update[v].at = "holding"
    BY DEF SlotInv, SlotsTypeOK, UpdatesAt
  <1>1. raised' = set /\ forced' = forced /\ raised' \subseteq raised /\ recordless' = recordless
    BY DEF TryFor
  <1>2. /\ \E place \in {"holding", "waiting", "woken"} :
              /\ update' = [update EXCEPT ![u] = [agent |-> a, at |-> place, orphan |-> FALSE]]
              /\ place = "holding" => a \in active_updates'
              /\ place = "waiting" => a \in waiting_updates' \ set
        /\ active_updates \subseteq active_updates'
        /\ waiting_updates \subseteq waiting_updates' /\ waiting_updates' \subseteq SlotAgents
        /\ active_updates' \subseteq active_updates \cup {a}
        /\ a \in active_updates' \ active_updates => update'[u].at = "holding"
        /\ update'[u].agent = a
        /\ HighWithinLimit' /\ WithinLimits' /\ peak_concurrent' \in Nat
    <2>1. CASE SlotAvailable(a)
      <3>1. /\ active_updates' = active_updates \cup {a}
            /\ peak_concurrent' = Larger(peak_concurrent, Cardinality(active_updates'))
            /\ update' = [update EXCEPT ![u] = [agent |-> a, at |-> "holding", orphan |-> FALSE]]
            /\ waiting_updates' = waiting_updates
        BY <2>1 DEF TryFor, RegisterUpdate
      <3>2. HighWithinLimit' /\ WithinLimits' /\ peak_concurrent' \in Nat
        BY <2>1, <3>1, LetInWithinLimits
      <3>3. update'[u].agent = a /\ update'[u].at = "holding"
        BY <1>0, <3>1
      <3> QED BY <1>0, <3>1, <3>2, <3>3
    <2>2. CASE ~SlotAvailable(a)
      <3>1. PICK place \in {"waiting", "woken"} : place = IF a \in set THEN "woken" ELSE "waiting"
        OBVIOUS
      <3>2. /\ waiting_updates' = waiting_updates \cup {a}
            /\ update' = [update EXCEPT ![u] = [agent |-> a, at |-> place, orphan |-> FALSE]]
            /\ UNCHANGED <<active_updates, peak_concurrent>>
        BY <2>2, <3>1 DEF TryFor, AwaitSlot
      <3>3. place = "waiting" => a \in waiting_updates' \ set
        BY <3>1, <3>2
      <3>4. HighWithinLimit' /\ WithinLimits'
        BY <3>2 DEF SlotInv, SlotsKept, WithinLimits, HighWithinLimit, OnlyHigh, HighAmong
      <3>5. update'[u].agent = a
        BY <1>0, <3>2
      <3> QED BY <1>0, <3>2, <3>3, <3>4, <3>5
    <2> QED BY <2>1, <2>2
  <1>3. PICK place \in {"holding", "waiting", "woken"} :
          /\ update' = [update EXCEPT ![u] = [agent |-> a, at |-> place, orphan |-> FALSE]]
          /\ place = "holding" => a \in active_updates'
          /\ place = "waiting" => a \in waiting_updates' \ set
    BY <1>2
  <1>4. /\ update' \in [Updates -> Us]
        /\ update'[u].at = place /\ update'[u].agent = a
        /\ \A v \in Updates : v # u => update'[v] = update[v]
    BY <1>0, <1>3 DEF UpdateSteps
  <1>5. SlotsTypeOK'
    <2>1. recordless' \subseteq UpdatesAt("holding")'
      BY <1>0, <1>1, <1>4 DEF UpdatesAt
    <2> QED BY <1>0, <1>1, <1>2, <1>4, <2>1 DEF SlotsTypeOK
  <1>6. u \notin recordless
    BY <1>0
  <1>7. NoPhantomUpdate'
    <2> SUFFICES ASSUME NEW b \in active_updates'
                 PROVE  \E v \in Updates : /\ update'[v].at = "holding" /\ update'[v].agent = b
                                           /\ v \notin recordless'
      BY DEF NoPhantomUpdate, HoldersOf, UpdatesAt
    <2>1. CASE b \in active_updates
      <3>1. PICK v \in Updates : update[v].at = "holding" /\ update[v].agent = b /\ v \notin recordless
        BY <2>1 DEF SlotInv, SlotsKept, NoPhantomUpdate, HoldersOf, UpdatesAt
      <3> QED BY <1>1, <1>4, <3>1
    <2>2. CASE b \notin active_updates
      BY <1>1, <1>2, <1>6, <2>2
    <2> QED BY <2>1, <2>2
  <1>8. HeldIsCounted'
    <2> SUFFICES ASSUME NEW v \in Updates, update'[v].at = "holding", v \notin recordless'
                 PROVE  update'[v].agent \in active_updates'
      BY DEF HeldIsCounted, UpdatesAt
    <2>1. CASE v = u
      BY <1>3, <1>4, <2>1
    <2>2. CASE v # u
      <3>1. update[v].agent \in active_updates
        BY <1>1, <1>4, <2>2 DEF SlotInv, SlotsKept, HeldIsCounted, UpdatesAt
      <3> QED BY <1>2, <1>4, <2>2, <3>1
    <2> QED BY <2>1, <2>2
  <1>9. WaitersAreListed'
    <2> SUFFICES ASSUME NEW v \in Updates, update'[v].at = "waiting"
                 PROVE  update'[v].orphan \/ update'[v].agent \in waiting_updates' \ raised'
      BY DEF WaitersAreListed, UpdatesAt
    <2>1. CASE v = u
      BY <1>1, <1>3, <1>4, <2>1
    <2>2. CASE v # u
      <3>1. update[v].orphan \/ update[v].agent \in waiting_updates \ raised
        BY <1>4, <2>2 DEF SlotInv, SlotsKept, WaitersAreListed, UpdatesAt
      <3> QED BY <1>1, <1>2, <1>4, <2>2, <3>1
    <2> QED BY <2>1, <2>2
  <1> QED BY <1>2, <1>5, <1>6, <1>7, <1>8, <1>9 DEF SlotInv, SlotsKept

\* An update leaves its slot, and those that wait are told.
LEMMA LeaveKeeps ==
    ASSUME SlotInv, NEW u \in Updates, NEW ok, NEW next, LeaveSlot(u, ok, next),
           next = NoUpdate \/ next = [update[u] EXCEPT !.at = "again"]
    PROVE  SlotInv'
  <1> DEFINE Us == [agent : SlotAgents, at : UpdateSteps, orphan : BOOLEAN]
             a == update[u].agent
  <1>0. /\ active_updates \subseteq SlotAgents
        /\ waiting_updates \subseteq SlotAgents /\ raised \subseteq waiting_updates
        /\ update \in [Updates -> Us] /\ a \in SlotAgents
        /\ asked \in Nat /\ forced \in Nat /\ peak_concurrent \in Nat
        /\ \A v \in recordless : v \in Updates /\ update[v].at = "holding"
    BY DEF SlotInv, SlotsTypeOK, UpdatesAt
  <1>1. /\ update[u].at = "holding" /\ active_updates' = active_updates \ {a}
        /\ update' = Notified(waiting_updates, [update EXCEPT ![u] = next])
        /\ raised' = waiting_updates
        /\ UNCHANGED <<waiting_updates, peak_concurrent, asked, forced>>
        /\ recordless' = (recordless \cup HoldersOf(a)) \ {u}
    BY DEF LeaveSlot, Unregister
  <1>2. /\ next \in Us /\ next.at \in {"idle", "again"}
        /\ next.at = "again" => next.agent = a
    <2>1. CASE next = NoUpdate
      BY <2>1, PriorityAssumption DEF NoUpdate, UpdateSteps
    <2>2. CASE next = [update[u] EXCEPT !.at = "again"]
      BY <1>0, <2>2 DEF UpdateSteps
    <2> QED BY <2>1, <2>2
  <1>3. PICK upd \in [Updates -> Us] : upd = [update EXCEPT ![u] = next]
    BY <1>0, <1>2
  <1>4. /\ upd[u] = next /\ \A v \in Updates : v # u => upd[v] = update[v]
    BY <1>0, <1>3
  <1>5. ASSUME NEW v \in Updates
        PROVE  /\ update'[v] \in Us
               /\ update'[v].agent = upd[v].agent /\ update'[v].orphan = upd[v].orphan
               /\ upd[v].at # "waiting" => update'[v].at = upd[v].at
               /\ upd[v].at = "waiting" => update'[v].at \in {"waiting", "woken"}
               /\ update'[v].at = "waiting" =>
                     upd[v].at = "waiting" /\ (upd[v].agent \notin waiting_updates \/ upd[v].orphan)
    <2>1. update'[v] = IF upd[v].at = "waiting" /\ upd[v].agent \in waiting_updates /\ ~upd[v].orphan
                       THEN [upd[v] EXCEPT !.at = "woken"] ELSE upd[v]
      BY <1>1, <1>3 DEF Notified
    <2>2. upd[v] \in Us
      OBVIOUS
    <2>3. PICK w \in UpdateSteps : w = "woken"
      BY DEF UpdateSteps
    <2>4. [upd[v] EXCEPT !.at = w] \in Us
      BY <2>2
    <2> QED BY <2>1, <2>2, <2>3, <2>4
  <1>6. SlotsTypeOK'
    <2>1. update' \in [Updates -> Us]
      BY <1>1, <1>5 DEF Notified
    <2>2. ASSUME NEW v \in recordless'
          PROVE  v \in Updates /\ update'[v].at = "holding"
      <3>1. v \in Updates /\ v # u /\ update[v].at = "holding"
        BY <1>0, <1>1 DEF UpdatesAt, HoldersOf
      <3>2. upd[v].at = "holding"
        BY <1>4, <3>1
      <3> QED BY <1>5, <3>1, <3>2
    <2>3. recordless' \subseteq UpdatesAt("holding")'
      BY <2>2 DEF UpdatesAt
    <2> QED BY <1>0, <1>1, <2>1, <2>3 DEF SlotsTypeOK
  <1>7. HighWithinLimit' /\ WithinLimits'
    BY <1>0, <1>1, GoneWithinLimits
  <1>10. NoPhantomUpdate'
    <2> SUFFICES ASSUME NEW b \in active_updates'
                 PROVE  \E v \in Updates : /\ update'[v].at = "holding" /\ update'[v].agent = b
                                           /\ v \notin recordless'
      BY DEF NoPhantomUpdate, HoldersOf, UpdatesAt
    <2>1. PICK v \in Updates : update[v].at = "holding" /\ update[v].agent = b /\ v \notin recordless
      BY <1>1 DEF SlotInv, SlotsKept, NoPhantomUpdate, HoldersOf, UpdatesAt
    <2>2. v # u /\ v \notin HoldersOf(a)
      BY <1>1, <2>1 DEF HoldersOf
    <2>3. upd[v].at = "holding" /\ upd[v].agent = b /\ v \notin recordless'
      BY <1>1, <1>4, <2>1, <2>2
    <2> QED BY <1>5, <2>3
  <1>11. HeldIsCounted'
    <2> SUFFICES ASSUME NEW v \in Updates, update'[v].at = "holding", v \notin recordless'
                 PROVE  update'[v].agent \in active_updates'
      BY DEF HeldIsCounted, UpdatesAt
    <2>1. v # u /\ update[v].at = "holding" /\ update'[v].agent = update[v].agent
      BY <1>2, <1>4, <1>5
    <2>2. v \notin recordless /\ update[v].agent # a
      BY <1>1, <2>1 DEF HoldersOf, UpdatesAt
    <2>3. update[v].agent \in active_updates
      BY <2>1, <2>2 DEF SlotInv, SlotsKept, HeldIsCounted, UpdatesAt
    <2> QED BY <1>1, <2>1, <2>2, <2>3
  <1>12. WaitersAreListed'
    <2> SUFFICES ASSUME NEW v \in Updates, update'[v].at = "waiting"
                 PROVE  update'[v].orphan
      BY DEF WaitersAreListed, UpdatesAt
    <2>1. v # u /\ upd[v] = update[v]
      BY <1>2, <1>4, <1>5
    <2>2. update[v].at = "waiting" /\ (update[v].agent \notin waiting_updates \/ update[v].orphan)
      BY <1>5, <2>1
    <2>3. update[v].orphan
      BY <2>2 DEF SlotInv, SlotsKept, WaitersAreListed, UpdatesAt
    <2> QED BY <1>5, <2>1, <2>3
  <1> QED BY <1>6, <1>7, <1>10, <1>11, <1>12 DEF SlotInv, SlotsKept

\* An update without a slot ends.
LEMMA EndKeeps ==
    ASSUME SlotInv, NEW u \in Updates, update[u].at # "holding",
           update' = [update EXCEPT ![u] = NoUpdate],
           UNCHANGED <<active_updates, waiting_updates, raised, peak_concurrent, recordless,
                       asked, forced>>
    PROVE  SlotInv'
  <1>0. NoUpdate \in [agent : SlotAgents, at : UpdateSteps, orphan : BOOLEAN]
        /\ NoUpdate.at = "idle"
    BY PriorityAssumption DEF NoUpdate, UpdateSteps
  <1>1. /\ update' \in [Updates -> [agent : SlotAgents, at : UpdateSteps, orphan : BOOLEAN]]
        /\ update'[u].at = "idle" /\ \A v \in Updates : v # u => update'[v] = update[v]
    BY <1>0 DEF SlotInv, SlotsTypeOK
  <1> HIDE DEF NoUpdate
  <1>2. SlotsTypeOK'
    <2>1. \A v \in recordless : v \in Updates /\ update[v].at = "holding"
      BY DEF SlotInv, SlotsTypeOK, UpdatesAt
    <2>2. recordless' \subseteq UpdatesAt("holding")'
      BY <1>1, <2>1 DEF UpdatesAt
    <2> QED BY <1>1, <2>2 DEF SlotInv, SlotsTypeOK
  <1>4. HighWithinLimit' /\ WithinLimits'
    BY DEF SlotInv, SlotsKept, WithinLimits, HighWithinLimit, OnlyHigh, HighAmong
  <1>5. \A v \in Updates : update'[v].at # "idle" => update'[v] = update[v]
    BY <1>1
  <1>6. NoPhantomUpdate'
    <2> SUFFICES ASSUME NEW b \in active_updates
                 PROVE  \E v \in Updates : /\ update'[v].at = "holding" /\ update'[v].agent = b
                                           /\ v \notin recordless
      BY DEF NoPhantomUpdate, HoldersOf, UpdatesAt
    <2>1. PICK v \in Updates : update[v].at = "holding" /\ update[v].agent = b /\ v \notin recordless
      BY DEF SlotInv, SlotsKept, NoPhantomUpdate, HoldersOf, UpdatesAt
    <2> QED BY <1>1, <2>1
  <1>7. HeldIsCounted' /\ WaitersAreListed'
    BY <1>5 DEF SlotInv, SlotsKept, HeldIsCounted, WaitersAreListed, UpdatesAt
  <1> QED BY <1>2, <1>4, <1>6, <1>7 DEF SlotInv, SlotsKept

\* A record and an event go by force.
LEMMA ForceKeeps ==
    ASSUME SlotInv, NEW a \in SlotAgents, ForceRelease(a)
    PROVE  SlotInv'
  <1> DEFINE Us == [agent : SlotAgents, at : UpdateSteps, orphan : BOOLEAN]
             W == waiting_updates \ {a}
  <1>0. /\ active_updates \subseteq SlotAgents
        /\ waiting_updates \subseteq SlotAgents /\ raised \subseteq waiting_updates
        /\ update \in [Updates -> Us]
        /\ asked \in Nat /\ forced \in Nat /\ peak_concurrent \in Nat
        /\ \A v \in recordless : v \in Updates /\ update[v].at = "holding"
    BY DEF SlotInv, SlotsTypeOK, UpdatesAt
  <1>1. PICK upd : upd = [v \in Updates |-> [update[v] EXCEPT
              !.orphan = @ \/ (update[v].agent = a /\ update[v].at \in {"waiting", "woken"})]]
    OBVIOUS
  <1>2. /\ active_updates' = active_updates \ {a} /\ waiting_updates' = W /\ raised' = W
        /\ update' = Notified(W, upd) /\ recordless' = recordless \cup HoldersOf(a)
        /\ forced' = forced + 1
        /\ UNCHANGED <<peak_concurrent, asked>>
    BY <1>1, Zenon DEF ForceRelease
  <1>3. ASSUME NEW v \in Updates
        PROVE  /\ upd[v] \in Us /\ upd[v].agent = update[v].agent /\ upd[v].at = update[v].at
               /\ update[v].orphan => upd[v].orphan
               /\ update[v].agent = a /\ update[v].at = "waiting" => upd[v].orphan
    <2>1. PICK o \in BOOLEAN : o = (update[v].orphan
                \/ (update[v].agent = a /\ update[v].at \in {"waiting", "woken"}))
      OBVIOUS
    <2>2. upd[v] = [update[v] EXCEPT !.orphan = o]
      <3>1. upd[v] = [update[v] EXCEPT !.orphan = update[v].orphan
                         \/ (update[v].agent = a /\ update[v].at \in {"waiting", "woken"})]
        BY <1>1, Zenon
      <3> QED BY <2>1, <3>1, Zenon
    <2>3. upd[v] \in Us /\ upd[v].agent = update[v].agent /\ upd[v].at = update[v].at
          /\ upd[v].orphan = o
      <3> HIDE <2>1
      <3> QED BY <1>0, <2>2
    <2> QED BY <2>1, <2>3
  <1>4. ASSUME NEW v \in Updates
        PROVE  /\ update'[v] \in Us
               /\ update'[v].agent = update[v].agent /\ update'[v].orphan = upd[v].orphan
               /\ update[v].at # "waiting" => update'[v].at = update[v].at
               /\ update[v].at = "waiting" => update'[v].at \in {"waiting", "woken"}
               /\ update'[v].at = "waiting" =>
                     update[v].at = "waiting" /\ (upd[v].agent \notin W \/ upd[v].orphan)
    <2>1. update'[v] = IF upd[v].at = "waiting" /\ upd[v].agent \in W /\ ~upd[v].orphan
                       THEN [upd[v] EXCEPT !.at = "woken"] ELSE upd[v]
      BY <1>2 DEF Notified
    <2>2. PICK w \in UpdateSteps : w = "woken"
      BY DEF UpdateSteps
    <2>3. [upd[v] EXCEPT !.at = w] \in Us
      BY <1>3
    <2> QED BY <1>3, <2>1, <2>2, <2>3
  <1>5. SlotsTypeOK'
    <2>1. update' \in [Updates -> Us]
      BY <1>2, <1>4 DEF Notified
    <2>2. /\ active_updates' \subseteq SlotAgents /\ waiting_updates' \subseteq SlotAgents
          /\ raised' \subseteq waiting_updates'
      BY <1>0, <1>2
    <2>3. peak_concurrent' \in Nat /\ asked' \in Nat /\ forced' \in Nat
      BY <1>0, <1>2
    <2>4. recordless' \subseteq UpdatesAt("holding")'
      BY <1>0, <1>2, <1>4 DEF UpdatesAt, HoldersOf
    <2> QED BY <2>1, <2>2, <2>3, <2>4 DEF SlotsTypeOK
  <1>6. HighWithinLimit' /\ WithinLimits'
    BY <1>2, GoneWithinLimits
  <1>8. NoPhantomUpdate'
    <2> SUFFICES ASSUME NEW b \in active_updates'
                 PROVE  \E v \in Updates : /\ update'[v].at = "holding" /\ update'[v].agent = b
                                           /\ v \notin recordless'
      BY DEF NoPhantomUpdate, HoldersOf, UpdatesAt
    <2>1. PICK v \in Updates : update[v].at = "holding" /\ update[v].agent = b /\ v \notin recordless
      BY <1>2 DEF SlotInv, SlotsKept, NoPhantomUpdate, HoldersOf, UpdatesAt
    <2>2. v \notin recordless'
      BY <1>2, <2>1 DEF HoldersOf
    <2> QED BY <1>4, <2>1, <2>2
  <1>9. HeldIsCounted'
    <2> SUFFICES ASSUME NEW v \in Updates, update'[v].at = "holding", v \notin recordless'
                 PROVE  update'[v].agent \in active_updates'
      BY DEF HeldIsCounted, UpdatesAt
    <2>1. /\ update[v].at = "holding" /\ update'[v].agent = update[v].agent
          /\ v \notin recordless /\ update[v].agent # a
      BY <1>2, <1>4 DEF HoldersOf, UpdatesAt
    <2>2. update[v].agent \in active_updates
      BY <2>1 DEF SlotInv, SlotsKept, HeldIsCounted, UpdatesAt
    <2> QED BY <1>2, <2>1, <2>2
  <1>10. WaitersAreListed'
    <2> SUFFICES ASSUME NEW v \in Updates, update'[v].at = "waiting"
                 PROVE  update'[v].orphan
      BY DEF WaitersAreListed, UpdatesAt
    <2>1. update[v].at = "waiting" /\ (upd[v].agent \notin W \/ upd[v].orphan)
      BY <1>4
    <2>2. update[v].orphan \/ update[v].agent \in waiting_updates
      BY <2>1 DEF SlotInv, SlotsKept, WaitersAreListed, UpdatesAt
    <2> QED BY <1>3, <1>4, <2>1, <2>2
  <1> QED BY <1>5, <1>6, <1>8, <1>9, <1>10 DEF SlotInv, SlotsKept

\* Every step keeps the invariant.
LEMMA SlotsAreKept ==
    ASSUME SlotInv, [SlotsNext]_slotVars
    PROVE  SlotInv'
  <1>0. /\ \A u \in Updates : update[u].agent \in SlotAgents
        /\ asked \in Nat
    BY DEF SlotInv, SlotsTypeOK
  <1>1. CASE UNCHANGED slotVars
    BY <1>1 DEF slotVars, SlotInv, SlotsTypeOK, HighWithinLimit, OnlyHigh, SlotsKept,
            NoPhantomUpdate, HeldIsCounted, WithinLimits, WaitersAreListed, HoldersOf,
            UpdatesAt, HighAmong
  <1>2. ASSUME NEW u \in Updates, NEW a \in SlotAgents, BeginUpdate(u, a)
        PROVE  SlotInv'
    <2>1. update[u].at = "idle" /\ asked' = asked + 1 /\ TryFor(u, a, raised)
      BY <1>2 DEF BeginUpdate
    <2>3. asked' \in Nat /\ raised \in SUBSET raised /\ update[u].at # "holding"
      BY <1>0, <2>1
    <2> HIDE <2>1
    <2>4. TryFor(u, a, raised)
      BY <2>1
    <2> QED BY <2>3, <2>4, TryKeeps
  <1>3. ASSUME NEW u \in Updates, Wakes(u) \/ WaitExpires(u)
        PROVE  SlotInv'
    <2>1. PICK set \in SUBSET raised : TryFor(u, update[u].agent, set)
      BY <1>3 DEF Wakes, WaitExpires
    <2>2. update[u].at \in {"waiting", "woken"} /\ asked' = asked
      BY <1>3 DEF Wakes, WaitExpires
    <2> QED BY <1>0, <2>1, <2>2, TryKeeps
  <1>4. ASSUME NEW u \in Updates, Updated(u) \/ UpdateFails(u) \/ TriedAgain(u) \/ UpdateCancelled(u)
        PROVE  SlotInv'
    <2>1. \/ \E ok \in BOOLEAN : LeaveSlot(u, ok, NoUpdate)
          \/ LeaveSlot(u, FALSE, [update[u] EXCEPT !.at = "again"])
          \/ /\ update[u].at \in {"waiting", "woken", "again"}
             /\ update' = [update EXCEPT ![u] = NoUpdate]
             /\ UNCHANGED <<active_updates, waiting_updates, raised, peak_concurrent, recordless,
                            asked, forced>>
      BY <1>4, Zenon DEF Updated, UpdateFails, TriedAgain, UpdateCancelled
    <2> QED BY <2>1, LeaveKeeps, EndKeeps
  <1>5. CASE SlotsNext
    BY <1>2, <1>3, <1>4, <1>5, ForceKeeps, Zenon DEF SlotsNext
  <1> QED BY <1>1, <1>5

\* The coordinator begins empty.
LEMMA SlotsBegin ==
    ASSUME SlotInit
    PROVE  SlotInv
  <1>0. NoUpdate \in [agent : SlotAgents, at : UpdateSteps, orphan : BOOLEAN]
        /\ NoUpdate.at = "idle"
    BY PriorityAssumption DEF NoUpdate, UpdateSteps
  <1>1. OnlyHigh({}) = {} /\ HighAmong({}) = {}
    BY DEF OnlyHigh, HighAmong
  <1>2. Cardinality({}) = 0 /\ IsFiniteSet({})
    BY FS_EmptySet
  <1> HIDE DEF NoUpdate
  <1>3. SlotsTypeOK
    BY <1>0 DEF SlotInit, SlotsTypeOK
  <1>4. HighWithinLimit /\ WithinLimits
    <2>1. 0 <= max_concurrent_updates /\ 0 <= max_high_priority_updates
          /\ ~(0 > max_high_priority_updates)
      BY SlotLimitAssumption
    <2> QED BY <1>1, <1>2, <2>1 DEF SlotInit, HighWithinLimit, WithinLimits
  <1> QED BY <1>0, <1>3, <1>4 DEF SlotInit, SlotInv, SlotsKept, NoPhantomUpdate,
          HeldIsCounted, WaitersAreListed, UpdatesAt

-----------------------------------------------------------------------------
(* Phase one step by step (SteppedWorkflow) *)

\* A record whose first n steps are completed, and what is after n steps.
Reached(r, n) ==
    /\ n \in 0 .. Len(step_sequence)
    /\ Len(r.steps_completed) = n
    /\ \A i \in 1 .. n : r.steps_completed[i] = step_sequence[i]
    /\ \A s \in StepNames :
          (r.step_results[s] # Missing) <=> (\E i \in 1 .. n : step_sequence[i] = s)
    /\ \/ r.current_step = "ready" /\ n = 0
       \/ r.current_step = "completed" /\ n = Len(step_sequence)
       \/ n > 0 /\ r.current_step = step_sequence[n]

StepAfter(n) == IF n = Len(step_sequence) THEN "completed" ELSE step_sequence[n + 1]

StepRecords ==
    [status : {"unused", "initialized", "running", "error", "completed"},
     current_step : StepNames \cup {"ready", "completed"},
     steps_completed : Seq(StepNames),
     step_results : [StepNames -> Outcomes \cup {Missing}]]
Progresses ==
    [on : Workflows \cup {Missing}, step : StepNames, before : Seq(StepNames),
     restarts : 0 .. max_step_retries, retries : 0 .. max_retries, answer : Answers]
Prompts ==
    [at : {"ready", "stepping", "success", "failed"}, on : Workflows \cup {Missing},
     round : 0 .. Len(step_sequence), outputs : SUBSET StepNames,
     entry : {"kept", "removed"}]

StepsTyped ==
    /\ record \in [Workflows -> StepRecords]
    /\ stored \subseteq Workflows /\ shared \subseteq Workflows
    /\ stepping \in [StepCallers -> Waiting \cup {"idle", "answered"}]
    /\ progress \in [StepCallers -> Progresses]
    /\ prompt \in Prompts

\* A call that runs is on an operation, and has attempts left where it rests.
CallsInPlace ==
    \A c \in StepCallers :
        /\ stepping[c] \in Waiting => progress[c].on \in Workflows
        /\ stepping[c] = "resting" => progress[c].retries < max_retries
        /\ stepping[c] = "restarting" => progress[c].restarts < max_step_retries

\* A call whose step is not over, on an operation no two calls were at, is the only
\* one of these on it; what it read when it began is still so.
Running(c) == stepping[c] \in {"asking", "resting", "restarting"}
CallsKnow ==
    \A c \in StepCallers : Running(c) /\ progress[c].on \notin shared =>
        /\ \A d \in StepCallers : Running(d) /\ progress[d].on = progress[c].on => d = c
        /\ record[progress[c].on].current_step # "completed"
        /\ progress[c].before = record[progress[c].on].steps_completed
        /\ progress[c].step = NextStep(progress[c].on)

RecordsReached == \A o \in Workflows \ shared : \E n \in Nat : Reached(record[o], n)

\* The window's calls are for its prompt, which counts a round for each step it
\* has seen run.
WindowAtPrompt ==
    /\ prompt.at = "stepping" => prompt.on \in Workflows /\ prompt.round < Len(step_sequence)
    /\ prompt.at = "success" => prompt.on \in Workflows
    /\ stepping[Window] # "idle" => prompt.at = "stepping" /\ progress[Window].on = prompt.on

WindowKnows ==
    prompt.on \notin shared =>
        /\ prompt.at = "stepping" => /\ prompt.outputs \subseteq Outputs(prompt.on)
                                     /\ Cardinality(prompt.outputs) = prompt.round
        /\ prompt.at = "success" =>
              /\ Outputs(prompt.on) = StepNames
              /\ prompt.outputs = StepNames \/ (prompt.entry = "removed" /\ prompt.outputs = {})
        /\ stepping[Window] \in {"saving", "answered"} =>
              /\ progress[Window].answer = "step" =>
                    progress[Window].step \in Outputs(prompt.on) \ prompt.outputs
              /\ progress[Window].answer = "completed" => Outputs(prompt.on) = StepNames

StepInv ==
    /\ StepsTyped /\ CallsInPlace /\ CallsKnow /\ RecordsReached
    /\ WindowAtPrompt /\ WindowKnows

\* The prompt's entry is there as long as nobody removed it.
EntryKept == prompt.at = "stepping" /\ prompt.entry = "kept" => prompt.on \in stored

StepsInv == StepInv /\ EntryKept

\* The sequence and its steps.
LEMMA Sequence ==
    /\ Len(step_sequence) \in Nat /\ Len(step_sequence) > 1
    /\ DOMAIN step_sequence = 1 .. Len(step_sequence)
    /\ \A i \in 1 .. Len(step_sequence) : step_sequence[i] \in StepNames
    /\ \A s \in StepNames : \E i \in 1 .. Len(step_sequence) : step_sequence[i] = s
    /\ \A i, j \in 1 .. Len(step_sequence) : step_sequence[i] = step_sequence[j] => i = j
    /\ "ready" \notin StepNames /\ "completed" \notin StepNames
    /\ step_sequence \in Seq(StepNames)
    /\ First = step_sequence[1] /\ Final = step_sequence[Len(step_sequence)]
  <1>1. /\ step_sequence \in Seq(STRING) /\ Len(step_sequence) > 1
        /\ \A i, j \in DOMAIN step_sequence : step_sequence[i] = step_sequence[j] => i = j
        /\ StepNames = {step_sequence[i] : i \in DOMAIN step_sequence}
        /\ "ready" \notin StepNames /\ "completed" \notin StepNames
    BY SequenceAssumption DEF StepNames, ToSet, IsInjective
  <1>2. /\ Len(step_sequence) \in Nat /\ DOMAIN step_sequence = 1 .. Len(step_sequence)
    BY <1>1
  <1>3. step_sequence \in Seq(StepNames)
    BY <1>1
  <1> QED BY <1>1, <1>2, <1>3 DEF First, Final

\* The number of steps is one.
LEMMA StepCount == \E L \in Nat : L = Len(step_sequence)
  <1>1. Len(step_sequence) \in Nat
    BY Sequence
  <1> QED BY <1>1, Zenon

\* A sequence with one more element exists as a sequence.
LEMMA Appending ==
    ASSUME NEW S, NEW b \in Seq(S), NEW s \in S
    PROVE  \E done \in Seq(S) : done = b \o <<s>>
  <1>1. b \o <<s>> \in Seq(S)
    OBVIOUS
  <1> QED BY <1>1, Zenon

\* The indices up to the next one, and the last.
LEMMA NextIndex ==
    ASSUME NEW n \in Nat, n < Len(step_sequence)
    PROVE  /\ \A i \in 1 .. n : step_sequence[i] # step_sequence[n + 1]
           /\ step_sequence[n + 1] = Final => n + 1 = Len(step_sequence)
  <1>1. PICK L \in Nat : L = Len(step_sequence)
    BY StepCount
  <1>2. n + 1 \in 1 .. L /\ L \in 1 .. L /\ \A i \in 1 .. n : i \in 1 .. L /\ i # n + 1
    BY <1>1
  <1>3. PICK m \in 1 .. L : m = n + 1
    BY <1>2
  <1>4. \A i, j \in 1 .. L : step_sequence[i] = step_sequence[j] => i = j
    BY <1>1, Sequence
  <1>5. Final = step_sequence[L]
    BY <1>1, Sequence
  <1>6. \A i \in 1 .. n : step_sequence[i] # step_sequence[m]
    BY <1>2, <1>3, <1>4
  <1>7. step_sequence[m] = Final => m = L
    BY <1>2, <1>4, <1>5
  <1> QED BY <1>1, <1>3, <1>6, <1>7, Zenon

\* The step after another.
LEMMA FollowingStep ==
    ASSUME NEW n \in 1 .. Len(step_sequence)
    PROVE  Following(step_sequence[n]) = StepAfter(n)
  <1>1. PICK s : s = step_sequence[n]
    OBVIOUS
  <1> DEFINE i == CHOOSE k \in DOMAIN step_sequence : step_sequence[k] = s
  <1>2. \A j \in DOMAIN step_sequence : step_sequence[j] = s <=> j = n
    BY <1>1, Sequence
  <1>3. i \in DOMAIN step_sequence /\ step_sequence[i] = s
    BY <1>1, Sequence
  <1>4. i = n
    BY <1>2, <1>3
  <1>5. Following(s) = IF i = Len(step_sequence) THEN "completed" ELSE step_sequence[i + 1]
    BY Zenon DEF Following
  <1> HIDE DEF i
  <1> QED BY <1>1, <1>4, <1>5, Zenon DEF StepAfter

\* The next step of an operation that has come so far.
LEMMA NextReached ==
    ASSUME NEW o \in Workflows, NEW n \in Nat, Reached(record[o], n),
           record[o].current_step # "completed"
    PROVE  NextStep(o) = StepAfter(n)
  <1>1. CASE record[o].current_step = "ready"
    <2>1. n = 0
      BY <1>1, Sequence DEF Reached
    <2> QED BY <1>1, <2>1, Sequence DEF NextStep, StepAfter
  <1>2. CASE record[o].current_step # "ready"
    <2>1. n \in 1 .. Len(step_sequence) /\ record[o].current_step = step_sequence[n]
      BY <1>2 DEF Reached
    <2> QED BY <1>2, <2>1, FollowingStep DEF NextStep
  <1> QED BY <1>1, <1>2

\* A step that follows is one of the sequence, or there is none.
LEMMA FollowingTyped ==
    ASSUME NEW s \in StepNames
    PROVE  Following(s) \in StepNames \cup {"completed"}
  <1>1. PICK i \in 1 .. Len(step_sequence) : step_sequence[i] = s
    BY Sequence
  <1>2. PICK L \in Nat : L = Len(step_sequence)
    BY StepCount
  <1>3. i # L => i + 1 \in 1 .. L
    BY <1>1, <1>2
  <1>4. Following(s) = IF i = L THEN "completed" ELSE step_sequence[i + 1]
    BY <1>1, <1>2, FollowingStep, Zenon DEF StepAfter
  <1> QED BY <1>2, <1>3, <1>4, Sequence

\* One step further.
LEMMA StepReached ==
    ASSUME NEW r \in StepRecords, NEW n \in Nat, Reached(r, n), n < Len(step_sequence),
           NEW q \in StepRecords, NEW outcome \in Outcomes,
           q.steps_completed = r.steps_completed \o <<step_sequence[n + 1]>>,
           q.step_results = [r.step_results EXCEPT ![step_sequence[n + 1]] = outcome],
           \/ q.current_step = step_sequence[n + 1]
           \/ q.current_step = "completed" /\ n + 1 = Len(step_sequence)
    PROVE  Reached(q, n + 1)
  <1>0. PICK L \in Nat : L = Len(step_sequence)
    BY StepCount
  <1>1. L = Len(step_sequence) /\ n + 1 \in 1 .. L /\ n + 1 \in 0 .. L /\ n + 1 > 0
    BY <1>0
  <1>2. PICK s \in StepNames : s = step_sequence[n + 1]
    BY <1>1, Sequence
  <1>3. PICK d \in Seq(StepNames) : d = r.steps_completed
    BY DEF StepRecords
  <1>4. Len(d) = n /\ \A i \in 1 .. n : d[i] = step_sequence[i]
    BY <1>3 DEF Reached
  <1>5. /\ Len(d \o <<s>>) = n + 1 /\ (d \o <<s>>)[n + 1] = s
        /\ \A i \in 1 .. n : (d \o <<s>>)[i] = d[i]
    BY ONLY <1>4, n \in Nat, d \in Seq(StepNames), s \in StepNames
  <1>6. q.steps_completed = d \o <<s>>
    BY <1>2, <1>3
  <1>7. \A i \in 1 .. n + 1 : q.steps_completed[i] = step_sequence[i]
    BY <1>2, <1>4, <1>5, <1>6
  <1>8. \A t \in StepNames :
          (q.step_results[t] # Missing) <=> (\E i \in 1 .. n + 1 : step_sequence[i] = t)
    <2> TAKE t \in StepNames
    <2>1. r.step_results \in [StepNames -> Outcomes \cup {Missing}] /\ outcome # Missing
      BY DEF StepRecords, Outcomes, Missing
    <2>2. CASE t = s
      <3>1. q.step_results[t] = outcome
        BY <1>2, <2>1, <2>2
      <3>2. n + 1 \in 1 .. n + 1
        OBVIOUS
      <3> QED BY <1>2, <2>1, <2>2, <3>1, <3>2
    <2>3. CASE t # s
      <3>1. q.step_results[t] = r.step_results[t]
        BY <1>2, <2>1, <2>3
      <3>2. (r.step_results[t] # Missing) <=> (\E i \in 1 .. n : step_sequence[i] = t)
        BY DEF Reached
      <3>3. \A i \in 1 .. n + 1 : step_sequence[i] = t => i \in 1 .. n
        BY <1>2, <2>3
      <3>4. \A i \in 1 .. n : i \in 1 .. n + 1
        OBVIOUS
      <3> QED BY <3>1, <3>2, <3>3, <3>4
    <2> QED BY <2>2, <2>3
  <1>9. Len(q.steps_completed) = n + 1
    BY <1>5, <1>6
  <1>10. PICK m \in Nat : m = n + 1
    OBVIOUS
  <1>11. \/ m > 0 /\ q.current_step = step_sequence[m]
         \/ q.current_step = "completed" /\ m = Len(step_sequence)
    BY <1>1, <1>10
  <1>12. Reached(q, m)
    BY <1>1, <1>7, <1>8, <1>9, <1>10, <1>11, Zenon DEF Reached
  <1> QED BY <1>10, <1>12

\* Such a record says what has happened.
LEMMA RecordsTellProgress ==
    ASSUME StepsTyped, RecordsReached
    PROVE  RecordTellsProgress
  <1> SUFFICES ASSUME NEW o \in Workflows \ shared
               PROVE  LET done == record[o].steps_completed
                      IN  /\ IsPrefix(done, step_sequence)
                          /\ \A s \in StepNames :
                                (record[o].step_results[s] # Missing) <=> (s \in ToSet(done))
                          /\ CASE record[o].current_step = "ready" -> done = <<>>
                               [] record[o].current_step = "completed" -> done = step_sequence
                               [] OTHER -> done # <<>> /\ Last(done) = record[o].current_step
    BY DEF RecordTellsProgress
  <1>1. PICK n \in Nat : Reached(record[o], n)
    BY DEF RecordsReached
  <1>2. PICK d \in Seq(StepNames) : d = record[o].steps_completed
    BY DEF StepsTyped, StepRecords
  <1>0. PICK L \in Nat : L = Len(step_sequence)
    BY StepCount
  <1>3. L = Len(step_sequence) /\ n <= L
    BY <1>0, <1>1 DEF Reached
  <1>4. Len(d) = n /\ DOMAIN d = 1 .. n /\ \A i \in 1 .. n : d[i] = step_sequence[i]
    BY <1>1, <1>2 DEF Reached
  <1>5. IsPrefix(d, step_sequence)
    <2>1. SubSeq(d, 1, n) = [i \in 1 .. n |-> d[i]]
          /\ SubSeq(step_sequence, 1, n) = [i \in 1 .. n |-> step_sequence[i]]
      BY <1>3, <1>4, Sequence
    <2>2. SubSeq(d, 1, n) = SubSeq(step_sequence, 1, n)
      BY <1>4, <2>1
    <2> QED BY <1>3, <1>4, <2>2 DEF IsPrefix
  <1>6. \A s \in StepNames : (record[o].step_results[s] # Missing) <=> (s \in ToSet(d))
    BY <1>1, <1>4 DEF Reached, ToSet
  <1>7. \/ record[o].current_step = "ready" /\ d = <<>>
        \/ record[o].current_step = "completed" /\ d = step_sequence
        \/ /\ record[o].current_step \notin {"ready", "completed"}
           /\ d # <<>> /\ Last(d) = record[o].current_step
    <2>1. CASE record[o].current_step = "ready" /\ n = 0
      BY <1>2, <1>4, <2>1
    <2>2. CASE record[o].current_step = "completed" /\ n = L
      <3>1. Len(d) = Len(step_sequence) /\ \A i \in 1 .. Len(d) : d[i] = step_sequence[i]
        BY <1>3, <1>4, <2>2
      <3>2. d = step_sequence
        BY <1>2, <3>1, Sequence
      <3> QED BY <2>2, <3>2
    <2>3. CASE n > 0 /\ record[o].current_step = step_sequence[n]
      <3>1. n \in 1 .. n /\ n \in 1 .. L
        BY <1>3, <2>3
      <3>2. Last(d) = step_sequence[n] /\ d # <<>>
        BY <1>2, <1>4, <2>3, <3>1 DEF Last
      <3>3. step_sequence[n] \in StepNames
        BY <1>3, <3>1, Sequence
      <3> QED BY <2>3, <3>2, <3>3, Sequence
    <2> QED BY <1>1, <1>3, <2>1, <2>2, <2>3 DEF Reached
  <1> QED BY <1>2, <1>5, <1>6, <1>7

\* What the window and its calls have seen stays so while results are only added
\* and no call of the window ends.
LEMMA WindowStays ==
    ASSUME StepInv, StepsTyped', prompt' = prompt, shared \subseteq shared',
           stepping'[Window] = stepping[Window],
           progress'[Window].on = progress[Window].on,
           progress'[Window].answer = progress[Window].answer,
           progress'[Window].step = progress[Window].step,
           prompt.on \in Workflows => Outputs(prompt.on) \subseteq Outputs(prompt.on)'
    PROVE  WindowAtPrompt' /\ WindowKnows'
  <1>1. WindowAtPrompt'
    BY DEF StepInv, WindowAtPrompt
  <1>2. Outputs(prompt.on)' \subseteq StepNames
    BY DEF Outputs
  <1>3. CASE prompt.on \in Workflows
    <2>1. WindowKnows'
      BY <1>2, <1>3 DEF StepInv, WindowKnows
    <2> QED BY <1>1, <2>1
  <1>4. CASE prompt.on \notin Workflows
    <2>1. WindowKnows'
      BY <1>4 DEF StepInv, WindowAtPrompt, WindowKnows
    <2> QED BY <1>1, <2>1
  <1> QED BY <1>1, <1>3, <1>4

\* An operation is begun.
LEMMA BegunKeeps ==
    ASSUME StepInv, NEW o \in Workflows, Begun(o), UNCHANGED <<stepping, progress, shared>>
    PROVE  /\ StepsTyped' <=> prompt' \in Prompts
           /\ CallsInPlace' /\ CallsKnow' /\ RecordsReached'
           /\ \A p \in Workflows : record'[p].step_results = record[p].step_results
  <1>0. record \in [Workflows -> StepRecords]
    BY DEF StepInv, StepsTyped
  <1>1. PICK st \in {"unused", "initialized", "running", "error", "completed"} : st = "initialized"
    OBVIOUS
  <1>2. record' = [record EXCEPT ![o].status = st] /\ stored' = stored \cup {o}
    BY <1>1, Zenon DEF Begun
  <1>3. /\ record' \in [Workflows -> StepRecords]
        /\ \A p \in Workflows : /\ record'[p].step_results = record[p].step_results
                                /\ record'[p].current_step = record[p].current_step
                                /\ record'[p].steps_completed = record[p].steps_completed
    <2> HIDE <1>1
    <2> QED BY <1>0, <1>2 DEF StepRecords
  <1>4. StepsTyped' <=> prompt' \in Prompts
    BY <1>2, <1>3 DEF StepInv, StepsTyped
  <1>5. CallsInPlace'
    BY DEF StepInv, CallsInPlace
  <1>6. RecordsReached'
    <2>1. ASSUME NEW p \in Workflows, NEW n \in Nat, Reached(record[p], n)
          PROVE  Reached(record'[p], n)
      BY <1>3, <2>1, Zenon DEF Reached
    <2> QED BY <2>1 DEF StepInv, RecordsReached
  <1>7. CallsKnow'
    <2>1. ASSUME NEW c \in StepCallers, Running(c)', progress'[c].on \notin shared'
          PROVE  /\ \A d \in StepCallers : Running(d)' /\ progress'[d].on = progress'[c].on => d = c
                 /\ record'[progress'[c].on].current_step # "completed"
                 /\ progress'[c].before = record'[progress'[c].on].steps_completed
                 /\ progress'[c].step = NextStep(progress[c].on)'
      <3>1. /\ Running(c) /\ progress[c].on \notin shared /\ progress[c].on \in Workflows
            /\ \A d \in StepCallers : Running(d)' <=> Running(d)
        BY <2>1 DEF Running, StepInv, CallsInPlace, Waiting
      <3>2. /\ \A d \in StepCallers : Running(d) /\ progress[d].on = progress[c].on => d = c
            /\ record[progress[c].on].current_step # "completed"
            /\ progress[c].before = record[progress[c].on].steps_completed
            /\ progress[c].step = NextStep(progress[c].on)
        BY <3>1 DEF StepInv, CallsKnow
      <3>3. \A p \in Workflows : NextStep(p)' = NextStep(p)
        BY <1>3, Zenon DEF NextStep
      <3> QED BY <1>3, <3>1, <3>2, <3>3
    <2> QED BY <2>1 DEF CallsKnow
  <1> QED BY <1>3, <1>4, <1>5, <1>6, <1>7

\* What a call that runs knows of its operation.
Knows(c) ==
    /\ record[progress[c].on].current_step # "completed"
    /\ progress[c].before = record[progress[c].on].steps_completed
    /\ progress[c].step = NextStep(progress[c].on)

\* One call goes on, and the others know what they knew.
LEMMA CallsKnowStep ==
    ASSUME StepInv, NEW c \in StepCallers, shared \subseteq shared',
           \A d \in StepCallers : d # c =>
               stepping'[d] = stepping[d] /\ progress'[d] = progress[d],
           \A d \in StepCallers : d # c /\ Running(d) /\ progress[d].on \notin shared' =>
               record'[progress[d].on] = record[progress[d].on],
           Running(c)' /\ progress'[c].on \notin shared' =>
               /\ \A d \in StepCallers : d # c /\ Running(d) => progress[d].on # progress'[c].on
               /\ Knows(c)'
    PROVE  CallsKnow'
  <1>1. ASSUME NEW d \in StepCallers, Running(d)', progress'[d].on \notin shared', d # c
        PROVE  /\ \A e \in StepCallers : Running(e)' /\ progress'[e].on = progress'[d].on => e = d
               /\ Knows(d)'
    <2>1. Running(d) /\ progress[d].on \notin shared /\ progress'[d] = progress[d]
      BY <1>1 DEF Running
    <2>2. /\ \A e \in StepCallers : Running(e) /\ progress[e].on = progress[d].on => e = d
          /\ Knows(d)
      BY <2>1 DEF StepInv, CallsKnow, Knows
    <2>3. Knows(d)'
      <3>1. record'[progress'[d].on] = record[progress[d].on]
        BY <1>1, <2>1
      <3>2. NextStep(progress[d].on)' = NextStep(progress[d].on)
        BY <2>1, <3>1 DEF NextStep
      <3> QED BY <2>1, <2>2, <3>1, <3>2 DEF Knows
    <2>4. ASSUME NEW e \in StepCallers, Running(e)', progress'[e].on = progress'[d].on
          PROVE  e = d
      <3>1. CASE e = c
        BY <1>1, <2>1, <2>4, <3>1
      <3>2. CASE e # c
        BY <2>1, <2>2, <2>4, <3>2 DEF Running
      <3> QED BY <3>1, <3>2
    <2> QED BY <2>3, <2>4
  <1>2. ASSUME Running(c)', progress'[c].on \notin shared'
        PROVE  /\ \A e \in StepCallers : Running(e)' /\ progress'[e].on = progress'[c].on => e = c
               /\ Knows(c)'
    BY <1>2 DEF Running
  <1> QED BY <1>1, <1>2 DEF CallsKnow, Knows

\* The record of what a call knows.
LEMMA BlankCall == Unstarted \in Progresses
  <1>1. First \in StepNames /\ <<>> \in Seq(StepNames)
    BY Sequence
  <1>2. PICK m \in Workflows \cup {Missing} : m = Missing
    OBVIOUS
  <1>3. PICK x \in 0 .. max_step_retries : x = 0
    BY RetriesAssumption
  <1>4. PICK y \in 0 .. max_retries : y = 0
    BY RetriesAssumption
  <1>5. PICK w \in Answers : w = "none"
    BY DEF Answers
  <1>6. PICK e \in Seq(StepNames) : e = <<>>
    BY <1>1
  <1>7. [on |-> m, step |-> First, before |-> e, restarts |-> x, retries |-> y, answer |-> w]
           \in Progresses
    BY ONLY <1>1 DEF Progresses
  <1> QED BY <1>2, <1>3, <1>4, <1>5, <1>6, <1>7, Zenon DEF Unstarted

\* The record of a call that has begun and knows its answer.
LEMMA FreshCall ==
    ASSUME NEW o \in Workflows, NEW a \in Answers
    PROVE  /\ [Unstarted EXCEPT !.on = o, !.answer = a] \in Progresses
           /\ [Unstarted EXCEPT !.on = o, !.answer = a].on = o
           /\ [Unstarted EXCEPT !.on = o, !.answer = a].answer = a
  <1>1. PICK u \in Progresses : u = Unstarted
    BY BlankCall
  <1>2. /\ [u EXCEPT !.on = o, !.answer = a] \in Progresses
        /\ [u EXCEPT !.on = o, !.answer = a].on = o
        /\ [u EXCEPT !.on = o, !.answer = a].answer = a
    BY DEF Progresses
  <1> QED BY <1>1, <1>2, Zenon

\* The record of a call whose step begins.
StepBegun(o, s, b) == [Unstarted EXCEPT !.on = o, !.step = s, !.before = b]

\* What such a record holds.
LEMMA FreshStep ==
    ASSUME NEW o \in Workflows, NEW s \in StepNames, NEW b \in Seq(StepNames)
    PROVE  LET p == StepBegun(o, s, b)
           IN  p \in Progresses /\ p.on = o /\ p.step = s /\ p.before = b
  <1>1. PICK u \in Progresses : u = Unstarted
    BY BlankCall
  <1>2. PICK p : p = [u EXCEPT !.on = o, !.step = s, !.before = b]
    OBVIOUS
  <1>3. p \in Progresses /\ p.on = o /\ p.step = s /\ p.before = b
    BY <1>2 DEF Progresses
  <1>4. p = StepBegun(o, s, b)
    BY <1>1, <1>2 DEF StepBegun
  <1> QED BY <1>3, <1>4, Zenon

\* A completed operation has run every step.
LEMMA CompletedReached ==
    ASSUME NEW r, NEW n \in Nat, Reached(r, n), r.current_step = "completed"
    PROVE  n = Len(step_sequence) /\ \A s \in StepNames : r.step_results[s] # Missing
  <1>0. PICK L \in Nat : L = Len(step_sequence)
    BY StepCount
  <1>1. n > 0 => n \in 1 .. L
    BY <1>0 DEF Reached
  <1>2. n > 0 => step_sequence[n] # "completed"
    BY <1>0, <1>1, Sequence
  <1>3. n = Len(step_sequence)
    BY <1>2 DEF Reached
  <1> QED BY <1>3, Sequence DEF Reached

\* A call answers at once.
LEMMA AnsweredKeeps ==
    ASSUME StepInv, NEW c \in StepCallers, NEW o \in Workflows, NEW a \in {"error", "completed"},
           stepping[c] = "idle", Answered(c, o, a),
           a = "completed" => record[o].current_step = "completed",
           UNCHANGED <<record, stored, prompt, shared>>,
           c = Window => prompt.at = "stepping" /\ prompt.on = o
    PROVE  StepInv'
  <1>0. /\ record \in [Workflows -> StepRecords] /\ stepping \in [StepCallers -> Waiting \cup {"idle", "answered"}]
        /\ progress \in [StepCallers -> Progresses]
    BY DEF StepInv, StepsTyped
  <1>2. PICK p : p = [Unstarted EXCEPT !.on = o, !.answer = a]
    OBVIOUS
  <1>3. p \in Progresses /\ p.on = o /\ p.answer = a
    <2>1. First \in StepNames /\ <<>> \in Seq(StepNames) /\ a \in Answers
      BY Sequence DEF Answers
    <2> QED BY <1>2, <2>1, FreshCall, Zenon
  <1>4. /\ stepping' = [stepping EXCEPT ![c] = "answered"]
        /\ progress' = [progress EXCEPT ![c] = p]
    BY <1>2 DEF Answered, Moves
  <1>5. /\ stepping'[c] = "answered" /\ progress'[c] = p
        /\ \A d \in StepCallers : d # c =>
               stepping'[d] = stepping[d] /\ progress'[d] = progress[d]
    BY <1>0, <1>4
  <1>6. StepsTyped'
    BY <1>0, <1>3, <1>4 DEF StepInv, StepsTyped
  <1>7. CallsInPlace'
    BY <1>5 DEF StepInv, CallsInPlace, Waiting
  <1>8. RecordsReached'
    BY DEF StepInv, RecordsReached
  <1>9. CallsKnow'
    BY <1>5, CallsKnowStep DEF Running
  <1>10. WindowAtPrompt' /\ WindowKnows'
    <2>1. CASE c # Window
      <3>1. Window \in StepCallers
        BY DEF StepCallers
      <3>2. stepping'[Window] = stepping[Window] /\ progress'[Window] = progress[Window]
        BY <1>5, <2>1, <3>1
      <3>3. Outputs(prompt.on)' = Outputs(prompt.on)
        BY DEF Outputs
      <3> QED BY <1>6, <3>2, <3>3, WindowStays
    <2>2. CASE c = Window
      <3>1. WindowAtPrompt'
        BY <1>3, <1>5, <2>2 DEF StepInv, WindowAtPrompt
      <3>2. Outputs(prompt.on)' = Outputs(prompt.on)
        BY DEF Outputs
      <3>3. a = "completed" /\ o \notin shared => Outputs(o) = StepNames
        <4> SUFFICES ASSUME a = "completed", o \notin shared PROVE Outputs(o) = StepNames
          OBVIOUS
        <4>1. PICK n \in Nat : Reached(record[o], n)
          BY DEF StepInv, RecordsReached
        <4> QED BY <4>1, CompletedReached DEF Outputs
      <3>4. WindowKnows'
        BY <1>3, <1>5, <2>2, <3>2, <3>3 DEF StepInv, WindowKnows
      <3> QED BY <3>1, <3>4
    <2> QED BY <2>1, <2>2
  <1> QED BY <1>6, <1>7, <1>8, <1>9, <1>10 DEF StepInv

\* After its last step, were it a failure, an operation is marked as completed.
LEMMA MarkedKeeps ==
    ASSUME StepInv, NEW c \in StepCallers, NEW o \in Workflows,
           stepping[c] = "idle", record[o].current_step # "completed", NextStep(o) = "completed",
           record' = [record EXCEPT ![o].status = "completed", ![o].current_step = "completed"],
           Moves(c, "saving"),
           progress' = [progress EXCEPT ![c] =
                   [Unstarted EXCEPT !.on = o, !.answer = "completed"]],
           UNCHANGED <<stored, prompt, shared>>,
           c = Window => prompt.at = "stepping" /\ prompt.on = o
    PROVE  StepInv'
  <1>0. /\ record \in [Workflows -> StepRecords] /\ stepping \in [StepCallers -> Waiting \cup {"idle", "answered"}]
        /\ progress \in [StepCallers -> Progresses]
    BY DEF StepInv, StepsTyped
  <1>1. PICK a \in Answers : a = "completed"
    BY DEF Answers
  <1>2. PICK p : p = [Unstarted EXCEPT !.on = o, !.answer = a]
    OBVIOUS
  <1>3. p \in Progresses /\ p.on = o /\ p.answer = "completed"
    <2>1. First \in StepNames /\ <<>> \in Seq(StepNames) /\ a \in Answers
      BY Sequence
    <2>2. p \in Progresses /\ p.on = o /\ p.answer = a
      BY <1>2, <2>1, FreshCall, Zenon
    <2> QED BY <1>1, <2>2
  <1>4. /\ stepping' = [stepping EXCEPT ![c] = "saving"]
        /\ progress' = [progress EXCEPT ![c] = p]
    BY <1>1, <1>2 DEF Moves
  <1>5. /\ stepping'[c] = "saving" /\ progress'[c] = p
        /\ \A d \in StepCallers : d # c =>
               stepping'[d] = stepping[d] /\ progress'[d] = progress[d]
    BY <1>0, <1>4
  <1>6. PICK st \in {"unused", "initialized", "running", "error", "completed"},
             cu \in StepNames \cup {"ready", "completed"} : st = "completed" /\ cu = "completed"
    OBVIOUS
  <1>7. record' = [record EXCEPT ![o].status = st, ![o].current_step = cu]
    BY <1>6, Zenon
  <1>8. /\ record' \in [Workflows -> StepRecords]
        /\ record'[o].current_step = cu
        /\ \A q \in Workflows : q # o => record'[q] = record[q]
        /\ \A q \in Workflows : /\ record'[q].step_results = record[q].step_results
                                /\ record'[q].steps_completed = record[q].steps_completed
    <2> HIDE <1>6
    <2>1. \A q \in Workflows : record[q] \in StepRecords
      BY <1>0
    <2>2. [record[o] EXCEPT !.status = st, !.current_step = cu] \in StepRecords
      BY <2>1 DEF StepRecords
    <2> QED BY <1>0, <1>7, <2>2 DEF StepRecords
  <1>9. StepsTyped'
    <2>1. stepping' \in [StepCallers -> Waiting \cup {"idle", "answered"}]
      BY <1>0, <1>4 DEF Waiting
    <2>2. progress' \in [StepCallers -> Progresses]
      BY <1>0, <1>3, <1>4
    <2> QED BY <1>8, <2>1, <2>2 DEF StepInv, StepsTyped
  <1>10. CallsInPlace'
    BY <1>3, <1>5 DEF StepInv, CallsInPlace
  <1>11. RecordsReached'
    <2> SUFFICES ASSUME NEW q \in Workflows \ shared
                 PROVE  \E n \in Nat : Reached(record'[q], n)
      BY DEF RecordsReached
    <2>1. PICK n \in Nat : Reached(record[q], n)
      BY DEF StepInv, RecordsReached
    <2>2. CASE q # o
      BY <1>8, <2>1, <2>2
    <2>3. CASE q = o
      <3>0. PICK L \in Nat : L = Len(step_sequence)
        BY StepCount
      <3>1. StepAfter(n) = "completed" /\ n \in 0 .. L
        BY <2>1, <2>3, <3>0, NextReached DEF Reached
      <3>2. n # L => n + 1 \in 1 .. L
        BY <3>1
      <3>3. n = L
        BY <3>0, <3>1, <3>2, Sequence DEF StepAfter
      <3>4. Reached(record'[q], n)
        <4>1. PICK r, x : r = record[o] /\ x = record'[o]
          OBVIOUS
        <4>2. /\ x.current_step = "completed" /\ x.step_results = r.step_results
              /\ x.steps_completed = r.steps_completed
          BY <1>6, <1>8, <4>1
        <4>3. Reached(r, n)
          BY <2>1, <2>3, <4>1
        <4>4. Reached(x, n)
          BY ONLY <3>0, <3>3, <4>2, <4>3 DEF Reached
        <4> QED BY ONLY <2>3, <4>1, <4>4
      <3> QED BY <3>4
    <2> QED BY <2>2, <2>3
  <1>12. CallsKnow'
    <2>1. ASSUME NEW d \in StepCallers, Running(d), progress[d].on = o PROVE o \in shared
      <3>1. progress[d].step \in StepNames
        BY <1>0 DEF Progresses
      <3> QED BY <2>1, <3>1, Sequence DEF StepInv, CallsKnow
    <2>2. \A d \in StepCallers : d # c /\ Running(d) /\ progress[d].on \notin shared' =>
               record'[progress[d].on] = record[progress[d].on]
      BY <1>8, <2>1 DEF StepInv, CallsInPlace, Running, Waiting
    <2>3. ~Running(c)'
      BY <1>5 DEF Running
    <2> QED BY <1>5, <2>2, <2>3, CallsKnowStep
  <1>13. WindowAtPrompt' /\ WindowKnows'
    <2>0. prompt.on \in Workflows => Outputs(prompt.on)' = Outputs(prompt.on)
      BY <1>8 DEF Outputs
    <2>1. CASE c # Window
      <3>1. Window \in StepCallers
        BY DEF StepCallers
      <3>2. stepping'[Window] = stepping[Window] /\ progress'[Window] = progress[Window]
        BY <1>5, <2>1, <3>1
      <3> QED BY <1>9, <2>0, <3>2, WindowStays
    <2>3. CASE c = Window
      <3>1. WindowAtPrompt'
        BY <1>3, <1>5, <2>3 DEF StepInv, WindowAtPrompt
      <3>2. Outputs(prompt.on)' = Outputs(prompt.on)
        BY <2>0, <2>3
      <3>3. o \notin shared => Outputs(o)' = StepNames
        <4> SUFFICES ASSUME o \notin shared PROVE Outputs(o)' = StepNames
          OBVIOUS
        <4>1. PICK n \in Nat : Reached(record'[o], n)
          BY <1>11 DEF RecordsReached
        <4>2. \A s \in StepNames : record'[o].step_results[s] # Missing
          <5>1. PICK r : r = record'[o]
            OBVIOUS
          <5>2. Reached(r, n) /\ r.current_step = "completed"
            BY <1>6, <1>8, <4>1, <5>1
          <5>3. \A s \in StepNames : r.step_results[s] # Missing
            BY <5>2, CompletedReached
          <5> QED BY <5>1, <5>3
        <4> QED BY <4>2 DEF Outputs
      <3>4. WindowKnows'
        BY <1>3, <1>5, <2>3, <3>2, <3>3 DEF StepInv, WindowKnows
      <3> QED BY <3>1, <3>4
    <2> QED BY <2>1, <2>3
  <1> QED BY <1>9, <1>10, <1>11, <1>12, <1>13 DEF StepInv

\* The next step of an operation begins.
LEMMA BeginsKeeps ==
    ASSUME StepInv, NEW c \in StepCallers, NEW o \in Workflows,
           stepping[c] = "idle", record[o].current_step # "completed", NextStep(o) # "completed",
           Moves(c, "asking"),
           progress' = [progress EXCEPT ![c] =
                   [Unstarted EXCEPT !.on = o, !.step = NextStep(o),
                                     !.before = record[o].steps_completed]],
           shared' = IF \E d \in StepCallers \ {c} :
                                stepping[d] \in Waiting /\ progress[d].on = o
                     THEN shared \cup {o} ELSE shared,
           UNCHANGED <<record, stored, prompt>>,
           c = Window => prompt.at = "stepping" /\ prompt.on = o
    PROVE  StepInv'
  <1>0. /\ record \in [Workflows -> StepRecords] /\ stepping \in [StepCallers -> Waiting \cup {"idle", "answered"}]
        /\ progress \in [StepCallers -> Progresses]
    BY DEF StepInv, StepsTyped
  <1>1. PICK s \in StepNames : s = NextStep(o)
    <2>1. record[o].current_step \in StepNames \cup {"ready", "completed"}
      BY <1>0 DEF StepRecords
    <2>2. CASE record[o].current_step = "ready"
      BY <2>2, Sequence DEF NextStep
    <2>3. CASE record[o].current_step \in StepNames
      BY <2>3, FollowingTyped, Sequence DEF NextStep
    <2> QED BY <2>1, <2>2, <2>3
  <1>2. PICK b \in Seq(StepNames) : b = record[o].steps_completed
    BY <1>0 DEF StepRecords
  <1>3. PICK p : p = StepBegun(o, s, b)
    OBVIOUS
  <1>4. p \in Progresses /\ p.on = o /\ p.step = s /\ p.before = b
    BY <1>3, FreshStep
  <1>5. /\ stepping' = [stepping EXCEPT ![c] = "asking"]
        /\ progress' = [progress EXCEPT ![c] = p]
    <2>1. progress' = [progress EXCEPT
                           ![c] = StepBegun(o, NextStep(o), record[o].steps_completed)]
      BY DEF StepBegun
    <2> QED BY <1>1, <1>2, <1>3, <2>1, Zenon DEF Moves
  <1>6. /\ stepping'[c] = "asking" /\ progress'[c] = p
        /\ \A d \in StepCallers : d # c =>
               stepping'[d] = stepping[d] /\ progress'[d] = progress[d]
    BY <1>0, <1>5
  <1>7. shared \subseteq shared' /\ shared' \subseteq Workflows
    BY DEF StepInv, StepsTyped
  <1>8. StepsTyped'
    <2>1. stepping' \in [StepCallers -> Waiting \cup {"idle", "answered"}]
      BY <1>0, <1>5 DEF Waiting
    <2>2. progress' \in [StepCallers -> Progresses]
      BY <1>0, <1>4, <1>5
    <2> QED BY <1>7, <2>1, <2>2 DEF StepInv, StepsTyped
  <1>9. CallsInPlace'
    BY <1>4, <1>6 DEF StepInv, CallsInPlace
  <1>10. RecordsReached'
    BY <1>7 DEF StepInv, RecordsReached
  <1>11. CallsKnow'
    <2>1. Knows(c)'
      <3>1. NextStep(progress[c].on)' = s
        BY <1>1, <1>4, <1>6 DEF NextStep
      <3> QED BY <1>2, <1>4, <1>6, <3>1 DEF Knows
    <2>2. o \notin shared' => \A d \in StepCallers : d # c /\ Running(d) => progress[d].on # o
      BY DEF Running, Waiting
    <2> QED BY <1>4, <1>6, <1>7, <2>1, <2>2, CallsKnowStep
  <1>12. WindowAtPrompt' /\ WindowKnows'
    <2>0. Outputs(prompt.on)' = Outputs(prompt.on)
      BY DEF Outputs
    <2>1. CASE c # Window
      <3>1. Window \in StepCallers
        BY DEF StepCallers
      <3>2. stepping'[Window] = stepping[Window] /\ progress'[Window] = progress[Window]
        BY <1>6, <2>1, <3>1
      <3> QED BY <1>7, <1>8, <2>0, <3>2, WindowStays
    <2>2. CASE c = Window
      <3>1. WindowAtPrompt'
        BY <1>4, <1>6, <2>2 DEF StepInv, WindowAtPrompt
      <3>2. WindowKnows'
        BY <1>6, <1>7, <2>0, <2>2 DEF StepInv, WindowKnows
      <3> QED BY <3>1, <3>2
    <2> QED BY <2>1, <2>2
  <1> QED BY <1>8, <1>9, <1>10, <1>11, <1>12 DEF StepInv

\* A call of execute_next_step begins.
LEMMA ExecuteKeeps ==
    ASSUME StepInv, NEW c \in StepCallers, NEW o \in Workflows, ExecuteNext(c, o),
           prompt' = prompt, c = Window => prompt.at = "stepping" /\ prompt.on = o
    PROVE  StepInv'
  <1>0. stepping[c] = "idle" /\ stored' = stored
    BY DEF ExecuteNext
  <1>1. CASE o \notin stored
    <2>1. Answered(c, o, "error") /\ UNCHANGED <<record, shared>>
      BY <1>1 DEF ExecuteNext
    <2>2. PICK a \in {"error", "completed"} : a = "error"
      OBVIOUS
    <2> QED BY <1>0, <2>1, <2>2, AnsweredKeeps
  <1>2. CASE o \in stored /\ record[o].current_step = "completed"
    <2>1. Answered(c, o, "completed") /\ UNCHANGED <<record, shared>>
      BY <1>2 DEF ExecuteNext
    <2>2. PICK a \in {"error", "completed"} : a = "completed"
      OBVIOUS
    <2> QED BY <1>0, <1>2, <2>1, <2>2, AnsweredKeeps
  <1>3. CASE o \in stored /\ record[o].current_step # "completed" /\ NextStep(o) = "completed"
    BY <1>0, <1>3, MarkedKeeps DEF ExecuteNext
  <1>4. CASE o \in stored /\ record[o].current_step # "completed" /\ NextStep(o) # "completed"
    BY <1>0, <1>4, BeginsKeeps DEF ExecuteNext
  <1> QED BY <1>1, <1>2, <1>3, <1>4

\* What Notes does to a record of progress.
LEMMA NoteAnswer ==
    ASSUME StepsTyped, NEW c \in StepCallers, NEW a \in Answers, Notes(c, "answer", a)
    PROVE  /\ progress' \in [StepCallers -> Progresses]
           /\ \A d \in StepCallers : d # c => progress'[d] = progress[d]
           /\ progress'[c].on = progress[c].on /\ progress'[c].step = progress[c].step
           /\ progress'[c].answer = a /\ progress'[c].retries = progress[c].retries
           /\ progress'[c].restarts = progress[c].restarts
           /\ progress'[c].before = progress[c].before
  BY DEF StepsTyped, Notes, Progresses

\* A call notes how often it has asked again.
LEMMA NoteRetries ==
    ASSUME StepsTyped, NEW c \in StepCallers, NEW n \in 0 .. max_retries, Notes(c, "retries", n)
    PROVE  /\ progress' \in [StepCallers -> Progresses]
           /\ \A d \in StepCallers : d # c => progress'[d] = progress[d]
           /\ progress'[c].on = progress[c].on /\ progress'[c].step = progress[c].step
           /\ progress'[c].answer = progress[c].answer
           /\ progress'[c].restarts = progress[c].restarts
           /\ progress'[c].before = progress[c].before
  BY DEF StepsTyped, Notes, Progresses

\* A step ends, and its outcome goes into the record.
LEMMA EndsKeeps ==
    ASSUME StepInv, NEW c \in StepCallers, NEW outcome \in Outcomes,
           stepping[c] = "asking", StepEnds(c, outcome), UNCHANGED <<stored, prompt, shared>>
    PROVE  StepInv'
  <1>0. /\ record \in [Workflows -> StepRecords] /\ stepping \in [StepCallers -> Waiting \cup {"idle", "answered"}]
        /\ progress \in [StepCallers -> Progresses] /\ StepsTyped
    BY DEF StepInv, StepsTyped
  <1>1. PICK o \in Workflows : o = progress[c].on
    BY DEF StepInv, CallsInPlace, Waiting
  <1>2. PICK s \in StepNames, b \in Seq(StepNames) : s = progress[c].step /\ b = progress[c].before
    BY <1>0 DEF Progresses
  <1>3. PICK cu \in StepNames \cup {"ready", "completed"} :
           cu = IF outcome = "success" /\ s = Final THEN "completed" ELSE s
    OBVIOUS
  <1>4. PICK st \in {"unused", "initialized", "running", "error", "completed"} :
           st = IF outcome = "error" THEN "error" ELSE IF s = Final THEN "completed" ELSE "running"
    OBVIOUS
  <1>5. PICK done \in Seq(StepNames) : done = b \o <<s>>
    BY Appending, Zenon
  <1>6. record' = [record EXCEPT ![o].current_step = cu, ![o].steps_completed = done,
                                 ![o].step_results[s] = outcome, ![o].status = st]
    BY <1>1, <1>2, <1>3, <1>4, <1>5, Zenon DEF StepEnds, Recorded
  <1>7. /\ record' \in [Workflows -> StepRecords]
        /\ \A q \in Workflows : q # o => record'[q] = record[q]
        /\ record'[o].current_step = cu /\ record'[o].steps_completed = done
        /\ record'[o].step_results = [record[o].step_results EXCEPT ![s] = outcome]
    <2> HIDE <1>1, <1>2, <1>3, <1>4, <1>5
    <2>1. record[o] \in StepRecords
      BY <1>0
    <2>2. PICK q : q = [record[o] EXCEPT !.current_step = cu, !.steps_completed = done,
                                         !.step_results[s] = outcome, !.status = st]
      OBVIOUS
    <2>3. /\ q \in StepRecords /\ q.current_step = cu /\ q.steps_completed = done
          /\ q.step_results = [record[o].step_results EXCEPT ![s] = outcome]
      BY <2>1, <2>2 DEF StepRecords
    <2>4. record' = [record EXCEPT ![o] = q]
      BY ONLY <1>0, <1>6, <2>2, Zenon
    <2> QED BY <1>0, <2>3, <2>4
  <1>8. /\ stepping' = [stepping EXCEPT ![c] = "saving"] /\ Notes(c, "answer", "step")
    BY DEF StepEnds, Moves
  <1>9. PICK a \in Answers : a = "step"
    BY DEF Answers
  <1>10. /\ progress' \in [StepCallers -> Progresses]
         /\ \A d \in StepCallers : d # c => progress'[d] = progress[d]
         /\ progress'[c].on = o /\ progress'[c].step = s /\ progress'[c].answer = "step"
    BY <1>0, <1>1, <1>2, <1>8, <1>9, NoteAnswer
  <1>11. /\ stepping'[c] = "saving" /\ \A d \in StepCallers : d # c => stepping'[d] = stepping[d]
         /\ stepping' \in [StepCallers -> Waiting \cup {"idle", "answered"}]
    BY <1>0, <1>8 DEF Waiting
  <1>12. StepsTyped'
    BY <1>7, <1>10, <1>11 DEF StepInv, StepsTyped
  <1>13. CallsInPlace'
    BY <1>10, <1>11 DEF StepInv, CallsInPlace
  <1>14. o \notin shared =>
            \E n \in Nat : /\ Reached(record[o], n) /\ n < Len(step_sequence)
                           /\ s = step_sequence[n + 1] /\ b = record[o].steps_completed
    <2> SUFFICES ASSUME o \notin shared
                 PROVE  \E n \in Nat : /\ Reached(record[o], n) /\ n < Len(step_sequence)
                           /\ s = step_sequence[n + 1] /\ b = record[o].steps_completed
      OBVIOUS
    <2>1. /\ record[o].current_step # "completed" /\ s = NextStep(o)
          /\ b = record[o].steps_completed
      BY <1>1, <1>2 DEF StepInv, CallsKnow, Running
    <2>2. PICK n \in Nat : Reached(record[o], n)
      BY DEF StepInv, RecordsReached
    <2>3. PICK L \in Nat : L = Len(step_sequence)
      BY StepCount
    <2>4. n \in 0 .. L
      BY <2>2, <2>3 DEF Reached
    <2>5. s = StepAfter(n) /\ s # "completed"
      BY <2>1, <2>2, NextReached, Sequence
    <2>6. n # L /\ s = step_sequence[n + 1]
      BY <2>3, <2>5 DEF StepAfter
    <2> QED BY <2>1, <2>2, <2>3, <2>4, <2>6
  <1>15. RecordsReached'
    <2> SUFFICES ASSUME NEW q \in Workflows \ shared
                 PROVE  \E n \in Nat : Reached(record'[q], n)
      BY DEF RecordsReached
    <2>1. CASE q # o
      BY <1>7, <2>1 DEF StepInv, RecordsReached
    <2>2. CASE q = o
      <3>1. PICK n \in Nat : /\ Reached(record[o], n) /\ n < Len(step_sequence)
                             /\ s = step_sequence[n + 1] /\ b = record[o].steps_completed
        BY <1>14, <2>2
      <3>2. n + 1 \in Nat
        OBVIOUS
      <3>3. cu = s \/ (cu = "completed" /\ n + 1 = Len(step_sequence))
        <4>1. s = Final => n + 1 = Len(step_sequence)
          BY <3>1, NextIndex, Zenon
        <4> QED BY <1>3, <4>1
      <3>4. PICK r \in StepRecords, r2 \in StepRecords : r = record[o] /\ r2 = record'[o]
        BY <1>0, <1>7
      <3>5. Reached(r2, n + 1)
        <4>1. r2.steps_completed = r.steps_completed \o <<step_sequence[n + 1]>>
          BY <1>5, <1>7, <2>2, <3>1, <3>4, Zenon
        <4>2. r2.step_results = [r.step_results EXCEPT ![step_sequence[n + 1]] = outcome]
          BY <1>7, <2>2, <3>1, <3>4, Zenon
        <4>3. \/ r2.current_step = step_sequence[n + 1]
              \/ r2.current_step = "completed" /\ n + 1 = Len(step_sequence)
          BY <1>7, <2>2, <3>1, <3>3, <3>4, Zenon
        <4>4. Reached(r, n) /\ n < Len(step_sequence)
          BY <2>2, <3>1, <3>4, Zenon
        <4> QED BY <4>1, <4>2, <4>3, <4>4, StepReached, Zenon
      <3> QED BY <2>2, <3>2, <3>4, <3>5
    <2> QED BY <2>1, <2>2
  <1>16. CallsKnow'
    <2>1. \A d \in StepCallers : d # c /\ Running(d) /\ progress[d].on \notin shared' =>
               record'[progress[d].on] = record[progress[d].on]
      <3> SUFFICES ASSUME NEW d \in StepCallers, d # c, Running(d), progress[d].on \notin shared
                   PROVE  record'[progress[d].on] = record[progress[d].on]
        OBVIOUS
      <3>1. progress[d].on \in Workflows
        BY DEF StepInv, CallsInPlace, Running, Waiting
      <3>2. progress[d].on # o
        BY <1>1 DEF StepInv, CallsKnow, Running
      <3> QED BY <1>7, <3>1, <3>2
    <2>2. ~Running(c)'
      BY <1>11 DEF Running
    <2> QED BY <1>10, <1>11, <2>1, <2>2, CallsKnowStep
  <1>17. WindowAtPrompt' /\ WindowKnows'
    <2>0. /\ \A q \in Workflows : Outputs(q) \subseteq {t \in StepNames : record'[q].step_results[t] # Missing}
          /\ s \in {t \in StepNames : record'[o].step_results[t] # Missing}
      <3>1. outcome # Missing
        BY DEF Outcomes, Missing
      <3>2. record[o].step_results \in [StepNames -> Outcomes \cup {Missing}]
        BY <1>0 DEF StepRecords
      <3>3. \A t \in StepNames : record'[o].step_results[t] =
                IF t = s THEN outcome ELSE record[o].step_results[t]
        BY <1>7, <3>2
      <3>4. \A q \in Workflows, t \in StepNames :
               record[q].step_results[t] # Missing => record'[q].step_results[t] # Missing
        BY <1>7, <3>1, <3>3
      <3>5. s \in {t \in StepNames : record'[o].step_results[t] # Missing}
        BY <3>1, <3>3
      <3> QED BY <3>4, <3>5 DEF Outputs
    <2>1. prompt.on \in Workflows => Outputs(prompt.on) \subseteq Outputs(prompt.on)'
      BY <2>0 DEF Outputs
    <2>2. CASE c # Window
      <3>1. Window \in StepCallers
        BY DEF StepCallers
      <3>2. stepping'[Window] = stepping[Window] /\ progress'[Window] = progress[Window]
        BY <1>10, <1>11, <2>2, <3>1
      <3> QED BY <1>12, <2>1, <3>2, WindowStays
    <2>3. CASE c = Window
      <3>1. prompt.at = "stepping" /\ prompt.on = o
        BY <1>1, <2>3 DEF StepInv, WindowAtPrompt
      <3>2. WindowAtPrompt'
        BY <1>10, <1>11, <2>3, <3>1 DEF StepInv, WindowAtPrompt
      <3>3. Outputs(prompt.on) \subseteq Outputs(prompt.on)' /\ s \in Outputs(prompt.on)'
        BY <2>0, <2>1, <3>1 DEF Outputs
      <3>4. o \notin shared => s \notin Outputs(o)
        <4> SUFFICES ASSUME o \notin shared PROVE s \notin Outputs(o)
          OBVIOUS
        <4>1. PICK n \in Nat : /\ Reached(record[o], n) /\ n < Len(step_sequence)
                               /\ s = step_sequence[n + 1]
          BY <1>14
        <4>2. \A i \in 1 .. n : step_sequence[i] # s
          BY <4>1, NextIndex
        <4> QED BY <4>1, <4>2 DEF Reached, Outputs
      <3>5. WindowKnows'
        BY <1>10, <1>11, <2>3, <3>1, <3>3, <3>4 DEF StepInv, WindowKnows
      <3> QED BY <3>2, <3>5
    <2> QED BY <2>2, <2>3
  <1> QED BY <1>12, <1>13, <1>15, <1>16, <1>17 DEF StepInv

\* There are as many steps as the sequence is long.
LEMMA NumberOfSteps == IsFiniteSet(StepNames) /\ Cardinality(StepNames) = Len(step_sequence)
  <1>1. PICK L \in Nat : L = Len(step_sequence)
    BY StepCount
  <1>2. step_sequence \in [1 .. L -> StepNames]
    BY <1>1, Sequence
  <1>3. step_sequence \in Bijection(1 .. L, StepNames)
    BY <1>1, <1>2, Sequence DEF Bijection, Injection, Surjection, IsInjective
  <1>4. ExistsBijection(1 .. L, StepNames)
    BY <1>3 DEF ExistsBijection
  <1>5. Cardinality(StepNames) = L
    BY <1>4, FS_CountingElements
  <1>6. IsFiniteSet(1 .. L)
    BY FS_Interval
  <1>7. IsFiniteSet(StepNames)
    BY <1>4, <1>6, FS_Bijection
  <1> QED BY <1>1, <1>5, <1>7

\* A call goes on with its step, or is over with it, and the record stays.
LEMMA MoveKeeps ==
    ASSUME StepInv, NEW c \in StepCallers, NEW place \in Waiting \cup {"answered"},
           stepping[c] \in Waiting, Moves(c, place),
           progress' \in [StepCallers -> Progresses],
           \A d \in StepCallers : d # c => progress'[d] = progress[d],
           progress'[c].on = progress[c].on, progress'[c].step = progress[c].step,
           progress'[c].before = progress[c].before,
           UNCHANGED <<record, prompt, shared>>, stored' \subseteq Workflows,
           place \in {"asking", "resting", "restarting"} => Running(c),
           place = "resting" => progress'[c].retries < max_retries,
           place = "restarting" => progress'[c].restarts < max_step_retries,
           place \in {"saving", "answered"} =>
               /\ stepping[c] = "saving"
               /\ progress'[c].answer = progress[c].answer \/ progress'[c].answer = "error"
    PROVE  StepInv'
  <1>0. /\ stepping \in [StepCallers -> Waiting \cup {"idle", "answered"}]
        /\ progress \in [StepCallers -> Progresses]
    BY DEF StepInv, StepsTyped
  <1>1. /\ stepping'[c] = place /\ \A d \in StepCallers : d # c => stepping'[d] = stepping[d]
        /\ stepping' \in [StepCallers -> Waiting \cup {"idle", "answered"}]
    BY <1>0 DEF Moves
  <1>2. StepsTyped'
    BY <1>1 DEF StepInv, StepsTyped
  <1>3. CallsInPlace'
    BY <1>1 DEF StepInv, CallsInPlace
  <1>4. RecordsReached'
    BY DEF StepInv, RecordsReached
  <1>5. CallsKnow'
    <2>1. ASSUME Running(c)', progress'[c].on \notin shared'
          PROVE  /\ \A d \in StepCallers : d # c /\ Running(d) => progress[d].on # progress'[c].on
                 /\ Knows(c)'
      <3>1. Running(c) /\ progress[c].on \notin shared
        BY <1>1, <2>1 DEF Running
      <3>2. /\ \A d \in StepCallers : Running(d) /\ progress[d].on = progress[c].on => d = c
            /\ Knows(c)
        BY <3>1 DEF StepInv, CallsKnow, Knows
      <3>3. NextStep(progress[c].on)' = NextStep(progress[c].on)
        BY DEF NextStep
      <3> QED BY <3>2, <3>3 DEF Knows
    <2> QED BY <1>1, <2>1, CallsKnowStep
  <1>6. WindowAtPrompt' /\ WindowKnows'
    <2>0. Outputs(prompt.on)' = Outputs(prompt.on)
      BY DEF Outputs
    <2>1. CASE c # Window
      <3>1. Window \in StepCallers
        BY DEF StepCallers
      <3>2. stepping'[Window] = stepping[Window] /\ progress'[Window] = progress[Window]
        BY <1>1, <2>1, <3>1
      <3> QED BY <1>2, <2>0, <3>2, WindowStays
    <2>2. CASE c = Window
      <3>1. stepping[Window] # "idle"
        BY <2>2 DEF Waiting
      <3>2. WindowAtPrompt'
        BY <2>2, <3>1 DEF StepInv, WindowAtPrompt
      <3>3. WindowKnows'
        BY <1>1, <2>0, <2>2 DEF StepInv, WindowKnows
      <3> QED BY <3>2, <3>3
    <2> QED BY <2>1, <2>2
  <1> QED BY <1>2, <1>3, <1>4, <1>5, <1>6 DEF StepInv

\* The agent fails, or its next attempt begins.
LEMMA FailsKeeps ==
    ASSUME StepInv, NEW c \in StepCallers, AgentFails(c)
    PROVE  StepInv'
  <1>0. stepping[c] = "asking" /\ UNCHANGED <<stored, prompt, shared>>
    BY DEF AgentFails
  <1>1. /\ progress \in [StepCallers -> Progresses] /\ stored \subseteq Workflows
        /\ stepping[c] \in Waiting /\ Running(c)
    BY <1>0 DEF StepInv, StepsTyped, Waiting, Running
  <1>2. CASE progress[c].retries < max_retries
    <2>1. Moves(c, "resting") /\ UNCHANGED <<record, progress>>
      BY <1>2 DEF AgentFails
    <2>2. PICK place \in Waiting \cup {"answered"} : place = "resting"
      BY DEF Waiting
    <2> QED BY <1>0, <1>1, <1>2, <2>1, <2>2, MoveKeeps
  <1>3. CASE Restart(c)
    <2>1. PICK place \in Waiting \cup {"answered"} : place = "restarting"
      BY DEF Waiting
    <2> QED BY <1>0, <1>1, <1>3, <2>1, MoveKeeps DEF Restart
  <1>4. CASE StepEnds(c, "error")
    <2>1. PICK outcome \in Outcomes : outcome = "error"
      BY DEF Outcomes
    <2> QED BY <1>0, <1>4, <2>1, EndsKeeps
  <1> QED BY <1>2, <1>3, <1>4 DEF AgentFails

\* A call asks the agent again, or begins its step again.
LEMMA AsksKeeps ==
    ASSUME StepInv, NEW c \in StepCallers, AsksAgain(c) \/ BeginsAgain(c)
    PROVE  StepInv'
  <1>0. /\ stepping[c] \in {"resting", "restarting"} /\ UNCHANGED <<record, stored, prompt, shared>>
        /\ Moves(c, "asking") /\ StepsTyped
    BY DEF AsksAgain, BeginsAgain, StepInv
  <1>1. /\ progress \in [StepCallers -> Progresses] /\ stored \subseteq Workflows
        /\ stepping[c] \in Waiting /\ Running(c)
    BY <1>0 DEF StepInv, StepsTyped, Waiting, Running
  <1>2. PICK place \in Waiting \cup {"answered"} : place = "asking"
    BY DEF Waiting
  <1>3. /\ progress' \in [StepCallers -> Progresses]
        /\ \A d \in StepCallers : d # c => progress'[d] = progress[d]
        /\ progress'[c].on = progress[c].on /\ progress'[c].step = progress[c].step
        /\ progress'[c].before = progress[c].before
    <2>1. CASE AsksAgain(c)
      <3>1. progress[c].retries \in 0 .. max_retries /\ progress[c].retries < max_retries
        BY <1>1, <2>1 DEF AsksAgain, StepInv, CallsInPlace, Progresses
      <3>2. PICK n \in 0 .. max_retries : n = progress[c].retries + 1
        BY <3>1, RetriesAssumption
      <3> QED BY <1>0, <2>1, <3>2, NoteRetries DEF AsksAgain
    <2>2. CASE BeginsAgain(c)
      <3>1. progress[c].restarts \in 0 .. max_step_retries /\ progress[c].restarts < max_step_retries
        BY <1>1, <2>2 DEF BeginsAgain, StepInv, CallsInPlace, Progresses
      <3>2. PICK n \in 0 .. max_step_retries : n = progress[c].restarts + 1
        BY <3>1, RetriesAssumption
      <3>3. PICK z \in 0 .. max_retries : z = 0
        BY RetriesAssumption
      <3>4. progress' = [progress EXCEPT ![c].retries = z, ![c].restarts = n]
        BY <2>2, <3>2, <3>3 DEF BeginsAgain
      <3>5. PICK p : p = [progress[c] EXCEPT !.retries = z, !.restarts = n]
        OBVIOUS
      <3>6. /\ p \in Progresses /\ p.on = progress[c].on /\ p.step = progress[c].step
            /\ p.before = progress[c].before
        <4> HIDE <3>2, <3>3
        <4> QED BY <1>1, <3>5 DEF Progresses
      <3>7. progress' = [progress EXCEPT ![c] = p]
        BY <1>1, <3>4, <3>5
      <3> QED BY <1>1, <3>6, <3>7
    <2> QED BY <2>1, <2>2
  <1> QED BY <1>0, <1>1, <1>2, <1>3, MoveKeeps

\* set_state stores the record, or raises.
LEMMA SavesKeep ==
    ASSUME StepInv, NEW c \in StepCallers, Saved(c) \/ SaveFails(c)
    PROVE  StepInv'
  <1>0. /\ stepping[c] = "saving" /\ UNCHANGED <<record, prompt, shared>>
        /\ Moves(c, "answered") /\ StepsTyped
    BY DEF Saved, SaveFails, StepInv
  <1>1. /\ progress \in [StepCallers -> Progresses] /\ stored \subseteq Workflows
        /\ stepping[c] \in Waiting /\ progress[c].on \in Workflows
    BY <1>0 DEF StepInv, StepsTyped, Waiting, CallsInPlace
  <1>2. PICK place \in Waiting \cup {"answered"} : place = "answered"
    OBVIOUS
  <1>3. stored' \subseteq Workflows
    BY <1>1 DEF Saved, SaveFails
  <1>4. /\ progress' \in [StepCallers -> Progresses]
        /\ \A d \in StepCallers : d # c => progress'[d] = progress[d]
        /\ progress'[c].on = progress[c].on /\ progress'[c].step = progress[c].step
        /\ progress'[c].before = progress[c].before
        /\ progress'[c].answer = progress[c].answer \/ progress'[c].answer = "error"
    <2>1. CASE Saved(c)
      BY <1>1, <2>1 DEF Saved
    <2>2. CASE SaveFails(c)
      <3>1. PICK a \in Answers : a = "error"
        BY DEF Answers
      <3> QED BY <1>0, <2>2, <3>1, NoteAnswer DEF SaveFails
    <2> QED BY <2>1, <2>2
  <1> QED BY <1>0, <1>1, <1>2, <1>3, <1>4, MoveKeeps

\* An operation is begun by a caller.
LEMMA StartKeeps ==
    ASSUME StepInv, NEW o \in Workflows, StartWorkflow(o)
    PROVE  StepInv'
  <1>0. Begun(o) /\ UNCHANGED <<stepping, progress, prompt, shared>>
    BY DEF StartWorkflow
  <1>1. /\ StepsTyped' <=> prompt' \in Prompts
        /\ CallsInPlace' /\ CallsKnow' /\ RecordsReached'
        /\ \A p \in Workflows : record'[p].step_results = record[p].step_results
    BY <1>0, BegunKeeps
  <1>2. StepsTyped'
    BY <1>0, <1>1 DEF StepInv, StepsTyped
  <1>3. prompt.on \in Workflows => Outputs(prompt.on)' = Outputs(prompt.on)
    BY <1>0, <1>1 DEF Outputs
  <1>4. WindowAtPrompt' /\ WindowKnows'
    BY <1>0, <1>2, <1>3, WindowStays
  <1> QED BY <1>1, <1>2, <1>4 DEF StepInv

\* The window begins an operation for a prompt.
LEMMA SubmitKeeps ==
    ASSUME StepInv, NEW o \in Workflows, Submit(o)
    PROVE  StepInv'
  <1>0. Begun(o) /\ UNCHANGED <<stepping, progress, shared>> /\ prompt.at # "stepping"
    BY DEF Submit
  <1>1. /\ StepsTyped' <=> prompt' \in Prompts
        /\ CallsInPlace' /\ CallsKnow' /\ RecordsReached'
    BY <1>0, BegunKeeps
  <1>2. prompt' = [at |-> "stepping", on |-> o, round |-> 0, outputs |-> {}, entry |-> "kept"]
    BY DEF Submit, Blank
  <1>3. stepping[Window] = "idle"
    BY <1>0 DEF StepInv, WindowAtPrompt
  <1>4. 0 \in 0 .. Len(step_sequence) /\ 0 < Len(step_sequence)
    <2>1. PICK L \in Nat : L = Len(step_sequence) /\ L > 1
      BY Sequence
    <2> QED BY <2>1
  <1>5. prompt' \in Prompts
    BY <1>2, <1>4 DEF Prompts
  <1>6. WindowAtPrompt'
    BY <1>0, <1>2, <1>3, <1>4 DEF WindowAtPrompt
  <1>7. WindowKnows'
    <2>1. prompt'.outputs = {} /\ prompt'.round = 0 /\ prompt'.at = "stepping"
      BY <1>2
    <2>2. stepping'[Window] = "idle"
      BY <1>0, <1>3
    <2> QED BY <2>1, <2>2, FS_EmptySet DEF WindowKnows
  <1> QED BY <1>1, <1>5, <1>6, <1>7 DEF StepInv

\* Entries are removed.
LEMMA CleanUpKeeps ==
    ASSUME StepInv, NEW O, CleanUp(O)
    PROVE  StepInv'
  <1>0. stored' \subseteq stored /\ UNCHANGED <<record, stepping, progress, shared>>
    BY DEF CleanUp
  <1>1. PICK e \in {"kept", "removed"} :
           e = IF prompt.at = "stepping" /\ prompt.on \in O THEN "removed" ELSE prompt.entry
    BY DEF StepInv, StepsTyped, Prompts
  <1>2. prompt' = [prompt EXCEPT !.entry = e]
    BY <1>1 DEF CleanUp
  <1>3. /\ prompt' \in Prompts /\ prompt'.at = prompt.at /\ prompt'.on = prompt.on
        /\ prompt'.round = prompt.round /\ prompt'.outputs = prompt.outputs
        /\ prompt'.entry = e
    BY <1>2 DEF StepInv, StepsTyped, Prompts
  <1>4. StepsTyped'
    BY <1>0, <1>3 DEF StepInv, StepsTyped
  <1>5. CallsInPlace' /\ RecordsReached'
    BY <1>0 DEF StepInv, CallsInPlace, RecordsReached
  <1>6. CallsKnow'
    BY <1>0 DEF StepInv, CallsKnow, Running, NextStep
  <1>7. prompt.at = "success" => e = prompt.entry
    BY <1>1
  <1>8. WindowAtPrompt' /\ WindowKnows'
    BY <1>0, <1>3, <1>7 DEF StepInv, WindowAtPrompt, WindowKnows, Outputs
  <1> QED BY <1>4, <1>5, <1>6, <1>8 DEF StepInv

\* A caller takes its answer or gives up.
LEMMA LeavesKeeps ==
    ASSUME StepInv, NEW c \in StepCallers, Leaves(c)
    PROVE  /\ StepsTyped' <=> prompt' \in Prompts
           /\ CallsInPlace' /\ CallsKnow' /\ RecordsReached'
           /\ stepping'[c] = "idle"
           /\ \A d \in StepCallers : d # c =>
                  stepping'[d] = stepping[d] /\ progress'[d] = progress[d]
  <1>0. /\ stepping \in [StepCallers -> Waiting \cup {"idle", "answered"}]
        /\ progress \in [StepCallers -> Progresses] /\ UNCHANGED <<record, stored, shared>>
    BY DEF StepInv, StepsTyped, Leaves
  <1>1. stepping' = [stepping EXCEPT ![c] = "idle"] /\ progress' = [progress EXCEPT ![c] = Unstarted]
    BY DEF Leaves, Moves
  <1>2. /\ stepping'[c] = "idle"
        /\ stepping' \in [StepCallers -> Waiting \cup {"idle", "answered"}]
        /\ \A d \in StepCallers : d # c =>
               stepping'[d] = stepping[d] /\ progress'[d] = progress[d]
    BY <1>0, <1>1
  <1>3. progress' \in [StepCallers -> Progresses]
    BY <1>0, <1>1, BlankCall
  <1>4. StepsTyped' <=> prompt' \in Prompts
    BY <1>0, <1>2, <1>3 DEF StepInv, StepsTyped
  <1>5. CallsInPlace'
    BY <1>2 DEF StepInv, CallsInPlace, Waiting
  <1>6. RecordsReached'
    BY <1>0 DEF StepInv, RecordsReached
  <1>7. CallsKnow'
    BY <1>0, <1>2, CallsKnowStep DEF Running
  <1> QED BY <1>2, <1>4, <1>5, <1>6, <1>7

\* What a prompt is while the window's call is under way.
LEMMA WindowCalls ==
    ASSUME StepInv, stepping[Window] # "idle"
    PROVE  /\ Window \in StepCallers /\ prompt \in Prompts
           /\ prompt.at = "stepping" /\ prompt.on \in Workflows
           /\ prompt.round \in Nat /\ prompt.round < Len(step_sequence)
           /\ prompt.outputs \subseteq StepNames
  <1>1. Window \in StepCallers /\ prompt \in Prompts
    BY DEF StepCallers, StepInv, StepsTyped
  <1>2. prompt.at = "stepping" /\ prompt.on \in Workflows /\ prompt.round < Len(step_sequence)
    BY DEF StepInv, WindowAtPrompt
  <1>3. prompt.round \in 0 .. Len(step_sequence) /\ prompt.outputs \subseteq StepNames
    BY <1>1 DEF Prompts
  <1>4. prompt.round \in Nat
    BY <1>3, Sequence
  <1> QED BY <1>1, <1>2, <1>3, <1>4

\* The window shows an error.
LEMMA FailedKeeps ==
    ASSUME StepInv, stepping[Window] # "idle", Leaves(Window), Shown("failed")
    PROVE  StepInv'
  <1>1. /\ Window \in StepCallers /\ prompt \in Prompts
    BY WindowCalls
  <1>2. /\ StepsTyped' <=> prompt' \in Prompts
        /\ CallsInPlace' /\ CallsKnow' /\ RecordsReached'
        /\ stepping'[Window] = "idle"
    BY <1>1, LeavesKeeps
  <1>3. PICK at_ \in {"ready", "stepping", "success", "failed"} : at_ = "failed"
    OBVIOUS
  <1>4. prompt' = [prompt EXCEPT !.at = at_]
    BY <1>3, Zenon DEF Shown
  <1>5. prompt' \in Prompts /\ prompt'.at = at_
    <2> HIDE <1>3
    <2> QED BY <1>1, <1>4 DEF Prompts
  <1>6. WindowAtPrompt' /\ WindowKnows'
    BY <1>2, <1>3, <1>5 DEF WindowAtPrompt, WindowKnows
  <1> QED BY <1>2, <1>5, <1>6 DEF StepInv

\* The window shows a completed operation.
LEMMA ShownKeeps ==
    ASSUME StepInv, EntryKept, stepping[Window] = "answered", Leaves(Window),
           progress[Window].answer = "completed",
           prompt' = [prompt EXCEPT !.at = "success", !.outputs = LookedUp(prompt.on)]
    PROVE  StepInv'
  <1>1. /\ Window \in StepCallers /\ prompt \in Prompts /\ prompt.on \in Workflows
        /\ prompt.at = "stepping"
    BY WindowCalls
  <1>2. /\ StepsTyped' <=> prompt' \in Prompts
        /\ CallsInPlace' /\ CallsKnow' /\ RecordsReached'
        /\ stepping'[Window] = "idle"
    BY <1>1, LeavesKeeps
  <1>3. PICK at_ \in {"ready", "stepping", "success", "failed"} : at_ = "success"
    OBVIOUS
  <1>4. PICK u \in SUBSET StepNames : u = LookedUp(prompt.on)
    BY DEF LookedUp, Outputs
  <1>5. prompt' = [prompt EXCEPT !.at = at_, !.outputs = u]
    BY <1>3, <1>4, Zenon
  <1>6. /\ prompt' \in Prompts /\ prompt'.at = at_ /\ prompt'.outputs = u
        /\ prompt'.on = prompt.on /\ prompt'.entry = prompt.entry
    <2> HIDE <1>3, <1>4
    <2> QED BY <1>1, <1>5 DEF Prompts
  <1>7. record' = record /\ shared' = shared
    BY DEF Leaves
  <1>8. Outputs(prompt.on)' = Outputs(prompt.on)
    BY <1>6, <1>7 DEF Outputs
  <1>9. WindowAtPrompt'
    BY <1>1, <1>2, <1>3, <1>6 DEF WindowAtPrompt
  <1>10. prompt.on \notin shared => Outputs(prompt.on) = StepNames
    BY DEF StepInv, WindowKnows
  <1>11. u = Outputs(prompt.on) \/ (prompt.entry = "removed" /\ u = {})
    <2>1. prompt.entry \in {"kept", "removed"}
      BY <1>1 DEF Prompts
    <2>2. prompt.entry = "kept" => prompt.on \in stored
      BY <1>1 DEF EntryKept
    <2>3. u = IF prompt.on \in stored THEN Outputs(prompt.on) ELSE {}
      BY <1>4, Zenon DEF LookedUp
    <2> QED BY <2>1, <2>2, <2>3
  <1>12. WindowKnows'
    BY <1>2, <1>3, <1>6, <1>7, <1>8, <1>10, <1>11 DEF WindowKnows
  <1> QED BY <1>2, <1>6, <1>9, <1>12 DEF StepInv

\* The window adds the step's output, and is done after the last round.
LEMMA RoundKeeps ==
    ASSUME StepInv, stepping[Window] = "answered", Leaves(Window),
           progress[Window].answer = "step",
           prompt' = [prompt EXCEPT
                 !.outputs = @ \cup {progress[Window].step}, !.round = @ + 1,
                 !.at = IF prompt.round + 1 = Len(step_sequence)
                        THEN "success" ELSE "stepping"]
    PROVE  StepInv'
  <1>1. /\ Window \in StepCallers /\ prompt \in Prompts /\ prompt.on \in Workflows
        /\ prompt.at = "stepping" /\ prompt.round \in Nat /\ prompt.round < Len(step_sequence)
        /\ prompt.outputs \subseteq StepNames
    BY WindowCalls
  <1>2. /\ StepsTyped' <=> prompt' \in Prompts
        /\ CallsInPlace' /\ CallsKnow' /\ RecordsReached'
        /\ stepping'[Window] = "idle"
    BY <1>1, LeavesKeeps
  <1>3. PICK L \in Nat : L = Len(step_sequence)
    BY StepCount
  <1>4. PICK n \in 0 .. Len(step_sequence) : n = prompt.round + 1
    BY <1>1, <1>3
  <1>5. PICK at_ \in {"ready", "stepping", "success", "failed"} :
           at_ = IF prompt.round + 1 = Len(step_sequence) THEN "success" ELSE "stepping"
    OBVIOUS
  <1>6. PICK s \in StepNames : s = progress[Window].step
    BY <1>1 DEF StepInv, StepsTyped, Progresses
  <1>7. PICK u \in SUBSET StepNames : u = prompt.outputs \cup {s}
    BY <1>1
  <1>8. prompt' = [prompt EXCEPT !.outputs = u, !.round = n, !.at = at_]
    BY <1>4, <1>5, <1>6, <1>7
  <1>9. /\ prompt' \in Prompts /\ prompt'.at = at_ /\ prompt'.outputs = u
        /\ prompt'.on = prompt.on /\ prompt'.round = n
    <2> HIDE <1>4, <1>5, <1>6, <1>7
    <2> QED BY <1>1, <1>8 DEF Prompts
  <1>10. record' = record /\ shared' = shared
    BY DEF Leaves
  <1>11. Outputs(prompt.on)' = Outputs(prompt.on)
    BY <1>9, <1>10 DEF Outputs
  <1>12. at_ = "stepping" => n < Len(step_sequence)
    BY <1>3, <1>4, <1>5
  <1>13. WindowAtPrompt'
    BY <1>1, <1>2, <1>5, <1>9, <1>12 DEF WindowAtPrompt
  <1>14. prompt.on \notin shared => u \subseteq Outputs(prompt.on) /\ Cardinality(u) = n
    <2> SUFFICES ASSUME prompt.on \notin shared
                 PROVE  u \subseteq Outputs(prompt.on) /\ Cardinality(u) = n
      OBVIOUS
    <2>1. s \in Outputs(prompt.on) \ prompt.outputs
      BY <1>6 DEF StepInv, WindowKnows
    <2>2. prompt.outputs \subseteq Outputs(prompt.on) /\ Cardinality(prompt.outputs) = prompt.round
      BY <1>1 DEF StepInv, WindowKnows
    <2>3. IsFiniteSet(prompt.outputs)
      BY <1>1, NumberOfSteps, FS_Subset
    <2>4. Cardinality(u) = Cardinality(prompt.outputs) + 1
      BY <1>7, <2>1, <2>3, FS_AddElement
    <2> QED BY <1>4, <1>7, <2>1, <2>2, <2>4
  <1>15. prompt.on \notin shared /\ at_ = "success" => u = StepNames /\ Outputs(prompt.on) = StepNames
    <2> SUFFICES ASSUME prompt.on \notin shared, at_ = "success"
                 PROVE  u = StepNames /\ Outputs(prompt.on) = StepNames
      OBVIOUS
    <2>1. n = Len(step_sequence)
      BY <1>4, <1>5
    <2>2. u = StepNames
      BY <1>14, <2>1, NumberOfSteps, FS_Subset
    <2> QED BY <1>14, <2>2 DEF Outputs
  <1>16. WindowKnows'
    <2>1. prompt.on \notin shared =>
             prompt'.outputs \subseteq Outputs(prompt.on)' /\ Cardinality(prompt'.outputs) = prompt'.round
      BY <1>9, <1>11, <1>14, Zenon
    <2>2. prompt.on \notin shared /\ prompt'.at = "success" =>
             prompt'.outputs = StepNames /\ Outputs(prompt.on)' = StepNames
      BY <1>9, <1>11, <1>15, Zenon
    <2>3. stepping'[Window] = "idle" /\ shared' = shared /\ prompt'.on = prompt.on
      BY <1>2, <1>9, <1>10
    <2>4. WindowKnows' <=>
            (prompt'.on \notin shared' =>
               /\ prompt'.at = "stepping" => /\ prompt'.outputs \subseteq Outputs(prompt.on)'
                                             /\ Cardinality(prompt'.outputs) = prompt'.round
               /\ prompt'.at = "success" =>
                     /\ Outputs(prompt.on)' = StepNames
                     /\ prompt'.outputs = StepNames
                        \/ (prompt'.entry = "removed" /\ prompt'.outputs = {})
               /\ stepping'[Window] \in {"saving", "answered"} =>
                     /\ progress'[Window].answer = "step" =>
                           progress'[Window].step \in Outputs(prompt.on)' \ prompt'.outputs
                     /\ progress'[Window].answer = "completed" => Outputs(prompt.on)' = StepNames)
      BY Zenon DEF WindowKnows
    <2>5. stepping'[Window] \notin {"saving", "answered"}
      BY <2>3
    <2>6. prompt'.on \notin shared' => prompt.on \notin shared
      BY <2>3
    <2> QED BY ONLY <2>1, <2>2, <2>4, <2>5, <2>6
  <1> QED BY <1>2, <1>9, <1>13, <1>16 DEF StepInv

\* Only a removal takes the prompt's entry away.
LEMMA EntryStays ==
    ASSUME StepInv, EntryKept, [SteppedNext]_steppedVars
    PROVE  EntryKept'
  <1>1. ASSUME prompt' = prompt, stored \subseteq stored' PROVE EntryKept'
    BY <1>1 DEF EntryKept
  <1>2. ASSUME prompt'.at # "stepping" PROVE EntryKept'
    BY <1>2 DEF EntryKept
  <1>3. prompt \in Prompts
    BY DEF StepInv, StepsTyped
  <1>4. ASSUME NEW o \in Workflows, StartWorkflow(o) \/ Submit(o)
        PROVE  EntryKept'
    <2>1. CASE StartWorkflow(o)
      BY <1>1, <2>1 DEF StartWorkflow, Begun
    <2>2. CASE Submit(o)
      BY <2>2 DEF Submit, Begun, Blank, EntryKept
    <2> QED BY <1>4, <2>1, <2>2
  <1>5. ASSUME NEW c \in StepCallers, NEW o, ExecuteNext(c, o), prompt' = prompt
        PROVE  EntryKept'
    BY <1>1, <1>5 DEF ExecuteNext
  <1>6. ASSUME NEW c \in StepCallers,
               \/ AgentReturns(c) \/ AgentRefuses(c) \/ AgentFails(c)
               \/ AsksAgain(c) \/ BeginsAgain(c) \/ Saved(c) \/ SaveFails(c)
               \/ StepperLeaves(c)
        PROVE  EntryKept'
    BY <1>1, <1>6
       DEF AgentReturns, AgentRefuses, AgentFails, AsksAgain, BeginsAgain, Saved, SaveFails,
           StepperLeaves, Leaves
  <1>7. ASSUME NEW O, CleanUp(O) PROVE EntryKept'
    <2>1. prompt'.at = prompt.at /\ prompt'.on = prompt.on
          /\ prompt'.entry = IF prompt.at = "stepping" /\ prompt.on \in O
                               THEN "removed" ELSE prompt.entry
      BY <1>3, <1>7 DEF CleanUp, Prompts
    <2>2. stored' = stored \ O
      BY <1>7 DEF CleanUp
    <2> QED BY <2>1, <2>2 DEF EntryKept
  <1>8. CASE WindowTakes
    <2>1. stored' = stored
      BY <1>8 DEF WindowTakes, Leaves
    <2>2. ASSUME Shown("failed") PROVE prompt'.at # "stepping"
      BY <1>3, <2>2 DEF Shown, Prompts
    <2>3. ASSUME prompt' = [prompt EXCEPT !.at = "success", !.outputs = LookedUp(prompt.on)]
          PROVE  prompt'.at # "stepping"
      BY <1>3, <2>3 DEF Prompts
    <2>4. ASSUME prompt' = [prompt EXCEPT
                   !.outputs = @ \cup {progress[Window].step}, !.round = @ + 1,
                   !.at = IF prompt.round + 1 = Len(step_sequence)
                          THEN "success" ELSE "stepping"]
          PROVE  prompt'.on = prompt.on /\ prompt'.entry = prompt.entry
      BY <1>3, <2>4 DEF Prompts
    <2>5. prompt.at = "stepping"
      BY <1>8 DEF WindowTakes, StepInv, WindowAtPrompt
    <2> QED BY <1>2, <1>8, <2>1, <2>2, <2>3, <2>4, <2>5 DEF WindowTakes, EntryKept
  <1>9. CASE WindowTimesOut
    <2>1. prompt'.at # "stepping"
      BY <1>3, <1>9 DEF WindowTimesOut, TimedOut, Shown, Prompts
    <2> QED BY <1>2, <2>1
  <1>10. CASE UNCHANGED steppedVars
    BY <1>1, <1>10 DEF steppedVars
  <1>11. \A c \in Steppers : c \in StepCallers
    BY DEF StepCallers
  <1>12. Window \in StepCallers
    BY DEF StepCallers
  <1> QED BY <1>4, <1>5, <1>6, <1>7, <1>8, <1>9, <1>10, <1>11, <1>12
          DEF SteppedNext, Execute, WindowExecutes

\* Each step keeps the invariant.
LEMMA StepsKept == StepsInv /\ [SteppedNext]_steppedVars => StepsInv'
  <1> SUFFICES ASSUME StepInv, EntryKept, [SteppedNext]_steppedVars PROVE StepInv'
    BY EntryStays DEF StepsInv
  <1>1. ASSUME NEW o \in Workflows, StartWorkflow(o) \/ Submit(o)
        PROVE  StepInv'
    BY <1>1, StartKeeps, SubmitKeeps
  <1>2. ASSUME NEW c \in Steppers, NEW o \in Workflows, Execute(c, o)
        PROVE  StepInv'
    <2>1. c \in StepCallers /\ ExecuteNext(c, o) /\ c # Window /\ prompt' = prompt
      BY <1>2 DEF Execute, StepCallers
    <2> QED BY <2>1, ExecuteKeeps
  <1>3. ASSUME NEW c \in StepCallers, AgentReturns(c) \/ AgentRefuses(c)
        PROVE  StepInv'
    <2>1. PICK x \in Outcomes, y \in Outcomes : x = "success" /\ y = "error"
      BY DEF Outcomes
    <2> QED BY <1>3, <2>1, EndsKeeps DEF AgentReturns, AgentRefuses
  <1>4. ASSUME NEW c \in StepCallers, AgentFails(c)
        PROVE  StepInv'
    BY <1>4, FailsKeeps
  <1>5. ASSUME NEW c \in StepCallers, AsksAgain(c) \/ BeginsAgain(c)
        PROVE  StepInv'
    BY <1>5, AsksKeeps
  <1>6. ASSUME NEW c \in StepCallers, Saved(c) \/ SaveFails(c)
        PROVE  StepInv'
    BY <1>6, SavesKeep
  <1>7. ASSUME NEW c \in StepCallers, StepperLeaves(c)
        PROVE  StepInv'
    <2>1. c # Window /\ Leaves(c) /\ prompt' = prompt
      BY <1>7 DEF StepperLeaves
    <2>2. /\ StepsTyped' <=> prompt' \in Prompts
          /\ CallsInPlace' /\ CallsKnow' /\ RecordsReached'
          /\ \A d \in StepCallers : d # c =>
                 stepping'[d] = stepping[d] /\ progress'[d] = progress[d]
      BY <2>1, LeavesKeeps
    <2>3. StepsTyped' /\ record' = record /\ shared' = shared
      BY <2>1, <2>2 DEF StepInv, StepsTyped, Leaves
    <2>4. stepping'[Window] = stepping[Window] /\ progress'[Window] = progress[Window]
      BY <2>1, <2>2 DEF StepCallers
    <2>5. Outputs(prompt.on)' = Outputs(prompt.on)
      BY <2>1, <2>3 DEF Outputs
    <2>6. WindowAtPrompt' /\ WindowKnows'
      BY <2>1, <2>3, <2>4, <2>5, WindowStays
    <2> QED BY <2>2, <2>3, <2>6 DEF StepInv
  <1>8. ASSUME NEW O, CleanUp(O)
        PROVE  StepInv'
    BY <1>8, CleanUpKeeps
  <1>9. CASE WindowExecutes
    <2>1. /\ prompt.at = "stepping" /\ ExecuteNext(Window, prompt.on) /\ prompt' = prompt
          /\ Window \in StepCallers
      BY <1>9 DEF WindowExecutes, StepCallers
    <2>2. PICK o \in Workflows : o = prompt.on
      BY <2>1 DEF StepInv, WindowAtPrompt
    <2> QED BY <2>1, <2>2, ExecuteKeeps
  <1>10. CASE WindowTakes
    <2>1. stepping[Window] = "answered" /\ stepping[Window] # "idle" /\ Leaves(Window)
      BY <1>10 DEF WindowTakes
    <2> QED BY <1>10, <2>1, FailedKeeps, ShownKeeps, RoundKeeps DEF WindowTakes
  <1>11. CASE WindowTimesOut
    BY <1>11, FailedKeeps DEF WindowTimesOut, TimedOut
  <1>12. CASE UNCHANGED steppedVars
    <2>1. StepsTyped' /\ CallsInPlace' /\ RecordsReached'
      BY <1>12 DEF StepInv, StepsTyped, CallsInPlace, RecordsReached, steppedVars
    <2>2. CallsKnow'
      BY <1>12 DEF StepInv, CallsKnow, Running, NextStep, steppedVars
    <2>3. WindowAtPrompt' /\ WindowKnows'
      BY <1>12 DEF StepInv, WindowAtPrompt, WindowKnows, Outputs, steppedVars
    <2> QED BY <2>1, <2>2, <2>3 DEF StepInv
  <1> QED
    BY <1>1, <1>2, <1>3, <1>4, <1>5, <1>6, <1>7, <1>8, <1>9, <1>10, <1>11, <1>12, Zenon
       DEF SteppedNext

\* It holds when nothing has begun.
LEMMA StepsBegin == SteppedInit => StepsInv
  <1> SUFFICES ASSUME SteppedInit PROVE StepInv
    BY DEF SteppedInit, Blank, StepsInv, EntryKept
  <1>1. PICK L \in Nat : L = Len(step_sequence) /\ L > 1
    BY Sequence
  <1>2. PICK r : r = Unused
    OBVIOUS
  <1>3. r \in StepRecords /\ Reached(r, 0)
    <2>1. PICK st \in {"unused", "initialized", "running", "error", "completed"} : st = "unused"
      OBVIOUS
    <2>2. PICK cu \in StepNames \cup {"ready", "completed"} : cu = "ready"
      OBVIOUS
    <2>3. PICK e \in Seq(StepNames) : e = <<>>
      <3>1. <<>> \in Seq(StepNames)
        OBVIOUS
      <3> QED BY <3>1
    <2>4. PICK f \in [StepNames -> Outcomes \cup {Missing}] : f = [s \in StepNames |-> Missing]
      OBVIOUS
    <2>5. r = [status |-> st, current_step |-> cu, steps_completed |-> e, step_results |-> f]
      BY <1>2, <2>1, <2>2, <2>3, <2>4, Zenon DEF Unused
    <2>6. /\ r \in StepRecords /\ r.current_step = cu /\ r.steps_completed = e
          /\ r.step_results = f
      <3> HIDE <2>1, <2>2, <2>3, <2>4
      <3> QED BY <2>5 DEF StepRecords
    <2>7. Len(e) = 0 /\ 0 \in 0 .. Len(step_sequence)
      BY <1>1, <2>3
    <2>8. \A s \in StepNames : r.step_results[s] = Missing
      BY <2>4, <2>6
    <2> QED BY <2>2, <2>6, <2>7, <2>8 DEF Reached
  <1>4. record = [o \in Workflows |-> r] /\ shared = {}
    BY <1>2, Zenon DEF SteppedInit
  <1>5. prompt \in Prompts /\ prompt.at = "ready"
    <2>1. prompt = [at |-> "ready", on |-> Missing, round |-> 0, outputs |-> {},
                    entry |-> "kept"]
      BY DEF SteppedInit, Blank
    <2>2. 0 \in 0 .. Len(step_sequence)
      BY <1>1
    <2> QED BY <2>1, <2>2 DEF Prompts
  <1>6. stepping = [c \in StepCallers |-> "idle"] /\ progress = [c \in StepCallers |-> Unstarted]
    BY DEF SteppedInit
  <1>7. StepsTyped
    BY <1>3, <1>4, <1>5, <1>6, BlankCall DEF StepsTyped, SteppedInit
  <1>8. CallsInPlace /\ CallsKnow
    BY <1>6 DEF CallsInPlace, CallsKnow, Running, Waiting
  <1>9. RecordsReached
    <2>1. \A o \in Workflows : Reached(record[o], 0)
      BY <1>3, <1>4
    <2> QED BY <2>1 DEF RecordsReached
  <1>10. WindowAtPrompt /\ WindowKnows
    <2>1. stepping[Window] = "idle"
      BY <1>6 DEF StepCallers
    <2> QED BY <1>5, <2>1 DEF WindowAtPrompt, WindowKnows
  <1> QED BY <1>7, <1>8, <1>9, <1>10 DEF StepInv

\* What it says of the types and of what is told.
LEMMA StepsTold == StepsInv => SteppedTypeOK /\ StepsToldRight
  <1> SUFFICES ASSUME StepInv PROVE SteppedTypeOK /\ StepsToldRight
    BY DEF StepsInv
  <1>1. StepsTyped /\ RecordsReached /\ WindowKnows
    BY DEF StepInv
  <1>2. /\ \A c \in StepCallers :
               /\ progress[c].on \in Workflows \cup {Missing}
               /\ progress[c].step \in StepNames
               /\ progress[c].restarts \in 0 .. max_step_retries
               /\ progress[c].retries \in 0 .. max_retries
               /\ progress[c].answer \in Answers
        /\ prompt.at \in {"ready", "stepping", "success", "failed"}
        /\ prompt.on \in Workflows \cup {Missing}
        /\ prompt.round \in 0 .. Len(step_sequence)
        /\ prompt.outputs \subseteq StepNames
        /\ prompt.entry \in {"kept", "removed"}
    BY <1>1 DEF StepsTyped, Progresses, Prompts
  <1>3. SteppedTypeOK
    BY <1>1, <1>2 DEF StepsTyped, StepRecords, SteppedTypeOK
  <1>4. RecordTellsProgress
    BY <1>1, RecordsTellProgress
  <1>5. SuccessShowsEveryStep
    BY <1>1 DEF WindowKnows, SuccessShowsEveryStep
  <1> QED BY <1>3, <1>4, <1>5 DEF StepsToldRight

-----------------------------------------------------------------------------
(* The facilities together *)

\* A step is one of a single facility, and the others stutter.
LEMMA OneAtATime ==
    ASSUME [Next]_vars
    PROVE  /\ [ValidationNext]_validationVars /\ [SteppedNext]_steppedVars
           /\ [HandNext]_handVars /\ [LoopNext]_loopVars /\ [LockNext]_lockVars
           /\ [RunnerNext]_runnerVars /\ [SlotsNext]_slotVars
           /\ [AgentsNext]_agentsVars /\ [FireNext]_fireVars /\ [AirNext]_airVars
           /\ UNCHANGED facility
  <1>1. CASE Next
    BY <1>1, Zenon DEF Next
  <1>2. CASE UNCHANGED vars
    BY <1>2, Zenon DEF vars
  <1> QED BY <1>1, <1>2

\* The invariants of all the facilities.
SupportInv ==
    /\ ValidationInv /\ CompletedIsBuildable /\ StepsInv /\ HInv /\ LInv /\ LockInv /\ KInv /\ SlotInv
    /\ AgentInv /\ FireInv /\ AirInv /\ DaysInOrder

\* They hold throughout.
THEOREM Inductive == Spec => []SupportInv
  <1>1. Init => SupportInv
    BY ValidationBegins, StepsBegin, HandsBegin, LoopsBegin, LockBegins, RunnersBegin,
       SlotsBegin, AgentsBegin, FireBegins, AirBegins, BuildableBegins, DaysBegin, Zenon
    DEF Init, SupportInv
  <1>2. SupportInv /\ [Next]_vars => SupportInv'
    BY OneAtATime, ValidationKept, StepsKept, HandsKept, LoopsKept, LockKept, RunnersKept,
       SlotsAreKept, AgentsKept, FireKept, AirKept, BuildableKept, DaysKept, Zenon
    DEF SupportInv
  <1> QED BY <1>1, <1>2, PTL DEF Spec

\* Whatever a facility does, its variables keep their types: the records, histories
\* and counters of validators, workflows, hand-offs, loops, locks, runners, slots
\* and agents stay what the code takes them for, and within their limits.
THEOREM SupportKeepsItsTypes == Spec => []SupportTypeOK
  <1>1. SupportInv => ValidationTypeOK /\ SteppedTypeOK /\ AgentsTypeOK /\ FireTypeOK /\ AirTypeOK
    BY ValidationTyped, StepsTold, AgentsTold, FireTold, AirTold, Zenon DEF SupportInv
  <1>2. SupportInv => HandTypeOK /\ LoopTypeOK /\ LockTypeOK /\ RunnerTypeOK /\ SlotsTypeOK
    BY LockTyped, Zenon DEF SupportInv, HInv, LInv, LockInv, KInv, SlotInv
  <1>3. SupportInv => SupportTypeOK
    BY <1>1, <1>2, Zenon DEF SupportTypeOK
  <1> QED BY <1>3, Inductive, PTL

\* However the hand-offs of one id interleave, the state manager's record of an id
\* that one hand-off has to itself says what that hand-off has done and answered.
THEOREM HandOffsKeptTracked == Spec => []HandOffsTracked
  <1>1. SupportInv => HandOffsTracked
    BY HandsRight DEF SupportInv
  <1> QED BY <1>1, Inductive, PTL

\* Whatever threads make, register and displace loops, those that the registry
\* knows are kept apart as LoopsKeptApart says.
THEOREM LoopsStayApart == Spec => []LoopsKeptApart
  <1>1. SupportInv => LoopsKeptApart
    BY DEF SupportInv, LInv
  <1> QED BY <1>1, Inductive, PTL

\* However many coroutines of however many threads take the lock, give up, are
\* cancelled or abandon what they have taken, threads exclude each other, the lock's
\* counters say who holds it and which writers wait, and its count of readers falls
\* short of those that wait by one for each that failed; and of however many updates
\* those in a slot are counted until another update of their agent leaves or the
\* agent is released by force, and none waits where nobody looks.
THEOREM AccountsStayKept == Spec => []AccountsKept
  <1>1. SupportInv => AccountsKept
    BY LockTyped DEF SupportInv, LockInv, LockAccounts, SlotInv, AccountsKept
  <1> QED BY <1>1, Inductive, PTL

\* Whatever fails while a runner is set up or shut down: its thread has ended or was
\* told to when it exits, and what is left running is at most the timer of a window
\* that failed before it had the thread, the queue of a window, and the queue of a
\* command line that failed before it had its debugger.
THEOREM StaysTakenDown == Spec => []TakenDown
  <1>1. SupportInv => TakenDown
    BY DEF SupportInv, KInv
  <1> QED BY <1>1, Inductive, PTL

\* However many calls run the workflows of a CLI, a window and other callers at
\* once, for every sequence of steps: what the records and the window tell of a
\* workflow that two calls were never at is what its steps have done; the window
\* shows success without outputs only if the workflow's entry was removed.
THEOREM StepsStayToldRight == Spec => []StepsToldRight
  <1>1. SupportInv => StepsToldRight
    BY StepsTold DEF SupportInv
  <1> QED BY <1>1, Inductive, PTL

\* However many operations of an agent overlap: what an operation that had the
\* agent to itself answers, and the state it leaves, is what its steps came to.
THEOREM AgentsStayTellingRight == Spec => []AgentsTellRight
  <1>1. SupportInv => AgentsTellRight
    BY AgentsTold DEF SupportInv
  <1> QED BY <1>1, Inductive, PTL

\* For guidelines and features with however many entries and words: a guideline that
\* exceeds has a cause and every architecture made of it scores LOW and leaves
\* nothing out; no part of a feature exceeds again, and each is simpler than a
\* feature that exceeds without its related features or is called by no counted word.
THEOREM FireStaysTellingRight == Spec => []FireTellsRight
  <1>1. SupportInv => FireTellsRight
    BY FireTold DEF SupportInv
  <1> QED BY <1>1, Inductive, PTL

\* Whatever the Air agent tracks and clears, no record is cleared before its days
\* are over.
THEOREM RecordsStayWhileYoung == Spec => []KeptWhileYoung
  <1>1. SupportInv => KeptWhileYoung
    BY AirTold DEF SupportInv
  <1> QED BY <1>1, Inductive, PTL

\* For any components, data flows and structures that agents may write: a validation
\* is completed only on components that have names and numbers of their own, can be
\* put in an order of development, and require what data flows from as far as they
\* say what they require.
THEOREM CompletedStaysBuildable == Spec => []CompletedIsBuildable
  <1>1. SupportInv => CompletedIsBuildable
    BY DEF SupportInv
  <1> QED BY <1>1, Inductive, PTL

\* What the workflows' steps, the agents of phase one, the Fire agent and the Air
\* agent tell is right: in the Air agent's case, that histories hold recent records
\* that were tracked, in falling order of days, all of them where they are few, and
\* that the advice out of them does not contradict itself.
THEOREM ToldStaysRight == Spec => []ToldRight
  <1>1. SupportInv => StepsToldRight /\ AgentsTellRight /\ FireTellsRight /\ AirTellsRight
    BY StepsTold, AgentsTold, FireTold, AirTellsAll, Zenon DEF SupportInv
  <1>2. SupportInv => ToldRight
    BY <1>1, Zenon DEF ToldRight
  <1> QED BY <1>2, Inductive, PTL
=============================================================================
