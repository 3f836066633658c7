------------------------------- MODULE HandOffs -------------------------------
(***************************************************************************)
(* Hand-offs between two agents of phase one                               *)
(* (phase_one/validation/coordination.py SequentialAgentCoordinator): the  *)
(* first agent's output goes through the Water agent before the second     *)
(* agent sees it (preventive), or both outputs do afterwards               *)
(* (interactive).  The outputs are dicts.  Hand-offs are coroutines that   *)
(* share one coordinator and the records of the state manager; an action   *)
(* is what runs between two awaits.  The Water agent is the environment:   *)
(* WaterCoordination says what it does.                                    *)
(***************************************************************************)
EXTENDS Naturals, FiniteSets

CONSTANTS
    HandOffSlots,  \* hand-offs that may run at a time
    HandOffIds     \* operation ids

VARIABLES
    tracking,  \* id -> status of its record in the state manager
    attempt,   \* the ids with a record of their first attempt
    coordination_history,  \* the hand-offs the coordinator remembers
    handing,   \* hand-off -> where it is
    hand,      \* hand-off -> what it knows
    broken     \* ids of which a hand-off ended with an exception

handVars == <<tracking, attempt, coordination_history, handing, hand, broken>>

Modes == {"preventive", "interactive"}
Failures == {"timeout", "error"}
HandAnswers == {"no_misunderstandings", "coordination_applied"} \cup Failures
Guarded == {"analyzing", "noting", "finishing", "reporting"}  \* inside the try
Unguarded == {"starting", "announcing", "failing", "deploring"}
Busy == Guarded \cup Unguarded

\* An output: as the caller gave it, as the Water agent changed it, or the text
\* into which the given dict was made.
OutputForms == {"given", "changed", "text"}

NoHand == [id |-> "none", mode |-> "preventive", answer |-> "none",
           first |-> "given", second |-> "given", alone |-> TRUE]

HandInit ==
    /\ tracking = [i \in HandOffIds |-> "absent"]
    /\ attempt = {} /\ coordination_history = {} /\ broken = {}
    /\ handing = [h \in HandOffSlots |-> "idle"]
    /\ hand = [h \in HandOffSlots |-> NoHand]

Turns(h, place) == handing' = [handing EXCEPT ![h] = place]
Tracks(h, status) == tracking' = [tracking EXCEPT ![hand[h].id] = status]

Outcome(answer) == IF answer \in Failures THEN answer ELSE "completed"

-----------------------------------------------------------------------------
\* Mutants: mistakes the properties must reject.  No run uses them as they
\* stand; each is put in the place of the definition it is named after.

\* Mutant: without misunderstandings the record is left as it is.
NothingFound_Untracked(h) ==
    /\ hand' = [hand EXCEPT ![h].answer = "no_misunderstandings"]
    /\ Turns(h, "reporting")
    /\ UNCHANGED <<attempt, coordination_history>>

-----------------------------------------------------------------------------
\* coordinate_agent_handoff, coordinate_interactive_handoff: the coordinator
\* forgets what it remembered, of other hand-offs too.
Begin(h, id, mode) ==
    /\ handing[h] = "idle" /\ Turns(h, "starting")
    /\ coordination_history' = {}
    /\ LET others == {g \in HandOffSlots \ {h} :
                          handing[g] \in Busy /\ hand[g].id = id}
       IN  hand' = [g \in HandOffSlots |->
               IF g = h THEN [NoHand EXCEPT !.id = id, !.mode = mode,
                                            !.alone = (others = {})]
               ELSE IF g \in others \/ hand[g].id = id
               THEN [hand[g] EXCEPT !.alone = FALSE] ELSE hand[g]]
    /\ UNCHANGED <<tracking, attempt, broken>>

Started(h) ==
    /\ handing[h] = "starting" /\ Turns(h, "announcing")
    /\ Tracks(h, "in_progress")
    /\ UNCHANGED <<attempt, coordination_history, hand, broken>>

Announced(h) ==
    /\ handing[h] = "announcing" /\ Turns(h, "analyzing")
    /\ UNCHANGED <<tracking, attempt, coordination_history, hand, broken>>

\* The Water agent found no misunderstandings: the outputs stay as they are.
NothingFound(h) ==
    /\ hand' = [hand EXCEPT ![h].answer = "no_misunderstandings"]
    /\ Turns(h, "finishing")
    /\ UNCHANGED <<attempt, coordination_history>>

\* It found some and may have changed an output.  What comes back is a text: a
\* changed one is made a dict again, one that did not change is only kept as a
\* dict before the second agent ran.
Returned(mode) ==
    {"changed", IF mode = "preventive" THEN "given" ELSE "text"}

Applied(h) ==
    /\ \E first \in Returned(hand[h].mode), second \in Returned(hand[h].mode) :
          hand' = [hand EXCEPT ![h].answer = "coordination_applied",
                               ![h].first = first,
                               ![h].second = IF @ = "given" /\ hand[h].mode = "preventive"
                                             THEN @ ELSE second]
    /\ coordination_history' = coordination_history \cup {h}
    /\ Turns(h, "noting")
    /\ UNCHANGED attempt

Analyzed(h) ==
    /\ handing[h] = "analyzing"
    /\ NothingFound(h) \/ Applied(h)
    /\ UNCHANGED <<tracking, broken>>

\* The record of the attempt, then the record of the hand-off, then the event.
Noted(h) ==
    /\ handing[h] = "noting" /\ Turns(h, "finishing")
    /\ attempt' = attempt \cup {hand[h].id}
    /\ UNCHANGED <<tracking, coordination_history, hand, broken>>

Finished(h) ==
    /\ handing[h] = "finishing" /\ Turns(h, "reporting")
    /\ Tracks(h, "completed")
    /\ UNCHANGED <<attempt, coordination_history, hand, broken>>

Reported(h) ==
    /\ handing[h] \in {"reporting", "deploring"} /\ Turns(h, "done")
    /\ UNCHANGED <<tracking, attempt, coordination_history, hand, broken>>

\* The Water agent, a write or the event times out or raises.  Before the second
\* agent ran, the answer is the first output as it is by then.
HandFails(h) ==
    /\ handing[h] \in Guarded /\ Turns(h, "failing")
    /\ \E f \in Failures :
          hand' = [hand EXCEPT
              ![h].answer = f,
              ![h].first = IF hand[h].mode = "interactive" THEN "given" ELSE @,
              ![h].second = "given"]
    /\ UNCHANGED <<tracking, attempt, coordination_history, broken>>

FailureTracked(h) ==
    /\ handing[h] = "failing" /\ Turns(h, "deploring")
    /\ Tracks(h, hand[h].answer)
    /\ UNCHANGED <<attempt, coordination_history, hand, broken>>

\* A write or an event outside the try raises, or the caller is cancelled.
Breaks(h) ==
    /\ handing[h] \in Busy /\ Turns(h, "idle")
    /\ hand' = [hand EXCEPT ![h] = NoHand]
    /\ broken' = broken \cup {hand[h].id}
    /\ UNCHANGED <<tracking, attempt, coordination_history>>

HandTaken(h) ==
    /\ handing[h] = "done" /\ Turns(h, "idle")
    /\ hand' = [hand EXCEPT ![h] = NoHand]
    /\ UNCHANGED <<tracking, attempt, coordination_history, broken>>

HandNext ==
    \E h \in HandOffSlots :
        \/ \E id \in HandOffIds, mode \in Modes : Begin(h, id, mode)
        \/ Started(h) \/ Announced(h) \/ Analyzed(h) \/ Noted(h) \/ Finished(h)
        \/ Reported(h) \/ HandFails(h) \/ FailureTracked(h) \/ Breaks(h) \/ HandTaken(h)

HandSpec == HandInit /\ [][HandNext]_handVars

-----------------------------------------------------------------------------
\* The types of the variables.
HandTypeOK ==
    /\ tracking \in [HandOffIds -> {"absent", "in_progress", "completed"} \cup Failures]
    /\ attempt \subseteq HandOffIds /\ broken \subseteq HandOffIds
    /\ coordination_history \subseteq HandOffSlots
    /\ handing \in [HandOffSlots -> Busy \cup {"idle", "done"}]
    /\ hand \in [HandOffSlots ->
           [id : HandOffIds \cup {"none"}, mode : Modes, answer : HandAnswers \cup {"none"},
            first : OutputForms, second : OutputForms, alone : BOOLEAN]]

\* No hand-off is left behind: a record says "in_progress" only while a hand-off
\* of its id is at work, unless one ended with an exception; and an answer that a
\* caller gets is the one in the record, when no other hand-off had the same id.
HandOffsTracked ==
    /\ \A i \in HandOffIds :
          tracking[i] = "in_progress" /\ i \notin broken =>
              \E h \in HandOffSlots : handing[h] \in Busy /\ hand[h].id = i
    /\ \A h \in HandOffSlots :
          handing[h] = "done" /\ hand[h].alone =>
              tracking[hand[h].id] = Outcome(hand[h].answer)

\* What coordination.py says of a failed hand-off: "Return the original output
\* with error status".
OriginalOnFailure ==
    \A h \in HandOffSlots :
        handing[h] = "done" /\ hand[h].answer \in Failures => hand[h].first = "given"

\* What its signatures say of every answer: the outputs are dicts.
OutputsAreDicts ==
    \A h \in HandOffSlots :
        handing[h] = "done" => hand[h].first # "text" /\ hand[h].second # "text"
=============================================================================
