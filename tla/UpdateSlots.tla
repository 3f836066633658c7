----------------------------- MODULE UpdateSlots -----------------------------
(***************************************************************************)
(* The slots in which phase one's agents update their state                *)
(* (phase_one/coordination/agent_coordinator.py AgentUpdateCoordinator and *)
(* ReflectiveAgent.set_agent_state in phase_one/agents/base.py).           *)
(*                                                                         *)
(* The agents are coroutines of one loop.  No section under the            *)
(* coordinator's lock awaits anything, so the lock is never contended and  *)
(* taking it never yields: what lies between two real awaits, the check of *)
(* the limits and the registration that follows it, is one action.         *)
(***************************************************************************)
EXTENDS Naturals, FiniteSets

CONSTANTS
    Updates,      \* slots for calls of set_agent_state
    SlotAgents,   \* agents
    priority_of,  \* agent -> its priority
    max_concurrent_updates,
    max_high_priority_updates,
    MaxUpdates,   \* bound on the updates begun
    MaxForced     \* bound on the records taken away by force

Priorities == {"LOW", "NORMAL", "HIGH", "CRITICAL"}

ASSUME PriorityAssumption == SlotAgents # {} /\ priority_of \in [SlotAgents -> Priorities]
ASSUME SlotLimitAssumption ==
    max_concurrent_updates \in Nat \ {0} /\ max_high_priority_updates \in Nat \ {0}

VARIABLES
    active_updates,   \* agents with a record in _active_updates
    waiting_updates,  \* agents with an event in _waiting_updates
    raised,           \* those of them whose event is set
    update,           \* what each update is doing
    peak_concurrent,  \* as the statistics have it
    recordless,       \* updates in a slot whose record was taken away
    asked,            \* updates begun
    forced            \* records taken away by force

slotVars == <<active_updates, waiting_updates, raised, update, peak_concurrent,
              recordless, asked, forced>>

UpdateSteps == {"idle", "waiting", "woken", "holding", "again"}

NoUpdate == [agent |-> CHOOSE a \in SlotAgents : TRUE, at |-> "idle", orphan |-> FALSE]

SlotInit ==
    /\ active_updates = {} /\ waiting_updates = {} /\ raised = {}
    /\ update = [u \in Updates |-> NoUpdate]
    /\ peak_concurrent = 0 /\ recordless = {} /\ asked = 0 /\ forced = 0

UpdatesAt(step) == {u \in Updates : update[u].at = step}
HoldersOf(a) == {u \in UpdatesAt("holding") : update[u].agent = a}
HighAmong(A) == {a \in A : priority_of[a] \in {"HIGH", "CRITICAL"}}

\* The limits, by priority.
SlotAvailable(a) ==
    /\ Cardinality(active_updates) < max_concurrent_updates
    /\ CASE priority_of[a] = "CRITICAL" -> TRUE
         [] priority_of[a] = "HIGH" ->
              Cardinality(HighAmong(active_updates)) < max_high_priority_updates
         [] OTHER -> HighAmong(active_updates) = {}

Larger(m, n) == IF m > n THEN m ELSE n

-----------------------------------------------------------------------------
\* Mutants: mistakes the properties must reject.  No run uses them as they
\* stand; each is put in the place of the definition it is named after.

\* Mutant: an update that was cancelled or failed leaves its record.
Unregister_OnSuccess(u, ok) ==
    active_updates' = IF ok THEN active_updates \ {update[u].agent} ELSE active_updates

-----------------------------------------------------------------------------
\* There is a slot, and the record is written: one record for each agent.
RegisterUpdate(u, a) ==
    /\ active_updates' = active_updates \cup {a}
    /\ peak_concurrent' = Larger(peak_concurrent, Cardinality(active_updates'))
    /\ update' = [update EXCEPT ![u] = [agent |-> a, at |-> "holding", orphan |-> FALSE]]
    /\ UNCHANGED waiting_updates

\* There is none: the agent's event is awaited, and made if it has none.  One
\* that is still set lets the wait end at once.
AwaitSlot(u, a, set) ==
    /\ waiting_updates' = waiting_updates \cup {a}
    /\ update' = [update EXCEPT ![u] =
          [agent |-> a, at |-> IF a \in set THEN "woken" ELSE "waiting", orphan |-> FALSE]]
    /\ UNCHANGED <<active_updates, peak_concurrent>>

\* A turn of the loop of _wait_for_slot, with the events that are set.
TryFor(u, a, set) ==
    /\ raised' = set
    /\ IF SlotAvailable(a) THEN RegisterUpdate(u, a) ELSE AwaitSlot(u, a, set)
    /\ UNCHANGED <<recordless, forced>>

\* set_agent_state for a state that the agent is not in.
BeginUpdate(u, a) ==
    /\ update[u].at = "idle" /\ asked < MaxUpdates /\ asked' = asked + 1
    /\ TryFor(u, a, raised)

\* The wait ends: the event is cleared, whoever else shares it, and the limits
\* are looked at again.  An event that was taken out of the table is nobody's.
Wakes(u) ==
    /\ update[u].at = "woken"
    /\ TryFor(u, update[u].agent,
              IF update[u].orphan THEN raised ELSE raised \ {update[u].agent})
    /\ UNCHANGED asked

\* Five seconds without a word.
WaitExpires(u) ==
    /\ update[u].at = "waiting" /\ TryFor(u, update[u].agent, raised)
    /\ UNCHANGED asked

\* Every event in the table is set.
Notified(events, upd) ==
    [u \in Updates |->
        IF upd[u].at = "waiting" /\ upd[u].agent \in events /\ ~upd[u].orphan
          THEN [upd[u] EXCEPT !.at = "woken"] ELSE upd[u]]

\* The record goes, if there is still one of that agent.
Unregister(u, ok) == active_updates' = active_updates \ {update[u].agent}

\* The update ends, well or not; a failure is tried again without a slot, a
\* cancellation is not.  The record is the agent's: another update of the agent
\* that is in a slot loses it.
LeaveSlot(u, ok, next) ==
    /\ update[u].at = "holding" /\ Unregister(u, ok)
    /\ update' = Notified(waiting_updates, [update EXCEPT ![u] = next])
    /\ raised' = waiting_updates
    /\ recordless' = (recordless \cup HoldersOf(update[u].agent)) \ {u}
    /\ UNCHANGED <<waiting_updates, peak_concurrent, asked, forced>>

Updated(u) == LeaveSlot(u, TRUE, NoUpdate)
UpdateFails(u) == LeaveSlot(u, FALSE, [update[u] EXCEPT !.at = "again"])

\* The fall-back, which succeeds or raises.
TriedAgain(u) ==
    /\ update[u].at = "again" /\ update' = [update EXCEPT ![u] = NoUpdate]
    /\ UNCHANGED <<active_updates, waiting_updates, raised, peak_concurrent, recordless, asked, forced>>

\* The caller is cancelled; a waiting update leaves no trace but the event.
UpdateCancelled(u) ==
    \/ LeaveSlot(u, FALSE, NoUpdate)
    \/ /\ update[u].at \in {"waiting", "woken", "again"}
       /\ update' = [update EXCEPT ![u] = NoUpdate]
       /\ UNCHANGED <<active_updates, waiting_updates, raised, peak_concurrent, recordless,
                      asked, forced>>

\* force_release_agent, also for each agent that cleanup_stale_updates finds
\* too old: record and event go, and an update in its slot or at its event
\* does not hear of it.
ForceRelease(a) ==
    /\ forced < MaxForced /\ forced' = forced + 1
    /\ active_updates' = active_updates \ {a}
    /\ waiting_updates' = waiting_updates \ {a}
    /\ raised' = waiting_updates \ {a}
    /\ update' = Notified(waiting_updates \ {a},
          [u \in Updates |-> [update[u] EXCEPT
              !.orphan = @ \/ (update[u].agent = a /\ update[u].at \in {"waiting", "woken"})]])
    /\ recordless' = recordless \cup HoldersOf(a)
    /\ UNCHANGED <<peak_concurrent, asked>>

SlotsNext ==
    \/ \E u \in Updates, a \in SlotAgents : BeginUpdate(u, a)
    \/ \E u \in Updates : Wakes(u) \/ WaitExpires(u) \/ Updated(u) \/ UpdateFails(u)
                          \/ TriedAgain(u) \/ UpdateCancelled(u)
    \/ \E a \in SlotAgents : ForceRelease(a)

-----------------------------------------------------------------------------
\* Every variable has its type.
SlotsTypeOK ==
    /\ active_updates \subseteq SlotAgents
    /\ waiting_updates \subseteq SlotAgents /\ raised \subseteq waiting_updates
    /\ update \in [Updates -> [agent : SlotAgents, at : UpdateSteps, orphan : BOOLEAN]]
    /\ peak_concurrent \in Nat /\ recordless \subseteq UpdatesAt("holding")
    /\ asked \in Nat /\ forced \in Nat

\* No record outlives the update it stands for, however the update ended: a
\* record that did would take a slot from every agent for ever.
NoPhantomUpdate == \A a \in active_updates : HoldersOf(a) \ recordless # {}

\* An update in its slot is counted until another update of its agent leaves a slot
\* or its agent is released by force, and never for that agent's other updates that
\* come later: records are kept by agent, and the first to leave takes the others'.
HeldIsCounted == \A u \in UpdatesAt("holding") \ recordless : update[u].agent \in active_updates

\* The coordinator never has more agents in slots than it may, nor more of
\* high priority unless one of them is critical.
WithinLimits ==
    /\ peak_concurrent <= max_concurrent_updates
    /\ Cardinality(HighAmong(active_updates)) > max_high_priority_updates =>
           \E a \in active_updates : priority_of[a] = "CRITICAL"

\* An update that waits will hear of it when a slot falls free: its event is
\* in the table, unless it was taken out by force.
WaitersAreListed ==
    \A u \in UpdatesAt("waiting") : update[u].orphan \/ update[u].agent \in waiting_updates \ raised

\* Slots are counted right and nobody waits unheard.
SlotsKept == NoPhantomUpdate /\ HeldIsCounted /\ WithinLimits /\ WaitersAreListed
=============================================================================
