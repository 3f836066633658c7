----------------------------- MODULE EventQueue -----------------------------
(***************************************************************************)
(* resources/events/queue.py, class EventQueue.  Any thread emits into one *)
(* of three thread-safe queues (one per priority) or, for some event       *)
(* types, into a buffer that is flushed as one summary event.  A processor *)
(* thread runs two coroutines: bridges that move events from the thread    *)
(* queues to asyncio queues, and a processor that takes them out, batches  *)
(* normal events of one type, and calls the subscribers.                   *)
(* A step is what runs between two awaits of a coroutine, or one call of   *)
(* another thread under _queue_lock.                                       *)
(***************************************************************************)
EXTENDS Integers, Sequences, FiniteSets, SequencesExt

CONSTANTS
    Types,         \* event types
    Kinds,         \* the kinds of event the program emits: [type, priority]
    BatchedTypes,  \* the types that _should_batch_event buffers
    Subs,          \* subscriber callbacks
    Interests,     \* which callbacks the program registers for which types
    Capacity,      \* maxsize of the queues of a priority
    max_batch_size,
    max_retries,
    MaxEvents,     \* bound: events accepted
    MaxStops       \* bound: how often the queue is stopped

Priority == {"high", "normal", "low"}

ASSUME KindsAssumption ==
    /\ IsFiniteSet(Subs)
    /\ Kinds \subseteq [type : Types, priority : Priority]
    /\ BatchedTypes \subseteq Types
    /\ Interests \subseteq Subs \X Types
ASSUME BoundsAssumption ==
    /\ Capacity \in [Priority -> Nat \ {0}]
    /\ max_batch_size \in Nat \ {0}
    /\ max_retries \in Nat
    /\ MaxEvents \in Nat
    /\ MaxStops \in Nat

\* An event is known by its place in the order of acceptance.  What travels
\* in the queues is an event or the summary of a type's buffered events; no
\* callback subscribes to summaries, and all of them are represented by 0.
Events == 1..MaxEvents
Summary == 0
Items == 0..MaxEvents

VARIABLES
    accepted,    \* the kinds of the events for which emit() returned True
    subscribers, \* self._subscribers
    buffer,      \* self._batch_buffer
    threadQ,     \* the three queue.Queue
    hand,        \* the event a bridge has taken and not yet put
    asyncQ,      \* the three asyncio.Queue
    pc,          \* where the processor awaits
    after,       \* where it goes when the delivery ends
    batch,       \* the normal events carried to the next round of the loop
    current,     \* the events being delivered: one, or a batch of one type
    pending,     \* the subscribers (of a copy) still to be called
    attempt,     \* failed attempts of the call to Head(pending)
    phase,       \* "new", "running", "stopping" (stop() waits), "stopped"
    stops,       \* how often stop() was called
    handled,     \* history: how often each subscriber handled each event
    settled,     \* history: events whose delivery has ended, in order
    summarised,  \* history: buffered events replaced by a queued summary
    lost         \* history: accepted events that are dropped

intake    == <<accepted, buffer>>
processor == <<pc, after, batch, current, pending, attempt>>
control   == <<phase, stops, subscribers>>
history   == <<handled, settled, summarised, lost>>
vars == <<intake, threadQ, hand, asyncQ, processor, control, history>>

Accepted == DOMAIN accepted
TypeOf(e) == accepted[e].type
PriorityOf(e) == accepted[e].priority

Empty == [p \in Priority |-> <<>>]

Init ==
    /\ accepted = <<>> /\ buffer = {}
    /\ subscribers = [t \in Types |-> {}]
    /\ threadQ = Empty /\ hand = Empty /\ asyncQ = Empty
    /\ pc = "off" /\ after = "off"
    /\ batch = <<>> /\ current = <<>> /\ pending = <<>> /\ attempt = 0
    /\ phase = "new" /\ stops = 0
    /\ handled = [s \in Subs |-> [e \in Events |-> 0]]
    /\ settled = <<>> /\ summarised = {} /\ lost = {}

-----------------------------------------------------------------------------
(* Emitting.  An emit() that is throttled, is out of rate-limit tokens, or   *)
(* finds its queue full changes nothing here: it is a stuttering step.       *)

\* _flush_batches: one low-priority summary for each buffered type, in the
\* order in which the types arrived.  IF the queue is full THEN the summary
\* is dropped with its events.  The buffer is emptied either way.
Flush(events) ==
    LET arrived(t) == {e \in events : \A f \in events : accepted'[f].type = t => e <= f}
        rank(t) == Cardinality({accepted'[e].type : e \in arrived(t)})
        free == Capacity["low"] - Len(threadQ["low"])
        kept == {e \in events : rank(accepted'[e].type) <= free}
        summaries == [n \in 1..Cardinality({accepted'[e].type : e \in kept}) |-> Summary]
    IN  /\ threadQ' = [threadQ EXCEPT !["low"] = @ \o summaries]
        /\ summarised' = summarised \union kept
        /\ lost' = lost \union (events \ kept)
        /\ buffer' = {}

Accept(kind) ==
    /\ Len(accepted) < MaxEvents
    /\ accepted' = Append(accepted, kind)

\* _add_to_batch: buffered, and flushed IF the flush interval has passed.
EmitBuffered(kind) ==
    LET waiting == buffer \union {Len(accepted) + 1} IN
    /\ kind.type \in BatchedTypes
    /\ Accept(kind)
    /\ \/ Flush(waiting)
       \/ /\ buffer' = waiting
          /\ UNCHANGED <<threadQ, summarised, lost>>
    /\ UNCHANGED <<hand, asyncQ, processor, control, handled, settled>>

\* Mutant: one event too many fits.
EmitQueued_OneTooMany(kind) ==
    LET p == kind.priority IN
    /\ kind.type \notin BatchedTypes
    /\ Len(threadQ[p]) <= Capacity[p]
    /\ Accept(kind)
    /\ threadQ' = [threadQ EXCEPT ![p] = Append(@, Len(accepted'))]
    /\ UNCHANGED <<buffer, hand, asyncQ, processor, control, history>>

\* put_nowait into the thread-safe queue of the event's priority.
EmitQueued(kind) ==
    LET p == kind.priority IN
    /\ kind.type \notin BatchedTypes
    /\ Len(threadQ[p]) < Capacity[p]
    /\ Accept(kind)
    /\ threadQ' = [threadQ EXCEPT ![p] = Append(@, Len(accepted'))]
    /\ UNCHANGED <<buffer, hand, asyncQ, processor, control, history>>

-----------------------------------------------------------------------------
(* Bridging, a coroutine per priority.  get and put run without an await     *)
(* between them unless the asyncio queue is full; the bridge then holds the  *)
(* event until there is room.  A get that has begun when the stop event is   *)
(* set may still move an event.                                              *)

\* Mutant: a bridge takes the next event although it still holds one.
BridgeMove_Overtakes(p) ==
    /\ phase \in {"running", "stopping"}
    /\ threadQ[p] # <<>>
    /\ threadQ' = [threadQ EXCEPT ![p] = Tail(@)]
    /\ \/ /\ Len(asyncQ[p]) < Capacity[p]
          /\ asyncQ' = [asyncQ EXCEPT ![p] = Append(@, Head(threadQ[p]))]
          /\ UNCHANGED hand
       \/ /\ Len(asyncQ[p]) = Capacity[p] /\ hand[p] = <<>>
          /\ hand' = [hand EXCEPT ![p] = <<Head(threadQ[p])>>]
          /\ UNCHANGED asyncQ
    /\ UNCHANGED <<intake, processor, control, history>>

BridgeMove(p) ==
    /\ phase \in {"running", "stopping"}
    /\ threadQ[p] # <<>> /\ hand[p] = <<>>
    /\ threadQ' = [threadQ EXCEPT ![p] = Tail(@)]
    /\ IF Len(asyncQ[p]) < Capacity[p]
         THEN /\ asyncQ' = [asyncQ EXCEPT ![p] = Append(@, Head(threadQ[p]))]
              /\ UNCHANGED hand
         ELSE /\ hand' = [hand EXCEPT ![p] = <<Head(threadQ[p])>>]
              /\ UNCHANGED asyncQ
    /\ UNCHANGED <<intake, processor, control, history>>

BridgePut(p) ==
    /\ hand[p] # <<>> /\ Len(asyncQ[p]) < Capacity[p]
    /\ asyncQ' = [asyncQ EXCEPT ![p] = @ \o hand[p]]
    /\ hand' = [hand EXCEPT ![p] = <<>>]
    /\ UNCHANGED <<intake, threadQ, processor, control, history>>

-----------------------------------------------------------------------------
(* The loop of _process_events *)

\* Called by: a step that hands events to the subscribers.  The subscribers
\* are copied under the lock; a set has no order.
Deliver(events, next) ==
    LET e == Head(events)
        subs == IF e = Summary THEN {} ELSE subscribers[TypeOf(e)]
    IN  /\ current' = events
        /\ pending' \in SetToSeqs(subs)
        /\ attempt' = 0
        /\ pc' = "deliver"
        /\ after' = next

\* The event taken by a get whose timer fires before the processor resumes:
\* qasync_wait_for raises TimeoutError and the result is discarded.
Discard(p) ==
    /\ asyncQ[p] # <<>>
    /\ asyncQ' = [asyncQ EXCEPT ![p] = Tail(@)]
    /\ lost' = lost \union ({Head(asyncQ[p])} \ {Summary})

TimesOut(p) ==
    \/ asyncQ[p] = <<>> /\ UNCHANGED <<asyncQ, lost>>
    \/ Discard(p)

\* Mutant: the event of another type is taken out and not put back.
Fill_NoPutBack(b, q) ==
    LET same(n) == \A i \in 1..n : TypeOf(q[i]) = TypeOf(Head(b))
        n == CHOOSE n \in 0..Len(q) :
               /\ same(n) /\ Len(b) + n <= max_batch_size
               /\ n = Len(q) \/ Len(b) + n = max_batch_size \/ ~same(n + 1)
        rest == SubSeq(q, n + 1, Len(q))
    IN  [batch |-> b \o SubSeq(q, 1, n),
         queue |-> IF rest # <<>> /\ Len(b) + n < max_batch_size THEN Tail(rest) ELSE rest]

\* Fill a batch from the normal queue, without an await: the longest run of
\* the batch's type, up to max_batch_size.  A next event of another type was
\* taken out too and goes back at the end of the queue.
Fill(b, q) ==
    LET same(n) == \A i \in 1..n : TypeOf(q[i]) = TypeOf(Head(b))
        n == CHOOSE n \in 0..Len(q) :
               /\ same(n) /\ Len(b) + n <= max_batch_size
               /\ n = Len(q) \/ Len(b) + n = max_batch_size \/ ~same(n + 1)
        rest == SubSeq(q, n + 1, Len(q))
    IN  [batch |-> b \o SubSeq(q, 1, n),
         queue |-> IF rest # <<>> /\ Len(b) + n < max_batch_size
                     THEN Append(Tail(rest), Head(rest)) ELSE rest]

\* Mutant: the batch is not reset after its delivery.
ProcessBatch_KeepsBatch(b, q) ==
    LET filled == Fill(b, q) IN
    /\ batch' = SubSeq(b, 1, 1)
    /\ asyncQ' = [asyncQ EXCEPT !["normal"] = filled.queue]
    /\ Deliver(filled.batch, "second")

ProcessBatch(b, q) ==
    LET filled == Fill(b, q) IN
    /\ batch' = <<>>
    /\ asyncQ' = [asyncQ EXCEPT !["normal"] = filled.queue]
    /\ Deliver(filled.batch, "second")

\* IF the stop event is set at the top of the loop THEN the loop ends.
Round == IF phase = "running" THEN "high" ELSE "ended"

\* A high-priority event is delivered at once.
HighGet ==
    /\ pc = "high"
    /\ asyncQ["high"] # <<>>
    /\ asyncQ' = [asyncQ EXCEPT !["high"] = Tail(@)]
    /\ Deliver(<<Head(asyncQ["high"])>>, "high")
    /\ UNCHANGED <<intake, threadQ, hand, batch, control, history>>

\* IF no high-priority event came AND a batch is carried THEN it is filled up
\* and delivered ELSE the processor waits for a normal event.
HighTimeout ==
    /\ pc = "high"
    /\ TimesOut("high")
    /\ batch = <<>>
    /\ pc' = "normal"
    /\ UNCHANGED <<intake, threadQ, hand, after, batch, current, pending, attempt,
                   control, handled, settled, summarised>>

\* Mutant: a carried batch waits for an event to fill it up.
CarriedBatch_Waits ==
    /\ pc = "high"
    /\ batch # <<>>
    /\ asyncQ["high"] = <<>> /\ asyncQ["normal"] # <<>>
    /\ ProcessBatch(batch, asyncQ["normal"])
    /\ UNCHANGED <<intake, threadQ, hand, control, history>>

CarriedBatch ==
    /\ pc = "high"
    /\ batch # <<>>
    /\ \/ /\ asyncQ["high"] = <<>>
          /\ ProcessBatch(batch, asyncQ["normal"])
          /\ UNCHANGED lost
       \/ /\ asyncQ["high"] # <<>>
          /\ LET filled == Fill(batch, asyncQ["normal"]) IN
             /\ batch' = <<>>
             /\ asyncQ' = [asyncQ EXCEPT !["normal"] = filled.queue, !["high"] = Tail(@)]
             /\ lost' = lost \union ({Head(asyncQ["high"])} \ {Summary})
             /\ Deliver(filled.batch, "second")
    /\ UNCHANGED <<intake, threadQ, hand, control, handled, settled, summarised>>

NormalGet ==
    /\ pc = "normal"
    /\ asyncQ["normal"] # <<>>
    /\ ProcessBatch(<<Head(asyncQ["normal"])>>, Tail(asyncQ["normal"]))
    /\ UNCHANGED <<intake, threadQ, hand, control, history>>

NormalTimeout ==
    /\ pc = "normal"
    /\ TimesOut("normal")
    /\ pc' = "second"
    /\ UNCHANGED <<intake, threadQ, hand, after, batch, current, pending, attempt,
                   control, handled, settled, summarised>>

\* The second get of a normal event starts a batch that is carried over the
\* top of the loop.
SecondGet ==
    /\ pc = "second"
    /\ asyncQ["normal"] # <<>>
    /\ batch' = <<Head(asyncQ["normal"])>>
    /\ asyncQ' = [asyncQ EXCEPT !["normal"] = Tail(@)]
    /\ pc' = Round
    /\ UNCHANGED <<intake, threadQ, hand, after, current, pending, attempt, control, history>>

SecondTimeout ==
    /\ pc = "second"
    /\ TimesOut("normal")
    /\ pc' = "low"
    /\ UNCHANGED <<intake, threadQ, hand, after, batch, current, pending, attempt,
                   control, handled, settled, summarised>>

LowGet ==
    /\ pc = "low"
    /\ asyncQ["low"] # <<>>
    /\ asyncQ' = [asyncQ EXCEPT !["low"] = Tail(@)]
    /\ Deliver(<<Head(asyncQ["low"])>>, "high")
    /\ UNCHANGED <<intake, threadQ, hand, batch, control, history>>

LowTimeout ==
    /\ pc = "low"
    /\ TimesOut("low")
    /\ pc' = Round
    /\ UNCHANGED <<intake, threadQ, hand, after, batch, current, pending, attempt,
                   control, handled, settled, summarised>>

-----------------------------------------------------------------------------
(* Delivery: _process_single_event, _process_event_batch, _deliver_event *)

CallSucceeds ==
    /\ pc = "deliver" /\ pending # <<>>
    /\ handled' = [handled EXCEPT ![Head(pending)] =
                     [e \in Events |-> @[e] + (IF e \in ToSet(current) THEN 1 ELSE 0)]]
    /\ pending' = Tail(pending) /\ attempt' = 0
    /\ UNCHANGED <<intake, threadQ, hand, asyncQ, pc, after, batch, current, control,
                   settled, summarised, lost>>

\* The callback raises.  A single event is tried again after a backoff, up to
\* max_retries times; a batch is not.
CallFails ==
    /\ pc = "deliver" /\ pending # <<>>
    /\ IF Len(current) = 1 /\ attempt < max_retries
         THEN attempt' = attempt + 1 /\ UNCHANGED pending
         ELSE attempt' = 0 /\ pending' = Tail(pending)
    /\ UNCHANGED <<intake, threadQ, hand, asyncQ, pc, after, batch, current, control, history>>

\* A summary is delivered alone; it is no event of its own.
DeliveryEnds ==
    /\ pc = "deliver" /\ pending = <<>>
    /\ settled' = IF current = <<Summary>> THEN settled ELSE settled \o current
    /\ current' = <<>>
    /\ pc' = IF after = "high" THEN Round ELSE after
    /\ UNCHANGED <<intake, threadQ, hand, asyncQ, after, batch, pending, attempt, control,
                   handled, summarised, lost>>

-----------------------------------------------------------------------------
(* Starting, stopping, subscribing *)

\* start(): new asyncio queues and a new processor thread.
Start ==
    /\ phase \in {"new", "stopped"}
    /\ phase' = "running"
    /\ pc' = "high"
    /\ UNCHANGED <<intake, threadQ, hand, asyncQ, after, batch, current, pending, attempt,
                   stops, subscribers, history>>

\* stop(): the buffer is flushed, the stop event set, and the caller waits.
Stop ==
    /\ phase = "running"
    /\ stops < MaxStops
    /\ stops' = stops + 1
    /\ phase' = "stopping"
    /\ UNCHANGED accepted
    /\ Flush(buffer)
    /\ UNCHANGED <<hand, asyncQ, processor, subscribers, handled, settled>>

\* The loop ended with a carried batch.
FinalBatch ==
    /\ pc = "ended" /\ batch # <<>>
    /\ batch' = <<>>
    /\ Deliver(batch, "ended")
    /\ UNCHANGED <<intake, threadQ, hand, asyncQ, control, history>>

\* The processor thread cancels its tasks at whatever await they are in, and
\* ends: what they held and what the asyncio queues hold is gone.  stop()
\* then forgets the subscribers.
ThreadEnds ==
    LET held == ToSet(batch) \union ToSet(current)
                  \union UNION {ToSet(hand[p]) \union ToSet(asyncQ[p]) : p \in Priority}
    IN
    /\ phase = "stopping"
    /\ lost' = lost \union (held \ {Summary})
    /\ hand' = Empty /\ asyncQ' = Empty
    /\ batch' = <<>> /\ current' = <<>> /\ pending' = <<>> /\ attempt' = 0
    /\ pc' = "off" /\ after' = "off"
    /\ subscribers' = [t \in Types |-> {}]
    /\ phase' = "stopped"
    /\ UNCHANGED <<intake, threadQ, stops, handled, settled, summarised>>

Subscribe(s, t) ==
    /\ <<s, t>> \in Interests
    /\ s \notin subscribers[t]
    /\ subscribers' = [subscribers EXCEPT ![t] = @ \union {s}]
    /\ UNCHANGED <<intake, threadQ, hand, asyncQ, processor, phase, stops, history>>

Unsubscribe(s, t) ==
    /\ s \in subscribers[t]
    /\ subscribers' = [subscribers EXCEPT ![t] = @ \ {s}]
    /\ UNCHANGED <<intake, threadQ, hand, asyncQ, processor, phase, stops, history>>

-----------------------------------------------------------------------------
Emit(kind) == EmitBuffered(kind) \/ EmitQueued(kind)

Bridge(p) == BridgeMove(p) \/ BridgePut(p)

Process ==
    \/ HighGet \/ HighTimeout \/ CarriedBatch
    \/ NormalGet \/ NormalTimeout \/ SecondGet \/ SecondTimeout
    \/ LowGet \/ LowTimeout
    \/ CallSucceeds \/ CallFails \/ DeliveryEnds
    \/ FinalBatch

Next ==
    \/ \E kind \in Kinds : Emit(kind)
    \/ \E p \in Priority : Bridge(p)
    \/ Process
    \/ Start \/ Stop \/ ThreadEnds
    \/ \E s \in Subs, t \in Types : Subscribe(s, t) \/ Unsubscribe(s, t)

Spec == Init /\ [][Next]_vars

\* The processor thread keeps running its coroutines, and callbacks return.
FairSpec ==
    /\ Spec
    /\ \A p \in Priority : WF_vars(Bridge(p))
    /\ WF_vars(Process)

-----------------------------------------------------------------------------
(* Properties *)

\* Every variable keeps its type and the queues their capacities.
TypeOK ==
    /\ accepted \in Seq(Kinds) /\ Len(accepted) <= MaxEvents
    /\ buffer \subseteq Events
    /\ threadQ \in [Priority -> Seq(Items)] /\ asyncQ \in [Priority -> Seq(Items)]
    /\ hand \in [Priority -> Seq(Items)]
    /\ \A p \in Priority :
         Len(threadQ[p]) <= Capacity[p] /\ Len(asyncQ[p]) <= Capacity[p] /\ Len(hand[p]) <= 1
    /\ pc \in {"off", "high", "normal", "second", "low", "deliver", "ended"}
    /\ after \in {"off", "high", "second", "ended"}
    /\ batch \in Seq(Events) /\ Len(batch) <= 1
    /\ current \in Seq(Items) /\ Len(current) <= max_batch_size
    /\ pending \in Seq(Subs)
    /\ attempt \in 0..max_retries
    /\ phase \in {"new", "running", "stopping", "stopped"}
    /\ stops \in 0..MaxStops
    /\ subscribers \in [Types -> SUBSET Subs]
    /\ handled \in [Subs -> [Events -> Nat]]
    /\ settled \in Seq(Events)
    /\ summarised \subseteq Events /\ lost \subseteq Events

\* How often an event occurs in a sequence, in a set, and in all it travels
\* through.
Count(s, e) == Cardinality({i \in DOMAIN s : s[i] = e})
Member(S, e) == IF e \in S THEN 1 ELSE 0

Queued(p, e) == Count(threadQ[p], e) + Count(hand[p], e) + Count(asyncQ[p], e)
Processed(e) == Count(batch, e) + Count(current, e) + Count(settled, e)
Apart(e) == Member(buffer, e) + Member(summarised, e) + Member(lost, e)

Occurrences(e) ==
    Queued("high", e) + Queued("normal", e) + Queued("low", e) + Processed(e) + Apart(e)

\* An accepted event is in exactly one place, once: on its way, delivered,
\* folded into a summary, or dropped for one of the reasons lost records.
\* The put-back of the batch filler, the carried batch, a bridge that waits
\* for room and the restart are what could break it.
ExactlyOnePlace ==
    \A e \in Events : Occurrences(e) = (IF e \in Accepted THEN 1 ELSE 0)

\* Retries, batches and restarts never make a callback handle an event twice.
HandledAtMostOnce ==
    \A s \in Subs, e \in Events : handled[s][e] <= 1

\* High- and low-priority events are delivered in the order in which emit()
\* accepted them.  (Normal ones are not: the batch filler reorders them.)
PriorityFifo ==
    \A i, j \in 1..Len(settled) :
        /\ i < j
        /\ PriorityOf(settled[i]) = PriorityOf(settled[j])
        /\ PriorityOf(settled[i]) # "normal"
        => settled[i] < settled[j]

\* A handler called with a batch gets events of one type only: the type is
\* remembered apart from the batch, across timeouts and rounds of the loop.
OneTypePerBatch ==
    \A i, j \in 1..Len(current) : i < j => TypeOf(current[i]) = TypeOf(current[j])

\* Events come to the handlers in the order, and in the batches, that they belong to.
HandedOverInOrder == PriorityFifo /\ OneTypePerBatch

\* An event came into a queue of the processor's.
Arrival == \E kind \in Kinds : EmitQueued(kind)

\* While the queue runs and no more events arrive, those it has accepted are
\* delivered or dropped: no event waits for another one to come.  (An event
\* may wait as long as others keep arriving: the loop goes back to the high
\* ones after each of them, and the batch filler puts a normal event behind
\* the later ones of another type.)
NeverStuck ==
    \A e \in Events :
        \/ []<><<Arrival>>_vars
        \/ (e \in Accepted \ buffer)
             ~> (e \in ToSet(settled) \union lost \union summarised \/ phase # "running")

\* The module promises "reliable delivery", and tests/async/
\* test_thread_safety.py says "each event should be received by all 3
\* handlers".  For a queue that is not stopped, this needs that the delivery
\* of an accepted event takes place.
EachEventDelivered ==
    \A e \in Events :
        (e \in Accepted /\ TypeOf(e) \notin BatchedTypes /\ phase = "running")
          ~> (e \in ToSet(settled) \/ phase # "running")
=============================================================================
