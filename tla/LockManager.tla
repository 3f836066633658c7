----------------------------- MODULE LockManager -----------------------------
(***************************************************************************)
(* The read/write lock of resources/base.py (PrioritizedLockManager).  One  *)
(* threading.RLock, _write_lock, stands behind both kinds: a writer holds   *)
(* it, and so does the first reader for all of them.  It is tried without   *)
(* blocking and with a sleep between the tries; it belongs to a thread, so  *)
(* that coroutines of one thread get it all at once and only threads        *)
(* exclude each other.  An action is what runs between two awaits.          *)
(***************************************************************************)
EXTENDS Integers, FiniteSets

CONSTANTS
    Acquirers,        \* the coroutines that take the lock, until they do not get it
    LockThreads,      \* the threads they run in
    NoThread,         \* no thread: the RLock is free
    writer_priority   \* the manager's option

ASSUME LockAssumption == IsFiniteSet(Acquirers) /\ NoThread \notin LockThreads

VARIABLES
    owner,          \* the thread that holds the RLock
    depth,          \* how many times it holds it
    read_count,
    write_waiting,
    read_waiting,
    acquirer,       \* coroutine -> where it is and what it asks for
    abandoned       \* coroutines that hold what they were told they did not get
                    \* (held), writers that were cancelled while they were counted
                    \* as waiting (counted), and readers that failed (doubled)

lockVars == <<owner, depth, read_count, write_waiting, read_waiting, acquirer, abandoned>>

Idle(t) == [at |-> "idle", thread |-> t, kind |-> "read", timed |-> FALSE]

LockInit ==
    /\ owner = NoThread /\ depth = 0 /\ read_count = 0
    /\ write_waiting = 0 /\ read_waiting = 0
    /\ acquirer \in {[a \in Acquirers |-> Idle(f[a])] : f \in [Acquirers -> LockThreads]}
    /\ abandoned = [held |-> {}, counted |-> {}, doubled |-> {}]

At(a, place) == acquirer[a].at = place
Goes(a, place) == acquirer' = [acquirer EXCEPT ![a].at = place]

\* threading.RLock: acquired again by its owner, freed by as many releases.
Free(t) == owner \in {NoThread, t}
Takes(t) == owner' = t /\ depth' = depth + 1
Releases ==
    /\ depth' = depth - 1
    /\ owner' = IF depth = 1 THEN NoThread ELSE owner

-----------------------------------------------------------------------------
\* Mutants: mistakes the properties must reject.  No run uses them as they
\* stand; each is put in the place of the definition it is named after.

\* Mutant: the first reader lets go of the lock as the others do.
KeepsLock_Never(count) == FALSE

\* Mutant: the last reader does not release.
LastReader_Off(count) == count = 2

-----------------------------------------------------------------------------
\* acquire_read, acquire_write: the coroutine is counted as waiting.
Asks(a, kind, timed) ==
    /\ At(a, "idle")
    /\ acquirer' = [acquirer EXCEPT ![a].at = "trying", ![a].kind = kind, ![a].timed = timed]
    /\ IF kind = "read" THEN read_waiting' = read_waiting + 1 /\ UNCHANGED write_waiting
       ELSE write_waiting' = write_waiting + 1 /\ UNCHANGED read_waiting
    /\ UNCHANGED <<owner, depth, read_count, abandoned>>

\* The waiting count goes down: once for a reader that succeeds, twice for one
\* that fails; once for a writer unless it is cancelled.
Uncounted(a, how) ==
    IF acquirer[a].kind = "read"
    THEN /\ read_waiting' = read_waiting - (IF how = "fails" THEN 2 ELSE 1)
         /\ UNCHANGED write_waiting
    ELSE /\ write_waiting' = write_waiting - (IF how = "cancelled" THEN 0 ELSE 1)
         /\ UNCHANGED read_waiting

\* A reader with a timeout gives way to writers that wait, once, before its
\* first try.
GivesWay(a) ==
    writer_priority /\ acquirer[a].kind = "read" /\ acquirer[a].timed
        /\ write_waiting > 0

KeepsLock(count) == count = 1

\* A try that succeeds.  The acquisition with a timeout runs in a task of its own,
\* whose end the caller learns later.
Acquires(a) ==
    LET t == acquirer[a].thread
    IN  /\ At(a, "waiting") \/ (At(a, "trying") /\ ~GivesWay(a))
        /\ Free(t)
        /\ IF acquirer[a].kind = "read"
           THEN /\ read_count' = read_count + 1
                /\ IF KeepsLock(read_count + 1) THEN Takes(t) ELSE UNCHANGED <<owner, depth>>
           ELSE Takes(t) /\ UNCHANGED read_count
        /\ IF acquirer[a].timed
           THEN Goes(a, "acquired") /\ UNCHANGED <<read_waiting, write_waiting>>
           ELSE Goes(a, "holding") /\ Uncounted(a, "succeeds")
        /\ UNCHANGED abandoned

Sleeps(a) ==
    /\ At(a, "trying") /\ ~GivesWay(a)
    /\ ~Free(acquirer[a].thread) /\ Goes(a, "waiting")
    /\ UNCHANGED <<owner, depth, read_count, write_waiting, read_waiting, abandoned>>

Learns(a) ==
    /\ At(a, "acquired") /\ Goes(a, "holding") /\ Uncounted(a, "succeeds")
    /\ UNCHANGED <<owner, depth, read_count, abandoned>>

StillCounted(a, how) ==
    abandoned.counted \cup
        (IF how = "cancelled" /\ acquirer[a].kind = "write" THEN {a} ELSE {})
Doubled(a, how) ==
    abandoned.doubled \cup
        (IF how = "fails" /\ acquirer[a].kind = "read" THEN {a} ELSE {})

\* The acquisition ends without the lock for its caller, who may hold it still.
GoesAway(a, how, held) ==
    /\ Goes(a, "gone") /\ Uncounted(a, how)
    /\ abandoned' = [held |-> held, counted |-> StillCounted(a, how),
                     doubled |-> Doubled(a, how)]
    /\ UNCHANGED <<owner, depth, read_count>>

\* The writers that wait, or the time that is over, fail the acquisition.
Fails(a) ==
    /\ \/ At(a, "trying") /\ GivesWay(a)
       \/ At(a, "waiting") /\ acquirer[a].timed
    /\ GoesAway(a, "fails", abandoned.held)

\* The timer fires, or the caller is cancelled, after the task has acquired and
\* before the caller learns it: what was acquired is nobody's.
Abandons(a, how) ==
    /\ At(a, "acquired") /\ GoesAway(a, how, abandoned.held \cup {a})

\* Cancelled while it waits.
Cancelled(a) ==
    /\ At(a, "waiting") \/ (At(a, "trying") /\ acquirer[a].timed)
    /\ GoesAway(a, "cancelled", abandoned.held)

LastReader(count) == count = 1

\* release_read, release_write
Lets(a) ==
    /\ At(a, "holding") /\ Goes(a, "idle")
    /\ IF acquirer[a].kind = "read"
       THEN /\ read_count' = read_count - 1
            /\ IF LastReader(read_count) THEN Releases ELSE UNCHANGED <<owner, depth>>
       ELSE Releases /\ UNCHANGED read_count
    /\ UNCHANGED <<write_waiting, read_waiting, abandoned>>

LockNext ==
    \E a \in Acquirers :
        \/ \E kind \in {"read", "write"}, timed \in BOOLEAN :
              Asks(a, kind, timed)
        \/ Acquires(a) \/ Sleeps(a) \/ Learns(a) \/ Fails(a) \/ Cancelled(a) \/ Lets(a)
        \/ \E how \in {"fails", "cancelled"} : Abandons(a, how)

LockSpec == LockInit /\ [][LockNext]_lockVars

-----------------------------------------------------------------------------
Holders(kind, t) ==
    {a \in Acquirers : /\ acquirer[a].at \in {"acquired", "holding"} \/ a \in abandoned.held
                       /\ acquirer[a].kind = kind /\ acquirer[a].thread = t}
WritersWaiting ==
    {a \in Acquirers : /\ acquirer[a].at \in {"trying", "waiting", "acquired"}
                              \/ a \in abandoned.counted
                       /\ acquirer[a].kind = "write"}
ReadersWaiting ==
    {a \in Acquirers : acquirer[a].at \in {"trying", "waiting", "acquired"}
                          /\ acquirer[a].kind = "read"}

\* The lock's variables keep their types.
LockTypeOK ==
    LET Upto == 0 .. Cardinality(Acquirers)
    IN  /\ owner \in LockThreads \cup {NoThread} /\ depth \in Upto /\ read_count \in Upto
        /\ write_waiting \in Upto /\ read_waiting \in -Cardinality(Acquirers) .. Cardinality(Acquirers)
        /\ acquirer \in [Acquirers ->
               [at : {"idle", "trying", "waiting", "acquired", "holding", "gone"},
                thread : LockThreads, kind : {"read", "write"}, timed : BOOLEAN]]
        /\ abandoned \in [held : SUBSET Acquirers, counted : SUBSET Acquirers,
                        doubled : SUBSET Acquirers]

\* Coroutines of two threads never hold the lock together, readers included; it is
\* held once for all the readers and once for each writer, and free when nobody
\* holds it, not even somebody whose acquisition was taken for a failure.
ThreadsExcluded ==
    /\ owner = NoThread <=> depth = 0
    /\ \A t \in LockThreads :
          /\ owner # t => Holders("read", t) \cup Holders("write", t) = {}
          /\ owner = t => /\ read_count = Cardinality(Holders("read", t))
                          /\ depth = Cardinality(Holders("write", t))
                                         + (IF read_count > 0 THEN 1 ELSE 0)

\* The writers counted as waiting, for which timed readers give way, are those that
\* wait and those that were cancelled while they did.
WritersCounted == write_waiting = Cardinality(WritersWaiting)

\* The readers counted as waiting fall short of those that wait by one for each
\* reader that ever failed, for it is taken off twice: the count goes below zero,
\* and only the lock's metrics are told it.
ReadersCounted ==
    read_waiting = Cardinality(ReadersWaiting) - Cardinality(abandoned.doubled)

\* What the lock's counters say is what the coroutines hold, which writers wait,
\* and how many readers wait less those that failed.
LockAccounts == ThreadsExcluded /\ WritersCounted /\ ReadersCounted
=============================================================================
