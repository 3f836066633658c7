--------------------------- MODULE ServicesProofs ---------------------------
(***************************************************************************)
(* Theorems about the services for every value of their constants.  They   *)
(* share no variable, so that a step of one is a stutter of the others      *)
(* (lemma OneAtATime), and each has an inductive invariant of its own.      *)
(***************************************************************************)
EXTENDS MCServices, TLAPS, SequenceTheorems, FiniteSetTheorems

-----------------------------------------------------------------------------
(* Managed operations (ManagedOperations).  Who leads the queue of a lock is *)
(* the only one at work on its operation; from this it follows that an error *)
(* is counted twice and no more, and that what a call is to evict is still   *)
(* there, or there is room without that.                                     *)

\* What RemoveFirst makes of a sequence that has each element once.
LEMMA RemoveOne ==
    ASSUME NEW S, NEW s \in Seq(S), NEW c,
           \A i, j \in 1..Len(s) : s[i] = s[j] => i = j
    PROVE  /\ RemoveFirst(s, c) \in Seq(S) /\ Len(RemoveFirst(s, c)) <= Len(s)
           /\ \A i, j \in 1..Len(RemoveFirst(s, c)) :
                 RemoveFirst(s, c)[i] = RemoveFirst(s, c)[j] => i = j
           /\ \A i \in 1..Len(RemoveFirst(s, c)) : RemoveFirst(s, c)[i] # c
           /\ \A i \in 1..Len(s) : s[i] # c =>
                 \E j \in 1..Len(RemoveFirst(s, c)) : RemoveFirst(s, c)[j] = s[i]
           /\ \A i \in 1..Len(RemoveFirst(s, c)) :
                 \E j \in 1..Len(s) : s[j] = RemoveFirst(s, c)[i]
           /\ s # <<>> /\ s[1] # c =>
                 RemoveFirst(s, c) # <<>> /\ RemoveFirst(s, c)[1] = s[1]
  <1>1. CASE \A i \in 1..Len(s) : s[i] # c
    <2>1. RemoveFirst(s, c) = s
      BY <1>1, Zenon DEF RemoveFirst
    <2> QED BY <1>1, <2>1
  <1>2. CASE \E i \in 1..Len(s) : s[i] = c
    <2>1. PICK i \in 1 .. Len(s) : s[i] = c
      BY <1>2
    <2> DEFINE I == {j \in 1 .. Len(s) : s[j] = c}
               p == SubSeq(s, 1, i - 1)
               q == SubSeq(s, i + 1, Len(s))
               t == p \o q
    <2>2. I = {i}
      BY <2>1
    <2>3. Min({i}) = i
      BY DEF Min
    <2>4. SelectInSeq(s, LAMBDA v : v = c) = i
      BY <2>2, <2>3 DEF SelectInSeq
    <2>5. RemoveFirst(s, c) = t
      BY <2>1, <2>4 DEF RemoveFirst, RemoveAt
    <2>6. /\ p \in Seq(S) /\ Len(p) = i - 1
          /\ \A j \in 1 .. i - 1 : p[j] = s[j]
      BY <2>1, SubSeqProperties
    <2>7. /\ q \in Seq(S) /\ Len(q) = Len(s) - i
          /\ \A j \in 1 .. Len(s) - i : q[j] = s[j + i]
      BY <2>1, SubSeqProperties
    <2> HIDE DEF p, q
    <2>8. /\ p \o q \in Seq(S) /\ Len(p \o q) = Len(p) + Len(q)
          /\ \A j \in 1 .. Len(p) + Len(q) :
                (p \o q)[j] = IF j <= Len(p) THEN p[j] ELSE q[j - Len(p)]
      BY ONLY <2>6, <2>7, ConcatProperties
    <2>8a. /\ t \in Seq(S) /\ Len(t) = Len(p) + Len(q)
           /\ \A j \in 1 .. Len(t) : t[j] = IF j <= Len(p) THEN p[j] ELSE q[j - Len(p)]
      BY <2>8
    <2> HIDE DEF t
    <2>9. /\ Len(t) = Len(s) - 1 /\ Len(s) \in Nat
          /\ \A j \in 1 .. Len(t) : t[j] = IF j < i THEN s[j] ELSE s[j + 1]
      BY <2>1, <2>6, <2>7, <2>8a
    <2>10. \A j, k \in 1..Len(t) : t[j] = t[k] => j = k
      BY <2>1, <2>9
    <2>11. \A j \in 1..Len(t) : t[j] # c
      BY <2>1, <2>9
    <2>12. ASSUME NEW j \in 1..Len(s), s[j] # c
           PROVE  \E k \in 1..Len(t) : t[k] = s[j]
      <3>1. CASE j < i
        BY <3>1, <2>1, <2>9
      <3>2. CASE ~(j < i)
        <4>1. j - 1 \in 1..Len(t) /\ t[j - 1] = s[j]
          BY <3>2, <2>1, <2>9, <2>12
        <4> QED BY <4>1
      <3> QED BY <3>1, <3>2
    <2>13. \A j \in 1..Len(t) : \E k \in 1..Len(s) : s[k] = t[j]
      BY <2>1, <2>9
    <2>14. s[1] # c => t # <<>> /\ t[1] = s[1]
      <3> SUFFICES ASSUME s[1] # c
                   PROVE  t # <<>> /\ t[1] = s[1]
        OBVIOUS
      <3>1. i > 1 /\ Len(t) > 0
        BY <2>1, <2>9
      <3> QED BY <2>8a, <2>9, <3>1
    <2> QED BY <2>5, <2>8a, <2>9, <2>10, <2>11, <2>12, <2>13, <2>14
  <1> QED BY <1>1, <1>2

NoDuplicates(s) == \A i, j \in 1 .. Len(s) : s[i] = s[j] => i = j
InQueue(c, s) == \E i \in 1 .. Len(s) : s[i] = c
Leads(c, s) == s # <<>> /\ Head(s) = c

\* A call takes itself out of a queue or comes to its end; it takes nobody's lead.
MovesOnly(c, s, t) ==
    /\ t \in Seq(ManagedCalls) /\ NoDuplicates(t)
    /\ \A d : InQueue(d, t) => d = c \/ InQueue(d, s)
    /\ \A d : d # c /\ Leads(d, s) => Leads(d, t)

\* A queue that is left alone has not been moved in.
LEMMA MovesNot ==
    ASSUME NEW c, NEW s \in Seq(ManagedCalls), NoDuplicates(s)
    PROVE  MovesOnly(c, s, s)
  BY DEF MovesOnly

\* A call that comes to the end of a queue takes nobody's lead.
LEMMA AppendMoves ==
    ASSUME NEW c \in ManagedCalls, NEW s \in Seq(ManagedCalls), NoDuplicates(s),
           ~InQueue(c, s)
    PROVE  MovesOnly(c, s, Append(s, c))
  <1> DEFINE t == Append(s, c)
  <1>1. /\ t \in Seq(ManagedCalls) /\ Len(t) = Len(s) + 1
        /\ \A i \in 1 .. Len(s) : t[i] = s[i]
        /\ t[Len(s) + 1] = c /\ Len(s) \in Nat
    BY AppendProperties
  <1> HIDE DEF t
  <1>2. \A i \in 1 .. Len(t) : i \in 1 .. Len(s) \/ i = Len(s) + 1
    BY <1>1
  <1>3. NoDuplicates(t)
    BY <1>1, <1>2 DEF NoDuplicates, InQueue
  <1>4. \A d : InQueue(d, t) => d = c \/ InQueue(d, s)
    BY <1>1, <1>2 DEF InQueue
  <1>5. \A d : Leads(d, s) => Leads(d, t)
    BY <1>1 DEF Leads
  <1>6. MovesOnly(c, s, t)
    BY <1>1, <1>3, <1>4, <1>5 DEF MovesOnly
  <1> QED BY <1>6 DEF t

\* A call that leaves the lead of a queue is not in it any more.
LEMMA TailMoves ==
    ASSUME NEW c \in ManagedCalls, NEW s \in Seq(ManagedCalls), NoDuplicates(s), Leads(c, s)
    PROVE  MovesOnly(c, s, Tail(s)) /\ ~InQueue(c, Tail(s))
  <1> DEFINE t == Tail(s)
  <1>1. /\ t \in Seq(ManagedCalls) /\ Len(t) = Len(s) - 1
        /\ \A i \in 1 .. Len(t) : t[i] = s[i + 1]
        /\ Len(s) \in Nat /\ Len(s) > 0 /\ s[1] = c
    BY HeadTailProperties DEF Leads
  <1> HIDE DEF t
  <1>2. NoDuplicates(t)
    BY <1>1 DEF NoDuplicates
  <1>3. \A d : InQueue(d, t) => InQueue(d, s) /\ d # c
    BY <1>1 DEF NoDuplicates, InQueue
  <1>4. MovesOnly(c, s, t) /\ ~InQueue(c, t)
    BY <1>1, <1>2, <1>3 DEF MovesOnly, Leads
  <1> QED BY <1>4 DEF t

\* A call that gives up its place is not in the queue any more.
LEMMA RemoveMoves ==
    ASSUME NEW c \in ManagedCalls, NEW s \in Seq(ManagedCalls), NoDuplicates(s)
    PROVE  MovesOnly(c, s, RemoveFirst(s, c)) /\ ~InQueue(c, RemoveFirst(s, c))
  <1> DEFINE t == RemoveFirst(s, c)
  <1>1. /\ t \in Seq(ManagedCalls)
        /\ \A i, j \in 1 .. Len(t) : t[i] = t[j] => i = j
        /\ \A i \in 1 .. Len(t) : t[i] # c /\ \E j \in 1 .. Len(s) : s[j] = t[i]
        /\ s # <<>> /\ s[1] # c => t # <<>> /\ t[1] = s[1]
    BY RemoveOne DEF NoDuplicates
  <1> HIDE DEF t
  <1>2. NoDuplicates(t) /\ ~InQueue(c, t) /\ \A d : InQueue(d, t) => InQueue(d, s)
    BY <1>1 DEF NoDuplicates, InQueue
  <1>3. ASSUME NEW d, d # c, Leads(d, s)
        PROVE  Leads(d, t)
    <2>1. s # <<>> /\ s[1] = d
      BY <1>3 DEF Leads
    <2>2. t # <<>> /\ t[1] = d
      BY <1>1, <1>3, <2>1
    <2> QED BY <1>1, <2>2 DEF Leads
  <1>4. MovesOnly(c, s, t) /\ ~InQueue(c, t)
    BY <1>1, <1>2, <1>3 DEF MovesOnly
  <1> QED BY <1>4 DEF t

CallStates ==
    [at : {"idle", "queued"} \cup Working \cup Handling,
     operation : Operations \cup {"none"}, id : EntryIds \cup {"none"},
     tries : 0 .. Retries, left : SUBSET EntryIds, fatal : BOOLEAN, outside : BOOLEAN]

IsPending(r) == r.at \in Handling /\ ~r.outside
InLock(r) == r.at \in Working \/ IsPending(r)
Evicting(r) == r.at \in {"evicting", "evicted"}

MayQueue(r, op) ==
    \/ r.operation = op /\ (r.at = "queued" \/ InLock(r))
    \/ Evicting(r) /\ op = "invalidate_cache"

\* What a call says of itself fits the manager.
CallsRight ==
    \A c \in ManagedCalls :
        /\ managed[c].at # "idle" => managed[c].operation \in OperationsOf(manager)
        /\ managed[c].at = "tracking" \/ Evicting(managed[c]) => managed[c].id \in EntryIds
        /\ Evicting(managed[c]) => managed[c].operation = "set_cache"

\* A call at work on an operation, or handling its error inside, has the lock.
LocksRight ==
    /\ \A op \in Operations :
          /\ NoDuplicates(operation_locks[op])
          /\ \A c \in ManagedCalls : InQueue(c, operation_locks[op]) => MayQueue(managed[c], op)
    /\ \A c \in ManagedCalls :
          /\ InLock(managed[c]) => Leads(c, operation_locks[managed[c].operation])
          /\ managed[c].at = "evicted" => Leads(c, operation_locks["invalidate_cache"])

SomeFailed(n) == \E op \in Operations : failed[op] >= n

\* Counted twice and no more; what follows a count follows the failures.
AccountsRight ==
    /\ \A op \in Operations :
          /\ error_counts[op] <= 2 * failed[op]
          /\ (\E c \in ManagedCalls : managed[c].operation = op /\ IsPending(managed[c]))
                => error_counts[op] + 1 <= 2 * failed[op]
    /\ \A c \in ManagedCalls : /\ managed[c].fatal => SomeFailed(3)
                               /\ managed[c].at = "cleaning" => SomeFailed(2)
    /\ wiped => SomeFailed(2)
    /\ critical => SomeFailed(3)

\* What is to be evicted is still there, or there is room without that.
CacheRight ==
    /\ IsFiniteSet(entries)
    /\ manager = "cache" => Cardinality(entries) <= max_entries
    /\ \A c \in ManagedCalls :
          /\ managed[c].at = "evicting" =>
                \E oldest \in EntryIds :
                    /\ managed[c].left = {oldest}
                    /\ oldest \in entries \/ Cardinality(entries) < max_entries
          /\ managed[c].at = "evicted" => Cardinality(entries) < max_entries

OInv == /\ ManagedTypeOK /\ CallsRight /\ LocksRight /\ AccountsRight /\ CacheRight
        /\ SizesOfEntries

\* A manager begins as the invariant says.
LEMMA OperationsBegin ==
    ASSUME ManagedInit
    PROVE  OInv
  <1>1. NoManaged \in CallStates /\ NoManaged.at = "idle" /\ ~NoManaged.fatal
    BY DEF NoManaged, CallStates, Retries
  <1>2. \A op \in Operations : operation_locks[op] = <<>>
    BY DEF ManagedInit
  <1>3. ManagedTypeOK
    <2>1. operation_locks \in [Operations -> Seq(ManagedCalls)]
      BY DEF ManagedInit
    <2>2. managed \in [ManagedCalls -> CallStates]
      BY <1>1 DEF ManagedInit
    <2> QED BY <2>1, <2>2 DEF ManagedInit, ManagedTypeOK, CallStates
  <1>4. \A c \in ManagedCalls : managed[c].at = "idle" /\ ~managed[c].fatal
    BY <1>1 DEF ManagedInit
  <1>5. CallsRight
    BY <1>4 DEF CallsRight, Evicting
  <1>6. LocksRight
    BY <1>2, <1>4 DEF LocksRight, NoDuplicates, InQueue, InLock, IsPending, Working, Handling
  <1>7. AccountsRight
    BY <1>4 DEF ManagedInit, AccountsRight, IsPending, Handling
  <1>8. CacheRight
    BY <1>4, FS_EmptySet, EntriesAssumption DEF ManagedInit, CacheRight
  <1>9. SizesOfEntries
    BY DEF ManagedInit, SizesOfEntries
  <1> QED BY <1>3, <1>5, <1>6, <1>7, <1>8, <1>9 DEF OInv

\* The properties of accounts and sizes follow from the invariant.
LEMMA OperationsRight ==
    ASSUME OInv
    PROVE  ErrorsHandledOnce /\ SizesOfEntries
  <1>1. ASSUME NEW op \in Operations
        PROVE  /\ error_counts[op] + Cardinality(Pending(op)) <= 2 * failed[op]
               /\ Pending(op) # {} => \E c \in Pending(op) : Holds(c, op)
    <2>1. \A c \in Pending(op) : Holds(c, op)
      BY DEF OInv, LocksRight, Pending, InLock, IsPending, Holds, Leads
    <2>2. /\ error_counts[op] \in Nat /\ failed[op] \in Nat
          /\ error_counts[op] <= 2 * failed[op]
          /\ Pending(op) # {} => error_counts[op] + 1 <= 2 * failed[op]
      BY DEF OInv, ManagedTypeOK, AccountsRight, Pending, IsPending
    <2>3. CASE Pending(op) = {}
      <3>1. Cardinality(Pending(op)) = 0
        BY <2>3, FS_EmptySet
      <3> QED BY <2>2, <2>3, <3>1
    <2>4. CASE Pending(op) # {}
      <3>1. PICK c \in Pending(op) : TRUE
        BY <2>4
      <3>2. Pending(op) = {c}
        BY <2>1, <3>1 DEF Holds
      <3>3. Cardinality({c}) = 1
        BY FS_Singleton
      <3> QED BY <2>1, <2>2, <2>4, <3>2, <3>3
    <2> QED BY <2>3, <2>4
  <1> QED BY <1>1 DEF OInv, AccountsRight, CacheRight, SomeFailed, ErrorsHandledOnce

\* A call that moves in the queues, and is where its place allows, leaves the locks right.
LEMMA LocksKept ==
    ASSUME OInv, NEW c \in ManagedCalls, NEW r \in CallStates,
           managed' = [managed EXCEPT ![c] = r],
           operation_locks' \in [Operations -> Seq(ManagedCalls)],
           \A op \in Operations : MovesOnly(c, operation_locks[op], operation_locks'[op]),
           \A op \in Operations : InQueue(c, operation_locks'[op]) => MayQueue(r, op),
           InLock(r) => Leads(c, operation_locks'[r.operation]),
           r.at = "evicted" => Leads(c, operation_locks'["invalidate_cache"])
    PROVE  LocksRight'
  <1>1. \A d \in ManagedCalls : managed'[d] = IF d = c THEN r ELSE managed[d]
    BY DEF OInv, ManagedTypeOK
  <1>2. ASSUME NEW op \in Operations
        PROVE  /\ NoDuplicates(operation_locks'[op])
               /\ \A d \in ManagedCalls :
                    InQueue(d, operation_locks'[op]) => MayQueue(managed'[d], op)
    <2>1. \A d : InQueue(d, operation_locks'[op]) => d = c \/ InQueue(d, operation_locks[op])
      BY DEF MovesOnly
    <2>2. NoDuplicates(operation_locks'[op])
      BY DEF MovesOnly
    <2> QED BY <1>1, <2>1, <2>2 DEF OInv, LocksRight
  <1>3. ASSUME NEW d \in ManagedCalls
        PROVE  /\ InLock(managed'[d]) => Leads(d, operation_locks'[managed'[d].operation])
               /\ managed'[d].at = "evicted" => Leads(d, operation_locks'["invalidate_cache"])
    <2>1. CASE d = c
      BY <1>1, <2>1
    <2>2. CASE d # c
      <3>1. managed'[d] = managed[d]
        BY <1>1, <2>2
      <3>2. \A op \in Operations : Leads(d, operation_locks[op]) => Leads(d, operation_locks'[op])
        BY <2>2 DEF MovesOnly
      <3>3. InLock(managed[d]) => managed[d].operation \in Operations
        BY DEF OInv, CallsRight, OperationsOf, InLock, IsPending, Working, Handling
      <3>4. "invalidate_cache" \in Operations
        BY DEF Operations
      <3> QED BY <3>1, <3>2, <3>3, <3>4 DEF OInv, LocksRight
    <2> QED BY <2>1, <2>2
  <1> QED BY <1>2, <1>3 DEF LocksRight

\* Only the call that leads a queue is at work on the operation.
LEMMA AloneInLock ==
    ASSUME OInv, NEW op \in Operations, NEW c \in ManagedCalls, NEW d \in ManagedCalls,
           Leads(c, operation_locks[op]), managed[d].operation = op, InLock(managed[d])
    PROVE  d = c
  BY DEF OInv, LocksRight, Leads

\* A call that counts nothing leaves the accounts right.
LEMMA AccountsUntouched ==
    ASSUME OInv, NEW c \in ManagedCalls, NEW r \in CallStates,
           managed' = [managed EXCEPT ![c] = r],
           UNCHANGED <<error_counts, failed>>,
           IsPending(r) => IsPending(managed[c]) /\ managed[c].operation = r.operation,
           r.fatal => SomeFailed(3),
           r.at = "cleaning" => SomeFailed(2),
           wiped' => wiped \/ SomeFailed(2),
           critical' => critical \/ SomeFailed(3)
    PROVE  AccountsRight'
  <1>1. \A d \in ManagedCalls : managed'[d] = IF d = c THEN r ELSE managed[d]
    BY DEF OInv, ManagedTypeOK
  <1>2. SomeFailed(2)' = SomeFailed(2) /\ SomeFailed(3)' = SomeFailed(3)
    BY DEF SomeFailed
  <1>3. \A op \in Operations :
          (\E d \in ManagedCalls : managed'[d].operation = op /\ IsPending(managed'[d]))
             => (\E d \in ManagedCalls : managed[d].operation = op /\ IsPending(managed[d]))
    BY <1>1
  <1>4. \A d \in ManagedCalls : /\ managed'[d].fatal => SomeFailed(3)
                                /\ managed'[d].at = "cleaning" => SomeFailed(2)
    BY <1>1 DEF OInv, AccountsRight
  <1>5. (wiped' => SomeFailed(2)) /\ (critical' => SomeFailed(3))
    BY DEF OInv, AccountsRight
  <1>6. \A op \in Operations :
          /\ error_counts'[op] <= 2 * failed'[op]
          /\ (\E d \in ManagedCalls : managed'[d].operation = op /\ IsPending(managed'[d]))
                => error_counts'[op] + 1 <= 2 * failed'[op]
    BY <1>3 DEF OInv, AccountsRight
  <1> QED BY <1>2, <1>4, <1>5, <1>6 DEF AccountsRight

\* One more failed call, counted a first time.
LEMMA AccountsOfFailure ==
    ASSUME OInv, NEW c \in ManagedCalls, NEW r \in CallStates, NEW op \in Operations,
           managed' = [managed EXCEPT ![c] = r],
           Leads(c, operation_locks[op]), ~IsPending(managed[c]),
           failed' = [failed EXCEPT ![op] = @ + 1],
           error_counts' = [error_counts EXCEPT ![op] = @ + 1],
           UNCHANGED <<critical, wiped>>,
           r.operation = op, r.at = "counted",
           r.fatal = (error_counts'[op] > FatalAfter)
    PROVE  AccountsRight'
  <1>1. \A d \in ManagedCalls : managed'[d] = IF d = c THEN r ELSE managed[d]
    BY DEF OInv, ManagedTypeOK
  <1>2. error_counts \in [Operations -> Nat] /\ failed \in [Operations -> Nat]
    BY DEF OInv, ManagedTypeOK
  <1>3. \A n \in Nat : SomeFailed(n) => SomeFailed(n)'
    BY <1>2 DEF SomeFailed
  <1>4. ~\E d \in ManagedCalls : managed[d].operation = op /\ IsPending(managed[d])
    BY AloneInLock DEF InLock
  <1>5. error_counts[op] <= 2 * failed[op]
    BY DEF OInv, AccountsRight
  <1>6. error_counts'[op] = error_counts[op] + 1 /\ failed'[op] = failed[op] + 1
    BY <1>2
  <1>7. error_counts'[op] + 1 <= 2 * failed'[op]
    BY <1>2, <1>5, <1>6
  <1>8. \A o \in Operations :
          /\ error_counts'[o] <= 2 * failed'[o]
          /\ (\E d \in ManagedCalls : managed'[d].operation = o /\ IsPending(managed'[d]))
                => error_counts'[o] + 1 <= 2 * failed'[o]
    <2> SUFFICES ASSUME NEW o \in Operations
                 PROVE  /\ error_counts'[o] <= 2 * failed'[o]
                        /\ (\E d \in ManagedCalls : managed'[d].operation = o
                                                        /\ IsPending(managed'[d]))
                              => error_counts'[o] + 1 <= 2 * failed'[o]
      OBVIOUS
    <2>1. CASE o = op
      BY <1>2, <1>6, <1>7, <2>1
    <2>2. CASE o # op
      <3>1. error_counts'[o] = error_counts[o] /\ failed'[o] = failed[o]
        BY <1>2, <2>2
      <3>2. (\E d \in ManagedCalls : managed'[d].operation = o /\ IsPending(managed'[d]))
               => (\E d \in ManagedCalls : managed[d].operation = o /\ IsPending(managed[d]))
        BY <1>1, <2>2
      <3> QED BY <3>1, <3>2 DEF OInv, AccountsRight
    <2> QED BY <2>1, <2>2
  <1>9. r.fatal => SomeFailed(3)'
    <2> SUFFICES ASSUME r.fatal
                 PROVE  SomeFailed(3)'
      OBVIOUS
    <2>1. error_counts'[op] > 5
      BY Zenon DEF FatalAfter
    <2>2. failed'[op] >= 3
      BY <1>2, <1>6, <1>7, <2>1
    <2> QED BY <2>2 DEF SomeFailed
  <1>10. \A d \in ManagedCalls : /\ managed'[d].fatal => SomeFailed(3)'
                                 /\ managed'[d].at = "cleaning" => SomeFailed(2)'
    BY <1>1, <1>3, <1>9 DEF OInv, AccountsRight
  <1>11. (wiped' => SomeFailed(2)') /\ (critical' => SomeFailed(3)')
    BY <1>3 DEF OInv, AccountsRight
  <1> QED BY <1>8, <1>10, <1>11 DEF AccountsRight

\* A failure counted a second time, as the error leaves the lock.
LEMMA AccountsOfRaise ==
    ASSUME OInv, NEW c \in ManagedCalls, NEW r \in CallStates, NEW op \in Operations,
           managed' = [managed EXCEPT ![c] = r],
           IsPending(managed[c]), managed[c].operation = op,
           error_counts' = [error_counts EXCEPT ![op] = @ + 1],
           UNCHANGED <<critical, failed, wiped>>,
           r.at = "counted", r.outside, r.fatal = (error_counts'[op] > FatalAfter)
    PROVE  AccountsRight'
  <1>1. \A d \in ManagedCalls : managed'[d] = IF d = c THEN r ELSE managed[d]
    BY DEF OInv, ManagedTypeOK
  <1>2. error_counts \in [Operations -> Nat] /\ failed \in [Operations -> Nat]
    BY DEF OInv, ManagedTypeOK
  <1>3. SomeFailed(2)' = SomeFailed(2) /\ SomeFailed(3)' = SomeFailed(3)
    BY DEF SomeFailed
  <1>4. \A d \in ManagedCalls : managed[d].operation = op /\ IsPending(managed[d]) => d = c
    BY AloneInLock DEF InLock, OInv, LocksRight
  <1>5. error_counts[op] + 1 <= 2 * failed[op]
    BY DEF OInv, AccountsRight
  <1>6. error_counts'[op] = error_counts[op] + 1
    BY <1>2
  <1>7. \A o \in Operations :
          /\ error_counts'[o] <= 2 * failed'[o]
          /\ (\E d \in ManagedCalls : managed'[d].operation = o /\ IsPending(managed'[d]))
                => error_counts'[o] + 1 <= 2 * failed'[o]
    <2> SUFFICES ASSUME NEW o \in Operations
                 PROVE  /\ error_counts'[o] <= 2 * failed'[o]
                        /\ (\E d \in ManagedCalls : managed'[d].operation = o
                                                        /\ IsPending(managed'[d]))
                              => error_counts'[o] + 1 <= 2 * failed'[o]
      OBVIOUS
    <2>1. CASE o = op
      <3>1. ~\E d \in ManagedCalls : managed'[d].operation = o /\ IsPending(managed'[d])
        BY <1>1, <1>4, <2>1 DEF IsPending
      <3> QED BY <1>5, <1>6, <2>1, <3>1
    <2>2. CASE o # op
      <3>1. error_counts'[o] = error_counts[o] /\ failed'[o] = failed[o]
        BY <1>2, <2>2
      <3>2. (\E d \in ManagedCalls : managed'[d].operation = o /\ IsPending(managed'[d]))
               => (\E d \in ManagedCalls : managed[d].operation = o /\ IsPending(managed[d]))
        BY <1>1, <2>2 DEF IsPending
      <3> QED BY <3>1, <3>2 DEF OInv, AccountsRight
    <2> QED BY <2>1, <2>2
  <1>8. r.fatal => SomeFailed(3)
    <2> SUFFICES ASSUME r.fatal
                 PROVE  SomeFailed(3)
      OBVIOUS
    <2>1. error_counts'[op] > 5
      BY Zenon DEF FatalAfter
    <2>2. failed[op] >= 3
      BY <1>2, <1>5, <1>6, <2>1
    <2> QED BY <2>2 DEF SomeFailed
  <1>9. \A d \in ManagedCalls : /\ managed'[d].fatal => SomeFailed(3)'
                                /\ managed'[d].at = "cleaning" => SomeFailed(2)'
    BY <1>1, <1>3, <1>8 DEF OInv, AccountsRight
  <1>10. (wiped' => SomeFailed(2)') /\ (critical' => SomeFailed(3)')
    BY <1>3 DEF OInv, AccountsRight
  <1> QED BY <1>7, <1>9, <1>10 DEF AccountsRight

\* Entries go, or stay; the call is not about to evict, or with good reason.
LEMMA EntriesShrink ==
    ASSUME OInv, NEW c \in ManagedCalls, NEW r \in CallStates,
           managed' = [managed EXCEPT ![c] = r], manager' = manager,
           entries' \subseteq entries,
           r.at = "evicting" => \E oldest \in EntryIds : r.left = {oldest} /\ oldest \in entries',
           r.at = "evicted" => Cardinality(entries') < max_entries
    PROVE  CacheRight'
  <1>1. \A d \in ManagedCalls : managed'[d] = IF d = c THEN r ELSE managed[d]
    BY DEF OInv, ManagedTypeOK
  <1>2. IsFiniteSet(entries') /\ Cardinality(entries') <= Cardinality(entries)
    BY FS_Subset DEF OInv, CacheRight
  <1>3. Cardinality(entries) \in Nat /\ Cardinality(entries') \in Nat
    BY <1>2, FS_CardinalityType DEF OInv, CacheRight
  <1>4. max_entries \in Nat
    BY EntriesAssumption
  <1>5. ASSUME NEW d \in ManagedCalls, d # c, managed[d].at = "evicting"
        PROVE  \E oldest \in EntryIds : /\ managed[d].left = {oldest}
                                        /\ \/ oldest \in entries'
                                           \/ Cardinality(entries') < max_entries
    <2>1. PICK oldest \in EntryIds : /\ managed[d].left = {oldest}
                                     /\ \/ oldest \in entries
                                        \/ Cardinality(entries) < max_entries
      BY <1>5 DEF OInv, CacheRight
    <2>2. manager = "cache"
      <3>1. managed[d].operation \in OperationsOf(manager) /\ managed[d].operation = "set_cache"
        BY <1>5 DEF OInv, CallsRight, Evicting
      <3> QED BY <3>1 DEF OperationsOf
    <2>3. Cardinality(entries) <= max_entries
      BY <2>2 DEF OInv, CacheRight
    <2>4. CASE oldest \in entries \ entries'
      <3>1. Cardinality(entries') < Cardinality(entries)
        <4>1. Cardinality(entries') # Cardinality(entries)
          BY <2>4, FS_Subset DEF OInv, CacheRight
        <4> QED BY <1>2, <1>3, <4>1
      <3> QED BY <1>3, <1>4, <2>1, <2>3, <3>1
    <2>5. CASE oldest \notin entries \ entries'
      BY <1>2, <1>3, <1>4, <2>1, <2>5
    <2> QED BY <2>4, <2>5
  <1>6. ASSUME NEW d \in ManagedCalls, d # c, managed[d].at = "evicted"
        PROVE  Cardinality(entries') < max_entries
    BY <1>2, <1>3, <1>4, <1>6 DEF OInv, CacheRight
  <1>7. manager' = "cache" => Cardinality(entries') <= max_entries
    BY <1>2, <1>3, <1>4 DEF OInv, CacheRight
  <1> QED BY <1>1, <1>2, <1>5, <1>6, <1>7 DEF CacheRight

\* An entry comes: in the cache, only from the call that sets it, when there is room.
LEMMA EntriesGrow ==
    ASSUME OInv, NEW c \in ManagedCalls, NEW r \in CallStates, NEW id,
           managed' = [managed EXCEPT ![c] = r], manager' = manager,
           entries' = entries \cup {id}, ~Evicting(r),
           \/ manager = "contexts"
           \/ Leads(c, operation_locks["set_cache"]) /\ Cardinality(entries) < max_entries
    PROVE  CacheRight'
  <1>1. \A d \in ManagedCalls : managed'[d] = IF d = c THEN r ELSE managed[d]
    BY DEF OInv, ManagedTypeOK
  <1>2. /\ IsFiniteSet(entries')
        /\ Cardinality(entries') = IF id \in entries THEN Cardinality(entries)
                                                     ELSE Cardinality(entries) + 1
    BY FS_AddElement DEF OInv, CacheRight
  <1>3. Cardinality(entries) \in Nat
    BY FS_CardinalityType DEF OInv, CacheRight
  <1>4. max_entries \in Nat
    BY EntriesAssumption
  <1>5. \A d \in ManagedCalls : ~Evicting(managed'[d])
    <2> SUFFICES ASSUME NEW d \in ManagedCalls, d # c, Evicting(managed[d])
                 PROVE  FALSE
      BY <1>1
    <2>1. managed[d].operation \in OperationsOf(manager) /\ managed[d].operation = "set_cache"
      BY DEF OInv, CallsRight, Evicting
    <2>2. Leads(c, operation_locks["set_cache"])
      BY <2>1 DEF OperationsOf
    <2>3. InLock(managed[d]) /\ "set_cache" \in Operations
      BY DEF InLock, Evicting, Working, Operations
    <2> QED BY <2>1, <2>2, <2>3, AloneInLock
  <1>6. manager' = "cache" => Cardinality(entries') <= max_entries
    BY <1>2, <1>3, <1>4
  <1> QED BY <1>2, <1>5, <1>6 DEF CacheRight, Evicting

\* The rest of an action's duty: the types of what is not a call.
StoreTypeOK ==
    /\ manager \in {"contexts", "cache"}
    /\ entries \subseteq EntryIds /\ resource_sizes \subseteq EntryIds
    /\ dropped \subseteq EntryIds

AccountTypeOK ==
    /\ error_counts \in [Operations -> Nat] /\ failed \in [Operations -> Nat]
    /\ critical \in BOOLEAN /\ wiped \in BOOLEAN

\* The type invariant is the sum of its parts.
LEMMA TypesOfParts ==
    ManagedTypeOK <=> /\ StoreTypeOK /\ AccountTypeOK
                      /\ operation_locks \in [Operations -> Seq(ManagedCalls)]
                      /\ managed \in [ManagedCalls -> CallStates]
  BY DEF ManagedTypeOK, StoreTypeOK, AccountTypeOK, CallStates

\* The parts of the invariant after a step, put together.
LEMMA PartsMakeWhole ==
    ASSUME StoreTypeOK', AccountTypeOK', managed' \in [ManagedCalls -> CallStates],
           operation_locks' \in [Operations -> Seq(ManagedCalls)],
           CallsRight', LocksRight', AccountsRight', CacheRight', SizesOfEntries'
    PROVE  OInv'
  <1>1. ManagedTypeOK'
    BY DEF ManagedTypeOK, StoreTypeOK, AccountTypeOK, CallStates
  <1> QED BY <1>1 DEF OInv

\* What the state of one call must be for CallsRight.
FitsManager(r) ==
    /\ r.at # "idle" => r.operation \in OperationsOf(manager)
    /\ r.at = "tracking" \/ Evicting(r) => r.id \in EntryIds
    /\ Evicting(r) => r.operation = "set_cache"

\* A call that fits its manager leaves the calls right.
LEMMA CallsKept ==
    ASSUME OInv, NEW c \in ManagedCalls, NEW r \in CallStates,
           managed' = [managed EXCEPT ![c] = r], manager' = manager, FitsManager(r)
    PROVE  CallsRight' /\ managed' \in [ManagedCalls -> CallStates]
  <1>1. \A d \in ManagedCalls : managed'[d] = IF d = c THEN r ELSE managed[d]
    BY DEF OInv, ManagedTypeOK
  <1>2. managed' \in [ManagedCalls -> CallStates]
    BY TypesOfParts DEF OInv
  <1> QED BY <1>1, <1>2 DEF OInv, CallsRight, FitsManager

\* The state of a call, and what the invariant says of it.
LEMMA CallState ==
    ASSUME OInv, NEW c \in ManagedCalls
    PROVE  /\ managed[c] \in CallStates
           /\ managed[c].at # "idle" => /\ managed[c].operation \in OperationsOf(manager)
                                        /\ managed[c].operation \in Operations
           /\ managed[c].fatal => SomeFailed(3)
           /\ managed[c].at = "cleaning" => SomeFailed(2)
           /\ \A op \in Operations : /\ operation_locks[op] \in Seq(ManagedCalls)
                                     /\ NoDuplicates(operation_locks[op])
                                     /\ InQueue(c, operation_locks[op]) => MayQueue(managed[c], op)
           /\ InLock(managed[c]) => Leads(c, operation_locks[managed[c].operation])
  <1>1. managed[c] \in CallStates
    BY TypesOfParts DEF OInv
  <1>2. managed[c].at # "idle" => /\ managed[c].operation \in OperationsOf(manager)
                                  /\ managed[c].operation \in Operations
    BY DEF OInv, CallsRight, OperationsOf
  <1>3. \A op \in Operations : operation_locks[op] \in Seq(ManagedCalls)
    BY DEF OInv, ManagedTypeOK
  <1> QED BY <1>1, <1>2, <1>3 DEF OInv, LocksRight, AccountsRight

\* Who leads a queue is in it.
LEMMA LeadsIsIn ==
    ASSUME NEW c, NEW s \in Seq(ManagedCalls), Leads(c, s)
    PROVE  InQueue(c, s)
  <1>1. Len(s) \in Nat /\ Len(s) > 0 /\ s[1] = c
    BY HeadTailProperties DEF Leads
  <1> QED BY <1>1 DEF InQueue

\* Who holds a lock leads its queue.
LEMMA HoldsLeads ==
    ASSUME NEW c, NEW op
    PROVE  Holds(c, op) <=> Leads(c, operation_locks[op])
  BY DEF Holds, Leads

\* The state of a call whose error is counted.
LEMMA CountedState ==
    ASSUME OInv, NEW c \in ManagedCalls, NEW id \in EntryIds \cup {"none"},
           NEW outside \in BOOLEAN, managed[c].at # "idle", Counts(c, id, outside)
    PROVE  \E r \in CallStates :
             /\ managed' = [managed EXCEPT ![c] = r]
             /\ r.operation = managed[c].operation /\ r.at = "counted" /\ r.left = {}
             /\ r.outside = outside /\ FitsManager(r)
             /\ r.fatal = (error_counts'[managed[c].operation] > FatalAfter)
             /\ error_counts' = [error_counts EXCEPT ![managed[c].operation] = @ + 1]
             /\ error_counts' \in [Operations -> Nat]
  <1> DEFINE op == managed[c].operation
             fatal == error_counts'[op] > FatalAfter
             kept == IF managed[c].tries > 1 THEN id ELSE "none"
             r == [managed[c] EXCEPT !.at = "counted", !.outside = outside, !.left = {},
                                     !.id = kept, !.fatal = fatal]
  <1>1. managed[c] \in CallStates /\ op \in Operations /\ op \in OperationsOf(manager)
    BY CallState
  <1>2. /\ error_counts' = [error_counts EXCEPT ![op] = @ + 1]
        /\ managed' = [managed EXCEPT ![c] = r]
    BY DEF Counts
  <1>3. error_counts' \in [Operations -> Nat]
    BY <1>1, <1>2 DEF OInv, ManagedTypeOK
  <1>4. fatal \in BOOLEAN /\ kept \in EntryIds \cup {"none"}
    OBVIOUS
  <1> HIDE DEF fatal, kept
  <1>5. r \in CallStates
    BY <1>1, <1>4 DEF CallStates, Handling
  <1>6. /\ r.operation = op /\ r.at = "counted" /\ r.left = {} /\ r.outside = outside
        /\ r.fatal = fatal
    BY <1>1 DEF CallStates
  <1> HIDE DEF r
  <1>7. FitsManager(r)
    BY <1>1, <1>6 DEF FitsManager, Evicting
  <1>8. r.fatal = (error_counts'[op] > FatalAfter)
    BY <1>6 DEF fatal
  <1> QED BY <1>2, <1>3, <1>5, <1>6, <1>7, <1>8

\* A call that leads the queue of its operation fails and stays there.
LEMMA FailureKeeps ==
    ASSUME OInv, NEW c \in ManagedCalls, NEW id \in EntryIds \cup {"none"},
           managed[c].at \in {"queued"} \cup Working,
           Leads(c, operation_locks[managed[c].operation]),
           Fails(c, id), manager' = manager,
           operation_locks' \in [Operations -> Seq(ManagedCalls)],
           \A op \in Operations : /\ MovesOnly(c, operation_locks[op], operation_locks'[op])
                                  /\ InQueue(c, operation_locks'[op])
                                        => op = managed[c].operation,
           Leads(c, operation_locks'[managed[c].operation])
    PROVE  /\ AccountTypeOK' /\ AccountsRight' /\ LocksRight' /\ CallsRight'
           /\ managed' \in [ManagedCalls -> CallStates]
           /\ \E r \in CallStates : /\ managed' = [managed EXCEPT ![c] = r]
                                    /\ r.at = "counted"
  <1>1. managed[c].at # "idle" /\ ~IsPending(managed[c])
    BY DEF Working, IsPending, Handling
  <1>2. managed[c].operation \in Operations
    BY <1>1, CallState
  <1>3. PICK op \in Operations : op = managed[c].operation
    BY <1>2
  <1>4. PICK r \in CallStates :
             /\ managed' = [managed EXCEPT ![c] = r]
             /\ r.operation = op /\ r.at = "counted" /\ r.left = {}
             /\ r.outside = FALSE /\ FitsManager(r)
             /\ r.fatal = (error_counts'[op] > FatalAfter)
             /\ error_counts' = [error_counts EXCEPT ![op] = @ + 1]
             /\ error_counts' \in [Operations -> Nat]
    BY <1>1, <1>3, CountedState DEF Fails
  <1>5. failed' = [failed EXCEPT ![op] = @ + 1] /\ UNCHANGED <<critical, wiped>>
    BY <1>3 DEF Fails
  <1>6. AccountTypeOK'
    BY <1>4, <1>5 DEF AccountTypeOK, OInv, ManagedTypeOK
  <1>7. AccountsRight'
    BY <1>1, <1>3, <1>4, <1>5, AccountsOfFailure
  <1>9. LocksRight'
    BY <1>3, <1>4, LocksKept DEF MayQueue, InLock, IsPending, Handling
  <1>10. CallsRight' /\ managed' \in [ManagedCalls -> CallStates]
    BY <1>4, CallsKept
  <1> QED BY <1>4, <1>6, <1>7, <1>9, <1>10

\* What the record of an idle call is.
LEMMA IdleState ==
    /\ NoManaged \in CallStates /\ NoManaged.at = "idle" /\ ~NoManaged.fatal
    /\ NoManaged.operation = "none"
  BY DEF NoManaged, CallStates, Retries

\* A call that is not evicting is in no queue but that of its operation.
LEMMA InNoOtherQueue ==
    ASSUME OInv, NEW c \in ManagedCalls, ~Evicting(managed[c]), NEW op \in Operations,
           InQueue(c, operation_locks[op])
    PROVE  op = managed[c].operation
  BY CallState DEF MayQueue

\* An operation that succeeds leaves lock and accounts right.
LEMMA SuccessKeeps ==
    ASSUME OInv, NEW c \in ManagedCalls, NEW id \in EntryIds \cup {"none"},
           managed[c].at \in {"queued", "working"},
           Leads(c, operation_locks[managed[c].operation]),
           Succeeds(c, id), manager' = manager
    PROVE  /\ AccountTypeOK' /\ AccountsRight' /\ LocksRight' /\ CallsRight'
           /\ managed' \in [ManagedCalls -> CallStates]
           /\ operation_locks' \in [Operations -> Seq(ManagedCalls)]
           /\ \E r \in CallStates : /\ managed' = [managed EXCEPT ![c] = r]
                                    /\ r.at \in {"idle", "queued"}
  <1>1. managed[c].operation \in Operations /\ managed[c].operation \in OperationsOf(manager)
    BY CallState
  <1>2. PICK op \in Operations : op = managed[c].operation
    BY <1>1
  <1>3. PICK s \in Seq(ManagedCalls) : s = operation_locks[op] /\ NoDuplicates(s) /\ Leads(c, s)
    BY <1>2, CallState
  <1>4. MovesOnly(c, s, Tail(s)) /\ ~InQueue(c, Tail(s))
    BY <1>3, TailMoves
  <1>5. PICK rest \in Seq(ManagedCalls) : /\ rest = Tail(s) /\ MovesOnly(c, s, rest)
                                          /\ ~InQueue(c, rest) /\ NoDuplicates(rest)
    BY <1>4 DEF MovesOnly
  <1>6. MovesOnly(c, rest, Append(rest, c))
    BY <1>5, AppendMoves
  <1>7. PICK again \in Seq(ManagedCalls) : again = Append(rest, c) /\ MovesOnly(c, s, again)
    BY <1>5, <1>6 DEF MovesOnly
  <1>8. operation_locks \in [Operations -> Seq(ManagedCalls)]
    BY DEF OInv, ManagedTypeOK
  <1>9. PICK r \in CallStates :
          /\ managed' = [managed EXCEPT ![c] = r]
          /\ r.fatal => managed[c].fatal
          /\ \/ r = NoManaged /\ operation_locks' = [operation_locks EXCEPT ![op] = rest]
             \/ /\ r.at = "queued" /\ r.operation = op
                /\ operation_locks' = [operation_locks EXCEPT ![op] = again]
    <2>1. CASE /\ operation_locks' = [operation_locks EXCEPT ![op] = rest]
               /\ Returns(c)
      BY <2>1, IdleState DEF Returns
    <2>2. CASE /\ managed[c].tries > 1
               /\ operation_locks' = [operation_locks EXCEPT ![op] = again]
               /\ managed' = [managed EXCEPT ![c].at = "queued", ![c].id = id, ![c].tries = @ - 1]
      <3> DEFINE tries == managed[c].tries - 1
                 r == [managed[c] EXCEPT !.at = "queued", !.id = id, !.tries = tries]
      <3>1. managed[c] \in CallStates /\ managed \in [ManagedCalls -> CallStates]
        BY TypesOfParts, CallState DEF OInv
      <3>2. tries \in 0 .. Retries
        BY <2>2, <3>1 DEF CallStates, Retries
      <3>3. managed' = [managed EXCEPT ![c] = r]
        BY <2>2, <3>1 DEF CallStates
      <3> HIDE DEF tries
      <3>4. r \in CallStates
        BY <3>1, <3>2 DEF CallStates
      <3>5. r.at = "queued" /\ r.operation = op /\ r.fatal = managed[c].fatal
        BY <1>2, <3>1 DEF CallStates
      <3> QED BY <2>2, <3>3, <3>4, <3>5
    <2> QED BY <1>2, <1>3, <1>5, <1>7, <2>1, <2>2 DEF Succeeds
  <1>10. operation_locks' \in [Operations -> Seq(ManagedCalls)]
    BY <1>8, <1>9
  <1>11. ASSUME NEW o \in Operations
         PROVE  /\ MovesOnly(c, operation_locks[o], operation_locks'[o])
                /\ InQueue(c, operation_locks'[o]) => o = op /\ r.at = "queued" /\ r.operation = op
    <2>1. CASE o = op
      BY <1>3, <1>5, <1>7, <1>8, <1>9, <2>1
    <2>2. CASE o # op
      <3>1. operation_locks'[o] = operation_locks[o]
        BY <1>8, <1>9, <2>2
      <3>2. ~InQueue(c, operation_locks[o])
        BY <1>2, <2>2, InNoOtherQueue DEF Evicting
      <3>3. MovesOnly(c, operation_locks[o], operation_locks[o])
        BY CallState, MovesNot
      <3> QED BY <3>1, <3>2, <3>3
    <2> QED BY <2>1, <2>2
  <1>12. LocksRight'
    <2>1. ~InLock(r) /\ r.at # "evicted"
      BY <1>9, IdleState DEF InLock, IsPending, Working, Handling
    <2>2. \A o \in Operations : /\ MovesOnly(c, operation_locks[o], operation_locks'[o])
                                /\ InQueue(c, operation_locks'[o]) => MayQueue(r, o)
      BY <1>11 DEF MayQueue
    <2> QED BY <1>9, <1>10, <2>1, <2>2, LocksKept
  <1>13. FitsManager(r)
    BY <1>1, <1>2, <1>9, IdleState DEF FitsManager, Evicting
  <1>14. CallsRight' /\ managed' \in [ManagedCalls -> CallStates]
    BY <1>9, <1>13, CallsKept
  <1>15. critical' = FALSE /\ UNCHANGED <<error_counts, failed, wiped>>
    BY DEF Succeeds
  <1>16. AccountsRight'
    BY <1>9, <1>15, IdleState, CallState, AccountsUntouched DEF IsPending, Handling
  <1>17. AccountTypeOK'
    BY <1>15 DEF AccountTypeOK, OInv, ManagedTypeOK
  <1> QED BY <1>9, <1>10, <1>12, <1>14, <1>16, <1>17, IdleState

\* An error raised again out of the lock leaves lock and accounts right.
LEMMA RaiseKeeps ==
    ASSUME OInv, NEW c \in ManagedCalls, managed[c].at \in Handling, Raises(c),
           manager' = manager
    PROVE  /\ AccountTypeOK' /\ AccountsRight' /\ LocksRight' /\ CallsRight'
           /\ managed' \in [ManagedCalls -> CallStates]
           /\ operation_locks' \in [Operations -> Seq(ManagedCalls)]
           /\ \E r \in CallStates : /\ managed' = [managed EXCEPT ![c] = r]
                                    /\ ~Evicting(r)
  <1>1. managed[c].at # "idle" /\ ~Evicting(managed[c]) /\ managed[c].at \notin Working
    BY DEF Handling, Evicting, Working
  <1>2. PICK op \in Operations : op = managed[c].operation /\ op \in OperationsOf(manager)
    BY <1>1, CallState
  <1>3. PICK s \in Seq(ManagedCalls) : s = operation_locks[op] /\ NoDuplicates(s)
    BY CallState
  <1>4. operation_locks \in [Operations -> Seq(ManagedCalls)]
    BY DEF OInv, ManagedTypeOK
  <1>5. \A o \in Operations : o # op => ~InQueue(c, operation_locks[o])
    BY <1>1, <1>2, InNoOtherQueue
  <1>6. \A o \in Operations : MovesOnly(c, operation_locks[o], operation_locks[o])
    BY CallState, MovesNot
  <1>7. CASE ~managed[c].outside
    <2>1. IsPending(managed[c]) /\ Leads(c, s)
      BY <1>2, <1>3, <1>7, CallState DEF IsPending, InLock
    <2>2. MovesOnly(c, s, Tail(s)) /\ ~InQueue(c, Tail(s))
      BY <1>3, <2>1, TailMoves
    <2>3. PICK rest \in Seq(ManagedCalls) : /\ rest = Tail(s) /\ MovesOnly(c, s, rest)
                                            /\ ~InQueue(c, rest)
      BY <2>2 DEF MovesOnly
    <2>4. /\ Counts(c, managed[c].id, TRUE) /\ UNCHANGED <<critical, failed, wiped>>
          /\ operation_locks' = [operation_locks EXCEPT ![op] = rest]
      BY <1>2, <1>3, <1>4, <1>7, <2>3 DEF Raises, Release
    <2>5. PICK id \in EntryIds \cup {"none"} : id = managed[c].id
      BY CallState DEF CallStates
    <2>6. PICK r \in CallStates :
             /\ managed' = [managed EXCEPT ![c] = r]
             /\ r.operation = op /\ r.at = "counted" /\ r.left = {}
             /\ r.outside = TRUE /\ FitsManager(r)
             /\ r.fatal = (error_counts'[op] > FatalAfter)
             /\ error_counts' = [error_counts EXCEPT ![op] = @ + 1]
             /\ error_counts' \in [Operations -> Nat]
      BY <1>1, <1>2, <2>4, <2>5, CountedState
    <2>7. operation_locks' \in [Operations -> Seq(ManagedCalls)]
      BY <1>4, <2>4
    <2>8. \A o \in Operations : /\ MovesOnly(c, operation_locks[o], operation_locks'[o])
                                /\ ~InQueue(c, operation_locks'[o])
      BY <1>3, <1>4, <1>5, <1>6, <2>3, <2>4
    <2>9. LocksRight'
      BY <2>6, <2>7, <2>8, LocksKept DEF InLock, IsPending, Working
    <2>10. CallsRight' /\ managed' \in [ManagedCalls -> CallStates]
      BY <2>6, CallsKept
    <2>11. AccountsRight'
      BY <1>2, <2>1, <2>4, <2>6, AccountsOfRaise
    <2>12. AccountTypeOK'
      BY <2>4, <2>6 DEF AccountTypeOK, OInv, ManagedTypeOK
    <2> QED BY <2>6, <2>7, <2>9, <2>10, <2>11, <2>12 DEF Evicting
  <1>8. CASE managed[c].outside
    <2>0. ~InQueue(c, s)
      BY <1>1, <1>2, <1>3, <1>8, CallState DEF MayQueue, InLock, IsPending, Handling
    <2>1. MovesOnly(c, s, Append(s, c))
      BY <1>3, <2>0, AppendMoves
    <2>2. PICK again \in Seq(ManagedCalls) : again = Append(s, c) /\ MovesOnly(c, s, again)
      BY <2>1 DEF MovesOnly
    <2>3. PICK r \in CallStates :
            /\ managed' = [managed EXCEPT ![c] = r] /\ ~r.fatal
            /\ \/ r = NoManaged /\ operation_locks' = operation_locks
               \/ /\ r.at = "queued" /\ r.operation = op
                  /\ operation_locks' = [operation_locks EXCEPT ![op] = again]
      <3>1. CASE TriesAgain(c)
        <4> DEFINE tries == managed[c].tries - 1
                   r == [NoManaged EXCEPT !.at = "queued", !.operation = op,
                              !.id = managed[c].id, !.tries = tries]
        <4>1. managed[c] \in CallStates
          BY CallState
        <4>2. tries \in 0 .. Retries /\ managed[c].id \in EntryIds \cup {"none"}
          BY <3>1, <4>1 DEF CallStates, Retries, TriesAgain
        <4>3. managed' = [managed EXCEPT ![c] = r]
          BY <1>2, <3>1 DEF TriesAgain
        <4>4. operation_locks' = [operation_locks EXCEPT ![op] = again]
          BY <1>2, <1>3, <2>2, <3>1, <1>4 DEF TriesAgain
        <4> HIDE DEF tries
        <4>5. r \in CallStates
          BY <4>2 DEF CallStates, NoManaged
        <4>6. r.at = "queued" /\ r.operation = op /\ ~r.fatal
          BY DEF NoManaged
        <4> QED BY <4>3, <4>4, <4>5, <4>6
      <3>2. CASE Returns(c) /\ UNCHANGED operation_locks
        BY <3>2, IdleState DEF Returns
      <3> QED BY <1>8, <3>1, <3>2 DEF Raises
    <2>4. UNCHANGED <<error_counts, critical, failed, wiped>>
      BY <1>8 DEF Raises, accounts
    <2>5. operation_locks' \in [Operations -> Seq(ManagedCalls)]
      BY <1>4, <2>3
    <2>6. \A o \in Operations :
             /\ MovesOnly(c, operation_locks[o], operation_locks'[o])
             /\ InQueue(c, operation_locks'[o]) => o = op /\ r.at = "queued" /\ r.operation = op
      BY <1>3, <1>4, <1>5, <1>6, <2>0, <2>2, <2>3
    <2>7. LocksRight'
      BY <2>3, <2>5, <2>6, IdleState, LocksKept DEF MayQueue, InLock, IsPending, Working, Handling
    <2>8. FitsManager(r)
      BY <1>2, <2>3, IdleState DEF FitsManager, Evicting
    <2>9. CallsRight' /\ managed' \in [ManagedCalls -> CallStates]
      BY <2>3, <2>8, CallsKept
    <2>10. AccountsRight'
      BY <2>3, <2>4, IdleState, AccountsUntouched DEF IsPending, Handling
    <2>11. AccountTypeOK'
      BY <2>4 DEF AccountTypeOK, OInv, ManagedTypeOK
    <2> QED BY <2>3, <2>5, <2>7, <2>9, <2>10, <2>11, IdleState DEF Evicting
  <1> QED BY <1>7, <1>8

\* A step that leaves the queues alone.
LEMMA InPlaceKeeps ==
    ASSUME OInv, NEW c \in ManagedCalls, NEW r \in CallStates,
           managed' = [managed EXCEPT ![c] = r], UNCHANGED <<manager, operation_locks>>,
           \A op \in Operations : MayQueue(managed[c], op) => MayQueue(r, op),
           InLock(r) => Leads(c, operation_locks[r.operation]),
           r.at = "evicted" => Leads(c, operation_locks["invalidate_cache"]),
           FitsManager(r)
    PROVE  /\ LocksRight' /\ CallsRight' /\ managed' \in [ManagedCalls -> CallStates]
           /\ operation_locks' \in [Operations -> Seq(ManagedCalls)]
  <1>1. operation_locks' \in [Operations -> Seq(ManagedCalls)]
    BY DEF OInv, ManagedTypeOK
  <1>2. \A op \in Operations : /\ MovesOnly(c, operation_locks[op], operation_locks'[op])
                               /\ InQueue(c, operation_locks'[op]) => MayQueue(r, op)
    BY CallState, MovesNot
  <1>3. LocksRight'
    BY <1>1, <1>2, LocksKept
  <1>4. CallsRight' /\ managed' \in [ManagedCalls -> CallStates]
    BY CallsKept
  <1> QED BY <1>1, <1>3, <1>4

\* A failure that leaves the queues alone.
LEMMA FailureInPlace ==
    ASSUME OInv, NEW c \in ManagedCalls, NEW id \in EntryIds \cup {"none"},
           managed[c].at \in {"queued"} \cup Working, ~Evicting(managed[c]),
           Leads(c, operation_locks[managed[c].operation]),
           Fails(c, id), UNCHANGED <<manager, operation_locks>>
    PROVE  /\ AccountTypeOK' /\ AccountsRight' /\ LocksRight' /\ CallsRight'
           /\ managed' \in [ManagedCalls -> CallStates]
           /\ operation_locks' \in [Operations -> Seq(ManagedCalls)]
           /\ \E r \in CallStates : /\ managed' = [managed EXCEPT ![c] = r]
                                    /\ r.at = "counted"
  <1>1. operation_locks' \in [Operations -> Seq(ManagedCalls)]
    BY DEF OInv, ManagedTypeOK
  <1>2. \A op \in Operations : /\ MovesOnly(c, operation_locks[op], operation_locks'[op])
                               /\ InQueue(c, operation_locks'[op]) => op = managed[c].operation
    BY CallState, MovesNot, InNoOtherQueue
  <1> QED BY <1>1, <1>2, FailureKeeps

\* A call of an operation keeps the invariant.
LEMMA CallsKeeps ==
    ASSUME OInv, NEW c \in ManagedCalls, NEW op \in Operations, Calls(c, op)
    PROVE  OInv'
  <1>1. /\ managed[c].at = "idle" /\ op \in OperationsOf(manager)
        /\ UNCHANGED <<manager, entries, resource_sizes, error_counts, critical, failed,
                       wiped, dropped>>
    BY DEF Calls, At, accounts
  <1>2. operation_locks \in [Operations -> Seq(ManagedCalls)]
    BY DEF OInv, ManagedTypeOK
  <1>3. \A o \in Operations : ~InQueue(c, operation_locks[o])
    BY <1>1, CallState DEF MayQueue, InLock, IsPending, Working, Handling, Evicting
  <1>4. PICK s \in Seq(ManagedCalls) : s = operation_locks[op] /\ NoDuplicates(s)
    BY CallState
  <1>5. MovesOnly(c, s, Append(s, c))
    BY <1>3, <1>4, AppendMoves
  <1>6. PICK t \in Seq(ManagedCalls) : t = Append(s, c) /\ MovesOnly(c, s, t)
    BY <1>5 DEF MovesOnly
  <1>7. operation_locks' = [operation_locks EXCEPT ![op] = t]
    BY <1>2, <1>4, <1>6 DEF Calls
  <1>8. PICK r \in CallStates :
          /\ managed' = [managed EXCEPT ![c] = r]
          /\ r.at = "queued" /\ r.operation = op /\ ~r.fatal
    <2> DEFINE tries == IF op \in {"set_cache", "get_cache"} THEN Retries ELSE 1
               r == [NoManaged EXCEPT !.at = "queued", !.operation = op, !.tries = tries]
    <2>1. tries \in 0 .. Retries
      BY DEF Retries
    <2>2. managed' = [managed EXCEPT ![c] = r]
      BY DEF Calls
    <2> HIDE DEF tries
    <2>3. r \in CallStates /\ r.at = "queued" /\ r.operation = op /\ ~r.fatal
      BY <2>1 DEF CallStates, NoManaged
    <2> QED BY <2>2, <2>3
  <1>9. operation_locks' \in [Operations -> Seq(ManagedCalls)]
    BY <1>2, <1>7
  <1>10. \A o \in Operations : /\ MovesOnly(c, operation_locks[o], operation_locks'[o])
                               /\ InQueue(c, operation_locks'[o]) => MayQueue(r, o)
    <2>1. \A o \in Operations : MovesOnly(c, operation_locks[o], operation_locks[o])
      BY CallState, MovesNot
    <2> QED BY <1>2, <1>3, <1>4, <1>6, <1>7, <1>8, <2>1 DEF MayQueue
  <1>11. ~InLock(r) /\ ~IsPending(r) /\ ~Evicting(r) /\ r.at # "tracking" /\ r.at # "cleaning"
    BY <1>8 DEF InLock, IsPending, Working, Handling, Evicting
  <1>12. LocksRight'
    BY <1>8, <1>9, <1>10, <1>11, LocksKept
  <1>13. CallsRight' /\ managed' \in [ManagedCalls -> CallStates]
    BY <1>1, <1>8, <1>11, CallsKept DEF FitsManager
  <1>14. AccountsRight'
    BY <1>1, <1>8, <1>11, AccountsUntouched
  <1>15. CacheRight'
    BY <1>1, <1>8, EntriesShrink
  <1>16. ManagedTypeOK' /\ SizesOfEntries'
    BY <1>1, <1>9, <1>13, TypesOfParts DEF OInv, ManagedTypeOK, CallStates, SizesOfEntries
  <1> QED BY <1>12, <1>13, <1>14, <1>15, <1>16 DEF OInv

\* Creating an entry keeps the invariant.
LEMMA CreatesKeeps ==
    ASSUME OInv, NEW c \in ManagedCalls, NEW id \in EntryIds, NEW type, Creates(c, id, type)
    PROVE  OInv'
  <1>1. /\ managed[c].at = "queued" /\ managed[c].operation = "create_context"
        /\ Leads(c, operation_locks[managed[c].operation])
        /\ UNCHANGED <<manager, resource_sizes>> /\ dropped' = dropped \ entries'
    BY HoldsLeads DEF Creates, Enters, At
  <1>2. manager = "contexts" /\ ~Evicting(managed[c]) /\ ~IsPending(managed[c])
    <2>1. managed[c].operation \in OperationsOf(manager)
      BY <1>1, CallState
    <2> QED BY <1>1, <2>1 DEF OperationsOf, Evicting, IsPending, Handling, OInv, ManagedTypeOK
  <1>3. SizesOfEntries' /\ StoreTypeOK'
    <2>1. entries' = entries \/ entries' = entries \cup {id}
      BY DEF Creates
    <2> QED BY <1>1, <2>1 DEF OInv, SizesOfEntries, ManagedTypeOK, StoreTypeOK
  <1>4. CASE /\ Fails(c, id) /\ UNCHANGED <<entries, operation_locks>>
    <2>1. /\ AccountTypeOK' /\ AccountsRight' /\ LocksRight' /\ CallsRight'
          /\ managed' \in [ManagedCalls -> CallStates]
          /\ operation_locks' \in [Operations -> Seq(ManagedCalls)]
      BY <1>1, <1>2, <1>4, FailureInPlace
    <2>2. PICK r \in CallStates : managed' = [managed EXCEPT ![c] = r] /\ r.at = "counted"
      BY <1>1, <1>2, <1>4, FailureInPlace
    <2>3. CacheRight'
      BY <1>1, <1>4, <2>2, EntriesShrink
    <2> QED BY <1>3, <2>1, <2>3, PartsMakeWhole
  <1>5. CASE /\ Succeeds(c, id) /\ UNCHANGED entries
    <2>1. /\ AccountTypeOK' /\ AccountsRight' /\ LocksRight' /\ CallsRight'
          /\ managed' \in [ManagedCalls -> CallStates]
          /\ operation_locks' \in [Operations -> Seq(ManagedCalls)]
      BY <1>1, <1>5, SuccessKeeps
    <2>2. PICK r \in CallStates : managed' = [managed EXCEPT ![c] = r]
                                   /\ r.at \in {"idle", "queued"}
      BY <1>1, <1>5, SuccessKeeps
    <2>3. CacheRight'
      BY <1>1, <1>5, <2>2, EntriesShrink
    <2> QED BY <1>3, <2>1, <2>3, PartsMakeWhole
  <1>6. CASE /\ entries' = entries \cup {id}
             /\ managed' = [managed EXCEPT ![c].at = "tracking", ![c].id = id]
             /\ UNCHANGED <<operation_locks, accounts>>
    <2>1. PICK r \in CallStates :
             /\ managed' = [managed EXCEPT ![c] = r]
             /\ r.at = "tracking" /\ r.id = id /\ r.operation = managed[c].operation
             /\ r.fatal = managed[c].fatal
      <3> DEFINE r == [managed[c] EXCEPT !.at = "tracking", !.id = id]
      <3>1. managed[c] \in CallStates /\ managed \in [ManagedCalls -> CallStates]
        BY TypesOfParts, CallState DEF OInv
      <3>2. r \in CallStates
        BY <3>1 DEF CallStates, Working
      <3>3. /\ managed' = [managed EXCEPT ![c] = r]
            /\ r.at = "tracking" /\ r.id = id /\ r.operation = managed[c].operation
            /\ r.fatal = managed[c].fatal
        BY <1>6, <3>1 DEF CallStates
      <3> QED BY <3>2, <3>3
    <2>2. InLock(r) /\ ~IsPending(r) /\ ~Evicting(r) /\ r.at # "cleaning"
      BY <2>1 DEF InLock, Working, IsPending, Handling, Evicting
    <2>3. \A op \in Operations : MayQueue(managed[c], op) => MayQueue(r, op)
      BY <1>2, <2>1, <2>2 DEF MayQueue
    <2>4. FitsManager(r)
      BY <1>1, <2>1, <2>2, CallState DEF FitsManager
    <2>5. /\ LocksRight' /\ CallsRight' /\ managed' \in [ManagedCalls -> CallStates]
          /\ operation_locks' \in [Operations -> Seq(ManagedCalls)]
      BY <1>1, <1>6, <2>1, <2>2, <2>3, <2>4, InPlaceKeeps
    <2>6. AccountsRight'
      BY <1>6, <2>1, <2>2, CallState, AccountsUntouched DEF accounts
    <2>7. AccountTypeOK'
      BY <1>6 DEF AccountTypeOK, accounts, OInv, ManagedTypeOK
    <2>8. CacheRight'
      BY <1>1, <1>2, <1>6, <2>1, <2>2, EntriesGrow
    <2> QED BY <1>3, <2>5, <2>6, <2>7, <2>8, PartsMakeWhole
  <1> QED BY <1>4, <1>5, <1>6 DEF Creates

\* A call goes on to another place with its operation, and nothing is counted.
LEMMA GoingOn ==
    ASSUME OInv, NEW c \in ManagedCalls, NEW r \in CallStates,
           managed' = [managed EXCEPT ![c] = r],
           UNCHANGED <<manager, operation_locks, error_counts, failed, critical, wiped>>,
           r.operation = managed[c].operation, r.fatal = managed[c].fatal,
           r.outside = managed[c].outside,
           \/ managed[c].at = "queued" \/ managed[c].at \in Working
           \/ managed[c].at \in Handling /\ r.at \in Handling,
           r.at \in Working \cup Handling,
           r.at \in Handling => managed[c].at \in Handling,
           InLock(r) => Leads(c, operation_locks[managed[c].operation]),
           r.at = "cleaning" => SomeFailed(2),
           r.at = "tracking" \/ Evicting(r) => r.id \in EntryIds,
           Evicting(managed[c]) => Evicting(r),
           Evicting(r) => r.operation = "set_cache",
           r.at = "evicted" => Leads(c, operation_locks["invalidate_cache"])
    PROVE  /\ LocksRight' /\ CallsRight' /\ managed' \in [ManagedCalls -> CallStates]
           /\ operation_locks' \in [Operations -> Seq(ManagedCalls)]
           /\ AccountsRight' /\ AccountTypeOK'
  <1>1. /\ managed[c].at # "idle" /\ (IsPending(managed[c]) => IsPending(r))
        /\ (IsPending(r) => IsPending(managed[c]))
    BY DEF Working, Handling, IsPending
  <1>2. FitsManager(r)
    BY <1>1, CallState DEF FitsManager
  <1>3. managed[c].at = "queued" \/ InLock(managed[c]) => r.at = "queued" \/ InLock(r)
    BY DEF InLock, IsPending, Working, Handling
  <1>4. \A op \in Operations : MayQueue(managed[c], op) => MayQueue(r, op)
    BY <1>3 DEF MayQueue
  <1>5. /\ LocksRight' /\ CallsRight' /\ managed' \in [ManagedCalls -> CallStates]
        /\ operation_locks' \in [Operations -> Seq(ManagedCalls)]
    BY <1>2, <1>4, InPlaceKeeps
  <1>6. AccountsRight'
    BY <1>1, CallState, AccountsUntouched
  <1>7. AccountTypeOK'
    BY DEF AccountTypeOK, OInv, ManagedTypeOK
  <1> QED BY <1>5, <1>6, <1>7

\* Reporting a size keeps the invariant.
LEMMA TracksResourceKeeps ==
    ASSUME OInv, NEW c \in ManagedCalls, TracksResource(c)
    PROVE  OInv'
  <1>1. /\ managed[c].at = "tracking" /\ managed[c].id \in EntryIds
        /\ UNCHANGED <<manager, entries, operation_locks, error_counts, failed, critical, wiped>>
    BY DEF TracksResource, At, accounts, OInv, CallsRight
  <1>2. PICK r \in CallStates :
          /\ managed' = [managed EXCEPT ![c] = r] /\ r.at = "working"
          /\ r.operation = managed[c].operation /\ r.fatal = managed[c].fatal
          /\ r.outside = managed[c].outside
    <2> DEFINE r == [managed[c] EXCEPT !.at = "working", !.id = "none"]
    <2>1. managed[c] \in CallStates /\ managed \in [ManagedCalls -> CallStates]
      BY TypesOfParts, CallState DEF OInv
    <2>2. r \in CallStates
      BY <2>1 DEF CallStates, Working
    <2>3. /\ managed' = [managed EXCEPT ![c] = r] /\ r.at = "working"
          /\ r.operation = managed[c].operation /\ r.fatal = managed[c].fatal
          /\ r.outside = managed[c].outside
      BY <2>1 DEF CallStates, TracksResource
    <2> QED BY <2>2, <2>3
  <1>3. ~Evicting(r) /\ ~Evicting(managed[c]) /\ r.at \in Working /\ r.at \notin Handling
        /\ managed[c].at \in Working /\ r.at \notin {"tracking", "cleaning"}
    BY <1>1, <1>2 DEF Evicting, Working, Handling
  <1>4. InLock(managed[c])
    BY <1>3 DEF InLock
  <1>5. /\ LocksRight' /\ CallsRight' /\ managed' \in [ManagedCalls -> CallStates]
        /\ operation_locks' \in [Operations -> Seq(ManagedCalls)]
        /\ AccountsRight' /\ AccountTypeOK'
    BY <1>1, <1>2, <1>3, <1>4, CallState, GoingOn DEF Evicting
  <1>6. CacheRight'
    BY <1>1, <1>2, EntriesShrink
  <1>7. StoreTypeOK' /\ SizesOfEntries'
    BY <1>1 DEF TracksResource, StoreTypeOK, SizesOfEntries, OInv, ManagedTypeOK
  <1> QED BY <1>5, <1>6, <1>7, PartsMakeWhole

\* Looking an entry up keeps the invariant.
LEMMA ConsultsKeeps ==
    ASSUME OInv, NEW c \in ManagedCalls, NEW id \in EntryIds, Consults(c, id)
    PROVE  OInv'
  <1>1. /\ managed[c].at = "queued" /\ Leads(c, operation_locks[managed[c].operation])
        /\ UNCHANGED <<manager, entries, dropped>>
    BY HoldsLeads DEF Consults, Enters, At
  <1>2. SizesOfEntries' /\ StoreTypeOK'
    BY <1>1 DEF Consults, OInv, SizesOfEntries, ManagedTypeOK, StoreTypeOK
  <1>3. CASE Fails(c, id) /\ UNCHANGED operation_locks
    <2>1. ~Evicting(managed[c])
      BY <1>1 DEF Evicting
    <2>2. /\ AccountTypeOK' /\ AccountsRight' /\ LocksRight' /\ CallsRight'
          /\ managed' \in [ManagedCalls -> CallStates]
          /\ operation_locks' \in [Operations -> Seq(ManagedCalls)]
      BY <1>1, <1>3, <2>1, FailureInPlace
    <2>3. PICK r \in CallStates : managed' = [managed EXCEPT ![c] = r] /\ r.at = "counted"
      BY <1>1, <1>3, <2>1, FailureInPlace
    <2>4. CacheRight'
      BY <1>1, <2>3, EntriesShrink
    <2> QED BY <1>2, <2>2, <2>4, PartsMakeWhole
  <1>4. CASE Succeeds(c, id)
    <2>1. /\ AccountTypeOK' /\ AccountsRight' /\ LocksRight' /\ CallsRight'
          /\ managed' \in [ManagedCalls -> CallStates]
          /\ operation_locks' \in [Operations -> Seq(ManagedCalls)]
      BY <1>1, <1>4, SuccessKeeps
    <2>2. PICK r \in CallStates : managed' = [managed EXCEPT ![c] = r]
                                   /\ r.at \in {"idle", "queued"}
      BY <1>1, <1>4, SuccessKeeps
    <2>3. CacheRight'
      BY <1>1, <2>2, EntriesShrink
    <2> QED BY <1>2, <2>1, <2>3, PartsMakeWhole
  <1> QED BY <1>3, <1>4 DEF Consults

\* The end of an operation keeps the invariant.
LEMMA FinishesKeeps ==
    ASSUME OInv, NEW c \in ManagedCalls, Finishes(c)
    PROVE  OInv'
  <1>1. /\ managed[c].at = "working" /\ UNCHANGED <<manager, entries, resource_sizes, dropped>>
    BY DEF Finishes, At
  <1>2. Leads(c, operation_locks[managed[c].operation])
    BY <1>1, CallState DEF InLock, Working
  <1>3. PICK id \in EntryIds \cup {"none"} : id = managed[c].id
    BY CallState DEF CallStates
  <1>4. Succeeds(c, id)
    BY <1>3 DEF Finishes
  <1>5. /\ AccountTypeOK' /\ AccountsRight' /\ LocksRight' /\ CallsRight'
        /\ managed' \in [ManagedCalls -> CallStates]
        /\ operation_locks' \in [Operations -> Seq(ManagedCalls)]
    BY <1>1, <1>2, <1>4, SuccessKeeps
  <1>6. PICK r \in CallStates : managed' = [managed EXCEPT ![c] = r]
                                 /\ r.at \in {"idle", "queued"}
    BY <1>1, <1>2, <1>4, SuccessKeeps
  <1>7. CacheRight'
    BY <1>1, <1>6, EntriesShrink
  <1>8. StoreTypeOK' /\ SizesOfEntries'
    BY <1>1 DEF StoreTypeOK, SizesOfEntries, OInv, ManagedTypeOK
  <1> QED BY <1>5, <1>7, <1>8, PartsMakeWhole

\* The value is stored, whatever becomes of the call.
LEMMA StoredState ==
    ASSUME OInv, NEW c \in ManagedCalls, NEW id \in EntryIds, Stores(c, id),
           managed[c].operation = "set_cache", UNCHANGED manager,
           Leads(c, operation_locks["set_cache"]), Cardinality(entries) < max_entries,
           NEW r \in CallStates, managed' = [managed EXCEPT ![c] = r], ~Evicting(r)
    PROVE  CacheRight' /\ SizesOfEntries' /\ StoreTypeOK'
  <1>1. /\ entries' = entries \cup {id} /\ resource_sizes' = resource_sizes \cup {id}
        /\ UNCHANGED dropped
    BY DEF Stores
  <1>2. CacheRight'
    BY <1>1, EntriesGrow
  <1> QED BY <1>1, <1>2 DEF SizesOfEntries, StoreTypeOK, OInv, ManagedTypeOK

\* A value that is not too large: the call goes on to work.
LEMMA StoringState ==
    ASSUME OInv, NEW c \in ManagedCalls, NEW id \in EntryIds,
           managed' = [managed EXCEPT ![c].at = "working", ![c].id = id]
    PROVE  \E r \in CallStates :
             /\ managed' = [managed EXCEPT ![c] = r] /\ r.at = "working"
             /\ r.operation = managed[c].operation /\ r.fatal = managed[c].fatal
             /\ r.outside = managed[c].outside
  <1> DEFINE r == [managed[c] EXCEPT !.at = "working", !.id = id]
  <1>1. managed[c] \in CallStates /\ managed \in [ManagedCalls -> CallStates]
    BY TypesOfParts, CallState DEF OInv
  <1>2. r \in CallStates
    BY <1>1 DEF CallStates, Working
  <1>3. /\ managed' = [managed EXCEPT ![c] = r] /\ r.at = "working"
        /\ r.operation = managed[c].operation /\ r.fatal = managed[c].fatal
        /\ r.outside = managed[c].outside
    BY <1>1 DEF CallStates
  <1> QED BY <1>2, <1>3

\* Putting a value into the cache keeps the invariant.
LEMMA SetsCacheKeeps ==
    ASSUME OInv, NEW c \in ManagedCalls, NEW id \in EntryIds, SetsCache(c, id)
    PROVE  OInv'
  <1>1. /\ managed[c].at = "queued" /\ managed[c].operation = "set_cache"
        /\ Leads(c, operation_locks["set_cache"]) /\ UNCHANGED manager
    BY HoldsLeads DEF SetsCache, Enters, At
  <1>2. ~Evicting(managed[c]) /\ ~IsPending(managed[c]) /\ manager = "cache"
    <2>1. managed[c].operation \in OperationsOf(manager)
      BY <1>1, CallState
    <2> QED BY <1>1, <2>1 DEF OperationsOf, Evicting, IsPending, Handling
  <1>3. CASE ~Full /\ Stores(c, id) /\ UNCHANGED operation_locks
    <2>1. Cardinality(entries) < max_entries
      <3>1. Cardinality(entries) \in Nat
        BY FS_CardinalityType DEF OInv, CacheRight
      <3> QED BY <1>3, <3>1, EntriesAssumption DEF Full
    <2>2. CASE Fails(c, id)
      <3>1. /\ AccountTypeOK' /\ AccountsRight' /\ LocksRight' /\ CallsRight'
            /\ managed' \in [ManagedCalls -> CallStates]
            /\ operation_locks' \in [Operations -> Seq(ManagedCalls)]
        BY <1>1, <1>2, <1>3, <2>2, FailureInPlace
      <3>2. PICK r \in CallStates : managed' = [managed EXCEPT ![c] = r] /\ r.at = "counted"
        BY <1>1, <1>2, <1>3, <2>2, FailureInPlace
      <3>3. CacheRight' /\ SizesOfEntries' /\ StoreTypeOK'
        BY <1>1, <1>3, <2>1, <3>2, StoredState DEF Evicting
      <3> QED BY <3>1, <3>3, PartsMakeWhole
    <2>3. CASE /\ managed' = [managed EXCEPT ![c].at = "working", ![c].id = id]
               /\ UNCHANGED accounts
      <3>1. PICK r \in CallStates :
             /\ managed' = [managed EXCEPT ![c] = r] /\ r.at = "working"
             /\ r.operation = managed[c].operation /\ r.fatal = managed[c].fatal
             /\ r.outside = managed[c].outside
        BY <2>3, StoringState
      <3>2. r.at \in Working /\ r.at \notin Handling /\ ~Evicting(r)
        BY <3>1 DEF Working, Handling, Evicting
      <3>3. /\ LocksRight' /\ CallsRight' /\ managed' \in [ManagedCalls -> CallStates]
            /\ operation_locks' \in [Operations -> Seq(ManagedCalls)]
            /\ AccountsRight' /\ AccountTypeOK'
        BY <1>1, <1>2, <1>3, <2>3, <3>1, <3>2, GoingOn DEF accounts
      <3>4. CacheRight' /\ SizesOfEntries' /\ StoreTypeOK'
        BY <1>1, <1>3, <2>1, <3>1, <3>2, StoredState
      <3> QED BY <3>3, <3>4, PartsMakeWhole
    <2> QED BY <1>3, <2>2, <2>3 DEF Stores
  <1>4. ASSUME NEW oldest \in entries,
               managed' = [managed EXCEPT ![c].at = "evicting", ![c].id = id,
                                          ![c].left = {oldest}],
               operation_locks' = [operation_locks EXCEPT !["invalidate_cache"] = Append(@, c)],
               UNCHANGED <<entries, resource_sizes, accounts, dropped>>
        PROVE  OInv'
    <2>0. oldest \in EntryIds /\ "invalidate_cache" \in Operations /\ "set_cache" \in Operations
      BY DEF OInv, ManagedTypeOK, Operations
    <2>1. PICK r \in CallStates :
             /\ managed' = [managed EXCEPT ![c] = r] /\ r.at = "evicting" /\ r.id = id
             /\ r.left = {oldest} /\ r.operation = "set_cache" /\ r.fatal = managed[c].fatal
      <3> DEFINE r == [managed[c] EXCEPT !.at = "evicting", !.id = id, !.left = {oldest}]
      <3>1. managed[c] \in CallStates /\ managed \in [ManagedCalls -> CallStates]
        BY TypesOfParts, CallState DEF OInv
      <3>2. r \in CallStates
        BY <2>0, <3>1 DEF CallStates, Working
      <3>3. managed' = [managed EXCEPT ![c] = r]
        BY <1>4, <3>1 DEF CallStates
      <3>4. /\ r.at = "evicting" /\ r.id = id /\ r.left = {oldest}
            /\ r.operation = "set_cache" /\ r.fatal = managed[c].fatal
        BY <1>1, <3>1 DEF CallStates
      <3> QED BY <3>2, <3>3, <3>4
    <2>2. operation_locks \in [Operations -> Seq(ManagedCalls)]
      BY DEF OInv, ManagedTypeOK
    <2>3. PICK s \in Seq(ManagedCalls) :
             s = operation_locks["invalidate_cache"] /\ NoDuplicates(s)
      BY <2>0, CallState
    <2>4. ~InQueue(c, s)
      BY <1>1, <1>2, <2>0, <2>3, InNoOtherQueue
    <2>5. MovesOnly(c, s, Append(s, c))
      BY <2>3, <2>4, AppendMoves
    <2>6. PICK t \in Seq(ManagedCalls) : t = Append(s, c) /\ MovesOnly(c, s, t)
      BY <2>5 DEF MovesOnly
    <2>7. operation_locks' = [operation_locks EXCEPT !["invalidate_cache"] = t]
      BY <1>4, <2>0, <2>2, <2>3, <2>6
    <2>8. operation_locks' \in [Operations -> Seq(ManagedCalls)]
      BY <2>2, <2>7
    <2>9. Evicting(r) /\ InLock(r) /\ r.at # "evicted" /\ ~IsPending(r) /\ r.at # "cleaning"
      BY <2>1 DEF Evicting, InLock, Working, IsPending, Handling
    <2>10. \A op \in Operations : MovesOnly(c, operation_locks[op], operation_locks[op])
      BY CallState, MovesNot
    <2>11. \A op \in Operations : InQueue(c, operation_locks[op]) => op = "set_cache"
      BY <1>1, <1>2, InNoOtherQueue
    <2>12. \A op \in Operations : /\ MovesOnly(c, operation_locks[op], operation_locks'[op])
                                  /\ InQueue(c, operation_locks'[op])
                                       => op = "set_cache" \/ op = "invalidate_cache"
      BY <2>0, <2>2, <2>3, <2>6, <2>7, <2>10, <2>11
    <2>13. \A op \in Operations : InQueue(c, operation_locks'[op]) => MayQueue(r, op)
      BY <2>1, <2>9, <2>12 DEF MayQueue
    <2>14. Leads(c, operation_locks'[r.operation])
      BY <1>1, <2>1, <2>0, <2>2, <2>7
    <2>15. LocksRight'
      BY <2>1, <2>8, <2>9, <2>12, <2>13, <2>14, LocksKept
    <2>16. FitsManager(r)
      BY <1>1, <2>1, CallState DEF FitsManager
    <2>17. CallsRight' /\ managed' \in [ManagedCalls -> CallStates]
      BY <1>1, <2>1, <2>16, CallsKept
    <2>18. AccountsRight'
      BY <1>4, <2>1, <2>9, CallState, AccountsUntouched DEF accounts
    <2>19. CacheRight'
      BY <1>1, <1>4, <2>0, <2>1, EntriesShrink
    <2>20. AccountTypeOK' /\ StoreTypeOK' /\ SizesOfEntries'
      BY <1>1, <1>4 DEF AccountTypeOK, accounts, StoreTypeOK, SizesOfEntries, OInv, ManagedTypeOK
    <2> QED BY <2>8, <2>15, <2>17, <2>18, <2>19, <2>20, PartsMakeWhole
  <1> QED BY <1>3, <1>4 DEF SetsCache

\* Removing an entry removes its size.
LEMMA RemovesKeeps ==
    ASSUME OInv, NEW id, Removes(id), UNCHANGED manager
    PROVE  StoreTypeOK' /\ SizesOfEntries' /\ entries' = entries \ {id}
  BY DEF Removes, StoreTypeOK, SizesOfEntries, OInv, ManagedTypeOK

\* Evicting the oldest entry keeps the invariant.
LEMMA EvictsKeeps ==
    ASSUME OInv, NEW c \in ManagedCalls, Evicts(c)
    PROVE  OInv'
  <1>1. /\ managed[c].at = "evicting" /\ Leads(c, operation_locks["invalidate_cache"])
        /\ UNCHANGED <<manager, operation_locks, error_counts, critical, failed, wiped>>
    BY HoldsLeads DEF Evicts, At, accounts
  <1>2. Evicting(managed[c]) /\ managed[c].at \in Working /\ InLock(managed[c])
    BY <1>1 DEF Evicting, Working, InLock
  <1>3. managed[c].operation = "set_cache" /\ managed[c].id \in EntryIds /\ manager = "cache"
    <2>1. managed[c].operation = "set_cache" /\ managed[c].id \in EntryIds
      BY <1>2 DEF OInv, CallsRight
    <2>2. managed[c].operation \in OperationsOf(manager)
      BY <1>1, CallState
    <2> QED BY <2>1, <2>2 DEF OperationsOf
  <1>4. PICK oldest \in EntryIds : /\ managed[c].left = {oldest}
                                   /\ oldest \in entries \/ Cardinality(entries) < max_entries
    BY <1>1 DEF OInv, CacheRight
  <1>5. Removes(oldest)
    BY <1>4 DEF Evicts
  <1>6. StoreTypeOK' /\ SizesOfEntries' /\ entries' = entries \ {oldest}
    BY <1>1, <1>5, RemovesKeeps
  <1>7. Cardinality(entries') < max_entries
    <2>1. /\ IsFiniteSet(entries) /\ Cardinality(entries) \in Nat
          /\ Cardinality(entries) <= max_entries
      BY <1>3, FS_CardinalityType DEF OInv, CacheRight
    <2>2. Cardinality(entries') = IF oldest \in entries THEN Cardinality(entries) - 1
                                                        ELSE Cardinality(entries)
      BY <1>6, <2>1, FS_RemoveElement
    <2> QED BY <1>4, <2>1, <2>2, EntriesAssumption
  <1>8. PICK r \in CallStates :
          /\ managed' = [managed EXCEPT ![c] = r] /\ r.at = "evicted"
          /\ r.operation = managed[c].operation /\ r.fatal = managed[c].fatal
          /\ r.outside = managed[c].outside /\ r.id = managed[c].id
    <2> DEFINE r == [managed[c] EXCEPT !.at = "evicted", !.left = {}]
    <2>1. managed[c] \in CallStates /\ managed \in [ManagedCalls -> CallStates]
      BY TypesOfParts, CallState DEF OInv
    <2>2. r \in CallStates
      BY <2>1 DEF CallStates, Working
    <2>3. /\ managed' = [managed EXCEPT ![c] = r] /\ r.at = "evicted"
          /\ r.operation = managed[c].operation /\ r.fatal = managed[c].fatal
          /\ r.outside = managed[c].outside /\ r.id = managed[c].id
      BY <2>1 DEF CallStates, Evicts
    <2> QED BY <2>2, <2>3
  <1>9. r.at \in Working /\ r.at \notin Handling /\ Evicting(r)
    BY <1>8 DEF Working, Handling, Evicting
  <1>10. Leads(c, operation_locks[managed[c].operation])
    BY <1>2, CallState
  <1>11. /\ LocksRight' /\ CallsRight' /\ managed' \in [ManagedCalls -> CallStates]
         /\ operation_locks' \in [Operations -> Seq(ManagedCalls)]
         /\ AccountsRight' /\ AccountTypeOK'
    BY <1>1, <1>2, <1>3, <1>8, <1>9, <1>10, GoingOn
  <1>12. CacheRight'
    BY <1>1, <1>6, <1>7, <1>8, EntriesShrink
  <1> QED BY <1>6, <1>11, <1>12, PartsMakeWhole

\* Invalidating an entry keeps the invariant.
LEMMA InvalidatesKeeps ==
    ASSUME OInv, NEW c \in ManagedCalls, NEW id \in EntryIds, Invalidates(c, id)
    PROVE  OInv'
  <1>1. /\ managed[c].at = "queued" /\ Leads(c, operation_locks[managed[c].operation])
        /\ UNCHANGED <<manager, operation_locks, error_counts, critical, failed, wiped>>
        /\ Removes(id)
    BY HoldsLeads DEF Invalidates, Enters, At, accounts
  <1>2. StoreTypeOK' /\ SizesOfEntries' /\ entries' = entries \ {id}
    BY <1>1, RemovesKeeps
  <1>3. PICK r \in CallStates :
          /\ managed' = [managed EXCEPT ![c] = r] /\ r.at = "working"
          /\ r.operation = managed[c].operation /\ r.fatal = managed[c].fatal
          /\ r.outside = managed[c].outside
    <2> DEFINE r == [managed[c] EXCEPT !.at = "working"]
    <2>1. managed[c] \in CallStates /\ managed \in [ManagedCalls -> CallStates]
      BY TypesOfParts, CallState DEF OInv
    <2>2. r \in CallStates
      BY <2>1 DEF CallStates, Working
    <2>3. /\ managed' = [managed EXCEPT ![c] = r] /\ r.at = "working"
          /\ r.operation = managed[c].operation /\ r.fatal = managed[c].fatal
          /\ r.outside = managed[c].outside
      BY <2>1 DEF CallStates, Invalidates, GoesTo
    <2> QED BY <2>2, <2>3
  <1>4. r.at \in Working /\ r.at \notin Handling /\ ~Evicting(r) /\ ~Evicting(managed[c])
    BY <1>1, <1>3 DEF Working, Handling, Evicting
  <1>5. /\ LocksRight' /\ CallsRight' /\ managed' \in [ManagedCalls -> CallStates]
        /\ operation_locks' \in [Operations -> Seq(ManagedCalls)]
        /\ AccountsRight' /\ AccountTypeOK'
    BY <1>1, <1>3, <1>4, GoingOn
  <1>6. CacheRight'
    BY <1>1, <1>2, <1>3, EntriesShrink
  <1> QED BY <1>2, <1>5, <1>6, PartsMakeWhole

\* Storing after an eviction keeps the invariant.
LEMMA StoresAfterKeeps ==
    ASSUME OInv, NEW c \in ManagedCalls, StoresAfter(c)
    PROVE  OInv'
  <1>1. managed[c].at = "evicted" /\ UNCHANGED manager
    BY DEF StoresAfter, At
  <1>2. Evicting(managed[c]) /\ managed[c].at \in Working /\ InLock(managed[c])
    BY <1>1 DEF Evicting, Working, InLock
  <1>3. managed[c].operation = "set_cache" /\ managed[c].id \in EntryIds
    BY <1>2 DEF OInv, CallsRight
  <1>4. PICK id \in EntryIds : id = managed[c].id /\ Stores(c, id)
    BY <1>3 DEF StoresAfter
  <1>5. Leads(c, operation_locks["set_cache"])
    BY <1>2, <1>3, CallState
  <1>6. Cardinality(entries) < max_entries
    BY <1>1 DEF OInv, CacheRight
  <1>7. operation_locks \in [Operations -> Seq(ManagedCalls)]
        /\ "invalidate_cache" \in Operations /\ "set_cache" \in Operations
    BY DEF OInv, ManagedTypeOK, Operations
  <1>8. PICK s \in Seq(ManagedCalls) : s = operation_locks["invalidate_cache"]
                                        /\ NoDuplicates(s) /\ Leads(c, s)
    BY <1>1, <1>7, CallState DEF OInv, LocksRight
  <1>9. MovesOnly(c, s, Tail(s)) /\ ~InQueue(c, Tail(s))
    BY <1>8, TailMoves
  <1>10. PICK rest \in Seq(ManagedCalls) : /\ rest = Tail(s) /\ MovesOnly(c, s, rest)
                                           /\ ~InQueue(c, rest)
    BY <1>9 DEF MovesOnly
  <1>11. operation_locks' = [operation_locks EXCEPT !["invalidate_cache"] = rest]
    BY <1>7, <1>8, <1>10 DEF StoresAfter, Release
  <1>12. operation_locks' \in [Operations -> Seq(ManagedCalls)]
    BY <1>7, <1>11
  <1>13. \A op \in Operations : MovesOnly(c, operation_locks[op], operation_locks[op])
    BY CallState, MovesNot
  <1>14. \A op \in Operations : InQueue(c, operation_locks[op])
                                   => op = "set_cache" \/ op = "invalidate_cache"
    BY <1>3, CallState DEF MayQueue
  <1>15. \A op \in Operations : /\ MovesOnly(c, operation_locks[op], operation_locks'[op])
                                /\ InQueue(c, operation_locks'[op]) => op = "set_cache"
    BY <1>7, <1>8, <1>10, <1>11, <1>13, <1>14
  <1>16. Leads(c, operation_locks'["set_cache"])
    BY <1>5, <1>7, <1>11
  <1>17. CASE Fails(c, id)
    <2>1. /\ AccountTypeOK' /\ AccountsRight' /\ LocksRight' /\ CallsRight'
          /\ managed' \in [ManagedCalls -> CallStates]
      BY <1>1, <1>2, <1>3, <1>5, <1>12, <1>15, <1>16, <1>17, FailureKeeps
    <2>2. PICK r \in CallStates : managed' = [managed EXCEPT ![c] = r] /\ r.at = "counted"
      BY <1>1, <1>2, <1>3, <1>5, <1>12, <1>15, <1>16, <1>17, FailureKeeps
    <2>3. CacheRight' /\ SizesOfEntries' /\ StoreTypeOK'
      BY <1>1, <1>3, <1>4, <1>5, <1>6, <2>2, StoredState DEF Evicting
    <2> QED BY <1>12, <2>1, <2>3, PartsMakeWhole
  <1>18. CASE /\ managed' = [managed EXCEPT ![c].at = "working", ![c].id = id]
              /\ UNCHANGED accounts
    <2>1. PICK r \in CallStates :
            /\ managed' = [managed EXCEPT ![c] = r] /\ r.at = "working"
            /\ r.operation = managed[c].operation /\ r.fatal = managed[c].fatal
            /\ r.outside = managed[c].outside
      BY <1>18, StoringState
    <2>2. InLock(r) /\ r.at # "evicted" /\ ~Evicting(r) /\ ~IsPending(r) /\ r.at # "cleaning"
          /\ r.at # "tracking"
      BY <2>1 DEF InLock, Working, Evicting, IsPending, Handling
    <2>3. \A op \in Operations : InQueue(c, operation_locks'[op]) => MayQueue(r, op)
      BY <1>3, <1>15, <2>1, <2>2 DEF MayQueue
    <2>4. LocksRight'
      BY <1>3, <1>12, <1>15, <1>16, <2>1, <2>2, <2>3, LocksKept
    <2>5. FitsManager(r)
      BY <1>1, <2>1, <2>2, CallState DEF FitsManager
    <2>6. CallsRight' /\ managed' \in [ManagedCalls -> CallStates]
      BY <1>1, <2>1, <2>5, CallsKept
    <2>7. AccountsRight'
      BY <1>18, <2>1, <2>2, CallState, AccountsUntouched DEF accounts
    <2>8. AccountTypeOK'
      BY <1>18 DEF AccountTypeOK, accounts, OInv, ManagedTypeOK
    <2>9. CacheRight' /\ SizesOfEntries' /\ StoreTypeOK'
      BY <1>1, <1>3, <1>4, <1>5, <1>6, <2>1, <2>2, StoredState
    <2> QED BY <1>12, <2>4, <2>6, <2>7, <2>8, <2>9, PartsMakeWhole
  <1> QED BY <1>4, <1>17, <1>18 DEF Stores

\* A call that times out keeps the invariant.
LEMMA TimesOutKeeps ==
    ASSUME OInv, NEW c \in ManagedCalls, TimesOut(c)
    PROVE  OInv'
  <1>1. managed[c].at \in Working /\ UNCHANGED <<manager, entries, resource_sizes, dropped>>
    BY DEF TimesOut
  <1>2. InLock(managed[c]) /\ managed[c].at # "idle"
    BY <1>1 DEF Working, InLock
  <1>3. PICK id \in EntryIds \cup {"none"} : id = managed[c].id
    BY CallState DEF CallStates
  <1>4. Fails(c, id)
    BY <1>3 DEF TimesOut
  <1>5. PICK op \in Operations : op = managed[c].operation
    BY <1>2, CallState
  <1>6. Leads(c, operation_locks[op])
    BY <1>2, <1>5, CallState
  <1>7. operation_locks \in [Operations -> Seq(ManagedCalls)]
        /\ "invalidate_cache" \in Operations
    BY DEF OInv, ManagedTypeOK, Operations
  <1>8. PICK s \in Seq(ManagedCalls) : s = operation_locks["invalidate_cache"]
                                        /\ NoDuplicates(s)
    BY <1>7, CallState
  <1>9. MovesOnly(c, s, RemoveFirst(s, c)) /\ ~InQueue(c, RemoveFirst(s, c))
    BY <1>8, RemoveMoves
  <1>10. PICK rest \in Seq(ManagedCalls) : /\ rest = RemoveFirst(s, c) /\ MovesOnly(c, s, rest)
                                           /\ ~InQueue(c, rest)
    BY <1>9 DEF MovesOnly
  <1>11. \A o \in Operations : MovesOnly(c, operation_locks[o], operation_locks[o])
    BY CallState, MovesNot
  <1>12. CASE op = "set_cache"
    <2>1. operation_locks' = [operation_locks EXCEPT !["invalidate_cache"] = rest]
      BY <1>5, <1>7, <1>8, <1>10, <1>12 DEF TimesOut
    <2>2. operation_locks' \in [Operations -> Seq(ManagedCalls)]
      BY <1>7, <2>1
    <2>3. \A o \in Operations : InQueue(c, operation_locks[o])
                                   => o = op \/ o = "invalidate_cache"
      BY <1>5, CallState DEF MayQueue
    <2>4. \A o \in Operations : /\ MovesOnly(c, operation_locks[o], operation_locks'[o])
                                /\ InQueue(c, operation_locks'[o]) => o = op
      BY <1>7, <1>8, <1>10, <1>11, <2>1, <2>3
    <2>5. Leads(c, operation_locks'[op])
      BY <1>6, <1>7, <1>12, <2>1
    <2>6. /\ AccountTypeOK' /\ AccountsRight' /\ LocksRight' /\ CallsRight'
          /\ managed' \in [ManagedCalls -> CallStates]
      BY <1>1, <1>4, <1>5, <1>6, <2>2, <2>4, <2>5, FailureKeeps
    <2>7. PICK r \in CallStates : managed' = [managed EXCEPT ![c] = r] /\ r.at = "counted"
      BY <1>1, <1>4, <1>5, <1>6, <2>2, <2>4, <2>5, FailureKeeps
    <2>8. CacheRight'
      BY <1>1, <2>7, EntriesShrink
    <2>9. StoreTypeOK' /\ SizesOfEntries'
      BY <1>1 DEF StoreTypeOK, SizesOfEntries, OInv, ManagedTypeOK
    <2> QED BY <2>2, <2>6, <2>8, <2>9, PartsMakeWhole
  <1>13. CASE op # "set_cache"
    <2>1. UNCHANGED operation_locks
      BY <1>5, <1>7, <1>13 DEF TimesOut
    <2>2. ~Evicting(managed[c])
      BY <1>5, <1>13 DEF OInv, CallsRight
    <2>3. /\ AccountTypeOK' /\ AccountsRight' /\ LocksRight' /\ CallsRight'
          /\ managed' \in [ManagedCalls -> CallStates]
          /\ operation_locks' \in [Operations -> Seq(ManagedCalls)]
      BY <1>1, <1>4, <1>5, <1>6, <2>1, <2>2, FailureInPlace
    <2>4. PICK r \in CallStates : managed' = [managed EXCEPT ![c] = r] /\ r.at = "counted"
      BY <1>1, <1>4, <1>5, <1>6, <2>1, <2>2, FailureInPlace
    <2>5. CacheRight'
      BY <1>1, <2>4, EntriesShrink
    <2>6. StoreTypeOK' /\ SizesOfEntries'
      BY <1>1 DEF StoreTypeOK, SizesOfEntries, OInv, ManagedTypeOK
    <2> QED BY <2>3, <2>5, <2>6, PartsMakeWhole
  <1> QED BY <1>12, <1>13

\* A step of the handling of an error, to another place in it.
LEMMA HandlingGoesOn ==
    ASSUME OInv, NEW c \in ManagedCalls, managed[c].at \in Handling,
           NEW place \in Handling, NEW left \in SUBSET EntryIds,
           managed' = [managed EXCEPT ![c].at = place, ![c].left = left],
           UNCHANGED <<manager, operation_locks, error_counts, failed>>,
           entries' \subseteq entries,
           place = "cleaning" => SomeFailed(2),
           wiped' => wiped \/ SomeFailed(2), wiped' \in BOOLEAN,
           critical' => critical \/ SomeFailed(3), critical' \in BOOLEAN
    PROVE  /\ LocksRight' /\ CallsRight' /\ managed' \in [ManagedCalls -> CallStates]
           /\ operation_locks' \in [Operations -> Seq(ManagedCalls)]
           /\ AccountsRight' /\ AccountTypeOK' /\ CacheRight'
  <1>1. PICK r \in CallStates :
          /\ managed' = [managed EXCEPT ![c] = r] /\ r.at = place
          /\ r.operation = managed[c].operation /\ r.fatal = managed[c].fatal
          /\ r.outside = managed[c].outside
    <2> DEFINE r == [managed[c] EXCEPT !.at = place, !.left = left]
    <2>1. managed[c] \in CallStates /\ managed \in [ManagedCalls -> CallStates]
      BY TypesOfParts, CallState DEF OInv
    <2>2. r \in CallStates
      BY <2>1 DEF CallStates, Handling
    <2>3. /\ managed' = [managed EXCEPT ![c] = r] /\ r.at = place
          /\ r.operation = managed[c].operation /\ r.fatal = managed[c].fatal
          /\ r.outside = managed[c].outside
      BY <2>1 DEF CallStates
    <2> QED BY <2>2, <2>3
  <1>2. /\ ~Evicting(managed[c]) /\ ~Evicting(r) /\ managed[c].at # "idle"
        /\ managed[c].at # "queued" /\ r.at # "tracking" /\ r.at \notin {"evicting", "evicted"}
        /\ (IsPending(r) <=> IsPending(managed[c]))
        /\ (InLock(r) <=> IsPending(r)) /\ (InLock(managed[c]) <=> IsPending(managed[c]))
    BY <1>1 DEF Evicting, Handling, IsPending, InLock, Working
  <1>3. \A op \in Operations : MayQueue(managed[c], op) => MayQueue(r, op)
    BY <1>1, <1>2 DEF MayQueue
  <1>4. FitsManager(r)
    BY <1>1, <1>2, CallState DEF FitsManager
  <1>5. /\ LocksRight' /\ CallsRight' /\ managed' \in [ManagedCalls -> CallStates]
        /\ operation_locks' \in [Operations -> Seq(ManagedCalls)]
    BY <1>1, <1>2, <1>3, <1>4, CallState, InPlaceKeeps
  <1>6. AccountsRight'
    BY <1>1, <1>2, CallState, AccountsUntouched
  <1>7. AccountTypeOK'
    BY DEF AccountTypeOK, OInv, ManagedTypeOK
  <1>8. CacheRight'
    BY <1>1, <1>2, EntriesShrink
  <1> QED BY <1>5, <1>6, <1>7, <1>8

\* Assessing an error keeps the invariant.
LEMMA AssessesKeeps ==
    ASSUME OInv, NEW c \in ManagedCalls, Assesses(c)
    PROVE  OInv'
  <1>1. /\ managed[c].at \in Handling /\ critical' = managed[c].fatal
        /\ UNCHANGED <<manager, entries, resource_sizes, operation_locks, error_counts,
                       failed, wiped, dropped>>
    BY DEF Assesses, At, Handling
  <1>2. PICK left \in SUBSET EntryIds : left = managed[c].left
    BY CallState DEF CallStates
  <1>3. "assessed" \in Handling /\ managed[c].fatal \in BOOLEAN
    BY CallState DEF Handling, CallStates
  <1>4. managed' = [managed EXCEPT ![c].at = "assessed", ![c].left = left]
    BY <1>2, TypesOfParts DEF Assesses, GoesTo, CallStates, OInv
  <1>5. wiped \in BOOLEAN
    BY DEF OInv, ManagedTypeOK
  <1>6. /\ LocksRight' /\ CallsRight' /\ managed' \in [ManagedCalls -> CallStates]
        /\ operation_locks' \in [Operations -> Seq(ManagedCalls)]
        /\ AccountsRight' /\ AccountTypeOK' /\ CacheRight'
    BY <1>1, <1>3, <1>4, <1>5, CallState, HandlingGoesOn
  <1>7. StoreTypeOK' /\ SizesOfEntries'
    BY <1>1 DEF StoreTypeOK, SizesOfEntries, OInv, ManagedTypeOK
  <1> QED BY <1>6, <1>7, PartsMakeWhole

\* An operation that has the manager clean up has failed before.
LEMMA CleansForReason ==
    ASSUME OInv, NEW c \in ManagedCalls, managed[c].at \in Handling, MustCleanUp(c)
    PROVE  SomeFailed(2)
  <1>1. \A op \in Operations : error_counts[op] \in Nat /\ failed[op] \in Nat
    BY DEF OInv, ManagedTypeOK
  <1>2. CASE managed[c].fatal
    BY <1>1, <1>2, CallState DEF SomeFailed
  <1>3. CASE error_counts[managed[c].operation] > CleanUpAfter
    <2>1. PICK op \in Operations : op = managed[c].operation
      BY CallState DEF Handling
    <2>2. error_counts[op] > 3 /\ error_counts[op] <= 2 * failed[op]
      BY <1>3, <2>1 DEF CleanUpAfter, OInv, AccountsRight
    <2>3. failed[op] >= 2
      BY <1>1, <2>2
    <2> QED BY <2>3 DEF SomeFailed
  <1> QED BY <1>2, <1>3 DEF MustCleanUp

\* Deciding what to do about an error keeps the invariant.
LEMMA DecidesKeeps ==
    ASSUME OInv, NEW c \in ManagedCalls, Decides(c)
    PROVE  OInv'
  <1>1. managed[c].at \in Handling /\ UNCHANGED <<manager, entries, resource_sizes, dropped>>
    BY DEF Decides, At, Handling
  <1>2. StoreTypeOK' /\ SizesOfEntries'
    BY <1>1 DEF StoreTypeOK, SizesOfEntries, OInv, ManagedTypeOK
  <1>3. CASE /\ MustCleanUp(c)
             /\ managed' = [managed EXCEPT ![c].at = "cleaning", ![c].left = entries]
             /\ UNCHANGED <<operation_locks, accounts>>
    <2>1. PICK left \in SUBSET EntryIds : left = entries
      BY DEF OInv, ManagedTypeOK
    <2>2. "cleaning" \in Handling /\ SomeFailed(2)
      BY <1>1, <1>3, CleansForReason DEF Handling
    <2>3. wiped \in BOOLEAN /\ critical \in BOOLEAN
      BY DEF OInv, ManagedTypeOK
    <2>4. managed' = [managed EXCEPT ![c].at = "cleaning", ![c].left = left]
      BY <1>3, <2>1
    <2>5. /\ LocksRight' /\ CallsRight' /\ managed' \in [ManagedCalls -> CallStates]
          /\ operation_locks' \in [Operations -> Seq(ManagedCalls)]
          /\ AccountsRight' /\ AccountTypeOK' /\ CacheRight'
      BY <1>1, <1>3, <2>2, <2>3, <2>4, HandlingGoesOn DEF accounts
    <2> QED BY <1>2, <2>5, PartsMakeWhole
  <1>4. CASE Raises(c)
    <2>1. /\ AccountTypeOK' /\ AccountsRight' /\ LocksRight' /\ CallsRight'
          /\ managed' \in [ManagedCalls -> CallStates]
          /\ operation_locks' \in [Operations -> Seq(ManagedCalls)]
      BY <1>1, <1>4, RaiseKeeps
    <2>2. PICK r \in CallStates : managed' = [managed EXCEPT ![c] = r] /\ ~Evicting(r)
      BY <1>1, <1>4, RaiseKeeps
    <2>3. CacheRight'
      BY <1>1, <2>2, EntriesShrink DEF Evicting
    <2> QED BY <1>2, <2>1, <2>3, PartsMakeWhole
  <1> QED BY <1>3, <1>4 DEF Decides

\* A step of a forced cleanup keeps the invariant.
LEMMA CleansUpKeeps ==
    ASSUME OInv, NEW c \in ManagedCalls, CleansUp(c)
    PROVE  OInv'
  <1>1. /\ managed[c].at = "cleaning" /\ managed[c].at \in Handling
        /\ UNCHANGED <<manager, operation_locks, error_counts, critical, failed>>
    BY DEF CleansUp, At, Handling
  <1>2. PICK id \in managed[c].left :
          /\ managed' = [managed EXCEPT ![c].left = @ \ {id}]
          /\ wiped' = (wiped \/ id \in entries)
          /\ Removes(id)
    BY DEF CleansUp
  <1>3. PICK left \in SUBSET EntryIds : left = managed[c].left \ {id}
    BY CallState DEF CallStates
  <1>4. managed' = [managed EXCEPT ![c].at = "cleaning", ![c].left = left]
    BY <1>1, <1>2, <1>3, TypesOfParts DEF CallStates, OInv
  <1>5. StoreTypeOK' /\ SizesOfEntries' /\ entries' = entries \ {id}
    BY <1>1, <1>2, RemovesKeeps
  <1>6. wiped' \in BOOLEAN /\ critical' \in BOOLEAN /\ SomeFailed(2) /\ entries' \subseteq entries
    BY <1>1, <1>2, <1>5, CallState DEF OInv, ManagedTypeOK
  <1>7. /\ LocksRight' /\ CallsRight' /\ managed' \in [ManagedCalls -> CallStates]
        /\ operation_locks' \in [Operations -> Seq(ManagedCalls)]
        /\ AccountsRight' /\ AccountTypeOK' /\ CacheRight'
    BY <1>1, <1>4, <1>6, HandlingGoesOn
  <1> QED BY <1>5, <1>7, PartsMakeWhole

\* The end of a forced cleanup keeps the invariant.
LEMMA CleanedUpKeeps ==
    ASSUME OInv, NEW c \in ManagedCalls, CleanedUp(c)
    PROVE  OInv'
  <1>1. /\ managed[c].at \in Handling /\ Raises(c)
        /\ UNCHANGED <<manager, entries, resource_sizes, dropped>>
    BY DEF CleanedUp, At, Handling
  <1>2. StoreTypeOK' /\ SizesOfEntries'
    BY <1>1 DEF StoreTypeOK, SizesOfEntries, OInv, ManagedTypeOK
  <1>3. /\ AccountTypeOK' /\ AccountsRight' /\ LocksRight' /\ CallsRight'
        /\ managed' \in [ManagedCalls -> CallStates]
        /\ operation_locks' \in [Operations -> Seq(ManagedCalls)]
    BY <1>1, RaiseKeeps
  <1>4. PICK r \in CallStates : managed' = [managed EXCEPT ![c] = r] /\ ~Evicting(r)
    BY <1>1, RaiseKeeps
  <1>5. CacheRight'
    BY <1>1, <1>4, EntriesShrink DEF Evicting
  <1> QED BY <1>2, <1>3, <1>5, PartsMakeWhole

\* A call that is cancelled keeps the invariant.
LEMMA CancelledKeeps ==
    ASSUME OInv, NEW c \in ManagedCalls, Cancelled(c)
    PROVE  OInv'
  <1>1. /\ managed' = [managed EXCEPT ![c] = NoManaged]
        /\ UNCHANGED <<manager, entries, resource_sizes, error_counts, critical, failed,
                       wiped, dropped>>
        /\ \A op \in Operations : operation_locks'[op] = RemoveFirst(operation_locks[op], c)
        /\ operation_locks' = [op \in Operations |-> RemoveFirst(operation_locks[op], c)]
    BY DEF Cancelled, Returns, accounts
  <1>2. ASSUME NEW op \in Operations
        PROVE  /\ operation_locks'[op] \in Seq(ManagedCalls)
               /\ MovesOnly(c, operation_locks[op], operation_locks'[op])
               /\ ~InQueue(c, operation_locks'[op])
    <2>1. PICK s \in Seq(ManagedCalls) : s = operation_locks[op] /\ NoDuplicates(s)
      BY CallState
    <2>2. MovesOnly(c, s, RemoveFirst(s, c)) /\ ~InQueue(c, RemoveFirst(s, c))
      BY <2>1, RemoveMoves
    <2>3. PICK t : t = RemoveFirst(s, c) /\ MovesOnly(c, s, t) /\ ~InQueue(c, t)
      BY <2>2
    <2>4. operation_locks'[op] = t
      BY <1>1, <2>1, <2>3, Zenon
    <2> QED BY <2>1, <2>3, <2>4 DEF MovesOnly
  <1>3. operation_locks' \in [Operations -> Seq(ManagedCalls)]
    <2> DEFINE f == [op \in Operations |-> RemoveFirst(operation_locks[op], c)]
    <2>1. operation_locks' = f /\ DOMAIN f = Operations
      BY <1>1
    <2>2. DOMAIN operation_locks' = Operations
      BY <2>1, Zenon
    <2>3. operation_locks' = [op \in Operations |-> operation_locks'[op]]
      BY <1>1
    <2> HIDE DEF f
    <2> QED BY <1>2, <2>3
  <1>4. ~InLock(NoManaged) /\ ~IsPending(NoManaged) /\ ~Evicting(NoManaged)
        /\ NoManaged.at \notin {"tracking", "cleaning", "evicted", "evicting"}
    BY IdleState DEF InLock, IsPending, Working, Handling, Evicting
  <1>5. LocksRight'
    BY <1>1, <1>2, <1>3, <1>4, IdleState, LocksKept
  <1>6. CallsRight' /\ managed' \in [ManagedCalls -> CallStates]
    BY <1>1, <1>4, IdleState, CallsKept DEF FitsManager
  <1>7. AccountsRight'
    BY <1>1, <1>4, IdleState, AccountsUntouched
  <1>8. CacheRight'
    BY <1>1, <1>4, IdleState, EntriesShrink
  <1>9. AccountTypeOK' /\ StoreTypeOK' /\ SizesOfEntries'
    BY <1>1 DEF AccountTypeOK, StoreTypeOK, SizesOfEntries, OInv, ManagedTypeOK
  <1> QED BY <1>3, <1>5, <1>6, <1>7, <1>8, <1>9, PartsMakeWhole

\* The interface that drops a context keeps the invariant.
LEMMA InterfaceDropsKeeps ==
    ASSUME OInv, NEW id \in EntryIds, InterfaceDrops(id)
    PROVE  OInv'
  <1>1. /\ manager = "contexts" /\ entries' = entries \ {id}
        /\ dropped' = IF id \in resource_sizes THEN dropped \cup {id} ELSE dropped
        /\ UNCHANGED <<manager, resource_sizes, operation_locks, error_counts, critical,
                       failed, wiped, managed>>
    BY DEF InterfaceDrops, accounts
  <1>2. AccountTypeOK' /\ StoreTypeOK' /\ SizesOfEntries'
    BY <1>1 DEF AccountTypeOK, StoreTypeOK, SizesOfEntries, OInv, ManagedTypeOK
  <1>3. CallsRight' /\ LocksRight' /\ AccountsRight'
    BY <1>1 DEF OInv, CallsRight, LocksRight, AccountsRight, SomeFailed
  <1>4. CacheRight'
    <2>1. \A c \in ManagedCalls : ~Evicting(managed[c])
      BY <1>1, CallState DEF OInv, CallsRight, OperationsOf, Evicting
    <2>2. IsFiniteSet(entries')
      BY <1>1, FS_Subset DEF OInv, CacheRight
    <2> QED BY <1>1, <2>1, <2>2 DEF CacheRight, Evicting
  <1>5. /\ managed' \in [ManagedCalls -> CallStates]
        /\ operation_locks' \in [Operations -> Seq(ManagedCalls)]
    BY <1>1, TypesOfParts DEF OInv
  <1> QED BY <1>2, <1>3, <1>4, <1>5, PartsMakeWhole

\* Every step of a managed operation keeps the invariant.
LEMMA OperationsKept ==
    ASSUME OInv, [ManagedNext]_managedVars
    PROVE  OInv'
  <1>1. CASE UNCHANGED managedVars
    BY <1>1 DEF managedVars, OInv, ManagedTypeOK, CallsRight, LocksRight, AccountsRight,
                SomeFailed, CacheRight, SizesOfEntries
  <1>2. CASE ManagedNext
    BY <1>2, CallsKeeps, CreatesKeeps, ConsultsKeeps, SetsCacheKeeps, InvalidatesKeeps,
       TracksResourceKeeps, EvictsKeeps, StoresAfterKeeps, FinishesKeeps, TimesOutKeeps,
       AssessesKeeps, DecidesKeeps, CleansUpKeeps, CleanedUpKeeps, CancelledKeeps,
       InterfaceDropsKeeps DEF ManagedNext
  <1> QED BY <1>1, <1>2

-----------------------------------------------------------------------------
(* Water coordinations (WaterCoordination) *)

\* A coordination that has not finished has not been given a verdict, and has
\* recorded the iterations it went through.
ContextsOfPc ==
    \A c \in Coordinations :
        /\ waterPc[c] = "idle" => iteration[c] = 0
        /\ waterPc[c] \in {"idle", "detect"} => context[c] = NewContext
        /\ waterPc[c] \in {"ask", "assess"} =>
              iteration[c] > 0 /\ context[c].iterations + 1 = iteration[c]
        /\ context[c].status = "completed" => waterPc[c] = "returned"

\* What the tracker holds of a coordination alone with it is what its own
\* answers left.
OwnIsTracked ==
    \A c \in Coordinations :
        undisturbed[c] /\ waterPc[c] \in Tracking => own[c] = unresolved

WInv == WaterTypeOK /\ ContextsOfPc /\ OwnIsTracked /\ CoordinationsRight

\* What a map of issues holds.
LEMMA IssueMap ==
    ASSUME NEW f, f \in IssueMaps
    PROVE  DOMAIN f \subseteq Issues /\ f \in [DOMAIN f -> Severities]
  BY DEF IssueMaps

\* A map of issues after an assessment.
LEMMA AssessedMap ==
    ASSUME NEW f \in IssueMaps, NEW gone, NEW rest, NEW severities \in [rest -> Severities]
    PROVE  /\ AfterAssessment(f, gone, severities) \in IssueMaps
           /\ DOMAIN AfterAssessment(f, gone, severities) = DOMAIN f \ gone
  <1> DEFINE S == DOMAIN f \ gone
             g == AfterAssessment(f, gone, severities)
  <1>1. DOMAIN f \subseteq Issues /\ f \in [DOMAIN f -> Severities]
    BY IssueMap
  <1>2. g = [i \in S |-> IF i \in DOMAIN severities THEN severities[i] ELSE f[i]]
    BY DEF AfterAssessment
  <1>3. \A i \in S : (IF i \in DOMAIN severities THEN severities[i] ELSE f[i]) \in Severities
    BY <1>1
  <1>4. g \in [S -> Severities] /\ DOMAIN g = S
    BY <1>2, <1>3
  <1>5. S \in SUBSET Issues
    BY <1>1
  <1> QED BY <1>4, <1>5 DEF IssueMaps

\* Steps that leave the tracker alone.
LEMMA TrackerAlone ==
    ASSUME WInv, UNCHANGED <<iteration, tracker>>, NEW c \in Coordinations, NEW pc,
           waterPc' = [waterPc EXCEPT ![c] = pc],
           pc \in {"detect"} \union Tracking \union Done,
           \/ context' = context /\ context[c].status # "completed"
           \/ context' = [context EXCEPT ![c] = NewContext]
           \/ RecordIteration(c) /\ pc = "refine" /\ waterPc[c] = "assess"
           \/ Complete(c, FinalStatus(c, unresolved)) /\ pc = "returned" /\ waterPc[c] = "refine",
           pc \in Tracking => waterPc[c] \in Tracking,
           pc = "detect" => context' = [context EXCEPT ![c] = NewContext],
           pc = "ask" => FALSE,
           pc = "assess" => waterPc[c] = "ask" /\ context' = context
    PROVE  WInv'
  <1>0. /\ waterPc \in [Coordinations -> {"idle"} \union Waiting \union Done]
        /\ iteration \in [Coordinations -> 0..max_iterations]
        /\ context \in [Coordinations -> Contexts]
        /\ max_iterations \in Nat \ {0}
    BY IterationsAssumption DEF WInv, WaterTypeOK
  <1>1. /\ waterPc' \in [Coordinations -> {"idle"} \union Waiting \union Done]
        /\ waterPc'[c] = pc
        /\ \A d \in Coordinations : d # c => waterPc'[d] = waterPc[d]
    BY <1>0 DEF Waiting, Done, Tracking
  <1>2. /\ context' \in [Coordinations -> Contexts]
        /\ \A d \in Coordinations : d # c => context'[d] = context[d]
    <2>1. NewContext \in Contexts
      BY <1>0 DEF NewContext, Contexts
    <2>2. CASE RecordIteration(c) /\ waterPc[c] = "assess"
      <3>1. /\ context[c].iterations + 1 = iteration[c]
            /\ context[c] \in Contexts /\ iteration[c] \in 0..max_iterations
        BY <1>0, <2>2 DEF WInv, ContextsOfPc
      <3> DEFINE new == [context[c] EXCEPT !.status = "in_progress", !.iterations = @ + 1]
      <3>2. new \in Contexts
        BY <3>1, <1>0 DEF Contexts
      <3>3. context' = [context EXCEPT ![c] = new]
        BY <2>2 DEF RecordIteration
      <3> QED BY <3>2, <3>3, <1>0
    <2>3. CASE Complete(c, FinalStatus(c, unresolved))
      <3> DEFINE st == FinalStatus(c, unresolved)
                 new == [context[c] EXCEPT !.status = "completed", !.final_status = st]
      <3>1. st \in {"all_issues_resolved", "max_iterations_reached", "partially_resolved"}
        BY DEF FinalStatus
      <3>2. context' = [context EXCEPT ![c] = new]
        BY <2>3 DEF Complete
      <3> HIDE DEF st
      <3>3. new \in Contexts
        <4>1. context[c] \in Contexts
          BY <1>0
        <4> QED BY <3>1, <4>1 DEF Contexts
      <3> QED BY <3>2, <3>3, <1>0
    <2> QED BY <2>1, <2>2, <2>3, <1>0
  <1>3. UNCHANGED <<iteration, resolved, unresolved, tracked, own, undisturbed>>
    BY DEF tracker
  <1>4. WaterTypeOK'
    BY <1>1, <1>2, <1>3 DEF WInv, WaterTypeOK
  <1>5. ContextsOfPc'
    <2> SUFFICES ASSUME NEW d \in Coordinations
                 PROVE  /\ waterPc'[d] = "idle" => iteration[d] = 0
                        /\ waterPc'[d] \in {"idle", "detect"} => context'[d] = NewContext
                        /\ waterPc'[d] \in {"ask", "assess"} =>
                              iteration[d] > 0 /\ context'[d].iterations + 1 = iteration[d]
                        /\ context'[d].status = "completed" => waterPc'[d] = "returned"
      BY <1>3 DEF ContextsOfPc
    <2>1. CASE d # c
      BY <2>1, <1>1, <1>2 DEF WInv, ContextsOfPc
    <2>2. CASE d = c
      <3>1. pc # "idle" /\ pc # "ask"
        BY DEF Tracking, Done
      <3>2. pc = "detect" => context'[c] = NewContext
        BY <1>0
      <3>3. pc = "assess" => iteration[c] > 0 /\ context'[c].iterations + 1 = iteration[c]
        BY DEF WInv, ContextsOfPc
      <3>4. context'[c].status = "completed" => pc = "returned"
        <4>1. CASE context' = context /\ context[c].status # "completed"
          BY <4>1
        <4>2. CASE context' = [context EXCEPT ![c] = NewContext]
          BY <4>2, <1>0 DEF NewContext
        <4>3. CASE RecordIteration(c)
          BY <4>3, <1>0 DEF RecordIteration, Contexts
        <4> QED BY <4>1, <4>2, <4>3
      <3> QED BY <2>2, <3>1, <3>2, <3>3, <3>4, <1>1
    <2> QED BY <2>1, <2>2
  <1>6. OwnIsTracked'
    BY <1>1, <1>3 DEF WInv, OwnIsTracked
  <1>7. VerdictRightWhenUndisturbed'
    <2> SUFFICES ASSUME NEW d \in Coordinations, undisturbed[d], context'[d].status = "completed"
                 PROVE  context'[d].final_status = "all_issues_resolved" <=> AllResolved(own[d])
      BY <1>3 DEF VerdictRightWhenUndisturbed, AllResolved
    <2>1. CASE d # c
      BY <2>1, <1>2 DEF WInv, CoordinationsRight, VerdictRightWhenUndisturbed
    <2>2. CASE d = c
      <3>1. CASE context' = [context EXCEPT ![c] = NewContext]
        BY <3>1, <2>2, <1>0 DEF NewContext
      <3>2. CASE RecordIteration(c)
        BY <3>2, <2>2, <1>0 DEF RecordIteration, Contexts
      <3>3. CASE Complete(c, FinalStatus(c, unresolved)) /\ waterPc[c] = "refine"
        <4>1. own[c] = unresolved
          BY <2>2, <3>3 DEF WInv, OwnIsTracked, Tracking
        <4>2. context'[c].final_status = FinalStatus(c, unresolved)
          BY <3>3, <1>0 DEF Complete, Contexts
        <4>3. FinalStatus(c, unresolved) = "all_issues_resolved" <=> AllResolved(unresolved)
          BY DEF FinalStatus
        <4> QED BY <4>1, <4>2, <4>3, <2>2
      <3>4. CASE context' = context /\ context[c].status # "completed"
        BY <3>4, <2>2
      <3> QED BY <3>1, <3>2, <3>3, <3>4
    <2> QED BY <2>1, <2>2
  <1>8. TrackerPartition'
    BY <1>3 DEF WInv, CoordinationsRight, TrackerPartition
  <1> QED BY <1>4, <1>5, <1>6, <1>7, <1>8 DEF WInv, CoordinationsRight

\* The tracker is used by c, whose own issues become own1.
LEMMA TrackerUsed ==
    ASSUME WInv, NEW c \in Coordinations, NEW pc \in Tracking \union {"returned"},
           NEW own1 \in IssueMaps,
           waterPc' = [waterPc EXCEPT ![c] = pc],
           own' = [own EXCEPT ![c] = own1],
           unresolved' \in IssueMaps, resolved' \in SUBSET Issues, tracked' \in SUBSET Issues,
           TrackerPartition',
           iteration' \in [Coordinations -> 0..max_iterations],
           \A d \in Coordinations : d # c => iteration'[d] = iteration[d],
           context' \in [Coordinations -> Contexts],
           \A d \in Coordinations : d # c => context'[d] = context[d],
           undisturbed' \in [Coordinations -> BOOLEAN],
           \A d \in Coordinations : d # c /\ undisturbed'[d] =>
              undisturbed[d] /\ waterPc[d] \notin Tracking,
           undisturbed'[c] => own1 = unresolved',
           pc \in {"ask", "assess"} =>
              iteration'[c] > 0 /\ context'[c].iterations + 1 = iteration'[c],
           context'[c].status = "completed" =>
              /\ pc = "returned"
              /\ context'[c].final_status = "all_issues_resolved" <=> AllResolved(own1)
    PROVE  WInv'
  <1>0. /\ waterPc \in [Coordinations -> {"idle"} \union Waiting \union Done]
        /\ own \in [Coordinations -> IssueMaps]
    BY DEF WInv, WaterTypeOK
  <1>1. /\ waterPc' \in [Coordinations -> {"idle"} \union Waiting \union Done]
        /\ waterPc'[c] = pc
        /\ \A d \in Coordinations : d # c => waterPc'[d] = waterPc[d]
    BY <1>0 DEF Waiting, Done
  <1>2. /\ own' \in [Coordinations -> IssueMaps] /\ own'[c] = own1
        /\ \A d \in Coordinations : d # c => own'[d] = own[d]
    BY <1>0
  <1>3. WaterTypeOK'
    BY <1>1, <1>2 DEF WaterTypeOK
  <1>4. ContextsOfPc'
    <2> SUFFICES ASSUME NEW d \in Coordinations
                 PROVE  /\ waterPc'[d] = "idle" => iteration'[d] = 0
                        /\ waterPc'[d] \in {"idle", "detect"} => context'[d] = NewContext
                        /\ waterPc'[d] \in {"ask", "assess"} =>
                              iteration'[d] > 0 /\ context'[d].iterations + 1 = iteration'[d]
                        /\ context'[d].status = "completed" => waterPc'[d] = "returned"
      BY DEF ContextsOfPc
    <2>1. CASE d # c
      BY <2>1, <1>1 DEF WInv, ContextsOfPc
    <2>2. CASE d = c
      BY <2>2, <1>1 DEF Tracking
    <2> QED BY <2>1, <2>2
  <1>5. OwnIsTracked'
    <2> SUFFICES ASSUME NEW d \in Coordinations, undisturbed'[d], waterPc'[d] \in Tracking
                 PROVE  own'[d] = unresolved'
      BY DEF OwnIsTracked
    <2>1. d = c
      BY <1>1
    <2> QED BY <2>1, <1>2
  <1>6. VerdictRightWhenUndisturbed'
    <2> SUFFICES ASSUME NEW d \in Coordinations, undisturbed'[d],
                        context'[d].status = "completed"
                 PROVE  context'[d].final_status = "all_issues_resolved" <=> AllResolved(own'[d])
      BY DEF VerdictRightWhenUndisturbed, AllResolved
    <2>1. CASE d = c
      BY <2>1, <1>2
    <2>2. CASE d # c
      BY <2>2, <1>2 DEF WInv, CoordinationsRight, VerdictRightWhenUndisturbed
    <2> QED BY <2>1, <2>2
  <1> QED BY <1>3, <1>4, <1>5, <1>6 DEF WInv, CoordinationsRight

\* A coordination that begins to track disturbs those that are tracking.
LEMMA DisturbsOthers ==
    ASSUME WInv, NEW c \in Coordinations
    PROVE  /\ Disturbs(c) \in [Coordinations -> BOOLEAN]
           /\ \A d \in Coordinations : d # c /\ Disturbs(c)[d] =>
                 undisturbed[d] /\ waterPc[d] \notin Tracking
           /\ Disturbs(c)[c] => undisturbed[c]
  BY DEF Disturbs, WInv, WaterTypeOK

\* What detection leads to keeps the invariant.
LEMMA DetectedKeeps ==
    ASSUME WInv, NEW c \in Coordinations, Detected(c)
    PROVE  WInv'
  <1>1. PICK issues \in IssueMaps, questions \in BOOLEAN :
            /\ Track(c, issues)
            /\ IF AllResolved(issues)
                 THEN /\ WaitFor(c, "returned")
                      /\ iteration' = [iteration EXCEPT ![c] = 0]
                      /\ Complete(c, FinalStatus(c, issues))
                 ELSE /\ iteration' = [iteration EXCEPT ![c] = 1]
                      /\ \/ questions /\ WaitFor(c, "ask") /\ UNCHANGED context
                         \/ /\ ~questions /\ WaitFor(c, "refine")
                            /\ RecordIteration(c)
    BY DEF Detected
  <1>2. /\ max_iterations \in Nat \ {0}
        /\ iteration \in [Coordinations -> 0..max_iterations]
        /\ context \in [Coordinations -> Contexts]
        /\ context[c] = NewContext
        /\ waterPc[c] = "detect"
    BY IterationsAssumption DEF Detected, WInv, WaterTypeOK, ContextsOfPc
  <1>3. /\ resolved' = {} /\ unresolved' = issues /\ tracked' = DOMAIN issues
        /\ own' = [own EXCEPT ![c] = issues]
        /\ undisturbed' = [Disturbs(c) EXCEPT ![c] = TRUE]
    BY <1>1 DEF Track
  <1>4. DOMAIN issues \subseteq Issues
    BY IssueMap
  <1>5. TrackerPartition' /\ resolved' \in SUBSET Issues /\ tracked' \in SUBSET Issues
    BY <1>3, <1>4 DEF TrackerPartition
  <1>6. /\ undisturbed' \in [Coordinations -> BOOLEAN]
        /\ \A d \in Coordinations : d # c /\ undisturbed'[d] =>
              undisturbed[d] /\ waterPc[d] \notin Tracking
        /\ undisturbed'[c] => issues = unresolved'
    BY <1>3, DisturbsOthers
  <1>7. CASE AllResolved(issues)
    <2> DEFINE st == FinalStatus(c, issues)
               new == [context[c] EXCEPT !.status = "completed", !.final_status = st]
    <2>1. /\ waterPc' = [waterPc EXCEPT ![c] = "returned"]
          /\ iteration' = [iteration EXCEPT ![c] = 0]
          /\ context' = [context EXCEPT ![c] = new]
      BY <1>1, <1>7 DEF WaitFor, Complete
    <2>2. st = "all_issues_resolved"
      BY <1>7 DEF FinalStatus
    <2> HIDE DEF st
    <2>3. new \in Contexts /\ new.final_status = "all_issues_resolved"
      BY <1>2, <2>2 DEF NewContext, Contexts
    <2> HIDE DEF new
    <2>4. /\ iteration' \in [Coordinations -> 0..max_iterations]
          /\ \A d \in Coordinations : d # c => iteration'[d] = iteration[d]
      BY <2>1, <1>2
    <2>5. /\ context' \in [Coordinations -> Contexts] /\ context'[c] = new
          /\ \A d \in Coordinations : d # c => context'[d] = context[d]
      BY <2>1, <2>3, <1>2
    <2> DEFINE pc == "returned"
    <2>6. pc \in Tracking \union {"returned"} /\ pc \notin {"ask", "assess"}
      OBVIOUS
    <2>7. context'[c].final_status = "all_issues_resolved" <=> AllResolved(issues)
      BY <2>3, <2>5, <1>7
    <2> QED BY <2>1, <2>4, <2>5, <2>6, <2>7, <1>3, <1>5, <1>6, TrackerUsed
  <1>8. CASE ~AllResolved(issues)
    <2>1. /\ iteration' = [iteration EXCEPT ![c] = 1]
          /\ \/ WaitFor(c, "ask") /\ UNCHANGED context
             \/ WaitFor(c, "refine") /\ RecordIteration(c)
      BY <1>1, <1>8
    <2>2. /\ iteration' \in [Coordinations -> 0..max_iterations]
          /\ \A d \in Coordinations : d # c => iteration'[d] = iteration[d]
          /\ iteration'[c] = 1
      BY <2>1, <1>2
    <2>3. CASE WaitFor(c, "ask") /\ UNCHANGED context
      <3>1. waterPc' = [waterPc EXCEPT ![c] = "ask"] /\ context' = context
        BY <2>3 DEF WaitFor
      <3>2. "ask" \in Tracking \union {"returned"}
        BY DEF Tracking
      <3>3. context'[c].status # "completed" /\ context'[c].iterations + 1 = iteration'[c]
            /\ iteration'[c] > 0
        BY <3>1, <2>2, <1>2 DEF NewContext
      <3>4. /\ context' \in [Coordinations -> Contexts]
            /\ \A d \in Coordinations : d # c => context'[d] = context[d]
        BY <3>1, <1>2
      <3> QED BY <3>1, <3>2, <3>3, <3>4, <2>2, <1>3, <1>5, <1>6, TrackerUsed
    <2>4. CASE WaitFor(c, "refine") /\ RecordIteration(c)
      <3> DEFINE new == [context[c] EXCEPT !.status = "in_progress", !.iterations = @ + 1]
      <3>1. waterPc' = [waterPc EXCEPT ![c] = "refine"] /\ context' = [context EXCEPT ![c] = new]
        BY <2>4, <1>2 DEF WaitFor, RecordIteration, Contexts
      <3>2. "refine" \in Tracking \union {"returned"} /\ "refine" \notin {"ask", "assess"}
        BY DEF Tracking
      <3>3. new \in Contexts /\ new.status # "completed"
        <4>1. /\ context[c] \in Contexts
              /\ context[c].iterations + 1 \in 0..max_iterations
          <5>1. context[c].iterations = 0
            BY <1>2 DEF NewContext
          <5> QED BY <5>1, <1>2
        <4> QED BY <4>1 DEF Contexts
      <3> HIDE DEF new
      <3>4. /\ context' \in [Coordinations -> Contexts] /\ context'[c] = new
            /\ \A d \in Coordinations : d # c => context'[d] = context[d]
        BY <3>1, <3>3, <1>2
      <3> QED BY <3>1, <3>2, <3>3, <3>4, <2>2, <1>3, <1>5, <1>6, TrackerUsed
    <2> QED BY <2>1, <2>3, <2>4
  <1> QED BY <1>7, <1>8

\* What an assessment leads to keeps the invariant.
LEMMA AssessedKeeps ==
    ASSUME WInv, NEW c \in Coordinations, Assessed(c)
    PROVE  WInv'
  <1>a. PICK gone \in SUBSET DOMAIN own[c], questions \in BOOLEAN :
          \E severities \in [DOMAIN own[c] \ gone -> Severities] :
            /\ Assess(c, gone, severities)
            /\ RecordIteration(c)
            /\ IF questions /\ ~AllResolved(unresolved') /\ iteration[c] < max_iterations
                 THEN /\ iteration' = [iteration EXCEPT ![c] = @ + 1]
                      /\ WaitFor(c, "ask")
                 ELSE WaitFor(c, "refine") /\ UNCHANGED iteration
    BY DEF Assessed
  <1>1. PICK severities \in [DOMAIN own[c] \ gone -> Severities] :
            /\ Assess(c, gone, severities)
            /\ RecordIteration(c)
            /\ IF questions /\ ~AllResolved(unresolved') /\ iteration[c] < max_iterations
                 THEN /\ iteration' = [iteration EXCEPT ![c] = @ + 1]
                      /\ WaitFor(c, "ask")
                 ELSE WaitFor(c, "refine") /\ UNCHANGED iteration
    BY <1>a
  <1> DEFINE own1 == AfterAssessment(own[c], gone, severities)
             un1 == AfterAssessment(unresolved, gone, severities)
             new == [context[c] EXCEPT !.status = "in_progress", !.iterations = @ + 1]
  <1>2. /\ max_iterations \in Nat \ {0}
        /\ iteration \in [Coordinations -> 0..max_iterations]
        /\ context \in [Coordinations -> Contexts]
        /\ own \in [Coordinations -> IssueMaps] /\ unresolved \in IssueMaps
        /\ resolved \in SUBSET Issues /\ tracked \in SUBSET Issues
        /\ waterPc[c] = "assess"
        /\ iteration[c] > 0 /\ context[c].iterations + 1 = iteration[c]
    BY IterationsAssumption DEF Assessed, WInv, WaterTypeOK, ContextsOfPc
  <1>3. /\ resolved' = resolved \union (gone \intersect DOMAIN unresolved)
        /\ unresolved' = un1 /\ tracked' = tracked
        /\ own' = [own EXCEPT ![c] = own1]
        /\ undisturbed' = Disturbs(c)
    BY <1>1 DEF Assess
  <1>4. own1 \in IssueMaps /\ un1 \in IssueMaps /\ DOMAIN un1 = DOMAIN unresolved \ gone
    BY <1>2, AssessedMap
  <1>5. own[c] = unresolved => own1 = un1
    OBVIOUS
  <1> HIDE DEF own1, un1
  <1>6. DOMAIN unresolved \subseteq Issues
    BY <1>2, IssueMap
  <1>7. TrackerPartition' /\ resolved' \in SUBSET Issues /\ tracked' \in SUBSET Issues
    BY <1>2, <1>3, <1>4, <1>6 DEF TrackerPartition, WInv, CoordinationsRight
  <1>8. /\ undisturbed' \in [Coordinations -> BOOLEAN]
        /\ \A d \in Coordinations : d # c /\ undisturbed'[d] =>
              undisturbed[d] /\ waterPc[d] \notin Tracking
        /\ undisturbed'[c] => undisturbed[c]
    BY <1>3, DisturbsOthers
  <1>9. undisturbed'[c] => own1 = unresolved'
    BY <1>2, <1>3, <1>5, <1>8 DEF WInv, OwnIsTracked, Tracking
  <1>10. context' = [context EXCEPT ![c] = new]
    BY <1>1, <1>2 DEF RecordIteration, Contexts
  <1>11. new \in Contexts /\ new.status # "completed" /\ new.iterations = iteration[c]
    <2>1. context[c] \in Contexts /\ iteration[c] \in 0..max_iterations
      BY <1>2
    <2> QED BY <2>1, <1>2 DEF Contexts
  <1> HIDE DEF new
  <1>12. /\ context' \in [Coordinations -> Contexts] /\ context'[c] = new
         /\ \A d \in Coordinations : d # c => context'[d] = context[d]
    BY <1>10, <1>11, <1>2
  <1>13. CASE /\ iteration[c] < max_iterations
              /\ iteration' = [iteration EXCEPT ![c] = @ + 1]
              /\ WaitFor(c, "ask")
    <2>1. waterPc' = [waterPc EXCEPT ![c] = "ask"]
      BY <1>13 DEF WaitFor
    <2>2. /\ iteration' \in [Coordinations -> 0..max_iterations]
          /\ \A d \in Coordinations : d # c => iteration'[d] = iteration[d]
          /\ iteration'[c] = iteration[c] + 1 /\ iteration'[c] > 0
      <3>1. iteration[c] \in 0..max_iterations
        BY <1>2
      <3> QED BY <3>1, <1>13, <1>2
    <2>3. "ask" \in Tracking \union {"returned"}
      BY DEF Tracking
    <2>4. context'[c].iterations + 1 = iteration'[c] /\ context'[c].status # "completed"
      BY <2>2, <1>11, <1>12
    <2> QED BY <2>1, <2>2, <2>3, <2>4, <1>3, <1>4, <1>7, <1>8, <1>9, <1>12, TrackerUsed
  <1>14. CASE WaitFor(c, "refine") /\ UNCHANGED iteration
    <2>1. waterPc' = [waterPc EXCEPT ![c] = "refine"] /\ iteration' = iteration
      BY <1>14 DEF WaitFor
    <2>2. "refine" \in Tracking \union {"returned"} /\ "refine" \notin {"ask", "assess"}
      BY DEF Tracking
    <2>3. context'[c].status # "completed"
      BY <1>11, <1>12
    <2> QED BY <2>1, <2>2, <2>3, <1>2, <1>3, <1>4, <1>7, <1>8, <1>9, <1>12, TrackerUsed
  <1> QED BY <1>1, <1>13, <1>14

\* Every step of a coordination keeps the invariant.
LEMMA WaterKept ==
    ASSUME WInv, [WaterNext]_waterVars
    PROVE  WInv'
  <1>1. CASE UNCHANGED waterVars
    BY <1>1 DEF waterVars, tracker, WInv, WaterTypeOK, ContextsOfPc, OwnIsTracked,
                CoordinationsRight, TrackerPartition, VerdictRightWhenUndisturbed, AllResolved
  <1>2. ASSUME NEW c \in Coordinations,
               BeginCoordination(c) \/ CoordinationProceeds(c) \/ CoordinationCancelled(c)
        PROVE  WInv'
    <2>0. context[c].status = "completed" => waterPc[c] = "returned"
      BY DEF WInv, ContextsOfPc
    <2>1. CASE BeginCoordination(c)
      BY <2>1, TrackerAlone DEF BeginCoordination, WaitFor, Tracking, Done
    <2>2. CASE NothingDetected(c) \/ DetectionFails(c)
      BY <2>0, <2>2, TrackerAlone DEF NothingDetected, DetectionFails, WaitFor, Tracking, Done
    <2>3. CASE AgentsAnswered(c)
      BY <2>0, <2>3, TrackerAlone DEF AgentsAnswered, WaitFor, Tracking, Done
    <2>4. CASE AssessmentFails(c)
      <3>1. /\ RecordIteration(c) /\ waterPc[c] = "assess" /\ UNCHANGED <<iteration, tracker>>
            /\ waterPc' = [waterPc EXCEPT ![c] = "refine"]
        BY <2>4 DEF AssessmentFails, WaitFor
      <3>2. "refine" \in {"detect"} \union Tracking \union Done /\ "assess" \in Tracking
        BY DEF Tracking
      <3> DEFINE pc == "refine"
      <3>3. /\ waterPc' = [waterPc EXCEPT ![c] = pc] /\ pc = "refine"
            /\ pc \in {"detect"} \union Tracking \union Done
            /\ pc # "detect" /\ pc # "ask" /\ pc # "assess"
        BY <3>1, <3>2
      <3> HIDE DEF pc
      <3> QED BY <3>1, <3>2, <3>3, TrackerAlone
    <2>5. CASE RefinementEnds(c)
      BY <2>5, TrackerAlone DEF RefinementEnds, WaitFor, Tracking, Done
    <2>6. CASE CoordinationCancelled(c)
      BY <2>0, <2>6, TrackerAlone DEF CoordinationCancelled, WaitFor, Tracking, Done, Waiting
    <2> QED BY <1>2, <2>1, <2>2, <2>3, <2>4, <2>5, <2>6, DetectedKeeps, AssessedKeeps
            DEF CoordinationProceeds
  <1> QED BY <1>1, <1>2 DEF WaterNext

\* Coordinations begin as the invariant says.
LEMMA WaterBegins ==
    ASSUME WaterInit
    PROVE  WInv
  <1>1. [i \in {} |-> "low"] \in IssueMaps
    <2>1. [i \in {} |-> "low"] \in [{} -> Severities]
      OBVIOUS
    <2> QED BY <2>1 DEF IssueMaps
  <1>2. DOMAIN [i \in {} |-> "low"] = {}
    OBVIOUS
  <1>3. WaterTypeOK
    <2>1. NewContext \in Contexts /\ 0 \in 0..max_iterations
      BY IterationsAssumption DEF NewContext, Contexts
    <2> QED BY <1>1, <2>1 DEF WaterInit, WaterTypeOK
  <1>4. ContextsOfPc /\ OwnIsTracked /\ VerdictRightWhenUndisturbed
    BY DEF WaterInit, ContextsOfPc, OwnIsTracked, VerdictRightWhenUndisturbed, NewContext
  <1>5. TrackerPartition
    BY <1>2 DEF WaterInit, TrackerPartition
  <1> QED BY <1>3, <1>4, <1>5 DEF WInv, CoordinationsRight

-----------------------------------------------------------------------------
(* States (StateManager) *)

SInv == StateTypeOK /\ StatesAgree

\* The list of keys of the cache, and the entries it holds.
CacheTypeOK ==
    /\ \A r \in DOMAIN cache : cache[r] \in Entries
    /\ cacheKeys \in Seq(ResourceIds) /\ Len(cacheKeys) <= cache_size
    /\ \A i, j \in 1..Len(cacheKeys) : cacheKeys[i] = cacheKeys[j] => i = j
    /\ DOMAIN cache \subseteq ToSet(cacheKeys)

\* The cut to the cache's size keeps the end of a list.
LEMMA NewestKeeps ==
    ASSUME NEW S, NEW s \in Seq(S), Len(s) > 0,
           \A i, j \in 1..Len(s) : s[i] = s[j] => i = j
    PROVE  /\ Newest(s) \in Seq(S) /\ Len(Newest(s)) <= cache_size
           /\ \A i, j \in 1..Len(Newest(s)) : Newest(s)[i] = Newest(s)[j] => i = j
           /\ Len(Newest(s)) > 0 /\ Newest(s)[Len(Newest(s))] = s[Len(s)]
  <1> DEFINE n == IF Len(s) > cache_size THEN Len(s) - cache_size + 1 ELSE 1
             t == SubSeq(s, n, Len(s))
  <1>1. n \in 1..Len(s) /\ Len(s) \in Nat /\ Len(s) - n + 1 <= cache_size
    BY StateSizesAssumption
  <1>2. t = Newest(s)
    BY DEF Newest
  <1> HIDE DEF n
  <1>3. /\ t \in Seq(S) /\ Len(t) = Len(s) - n + 1
        /\ \A j \in 1..Len(s) - n + 1 : t[j] = s[n + j - 1]
    BY <1>1, SubSeqProperties
  <1> HIDE DEF t
  <1>4. Len(t) <= cache_size /\ Len(t) > 0 /\ t[Len(t)] = s[Len(s)]
    BY <1>1, <1>3
  <1>5. ASSUME NEW i \in 1..Len(t), NEW j \in 1..Len(t), t[i] = t[j]
        PROVE  i = j
    <2>1. n + i - 1 \in 1..Len(s) /\ n + j - 1 \in 1..Len(s)
      BY <1>1, <1>3
    <2>2. s[n + i - 1] = s[n + j - 1]
      BY <1>3, <1>5
    <2>3. n + i - 1 = n + j - 1
      BY <2>1, <2>2
    <2> QED BY ONLY <2>3, <1>1, <1>3, i \in 1..Len(t), j \in 1..Len(t)
  <1> QED BY <1>2, <1>3, <1>4, <1>5

\* An entry put into the cache finds its place in it.
LEMMA CachedFits ==
    ASSUME SInv, NEW r \in ResourceIds, NEW entry \in Entries, Cached(r, entry)
    PROVE  CacheTypeOK'
  <1> DEFINE others == RemoveFirst(cacheKeys, r)
             all == Append(others, r)
             keys == Newest(all)
  <1>1. /\ cacheKeys \in Seq(ResourceIds) /\ Len(cacheKeys) <= cache_size
        /\ \A i, j \in 1..Len(cacheKeys) : cacheKeys[i] = cacheKeys[j] => i = j
        /\ DOMAIN cache \subseteq ToSet(cacheKeys)
        /\ \A q \in DOMAIN cache : cache[q] \in Entries
    BY DEF SInv, StateTypeOK
  <1>2. /\ cacheKeys' = keys
        /\ cache' = [q \in (DOMAIN cache \union {r}) \ (ToSet(others) \ ToSet(keys)) |->
                        IF q = r THEN entry ELSE cache[q]]
    BY DEF Cached
  <1>3. /\ others \in Seq(ResourceIds) /\ Len(others) <= Len(cacheKeys)
        /\ \A i, j \in 1..Len(others) : others[i] = others[j] => i = j
        /\ \A i \in 1..Len(others) : others[i] # r
        /\ \A i \in 1..Len(cacheKeys) : cacheKeys[i] # r =>
              \E j \in 1..Len(others) : others[j] = cacheKeys[i]
    BY <1>1, RemoveOne
  <1> HIDE DEF others
  <1>4. /\ all \in Seq(ResourceIds) /\ Len(all) = Len(others) + 1 /\ Len(others) \in Nat
        /\ \A i \in 1..Len(others) : all[i] = others[i]
        /\ all[Len(others) + 1] = r
    BY <1>3
  <1> HIDE DEF all
  <1>5. \A i, j \in 1..Len(all) : all[i] = all[j] => i = j
    BY <1>3, <1>4
  <1>6. Len(all) > 0 /\ all[Len(all)] = r
    BY <1>4
  <1>7. /\ keys \in Seq(ResourceIds) /\ Len(keys) <= cache_size
        /\ \A i, j \in 1..Len(keys) : keys[i] = keys[j] => i = j
        /\ Len(keys) > 0 /\ keys[Len(keys)] = r
    BY <1>4, <1>5, <1>6, NewestKeeps
  <1> HIDE DEF keys
  <1>8. r \in ToSet(keys)
    BY <1>7 DEF ToSet
  <1>9. \A q \in ToSet(cacheKeys) : q # r => q \in ToSet(others)
    BY <1>1, <1>3 DEF ToSet
  <1>10. DOMAIN cache' \subseteq ToSet(keys)
    BY <1>1, <1>2, <1>8, <1>9
  <1>11. \A q \in DOMAIN cache' : cache'[q] \in Entries
    BY <1>1, <1>2
  <1> QED BY <1>2, <1>7, <1>10, <1>11 DEF CacheTypeOK

\* The parts of the type, after a step.
LEMMA StateTyped ==
    ASSUME CacheTypeOK',
           (DOMAIN store)' \subseteq ResourceIds, \A r \in DOMAIN store' : store'[r] \in Entries,
           history' \in [ResourceIds -> Seq(States)],
           snapshots' \in [ResourceIds -> Seq(States)],
           writes' \in 0..MaxWrites
    PROVE  StateTypeOK'
  <1>1. DOMAIN cache' \subseteq ResourceIds
    BY DEF CacheTypeOK, ToSet
  <1> QED BY <1>1 DEF CacheTypeOK, StateTypeOK

\* When a number of transitions grows by one, another interval is full or not.
LEMMA NextInterval ==
    ASSUME NEW n \in Nat, NEW k \in Nat \ {0}
    PROVE  /\ n \div k \in Nat
           /\ (n + 1) % k = 0 => (n + 1) \div k = (n \div k) + 1 /\ ((n + 1) \div k) * k = n + 1
           /\ (n + 1) % k # 0 => (n + 1) \div k = n \div k
  OBVIOUS

\* The end of a full interval is one of the transitions.
LEMMA WithinInterval ==
    ASSUME NEW n \in Nat, NEW k \in Nat \ {0}, NEW i \in 1..(n \div k)
    PROVE  i * k \in 1..n
  OBVIOUS

\* What a call finds of a resource is what the backend holds.
LEMMA FoundIsStored ==
    ASSUME SInv, NEW r \in ResourceIds
    PROVE  /\ Known(r) <=> r \in DOMAIN store
           /\ Known(r) => Current(r) = store[r]
  BY DEF SInv, StatesAgree, CacheAgreesWithStore, Known, Current

\* An entry put into the cache changes no other.
LEMMA CachedKeeps ==
    ASSUME NEW r \in ResourceIds, NEW entry, Cached(r, entry)
    PROVE  /\ DOMAIN cache' \subseteq DOMAIN cache \union {r}
           /\ \A q \in DOMAIN cache' : cache'[q] = IF q = r THEN entry ELSE cache[q]
  BY DEF Cached

\* Reading keeps cache and records in agreement.
LEMMA ReadKeeps ==
    ASSUME SInv, NEW r \in ResourceIds, Read(r)
    PROVE  SInv'
  <1>1. /\ history' = history /\ snapshots' = snapshots /\ store' = store /\ writes' = writes
    BY DEF Read
  <1>t. CacheTypeOK'
    <2>1. CASE r \in DOMAIN store \ DOMAIN cache
      <3>1. Cached(r, store[r]) /\ store[r] \in Entries
        BY <2>1 DEF Read, SInv, StateTypeOK
      <3> QED BY <3>1, CachedFits
    <2>2. CASE ~(r \in DOMAIN store \ DOMAIN cache)
      BY <2>2 DEF Read, SInv, StateTypeOK, CacheTypeOK
    <2> QED BY <2>1, <2>2
  <1>u. StateTypeOK'
    BY <1>1, <1>t, StateTyped DEF SInv, StateTypeOK
  <1>2. CacheAgreesWithStore'
    <2>1. CASE r \in DOMAIN store \ DOMAIN cache
      <3>1. Cached(r, store[r])
        BY <2>1 DEF Read
      <3> QED BY <3>1, <2>1, <1>1, CachedKeeps DEF SInv, StatesAgree, CacheAgreesWithStore
    <2>2. CASE ~(r \in DOMAIN store \ DOMAIN cache)
      <3>1. cache' = cache
        BY <2>2 DEF Read
      <3> QED BY <3>1, <1>1 DEF SInv, StatesAgree, CacheAgreesWithStore
    <2> QED BY <2>1, <2>2
  <1>3. LifeRecorded'
    BY <1>1 DEF SInv, StatesAgree, LifeRecorded, Valid
  <1> QED BY <1>u, <1>2, <1>3 DEF SInv, StatesAgree

\* A legal next state, written, is the end of the resource's history, and the
\* next of its snapshots if one is due.
LEMMA WriteKeeps ==
    ASSUME SInv, NEW r \in ResourceIds, NEW state \in States, Write(r, state),
           r \in DOMAIN store => Valid(store[r].state, state)
    PROVE  SInv'
  <1> DEFINE entry == [state |-> state, number |-> writes + 1]
             past  == Append(history[r], state)
             n     == Len(history[r])
             K     == SnapshotInterval
  <1>1. /\ history[r] \in Seq(States) /\ n \in Nat /\ K \in Nat \ {0}
        /\ snapshots[r] \in Seq(States)
    BY StateSizesAssumption DEF SInv, StateTypeOK
  <1>2. /\ past \in Seq(States) /\ Len(past) = n + 1 /\ past[n + 1] = state
        /\ \A i \in 1..n : past[i] = history[r][i]
    BY <1>1
  <1>3. /\ Cached(r, entry)
        /\ store' = [q \in DOMAIN store \union {r} |-> IF q = r THEN entry ELSE store[q]]
        /\ history' = [history EXCEPT ![r] = past]
        /\ snapshots' = IF Len(past) % K = 0
                          THEN [snapshots EXCEPT ![r] = Append(@, state)] ELSE snapshots
    BY DEF Write
  <1>h. /\ history' \in [ResourceIds -> Seq(States)]
        /\ history'[r] = past
        /\ \A q \in ResourceIds : q # r => history'[q] = history[q]
    BY <1>2, <1>3 DEF SInv, StateTypeOK
  <1>s. /\ snapshots' \in [ResourceIds -> Seq(States)]
        /\ \A q \in ResourceIds : q # r => snapshots'[q] = snapshots[q]
    BY <1>1, <1>3 DEF SInv, StateTypeOK
  <1>t. /\ DOMAIN store' = DOMAIN store \union {r}
        /\ store'[r] = entry
        /\ \A q \in DOMAIN store' : q # r => store'[q] = store[q]
    BY <1>3
  <1>c. CacheAgreesWithStore'
    <2> SUFFICES ASSUME NEW q \in DOMAIN cache'
                 PROVE  q \in DOMAIN store' /\ cache'[q] = store'[q]
      BY DEF CacheAgreesWithStore
    <2>1. DOMAIN cache' \subseteq DOMAIN cache \union {r}
      BY <1>3, CachedKeeps
    <2>2. cache'[q] = IF q = r THEN entry ELSE cache[q]
      BY <1>3, CachedKeeps
    <2> HIDE DEF entry
    <2> QED BY <2>1, <2>2, <1>t DEF SInv, StatesAgree, CacheAgreesWithStore
  <1>4. entry.state = state
    OBVIOUS
  <1>e. entry \in Entries /\ writes' \in 0..MaxWrites
    BY StateSizesAssumption DEF Entries, SInv, StateTypeOK, Write
  <1>f. CacheTypeOK'
    <2> HIDE DEF entry
    <2> QED BY <1>3, <1>e, CachedFits
  <1>g. /\ DOMAIN store' \subseteq ResourceIds
        /\ \A q \in DOMAIN store' : store'[q] \in Entries
    <2> HIDE DEF entry
    <2> QED BY <1>t, <1>e DEF SInv, StateTypeOK
  <1>u. StateTypeOK'
    BY <1>h, <1>s, <1>e, <1>f, <1>g, StateTyped
  <1> HIDE DEF entry, past, n, K
  <1>l. LifeRecorded'
    <2> SUFFICES ASSUME NEW q \in ResourceIds
                 PROVE  /\ q \in DOMAIN store' =>
                              history'[q] # << >> /\ Last(history'[q]) = store'[q].state
                        /\ q \notin DOMAIN store' => history'[q] = << >>
                        /\ \A i \in 1..(Len(history'[q]) - 1) :
                              Valid(history'[q][i], history'[q][i + 1])
                        /\ snapshots'[q] = [i \in 1..(Len(history'[q]) \div K) |->
                                              history'[q][i * K]]
      BY DEF LifeRecorded, Valid, K
    <2>0. /\ q \in DOMAIN store => history[q] # << >> /\ Last(history[q]) = store[q].state
          /\ q \notin DOMAIN store => history[q] = << >>
          /\ \A i \in 1..(Len(history[q]) - 1) : Valid(history[q][i], history[q][i + 1])
          /\ snapshots[q] = [i \in 1..(Len(history[q]) \div K) |-> history[q][i * K]]
      BY DEF SInv, StatesAgree, LifeRecorded, K
    <2>1. CASE q # r
      BY <2>0, <2>1, <1>h, <1>s, <1>t
    <2>2. CASE q = r
      <3>1. past # << >> /\ Last(past) = store'[r].state
        BY <1>1, <1>2, <1>t, <1>4 DEF Last
      <3>2. ASSUME NEW i \in 1..(Len(past) - 1)
            PROVE  Valid(past[i], past[i + 1])
        <4>1. i \in 1..n
          BY <1>1, <1>2, <3>2
        <4>2. CASE i < n
          <5>1. /\ i \in 1..(Len(history[r]) - 1)
                /\ past[i] = history[r][i] /\ past[i + 1] = history[r][i + 1]
            BY <4>1, <4>2, <1>1, <1>2 DEF n
          <5> QED BY <5>1, <2>0, <2>2
        <4>3. CASE i = n
          <5>1. history[r] # << >> /\ n # 0
            BY <4>1, <4>3, <1>1 DEF n
          <5>2. r \in DOMAIN store /\ Last(history[r]) = store[r].state
            BY <5>1, <2>0, <2>2
          <5>3. Last(history[r]) = history[r][n]
            BY DEF Last, n
          <5> QED BY <5>2, <5>3, <4>1, <4>3, <1>2
        <4> QED BY <4>1, <4>2, <4>3, <1>1
      <3>3. snapshots'[r] = [i \in 1..((n + 1) \div K) |-> past[i * K]]
        <4>1. /\ n \div K \in Nat
              /\ (n + 1) % K = 0 => /\ (n + 1) \div K = (n \div K) + 1
                                    /\ ((n + 1) \div K) * K = n + 1
              /\ (n + 1) % K # 0 => (n + 1) \div K = n \div K
          BY <1>1, NextInterval
        <4>2. \A i \in 1..(n \div K) : past[i * K] = history[r][i * K]
          BY <1>1, <1>2, WithinInterval
        <4>3. snapshots[r] = [i \in 1..(n \div K) |-> history[r][i * K]]
          BY <2>0, <2>2 DEF n
        <4>4. CASE (n + 1) % K # 0
          <5>1. snapshots' = snapshots
            BY <4>4, <1>2, <1>3
          <5> QED BY <5>1, <4>1, <4>2, <4>3, <4>4
        <4>5. CASE (n + 1) % K = 0
          <5> DEFINE d == n \div K
                     T == [i \in 1..(d + 1) |-> past[i * K]]
          <5>1. snapshots'[r] = Append(snapshots[r], state)
            BY <4>5, <1>2, <1>3 DEF SInv, StateTypeOK
          <5>2. Len(snapshots[r]) = d
            BY <4>1, <4>3, <1>1
          <5>3. past[(d + 1) * K] = state
            BY <4>1, <4>5, <1>2
          <5>4. d \in Nat /\ \A i \in 1..d : snapshots[r][i] = past[i * K]
            BY <4>1, <4>2, <4>3
          <5> HIDE DEF d
          <5>5. Append(snapshots[r], state) = T
            <6>1. Append(snapshots[r], state) =
                    [i \in 1..(d + 1) |-> IF i = d + 1 THEN state ELSE snapshots[r][i]]
              BY <5>2, <1>1, <5>4
            <6> QED BY <6>1, <5>3, <5>4
          <5>6. (n + 1) \div K = d + 1
            BY <4>1, <4>5 DEF d
          <5> QED BY <5>1, <5>5, <5>6
        <4> QED BY <4>4, <4>5
      <3> QED BY <3>1, <3>2, <3>3, <2>2, <1>h, <1>t, <1>2
    <2> QED BY <2>1, <2>2
  <1> QED BY <1>u, <1>c, <1>l DEF SInv, StatesAgree

\* Setting a state writes a legal one.
LEMMA SetKeeps ==
    ASSUME SInv, NEW r \in ResourceIds, NEW state \in States, SetState(r, state)
    PROVE  SInv'
  BY FoundIsStored, WriteKeeps DEF SetState

\* Failing, recovering and terminating are legal changes of a state of their
\* kind; a restored state is one that was written before.
LEMMA StateKept ==
    ASSUME SInv, [StateNext]_stateVars
    PROVE  SInv'
  <1>1. CASE UNCHANGED stateVars
    BY <1>1 DEF stateVars, SInv, StateTypeOK, StatesAgree, CacheAgreesWithStore, LifeRecorded, Valid
  <1>2. ASSUME NEW r \in ResourceIds, NEW s \in States, SetState(r, s)
        PROVE  SInv'
    BY <1>2, SetKeeps
  <1>3. ASSUME NEW r \in ResourceIds, GetState(r)
        PROVE  SInv'
    BY <1>3, ReadKeeps DEF GetState
  <1>4. ASSUME NEW r \in ResourceIds, MarkAsFailed(r)
        PROVE  SInv'
    <2>1. CASE /\ Known(r) /\ IsResourceState(Current(r).state)
               /\ Valid(Current(r).state, "FAILED")
      <3>1. "FAILED" \in States /\ Write(r, "FAILED")
        BY <1>4, <2>1 DEF MarkAsFailed
      <3> QED BY <3>1, <2>1, FoundIsStored, WriteKeeps
    <2>2. CASE ~(/\ Known(r) /\ IsResourceState(Current(r).state)
                 /\ Valid(Current(r).state, "FAILED"))
      <3>1. Read(r)
        BY <1>4, <2>2 DEF MarkAsFailed
      <3> QED BY <3>1, ReadKeeps
    <2> QED BY <2>1, <2>2
  <1>5. ASSUME NEW r \in ResourceIds, MarkAsRecovered(r)
        PROVE  SInv'
    <2>1. CASE Known(r) /\ Current(r).state = "FAILED"
      <3>1. "RECOVERED" \in States /\ Write(r, "RECOVERED")
        BY <1>5, <2>1 DEF MarkAsRecovered
      <3>2. Valid("FAILED", "RECOVERED")
        BY DEF Valid, IsResourceState, ResourceTransitions
      <3> QED BY <3>1, <3>2, <2>1, FoundIsStored, WriteKeeps
    <2>2. CASE ~(Known(r) /\ Current(r).state = "FAILED")
      <3>1. Read(r)
        BY <1>5, <2>2 DEF MarkAsRecovered
      <3> QED BY <3>1, ReadKeeps
    <2> QED BY <2>1, <2>2
  <1>6. ASSUME NEW r \in ResourceIds, TerminateResource(r)
        PROVE  SInv'
    <2>1. CASE /\ Known(r) /\ IsResourceState(Current(r).state)
               /\ Current(r).state # "TERMINATED"
      <3>1. "TERMINATED" \in States /\ Write(r, "TERMINATED")
        BY <1>6, <2>1 DEF TerminateResource
      <3>2. ASSUME NEW s, IsResourceState(s), s # "TERMINATED"
            PROVE  Valid(s, "TERMINATED")
        BY <3>2 DEF Valid, IsResourceState, ResourceTransitions
      <3> QED BY <3>1, <3>2, <2>1, FoundIsStored, WriteKeeps
    <2>2. CASE ~(/\ Known(r) /\ IsResourceState(Current(r).state)
                 /\ Current(r).state # "TERMINATED")
      <3>1. Read(r)
        BY <1>6, <2>2 DEF TerminateResource
      <3> QED BY <3>1, ReadKeeps
    <2> QED BY <2>1, <2>2
  <1>7. ASSUME NEW r \in ResourceIds, RecoverFromSnapshot(r)
        PROVE  SInv'
    <2>1. PICK i \in DOMAIN snapshots[r] : SetState(r, snapshots[r][i])
      BY <1>7 DEF RecoverFromSnapshot
    <2>2. snapshots[r][i] \in States
      BY DEF SInv, StateTypeOK
    <2> QED BY <2>1, <2>2, SetKeeps
  <1>8. ASSUME NEW r \in ResourceIds, DeleteState(r)
        PROVE  SInv'
    <2>1. /\ cache' = [q \in DOMAIN cache \ {r} |-> cache[q]]
          /\ store' = [q \in DOMAIN store \ {r} |-> store[q]]
          /\ history' = [history EXCEPT ![r] = << >>]
          /\ snapshots' = [snapshots EXCEPT ![r] = << >>]
      BY <1>8 DEF DeleteState
    <2>2. CacheAgreesWithStore'
      BY <2>1 DEF SInv, StatesAgree, CacheAgreesWithStore
    <2>3. /\ history' \in [ResourceIds -> Seq(States)]
          /\ snapshots' \in [ResourceIds -> Seq(States)]
          /\ DOMAIN store' \subseteq ResourceIds
          /\ \A q \in DOMAIN store' : store'[q] \in Entries
      BY <2>1 DEF SInv, StateTypeOK
    <2>t. CacheTypeOK'
      <3>1. UNCHANGED cacheKeys
        BY <1>8 DEF DeleteState
      <3> QED BY <2>1, <3>1 DEF SInv, StateTypeOK, CacheTypeOK
    <2>u. StateTypeOK'
      <3>1. writes' \in 0..MaxWrites
        BY <1>8 DEF DeleteState, SInv, StateTypeOK
      <3> QED BY <2>3, <2>t, <3>1, StateTyped
    <2>4. LifeRecorded'
      <3> SUFFICES ASSUME NEW q \in ResourceIds
                   PROVE  /\ q \in DOMAIN store' =>
                              history'[q] # << >> /\ Last(history'[q]) = store'[q].state
                          /\ q \notin DOMAIN store' => history'[q] = << >>
                          /\ \A i \in 1..(Len(history'[q]) - 1) :
                                Valid(history'[q][i], history'[q][i + 1])
                          /\ snapshots'[q] = [i \in 1..(Len(history'[q]) \div SnapshotInterval) |->
                                                history'[q][i * SnapshotInterval]]
        BY DEF LifeRecorded, Valid
      <3>1. CASE q = r
        <4>1. /\ history'[q] = << >> /\ snapshots'[q] = << >> /\ q \notin DOMAIN store'
          BY <2>1, <3>1 DEF SInv, StateTypeOK
        <4>2. 0 \div SnapshotInterval = 0
          BY StateSizesAssumption
        <4>3. Len(history'[q]) = 0
          BY <4>1
        <4> QED BY <4>1, <4>2, <4>3
      <3>2. CASE q # r
        <4>1. /\ history'[q] = history[q] /\ snapshots'[q] = snapshots[q]
              /\ q \in DOMAIN store' <=> q \in DOMAIN store
              /\ q \in DOMAIN store' => store'[q] = store[q]
          BY <2>1, <3>2 DEF SInv, StateTypeOK
        <4> QED BY <4>1 DEF SInv, StatesAgree, LifeRecorded
      <3> QED BY <3>1, <3>2
    <2> QED BY <2>2, <2>u, <2>4 DEF SInv, StatesAgree
  <1> QED BY <1>1, <1>2, <1>3, <1>4, <1>5, <1>6, <1>7, <1>8 DEF StateNext

\* A manager begins without entries.
LEMMA StateBegins ==
    ASSUME StateInit
    PROVE  SInv
  <1>1. \A r \in ResourceIds : history[r] = << >> /\ snapshots[r] = << >>
    BY DEF StateInit
  <1>2. DOMAIN cache = {} /\ DOMAIN store = {}
    BY DEF StateInit
  <1>3. /\ history \in [ResourceIds -> Seq(States)]
        /\ snapshots \in [ResourceIds -> Seq(States)]
    BY DEF StateInit
  <1>4. 0 \div SnapshotInterval = 0 /\ Len(<< >>) = 0
    BY StateSizesAssumption
  <1>5. LifeRecorded
    BY <1>1, <1>2, <1>4 DEF LifeRecorded
  <1>6. StateTypeOK
    BY <1>2, <1>3, StateSizesAssumption DEF StateInit, StateTypeOK
  <1> QED BY <1>2, <1>5, <1>6 DEF SInv, StatesAgree, CacheAgreesWithStore

-----------------------------------------------------------------------------
(* Start and stop of resources (ResourceManager) *)

Frames == [resource : Resources, unchecked : SUBSET Resources]

Ended == {"shutting_down", "shutdown", "error_shutdown"}

\* What the manager knows while it starts resources: the calls in progress are
\* a chain of dependencies, each on a resource that was not started before; and
\* what a call has checked has been started, has failed, or is a call further
\* in.
CallsChain ==
    \A i \in 1..Len(calls) :
        /\ calls[i].unchecked \subseteq dependencies[calls[i].resource]
        /\ i > 1 => calls[i - 1].resource \in dependencies[calls[i].resource]
        /\ resourceState[calls[i].resource] = "initializing"
        /\ started[calls[i].resource] = 0
        /\ \A d \in dependencies[calls[i].resource] \ calls[i].unchecked :
              \/ resourceState[d] \in {"initialized", "error"}
              \/ \E j \in 1..(i - 1) : d = calls[j].resource

CallsDistinct ==
    \A i \in 1..Len(calls), j \in 1..Len(calls) :
        i < j => calls[i].resource # calls[j].resource

RInv ==
    /\ dependencies \in [Resources -> SUBSET Resources] /\ Acyclic(dependencies)
    /\ resourceState \in [Resources -> ResourceStates]
    /\ managerPhase \in {"registered", "starting", "running", "stopping"}
    /\ order \in SUBSET Resources
    /\ calls \in Seq(Frames)
    /\ started \in [Resources -> {0, 1}]
    /\ CallsChain /\ CallsDistinct
    /\ calls # << >> => managerPhase = "starting"
    /\ managerPhase \in {"registered", "starting"} =>
          \A r \in Resources : resourceState[r] \notin Ended
    /\ \A r \in Resources : started[r] = 1 => resourceState[r] \in {"initialized"} \union Ended

\* The chain never comes back to a resource that is on it.
LEMMA NotOnTheChain ==
    ASSUME RInv, calls # << >>, NEW d \in dependencies[calls[1].resource]
    PROVE  \A k \in 1..Len(calls) : d # calls[k].resource
  <1> SUFFICES ASSUME NEW k \in 1..Len(calls), d = calls[k].resource
               PROVE  FALSE
    OBVIOUS
  <1> DEFINE S == {calls[i].resource : i \in 1..k}
  <1>1. /\ Len(calls) \in Nat /\ \A i \in 1..Len(calls) : calls[i] \in Frames
        /\ 1 \in 1..Len(calls)
    BY DEF RInv
  <1>2. S \in SUBSET Resources /\ S # {}
    BY <1>1 DEF Frames
  <1>3. PICK r \in S : dependencies[r] \intersect S = {}
    BY <1>2 DEF RInv, Acyclic
  <1>4. PICK i \in 1..k : r = calls[i].resource
    BY <1>3
  <1>5. d \in S
    BY <1>1
  <1>6. CASE i = 1
    BY <1>3, <1>4, <1>5, <1>6
  <1>7. CASE i > 1
    <2>1. i \in 1..Len(calls) /\ i - 1 \in 1..k
      BY <1>1, <1>4, <1>7
    <2>2. calls[i - 1].resource \in dependencies[r]
      BY <2>1, <1>4, <1>7 DEF RInv, CallsChain
    <2> QED BY <2>1, <2>2, <1>3
  <1> QED BY <1>4, <1>6, <1>7

\* initialize_resource is called for a resource that is not on the chain, by
\* calls that have checked everything but it.
LEMMA EnterKeeps ==
    ASSUME RInv, NEW r \in Resources, NEW waiting \in Seq(Frames), Enter(r, waiting),
           managerPhase = "starting", managerPhase' = "starting",
           UNCHANGED <<dependencies, started>>, order' \in SUBSET Resources,
           Len(waiting) = Len(calls),
           \A i \in 1..Len(calls) :
              /\ waiting[i].resource = calls[i].resource
              /\ calls[i].resource # r
              /\ waiting[i].unchecked \subseteq calls[i].unchecked
              /\ calls[i].unchecked \ waiting[i].unchecked \subseteq {r},
           Len(calls) > 0 => r \in dependencies[calls[1].resource]
    PROVE  RInv'
  <1>0. Len(calls) \in Nat /\ calls \in Seq(Frames)
    BY DEF RInv
  <1>1. CASE resourceState[r] = "initialized"
    <2>1. calls' = waiting /\ resourceState' = resourceState
      BY <1>1 DEF Enter
    <2>2. CallsDistinct'
      <3> SUFFICES ASSUME NEW i \in 1..Len(calls), NEW j \in 1..Len(calls), i < j
                   PROVE  waiting[i].resource # waiting[j].resource
        BY <2>1 DEF CallsDistinct
      <3> QED BY DEF RInv, CallsDistinct
    <2>3. CallsChain'
      <3> SUFFICES ASSUME NEW i \in 1..Len(calls)
                   PROVE /\ waiting[i].unchecked \subseteq dependencies[waiting[i].resource]
                         /\ i > 1 => waiting[i - 1].resource \in dependencies[waiting[i].resource]
                         /\ resourceState[waiting[i].resource] = "initializing"
                         /\ started[waiting[i].resource] = 0
                         /\ \A d \in dependencies[waiting[i].resource] \ waiting[i].unchecked :
                               \/ resourceState[d] \in {"initialized", "error"}
                               \/ \E j \in 1..(i - 1) : d = waiting[j].resource
        BY <2>1 DEF CallsChain
      <3>1. /\ calls[i].unchecked \subseteq dependencies[calls[i].resource]
            /\ i > 1 => calls[i - 1].resource \in dependencies[calls[i].resource]
            /\ resourceState[calls[i].resource] = "initializing"
            /\ started[calls[i].resource] = 0
            /\ \A d \in dependencies[calls[i].resource] \ calls[i].unchecked :
                  \/ resourceState[d] \in {"initialized", "error"}
                  \/ \E j \in 1..(i - 1) : d = calls[j].resource
        BY DEF RInv, CallsChain
      <3>2. \A j \in 1..(i - 1) : j \in 1..Len(calls)
        BY <1>0
      <3>3. i > 1 => i - 1 \in 1..Len(calls)
        BY <1>0
      <3>4. waiting[i].resource = calls[i].resource
        OBVIOUS
      <3>5. i > 1 => waiting[i - 1].resource = calls[i - 1].resource
        BY <3>3
      <3>6. ASSUME NEW d \in dependencies[calls[i].resource] \ waiting[i].unchecked
            PROVE  \/ resourceState[d] \in {"initialized", "error"}
                   \/ \E j \in 1..(i - 1) : d = waiting[j].resource
        <4>1. CASE d = r
          BY <4>1, <1>1
        <4>2. CASE d # r
          <5>1. d \notin calls[i].unchecked
            BY <4>2
          <5> QED BY <5>1, <3>1, <3>2
        <4> QED BY <4>1, <4>2
      <3>7. waiting[i].unchecked \subseteq calls[i].unchecked
        OBVIOUS
      <3> QED BY <3>1, <3>4, <3>5, <3>6, <3>7
    <2> QED BY <2>1, <2>2, <2>3, <1>0 DEF RInv
  <1>2. CASE resourceState[r] # "initialized"
    <2> DEFINE frame == [resource |-> r, unchecked |-> dependencies[r]]
               one == << frame >>
               new == one \o waiting
    <2>1. calls' = new /\ resourceState' = [resourceState EXCEPT ![r] = "initializing"]
      BY <1>2 DEF Enter
    <2>2. frame \in Frames
      BY DEF RInv, Frames
    <2>3. one \in Seq(Frames) /\ Len(one) = 1 /\ one[1] = frame
      BY <2>2
    <2>4. frame.resource = r /\ frame.unchecked = dependencies[r]
      OBVIOUS
    <2> HIDE DEF frame, one
    <2>5. /\ new \in Seq(Frames) /\ Len(new) = Len(calls) + 1 /\ new[1] = frame
          /\ \A i \in 2..(Len(calls) + 1) : new[i] = waiting[i - 1]
      <3>1. /\ new \in Seq(Frames) /\ Len(new) = Len(one) + Len(waiting)
            /\ \A i \in 1..(Len(one) + Len(waiting)) : new[i] =
                     IF i <= Len(one) THEN one[i] ELSE waiting[i - Len(one)]
        BY ONLY waiting \in Seq(Frames), <2>3, ConcatProperties
      <3> HIDE DEF new
      <3> QED BY <3>1, <2>3, <1>0
    <2> HIDE DEF new
    <2>6. /\ \A q \in Resources : q # r => resourceState'[q] = resourceState[q]
          /\ resourceState'[r] = "initializing"
          /\ resourceState' \in [Resources -> ResourceStates]
      BY <2>1 DEF RInv, ResourceStates
    <2>7. started[r] = 0
      BY <1>2 DEF RInv, Ended
    <2>8. \A i \in 2..(Len(calls) + 1) : /\ i - 1 \in 1..Len(calls)
                                         /\ new[i].resource = calls[i - 1].resource
      <3> SUFFICES ASSUME NEW i \in 2..(Len(calls) + 1)
                   PROVE  i - 1 \in 1..Len(calls) /\ new[i].resource = calls[i - 1].resource
        OBVIOUS
      <3>1. i - 1 \in 1..Len(calls)
        BY <1>0
      <3>2. waiting[i - 1].resource = calls[i - 1].resource
        BY <3>1
      <3> QED BY <3>1, <3>2, <2>5
    <2>9. CallsDistinct'
      <3> SUFFICES ASSUME NEW i \in 1..(Len(calls) + 1), NEW j \in 1..(Len(calls) + 1), i < j
                   PROVE  new[i].resource # new[j].resource
        BY <2>1, <2>5 DEF CallsDistinct
      <3>1. j \in 2..(Len(calls) + 1) /\ (i = 1 \/ i \in 2..(Len(calls) + 1))
        BY <1>0
      <3>2. CASE i = 1
        <4>1. calls[j - 1].resource # r /\ new[j].resource = calls[j - 1].resource
          BY <3>1, <2>8
        <4>2. new[i].resource = r
          BY <3>2, <2>4, <2>5
        <4> QED BY <4>1, <4>2
      <3>3. CASE i \in 2..(Len(calls) + 1)
        <4>1. i - 1 < j - 1
          BY <1>0
        <4>2. /\ i - 1 \in 1..Len(calls) /\ new[i].resource = calls[i - 1].resource
              /\ j - 1 \in 1..Len(calls) /\ new[j].resource = calls[j - 1].resource
          BY <3>1, <3>3, <2>8
        <4>3. calls[i - 1].resource # calls[j - 1].resource
          BY <4>1, <4>2 DEF RInv, CallsDistinct
        <4> QED BY <4>2, <4>3
      <3> QED BY <3>1, <3>2, <3>3
    <2>10. CallsChain'
      <3> SUFFICES ASSUME NEW i \in 1..(Len(calls) + 1)
                   PROVE /\ new[i].unchecked \subseteq dependencies[new[i].resource]
                         /\ i > 1 => new[i - 1].resource \in dependencies[new[i].resource]
                         /\ resourceState'[new[i].resource] = "initializing"
                         /\ started[new[i].resource] = 0
                         /\ \A d \in dependencies[new[i].resource] \ new[i].unchecked :
                               \/ resourceState'[d] \in {"initialized", "error"}
                               \/ \E j \in 1..(i - 1) : d = new[j].resource
        <4>1. Len(calls') = Len(calls) + 1 /\ dependencies' = dependencies /\ started' = started
          BY <2>1, <2>5
        <4> QED BY <4>1, <2>1 DEF CallsChain
      <3>1. CASE i = 1
        BY <3>1, <2>4, <2>5, <2>6, <2>7
      <3>2. CASE i \in 2..(Len(calls) + 1)
        <4> DEFINE k == i - 1
        <4>0. k \in 1..Len(calls) /\ new[i] = waiting[k] /\ new[i].resource = calls[k].resource
          BY <3>2, <2>5, <2>8
        <4>1. /\ calls[k].unchecked \subseteq dependencies[calls[k].resource]
              /\ k > 1 => calls[k - 1].resource \in dependencies[calls[k].resource]
              /\ resourceState[calls[k].resource] = "initializing"
              /\ started[calls[k].resource] = 0
              /\ \A d \in dependencies[calls[k].resource] \ calls[k].unchecked :
                    \/ resourceState[d] \in {"initialized", "error"}
                    \/ \E j \in 1..(k - 1) : d = calls[j].resource
          BY <4>0 DEF RInv, CallsChain
        <4>2. new[i - 1].resource \in dependencies[new[i].resource]
          <5>1. CASE k = 1
            <6>1. new[i - 1].resource = r /\ calls[k].resource = calls[1].resource
              BY <5>1, <2>4, <2>5
            <6> QED BY <6>1, <4>0, <1>0
          <5>2. CASE k > 1
            <6>1. new[k].resource = calls[k - 1].resource
              BY <5>2, <4>0, <2>8, <1>0
            <6> QED BY <6>1, <5>2, <4>0, <4>1
          <5> QED BY <5>1, <5>2, <4>0
        <4>3. resourceState'[new[i].resource] = "initializing"
          <5>1. calls[k] \in Frames /\ calls[k].resource # r
            BY <4>0, <1>0
          <5> QED BY <5>1, <4>0, <4>1, <2>6 DEF Frames
        <4>4. ASSUME NEW d \in dependencies[new[i].resource] \ new[i].unchecked
              PROVE  \/ resourceState'[d] \in {"initialized", "error"}
                     \/ \E j \in 1..(i - 1) : d = new[j].resource
          <5>1. CASE d = r
            BY <5>1, <3>2, <2>4, <2>5, <1>0
          <5>2. CASE d # r
            <6>1. d \notin calls[k].unchecked
              BY <5>2, <4>0
            <6>2. calls[k] \in Frames /\ d \in Resources
              <7>1. calls[k] \in Frames
                BY <4>0, <1>0
              <7>2. dependencies[calls[k].resource] \subseteq Resources
                BY <7>1 DEF RInv, Frames
              <7> QED BY <7>1, <7>2, <4>0
            <6>3. CASE resourceState[d] \in {"initialized", "error"}
              BY <6>2, <6>3, <5>2, <2>6
            <6>4. CASE \E j \in 1..(k - 1) : d = calls[j].resource
              <7>1. PICK j \in 1..(k - 1) : d = calls[j].resource
                BY <6>4
              <7>2. j + 1 \in 2..(Len(calls) + 1) /\ j + 1 \in 1..(i - 1)
                BY <7>1, <4>0, <1>0
              <7>3. new[j + 1].resource = calls[(j + 1) - 1].resource
                BY <7>2, <2>8
              <7>4. (j + 1) - 1 = j
                BY <7>1
              <7> QED BY <7>1, <7>2, <7>3, <7>4
            <6> QED BY <6>1, <6>3, <6>4, <4>0, <4>1
          <5> QED BY <5>1, <5>2
        <4> QED BY <4>0, <4>1, <4>2, <4>3, <4>4
      <3> QED BY <3>1, <3>2, <1>0
    <2>11. \A q \in Resources : /\ resourceState'[q] \notin Ended
                                /\ started[q] = 1 =>
                                     resourceState'[q] \in {"initialized"} \union Ended
      BY <2>6, <2>7 DEF RInv, Ended
    <2> QED BY <2>1, <2>5, <2>6, <2>9, <2>10, <2>11 DEF RInv
  <1> QED BY <1>1, <1>2

\* Checking a dependency, which may begin a call for it, keeps the invariant.
LEMMA CheckKeeps ==
    ASSUME RInv, CheckDependency
    PROVE  RInv'
  <1>1. /\ calls # << >> /\ calls \in Seq(Frames) /\ Len(calls) \in Nat \ {0}
        /\ Head(calls) = calls[1] /\ 1 \in 1..Len(calls) /\ calls[1] \in Frames
    BY DEF CheckDependency, RInv
  <1>2. PICK d \in calls[1].unchecked : Enter(d, [calls EXCEPT ![1].unchecked = @ \ {d}])
    BY <1>1 DEF CheckDependency
  <1> DEFINE first == [calls[1] EXCEPT !.unchecked = @ \ {d}]
             waiting == [calls EXCEPT ![1] = first]
  <1>3. waiting = [calls EXCEPT ![1].unchecked = @ \ {d}]
    BY <1>1
  <1>4. /\ first \in Frames /\ first.resource = calls[1].resource
        /\ first.unchecked = calls[1].unchecked \ {d}
    BY <1>1 DEF Frames
  <1> HIDE DEF first
  <1>5. /\ waiting \in Seq(Frames) /\ Len(waiting) = Len(calls) /\ waiting[1] = first
        /\ \A i \in 1..Len(calls) : i # 1 => waiting[i] = calls[i]
    BY <1>1, <1>4, ExceptSeq
  <1>6. Enter(d, waiting)
    BY <1>2, <1>3
  <1> HIDE DEF waiting
  <1>7. d \in dependencies[calls[1].resource] /\ d \in Resources
    BY <1>1, <1>2 DEF RInv, CallsChain, Frames
  <1>8. \A i \in 1..Len(calls) : calls[i].resource # d
    BY <1>1, <1>7, NotOnTheChain
  <1>9. \A i \in 1..Len(calls) :
              /\ waiting[i].resource = calls[i].resource
              /\ calls[i].resource # d
              /\ waiting[i].unchecked \subseteq calls[i].unchecked
              /\ calls[i].unchecked \ waiting[i].unchecked \subseteq {d}
    <2> TAKE i \in 1..Len(calls)
    <2>1. CASE i = 1
      BY <2>1, <1>4, <1>5, <1>8
    <2>2. CASE i # 1
      BY <2>2, <1>5, <1>8
    <2> QED BY <2>1, <2>2
  <1>10. /\ managerPhase = "starting" /\ managerPhase' = "starting"
         /\ UNCHANGED <<dependencies, started>> /\ order' \in SUBSET Resources
    BY <1>1 DEF CheckDependency, RInv
  <1> QED BY <1>1, <1>5, <1>6, <1>7, <1>9, <1>10, EnterKeeps

\* Coming to a resource of the order keeps the invariant.
LEMMA ListedKeeps ==
    ASSUME RInv, InitializeListed
    PROVE  RInv'
  <1>1. PICK r \in order : order' = order \ {r} /\ Enter(r, << >>)
    BY DEF InitializeListed
  <1>2. /\ calls = << >> /\ Len(calls) = 0 /\ r \in Resources /\ << >> \in Seq(Frames)
        /\ order' \in SUBSET Resources /\ managerPhase = "starting"
        /\ UNCHANGED <<dependencies, managerPhase, started>>
    BY <1>1 DEF InitializeListed, RInv
  <1> DEFINE waiting == << >>
  <1>3. Enter(r, waiting) /\ waiting \in Seq(Frames) /\ Len(waiting) = Len(calls)
    BY <1>1, <1>2
  <1> HIDE DEF waiting
  <1>4. \A i \in 1..Len(calls) :
              /\ waiting[i].resource = calls[i].resource
              /\ calls[i].resource # r
              /\ waiting[i].unchecked \subseteq calls[i].unchecked
              /\ calls[i].unchecked \ waiting[i].unchecked \subseteq {r}
    BY <1>2
  <1>5. managerPhase' = "starting" /\ (Len(calls) > 0 => r \in dependencies[calls[1].resource])
    BY <1>2
  <1> QED BY <1>2, <1>3, <1>4, <1>5, EnterKeeps

\* The innermost call ends: what it started is not on the rest of the chain,
\* and was not started before.
LEMMA InitializedKeeps ==
    ASSUME RInv, NEW success \in BOOLEAN, Initialized(success)
    PROVE  RInv'
  <1> DEFINE r == calls[1].resource
             rest == Tail(calls)
             outcome == IF success THEN "initialized" ELSE "error"
  <1>1. /\ calls # << >> /\ calls \in Seq(Frames) /\ Len(calls) \in Nat \ {0}
        /\ Head(calls) = calls[1] /\ 1 \in 1..Len(calls) /\ calls[1] \in Frames
        /\ r \in Resources /\ managerPhase = "starting"
    <2>1. calls # << >> /\ calls \in Seq(Frames) /\ managerPhase = "starting"
      BY DEF Initialized, RInv
    <2>2. /\ Len(calls) \in Nat \ {0} /\ Head(calls) = calls[1] /\ 1 \in 1..Len(calls)
          /\ calls[1] \in Frames
      BY <2>1
    <2> QED BY <2>1, <2>2 DEF Frames
  <1>2. /\ resourceState' = [resourceState EXCEPT ![r] = outcome]
        /\ started' = IF success THEN [started EXCEPT ![r] = @ + 1] ELSE started
        /\ calls' = rest
        /\ UNCHANGED <<dependencies, managerPhase, order>>
    BY <1>1 DEF Initialized
  <1>3. /\ rest \in Seq(Frames) /\ Len(rest) = Len(calls) - 1
        /\ \A i \in 1..(Len(calls) - 1) : rest[i] = calls[i + 1]
    BY <1>1, HeadTailProperties
  <1> HIDE DEF rest
  <1>4. started[r] = 0
    BY <1>1 DEF RInv, CallsChain
  <1>5. outcome \in {"initialized", "error"}
    OBVIOUS
  <1>6. /\ \A q \in Resources : q # r => resourceState'[q] = resourceState[q]
        /\ resourceState'[r] = outcome
        /\ resourceState' \in [Resources -> ResourceStates]
    BY <1>1, <1>2, <1>5 DEF RInv, ResourceStates
  <1>7. /\ \A q \in Resources : q # r => started'[q] = started[q]
        /\ started'[r] = 1 => success
        /\ started' \in [Resources -> {0, 1}]
    BY <1>1, <1>2, <1>4 DEF RInv
  <1>8. \A i \in 1..(Len(calls) - 1) : /\ i + 1 \in 1..Len(calls)
                                       /\ rest[i] = calls[i + 1]
                                       /\ calls[i + 1] \in Frames
                                       /\ calls[i + 1].resource # r
    <2> SUFFICES ASSUME NEW i \in 1..(Len(calls) - 1)
                 PROVE  /\ i + 1 \in 1..Len(calls)
                        /\ rest[i] = calls[i + 1]
                        /\ calls[i + 1] \in Frames
                        /\ calls[i + 1].resource # r
      OBVIOUS
    <2>1. i + 1 \in 1..Len(calls) /\ 1 < i + 1
      BY <1>1
    <2> QED BY <2>1, <1>1, <1>3 DEF RInv, CallsDistinct
  <1> HIDE DEF r, outcome
  <1>9. CallsDistinct'
    <2> SUFFICES ASSUME NEW i \in 1..(Len(calls) - 1), NEW j \in 1..(Len(calls) - 1), i < j
                 PROVE  rest[i].resource # rest[j].resource
      BY <1>2, <1>3 DEF CallsDistinct
    <2>1. i + 1 < j + 1
      BY <1>1
    <2> QED BY <2>1, <1>8 DEF RInv, CallsDistinct
  <1>10. CallsChain'
    <2>0. Len(calls') = Len(calls) - 1 /\ dependencies' = dependencies
      BY <1>2, <1>3
    <2> SUFFICES ASSUME NEW i \in 1..(Len(calls) - 1)
                 PROVE /\ rest[i].unchecked \subseteq dependencies[rest[i].resource]
                       /\ i > 1 => rest[i - 1].resource \in dependencies[rest[i].resource]
                       /\ resourceState'[rest[i].resource] = "initializing"
                       /\ started'[rest[i].resource] = 0
                       /\ \A d \in dependencies[rest[i].resource] \ rest[i].unchecked :
                             \/ resourceState'[d] \in {"initialized", "error"}
                             \/ \E j \in 1..(i - 1) : d = rest[j].resource
      BY <2>0, <1>2 DEF CallsChain
    <2> DEFINE k == i + 1
    <2>1. /\ k \in 1..Len(calls) /\ rest[i] = calls[k] /\ calls[k] \in Frames
          /\ calls[k].resource # r /\ calls[k].resource \in Resources
      BY <1>8 DEF Frames
    <2>2. /\ calls[k].unchecked \subseteq dependencies[calls[k].resource]
          /\ k > 1 => calls[k - 1].resource \in dependencies[calls[k].resource]
          /\ resourceState[calls[k].resource] = "initializing"
          /\ started[calls[k].resource] = 0
          /\ \A d \in dependencies[calls[k].resource] \ calls[k].unchecked :
                \/ resourceState[d] \in {"initialized", "error"}
                \/ \E j \in 1..(k - 1) : d = calls[j].resource
      BY <2>1 DEF RInv, CallsChain
    <2>3. i > 1 => rest[i - 1].resource \in dependencies[rest[i].resource]
      <3> SUFFICES ASSUME i > 1 PROVE rest[i - 1].resource \in dependencies[rest[i].resource]
        OBVIOUS
      <3>1. i - 1 \in 1..(Len(calls) - 1) /\ (i - 1) + 1 = i /\ k > 1 /\ k - 1 = i
        BY <1>1
      <3>2. rest[i - 1] = calls[i]
        BY <3>1, <1>8
      <3> QED BY <3>1, <3>2, <2>1, <2>2
    <2>4. ASSUME NEW d \in dependencies[calls[k].resource] \ calls[k].unchecked
          PROVE  \/ resourceState'[d] \in {"initialized", "error"}
                 \/ \E j \in 1..(i - 1) : d = rest[j].resource
      <3>0. d \in Resources
        BY <2>1 DEF RInv
      <3>1. CASE d = r
        BY <3>1, <1>5, <1>6
      <3>2. CASE d # r /\ resourceState[d] \in {"initialized", "error"}
        BY <3>0, <3>2, <1>6
      <3>3. CASE d # r /\ \E j \in 1..(k - 1) : d = calls[j].resource
        <4>1. PICK j \in 1..(k - 1) : d = calls[j].resource
          BY <3>3
        <4>2. j # 1
          BY <3>3, <4>1 DEF r
        <4>3. j - 1 \in 1..(i - 1) /\ j - 1 \in 1..(Len(calls) - 1) /\ (j - 1) + 1 = j
          BY <4>1, <4>2, <1>1
        <4>4. rest[j - 1] = calls[j]
          BY <4>3, <1>8
        <4> QED BY <4>1, <4>3, <4>4
      <3> QED BY <3>1, <3>2, <3>3, <2>2
    <2>5. started'[calls[k].resource] = 0
      BY <2>1, <2>2, <1>7
    <2>6. resourceState'[calls[k].resource] = "initializing"
      BY <2>1, <2>2, <1>6
    <2> QED BY <2>1, <2>2, <2>3, <2>4, <2>5, <2>6
  <1>11. \A q \in Resources : /\ resourceState'[q] \notin Ended
                              /\ started'[q] = 1 =>
                                   resourceState'[q] \in {"initialized"} \union Ended
    <2> TAKE q \in Resources
    <2>1. CASE q = r
      BY <2>1, <1>5, <1>6, <1>7 DEF Ended, outcome
    <2>2. CASE q # r
      BY <2>2, <1>1, <1>6, <1>7 DEF RInv
    <2> QED BY <2>1, <2>2
  <1> QED BY <1>1, <1>2, <1>3, <1>6, <1>7, <1>9, <1>10, <1>11 DEF RInv

\* Steps outside the calls keep the invariant.
LEMMA OtherStepsKeep ==
    ASSUME RInv,
           \/ InitializeResources \/ ResourcesInitialized \/ StopResources
           \/ ShutdownBegins \/ \E success \in BOOLEAN : ResourceStopped(success)
    PROVE  RInv'
  <1>0. calls = << >> /\ calls' = << >> /\ dependencies' = dependencies /\ started' = started
    <2>1. managerPhase # "starting" => calls = << >>
      BY DEF RInv
    <2>2. CASE InitializeResources \/ ResourcesInitialized \/ StopResources
      BY <2>1, <2>2 DEF InitializeResources, ResourcesInitialized, StopResources
    <2>3. CASE ShutdownBegins
      BY <2>1, <2>3 DEF ShutdownBegins
    <2>4. ASSUME NEW success \in BOOLEAN, ResourceStopped(success)
          PROVE  /\ calls = << >> /\ calls' = << >>
                 /\ dependencies' = dependencies /\ started' = started
      <3>1. managerPhase # "starting"
        BY <2>4 DEF ResourceStopped, RInv, Ended
      <3> QED BY <3>1, <2>1, <2>4 DEF ResourceStopped
    <2> QED BY <2>2, <2>3, <2>4
  <1>1. CASE InitializeResources \/ ResourcesInitialized \/ StopResources
    <2>1. /\ resourceState' = resourceState /\ order' \in SUBSET Resources
          /\ managerPhase' \in {"registered", "starting", "running", "stopping"}
          /\ managerPhase' \in {"registered", "starting"} =>
                managerPhase \in {"registered", "starting"}
      BY <1>1 DEF RInv, InitializeResources, ResourcesInitialized, StopResources, Order
    <2> QED BY <1>0, <2>1 DEF RInv, CallsChain, CallsDistinct
  <1>2. CASE ShutdownBegins \/ \E success \in BOOLEAN : ResourceStopped(success)
    <2>1. PICK r \in Resources, s \in Ended :
             resourceState' = [resourceState EXCEPT ![r] = s]
      BY <1>2 DEF RInv, ShutdownBegins, ResourceStopped, Ended
    <2>2. order' \in SUBSET Resources /\ managerPhase' = managerPhase
      BY <1>2 DEF RInv, ShutdownBegins, ResourceStopped
    <2>3. managerPhase \notin {"registered", "starting"}
      BY <1>2 DEF RInv, ShutdownBegins, ResourceStopped, Ended
    <2>4. resourceState' \in [Resources -> ResourceStates]
      BY <2>1 DEF RInv, Ended, ResourceStates
    <2>5. \A q \in Resources : started[q] = 1 =>
                                   resourceState'[q] \in {"initialized"} \union Ended
      BY <2>1 DEF RInv
    <2> QED BY <1>0, <2>2, <2>3, <2>4, <2>5 DEF RInv, CallsChain, CallsDistinct
  <1> QED BY <1>1, <1>2

\* Every step of the manager keeps the invariant.
LEMMA ManagerKept ==
    ASSUME RInv, [ManagerNext]_managerVars
    PROVE  RInv'
  <1>1. CASE UNCHANGED managerVars
    BY <1>1 DEF managerVars, RInv, CallsChain, CallsDistinct
  <1>2. CASE ManagerNext
    BY <1>2, CheckKeeps, ListedKeeps, InitializedKeeps, OtherStepsKeep
    DEF ManagerNext, ManagerProceeds
  <1> QED BY <1>1, <1>2

\* A manager begins as the invariant says.
LEMMA ManagerBegins ==
    ASSUME ManagerInit
    PROVE  RInv
  <1>1. calls = << >> /\ Len(calls) = 0 /\ calls \in Seq(Frames)
    BY DEF ManagerInit
  <1> QED BY <1>1 DEF ManagerInit, RInv, CallsChain, CallsDistinct, ResourceStates, Ended

\* Types and order of start follow from the invariant.
LEMMA ManagerRight ==
    ASSUME RInv
    PROVE  StartedAfterDependencies /\ ManagerTypeOK
  <1>1. \A r \in Resources : started[r] <= 1
    <2> TAKE r \in Resources
    <2>1. started[r] = 0 \/ started[r] = 1
      BY DEF RInv
    <2> QED BY <2>1
  <1>2. ASSUME calls # << >>, Head(calls).unchecked = {},
               NEW d \in dependencies[Head(calls).resource]
        PROVE  resourceState[d] \in {"initialized", "error"}
    <2>1. Head(calls) = calls[1] /\ 1 \in 1..Len(calls)
      BY <1>2 DEF RInv
    <2> QED BY <1>2, <2>1 DEF RInv, CallsChain
  <1>3. ManagerTypeOK
    <2>1. ASSUME NEW i \in DOMAIN calls
          PROVE  /\ calls[i].resource \in Resources
                 /\ calls[i].unchecked \subseteq dependencies[calls[i].resource]
                 /\ \A j \in DOMAIN calls : j > i => calls[j].resource # calls[i].resource
      <3>1. i \in 1..Len(calls) /\ DOMAIN calls = 1..Len(calls) /\ calls[i] \in Frames
        BY <2>1 DEF RInv
      <3>2. calls[i].resource \in Resources
        BY <3>1 DEF Frames
      <3>3. calls[i].unchecked \subseteq dependencies[calls[i].resource]
        BY <3>1 DEF RInv, CallsChain
      <3>4. \A j \in DOMAIN calls : j > i => calls[j].resource # calls[i].resource
        BY <3>1 DEF RInv, CallsDistinct
      <3> QED BY <3>2, <3>3, <3>4
    <2>2. started \in [Resources -> Nat]
      BY DEF RInv
    <2> QED BY <2>1, <2>2 DEF RInv, ManagerTypeOK
  <1> QED BY <1>1, <1>2, <1>3 DEF StartedAfterDependencies

-----------------------------------------------------------------------------
(* Start and stop of managers (ResourceCoordinator) *)

\* Whoever calls, however often: what counts as complete was started or runs from
\* the beginning, and nothing runs before its requirements were started.
AnyStart ==
    /\ flagged \subseteq begun \union Preset
    /\ \A m \in Managers : initState[m] = "complete" => m \in begun \union Preset
    /\ \A m \in Managers : delayed[m] = "scheduled" => m \in registered
    /\ \A m \in Managers : delayed[m] = "start" => m \in begun
    /\ \A c \in Starters : starter[c].does = "start" => starter[c].with \in begun
    /\ \A c \in Starters : starter[c] = Idle => toStart[c] = {}
    /\ (\A c \in Starters : starter[c] = Idle) => ~initialized
    /\ \A m \in begun : required[m] \subseteq begun \union Preset

\* One call of initialize_all, which starts nothing twice and begins with all
\* that was registered.
OneCall ==
    /\ \A c, d \in Starters : starter[c] # Idle /\ starter[d] # Idle => c = d
    /\ \A m \in Managers : delayed[m] = "none"
    /\ (\A c \in Starters : starter[c] = Idle) => begun = {}
    /\ \A c \in Starters :
        /\ toStart[c] \subseteq shutdownList
        /\ starter[c].does = "loop" => toStart[c] \intersect begun = {}
        /\ starter[c].does = "start" =>
              /\ starter[c].with \in toStart[c] \ up
              /\ toStart[c] \intersect begun \subseteq {starter[c].with}
        /\ starter[c].does \in {"loop", "start"} => AcyclicOn(shutdownList)
    /\ \A m \in Managers : initState[m] = "complete" => m \in up \union Preset
    /\ \A m \in up : initState[m] = "complete"
    /\ \A m \in begun : required[m] \subseteq up \union Preset
    /\ up \subseteq shutdownList
    /\ up # {} => AcyclicOn(shutdownList)

\* Then one shutdown, which asks what came up to stop, those that require others
\* before these.
OneShutdown ==
    /\ shutter # Idle => ~InitBusy /\ up \subseteq asked \union toStop
    /\ shutter = Idle => asked = {} /\ toStop = {}
    /\ shutter.does = "returned" => toStop = {}
    /\ \A m \in asked : \A q \in up : m \in required[q] => q \in asked

CInv == CoordinatorTypeOK /\ AnyStart /\ (plain => OneCall /\ OneShutdown)

\* A coordinator begins as the invariant says.
LEMMA CoordinatorBegins ==
    ASSUME CoordinatorInit
    PROVE  CInv
  <1>1. CoordinatorTypeOK
    BY FlagsAssumption DEF CoordinatorInit, CoordinatorTypeOK, Idle, Nobody, InitStates
  <1>2. AnyStart
    BY DEF CoordinatorInit, AnyStart, Idle
  <1>3. OneCall
    BY DEF CoordinatorInit, OneCall, Idle
  <1>4. OneShutdown
    BY DEF CoordinatorInit, OneShutdown, Idle
  <1> QED BY <1>1, <1>2, <1>3, <1>4 DEF CInv

\* The order of starts and stops follows from the invariant.
LEMMA CoordinatorRight ==
    ASSUME CInv
    PROVE  StartedAndStoppedInOrder
  <1>1. RequiredStartFirst
    BY DEF CInv, AnyStart, OneCall, RequiredStartFirst
  <1>2. OrderlyShutdown
    <2> SUFFICES ASSUME plain
                 PROVE  /\ \A m \in asked : \A q \in up : m \in required[q] => q \in asked
                        /\ shutter.does = "returned" => up \subseteq asked
      BY DEF OrderlyShutdown
    <2>1. shutter.does = "returned" => shutter # Idle
      BY DEF Idle
    <2> QED BY <2>1 DEF CInv, OneShutdown
  <1> QED BY <1>1, <1>2 DEF StartedAndStoppedInOrder

\* Registering a manager keeps the invariant.
LEMMA RegisterKeeps ==
    ASSUME CInv, NEW m \in Managers, Register(m)
    PROVE  CInv'
  <1>1. /\ registered' = registered \union {m}
        /\ delayed' = IF initialized THEN [delayed EXCEPT ![m] = "scheduled"] ELSE delayed
        /\ plain' = (plain /\ \A c \in Starters : starter[c] = Idle)
        /\ UNCHANGED <<required, initialized, starter, toStart, successful, shutdownList,
                       shutter, toStop, asked, initState, flagged, begun, up>>
    BY DEF Register, stopping, managers
  <1>2. CoordinatorTypeOK'
    BY <1>1 DEF CInv, CoordinatorTypeOK
  <1>3. AnyStart'
    BY <1>1 DEF CInv, AnyStart, CoordinatorTypeOK
  <1>4. ASSUME plain'
        PROVE  OneCall' /\ OneShutdown'
    <2>1. plain /\ ~initialized
      BY <1>1, <1>4 DEF CInv, AnyStart
    <2>2. delayed' = delayed
      BY <1>1, <2>1
    <2>3. OneCall'
      BY <1>1, <2>1, <2>2 DEF CInv, OneCall, AcyclicOn
    <2>4. OneShutdown'
      BY <1>1, <2>1 DEF CInv, OneShutdown, InitBusy
    <2> QED BY <2>3, <2>4
  <1> QED BY <1>2, <1>3, <1>4 DEF CInv

\* A call of initialize_all keeps the invariant.
LEMMA InitializeAllKeeps ==
    ASSUME CInv, NEW c \in Starters, InitializeAll(c)
    PROVE  CInv'
  <1>1. /\ starter[c] = Idle
        /\ plain' = (plain /\ \A d \in Starters : starter[d] = Idle /\ shutter = Idle)
        /\ UNCHANGED <<required, registered, successful, delayed, shutter, toStop, asked,
                       initState, flagged, begun, up>>
    BY DEF InitializeAll, managers
  <1>2. \/ /\ starter' = [starter EXCEPT ![c] = [does |-> "raised", with |-> Nobody]]
           /\ UNCHANGED <<toStart, shutdownList>> /\ initialized' \in BOOLEAN
        \/ /\ starter' = [starter EXCEPT ![c] = [does |-> "loop", with |-> Nobody]]
           /\ AcyclicOn(registered)
           /\ toStart' = [toStart EXCEPT ![c] = registered]
           /\ shutdownList' = registered /\ initialized' = initialized
    BY DEF InitializeAll, Does, CInv, CoordinatorTypeOK
  <1>3. CoordinatorTypeOK'
    BY <1>1, <1>2 DEF CInv, CoordinatorTypeOK, Over, Nobody
  <1>4. AnyStart'
    <2>1. CASE starter' = [starter EXCEPT ![c] = [does |-> "raised", with |-> Nobody]]
               /\ UNCHANGED toStart
      BY <1>1, <2>1 DEF CInv, AnyStart, CoordinatorTypeOK, Idle
    <2>2. CASE starter' = [starter EXCEPT ![c] = [does |-> "loop", with |-> Nobody]]
               /\ toStart' = [toStart EXCEPT ![c] = registered]
      BY <1>1, <2>2 DEF CInv, AnyStart, CoordinatorTypeOK, Idle
    <2> QED BY ONLY <1>2, <2>1, <2>2
  <1>5. ASSUME plain'
        PROVE  OneCall' /\ OneShutdown'
    <2>1. /\ plain /\ \A d \in Starters : starter[d] = Idle /\ toStart[d] = {}
          /\ shutter = Idle /\ begun = {} /\ up = {}
      BY <1>1, <1>5 DEF CInv, OneCall, AnyStart, CoordinatorTypeOK
    <2>2. starter \in [Starters -> [does : {"idle", "loop", "start"} \union Over,
                                 with : Managers \union {Nobody}]]
      BY DEF CInv, CoordinatorTypeOK
    <2>3. \A d \in Starters : d # c => starter'[d] = Idle
      BY <1>2, <2>1, <2>2
    <2>4. starter'[c].does \in {"raised", "loop"} /\ starter'[c] # Idle
      BY <1>2, <2>2 DEF Idle
    <2>5. AcyclicOn(registered) => AcyclicOn(registered)'
      BY <1>1 DEF AcyclicOn
    <2>6. OneCall'
      <3>1. \A d, e \in Starters : starter'[d] # Idle /\ starter'[e] # Idle => d = e
        BY <2>3
      <3>2. \A d \in Starters :
               /\ toStart'[d] \subseteq shutdownList'
               /\ starter'[d].does = "loop" => toStart'[d] \intersect begun' = {}
               /\ starter'[d].does # "start"
               /\ starter'[d].does \in {"loop", "start"} => AcyclicOn(shutdownList)'
        <4> TAKE d \in Starters
        <4>1. CASE d # c
          BY <4>1, <1>2, <2>1, <2>3 DEF CInv, CoordinatorTypeOK, Idle
        <4>2. CASE d = c /\ starter'[c].does = "raised"
          BY <4>2, <1>2, <2>1, <2>4, <2>2
        <4>3. CASE d = c /\ starter'[c].does = "loop"
          <5>1. /\ AcyclicOn(registered) /\ toStart' = [toStart EXCEPT ![c] = registered]
                /\ shutdownList' = registered
            BY <4>3, <1>2, <2>2
          <5>2. AcyclicOn(shutdownList)'
            BY <5>1, <1>1 DEF AcyclicOn
          <5> QED BY <5>1, <5>2, <4>3, <1>1, <2>1 DEF CInv, CoordinatorTypeOK
        <4> QED BY <4>1, <4>2, <4>3, <2>4
      <3> QED BY <3>1, <3>2, <1>1, <2>1, <2>4 DEF OneCall, CInv
    <2>7. OneShutdown'
      BY <1>1, <2>1 DEF CInv, OneShutdown, Idle
    <2> QED BY <2>6, <2>7
  <1> QED BY <1>3, <1>4, <1>5 DEF CInv

\* A call of initialize_all is done with the manager m, which is its next.
LEMMA CountedKeeps ==
    ASSUME CInv, NEW c \in Starters, NEW m \in registered, NEW success \in BOOLEAN,
           Counted(c, m, success),
           UNCHANGED <<required, registered, initialized, delayed, shutdownList, shutter,
                       toStop, asked, flagged, begun, plain>>,
           starter[c].does \in {"loop", "start"},
           up \subseteq up', up' \subseteq up \union ({m} \intersect begun),
           success => m \in begun \union Preset,
           plain => /\ m \in toStart[c]
                    /\ success => m \in up' \union Preset
                    /\ ~success => m \notin up'
                    /\ toStart[c] \intersect begun \subseteq {m}
    PROVE  CInv'
  <1>1. /\ initState' = [initState EXCEPT ![m] = IF success THEN "complete" ELSE "failed"]
        /\ starter' = [starter EXCEPT ![c] = [does |-> "loop", with |-> Nobody]]
        /\ successful' = IF success THEN successful \union {c} ELSE successful
        /\ \/ toStart' = [toStart EXCEPT ![c] = {}]
           \/ toStart' = [toStart EXCEPT ![c] = @ \ {m}]
    BY DEF Counted, Does
  <1>2. /\ starter \in [Starters -> [does : {"idle", "loop", "start"} \union Over,
                                     with : Managers \union {Nobody}]]
        /\ toStart \in [Starters -> SUBSET registered] /\ registered \subseteq Managers
        /\ initState \in [Managers -> InitStates]
    BY DEF CInv, CoordinatorTypeOK
  <1>3. /\ starter' \in [Starters -> [does : {"idle", "loop", "start"} \union Over,
                                      with : Managers \union {Nobody}]]
        /\ starter'[c].does = "loop" /\ starter'[c] # Idle /\ starter[c] # Idle
        /\ \A d \in Starters : d # c => starter'[d] = starter[d]
    BY <1>1, <1>2 DEF Idle
  <1>4. /\ toStart' \in [Starters -> SUBSET registered]
        /\ toStart'[c] \subseteq toStart[c] \ {m}
        /\ \A d \in Starters : d # c => toStart'[d] = toStart[d]
    BY <1>1, <1>2
  <1>5. /\ initState' \in [Managers -> InitStates]
        /\ initState'[m] = "complete" <=> success
        /\ \A q \in Managers : q # m => initState'[q] = initState[q]
    BY <1>1, <1>2 DEF InitStates
  <1>6. CoordinatorTypeOK'
    <2>1. successful' \in SUBSET Starters /\ up' \subseteq begun
      BY <1>1 DEF CInv, CoordinatorTypeOK
    <2> QED BY <1>3, <1>4, <1>5, <2>1 DEF CInv, CoordinatorTypeOK
  <1>7. AnyStart'
    BY <1>3, <1>4, <1>5 DEF CInv, AnyStart
  <1>8. ASSUME plain
        PROVE  OneCall' /\ OneShutdown'
    <2>1. AcyclicOn(shutdownList)
      BY <1>8 DEF CInv, OneCall
    <2>2. AcyclicOn(shutdownList)'
      BY <2>1 DEF AcyclicOn
    <2>3. \A d \in Starters : d # c => starter[d] = Idle /\ starter'[d] = Idle /\ toStart'[d] = {}
      BY <1>3, <1>4, <1>8 DEF CInv, OneCall, AnyStart
    <2>4. OneCall'
      <3>1. \A d, e \in Starters : starter'[d] # Idle /\ starter'[e] # Idle => d = e
        BY <2>3
      <3>2. \A d \in Starters :
               /\ toStart'[d] \subseteq shutdownList'
               /\ starter'[d].does = "loop" => toStart'[d] \intersect begun' = {}
               /\ starter'[d].does # "start"
        <4> TAKE d \in Starters
        <4>1. CASE d # c
          BY <4>1, <2>3 DEF Idle
        <4>2. CASE d = c
          BY <4>2, <1>3, <1>4, <1>8 DEF CInv, OneCall
        <4> QED BY <4>1, <4>2
      <3>3. \A q \in Managers : initState'[q] = "complete" => q \in up' \union Preset
        BY <1>5, <1>8 DEF CInv, OneCall
      <3>4. \A q \in up' : initState'[q] = "complete"
        BY <1>5, <1>8 DEF CInv, OneCall, CoordinatorTypeOK
      <3>5. \A q \in begun' : required'[q] \subseteq up' \union Preset
        BY <1>8 DEF CInv, OneCall
      <3>6. up' \subseteq shutdownList'
        BY <1>8 DEF CInv, OneCall
      <3>7. \A d \in Starters : starter'[d] = Idle => d # c
        BY <1>3
      <3> QED BY <2>2, <3>1, <3>2, <3>3, <3>4, <3>5, <3>6, <3>7, <1>3, <1>8 DEF CInv, OneCall
    <2>5. OneShutdown'
      <3>1. shutter = Idle
        BY <1>8 DEF CInv, OneShutdown, InitBusy
      <3> QED BY <3>1, <1>8 DEF CInv, OneShutdown
    <2> QED BY <2>4, <2>5
  <1> QED BY <1>6, <1>7, <1>8 DEF CInv

\* Coming to the next manager keeps the invariant.
LEMMA InitializeNextKeeps ==
    ASSUME CInv, NEW c \in Starters, InitializeNext(c)
    PROVE  CInv'
  <1>0. /\ starter[c].does = "loop"
        /\ UNCHANGED <<required, registered, initialized, delayed, shutdownList, shutter,
                       toStop, asked, plain>>
        /\ toStart[c] \subseteq registered /\ registered \subseteq Managers
    BY DEF InitializeNext, stopping, CInv, CoordinatorTypeOK
  <1>1. PICK m \in toStart[c] :
           \/ m \in flagged /\ Counted(c, m, TRUE) /\ UNCHANGED <<flagged, begun, up>>
           \/ Counted(c, m, FALSE) /\ UNCHANGED <<flagged, begun, up>>
           \/ /\ m \notin flagged /\ RequiredComplete(m)
              /\ initState' = [initState EXCEPT ![m] = "in_progress"]
              /\ Does(c, "start", m)
              /\ StartCalled(m)
              /\ UNCHANGED <<toStart, successful>>
    BY DEF InitializeNext
  <1>2. /\ m \in registered /\ m \in Managers
        /\ plain => toStart[c] \intersect begun = {} /\ m \notin begun
    BY <1>0, <1>1 DEF CInv, OneCall
  <1>3. plain => m \notin up
    BY <1>2 DEF CInv, CoordinatorTypeOK
  <1>4. ASSUME m \in flagged, Counted(c, m, TRUE), UNCHANGED <<flagged, begun, up>>
        PROVE  CInv'
    <2>1. m \in begun \union Preset
      BY <1>4 DEF CInv, AnyStart
    <2> QED BY <1>0, <1>2, <1>3, <1>4, <2>1, CountedKeeps
  <1>5. ASSUME Counted(c, m, FALSE), UNCHANGED <<flagged, begun, up>>
        PROVE  CInv'
    BY <1>0, <1>2, <1>3, <1>5, CountedKeeps
  <1>6. ASSUME RequiredComplete(m),
               initState' = [initState EXCEPT ![m] = "in_progress"],
               Does(c, "start", m), StartCalled(m), UNCHANGED <<toStart, successful>>
        PROVE  CInv'
    <2>1. /\ begun' = begun \union {m} /\ up' = up
          /\ flagged' = flagged \union ({m} \intersect Flagging)
      BY <1>6 DEF StartCalled
    <2>2. starter \in [Starters -> [does : {"idle", "loop", "start"} \union Over,
                                    with : Managers \union {Nobody}]]
      BY DEF CInv, CoordinatorTypeOK
    <2>3. /\ starter' \in [Starters -> [does : {"idle", "loop", "start"} \union Over,
                                        with : Managers \union {Nobody}]]
          /\ starter'[c].does = "start" /\ starter'[c].with = m
          /\ starter'[c] # Idle /\ starter[c] # Idle
          /\ \A d \in Starters : d # c => starter'[d] = starter[d]
      BY <1>0, <1>2, <1>6, <2>2 DEF Does, Idle
    <2>4. /\ initState' \in [Managers -> InitStates]
          /\ initState'[m] # "complete"
          /\ \A q \in Managers : q # m => initState'[q] = initState[q]
      BY <1>2, <1>6 DEF CInv, CoordinatorTypeOK, InitStates
    <2>5. CoordinatorTypeOK'
      BY <1>0, <1>2, <1>6, <2>1, <2>3, <2>4, FlagsAssumption DEF CInv, CoordinatorTypeOK
    <2>6. required[m] \subseteq begun \union Preset
      BY <1>6, <1>0 DEF CInv, AnyStart, RequiredComplete
    <2>7. AnyStart'
      BY <1>0, <1>2, <1>6, <2>1, <2>3, <2>4, <2>6 DEF CInv, AnyStart
    <2>8. ASSUME plain
          PROVE  OneCall' /\ OneShutdown'
      <3>1. AcyclicOn(shutdownList)
        BY <1>0, <2>8 DEF CInv, OneCall
      <3>2. AcyclicOn(shutdownList)'
        BY <3>1, <1>0 DEF AcyclicOn
      <3>3. \A d \in Starters : d # c => starter[d] = Idle /\ starter'[d] = Idle /\ toStart'[d] = {}
        BY <1>6, <2>3, <2>8 DEF CInv, OneCall, AnyStart
      <3>4. required[m] \subseteq up \union Preset
        BY <1>6, <1>0, <2>8 DEF CInv, OneCall, RequiredComplete
      <3>5. OneCall'
        <4>1. \A d, e \in Starters : starter'[d] # Idle /\ starter'[e] # Idle => d = e
          BY <3>3
        <4>2. \A d \in Starters :
                 /\ toStart'[d] \subseteq shutdownList'
                 /\ starter'[d].does # "loop"
                 /\ starter'[d].does = "start" =>
                      /\ starter'[d].with \in toStart'[d] \ up'
                      /\ toStart'[d] \intersect begun' \subseteq {starter'[d].with}
          <5> TAKE d \in Starters
          <5>1. CASE d # c
            BY <5>1, <3>3 DEF Idle
          <5>2. CASE d = c
            BY <5>2, <1>0, <1>2, <1>3, <1>6, <2>1, <2>3, <2>8 DEF CInv, OneCall
          <5> QED BY <5>1, <5>2
        <4>3. /\ \A q \in Managers : initState'[q] = "complete" => q \in up' \union Preset
              /\ \A q \in up' : initState'[q] = "complete"
          BY <1>3, <2>1, <2>4, <2>8 DEF CInv, OneCall, CoordinatorTypeOK
        <4>4. \A q \in begun' : required'[q] \subseteq up' \union Preset
          BY <1>0, <2>1, <2>8, <3>4 DEF CInv, OneCall
        <4>5. \A d \in Starters : starter'[d] = Idle => d # c
          BY <2>3
        <4> QED BY <3>2, <4>1, <4>2, <4>3, <4>4, <4>5, <1>0, <2>1, <2>3, <2>8 DEF CInv, OneCall
      <3>6. OneShutdown'
        <4>1. shutter = Idle
          BY <1>0, <2>8 DEF CInv, OneShutdown, InitBusy
        <4> QED BY <4>1, <1>0, <2>1, <2>8 DEF CInv, OneShutdown
      <3> QED BY <3>5, <3>6
    <2> QED BY <1>0, <2>5, <2>7, <2>8 DEF CInv
  <1> QED BY <1>1, <1>4, <1>5, <1>6

\* The end of a manager's start keeps the invariant.
LEMMA StartEndsKeeps ==
    ASSUME CInv, NEW c \in Starters, NEW success \in BOOLEAN, StartEnds(c, success)
    PROVE  CInv'
  <1>1. PICK m : m = starter[c].with
    OBVIOUS
  <1>2. /\ starter[c].does = "start" /\ StartReturned(m, success) /\ Counted(c, m, success)
        /\ UNCHANGED <<required, registered, initialized, delayed, shutdownList, shutter,
                       toStop, asked, plain>>
    BY <1>1 DEF StartEnds, stopping
  <1>3. m \in begun /\ m \in registered
    BY <1>1, <1>2 DEF CInv, AnyStart, CoordinatorTypeOK
  <1>4. /\ up' = IF success THEN up \union {m} ELSE up
        /\ UNCHANGED <<flagged, begun>>
    BY <1>2 DEF StartReturned
  <1>5. plain => /\ m \in toStart[c] /\ m \notin up
                 /\ toStart[c] \intersect begun \subseteq {m}
    BY <1>1, <1>2 DEF CInv, OneCall
  <1> QED BY <1>2, <1>3, <1>4, <1>5, CountedKeeps

\* The end of initialize_all keeps the invariant.
LEMMA InitializeAllEndsKeeps ==
    ASSUME CInv, NEW c \in Starters, InitializeAllEnds(c)
    PROVE  CInv'
  <1>1. /\ starter[c].does = "loop"
        /\ starter' = [starter EXCEPT ![c] = [does |-> "returned", with |-> Nobody]]
        /\ initialized' \in BOOLEAN
        /\ UNCHANGED <<required, registered, toStart, successful, delayed, shutdownList, shutter,
                       toStop, asked, initState, flagged, begun, up, plain>>
    BY DEF InitializeAllEnds, stopping, managers, Does
  <1>2. starter \in [Starters -> [does : {"idle", "loop", "start"} \union Over,
                                  with : Managers \union {Nobody}]]
    BY DEF CInv, CoordinatorTypeOK
  <1>3. /\ starter' \in [Starters -> [does : {"idle", "loop", "start"} \union Over,
                                      with : Managers \union {Nobody}]]
        /\ starter'[c].does = "returned" /\ starter'[c] # Idle /\ starter[c] # Idle
        /\ \A d \in Starters : d # c => starter'[d] = starter[d]
    BY <1>1, <1>2 DEF Idle, Over
  <1>4. CoordinatorTypeOK'
    BY <1>1, <1>3 DEF CInv, CoordinatorTypeOK
  <1>5. AnyStart'
    BY <1>1, <1>3 DEF CInv, AnyStart
  <1>6. ASSUME plain
        PROVE  OneCall' /\ OneShutdown'
    <2>1. AcyclicOn(shutdownList) => AcyclicOn(shutdownList)'
      BY <1>1 DEF AcyclicOn
    <2>2. OneCall'
      BY <1>1, <1>3, <1>6, <2>1 DEF CInv, OneCall
    <2>3. OneShutdown'
      BY <1>1, <1>3, <1>6 DEF CInv, OneShutdown, InitBusy
    <2> QED BY <2>2, <2>3
  <1> QED BY <1>1, <1>4, <1>5, <1>6 DEF CInv

\* The start of a late manager keeps the invariant.
LEMMA DelayedKeeps ==
    ASSUME CInv, NEW m \in Managers,
           DelayedStart(m) \/ \E success \in BOOLEAN : DelayedStartEnds(m, success)
    PROVE  CInv'
  <1>1. ~plain /\ ~plain'
    BY DEF DelayedStart, DelayedStartEnds, CInv, OneCall
  <1>2. CASE DelayedStart(m)
    <2>0. /\ delayed[m] = "scheduled" /\ m \in registered
          /\ UNCHANGED <<required, registered, initialized, starter, toStart, successful,
                         shutdownList, shutter, toStop, asked, plain>>
      BY <1>2 DEF DelayedStart, stopping, CInv, AnyStart
    <2>1. CASE /\ RequiredComplete(m) /\ delayed' = [delayed EXCEPT ![m] = "start"]
               /\ StartCalled(m) /\ initState' = initState
      <3>1. /\ begun' = begun \union {m} /\ up' = up
            /\ flagged' = flagged \union ({m} \intersect Flagging)
        BY <2>1 DEF StartCalled
      <3>2. required[m] \subseteq begun \union Preset
        BY <2>1, <2>0 DEF CInv, AnyStart, RequiredComplete, CoordinatorTypeOK
      <3>3. CoordinatorTypeOK'
        BY <2>0, <2>1, <3>1, FlagsAssumption DEF CInv, CoordinatorTypeOK
      <3>4. AnyStart'
        BY <2>0, <2>1, <3>1, <3>2 DEF CInv, AnyStart, CoordinatorTypeOK
      <3> QED BY <1>1, <3>3, <3>4 DEF CInv
    <2>2. CASE /\ delayed' = [delayed EXCEPT ![m] = "over"]
               /\ initState' = IF m \in flagged THEN [initState EXCEPT ![m] = "complete"]
                                                ELSE initState
               /\ UNCHANGED <<flagged, begun, up>>
      <3>1. CoordinatorTypeOK'
        BY <2>0, <2>2 DEF CInv, CoordinatorTypeOK, InitStates
      <3>2. AnyStart'
        BY <2>0, <2>2 DEF CInv, AnyStart, CoordinatorTypeOK
      <3> QED BY <1>1, <3>1, <3>2 DEF CInv
    <2> QED BY <1>2, <2>1, <2>2 DEF DelayedStart
  <1>3. ASSUME NEW success \in BOOLEAN, DelayedStartEnds(m, success)
        PROVE  CInv'
    <2>1. /\ delayed[m] = "start" /\ m \in begun
          /\ delayed' = [delayed EXCEPT ![m] = "over"]
          /\ up' = IF success THEN up \union {m} ELSE up
          /\ UNCHANGED <<required, registered, initialized, starter, toStart, successful,
                         shutdownList, shutter, toStop, asked, initState, flagged, begun, plain>>
      BY <1>3 DEF DelayedStartEnds, StartReturned, stopping, CInv, AnyStart
    <2>2. CoordinatorTypeOK'
      BY <2>1 DEF CInv, CoordinatorTypeOK
    <2>3. AnyStart'
      BY <2>1 DEF CInv, AnyStart, CoordinatorTypeOK
    <2> QED BY <1>1, <2>2, <2>3 DEF CInv
  <1> QED BY <1>2, <1>3

\* A call of shutdown keeps the invariant.
LEMMA ShutdownKeeps ==
    ASSUME CInv, Shutdown
    PROVE  CInv'
  <1>1. /\ shutter = Idle /\ shutter' = [does |-> "loop", with |-> Nobody]
        /\ shutdownList' = IF shutdownList = {} THEN registered ELSE shutdownList
        /\ toStop' = shutdownList'
        /\ plain' = (plain /\ ~InitBusy)
        /\ UNCHANGED <<required, registered, initialized, starter, toStart, successful, delayed,
                       asked, initState, flagged, begun, up>>
    BY DEF Shutdown, starting, managers
  <1>2. CoordinatorTypeOK'
    BY <1>1 DEF CInv, CoordinatorTypeOK
  <1>3. AnyStart'
    BY <1>1 DEF CInv, AnyStart
  <1>4. ASSUME plain'
        PROVE  OneCall' /\ OneShutdown'
    <2>1. plain /\ ~InitBusy
      BY <1>1, <1>4
    <2>2. up \subseteq shutdownList /\ up \subseteq shutdownList'
      BY <1>1, <2>1 DEF CInv, OneCall
    <2>3. up # {} => AcyclicOn(shutdownList)'
      <3>1. up # {} => AcyclicOn(shutdownList) /\ shutdownList' = shutdownList
        BY <1>1, <2>1, <2>2 DEF CInv, OneCall
      <3> QED BY <3>1, <1>1 DEF AcyclicOn
    <2>4. OneCall'
      <3>1. \A c \in Starters : starter[c].does \notin {"loop", "start"}
        BY <2>1 DEF InitBusy
      <3>2. \A c \in Starters : toStart[c] \subseteq shutdownList'
        BY <1>1, <2>1 DEF CInv, OneCall
      <3> QED BY <3>1, <3>2, <1>1, <2>1, <2>2, <2>3 DEF CInv, OneCall
    <2>5. OneShutdown'
      <3>1. ~InitBusy'
        BY <1>1, <2>1 DEF InitBusy
      <3>2. asked = {}
        BY <1>1, <2>1 DEF CInv, OneShutdown
      <3> QED BY <3>1, <3>2, <1>1, <2>2 DEF OneShutdown, Idle
    <2> QED BY <2>4, <2>5
  <1> QED BY <1>2, <1>3, <1>4 DEF CInv

\* Stopping the next managers keeps the invariant.
LEMMA ShutdownProceedsKeeps ==
    ASSUME CInv, ShutdownProceeds
    PROVE  CInv'
  <1>1. /\ shutter # Idle
        /\ UNCHANGED <<required, registered, starter, toStart, successful, delayed,
                       shutdownList, initState, flagged, begun, up, plain>>
        /\ initialized' \in {initialized, FALSE}
    <2>1. CASE StopNext
      BY <2>1 DEF StopNext, starting, managers, Idle
    <2>2. CASE StopEnds
      BY <2>2 DEF StopEnds, starting, managers, Idle
    <2>3. CASE ShutdownEnds
      <3>1. shutter # Idle
        BY <2>3 DEF ShutdownEnds, Idle
      <3>2. initialized' = FALSE
        BY <2>3, Zenon DEF ShutdownEnds
      <3>3. UNCHANGED <<required, registered, starter, toStart, successful, delayed,
                        shutdownList, initState, flagged, begun, up, plain>>
        BY <2>3 DEF ShutdownEnds, managers
      <3> QED BY <3>1, <3>2, <3>3, Zenon
    <2> QED BY <2>1, <2>2, <2>3 DEF ShutdownProceeds
  <1>2. /\ shutter' \in [does : {"loop", "stop", "returned"}, with : Managers \union {Nobody}]
        /\ toStop' \subseteq toStop /\ asked' \subseteq asked \union toStop
        /\ shutter'.does = "returned" => toStop' = {}
    BY DEF ShutdownProceeds, StopNext, StopEnds, ShutdownEnds, CInv, CoordinatorTypeOK, Nobody
  <1>3. CoordinatorTypeOK'
    BY <1>1, <1>2 DEF CInv, CoordinatorTypeOK
  <1>4. AnyStart'
    <2>1. ((\A c \in Starters : starter[c] = Idle) => ~initialized)'
      BY <1>1 DEF CInv, AnyStart
    <2> QED BY <1>1, <2>1 DEF CInv, AnyStart
  <1>5. ASSUME plain
        PROVE  OneCall' /\ OneShutdown'
    <2>1. OneCall'
      <3>1. AcyclicOn(shutdownList) => AcyclicOn(shutdownList)'
        BY <1>1 DEF AcyclicOn
      <3> QED BY <1>1, <1>5, <3>1 DEF CInv, OneCall
    <2>2. ~InitBusy'
      BY <1>1, <1>5 DEF CInv, OneShutdown, InitBusy
    <2>3. shutter' # Idle
      BY <1>2 DEF Idle
    <2>4. \/ toStop' = toStop /\ asked' = asked
          \/ \E m \in toStop : /\ NextToStop(m) /\ toStop' = toStop \ {m}
                               /\ IF initState[m] \in {"complete", "in_progress"}
                                    THEN asked' = asked \union {m} ELSE asked' = asked
      BY DEF ShutdownProceeds, StopNext, StopEnds, ShutdownEnds
    <2>5. up \subseteq asked' \union toStop'
      BY <1>1, <1>5, <2>4 DEF CInv, OneShutdown, OneCall
    <2>6. ASSUME NEW m \in asked', NEW q \in up, m \in required[q]
          PROVE  q \in asked'
      <3>1. CASE m \in asked
        BY <1>5, <2>4, <2>6, <3>1 DEF CInv, OneShutdown
      <3>2. CASE m \notin asked
        <4>1. m \in toStop /\ NextToStop(m) /\ asked \subseteq asked'
          BY <2>4, <2>6, <3>2
        <4>2. AcyclicOn(toStop)
          <5>1. AcyclicOn(shutdownList) /\ toStop \subseteq shutdownList
            BY <1>5, <2>6 DEF CInv, OneCall, CoordinatorTypeOK
          <5> QED BY <5>1 DEF AcyclicOn
        <4>3. q \notin toStop
          BY <4>1, <4>2, <2>6 DEF NextToStop
        <4> QED BY <4>1, <4>3, <1>1, <1>5 DEF CInv, OneShutdown
      <3> QED BY <3>1, <3>2
    <2>7. OneShutdown'
      BY <1>1, <1>2, <2>2, <2>3, <2>5, <2>6 DEF OneShutdown
    <2> QED BY <2>1, <2>7
  <1> QED BY <1>1, <1>3, <1>4, <1>5 DEF CInv

\* Every step of the coordinator keeps the invariant.
LEMMA CoordinatorKept ==
    ASSUME CInv, [CoordinatorNext]_coordinatorVars
    PROVE  CInv'
  <1>1. CASE UNCHANGED coordinatorVars
    <2>1. UNCHANGED <<required, registered, initialized, starter, toStart, successful, delayed,
                      shutdownList, shutter, toStop, asked, initState, flagged, begun, up, plain>>
      BY <1>1 DEF coordinatorVars, starting, stopping, managers
    <2>2. AcyclicOn(shutdownList) => AcyclicOn(shutdownList)'
      BY <2>1 DEF AcyclicOn
    <2>3. CoordinatorTypeOK' /\ AnyStart'
      BY <2>1 DEF CInv, CoordinatorTypeOK, AnyStart
    <2>4. plain => OneCall' /\ OneShutdown'
      BY <2>1, <2>2 DEF CInv, OneCall, OneShutdown, InitBusy
    <2> QED BY <2>1, <2>3, <2>4 DEF CInv
  <1>2. CASE CoordinatorNext
    BY <1>2, RegisterKeeps, InitializeAllKeeps, InitializeNextKeeps, StartEndsKeeps,
       InitializeAllEndsKeeps, DelayedKeeps, ShutdownKeeps, ShutdownProceedsKeeps
    DEF CoordinatorNext
  <1> QED BY <1>1, <1>2

-----------------------------------------------------------------------------
(* Monitors that managers share (Monitoring) *)

\* Loops are numbered as they begin; n have begun.
LoopsSoFar(n) == n \in 0 .. MaxLoops /\ Begun = 1 .. n

\* The system monitor's flag is set before its task runs, and the registry is
\* monitored on its behalf.
SystemRight ==
    /\ system_task = "running" => system_running
    /\ registry_running /\ ~cut =>
          system_running \/ \E m \in Monitored : stop_at[m] = "system"

\* Where nothing has overlapped: nobody stops what was started last; a loop that is
\* alive is the last one, and runs on or is waited for.
MemoryRight ==
    /\ wanted => /\ memory_running /\ system_running
                 /\ \A m \in Monitored : stop_at[m] = "no"
    /\ \A t \in Loops : Alive(t) =>
          /\ \A u \in Begun : u <= t
          /\ memory_running \/ \E m \in Monitored : stop_at[m] \in WaitsForLoop /\ awaited[m] = t
    /\ \A m \in Monitored : stop_at[m] \in WaitsForLoop /\ Alive(awaited[m]) => ~memory_running

MInv ==
    /\ MonitorTypeOK
    /\ \A m \in Monitored : stop_at[m] \in WaitsForLoop => awaited[m] \in Loops
    /\ \E n \in Nat : LoopsSoFar(n)
    /\ SystemRight
    /\ ~overlapped => MemoryRight

\* The last loop is the one with the highest number.
LEMMA LastIsLast ==
    ASSUME NEW n \in Nat, LoopsSoFar(n)
    PROVE  LastLoop = n
  <1>1. Cardinality(1 .. n) = n
    BY FS_Interval
  <1> QED BY <1>1 DEF LastLoop, LoopsSoFar

\* Monitors begin as the invariant says.
LEMMA MonitorsBegin ==
    ASSUME MonitorInit
    PROVE  MInv
  <1>1. MonitorTypeOK
    BY DEF MonitorInit, MonitorTypeOK
  <1>2. Begun = {}
    BY DEF MonitorInit, Begun
  <1>3. LoopsSoFar(0)
    BY <1>2, LoopsAssumption DEF LoopsSoFar
  <1>4. SystemRight
    BY DEF MonitorInit, SystemRight
  <1>5. MemoryRight
    BY DEF MonitorInit, MemoryRight, Alive, WaitsForLoop
  <1>6. \A m \in Monitored : stop_at[m] \in WaitsForLoop => awaited[m] \in Loops
    BY DEF MonitorInit, WaitsForLoop
  <1> QED BY <1>1, <1>3, <1>4, <1>5, <1>6 DEF MInv

\* What was asked of the monitors follows from the invariant.
LEMMA MonitorsRight ==
    ASSUME MInv
    PROVE  MonitorsAsAsked
  <1>1. ASSUME ~overlapped
        PROVE  Cardinality({t \in Loops : Alive(t)}) <= 1
    <2> DEFINE A == {t \in Loops : Alive(t)}
    <2>1. \A t, u \in A : t = u
      BY <1>1, LoopsAssumption DEF MInv, MemoryRight, Begun, Alive, Loops
    <2>2. CASE A = {}
      BY <2>2, FS_EmptySet
    <2>3. CASE A # {}
      <3>1. PICK t \in A : TRUE
        BY <2>3
      <3>2. A = {t}
        BY <2>1, <3>1
      <3>3. Cardinality({t}) = 1
        BY FS_Singleton
      <3> QED BY <3>2, <3>3
    <2> QED BY <2>2, <2>3
  <1> QED BY <1>1 DEF MInv, MemoryRight, SystemRight, MonitorsAsAsked

\* Starting the monitors keeps the invariant.
LEMMA StartsKeeps ==
    ASSUME MInv, NEW m \in Monitored, Starts(m)
    PROVE  MInv'
  <1>1. PICK n \in Nat : LoopsSoFar(n)
    BY DEF MInv
  <1>2. LastLoop = n
    BY <1>1, LastIsLast
  <1>3. /\ MonitorTypeOK /\ SystemRight /\ n \in 0 .. MaxLoops /\ Begun = 1 .. n
    BY <1>1 DEF MInv, LoopsSoFar
  <1>4. \/ UNCHANGED <<memory_running, memory_loops>> /\ memory_running /\ n > 0 /\ Alive(n)
        \/ /\ ~(memory_running /\ n > 0 /\ Alive(n))
           /\ n < MaxLoops /\ memory_running' = TRUE
           /\ memory_loops' = [memory_loops EXCEPT ![n + 1] = "first"]
    BY <1>2 DEF Starts, MemoryStarts
  <1>5. \/ /\ system_running \/ system_task \in {"running", "cancelled"}
           /\ UNCHANGED <<system_running, system_task>>
        \/ system_running' = TRUE /\ system_task' = "running"
    BY DEF Starts, SystemStarts
  <1>6. /\ wanted' = TRUE /\ overlapped' \in BOOLEAN
        /\ ~overlapped' => /\ ~overlapped /\ system_task # "cancelled"
                           /\ \A x \in Monitored : stop_at[x] = "no"
        /\ UNCHANGED <<registry_running, stop_at, awaited, cut>>
    BY <1>3 DEF Starts, MonitorTypeOK
  <1>7. MonitorTypeOK'
    BY <1>3, <1>4, <1>5, <1>6 DEF MonitorTypeOK, Loops
  <1>8. \E k \in Nat : LoopsSoFar(k)'
    <2>1. CASE memory_loops' = memory_loops
      BY <1>1, <2>1 DEF LoopsSoFar, Begun
    <2>2. CASE n < MaxLoops /\ memory_loops' = [memory_loops EXCEPT ![n + 1] = "first"]
      <3>1. Begun' = 1 .. (n + 1)
        BY <2>2, <1>3, LoopsAssumption DEF Begun, Loops, MonitorTypeOK
      <3>2. LoopsSoFar(n + 1)'
        BY <3>1, <2>2, <1>3, LoopsAssumption DEF LoopsSoFar
      <3> QED BY <3>2
    <2> QED BY <1>4, <2>1, <2>2
  <1>9. SystemRight'
    BY <1>3, <1>5, <1>6 DEF SystemRight
  <1>10. ASSUME ~overlapped'
         PROVE  MemoryRight'
    <2>1. MemoryRight /\ \A x \in Monitored : stop_at[x] = "no"
      BY <1>6, <1>10 DEF MInv
    <2>2. memory_running' /\ system_running'
      BY <1>3, <1>4, <1>5, <1>6, <1>10 DEF SystemRight
    <2>3. ASSUME NEW t \in Loops, Alive(t)'
          PROVE  \A u \in Begun' : u <= t
      <3>1. CASE memory_loops' = memory_loops
        BY <2>1, <2>3, <3>1 DEF MemoryRight, Alive, Begun
      <3>2. CASE /\ ~(memory_running /\ n > 0 /\ Alive(n))
                 /\ n < MaxLoops /\ memory_loops' = [memory_loops EXCEPT ![n + 1] = "first"]
        <4>1. ~Alive(t)
          BY <2>1, <3>2, <1>3, LoopsAssumption DEF MemoryRight, WaitsForLoop, Alive, Begun, Loops
        <4>2. t = n + 1
          BY <4>1, <2>3, <3>2, <1>3, LoopsAssumption DEF Alive, MonitorTypeOK, Loops
        <4>3. Begun' = 1 .. (n + 1)
          BY <3>2, <1>3, LoopsAssumption DEF Begun, Loops, MonitorTypeOK
        <4> QED BY <4>2, <4>3
      <3> QED BY <1>4, <3>1, <3>2
    <2> QED BY <2>1, <2>2, <2>3, <1>6 DEF MemoryRight, WaitsForLoop
  <1> QED BY <1>6, <1>7, <1>8, <1>9, <1>10 DEF MInv

\* Stopping the monitors keeps the invariant.
LEMMA StopsKeeps ==
    ASSUME MInv, NEW m \in Monitored, Stops(m)
    PROVE  MInv'
  <1>1. PICK n \in Nat : LoopsSoFar(n)
    BY DEF MInv
  <1>2. LastLoop = n /\ n \in 0 .. MaxLoops /\ Begun = 1 .. n
    BY <1>1, LastIsLast DEF LoopsSoFar
  <1>3. /\ stop_at[m] = "no" /\ wanted' = FALSE
        /\ UNCHANGED <<memory_loops, registry_running, overlapped, cut>>
        /\ \/ /\ memory_running /\ n > 0 /\ memory_running' = FALSE
              /\ stop_at' = [stop_at EXCEPT ![m] = "memory"]
              /\ awaited' = [awaited EXCEPT ![m] = n]
              /\ UNCHANGED <<system_running, system_task>>
           \/ /\ ~(memory_running /\ n > 0) /\ memory_running' = memory_running
              /\ awaited' = [awaited EXCEPT ![m] = 0]
              /\ \/ /\ system_running' = FALSE /\ system_task' # "running"
                    /\ system_task' \in {system_task, "cancelled"}
                    /\ stop_at' = [stop_at EXCEPT ![m] = "system"]
                 \/ /\ stop_at' = [stop_at EXCEPT ![m] = "no"]
                    /\ UNCHANGED <<system_running, system_task>>
    BY <1>2 DEF Stops, MemoryStops, SystemStops, StopGoesTo, MemoryMustEnd
  <1>4. MonitorTypeOK'
    <2>1. n \in Loops \/ ~(memory_running /\ n > 0)
      BY <1>2, LoopsAssumption DEF Loops
    <2>2. awaited' \in [Monitored -> Loops \cup {0}]
      BY <1>3, <2>1 DEF MInv, MonitorTypeOK
    <2>3. stop_at' \in [Monitored -> WaitsForLoop \cup {"no", "system", "registry"}]
      BY <1>3 DEF MInv, MonitorTypeOK, WaitsForLoop
    <2>4. /\ memory_running' \in BOOLEAN /\ system_running' \in BOOLEAN
          /\ system_task' \in {"none", "running", "cancelled", "done"}
      BY <1>3 DEF MInv, MonitorTypeOK
    <2> QED BY <1>3, <2>2, <2>3, <2>4 DEF MInv, MonitorTypeOK
  <1>5. \A x \in Monitored : stop_at'[x] \in WaitsForLoop => awaited'[x] \in Loops
    BY <1>2, <1>3, LoopsAssumption DEF MInv, MonitorTypeOK, WaitsForLoop, Loops
  <1>6. LoopsSoFar(n)'
    BY <1>1, <1>3 DEF LoopsSoFar, Begun
  <1>7. SystemRight'
    BY <1>3 DEF MInv, MonitorTypeOK, SystemRight
  <1>8. ASSUME ~overlapped'
        PROVE  MemoryRight'
    <2>1. MemoryRight /\ MonitorTypeOK
      BY <1>3, <1>8 DEF MInv
    <2>2. ASSUME NEW t \in Loops, Alive(t)'
          PROVE  /\ \A u \in Begun' : u <= t
                 /\ memory_running' \/ \E x \in Monitored : stop_at'[x] \in WaitsForLoop
                                                              /\ awaited'[x] = t
      <3>1. Alive(t) /\ Begun' = Begun
        BY <1>3, <2>2 DEF Alive, Begun
      <3>2. \A u \in Begun : u <= t
        BY <2>1, <3>1 DEF MemoryRight
      <3>3. t \in Begun
        BY <3>1 DEF Begun, Alive
      <3>4. t = n /\ n > 0
        BY <3>2, <3>3, <1>2
      <3>5. CASE memory_running
        BY <1>3, <2>1, <3>1, <3>2, <3>4, <3>5 DEF MonitorTypeOK, WaitsForLoop
      <3>6. CASE ~memory_running
        <4>1. PICK x \in Monitored : stop_at[x] \in WaitsForLoop /\ awaited[x] = t
          BY <2>1, <3>1, <3>6 DEF MemoryRight
        <4>2. x # m
          BY <1>3, <4>1 DEF WaitsForLoop
        <4> QED BY <1>3, <2>1, <3>1, <3>2, <4>1, <4>2 DEF MonitorTypeOK
      <3> QED BY <3>5, <3>6
    <2>3. \A x \in Monitored : stop_at'[x] \in WaitsForLoop /\ Alive(awaited[x])'
                                  => ~memory_running'
      BY <1>3, <2>1 DEF MonitorTypeOK, MemoryRight, WaitsForLoop, Alive
    <2> QED BY <1>3, <2>2, <2>3 DEF MemoryRight
  <1> QED BY <1>4, <1>5, <1>6, <1>7, <1>8 DEF MInv

\* The end of the wait for a memory loop keeps the invariant.
LEMMA MemoryEndedKeeps ==
    ASSUME MInv, NEW m \in Monitored, MemoryEnded(m)
    PROVE  MInv'
  <1>1. /\ stop_at[m] \in WaitsForLoop /\ ~Alive(awaited[m])
        /\ UNCHANGED <<memory_running, memory_loops, registry_running, wanted, overlapped, cut>>
        /\ awaited' = [awaited EXCEPT ![m] = 0]
        /\ \/ /\ system_running' = FALSE /\ system_task' # "running"
              /\ system_task' \in {system_task, "cancelled"}
              /\ stop_at' = [stop_at EXCEPT ![m] = "system"]
           \/ /\ stop_at' = [stop_at EXCEPT ![m] = "no"]
              /\ UNCHANGED <<system_running, system_task>>
    BY DEF MemoryEnded, SystemStops, StopGoesTo, Alive
  <1>2. MonitorTypeOK'
    BY <1>1 DEF MInv, MonitorTypeOK, WaitsForLoop
  <1>3. \A x \in Monitored : stop_at'[x] \in WaitsForLoop => awaited'[x] \in Loops
    BY <1>1 DEF MInv, MonitorTypeOK, WaitsForLoop
  <1>4. \E n \in Nat : LoopsSoFar(n)'
    BY <1>1 DEF MInv, LoopsSoFar, Begun
  <1>5. SystemRight'
    BY <1>1 DEF MInv, MonitorTypeOK, SystemRight, WaitsForLoop
  <1>6. ASSUME ~overlapped'
        PROVE  MemoryRight'
    <2>1. MemoryRight /\ MonitorTypeOK
      BY <1>1, <1>6 DEF MInv
    <2>2. ~wanted
      BY <1>1, <2>1 DEF MemoryRight, WaitsForLoop
    <2>3. ASSUME NEW t \in Loops, Alive(t)'
          PROVE  /\ \A u \in Begun' : u <= t
                 /\ memory_running' \/ \E x \in Monitored : stop_at'[x] \in WaitsForLoop
                                                              /\ awaited'[x] = t
      <3>1. Alive(t) /\ Begun' = Begun
        BY <1>1, <2>3 DEF Alive, Begun
      <3>2. CASE memory_running
        BY <1>1, <2>1, <3>1, <3>2 DEF MemoryRight
      <3>3. CASE ~memory_running
        <4>1. PICK x \in Monitored : stop_at[x] \in WaitsForLoop /\ awaited[x] = t
          BY <2>1, <3>1, <3>3 DEF MemoryRight
        <4>2. x # m
          BY <1>1, <3>1, <4>1
        <4> QED BY <1>1, <2>1, <3>1, <4>1, <4>2 DEF MonitorTypeOK, MemoryRight
      <3> QED BY <3>2, <3>3
    <2>4. \A x \in Monitored : stop_at'[x] \in WaitsForLoop /\ Alive(awaited[x])'
                                  => ~memory_running'
      BY <1>1, <2>1 DEF MonitorTypeOK, MemoryRight, WaitsForLoop, Alive
    <2> QED BY <1>1, <2>2, <2>3, <2>4 DEF MemoryRight
  <1> QED BY <1>2, <1>3, <1>4, <1>5, <1>6 DEF MInv

\* Stopping the registry's part keeps the invariant.
LEMMA RegistryStopsKeeps ==
    ASSUME MInv, NEW m \in Monitored, RegistryStops(m)
    PROVE  MInv'
  <1>1. /\ stop_at[m] = "system" /\ registry_running' = FALSE
        /\ stop_at' = [stop_at EXCEPT ![m] = "registry"]
        /\ awaited' = [awaited EXCEPT ![m] = 0]
        /\ UNCHANGED <<memory_running, memory_loops, system_running, system_task, wanted,
                       overlapped, cut>>
    BY DEF RegistryStops, StopGoesTo
  <1>2. MonitorTypeOK'
    BY <1>1 DEF MInv, MonitorTypeOK, WaitsForLoop
  <1>3. \A x \in Monitored : stop_at'[x] \in WaitsForLoop => awaited'[x] \in Loops
    BY <1>1 DEF MInv, MonitorTypeOK, WaitsForLoop
  <1>4. \E n \in Nat : LoopsSoFar(n)'
    BY <1>1 DEF MInv, LoopsSoFar, Begun
  <1>5. SystemRight'
    BY <1>1 DEF MInv, MonitorTypeOK, SystemRight
  <1>6. ASSUME ~overlapped'
        PROVE  MemoryRight'
    <2>1. MemoryRight /\ MonitorTypeOK
      BY <1>1, <1>6 DEF MInv
    <2>2. ~wanted
      BY <1>1, <2>1 DEF MemoryRight
    <2>3. ASSUME NEW t \in Loops, Alive(t)'
          PROVE  /\ \A u \in Begun' : u <= t
                 /\ memory_running' \/ \E x \in Monitored : stop_at'[x] \in WaitsForLoop
                                                              /\ awaited'[x] = t
      BY <1>1, <2>1, <2>3 DEF MemoryRight, MonitorTypeOK, Alive, Begun, WaitsForLoop
    <2>4. \A x \in Monitored : stop_at'[x] \in WaitsForLoop /\ Alive(awaited[x])'
                                  => ~memory_running'
      BY <1>1, <2>1 DEF MonitorTypeOK, MemoryRight, WaitsForLoop, Alive
    <2> QED BY <1>1, <2>2, <2>3, <2>4 DEF MemoryRight
  <1> QED BY <1>2, <1>3, <1>4, <1>5, <1>6 DEF MInv

\* The end of the registry's part keeps the invariant.
LEMMA RegistryStoppedKeeps ==
    ASSUME MInv, NEW m \in Monitored, RegistryStopped(m)
    PROVE  MInv'
  <1>1. PICK n \in Nat : LoopsSoFar(n)
    BY DEF MInv
  <1>2. LastLoop = n /\ n \in 0 .. MaxLoops /\ Begun = 1 .. n
    BY <1>1, LastIsLast DEF LoopsSoFar
  <1>3. /\ stop_at[m] = "registry"
        /\ UNCHANGED <<memory_loops, system_running, system_task, registry_running, wanted,
                       overlapped, cut>>
        /\ \/ /\ memory_running /\ n > 0 /\ memory_running' = FALSE
              /\ stop_at' = [stop_at EXCEPT ![m] = "memory_again"]
              /\ awaited' = [awaited EXCEPT ![m] = n]
           \/ /\ ~(memory_running /\ n > 0) /\ memory_running' = memory_running
              /\ awaited' = [awaited EXCEPT ![m] = 0]
              /\ stop_at' = [stop_at EXCEPT ![m] = "no"]
    BY <1>2 DEF RegistryStopped, MemoryStops, StopGoesTo, MemoryMustEnd
  <1>4. MonitorTypeOK'
    <2>1. n \in Loops \/ ~(memory_running /\ n > 0)
      BY <1>2, LoopsAssumption DEF Loops
    <2>2. awaited' \in [Monitored -> Loops \cup {0}]
      BY <1>3, <2>1 DEF MInv, MonitorTypeOK
    <2>3. stop_at' \in [Monitored -> WaitsForLoop \cup {"no", "system", "registry"}]
      BY <1>3 DEF MInv, MonitorTypeOK, WaitsForLoop
    <2> QED BY <1>3, <2>2, <2>3 DEF MInv, MonitorTypeOK
  <1>5. \A x \in Monitored : stop_at'[x] \in WaitsForLoop => awaited'[x] \in Loops
    BY <1>2, <1>3, LoopsAssumption DEF MInv, MonitorTypeOK, WaitsForLoop, Loops
  <1>6. LoopsSoFar(n)'
    BY <1>1, <1>3 DEF LoopsSoFar, Begun
  <1>7. SystemRight'
    BY <1>3 DEF MInv, MonitorTypeOK, SystemRight
  <1>8. ASSUME ~overlapped'
        PROVE  MemoryRight'
    <2>1. MemoryRight /\ MonitorTypeOK
      BY <1>3, <1>8 DEF MInv
    <2>2. ~wanted
      BY <1>3, <2>1 DEF MemoryRight
    <2>3. ASSUME NEW t \in Loops, Alive(t)'
          PROVE  /\ \A u \in Begun' : u <= t
                 /\ memory_running' \/ \E x \in Monitored : stop_at'[x] \in WaitsForLoop
                                                              /\ awaited'[x] = t
      <3>1. Alive(t) /\ Begun' = Begun
        BY <1>3, <2>3 DEF Alive, Begun
      <3>2. \A u \in Begun : u <= t
        BY <2>1, <3>1 DEF MemoryRight
      <3>3. t \in Begun
        BY <3>1 DEF Begun, Alive
      <3>4. t = n /\ n > 0
        BY <3>2, <3>3, <1>2
      <3>5. CASE memory_running
        BY <1>3, <2>1, <3>1, <3>2, <3>4, <3>5 DEF MonitorTypeOK, WaitsForLoop
      <3>6. CASE ~memory_running
        <4>1. PICK x \in Monitored : stop_at[x] \in WaitsForLoop /\ awaited[x] = t
          BY <2>1, <3>1, <3>6 DEF MemoryRight
        <4>2. x # m
          BY <1>3, <4>1 DEF WaitsForLoop
        <4> QED BY <1>3, <2>1, <3>1, <3>2, <4>1, <4>2 DEF MonitorTypeOK
      <3> QED BY <3>5, <3>6
    <2>4. \A x \in Monitored : stop_at'[x] \in WaitsForLoop /\ Alive(awaited[x])'
                                  => ~memory_running'
      BY <1>3, <2>1 DEF MonitorTypeOK, MemoryRight, WaitsForLoop, Alive
    <2> QED BY <1>3, <2>2, <2>3, <2>4 DEF MemoryRight
  <1> QED BY <1>4, <1>5, <1>6, <1>7, <1>8 DEF MInv

\* A stop that is cancelled keeps the invariant.
LEMMA StopCancelledKeeps ==
    ASSUME MInv, NEW m \in Monitored, StopCancelled(m)
    PROVE  MInv'
  <1>1. /\ stop_at[m] # "no" /\ cut' = TRUE
        /\ stop_at' = [stop_at EXCEPT ![m] = "no"]
        /\ awaited' = [awaited EXCEPT ![m] = 0]
        /\ memory_loops' = [t \in Loops |-> IF t = awaited[m] /\ Alive(t) THEN "ended"
                                            ELSE memory_loops[t]]
        /\ UNCHANGED <<memory_running, system_running, system_task, registry_running, wanted,
                       overlapped>>
    BY DEF StopCancelled, StopGoesTo
  <1>2. MonitorTypeOK'
    BY <1>1 DEF MInv, MonitorTypeOK, WaitsForLoop
  <1>3. \A x \in Monitored : stop_at'[x] \in WaitsForLoop => awaited'[x] \in Loops
    BY <1>1 DEF MInv, MonitorTypeOK, WaitsForLoop
  <1>4. Begun' = Begun /\ \A t \in Loops : Alive(t)' <=> Alive(t) /\ t # awaited[m]
    BY <1>1 DEF Begun, Alive
  <1>5. \E n \in Nat : LoopsSoFar(n)'
    BY <1>4 DEF MInv, LoopsSoFar
  <1>6. SystemRight'
    BY <1>1 DEF MInv, SystemRight
  <1>7. ASSUME ~overlapped'
        PROVE  MemoryRight'
    <2>1. MemoryRight /\ MonitorTypeOK
      BY <1>1, <1>7 DEF MInv
    <2>2. ~wanted
      BY <1>1, <2>1 DEF MemoryRight
    <2>3. ASSUME NEW t \in Loops, Alive(t)'
          PROVE  /\ \A u \in Begun' : u <= t
                 /\ memory_running' \/ \E x \in Monitored : stop_at'[x] \in WaitsForLoop
                                                              /\ awaited'[x] = t
      BY <1>1, <1>4, <2>1, <2>3 DEF MemoryRight, MonitorTypeOK
    <2>4. \A x \in Monitored : stop_at'[x] \in WaitsForLoop /\ Alive(awaited[x])'
                                  => ~memory_running'
      BY <1>1, <1>3, <1>4, <2>1 DEF MonitorTypeOK, MemoryRight, WaitsForLoop
    <2> QED BY <1>1, <2>2, <2>3, <2>4 DEF MemoryRight
  <1> QED BY <1>2, <1>3, <1>5, <1>6, <1>7 DEF MInv

\* A step of a memory loop keeps the invariant.
LEMMA LoopKeeps ==
    ASSUME MInv, NEW t \in Loops, FirstCheck(t) \/ LoopEnds(t)
    PROVE  MInv'
  <1>1. /\ Alive(t) /\ memory_loops'\in {[memory_loops EXCEPT ![t] = s] :
                                              s \in {"looping", "failed", "ended"}}
        /\ cut' \in BOOLEAN /\ (cut => cut')
        /\ UNCHANGED <<memory_running, system_running, system_task, registry_running, stop_at,
                       awaited, wanted, overlapped>>
    BY DEF FirstCheck, LoopEnds, Alive, MInv, MonitorTypeOK
  <1>2. MonitorTypeOK'
    BY <1>1 DEF MInv, MonitorTypeOK
  <1>3. Begun' = Begun /\ \A u \in Loops : Alive(u)' => Alive(u)
    BY <1>1 DEF Begun, Alive, MInv, MonitorTypeOK
  <1>4. SystemRight'
    BY <1>1 DEF MInv, SystemRight
  <1>5. ASSUME ~overlapped'
        PROVE  MemoryRight'
    <2>1. MemoryRight
      BY <1>1, <1>5 DEF MInv
    <2>2. \A x \in Monitored : stop_at'[x] \in WaitsForLoop /\ Alive(awaited[x])'
                                  => ~memory_running'
      <3> SUFFICES ASSUME NEW x \in Monitored, stop_at'[x] \in WaitsForLoop, Alive(awaited[x])'
                   PROVE  ~memory_running'
        OBVIOUS
      <3>1. awaited[x] \in Loops /\ awaited'[x] = awaited[x]
        BY <1>1 DEF MInv
      <3> DEFINE u == awaited[x]
      <3>2. Alive(u)
        BY <1>1, <3>1 DEF Alive, MInv, MonitorTypeOK
      <3> QED BY <1>1, <2>1, <3>2 DEF MemoryRight
    <2> QED BY <1>1, <1>3, <2>1, <2>2 DEF MemoryRight
  <1>6. \E n \in Nat : LoopsSoFar(n)'
    BY <1>3 DEF MInv, LoopsSoFar
  <1> QED BY <1>1, <1>2, <1>4, <1>5, <1>6 DEF MInv

\* A step of the system monitor keeps the invariant.
LEMMA SystemKeeps ==
    ASSUME MInv, ChecksCircuits \/ SystemTaskEnds
    PROVE  MInv'
  <1>1. UNCHANGED <<memory_running, memory_loops, system_running, stop_at, awaited, wanted,
                    overlapped>>
    BY DEF ChecksCircuits, SystemTaskEnds
  <1>2. MonitorTypeOK'
    BY DEF MInv, MonitorTypeOK, ChecksCircuits, SystemTaskEnds
  <1>3. SystemRight'
    BY DEF MInv, SystemRight, ChecksCircuits, SystemTaskEnds
  <1>4. \E n \in Nat : LoopsSoFar(n)'
    BY <1>1 DEF MInv, LoopsSoFar, Begun
  <1>5. MemoryRight => MemoryRight'
    BY <1>1 DEF MemoryRight, Alive, Begun
  <1> QED BY <1>1, <1>2, <1>3, <1>4, <1>5 DEF MInv

\* Every step of the monitors keeps the invariant.
LEMMA MonitorsKept ==
    ASSUME MInv, [MonitorNext]_monitorVars
    PROVE  MInv'
  <1>1. CASE UNCHANGED monitorVars
    BY <1>1 DEF monitorVars, MInv, MonitorTypeOK, SystemRight, MemoryRight, LoopsSoFar, Begun, Alive
  <1>2. CASE MonitorNext
    BY <1>2, StartsKeeps, StopsKeeps, MemoryEndedKeeps, RegistryStopsKeeps,
       RegistryStoppedKeeps, StopCancelledKeeps, LoopKeeps, SystemKeeps DEF MonitorNext
  <1> QED BY <1>1, <1>2

-----------------------------------------------------------------------------
(* Circuit breakers (SimpleBreaker) *)

Fields == [state : {"CLOSED", "OPEN", "HALF_OPEN"},
           failures : 0..failure_threshold, windowOver : BOOLEAN,
           elapsed : BOOLEAN, successes : 0..half_open_max_tries,
           active : 0..half_open_max_tries]

UserRecords == [at : {"idle", "register", "check", "toHalfOpen", "admit", "run",
                      "announce", "failed", "finally"},
                of : Breakers \union {NoBreaker}, closed : BOOLEAN]

InCallAt == {"run", "announce", "failed", "finally"}

\* A caller in a call has a breaker, and what listeners trip is registered.
Registered ==
    /\ \A u \in Users : user[u].at # "idle" => Of(u) \in Breakers
    /\ \A n \in Circuits : \A c \in children[n] : named[c] # NoBreaker

\* A breaker's successes reach the number that closes it only when it recovers.
SuccessesTold ==
    \A b \in Breakers :
        /\ breaker[b].state = "HALF_OPEN" => breaker[b].successes < half_open_max_tries
        /\ breaker[b].successes = half_open_max_tries => b \in recovered

BInv ==
    /\ BreakerTypeOK /\ Registered /\ SuccessesTold
    /\ \A b \in Breakers : IsFiniteSet(InCall(b))
    /\ BreakersCountRight

\* The types that the invariant gives.
LEMMA TypesOf ==
    ASSUME BInv
    PROVE  /\ breaker \in [Breakers -> Fields] /\ user \in [Users -> UserRecords]
           /\ failure_threshold \in Nat \ {0} /\ half_open_max_tries \in Nat \ {0}
  BY SimpleBreakerAssumption DEF BInv, BreakerTypeOK, Fields, UserRecords

\* A caller that neither enters a call nor leaves one.
LEMMA CallsStay ==
    ASSUME NEW u \in Users, user \in [Users -> UserRecords], NEW w,
           user' = [user EXCEPT ![u] = w],
           \/ user[u].at \notin InCallAt /\ w.at \notin InCallAt
           \/ user[u].at \in InCallAt /\ w.at \in InCallAt /\ w.of = user[u].of
    PROVE  \A b : InCall(b)' = InCall(b)
  BY DEF InCall, InCallAt, Of

\* A caller that enters a call is one more in its breaker's calls.
LEMMA CallEntered ==
    ASSUME NEW u \in Users, user \in [Users -> UserRecords], NEW w,
           user' = [user EXCEPT ![u] = w],
           user[u].at \notin InCallAt, w.at \in InCallAt
    PROVE  \A b : InCall(b)' = IF b = w.of THEN InCall(b) \union {u} ELSE InCall(b)
  BY DEF InCall, InCallAt, Of

\* A caller that leaves a call is one less in its breaker's calls.
LEMMA CallLeft ==
    ASSUME NEW u \in Users, user \in [Users -> UserRecords], NEW w,
           user' = [user EXCEPT ![u] = w],
           user[u].at \in InCallAt, w.at \notin InCallAt
    PROVE  \A b : InCall(b)' = IF b = user[u].of THEN InCall(b) \ {u} ELSE InCall(b)
  BY DEF InCall, InCallAt, Of

\* One breaker's fields change in a step that keeps the types of the rest.
LEMMA FieldsChange ==
    ASSUME BInv, NEW b \in Breakers, NEW fields \in Fields,
           breaker' = [breaker EXCEPT ![b] = fields],
           fields.state = "CLOSED" => fields.failures < failure_threshold,
           fields.state = "HALF_OPEN" => fields.successes < half_open_max_tries,
           fields.successes = half_open_max_tries => b \in recovered',
           fields.state = "HALF_OPEN" => fields.active <= Cardinality(InCall(b)'),
           \A c \in Breakers : c # b => InCall(c)' = InCall(c),
           IsFiniteSet(InCall(b)'),
           recovered \subseteq recovered', recovered' \subseteq Breakers,
           blamed' \subseteq recovered',
           named' = named, children' = children,
           user' \in [Users -> UserRecords],
           \A u \in Users : user'[u].at # "idle" => user'[u].of \in Breakers,
           toTrip' \in [Users -> SUBSET Circuits],
           \A u \in Users : \A n \in toTrip'[u] : named[n] # NoBreaker
    PROVE  BInv'
  <1>1. breaker \in [Breakers -> Fields]
    BY TypesOf
  <1>2. /\ breaker' \in [Breakers -> Fields] /\ breaker'[b] = fields
        /\ \A c \in Breakers : c # b => breaker'[c] = breaker[c]
    BY <1>1
  <1>3. blamed' \subseteq Breakers
    OBVIOUS
  <1>4. BreakerTypeOK'
    BY <1>2, <1>3 DEF BInv, BreakerTypeOK, Fields, UserRecords
  <1>5. Registered'
    BY DEF BInv, Registered, Of
  <1>6. SuccessesTold'
    <2> SUFFICES ASSUME NEW c \in Breakers
                 PROVE  /\ breaker'[c].state = "HALF_OPEN" =>
                              breaker'[c].successes < half_open_max_tries
                        /\ breaker'[c].successes = half_open_max_tries => c \in recovered'
      BY DEF SuccessesTold
    <2> QED BY <1>2 DEF BInv, SuccessesTold
  <1>7. \A c \in Breakers : IsFiniteSet(InCall(c)')
    BY DEF BInv
  <1>8. SlotsKept'
    <2> SUFFICES ASSUME NEW c \in Breakers, breaker'[c].state = "HALF_OPEN"
                 PROVE  breaker'[c].active <= Cardinality(InCall(c)')
      BY DEF SlotsKept
    <2>1. CASE c = b
      BY <2>1, <1>2
    <2>2. CASE c # b
      <3>1. breaker'[c] = breaker[c] /\ InCall(c)' = InCall(c)
        BY <2>2, <1>2
      <3>2. breaker[c].active <= Cardinality(InCall(c))
        BY <3>1 DEF BInv, BreakersCountRight, SlotsKept
      <3> QED BY <3>1, <3>2
    <2> QED BY <2>1, <2>2
  <1>9. ClosedBelowThreshold' /\ BlamedOnlyRecovered'
    BY <1>2 DEF BInv, BreakersCountRight, ClosedBelowThreshold, BlamedOnlyRecovered
  <1> QED BY <1>4, <1>5, <1>6, <1>7, <1>8, <1>9 DEF BInv, BreakersCountRight

\* No breaker changes.
LEMMA FieldsStay ==
    ASSUME BInv, breaker' = breaker, recovered' = recovered, blamed' \subseteq recovered,
           BreakerTypeOK', Registered', \A b \in Breakers : InCall(b)' = InCall(b)
    PROVE  BInv'
  BY DEF BInv, SuccessesTold, BreakersCountRight, SlotsKept, ClosedBelowThreshold,
         BlamedOnlyRecovered

\* What holds of each breaker's fields.
LEMMA FieldsRight ==
    ASSUME BInv, NEW b \in Breakers
    PROVE  /\ breaker[b] \in Fields
           /\ breaker[b].state = "CLOSED" => breaker[b].failures < failure_threshold
           /\ breaker[b].state = "HALF_OPEN" => breaker[b].successes < half_open_max_tries
           /\ breaker[b].successes = half_open_max_tries => b \in recovered
           /\ breaker[b].state = "HALF_OPEN" => breaker[b].active <= Cardinality(InCall(b))
           /\ IsFiniteSet(InCall(b))
  BY TypesOf DEF BInv, SuccessesTold, BreakersCountRight, SlotsKept, ClosedBelowThreshold

\* A caller goes on, with the same breaker.
LEMMA UserGoes ==
    ASSUME BInv, NEW u \in Users, NEW at,
           at \in {"idle", "check", "toHalfOpen", "admit"} \union InCallAt,
           Goes(u, at), user[u].at # "idle"
    PROVE  /\ user' \in [Users -> UserRecords]
           /\ \A v \in Users : user'[v].at # "idle" => user'[v].of \in Breakers
           /\ Of(u) \in Breakers
           /\ \E w : user' = [user EXCEPT ![u] = w] /\ w.at = at /\ w.of = user[u].of
  <1> DEFINE w == [user[u] EXCEPT !.at = at]
  <1>1. user \in [Users -> UserRecords] /\ user[u] \in UserRecords
    BY TypesOf
  <1>2. user' = [user EXCEPT ![u] = w]
    BY DEF Goes
  <1>3. w \in UserRecords /\ w.at = at /\ w.of = user[u].of
    BY <1>1 DEF UserRecords, InCallAt
  <1> HIDE DEF w
  <1>4. Of(u) \in Breakers /\ \A v \in Users : user[v].at # "idle" => user[v].of \in Breakers
    BY DEF BInv, Registered, Of
  <1> QED BY <1>1, <1>2, <1>3, <1>4 DEF Of

\* The types of what is not a breaker's.
LEMMA OtherVariables ==
    ASSUME BInv
    PROVE  /\ recovered \subseteq Breakers /\ blamed \subseteq recovered
           /\ toTrip \in [Users -> SUBSET Circuits]
           /\ \A u \in Users : \A n \in toTrip[u] : named[n] # NoBreaker
           /\ named \in [Circuits -> Breakers \union {NoBreaker}]
           /\ children \in [Circuits -> SUBSET Circuits]
           /\ \A u \in Users : user[u].at # "idle" => user[u].of \in Breakers
  BY DEF BInv, BreakerTypeOK, BreakersCountRight, BlamedOnlyRecovered, Registered, Of

\* A cascade reaches registered breakers.
LEMMA CascadeRegistered ==
    ASSUME BInv, NEW b \in Breakers
    PROVE  Cascade(b) \in SUBSET Circuits /\ \A n \in Cascade(b) : named[n] # NoBreaker
  <1>1. NameOf(b) \in Circuits
    BY DEF Breakers, NameOf
  <1> QED BY <1>1, OtherVariables DEF Cascade, BInv, Registered

\* A breaker that is turned keeps its counts.
LEMMA TurnedFields ==
    ASSUME NEW fields \in Fields, NEW state \in {"CLOSED", "OPEN", "HALF_OPEN"}
    PROVE  /\ Turned(fields, state) \in Fields
           /\ Turned(fields, state).state = state
           /\ Turned(fields, state).failures = fields.failures
           /\ Turned(fields, state).successes = fields.successes
           /\ Turned(fields, state).active = fields.active
  BY DEF Turned, Fields

\* The first look at the state keeps the invariant.
LEMMA CheckTransitionKeeps ==
    ASSUME BInv, NEW u \in Users, CheckTransition(u)
    PROVE  BInv'
  <1>0. PICK b \in Breakers : b = Of(u)
    BY OtherVariables DEF CheckTransition, Of
  <1> DEFINE fields == [breaker[b] EXCEPT !.failures = IF breaker[b].windowOver THEN 0 ELSE @]
             at == IF Its(u).state = "OPEN" /\ Its(u).elapsed THEN "toHalfOpen" ELSE "admit"
  <1>1. /\ user[u].at = "check" /\ breaker' = [breaker EXCEPT ![b] = fields] /\ Goes(u, at)
        /\ UNCHANGED <<named, children, toTrip, recovered, blamed>>
    BY <1>0 DEF CheckTransition, Sets, Its
  <1>2. at \in {"toHalfOpen", "admit"}
    OBVIOUS
  <1> HIDE DEF at
  <1>3. /\ user' \in [Users -> UserRecords]
        /\ \A v \in Users : user'[v].at # "idle" => user'[v].of \in Breakers
        /\ \E w : user' = [user EXCEPT ![u] = w] /\ w.at = at /\ w.of = user[u].of
    BY <1>1, <1>2, UserGoes
  <1>4. \A c : InCall(c)' = InCall(c)
    BY <1>1, <1>2, <1>3, TypesOf, CallsStay DEF InCallAt
  <1>5. /\ breaker[b] \in Fields
        /\ breaker[b].state = "CLOSED" => breaker[b].failures < failure_threshold
        /\ breaker[b].state = "HALF_OPEN" => breaker[b].successes < half_open_max_tries
        /\ breaker[b].successes = half_open_max_tries => b \in recovered
        /\ breaker[b].state = "HALF_OPEN" => breaker[b].active <= Cardinality(InCall(b))
        /\ IsFiniteSet(InCall(b))
    BY <1>3, FieldsRight
  <1>6. /\ fields \in Fields /\ fields.state = breaker[b].state
        /\ fields.successes = breaker[b].successes /\ fields.active = breaker[b].active
        /\ fields.state = "CLOSED" => fields.failures < failure_threshold
    BY <1>5, TypesOf DEF Fields
  <1> HIDE DEF fields
  <1> QED BY <1>1, <1>3, <1>4, <1>5, <1>6, OtherVariables, FieldsChange

\* Turning half-open keeps the invariant.
LEMMA TurnHalfOpenKeeps ==
    ASSUME BInv, NEW u \in Users, TurnHalfOpen(u)
    PROVE  BInv'
  <1>0. PICK b \in Breakers : b = Of(u)
    BY OtherVariables DEF TurnHalfOpen, Of
  <1> DEFINE fields == ToHalfOpenFields(breaker[b])
  <1>1. /\ user[u].at = "toHalfOpen" /\ breaker' = [breaker EXCEPT ![b] = fields]
        /\ Goes(u, "admit")
        /\ UNCHANGED <<named, children, toTrip, recovered, blamed>>
    BY <1>0 DEF TurnHalfOpen, Sets, Its
  <1>3. /\ user' \in [Users -> UserRecords]
        /\ \A v \in Users : user'[v].at # "idle" => user'[v].of \in Breakers
        /\ \E w : user' = [user EXCEPT ![u] = w] /\ w.at = "admit" /\ w.of = user[u].of
    BY <1>1, UserGoes
  <1>4. \A c : InCall(c)' = InCall(c)
    BY <1>1, <1>3, TypesOf, CallsStay DEF InCallAt
  <1>5. breaker[b] \in Fields /\ IsFiniteSet(InCall(b))
    BY <1>3, FieldsRight
  <1>6. /\ fields \in Fields /\ fields.state = "HALF_OPEN" /\ fields.successes = 0
        /\ fields.active = 0
    <2>1. 0 \in 0..half_open_max_tries
      BY TypesOf
    <2> QED BY <1>5, <2>1, TurnedFields DEF Fields, ToHalfOpenFields
  <1> HIDE DEF fields
  <1>7. 0 <= Cardinality(InCall(b)) /\ 0 < half_open_max_tries
    BY <1>5, FS_CardinalityType, TypesOf
  <1>8. /\ fields.state # "CLOSED" /\ fields.successes < half_open_max_tries
        /\ fields.successes # half_open_max_tries
        /\ fields.active <= Cardinality(InCall(b)') /\ IsFiniteSet(InCall(b)')
    <2>1. InCall(b)' = InCall(b) /\ half_open_max_tries # 0
      BY <1>4, TypesOf
    <2> QED BY <2>1, <1>5, <1>6, <1>7
  <1> QED BY <1>1, <1>3, <1>4, <1>6, <1>8, OtherVariables, FieldsChange

\* Admitting a call keeps the invariant.
LEMMA AdmitKeeps ==
    ASSUME BInv, NEW u \in Users, AdmitCall(u)
    PROVE  BInv'
  <1>0. PICK b \in Breakers : b = Of(u)
    BY OtherVariables DEF AdmitCall, Of
  <1> DEFINE fields == IF breaker[b].state = "HALF_OPEN"
                         THEN [breaker[b] EXCEPT !.active = @ + 1] ELSE breaker[b]
  <1>1. /\ user[u].at = "admit"
        /\ UNCHANGED <<named, children, toTrip, recovered, blamed>>
        /\ \/ Goes(u, "idle") /\ UNCHANGED breaker
           \/ ~Refused(breaker[b]) /\ Goes(u, "run") /\ breaker' = [breaker EXCEPT ![b] = fields]
    BY <1>0 DEF AdmitCall, Sets, Its
  <1>2. CASE Goes(u, "idle") /\ UNCHANGED breaker
    <2>1. /\ user' \in [Users -> UserRecords]
          /\ \A v \in Users : user'[v].at # "idle" => user'[v].of \in Breakers
          /\ \E w : user' = [user EXCEPT ![u] = w] /\ w.at = "idle" /\ w.of = user[u].of
      BY <1>1, <1>2, UserGoes
    <2>2. \A c : InCall(c)' = InCall(c)
      BY <1>1, <2>1, TypesOf, CallsStay DEF InCallAt
    <2>3. BreakerTypeOK' /\ Registered'
      BY <1>1, <1>2, <2>1 DEF BInv, BreakerTypeOK, Registered, UserRecords, Of
    <2> QED BY <1>1, <1>2, <2>2, <2>3, OtherVariables, FieldsStay
  <1>3. CASE /\ ~Refused(breaker[b]) /\ Goes(u, "run")
             /\ breaker' = [breaker EXCEPT ![b] = fields]
    <2>1. /\ user' \in [Users -> UserRecords]
          /\ \A v \in Users : user'[v].at # "idle" => user'[v].of \in Breakers
          /\ \E w : user' = [user EXCEPT ![u] = w] /\ w.at = "run" /\ w.of = user[u].of
      BY <1>1, <1>3, UserGoes DEF InCallAt
    <2>2. \A c : InCall(c)' = IF c = b THEN InCall(c) \union {u} ELSE InCall(c)
      <3>1. PICK w : user' = [user EXCEPT ![u] = w] /\ w.at = "run" /\ w.of = user[u].of
        BY <2>1
      <3>2. w.of = b /\ w.at \in InCallAt /\ user[u].at \notin InCallAt
        BY <3>1, <1>0, <1>1 DEF InCallAt, Of
      <3> QED BY <3>1, <3>2, TypesOf, CallEntered
    <2>3. u \notin InCall(b)
      BY <1>1 DEF InCall
    <2>4. /\ breaker[b] \in Fields
          /\ breaker[b].state = "CLOSED" => breaker[b].failures < failure_threshold
          /\ breaker[b].state = "HALF_OPEN" => breaker[b].successes < half_open_max_tries
          /\ breaker[b].successes = half_open_max_tries => b \in recovered
          /\ breaker[b].state = "HALF_OPEN" => breaker[b].active <= Cardinality(InCall(b))
          /\ IsFiniteSet(InCall(b))
      BY <2>1, FieldsRight
    <2>5. /\ IsFiniteSet(InCall(b)') /\ Cardinality(InCall(b)') = Cardinality(InCall(b)) + 1
          /\ Cardinality(InCall(b)) \in Nat
      BY <2>2, <2>3, <2>4, FS_AddElement, FS_CardinalityType
    <2>6. breaker[b].state = "HALF_OPEN" => breaker[b].active < half_open_max_tries
      BY <1>3, <2>4, TypesOf DEF Refused, Fields
    <2>7. /\ fields \in Fields /\ fields.state = breaker[b].state
          /\ fields.successes = breaker[b].successes /\ fields.failures = breaker[b].failures
          /\ fields.state = "HALF_OPEN" => fields.active = breaker[b].active + 1
      <3>1. CASE breaker[b].state = "HALF_OPEN"
        <4>1. breaker[b].active + 1 \in 0..half_open_max_tries
          BY <3>1, <2>4, <2>6, TypesOf DEF Fields
        <4> QED BY <3>1, <4>1, <2>4 DEF Fields
      <3>2. CASE breaker[b].state # "HALF_OPEN"
        BY <3>2, <2>4
      <3> QED BY <3>1, <3>2
    <2>8. breaker[b].active \in Nat
      BY <2>4, TypesOf DEF Fields
    <2> HIDE DEF fields
    <2>9. fields.state = "HALF_OPEN" => fields.active <= Cardinality(InCall(b)')
      BY <2>4, <2>5, <2>7, <2>8
    <2> QED BY <1>1, <1>3, <2>1, <2>2, <2>4, <2>5, <2>7, <2>9, OtherVariables, FieldsChange
  <1> QED BY <1>1, <1>2, <1>3

\* A call that succeeds keeps the invariant.
LEMMA SucceedsKeeps ==
    ASSUME BInv, NEW u \in Users, OperationSucceeds(u)
    PROVE  BInv'
  <1>0. PICK b \in Breakers : b = Of(u)
    BY OtherVariables DEF OperationSucceeds, Of
  <1> DEFINE counted == CountSuccess(breaker[b])
             closes == counted.state = "HALF_OPEN" /\ counted.successes >= half_open_max_tries
             fields == IF closes THEN [Turned(counted, "CLOSED") EXCEPT !.failures = 0]
                                 ELSE counted
             w == [user[u] EXCEPT !.at = "announce", !.closed = closes]
  <1>1. /\ user[u].at = "run" /\ breaker' = [breaker EXCEPT ![b] = fields]
        /\ user' = [user EXCEPT ![u] = w]
        /\ recovered' = IF closes THEN recovered \union {b} ELSE recovered
        /\ UNCHANGED <<named, children, toTrip, blamed>>
    BY <1>0 DEF OperationSucceeds, Sets, Its
  <1>2. /\ breaker[b] \in Fields
        /\ breaker[b].state = "CLOSED" => breaker[b].failures < failure_threshold
        /\ breaker[b].state = "HALF_OPEN" => breaker[b].successes < half_open_max_tries
        /\ breaker[b].successes = half_open_max_tries => b \in recovered
        /\ breaker[b].state = "HALF_OPEN" => breaker[b].active <= Cardinality(InCall(b))
        /\ IsFiniteSet(InCall(b))
    BY FieldsRight
  <1>3. /\ counted \in Fields /\ counted.state = breaker[b].state
        /\ counted.failures = breaker[b].failures /\ counted.active = breaker[b].active
        /\ counted.state # "HALF_OPEN" => counted.successes = breaker[b].successes
    <2>1. CASE breaker[b].state = "HALF_OPEN"
      <3>1. breaker[b].successes + 1 \in 0..half_open_max_tries
        BY <2>1, <1>2, TypesOf DEF Fields
      <3> QED BY <2>1, <3>1, <1>2 DEF CountSuccess, Fields
    <2>2. CASE breaker[b].state # "HALF_OPEN"
      BY <2>2, <1>2 DEF CountSuccess
    <2> QED BY <2>1, <2>2
  <1> HIDE DEF counted
  <1>4. closes \in BOOLEAN
    OBVIOUS
  <1>5. /\ w \in UserRecords /\ w.at = "announce" /\ w.of = b /\ user[u].of = b
    BY <1>0, <1>4, TypesOf DEF UserRecords, Of
  <1>6. /\ fields \in Fields
        /\ fields.state = "CLOSED" => fields.failures < failure_threshold
        /\ fields.state = "HALF_OPEN" => fields.successes < half_open_max_tries
        /\ fields.successes = half_open_max_tries => b \in recovered'
        /\ fields.state = "HALF_OPEN" => fields.active = breaker[b].active
                                         /\ breaker[b].state = "HALF_OPEN"
    <2>1. CASE closes
      <3> DEFINE turned == Turned(counted, "CLOSED")
      <3>1. turned \in Fields /\ turned.state = "CLOSED"
        BY <1>3, TurnedFields
      <3>2. fields = [turned EXCEPT !.failures = 0]
        BY <2>1
      <3> HIDE DEF turned
      <3>3. 0 \in 0..failure_threshold /\ 0 < failure_threshold
        BY TypesOf
      <3>4. fields \in Fields /\ fields.state = "CLOSED" /\ fields.failures = 0
        BY <3>1, <3>2, <3>3 DEF Fields
      <3>5. b \in recovered'
        BY <2>1, <1>1
      <3> HIDE DEF fields
      <3> QED BY <3>3, <3>4, <3>5
    <2>2. CASE ~closes
      <3>1. fields = counted /\ recovered' = recovered
        BY <2>2, <1>1
      <3>2. counted.successes \in Nat
        BY <1>3, TypesOf DEF Fields
      <3>3. counted.state = "HALF_OPEN" => counted.successes < half_open_max_tries
        BY <2>2, <3>2, TypesOf
      <3>4. counted.successes = half_open_max_tries => b \in recovered
        BY <3>2, <3>3, <1>2, <1>3, TypesOf
      <3> HIDE DEF fields
      <3> QED BY <3>1, <3>3, <3>4, <1>2, <1>3
    <2> QED BY <2>1, <2>2
  <1>7. \A c : InCall(c)' = InCall(c)
    BY <1>1, <1>5, TypesOf, CallsStay DEF InCallAt
  <1>8. /\ user' \in [Users -> UserRecords]
        /\ \A v \in Users : user'[v].at # "idle" => user'[v].of \in Breakers
    BY <1>1, <1>5, TypesOf, OtherVariables
  <1>9. /\ recovered \subseteq recovered' /\ recovered' \subseteq Breakers
        /\ blamed' \subseteq recovered'
    BY <1>1, OtherVariables
  <1> HIDE DEF fields, w, closes
  <1>10. fields.state = "HALF_OPEN" => fields.active <= Cardinality(InCall(b)')
    BY <1>2, <1>6, <1>7
  <1>11. IsFiniteSet(InCall(b)')
    BY <1>2, <1>7
  <1> QED BY <1>1, <1>6, <1>7, <1>8, <1>9, <1>10, <1>11, OtherVariables, FieldsChange

\* A call that fails keeps the invariant.
LEMMA FailedCallKeeps ==
    ASSUME BInv, NEW u \in Users, HandleFailure(u)
    PROVE  BInv'
  <1>0. PICK b \in Breakers : b = Of(u)
    BY OtherVariables DEF HandleFailure, Of
  <1> DEFINE counted == CountFailure(breaker[b])
             opens == \/ counted.state = "HALF_OPEN"
                      \/ counted.state = "CLOSED" /\ counted.failures >= failure_threshold
             fields == IF opens THEN Turned(counted, "OPEN") ELSE counted
  <1>1. /\ user[u].at = "failed" /\ breaker' = [breaker EXCEPT ![b] = fields]
        /\ toTrip' = [toTrip EXCEPT ![u] = IF opens THEN Cascade(b) ELSE {}]
        /\ Goes(u, "finally")
        /\ UNCHANGED <<named, children, recovered, blamed>>
    BY <1>0 DEF HandleFailure, Sets, Its
  <1>2. /\ breaker[b] \in Fields
        /\ breaker[b].successes = half_open_max_tries => b \in recovered
        /\ IsFiniteSet(InCall(b))
    BY FieldsRight
  <1>3. /\ counted \in Fields /\ counted.successes = breaker[b].successes
    <2> DEFINE n == IF breaker[b].failures < failure_threshold THEN breaker[b].failures + 1
                    ELSE breaker[b].failures
    <2>1. n \in 0..failure_threshold
      BY <1>2, TypesOf DEF Fields
    <2>2. counted = [breaker[b] EXCEPT !.failures = n, !.windowOver = FALSE]
      BY DEF CountFailure
    <2> HIDE DEF n
    <2> QED BY <2>1, <2>2, <1>2 DEF Fields
  <1> HIDE DEF counted
  <1>4. /\ fields \in Fields /\ fields.successes = breaker[b].successes
        /\ fields.state = "CLOSED" => fields.failures < failure_threshold
        /\ fields.state # "HALF_OPEN"
    <2>1. CASE opens
      <3> DEFINE turned == Turned(counted, "OPEN")
      <3>1. turned \in Fields /\ turned.state = "OPEN" /\ turned.successes = counted.successes
        BY <1>3, TurnedFields
      <3>2. fields = turned
        BY <2>1
      <3> HIDE DEF turned, fields
      <3> QED BY <3>1, <3>2, <1>3
    <2>2. CASE ~opens
      <3>1. fields = counted
        BY <2>2
      <3>2. counted.failures \in Nat
        BY <1>3, TypesOf DEF Fields
      <3>3. counted.state = "CLOSED" => counted.failures < failure_threshold
        BY <2>2, <3>2, TypesOf
      <3>4. counted.state # "HALF_OPEN"
        BY <2>2
      <3> HIDE DEF fields
      <3> QED BY <3>1, <3>3, <3>4, <1>3
    <2> QED BY <2>1, <2>2
  <1>5. /\ user' \in [Users -> UserRecords]
        /\ \A v \in Users : user'[v].at # "idle" => user'[v].of \in Breakers
        /\ \E w : user' = [user EXCEPT ![u] = w] /\ w.at = "finally" /\ w.of = user[u].of
    BY <1>1, UserGoes DEF InCallAt
  <1>6. \A c : InCall(c)' = InCall(c)
    BY <1>1, <1>5, TypesOf, CallsStay DEF InCallAt
  <1>7. Cascade(b) \in SUBSET Circuits /\ \A n \in Cascade(b) : named[n] # NoBreaker
    BY CascadeRegistered
  <1>8. /\ toTrip' \in [Users -> SUBSET Circuits]
        /\ \A v \in Users : \A n \in toTrip'[v] : named[n] # NoBreaker
    BY <1>1, <1>7, OtherVariables
  <1> HIDE DEF fields
  <1>9. IsFiniteSet(InCall(b)') /\ (fields.successes = half_open_max_tries => b \in recovered')
    BY <1>1, <1>2, <1>4, <1>6
  <1> QED BY <1>1, <1>4, <1>5, <1>6, <1>8, <1>9, OtherVariables, FieldsChange

\* Giving back the place of a call keeps the invariant.
LEMMA ReleaseKeeps ==
    ASSUME BInv, NEW u \in Users, ReleaseSlot(u)
    PROVE  BInv'
  <1>0. PICK b \in Breakers : b = Of(u)
    BY OtherVariables DEF ReleaseSlot, Of
  <1> DEFINE fields == IF breaker[b].state = "HALF_OPEN" /\ breaker[b].active > 0
                         THEN [breaker[b] EXCEPT !.active = @ - 1] ELSE breaker[b]
  <1>1. /\ user[u].at = "finally" /\ breaker' = [breaker EXCEPT ![b] = fields]
        /\ Goes(u, "idle")
        /\ UNCHANGED <<named, children, toTrip, recovered, blamed>>
    BY <1>0 DEF ReleaseSlot, Sets, Its
  <1>2. /\ breaker[b] \in Fields
        /\ breaker[b].state = "CLOSED" => breaker[b].failures < failure_threshold
        /\ breaker[b].state = "HALF_OPEN" => breaker[b].successes < half_open_max_tries
        /\ breaker[b].successes = half_open_max_tries => b \in recovered
        /\ breaker[b].state = "HALF_OPEN" => breaker[b].active <= Cardinality(InCall(b))
        /\ IsFiniteSet(InCall(b)) /\ breaker[b].active \in 0..half_open_max_tries
    BY FieldsRight DEF Fields
  <1>3. /\ fields \in Fields /\ fields.state = breaker[b].state
        /\ fields.successes = breaker[b].successes /\ fields.failures = breaker[b].failures
        /\ fields.state = "HALF_OPEN" => fields.active = 0 \/ fields.active = breaker[b].active - 1
    <2>1. CASE breaker[b].state = "HALF_OPEN" /\ breaker[b].active > 0
      <3>1. breaker[b].active - 1 \in 0..half_open_max_tries
        BY <2>1, <1>2, TypesOf
      <3> QED BY <2>1, <3>1, <1>2 DEF Fields
    <2>2. CASE ~(breaker[b].state = "HALF_OPEN" /\ breaker[b].active > 0)
      BY <2>2, <1>2, TypesOf
    <2> QED BY <2>1, <2>2
  <1> HIDE DEF fields
  <1>4. /\ user' \in [Users -> UserRecords]
        /\ \A v \in Users : user'[v].at # "idle" => user'[v].of \in Breakers
        /\ \E w : user' = [user EXCEPT ![u] = w] /\ w.at = "idle" /\ w.of = user[u].of
    BY <1>1, UserGoes
  <1>5. \A c : InCall(c)' = IF c = b THEN InCall(c) \ {u} ELSE InCall(c)
    <2>1. user[u].of = b /\ user[u].at \in InCallAt /\ "idle" \notin InCallAt
      BY <1>0, <1>1 DEF Of, InCallAt
    <2>2. PICK w : user' = [user EXCEPT ![u] = w] /\ w.at = "idle"
      BY <1>4
    <2>3. w.at \notin InCallAt
      BY ONLY <2>1, <2>2
    <2>4. user \in [Users -> UserRecords]
      BY TypesOf
    <2>5. \A a : InCall(a)' = IF a = user[u].of THEN InCall(a) \ {u} ELSE InCall(a)
      BY ONLY u \in Users, <2>1, <2>2, <2>3, <2>4, CallLeft
    <2> QED BY ONLY <2>1, <2>5
  <1>6. u \in InCall(b)
    BY <1>0, <1>1 DEF InCall
  <1>7. /\ IsFiniteSet(InCall(b)') /\ Cardinality(InCall(b)') = Cardinality(InCall(b)) - 1
        /\ Cardinality(InCall(b)) \in Nat /\ Cardinality(InCall(b)') \in Nat
    <2>1. InCall(b)' = InCall(b) \ {u}
      BY <1>5
    <2>2. /\ IsFiniteSet(InCall(b) \ {u})
          /\ Cardinality(InCall(b) \ {u}) = Cardinality(InCall(b)) - 1
      BY <1>2, <1>6, FS_RemoveElement
    <2> QED BY <2>1, <2>2, <1>2, FS_CardinalityType
  <1>8. fields.state = "HALF_OPEN" => fields.active <= Cardinality(InCall(b)')
    BY <1>2, <1>3, <1>7
  <1> QED BY <1>1, <1>2, <1>3, <1>4, <1>5, <1>7, <1>8, OtherVariables, FieldsChange

\* Steps of trip, reset and of the clocks: one breaker's fields change, and no
\* call enters or leaves.
LEMMA TurnKeeps ==
    ASSUME BInv, NEW b \in Breakers, NEW fields \in Fields, Sets(b, fields),
           UNCHANGED <<named, children, user, recovered, blamed>>,
           \/ fields.state = breaker[b].state /\ fields.failures = breaker[b].failures
              /\ fields.active = breaker[b].active
           \/ fields.state = "OPEN"
           \/ fields.state = "CLOSED" /\ fields.failures = 0,
           fields.successes = breaker[b].successes,
           toTrip' \in [Users -> SUBSET Circuits],
           \A u \in Users : \A n \in toTrip'[u] : named[n] # NoBreaker
    PROVE  BInv'
  <1>1. /\ breaker[b].state = "CLOSED" => breaker[b].failures < failure_threshold
        /\ breaker[b].state = "HALF_OPEN" => breaker[b].successes < half_open_max_tries
        /\ breaker[b].successes = half_open_max_tries => b \in recovered
        /\ breaker[b].state = "HALF_OPEN" => breaker[b].active <= Cardinality(InCall(b))
        /\ IsFiniteSet(InCall(b))
    BY FieldsRight
  <1>2. \A c : InCall(c)' = InCall(c)
    BY DEF InCall, Of
  <1>3. /\ fields.state = "CLOSED" => fields.failures < failure_threshold
        /\ fields.state = "HALF_OPEN" => fields.successes < half_open_max_tries
        /\ fields.successes = half_open_max_tries => b \in recovered'
        /\ fields.state = "HALF_OPEN" => fields.active <= Cardinality(InCall(b)')
        /\ IsFiniteSet(InCall(b)')
    BY <1>1, <1>2, TypesOf
  <1>4. /\ user' \in [Users -> UserRecords]
        /\ \A u \in Users : user'[u].at # "idle" => user'[u].of \in Breakers
        /\ recovered \subseteq recovered' /\ recovered' \subseteq Breakers
        /\ blamed' \subseteq recovered' /\ named' = named /\ children' = children
    BY TypesOf, OtherVariables
  <1>5. breaker' = [breaker EXCEPT ![b] = fields]
    BY DEF Sets
  <1> QED BY <1>2, <1>3, <1>4, <1>5, FieldsChange

\* Tripping a breaker and what hangs on it keeps the invariant.
LEMMA TripsKeep ==
    ASSUME BInv, NEW u \in Users, NEW b \in Breakers, NEW left \in SUBSET Circuits,
           \A n \in left : named[n] # NoBreaker,
           Trips(u, b, left), UNCHANGED <<named, children, user, recovered, blamed>>
    PROVE  BInv'
  <1> DEFINE fields == IF breaker[b].state = "OPEN" THEN breaker[b] ELSE Turned(breaker[b], "OPEN")
             names == left \union IF breaker[b].state = "OPEN" THEN {} ELSE Cascade(b)
  <1>1. Sets(b, fields) /\ toTrip' = [toTrip EXCEPT ![u] = names]
    BY DEF Trips
  <1>2. breaker[b] \in Fields
    BY TypesOf
  <1>3. /\ fields \in Fields /\ fields.state = "OPEN"
        /\ fields.successes = breaker[b].successes
    BY <1>2, TurnedFields
  <1>4. names \in SUBSET Circuits /\ \A n \in names : named[n] # NoBreaker
    BY CascadeRegistered
  <1>5. /\ toTrip' \in [Users -> SUBSET Circuits]
        /\ \A v \in Users : \A n \in toTrip'[v] : named[n] # NoBreaker
    BY <1>1, <1>4, OtherVariables
  <1> HIDE DEF fields, names
  <1> QED BY <1>1, <1>3, <1>5, TurnKeeps

\* Every step of the breakers keeps the invariant.
LEMMA BreakerKept ==
    ASSUME BInv, [BreakerNext]_breakerVars
    PROVE  BInv'
  <1>1. CASE UNCHANGED breakerVars
    <2>1. UNCHANGED <<named, children, breaker, user, toTrip, recovered, blamed>>
      BY <1>1 DEF breakerVars
    <2>2. \A b : InCall(b)' = InCall(b)
      BY <2>1 DEF InCall, Of
    <2>3. BreakerTypeOK' /\ Registered'
      BY <2>1 DEF BInv, BreakerTypeOK, Registered, Of
    <2> QED BY <2>1, <2>2, <2>3, OtherVariables, FieldsStay
  <1>2. ASSUME NEW u \in Users, NEW n \in Circuits, GetOrCreate(u, n)
        PROVE  BInv'
    <2>1. PICK w : /\ user' = [user EXCEPT ![u] = w] /\ w \in UserRecords
                   /\ w.at \in {"check", "register"} /\ w.of \in Breakers
      <3>1. CASE named[n] # NoBreaker
        <4> DEFINE w == [at |-> "check", of |-> named[n], closed |-> FALSE]
        <4>1. user' = [user EXCEPT ![u] = w] /\ named[n] \in Breakers
          BY <1>2, <3>1, OtherVariables DEF GetOrCreate
        <4>2. w \in UserRecords /\ w.at = "check" /\ w.of \in Breakers
          BY <4>1 DEF UserRecords
        <4> QED BY <4>1, <4>2
      <3>2. CASE named[n] = NoBreaker
        <4> DEFINE w == [at |-> "register", of |-> <<n, u>>, closed |-> FALSE]
        <4>1. user' = [user EXCEPT ![u] = w] /\ <<n, u>> \in Breakers
          BY <1>2, <3>2 DEF GetOrCreate, Breakers
        <4>2. w \in UserRecords /\ w.at = "register" /\ w.of \in Breakers
          BY <4>1 DEF UserRecords
        <4> QED BY <4>1, <4>2
      <3> QED BY <3>1, <3>2
    <2>2. /\ user[u].at = "idle"
          /\ UNCHANGED <<named, children, breaker, toTrip, recovered, blamed>>
      BY <1>2 DEF GetOrCreate
    <2>3. \A b : InCall(b)' = InCall(b)
      BY <2>1, <2>2, TypesOf, CallsStay DEF InCallAt
    <2>4. /\ user' \in [Users -> UserRecords]
          /\ \A v \in Users : user'[v].at # "idle" => user'[v].of \in Breakers
      BY <2>1, TypesOf, OtherVariables
    <2>5. BreakerTypeOK' /\ Registered'
      BY <2>2, <2>4 DEF BInv, BreakerTypeOK, Registered, UserRecords, Of
    <2> QED BY <2>2, <2>3, <2>5, OtherVariables, FieldsStay
  <1>3. ASSUME NEW u \in Users, RegisterMade(u)
        PROVE  BInv'
    <2>1. /\ user[u].at = "register" /\ Goes(u, "check")
          /\ UNCHANGED <<children, breaker, toTrip, recovered, blamed>>
      BY <1>3 DEF RegisterMade
    <2>2. /\ user' \in [Users -> UserRecords]
          /\ \A v \in Users : user'[v].at # "idle" => user'[v].of \in Breakers
          /\ Of(u) \in Breakers
          /\ \E w : user' = [user EXCEPT ![u] = w] /\ w.at = "check" /\ w.of = user[u].of
      BY <2>1, UserGoes
    <2>3. \A b : InCall(b)' = InCall(b)
      BY <2>1, <2>2, TypesOf, CallsStay DEF InCallAt
    <2>4. NameOf(Of(u)) \in Circuits
      BY <2>2 DEF Breakers, NameOf
    <2>5. /\ named' \in [Circuits -> Breakers \union {NoBreaker}]
          /\ \A n \in Circuits : named'[n] # NoBreaker => NameOf(named'[n]) = n
          /\ \A n \in Circuits : named[n] # NoBreaker => named'[n] # NoBreaker
      <3>1. CASE named[NameOf(Of(u))] = NoBreaker
        <4>1. named' = [named EXCEPT ![NameOf(Of(u))] = Of(u)]
          BY <1>3, <3>1 DEF RegisterMade
        <4> QED BY <4>1, <3>1, <2>2, <2>4 DEF BInv, BreakerTypeOK
      <3>2. CASE named[NameOf(Of(u))] # NoBreaker
        <4>1. named' = named
          BY <1>3, <3>2 DEF RegisterMade
        <4> QED BY <4>1 DEF BInv, BreakerTypeOK
      <3> QED BY <3>1, <3>2
    <2>6. BreakerTypeOK'
      BY <2>1, <2>2, <2>5 DEF BInv, BreakerTypeOK, UserRecords
    <2>7. Registered'
      BY <2>1, <2>2, <2>5 DEF BInv, BreakerTypeOK, Registered, Of
    <2> QED BY <2>1, <2>3, <2>6, <2>7, OtherVariables, FieldsStay
  <1>4. ASSUME NEW n \in Circuits, NEW m \in Circuits, RegisterChild(n, m)
        PROVE  BInv'
    <2>1. /\ named[n] # NoBreaker
          /\ children' = [children EXCEPT ![m] = @ \union {n}]
          /\ UNCHANGED <<named, breaker, user, toTrip, recovered, blamed>>
      BY <1>4 DEF RegisterChild
    <2>2. \A b : InCall(b)' = InCall(b)
      BY <2>1 DEF InCall, Of
    <2>3. BreakerTypeOK'
      BY <2>1 DEF BInv, BreakerTypeOK
    <2>4. Registered'
      BY <2>1, OtherVariables DEF BInv, Registered, Of
    <2> QED BY <2>1, <2>2, <2>3, <2>4, OtherVariables, FieldsStay
  <1>5. ASSUME NEW u \in Users, Announce(u) \/ OperationFails(u) \/ OperationCancelled(u)
        PROVE  BInv'
    <2>1. /\ user[u].at \in {"run", "announce"}
          /\ Goes(u, "failed") \/ Goes(u, "finally")
          /\ UNCHANGED <<named, children, breaker, toTrip, recovered>>
      BY <1>5 DEF Announce, OperationFails, OperationCancelled
    <2>2. PICK at \in {"failed", "finally"} : Goes(u, at)
      BY <2>1
    <2>3. /\ user' \in [Users -> UserRecords]
          /\ \A v \in Users : user'[v].at # "idle" => user'[v].of \in Breakers
          /\ Of(u) \in Breakers
          /\ \E w : user' = [user EXCEPT ![u] = w] /\ w.at = at /\ w.of = user[u].of
      BY <2>1, <2>2, UserGoes DEF InCallAt
    <2>4. \A b : InCall(b)' = InCall(b)
      BY <2>1, <2>3, TypesOf, CallsStay DEF InCallAt
    <2>5. blamed' \subseteq recovered
      <3>1. CASE Announce(u)
        <4>1. breaker[Of(u)].successes >= half_open_max_tries => Of(u) \in recovered
          <5>1. breaker[Of(u)].successes \in 0..half_open_max_tries
            BY <2>3, TypesOf DEF Fields
          <5> QED BY <5>1, <2>3, FieldsRight, TypesOf
        <4> QED BY <3>1, <4>1, OtherVariables DEF Announce, Its
      <3>2. CASE OperationFails(u) \/ OperationCancelled(u)
        BY <3>2, OtherVariables DEF OperationFails, OperationCancelled
      <3> QED BY <1>5, <3>1, <3>2
    <2>6. BreakerTypeOK' /\ Registered'
      BY <2>1, <2>3, <2>5, OtherVariables DEF BInv, BreakerTypeOK, Registered, UserRecords, Of
    <2> QED BY <2>1, <2>4, <2>5, <2>6, FieldsStay
  <1>6. ASSUME NEW u \in Users, NEW n \in Circuits, TripCircuit(u, n)
        PROVE  BInv'
    <2> DEFINE left == {}
    <2>1. /\ named[n] \in Breakers /\ Trips(u, named[n], left)
          /\ UNCHANGED <<named, children, user, recovered, blamed>>
          /\ left \in SUBSET Circuits /\ \A m \in left : named[m] # NoBreaker
      BY <1>6, OtherVariables DEF TripCircuit
    <2> HIDE DEF left
    <2>2. PICK b \in Breakers : b = named[n]
      BY <2>1
    <2> QED BY <2>1, <2>2, TripsKeep
  <1>7. ASSUME NEW u \in Users, TripChild(u)
        PROVE  BInv'
    <2>1. PICK n \in toTrip[u] : /\ Trips(u, named[n], toTrip[u] \ {n})
                                 /\ UNCHANGED <<named, children, user, recovered, blamed>>
      BY <1>7 DEF TripChild
    <2>2. PICK b \in Breakers, left \in SUBSET Circuits :
             b = named[n] /\ left = toTrip[u] \ {n}
      <3>1. toTrip[u] \in SUBSET Circuits /\ n \in Circuits /\ named[n] # NoBreaker
        BY OtherVariables
      <3>2. named[n] \in Breakers /\ toTrip[u] \ {n} \in SUBSET Circuits
        BY <3>1, OtherVariables
      <3> QED BY <3>2
    <2>3. \A m \in left : named[m] # NoBreaker
      BY <2>2, OtherVariables
    <2> QED BY <2>1, <2>2, <2>3, TripsKeep
  <1>8. ASSUME NEW n \in Circuits, ResetCircuit(n)
        PROVE  BInv'
    <2>1. PICK b \in Breakers : b = named[n]
      BY <1>8, OtherVariables DEF ResetCircuit
    <2> DEFINE turned == Turned(breaker[b], "CLOSED")
               fields == [turned EXCEPT !.failures = 0]
    <2>2. /\ Sets(b, fields)
          /\ UNCHANGED <<named, children, user, toTrip, recovered, blamed>>
      BY <1>8, <2>1 DEF ResetCircuit
    <2>3. /\ turned \in Fields /\ turned.state = "CLOSED"
          /\ turned.successes = breaker[b].successes
      BY TypesOf, TurnedFields
    <2> HIDE DEF turned
    <2>4. 0 \in 0..failure_threshold
      BY TypesOf
    <2>5. /\ fields \in Fields /\ fields.state = "CLOSED" /\ fields.failures = 0
          /\ fields.successes = breaker[b].successes
      BY <2>3, <2>4 DEF Fields
    <2> HIDE DEF fields
    <2> QED BY <2>2, <2>5, OtherVariables, TurnKeeps
  <1>9. ASSUME NEW b \in Breakers, TimeoutElapses(b) \/ WindowElapses(b)
        PROVE  BInv'
    <2>1. PICK fields : /\ fields \in {[breaker[b] EXCEPT !.elapsed = TRUE],
                                       [breaker[b] EXCEPT !.windowOver = TRUE]}
                        /\ Sets(b, fields)
      BY <1>9 DEF TimeoutElapses, WindowElapses
    <2>2. UNCHANGED <<named, children, user, toTrip, recovered, blamed>>
      BY <1>9 DEF TimeoutElapses, WindowElapses
    <2>3. breaker[b] \in Fields
      BY TypesOf
    <2>4. /\ fields \in Fields /\ fields.state = breaker[b].state
          /\ fields.failures = breaker[b].failures /\ fields.active = breaker[b].active
          /\ fields.successes = breaker[b].successes
      BY <2>1, <2>3 DEF Fields
    <2> QED BY <2>1, <2>2, <2>4, OtherVariables, TurnKeeps
  <1> QED BY <1>1, <1>2, <1>3, <1>4, <1>5, <1>6, <1>7, <1>8, <1>9,
             CheckTransitionKeeps, TurnHalfOpenKeeps, AdmitKeeps, SucceedsKeeps,
             FailedCallKeeps, ReleaseKeeps DEF BreakerNext

\* Breakers begin as the invariant says.
LEMMA BreakerBegins ==
    ASSUME BreakerInit
    PROVE  BInv
  <1>1. NewBreaker \in Fields /\ NewBreaker.state = "CLOSED" /\ NewBreaker.failures = 0
        /\ NewBreaker.successes = 0
    BY SimpleBreakerAssumption DEF NewBreaker, Fields
  <1>2. BreakerTypeOK
    BY <1>1 DEF BreakerInit, BreakerTypeOK, Fields
  <1>3. \A b \in Breakers : breaker[b] = NewBreaker
    BY DEF BreakerInit
  <1>4. \A b : InCall(b) = {}
    BY DEF BreakerInit, InCall
  <1>5. \A b \in Breakers : IsFiniteSet(InCall(b))
    BY <1>4, FS_EmptySet
  <1>6. SuccessesTold /\ BreakersCountRight
    BY <1>1, <1>3, SimpleBreakerAssumption
    DEF SuccessesTold, BreakersCountRight, SlotsKept, ClosedBelowThreshold,
        BlamedOnlyRecovered, BreakerInit
  <1>7. Registered
    BY DEF BreakerInit, Registered
  <1> QED BY <1>2, <1>5, <1>6, <1>7 DEF BInv

-----------------------------------------------------------------------------
(* The services together *)

\* A step is one of a single service, and the others stutter.
LEMMA OneAtATime ==
    ASSUME [Next]_vars
    PROVE  /\ [WaterNext]_waterVars /\ [StateNext]_stateVars /\ [ManagerNext]_managerVars
           /\ [CoordinatorNext]_coordinatorVars /\ [BreakerNext]_breakerVars
           /\ [ManagedNext]_managedVars /\ [MonitorNext]_monitorVars
           /\ UNCHANGED service
  <1>1. CASE Next
    BY <1>1, Zenon DEF Next
  <1>2. CASE UNCHANGED vars
    BY <1>2, Zenon DEF vars
  <1> QED BY <1>1, <1>2

\* The invariants of all services hold throughout.
THEOREM Inductive == Spec => [](WInv /\ SInv /\ RInv /\ CInv /\ BInv /\ OInv /\ MInv)
  <1>1. Init => WInv /\ SInv /\ RInv /\ CInv /\ BInv /\ OInv /\ MInv
    BY WaterBegins, StateBegins, ManagerBegins, CoordinatorBegins, BreakerBegins,
       OperationsBegin, MonitorsBegin, Zenon DEF Init
  <1>2. /\ WInv /\ SInv /\ RInv /\ CInv /\ BInv /\ OInv /\ MInv
        /\ [Next]_vars
        => (WInv /\ SInv /\ RInv /\ CInv /\ BInv /\ OInv /\ MInv)'
    BY OneAtATime, WaterKept, StateKept, ManagerKept, CoordinatorKept, BreakerKept,
       OperationsKept, MonitorsKept, Zenon
  <1> QED BY <1>1, <1>2, PTL DEF Spec

\* Every variable of every service keeps its type.
THEOREM ServicesTyped == Spec => []ServicesTypeOK
  <1>1. WInv /\ SInv /\ RInv /\ CInv /\ BInv /\ OInv /\ MInv => ServicesTypeOK
    BY ManagerRight DEF ServicesTypeOK, WInv, SInv, CInv, BInv, OInv, MInv
  <1> QED BY <1>1, Inductive, PTL

\* Whatever other coordinations do with the tracker that they share, contexts
\* and tracker of each are as CoordinationsRight says: a coordination that
\* nobody disturbed reports what its own answers left.
THEOREM CoordinationsKeptRight == Spec => []CoordinationsRight
  <1>1. WInv => CoordinationsRight
    BY DEF WInv
  <1> QED BY <1>1, Inductive, PTL

\* Whatever was cached, evicted, deleted, restored or terminated, nobody reads
\* from the cache what the backend does not hold, and the records of a resource
\* tell one life of it, of legal transitions.
THEOREM StatesKeptAgreeing == Spec => []StatesAgree
  <1>1. SInv => StatesAgree
    BY DEF SInv
  <1> QED BY <1>1, Inductive, PTL

\* A resource's own initialize() runs only when all it depends on was started or
\* has failed, and nothing is started twice, although the order of the manager
\* lists no dependency: the calls in progress are a chain that never returns.
THEOREM DependenciesStartFirst == Spec => []StartedAfterDependencies
  <1>1. RInv => StartedAfterDependencies
    BY ManagerRight
  <1> QED BY <1>1, Inductive, PTL

\* Managers start after what they require and stop before it, and the monitors
\* that they share run as they were last asked to.
THEOREM ManagersKeptInOrder == Spec => []ManagersInOrder
  <1>1. CInv /\ MInv => ManagersInOrder
    BY CoordinatorRight, MonitorsRight DEF ManagersInOrder
  <1> QED BY <1>1, Inductive, PTL

\* Failures are counted, and acted upon, as often as they happened: by circuit
\* breakers, whatever their callers interleave, and by the error recovery of the
\* managers, whose cleanups leave the sizes told to the memory monitor in order.
THEOREM FailuresKeptCounted == Spec => []FailuresCounted
  <1>1. BInv /\ OInv => FailuresCounted
    BY OperationsRight DEF FailuresCounted, BInv
  <1> QED BY <1>1, Inductive, PTL
=============================================================================
