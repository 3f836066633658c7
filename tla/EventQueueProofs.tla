-------------------------- MODULE EventQueueProofs --------------------------
(***************************************************************************)
(* Theorems about EventQueue for every set of kinds, subscribers and       *)
(* interests, every capacity, batch size and number of retries.            *)
(* Everything rests on one account: how often an event occurs in the       *)
(* sequences and sets it travels through.  Taking an event out, putting it *)
(* back at the end, filling a batch and flushing the buffer move           *)
(* occurrences, and the lemmas of the first part say how many.             *)
(***************************************************************************)
EXTENDS EventQueue, SequenceTheorems, FiniteSetTheorems, TLAPS

(* Counting occurrences in sequences *)

\* The places at which x stands in a sequence are finitely many.
LEMMA CountType ==
    ASSUME NEW S, NEW s \in Seq(S), NEW x
    PROVE  /\ IsFiniteSet({i \in DOMAIN s : s[i] = x})
           /\ Count(s, x) \in Nat
<1>1. DOMAIN s = 1..Len(s) /\ Len(s) \in Nat  BY LenProperties
<1>2. IsFiniteSet(DOMAIN s)  BY <1>1, FS_Interval
<1>3. IsFiniteSet({i \in DOMAIN s : s[i] = x})  BY <1>2, FS_Subset
<1>4. QED  BY <1>3, FS_CardinalityType DEF Count

\* Nothing stands in the empty sequence.
LEMMA CountEmpty ==
    ASSUME NEW x
    PROVE  Count(<<>>, x) = 0
<1>1. {i \in DOMAIN <<>> : <<>>[i] = x} = {}  BY EmptySeq
<1>2. QED  BY <1>1, FS_EmptySet DEF Count

\* A sequence of one element has it once.
LEMMA CountOne ==
    ASSUME NEW y, NEW x
    PROVE  Count(<<y>>, x) = IF y = x THEN 1 ELSE 0
<1>1. DOMAIN <<y>> = {1} /\ <<y>>[1] = y  OBVIOUS
<1>2. CASE y = x
    <2>1. {i \in DOMAIN <<y>> : <<y>>[i] = x} = {1}  BY <1>1, <1>2
    <2>2. QED  BY <2>1, <1>2, FS_Singleton DEF Count
<1>3. CASE y # x
    <2>1. {i \in DOMAIN <<y>> : <<y>>[i] = x} = {}  BY <1>1, <1>3
    <2>2. QED  BY <2>1, <1>3, FS_EmptySet DEF Count
<1>4. QED  BY <1>2, <1>3

\* x occurs in a sequence exactly if its count is not zero.
LEMMA CountZero ==
    ASSUME NEW S, NEW s \in Seq(S), NEW x
    PROVE  Count(s, x) = 0 <=> \A i \in 1..Len(s) : s[i] # x
<1>1. DOMAIN s = 1..Len(s)  BY LenProperties
<1>2. Count(s, x) = 0 <=> {i \in DOMAIN s : s[i] = x} = {}
    BY CountType, FS_EmptySet DEF Count
<1>3. QED  BY <1>1, <1>2

\* The places of x in s \o t are those in s and, shifted by Len(s), those in t.
LEMMA CountConcat ==
    ASSUME NEW S, NEW s \in Seq(S), NEW t \in Seq(S), NEW x
    PROVE  Count(s \o t, x) = Count(s, x) + Count(t, x)
<1> DEFINE m == Len(s)
           A == {i \in 1..m : s[i] = x}
           B == {i \in 1..Len(t) : t[i] = x}
           C == {i \in m+1..m+Len(t) : t[i - m] = x}
<1>1. m \in Nat /\ Len(t) \in Nat /\ DOMAIN s = 1..m /\ DOMAIN t = 1..Len(t)
    BY LenProperties
<1>2. /\ s \o t \in Seq(S) /\ Len(s \o t) = m + Len(t)
      /\ \A i \in 1..m + Len(t) : (s \o t)[i] = IF i <= m THEN s[i] ELSE t[i - m]
    BY ConcatProperties
<1>3. DOMAIN (s \o t) = 1..m + Len(t)  BY <1>2, LenProperties
<1>4. {i \in DOMAIN (s \o t) : (s \o t)[i] = x} = A \union C
    BY <1>1, <1>2, <1>3
<1>5. A \cap C = {}  BY <1>1
<1>6. /\ IsFiniteSet(A) /\ Cardinality(A) = Count(s, x)
      /\ IsFiniteSet(B) /\ Cardinality(B) = Count(t, x)
    BY <1>1, CountType DEF Count
<1>7. ExistsBijection(B, C)
    <2> DEFINE f == [j \in B |-> j + m]
    <2>1. f \in Injection(B, C)
        <3>1. f \in [B -> C]  BY <1>1
        <3>2. \A i, j \in B : f[i] = f[j] => i = j  BY <1>1
        <3>3. QED  BY <3>1, <3>2 DEF Injection, IsInjective
    <2>2. \A k \in C : \E j \in B : f[j] = k
        <3> TAKE k \in C
        <3>1. k - m \in B /\ f[k - m] = k  BY <1>1
        <3>2. QED  BY <3>1
    <2>3. f \in Bijection(B, C)
        BY <2>1, <2>2 DEF Bijection, Surjection, Injection
    <2>4. QED  BY <2>3 DEF ExistsBijection
<1>8. IsFiniteSet(C) /\ Cardinality(C) = Count(t, x)
    BY <1>6, <1>7, FS_Bijection
<1>9. Cardinality(A \union C) = Cardinality(A) + Cardinality(C) - Cardinality(A \cap C)
    BY <1>6, <1>8, FS_Union
<1>10. Cardinality(A \cap C) = 0  BY <1>5, FS_EmptySet
<1>11. Cardinality(A) \in Nat /\ Cardinality(C) \in Nat
    BY <1>6, <1>8, FS_CardinalityType
<1>12. Count(s \o t, x) = Cardinality(A \union C)  BY <1>4 DEF Count
<1> HIDE DEF A, C
<1>13. QED  BY <1>6, <1>8, <1>9, <1>10, <1>11, <1>12

\* What is put at the end is counted there.
LEMMA CountAppend ==
    ASSUME NEW S, NEW s \in Seq(S), NEW y \in S, NEW x
    PROVE  Count(Append(s, y), x) = Count(s, x) + (IF y = x THEN 1 ELSE 0)
<1>1. Append(s, y) = s \o <<y>>  BY AppendIsConcat
<1>2. <<y>> \in Seq(S)  OBVIOUS
<1>3. Count(Append(s, y), x) = Count(s, x) + Count(<<y>>, x)
    <2> DEFINE t == <<y>>
    <2>1. Count(s \o t, x) = Count(s, x) + Count(t, x)
        <3> HIDE DEF t
        <3>1. t \in Seq(S)  BY <1>2 DEF t
        <3>2. QED  BY <3>1, CountConcat
    <2>2. QED  BY <1>1, <2>1, Zenon
<1>4. QED  BY <1>3, CountOne

\* A sequence is its head, followed by its tail.
LEMMA HeadThenTail ==
    ASSUME NEW S, NEW s \in Seq(S), s # <<>>
    PROVE  /\ s = <<Head(s)>> \o Tail(s)
           /\ Head(s) \in S /\ Tail(s) \in Seq(S) /\ <<Head(s)>> \in Seq(S)
<1>1. Len(s) \in Nat \ {0}  BY EmptySeq
<1>2. Head(s) \in S /\ Tail(s) \in Seq(S) /\ <<Head(s)>> \in Seq(S)
    BY HeadTailProperties
<1> DEFINE u == <<Head(s)>> \o Tail(s)
<1>3. u \in Seq(S) /\ Len(u) = 1 + Len(Tail(s))
    BY <1>2, ConcatProperties
<1>4. Len(u) = Len(s)  BY <1>3, <1>1, HeadTailProperties
<1>5. \A i \in 1..Len(s) : s[i] = u[i]
    BY <1>1, <1>2, <1>3, HeadTailProperties, ConcatProperties
<1> HIDE DEF u
<1>6. s = u  BY <1>3, <1>4, <1>5, SeqEqual
<1>7. QED  BY <1>2, <1>6 DEF u

\* Taking the first one out.
LEMMA CountTail ==
    ASSUME NEW S, NEW s \in Seq(S), s # <<>>, NEW x
    PROVE  Count(s, x) = (IF Head(s) = x THEN 1 ELSE 0) + Count(Tail(s), x)
<1>1. /\ s = <<Head(s)>> \o Tail(s)
      /\ Tail(s) \in Seq(S) /\ <<Head(s)>> \in Seq(S)
    BY HeadThenTail
<1> DEFINE u == <<Head(s)>>
           t == Tail(s)
<1>2. u \in Seq(S) /\ t \in Seq(S) /\ s = u \o t  BY <1>1
<1> HIDE DEF u, t
<1>3. Count(u \o t, x) = Count(u, x) + Count(t, x)  BY <1>2, CountConcat
<1>4. Count(s, x) = Count(u, x) + Count(t, x)  BY <1>2, <1>3, Zenon
<1>5. QED  BY <1>4, CountOne DEF u, t

\* Cutting a sequence in two.
LEMMA CountCut ==
    ASSUME NEW S, NEW s \in Seq(S), NEW n \in 0..Len(s), NEW x
    PROVE  /\ SubSeq(s, 1, n) \in Seq(S) /\ Len(SubSeq(s, 1, n)) = n
           /\ SubSeq(s, n + 1, Len(s)) \in Seq(S)
           /\ Len(SubSeq(s, n + 1, Len(s))) = Len(s) - n
           /\ Count(s, x) = Count(SubSeq(s, 1, n), x) + Count(SubSeq(s, n + 1, Len(s)), x)
<1>1. Len(s) \in Nat /\ \A i \in 1..Len(s) : s[i] \in S
    BY LenProperties, ElementOfSeq
<1>2. SubSeq(s, 1, n) \in Seq(S) /\ Len(SubSeq(s, 1, n)) = n
    BY <1>1, SubSeqProperties
<1>3. /\ SubSeq(s, n + 1, Len(s)) \in Seq(S)
      /\ Len(SubSeq(s, n + 1, Len(s))) = Len(s) - n
    <2>1. \A i \in (n+1)..Len(s) : s[i] \in S  BY <1>1
    <2>2. QED  BY <1>1, <2>1, SubSeqProperties
<1>4. SubSeq(s, 1, n) \o SubSeq(s, n + 1, Len(s)) = SubSeq(s, 1, Len(s))
    <2>1. 1 \in 1..Len(s)+1 /\ n \in 1-1..Len(s) /\ Len(s) \in n..Len(s)
        BY <1>1
    <2>2. QED  BY <2>1, ConcatAdjacentSubSeq, ZenonT(30)
<1>5. SubSeq(s, 1, Len(s)) = s  BY SubSeqFull
<1> DEFINE a == SubSeq(s, 1, n)
           b == SubSeq(s, n + 1, Len(s))
<1>6. a \o b = s  BY <1>4, <1>5
<1> HIDE DEF a, b
<1>7. Count(a \o b, x) = Count(a, x) + Count(b, x)
    BY <1>2, <1>3, CountConcat DEF a, b
<1>8. Count(s, x) = Count(a, x) + Count(b, x)  BY <1>6, <1>7, Zenon
<1>9. QED  BY <1>2, <1>3, <1>8, Zenon DEF a, b

\* A sequence of items in which the summary does not occur holds events.
LEMMA NoSummary ==
    ASSUME NEW s \in Seq(Items), Count(s, Summary) = 0
    PROVE  s \in Seq(Events)
<1>1. \A i \in 1..Len(s) : s[i] \in Items /\ s[i] # Summary
    BY CountZero, ElementOfSeq
<1>2. \A i \in 1..Len(s) : s[i] \in Events
    BY <1>1, BoundsAssumption DEF Items, Events, Summary
<1>3. QED  BY <1>2, LenProperties

(* The least and the greatest of a set of numbers *)

\* A set of numbers that is not empty has a least element.
LEMMA Least ==
    ASSUME NEW T \in SUBSET Nat, T # {}
    PROVE  \E l \in T : \A t \in T : l <= t
<1> DEFINE R == OpToRel(<, Nat)
<1>1. \E l \in T : \A t \in T : ~(<<t, l>> \in R)
    BY NatLessThanWellFounded, WFMin
<1>2. \A l, t \in T : ~(<<t, l>> \in R) => l <= t  BY DEF OpToRel
<1>3. QED  BY <1>1, <1>2

\* A bounded set of numbers that is not empty has a greatest element.
LEMMA Greatest ==
    ASSUME NEW T \in SUBSET Nat, T # {}, NEW n \in Nat, \A t \in T : t <= n
    PROVE  \E g \in T : \A t \in T : t <= g
<1> DEFINE U == {k \in 0..n : n - k \in T}
<1>1. U \in SUBSET Nat /\ U # {}
    <2>1. PICK t \in T : TRUE  OBVIOUS
    <2>2. n - t \in 0..n /\ n - (n - t) = t  OBVIOUS
    <2>3. n - t \in U  BY <2>2
    <2>4. U \subseteq Nat  OBVIOUS
    <2> HIDE DEF U
    <2>5. QED  BY <2>3, <2>4
<1>2. PICK l \in U : \A u \in U : l <= u
    <2> HIDE DEF U
    <2> QED  BY <1>1, Least
<1>3. n - l \in T  OBVIOUS
<1>4. ASSUME NEW t \in T PROVE t <= n - l
    <2>1. n - t \in 0..n /\ n - (n - t) = t  OBVIOUS
    <2>2. n - t \in U  BY <2>1
    <2>3. l <= n - t  BY <1>2, <2>2
    <2>4. l \in Nat /\ t \in Nat  BY <1>1
    <2> HIDE DEF U
    <2>5. QED  BY <2>3, <2>4
<1>5. QED  BY <1>3, <1>4

-----------------------------------------------------------------------------
(* Filling a batch *)

\* What Fill chooses exists: the longest run of the batch's type that fits.
\* It moves a run of events of that type from the front of the queue to the
\* batch, and at most changes the place of one other.
LEMMA FillProperties ==
    ASSUME NEW b \in Seq(Events), Len(b) = 1, NEW q \in Seq(Events)
    PROVE  /\ Fill(b, q).batch \in Seq(Events)
           /\ Len(Fill(b, q).batch) \in 1..max_batch_size
           /\ \A i \in 1..Len(Fill(b, q).batch) :
                 TypeOf(Fill(b, q).batch[i]) = TypeOf(Head(b))
           /\ Head(Fill(b, q).batch) = Head(b)
           /\ Fill(b, q).queue \in Seq(Events)
           /\ Len(Fill(b, q).queue) <= Len(q)
           /\ \A x : Count(Fill(b, q).batch, x) + Count(Fill(b, q).queue, x)
                       = Count(b, x) + Count(q, x)
<1> DEFINE same(k) == \A i \in 1..k : TypeOf(q[i]) = TypeOf(Head(b))
           Longest(k) == /\ same(k) /\ Len(b) + k <= max_batch_size
                         /\ k = Len(q) \/ Len(b) + k = max_batch_size \/ ~same(k + 1)
           n == CHOOSE k \in 0..Len(q) : Longest(k)
           taken == SubSeq(q, 1, n)
           rest == SubSeq(q, n + 1, Len(q))
           batch_ == b \o taken
           queue_ == IF rest # <<>> /\ Len(b) + n < max_batch_size
                       THEN Append(Tail(rest), Head(rest)) ELSE rest
<1>0. max_batch_size \in Nat \ {0} /\ Len(q) \in Nat
    BY BoundsAssumption, LenProperties
<1>1. \E k \in 0..Len(q) : Longest(k)
    <2> DEFINE T == {k \in 0..Len(q) : same(k) /\ Len(b) + k <= max_batch_size}
    <2>1. 0 \in T  BY <1>0
    <2>2. PICK g \in T : \A k \in T : k <= g
        <3>1. T \in SUBSET Nat /\ T # {} /\ \A k \in T : k <= Len(q)
            BY <1>0, <2>1
        <3> HIDE DEF T
        <3>2. QED  BY <1>0, <3>1, Greatest
    <2>3. CASE g + 1 \in 0..Len(q) /\ Len(b) + (g + 1) <= max_batch_size
        <3>1. g + 1 \notin T  BY <2>2, <1>0
        <3>2. ~same(g + 1)  BY <3>1, <2>3
        <3>3. QED  BY <3>2
    <2>4. CASE ~(g + 1 \in 0..Len(q) /\ Len(b) + (g + 1) <= max_batch_size)
        <3>1. g = Len(q) \/ Len(b) + g = max_batch_size  BY <2>4, <1>0
        <3>2. QED  BY <3>1
    <2>5. QED  BY <2>3, <2>4
<1>2. n \in 0..Len(q) /\ Longest(n)  BY <1>1
<1>3. Fill(b, q).batch = batch_ /\ Fill(b, q).queue = queue_  BY DEF Fill
<1>4. same(n) /\ 1 + n <= max_batch_size  BY <1>2
<1> HIDE DEF n
<1>5. /\ taken \in Seq(Events) /\ Len(taken) = n
      /\ rest \in Seq(Events) /\ Len(rest) = Len(q) - n
      /\ \A x : Count(q, x) = Count(taken, x) + Count(rest, x)
    BY <1>2, CountCut
<1>6. \A i \in 1..n : taken[i] = q[i]
    <2>1. \A i \in 1..n : q[i] \in Events  BY <1>0, <1>2, ElementOfSeq
    <2>2. QED  BY <2>1, <1>0, <1>2, SubSeqProperties
<1> HIDE DEF taken, rest
<1>7. /\ batch_ \in Seq(Events) /\ Len(batch_) = 1 + n
      /\ \A i \in 1..1 + n : batch_[i] = IF i <= 1 THEN b[i] ELSE taken[i - 1]
    <2>1. taken \in Seq(Events) /\ Len(taken) = n  BY <1>5
    <2>2. /\ b \o taken \in Seq(Events) /\ Len(b \o taken) = Len(b) + Len(taken)
          /\ \A i \in 1..Len(b) + Len(taken) :
                (b \o taken)[i] = IF i <= Len(b) THEN b[i] ELSE taken[i - Len(b)]
        BY <2>1, ConcatProperties
    <2> HIDE DEF batch_
    <2>3. QED  BY <2>1, <2>2 DEF batch_
<1>8. b[1] = Head(b)  OBVIOUS
<1>9. \A i \in 1..Len(batch_) : TypeOf(batch_[i]) = TypeOf(Head(b))
    <2> TAKE i \in 1..Len(batch_)
    <2>1. CASE i <= 1
        <3>1. i = 1  BY <2>1, <1>7, <1>2
        <3>2. batch_[i] = b[1]  BY <3>1, <1>7, <1>2
        <3>3. QED  BY <3>2, <1>8
    <2>2. CASE ~(i <= 1)
        <3>1. i - 1 \in 1..n /\ batch_[i] = taken[i - 1]  BY <2>2, <1>7, <1>2
        <3>2. batch_[i] = q[i - 1]  BY <3>1, <1>6
        <3>3. QED  BY <3>1, <3>2, <1>4
    <2>3. QED  BY <2>1, <2>2
<1>10. Head(batch_) = Head(b)
    <2>1. batch_[1] = b[1] /\ Len(batch_) > 0  BY <1>7, <1>2
    <2>2. Head(batch_) = batch_[1]  BY <2>1, <1>7
    <2>3. QED  BY <2>1, <2>2, <1>8
<1>11. /\ queue_ \in Seq(Events) /\ Len(queue_) = Len(rest)
       /\ \A x : Count(queue_, x) = Count(rest, x)
    <2>1. CASE rest # <<>> /\ Len(b) + n < max_batch_size
        <3>1. queue_ = Append(Tail(rest), Head(rest))  BY <2>1
        <3>2. /\ Head(rest) \in Events /\ Tail(rest) \in Seq(Events)
              /\ Len(Tail(rest)) = Len(rest) - 1
            BY <2>1, <1>5, HeadTailProperties
        <3>3. /\ queue_ \in Seq(Events) /\ Len(queue_) = Len(Tail(rest)) + 1
            BY <3>1, <3>2, AppendProperties
        <3>4. Len(rest) \in Nat  BY <1>5, LenProperties
        <3>5. ASSUME NEW x PROVE Count(queue_, x) = Count(rest, x)
            <4>1. Count(queue_, x) = Count(Tail(rest), x) + (IF Head(rest) = x THEN 1 ELSE 0)
                <5> DEFINE h == Head(rest)
                           t == Tail(rest)
                <5> HIDE DEF h, t
                <5>1. Count(Append(t, h), x) = Count(t, x) + (IF h = x THEN 1 ELSE 0)
                    <6>1. h \in Events /\ t \in Seq(Events)  BY <3>2 DEF h, t
                    <6>2. QED  BY <6>1, CountAppend
                <5>2. queue_ = Append(t, h)  BY <3>1 DEF h, t
                <5>3. Count(queue_, x) = Count(t, x) + (IF h = x THEN 1 ELSE 0)
                    BY <5>1, <5>2, Zenon
                <5>4. QED  BY <5>3 DEF h, t
            <4>2. Count(rest, x) = (IF Head(rest) = x THEN 1 ELSE 0) + Count(Tail(rest), x)
                BY <2>1, <1>5, CountTail
            <4>3. Count(Tail(rest), x) \in Nat  BY <3>2, CountType
            <4>4. QED  BY <4>1, <4>2, <4>3
        <3>6. QED  BY <3>2, <3>3, <3>4, <3>5
    <2>2. CASE ~(rest # <<>> /\ Len(b) + n < max_batch_size)
        BY <2>2, <1>5
    <2>3. QED  BY <2>1, <2>2
<1>12. ASSUME NEW x
       PROVE  Count(batch_, x) + Count(queue_, x) = Count(b, x) + Count(q, x)
    <2>1. Count(batch_, x) = Count(b, x) + Count(taken, x)
        BY <1>5, CountConcat
    <2>2. /\ Count(b, x) \in Nat /\ Count(taken, x) \in Nat /\ Count(rest, x) \in Nat
        BY <1>5, CountType
    <2> HIDE DEF batch_, queue_
    <2>3. QED  BY <2>1, <2>2, <1>5, <1>11
<1>13. Len(batch_) \in 1..max_batch_size /\ Len(queue_) <= Len(q)
    BY <1>0, <1>2, <1>4, <1>5, <1>7, <1>11
<1> HIDE DEF batch_, queue_
<1>14. QED  BY <1>3, <1>7, <1>9, <1>10, <1>11, <1>12, <1>13
-----------------------------------------------------------------------------
(* The inductive invariant *)

Of(p) == {e \in Accepted : PriorityOf(e) = p}

\* The members of E stand in a sequence in the order of their numbers.
InOrder(s, E) ==
    \A i, j \in 1..Len(s) : i < j /\ s[i] \in E /\ s[j] \in E => s[i] < s[j]

\* All that the events of a priority pass through, from the far end.
Journey(p) == settled \o (current \o (asyncQ[p] \o (hand[p] \o threadQ[p])))

\* Where the processor is when it carries or delivers something.
Control ==
    /\ pc # "deliver" => current = <<>>
    /\ pc \in {"normal", "second", "low"} => batch = <<>>
    /\ pc = "deliver" /\ after = "second" => batch = <<>>
    /\ phase \in {"new", "stopped"} => pc = "off"

\* What the queues hold: events of their priority, and summaries only where
\* the processor takes single events out.
Sorted ==
    /\ \A p \in Priority, e \in Events : Queued(p, e) > 0 => PriorityOf(e) = p
    /\ \A e \in Events : Count(batch, e) > 0 => PriorityOf(e) = "normal"
    /\ Queued("normal", Summary) = 0
    /\ Count(current, Summary) > 0 => current = <<Summary>>

\* A subscriber that handled an event is not called with it again: the event
\* is under delivery, and its call done, or its delivery is over.
Handling ==
    /\ \A i, j \in 1..Len(pending) : i # j => pending[i] # pending[j]
    /\ \A s \in Subs, e \in Events :
         /\ handled[s][e] <= 1
         /\ handled[s][e] = 1 => Count(current, e) + Count(settled, e) + Member(lost, e) > 0
         /\ handled[s][e] = 1 /\ Count(current, e) > 0 =>
              \A i \in 1..Len(pending) : pending[i] # s

\* High- and low-priority events keep their order on the whole way.
Ordered == \A p \in {"high", "low"} : InOrder(Journey(p), Of(p))

IInv ==
    /\ TypeOK /\ ExactlyOnePlace /\ Control /\ Sorted
    /\ Handling /\ OneTypePerBatch /\ Ordered
-----------------------------------------------------------------------------
(* Facts about a single state *)

\* What the constants are.
LEMMA Numbers ==
    /\ max_batch_size \in Nat \ {0} /\ max_retries \in Nat
    /\ MaxEvents \in Nat /\ MaxStops \in Nat
    /\ Events \subseteq Items /\ Events \subseteq Nat /\ Items \subseteq Nat
    /\ Summary \in Items /\ Summary \notin Events
    /\ \A x \in Items : x # Summary => x \in Events
    /\ \A p \in Priority : Capacity[p] \in Nat \ {0}
BY BoundsAssumption DEF Events, Items, Summary

\* What a priority's queues hold, and how much.
LEMMA Lengths ==
    ASSUME TypeOK, NEW p \in Priority
    PROVE  /\ threadQ[p] \in Seq(Items) /\ hand[p] \in Seq(Items)
           /\ asyncQ[p] \in Seq(Items)
           /\ Len(threadQ[p]) \in Nat /\ Len(threadQ[p]) <= Capacity[p]
           /\ Len(asyncQ[p]) \in Nat /\ Len(asyncQ[p]) <= Capacity[p]
           /\ Len(hand[p]) \in Nat /\ Len(hand[p]) <= 1
<1>1. threadQ[p] \in Seq(Items) /\ hand[p] \in Seq(Items) /\ asyncQ[p] \in Seq(Items)
    BY DEF TypeOK
<1>2. Len(threadQ[p]) \in Nat /\ Len(hand[p]) \in Nat /\ Len(asyncQ[p]) \in Nat
    BY <1>1, LenProperties
<1>3. Len(threadQ[p]) <= Capacity[p] /\ Len(asyncQ[p]) <= Capacity[p] /\ Len(hand[p]) <= 1
    BY DEF TypeOK
<1>4. QED  BY <1>1, <1>2, <1>3

\* Everything that is counted is counted by a natural number.
LEMMA CountsTyped ==
    ASSUME TypeOK, NEW x
    PROVE  /\ \A p \in Priority :
                 /\ Count(threadQ[p], x) \in Nat /\ Count(hand[p], x) \in Nat
                 /\ Count(asyncQ[p], x) \in Nat /\ Queued(p, x) \in Nat
           /\ Count(batch, x) \in Nat /\ Count(current, x) \in Nat
           /\ Count(settled, x) \in Nat /\ Processed(x) \in Nat
           /\ \A S : Member(S, x) \in {0, 1}
           /\ Apart(x) \in Nat
<1>1. \A p \in Priority :
        /\ Count(threadQ[p], x) \in Nat /\ Count(hand[p], x) \in Nat
        /\ Count(asyncQ[p], x) \in Nat
    <2> TAKE p \in Priority
    <2>1. threadQ[p] \in Seq(Items) /\ hand[p] \in Seq(Items) /\ asyncQ[p] \in Seq(Items)
        BY DEF TypeOK
    <2>2. QED  BY <2>1, CountType
<1>2. /\ Count(batch, x) \in Nat /\ Count(current, x) \in Nat
      /\ Count(settled, x) \in Nat
    <2>1. batch \in Seq(Events) /\ current \in Seq(Items) /\ settled \in Seq(Events)
        BY DEF TypeOK
    <2>2. QED  BY <2>1, CountType
<1>3. \A S : Member(S, x) \in {0, 1}  BY DEF Member
<1>4. QED  BY <1>1, <1>2, <1>3 DEF Queued, Processed, Apart

\* What is counted in a priority's queues is counted in their three parts.
LEMMA QueuedParts ==
    ASSUME TypeOK, NEW p \in Priority, NEW x
    PROVE  /\ Count(threadQ[p], x) \in Nat /\ Count(hand[p], x) \in Nat
           /\ Count(asyncQ[p], x) \in Nat /\ Queued(p, x) \in Nat
           /\ Queued(p, x) = Count(threadQ[p], x) + Count(hand[p], x) + Count(asyncQ[p], x)
           /\ Queued(p, x) >= Count(asyncQ[p], x)
BY CountsTyped DEF Queued

\* What is on its way or under delivery has been accepted.
LEMMA OnTheWayAccepted ==
    ASSUME TypeOK, ExactlyOnePlace, NEW e \in Events,
           \/ \E p \in Priority : Queued(p, e) > 0
           \/ Processed(e) > 0 \/ Apart(e) > 0
    PROVE  e \in Accepted
<1>1. Occurrences(e) > 0
    BY CountsTyped DEF Occurrences, Priority
<1>2. QED  BY <1>1 DEF ExactlyOnePlace

\* An element of a sequence is counted there.
LEMMA ElementCounted ==
    ASSUME NEW S, NEW s \in Seq(S), NEW i \in 1..Len(s)
    PROVE  Count(s, s[i]) > 0
<1>1. Count(s, s[i]) # 0  BY CountZero
<1>2. Count(s, s[i]) \in Nat  BY CountType
<1>3. QED  BY <1>1, <1>2

\* The head of a sequence stands in it.
LEMMA HeadCounted ==
    ASSUME NEW S, NEW s \in Seq(S), s # <<>>
    PROVE  Count(s, Head(s)) > 0
<1>1. 1 \in 1..Len(s) /\ Head(s) = s[1]  BY EmptySeq
<1>2. QED  BY <1>1, ElementCounted

\* An accepted event has a type and a priority.
LEMMA AcceptedKinds ==
    ASSUME TypeOK, NEW e \in Accepted
    PROVE  e \in Events /\ TypeOf(e) \in Types /\ PriorityOf(e) \in Priority
<1>1. accepted \in Seq(Kinds) /\ Len(accepted) <= MaxEvents  BY DEF TypeOK
<1>2. e \in 1..Len(accepted) /\ Len(accepted) \in Nat
    BY <1>1, LenProperties DEF Accepted
<1>3. accepted[e] \in Kinds  BY <1>1, <1>2, ElementOfSeq
<1>4. QED  BY <1>1, <1>2, <1>3, Numbers, KindsAssumption DEF Events, TypeOf, PriorityOf

\* A delivery calls each subscriber of a copy once.
LEMMA DeliverCalls ==
    ASSUME TypeOK, ExactlyOnePlace, NEW events \in Seq(Items), events # <<>>,
           Head(events) = Summary \/ Head(events) \in Accepted,
           NEW next, Deliver(events, next)
    PROVE  /\ pending' \in Seq(Subs)
           /\ \A i, j \in 1..Len(pending') : i # j => pending'[i] # pending'[j]
           /\ current' = events /\ attempt' = 0 /\ pc' = "deliver" /\ after' = next
<1> DEFINE subs == IF Head(events) = Summary THEN {} ELSE subscribers[TypeOf(Head(events))]
<1>1. subs \subseteq Subs
    BY AcceptedKinds DEF TypeOK
<1>2. IsFiniteSet(subs)  BY <1>1, KindsAssumption, FS_Subset
<1>3. Cardinality(subs) \in Nat  BY <1>2, FS_CardinalityType
<1>4. pending' \in SetToSeqs(subs)  BY DEF Deliver
<1> HIDE DEF subs
<1>5. /\ pending' \in [1..Cardinality(subs) -> subs]
      /\ \A i, j \in 1..Cardinality(subs) : i # j => pending'[i] # pending'[j]
    BY <1>4 DEF SetToSeqs
<1>6. pending' \in Seq(Subs) /\ Len(pending') = Cardinality(subs)
    BY <1>1, <1>3, <1>5
<1>7. QED  BY <1>5, <1>6 DEF Deliver
-----------------------------------------------------------------------------
(* Flushing the buffer *)

\* A finite set has finite images.
LEMMA ImageFinite ==
    ASSUME NEW X, IsFiniteSet(X), NEW f
    PROVE  IsFiniteSet({f[x] : x \in X})
<1> DEFINE Y == {f[x] : x \in X}
           g == [x \in X |-> f[x]]
<1>1. g \in Surjection(X, Y)  BY DEF Surjection
<1> HIDE DEF g, Y
<1>2. IsFiniteSet(Y)  BY <1>1, FS_Surjection
<1>3. QED  BY <1>2 DEF Y

\* The summaries of the types kept fit into the queue.  Each of these types
\* has a first event; when the latest of them arrived all the others were
\* there, so that the rank of its type counts them.  The other effects of a
\* flush move the buffered events to one of two places.
LEMMA FlushProperties ==
    ASSUME TypeOK, NEW events \in SUBSET Events, Flush(events)
    PROVE  /\ buffer' = {}
           /\ \E kept \in SUBSET events :
                summarised' = summarised \union kept /\ lost' = lost \union (events \ kept)
           /\ \E z \in Seq({Summary}) :
                /\ threadQ' = [threadQ EXCEPT !["low"] = threadQ["low"] \o z]
                /\ Len(threadQ["low"]) + Len(z) <= Capacity["low"]
<1> DEFINE type(e) == accepted'[e].type
           arrived(t) == {e \in events : \A f \in events : type(f) = t => e <= f}
           rank(t) == Cardinality({type(e) : e \in arrived(t)})
           free == Capacity["low"] - Len(threadQ["low"])
           kept == {e \in events : rank(type(e)) <= free}
           keptTypes == {type(e) : e \in kept}
           z == [n \in 1..Cardinality(keptTypes) |-> Summary]
           typeOf == [e \in Events |-> type(e)]
<1>1. /\ threadQ' = [threadQ EXCEPT !["low"] = threadQ["low"] \o z]
      /\ summarised' = summarised \union kept
      /\ lost' = lost \union (events \ kept)
      /\ buffer' = {}
    BY DEF Flush
<1>2. free \in Nat
    BY Numbers, Lengths DEF Priority
<1> HIDE DEF free
<1>3. IsFiniteSet(events)
    <2>1. IsFiniteSet(1..MaxEvents)  BY Numbers, FS_Interval
    <2>2. QED  BY <2>1, FS_Subset DEF Events
<1>4. ASSUME NEW X \in SUBSET events
      PROVE  IsFiniteSet({type(e) : e \in X}) /\ Cardinality({type(e) : e \in X}) \in Nat
    <2>1. IsFiniteSet(X)  BY <1>3, FS_Subset
    <2>2. IsFiniteSet({typeOf[e] : e \in X})  BY <2>1, ImageFinite
    <2>3. {typeOf[e] : e \in X} = {type(e) : e \in X}  OBVIOUS
    <2>4. IsFiniteSet({type(e) : e \in X})  BY <2>2, <2>3
    <2>5. QED  BY <2>4, FS_CardinalityType
<1>5. kept \in SUBSET events  OBVIOUS
<1>6. IsFiniteSet(keptTypes) /\ Cardinality(keptTypes) \in Nat
    BY <1>4, <1>5
<1>7. Cardinality(keptTypes) <= free
    <2>1. CASE keptTypes = {}
        <3> HIDE DEF keptTypes
        <3> QED  BY <2>1, <1>2, FS_EmptySet
    <2>2. CASE keptTypes # {}
        <3> DEFINE firsts == {e \in kept : \A f \in events : type(f) = type(e) => e <= f}
        <3>1. ASSUME NEW t \in keptTypes
              PROVE  \E e \in firsts : type(e) = t
            <4> DEFINE same == {e \in events : type(e) = t}
            <4>1. same \in SUBSET Nat /\ same # {}  BY Numbers
            <4>2. PICK l \in same : \A f \in same : l <= f
                <5> HIDE DEF same
                <5> QED  BY <4>1, Least
            <4>3. l \in kept
                <5>1. PICK k \in kept : type(k) = t  OBVIOUS
                <5>2. rank(type(k)) <= free /\ type(l) = type(k)  BY <5>1
                <5> HIDE DEF rank
                <5>3. QED  BY <5>2
            <4>4. l \in firsts
                <5> HIDE DEF kept
                <5> QED  BY <4>2, <4>3
            <4>5. QED  BY <4>2, <4>4
        <3>2. PICK g \in firsts : \A f \in firsts : f <= g
            <4>1. firsts \in SUBSET Nat /\ \A f \in firsts : f <= MaxEvents
                <5>1. firsts \subseteq Events  OBVIOUS
                <5> HIDE DEF firsts
                <5>2. QED  BY <5>1, Numbers DEF Events
            <4>2. firsts # {}  BY <2>2, <3>1
            <4> HIDE DEF firsts
            <4>3. QED  BY <4>1, <4>2, Numbers, Greatest
        <3> DEFINE there == {type(e) : e \in arrived(type(g))}
        <3>3. keptTypes \subseteq there
            <4> SUFFICES ASSUME NEW t \in keptTypes PROVE t \in there
                BY Zenon
            <4>1. PICK e \in firsts : type(e) = t  BY <3>1
            <4>2. e <= g  BY <3>2
            <4>3. g \in Nat /\ e \in Nat /\ \A f \in events : f \in Nat  BY Numbers
            <4>4. ASSUME NEW f \in events, type(f) = type(g) PROVE e <= f
                <5>1. g <= f  BY <4>4
                <5>2. QED  BY <5>1, <4>2, <4>3
            <4>5. e \in arrived(type(g))  BY <4>4
            <4>6. QED  BY <4>1, <4>5
        <3>4. arrived(type(g)) \in SUBSET events  OBVIOUS
        <3>5. IsFiniteSet(there) /\ Cardinality(there) \in Nat
            <4> HIDE DEF arrived
            <4> QED  BY <3>4, <1>4
        <3>6. Cardinality(keptTypes) <= Cardinality(there)
            <4> HIDE DEF keptTypes, there
            <4> QED  BY <3>3, <3>5, FS_Subset
        <3>7. Cardinality(there) <= free
            <4>1. rank(type(g)) <= free
                <5> HIDE DEF rank
                <5> QED  OBVIOUS
            <4>2. QED  BY <4>1
        <3> HIDE DEF keptTypes, there
        <3>8. QED  BY <3>5, <3>6, <3>7, <1>2, <1>6
    <2>3. QED  BY <2>1, <2>2
<1>8. z \in Seq({Summary}) /\ Len(z) = Cardinality(keptTypes)
    <2> HIDE DEF keptTypes
    <2> QED  BY <1>6
<1>9. Len(threadQ["low"]) + Len(z) <= Capacity["low"]
    <2>1. Len(threadQ["low"]) \in Nat /\ Capacity["low"] \in Nat
        BY Numbers, Lengths DEF Priority
    <2> HIDE DEF z, keptTypes
    <2>2. QED  BY <1>6, <1>7, <1>8, <2>1 DEF free
<1> HIDE DEF z, kept
<1>10. QED  BY <1>1, <1>5, <1>8, <1>9
-----------------------------------------------------------------------------
(* Types *)

\* What the first element of a queue is.
LEMMA HeadOfQueue ==
    ASSUME IInv, NEW p \in Priority, asyncQ[p] # <<>>
    PROVE  /\ Head(asyncQ[p]) \in Items /\ Tail(asyncQ[p]) \in Seq(Items)
           /\ Len(Tail(asyncQ[p])) = Len(asyncQ[p]) - 1
           /\ \A x : Count(asyncQ[p], x)
                       = (IF Head(asyncQ[p]) = x THEN 1 ELSE 0) + Count(Tail(asyncQ[p]), x)
           /\ Head(asyncQ[p]) # Summary =>
                Head(asyncQ[p]) \in Accepted /\ PriorityOf(Head(asyncQ[p])) = p
           /\ p = "normal" =>
                /\ Head(asyncQ[p]) \in Events
                /\ asyncQ[p] \in Seq(Events) /\ Tail(asyncQ[p]) \in Seq(Events)
<1> DEFINE q == asyncQ[p]
<1>1. q \in Seq(Items)  BY Lengths DEF IInv
<1> HIDE DEF q
<1>2. q # <<>>  BY DEF q
<1>3. /\ Head(q) \in Items /\ Tail(q) \in Seq(Items) /\ Len(Tail(q)) = Len(q) - 1
    BY <1>1, <1>2, HeadTailProperties
<1>4. \A x : Count(q, x) = (IF Head(q) = x THEN 1 ELSE 0) + Count(Tail(q), x)
    BY <1>1, <1>2, CountTail
<1>5. Count(q, Head(q)) > 0  BY <1>1, <1>2, HeadCounted
<1> TypeOK  BY DEF IInv
<1>counts. ASSUME NEW x
      PROVE  /\ Count(threadQ[p], x) \in Nat /\ Count(hand[p], x) \in Nat
             /\ Count(q, x) \in Nat
             /\ Queued(p, x) = Count(threadQ[p], x) + Count(hand[p], x) + Count(q, x)
    BY CountsTyped DEF Queued, q
<1>6. Head(q) # Summary => Head(q) \in Accepted /\ PriorityOf(Head(q)) = p
    <2> SUFFICES ASSUME Head(q) # Summary
                 PROVE  Head(q) \in Accepted /\ PriorityOf(Head(q)) = p
        OBVIOUS
    <2>1. Head(q) \in Events  BY <1>3, Numbers
    <2>2. Queued(p, Head(q)) > 0
        BY <1>5, <1>counts
    <2>3. QED  BY <2>1, <2>2, OnTheWayAccepted DEF IInv, Sorted
<1>7. p = "normal" => /\ Head(q) \in Events /\ q \in Seq(Events) /\ Tail(q) \in Seq(Events)
    <2> SUFFICES ASSUME p = "normal"
                 PROVE  Head(q) \in Events /\ q \in Seq(Events) /\ Tail(q) \in Seq(Events)
        OBVIOUS
    <2>1. Queued(p, Summary) = 0  BY DEF IInv, Sorted
    <2>2. Count(q, Summary) = 0  BY <2>1, <1>counts
    <2>3. q \in Seq(Events)  BY <1>1, <2>2, NoSummary
    <2>4. QED  BY <2>3, <1>2, HeadTailProperties
<1>8. QED  BY <1>1, <1>3, <1>4, <1>6, <1>7, Zenon DEF q

\* A batch that is carried holds one normal event.
LEMMA CarriedEvent ==
    ASSUME IInv, batch # <<>>
    PROVE  /\ batch \in Seq(Events) /\ Len(batch) = 1 /\ Head(batch) = batch[1]
           /\ Head(batch) \in Accepted /\ PriorityOf(Head(batch)) = "normal"
           /\ \A x : Count(batch, x) = IF x = Head(batch) THEN 1 ELSE 0
<1>1. batch \in Seq(Events) /\ Len(batch) <= 1  BY DEF IInv, TypeOK
<1>2. Len(batch) = 1 /\ Head(batch) = batch[1] /\ batch[1] \in Events
    <2>1. Len(batch) \in Nat \ {0}  BY <1>1, EmptySeq
    <2>2. Len(batch) = 1
        <3> DEFINE n == Len(batch)
        <3>1. n \in Nat \ {0} /\ n <= 1  BY <1>1, <2>1
        <3> HIDE DEF n
        <3>2. n = 1  BY <3>1
        <3>3. QED  BY <3>2 DEF n
    <2>3. QED  BY <1>1, <2>2, ElementOfSeq
<1>3. batch = <<Head(batch)>>
    <2>1. <<Head(batch)>> \in Seq(Events) /\ Len(<<Head(batch)>>) = 1  BY <1>2
    <2>2. \A i \in 1..Len(batch) : batch[i] = <<Head(batch)>>[i]  BY <1>2
    <2>3. QED  BY <1>1, <1>2, <2>1, <2>2, SeqEqual
<1> DEFINE h == Head(batch)
<1> HIDE DEF h
<1>4. batch = <<h>>  BY <1>3 DEF h
<1>5. \A x : Count(batch, x) = IF x = h THEN 1 ELSE 0
    <2>1. \A x : Count(<<h>>, x) = IF h = x THEN 1 ELSE 0  BY CountOne
    <2>2. QED  BY <1>4, <2>1, Zenon
<1>6. h \in Accepted /\ PriorityOf(h) = "normal"
    <2>1. h \in Events /\ Count(batch, h) > 0  BY <1>2, <1>5 DEF h
    <2>2. TypeOK  BY DEF IInv
    <2>3. Processed(h) > 0  BY <2>1, <2>2, CountsTyped DEF Processed
    <2>4. QED  BY <2>1, <2>2, <2>3, OnTheWayAccepted DEF IInv, Sorted
<1>7. QED  BY <1>1, <1>2, <1>5, <1>6 DEF h


\* The type invariant in parts: a step disturbs few of them.
IntakeTyped == accepted \in Seq(Kinds) /\ Len(accepted) <= MaxEvents /\ buffer \subseteq Events
Fits(q, p, s) == s \in Seq(Items) /\ Len(s) <= Capacity[p]
QueueTyped(q) ==
    q \in [Priority -> Seq(Items)] /\ \A p \in Priority : Len(q[p]) <= Capacity[p]
HandTyped == hand \in [Priority -> Seq(Items)] /\ \A p \in Priority : Len(hand[p]) <= 1
PlaceTyped ==
    /\ pc \in {"off", "high", "normal", "second", "low", "deliver", "ended"}
    /\ after \in {"off", "high", "second", "ended"}
BatchTyped == batch \in Seq(Events) /\ Len(batch) <= 1
DeliveryTyped ==
    /\ current \in Seq(Items) /\ Len(current) <= max_batch_size
    /\ pending \in Seq(Subs) /\ attempt \in 0..max_retries
ControlTyped ==
    /\ phase \in {"new", "running", "stopping", "stopped"}
    /\ stops \in 0..MaxStops
    /\ subscribers \in [Types -> SUBSET Subs]
DropTyped == summarised \subseteq Events /\ lost \subseteq Events
DoneTyped == handled \in [Subs -> [Events -> Nat]] /\ settled \in Seq(Events)

Typed == /\ IntakeTyped /\ QueueTyped(threadQ) /\ QueueTyped(asyncQ) /\ HandTyped
         /\ PlaceTyped /\ BatchTyped /\ DeliveryTyped /\ ControlTyped /\ DropTyped /\ DoneTyped

\* The type invariant is the sum of its parts.
LEMMA TypeParts == TypeOK <=> Typed
BY DEF TypeOK, Typed, IntakeTyped, QueueTyped, HandTyped, PlaceTyped, BatchTyped,
       DeliveryTyped, ControlTyped, DropTyped, DoneTyped

\* A queue that is replaced by one that fits leaves the queues typed.
LEMMA QueueChanged ==
    ASSUME NEW q, QueueTyped(q), NEW p \in Priority,
           NEW s \in Seq(Items), Len(s) <= Capacity[p]
    PROVE  QueueTyped([q EXCEPT ![p] = s])
BY DEF QueueTyped

\* A set of steps that change nothing of a part keep its type.
LEMMA PartsUnchanged ==
    /\ Typed /\ UNCHANGED intake => IntakeTyped'
    /\ Typed /\ UNCHANGED threadQ => QueueTyped(threadQ)'
    /\ Typed /\ UNCHANGED asyncQ => QueueTyped(asyncQ)'
    /\ Typed /\ UNCHANGED hand => HandTyped'
    /\ Typed /\ UNCHANGED <<pc, after>> => PlaceTyped'
    /\ Typed /\ UNCHANGED batch => BatchTyped'
    /\ Typed /\ UNCHANGED <<current, pending, attempt>> => DeliveryTyped'
    /\ Typed /\ UNCHANGED control => ControlTyped'
    /\ Typed /\ UNCHANGED <<summarised, lost>> => DropTyped'
    /\ Typed /\ UNCHANGED <<handled, settled>> => DoneTyped'
BY DEF Typed, IntakeTyped, QueueTyped, HandTyped, PlaceTyped, BatchTyped,
       DeliveryTyped, ControlTyped, DropTyped, DoneTyped, intake, control

\* Flushing the buffer keeps the types of what it touches.
LEMMA FlushTyped ==
    ASSUME Typed, NEW events \in SUBSET Events, Flush(events)
    PROVE  QueueTyped(threadQ)' /\ DropTyped' /\ buffer' = {}
<1>1. TypeOK  BY TypeParts
<1>2. "low" \in Priority  BY DEF Priority
<1>3. PICK z \in Seq({Summary}) :
        /\ threadQ' = [threadQ EXCEPT !["low"] = threadQ["low"] \o z]
        /\ Len(threadQ["low"]) + Len(z) <= Capacity["low"]
    BY <1>1, FlushProperties
<1>4. threadQ["low"] \in Seq(Items)  BY <1>1, <1>2, Lengths
<1>5. z \in Seq(Items)  BY Numbers, SeqMonotonic
<1> DEFINE s == threadQ["low"] \o z
<1>6. s \in Seq(Items) /\ Len(s) = Len(threadQ["low"]) + Len(z)
    BY <1>4, <1>5, ConcatProperties
<1>7. threadQ' = [threadQ EXCEPT !["low"] = s] /\ Len(s) <= Capacity["low"]
    BY <1>3, <1>6
<1> HIDE DEF s
<1>8. QueueTyped(threadQ)'  BY <1>2, <1>6, <1>7, QueueChanged DEF Typed
<1>9. PICK kept \in SUBSET events :
        summarised' = summarised \union kept /\ lost' = lost \union (events \ kept)
    BY <1>1, FlushProperties
<1>10. DropTyped'  BY <1>9 DEF Typed, DropTyped
<1>11. QED  BY <1>1, <1>8, <1>10, FlushProperties

\* An event that goes to the queue keeps the types.
LEMMA EmitQueuedTyped ==
    ASSUME IInv, Typed, NEW kind \in Kinds, EmitQueued(kind) PROVE Typed'
<1> DEFINE p == kind.priority
<1>1. p \in Priority  BY KindsAssumption
<1>2. Len(accepted) \in Nat /\ accepted \in Seq(Kinds)
    BY LenProperties DEF Typed, IntakeTyped
<1>3. /\ accepted' \in Seq(Kinds) /\ Len(accepted') = Len(accepted) + 1
      /\ Len(accepted) < MaxEvents
    BY <1>2, AppendProperties DEF EmitQueued, Accept
<1>4. IntakeTyped'
    BY <1>2, <1>3, Numbers DEF EmitQueued, IntakeTyped, Typed
<1>5. Len(accepted') \in Items  BY <1>2, <1>3, Numbers DEF Items
<1> HIDE DEF p
<1>6. threadQ[p] \in Seq(Items) /\ Len(threadQ[p]) \in Nat
    BY <1>1, Lengths DEF IInv
<1> DEFINE s == Append(threadQ[p], Len(accepted'))
<1>7. s \in Seq(Items) /\ Len(s) = Len(threadQ[p]) + 1
    BY <1>5, <1>6, AppendProperties
<1>8. threadQ' = [threadQ EXCEPT ![p] = s] /\ Len(threadQ[p]) < Capacity[p]
    BY DEF EmitQueued, p
<1>9. Len(s) <= Capacity[p]
    BY <1>1, <1>6, <1>7, <1>8, Numbers
<1> HIDE DEF s
<1>10. QueueTyped(threadQ)'
    BY <1>1, <1>7, <1>8, <1>9, QueueChanged DEF Typed
<1>11. UNCHANGED <<hand, asyncQ, processor, control, history>>  BY DEF EmitQueued
<1>12. QED
    BY <1>4, <1>10, <1>11, PartsUnchanged DEF Typed, processor, history

\* An event that goes to the buffer keeps the types.
LEMMA EmitBufferedTyped ==
    ASSUME IInv, Typed, NEW kind \in Kinds, EmitBuffered(kind) PROVE Typed'
<1> DEFINE waiting == buffer \union {Len(accepted) + 1}
<1>1. Len(accepted) \in Nat /\ accepted \in Seq(Kinds)
    BY LenProperties DEF Typed, IntakeTyped
<1>2. /\ accepted' \in Seq(Kinds) /\ Len(accepted') = Len(accepted) + 1
      /\ Len(accepted) < MaxEvents
    BY <1>1, AppendProperties DEF EmitBuffered, Accept
<1>3. Len(accepted') <= MaxEvents  BY <1>1, <1>2, Numbers
<1>4. waiting \in SUBSET Events
    <2>1. Len(accepted) + 1 \in Events  BY <1>1, <1>2, Numbers DEF Events
    <2>2. QED  BY <2>1 DEF Typed, IntakeTyped
<1>5. UNCHANGED <<hand, asyncQ, processor, control, handled, settled>>
    BY DEF EmitBuffered
<1> HIDE DEF waiting
<1>6. CASE Flush(waiting)
    <2>1. QueueTyped(threadQ)' /\ DropTyped' /\ buffer' = {}
        BY <1>4, <1>6, FlushTyped
    <2>2. IntakeTyped'  BY <1>2, <1>3, <2>1 DEF IntakeTyped
    <2>3. QED
        BY <1>5, <2>1, <2>2, PartsUnchanged DEF Typed, processor
<1>7. CASE buffer' = waiting /\ UNCHANGED <<threadQ, summarised, lost>>
    <2>1. IntakeTyped'  BY <1>2, <1>3, <1>4, <1>7 DEF IntakeTyped
    <2>2. QED  BY <1>5, <1>7, <2>1, PartsUnchanged DEF Typed, processor
<1>8. QED  BY <1>6, <1>7 DEF EmitBuffered, waiting

\* What the bridge carries over keeps the types.
LEMMA BridgeTyped ==
    ASSUME IInv, Typed, NEW p \in Priority, Bridge(p) PROVE Typed'
<1>0. /\ threadQ[p] \in Seq(Items) /\ hand[p] \in Seq(Items) /\ asyncQ[p] \in Seq(Items)
      /\ Len(threadQ[p]) \in Nat /\ Len(asyncQ[p]) \in Nat /\ Len(hand[p]) \in Nat
      /\ Len(threadQ[p]) <= Capacity[p] /\ Len(hand[p]) <= 1
      /\ Capacity[p] \in Nat
    BY Lengths, Numbers DEF IInv
<1>1. CASE BridgeMove(p)
    <2> DEFINE h == Head(threadQ[p])
               t == Tail(threadQ[p])
    <2>1. threadQ[p] # <<>> /\ hand[p] = <<>>  BY <1>1 DEF BridgeMove
    <2>2. h \in Items /\ t \in Seq(Items) /\ Len(t) = Len(threadQ[p]) - 1
        BY <1>0, <2>1, HeadTailProperties
    <2>3. threadQ' = [threadQ EXCEPT ![p] = t]  BY <1>1 DEF BridgeMove
    <2>4. Len(t) <= Capacity[p]  BY <1>0, <2>2
    <2>5. CASE /\ Len(asyncQ[p]) < Capacity[p]
               /\ asyncQ' = [asyncQ EXCEPT ![p] = Append(asyncQ[p], h)] /\ UNCHANGED hand
        <3> DEFINE s == Append(asyncQ[p], h)
        <3> HIDE DEF h, t
        <3>1. s \in Seq(Items) /\ Len(s) = Len(asyncQ[p]) + 1
            BY <1>0, <2>2, AppendProperties
        <3>2. Len(s) <= Capacity[p]  BY <1>0, <2>5, <3>1
        <3>3. asyncQ' = [asyncQ EXCEPT ![p] = s]  BY <2>5
        <3> HIDE DEF s
        <3>4. QueueTyped(threadQ)'  BY <2>2, <2>3, <2>4, QueueChanged DEF Typed
        <3>5. QueueTyped(asyncQ)'  BY <3>1, <3>2, <3>3, QueueChanged DEF Typed
        <3>6. UNCHANGED <<intake, processor, control, history>>  BY <1>1 DEF BridgeMove
        <3>7. QED  BY <2>5, <3>4, <3>5, <3>6, PartsUnchanged DEF Typed, processor, history
    <2>6. CASE hand' = [hand EXCEPT ![p] = <<h>>] /\ UNCHANGED asyncQ
        <3> HIDE DEF h, t
        <3>1. <<h>> \in Seq(Items) /\ Len(<<h>>) = 1  BY <2>2
        <3>2. HandTyped'  BY <2>6, <3>1 DEF Typed, HandTyped
        <3>3. QueueTyped(threadQ)'  BY <2>2, <2>3, <2>4, QueueChanged DEF Typed
        <3>4. UNCHANGED <<intake, processor, control, history>>  BY <1>1 DEF BridgeMove
        <3>5. QED  BY <2>6, <3>2, <3>3, <3>4, PartsUnchanged DEF Typed, processor, history
    <2>7. QED  BY <1>1, <2>5, <2>6 DEF BridgeMove
<1>2. CASE BridgePut(p)
    <2> DEFINE s == asyncQ[p] \o hand[p]
    <2>1. s \in Seq(Items) /\ Len(s) = Len(asyncQ[p]) + Len(hand[p])
        BY <1>0, ConcatProperties
    <2>2. Len(asyncQ[p]) < Capacity[p] /\ asyncQ' = [asyncQ EXCEPT ![p] = s]
        BY <1>2 DEF BridgePut
    <2> HIDE DEF s
    <2>3. Len(s) <= Capacity[p]
        <3> DEFINE m == Len(asyncQ[p])
                   n == Len(hand[p])
                   k == Capacity[p]
        <3>1. m \in Nat /\ n \in Nat /\ k \in Nat /\ n <= 1 /\ m < k /\ Len(s) = m + n
            BY <1>0, <2>1, <2>2
        <3> HIDE DEF m, n, k
        <3>2. Len(s) <= k  BY <3>1
        <3>3. QED  BY <3>2 DEF k
    <2>4. QueueTyped(asyncQ)'  BY <2>1, <2>2, <2>3, QueueChanged DEF Typed
    <2>5. HandTyped'  BY <1>2 DEF BridgePut, Typed, HandTyped
    <2>6. UNCHANGED <<intake, threadQ, processor, control, history>>
        BY <1>2 DEF BridgePut
    <2>7. QED  BY <2>4, <2>5, <2>6, PartsUnchanged DEF Typed, processor, history
<1>3. QED  BY <1>1, <1>2 DEF Bridge

\* A wait that ends without an event, or discards one.
LEMMA TimesOutTyped ==
    ASSUME IInv, Typed, NEW p \in Priority, TimesOut(p)
    PROVE  QueueTyped(asyncQ)' /\ lost' \subseteq Events
<1>1. CASE asyncQ[p] = <<>> /\ UNCHANGED <<asyncQ, lost>>
    BY <1>1, PartsUnchanged DEF Typed, DropTyped
<1>2. CASE Discard(p)
    <2> DEFINE h == Head(asyncQ[p])
               t == Tail(asyncQ[p])
    <2>1. h \in Items /\ t \in Seq(Items) /\ Len(t) = Len(asyncQ[p]) - 1
        BY <1>2, HeadOfQueue DEF Discard
    <2>2. Len(t) <= Capacity[p]  BY <2>1, Lengths, Numbers DEF IInv
    <2>3. asyncQ' = [asyncQ EXCEPT ![p] = t] /\ lost' = lost \union ({h} \ {Summary})
        BY <1>2 DEF Discard
    <2> HIDE DEF h, t
    <2>4. QueueTyped(asyncQ)'  BY <2>1, <2>2, <2>3, QueueChanged DEF Typed
    <2>5. {h} \ {Summary} \subseteq Events  BY <2>1, Numbers
    <2>6. QED  BY <2>3, <2>4, <2>5 DEF Typed, DropTyped
<1>3. QED  BY <1>1, <1>2 DEF TimesOut

\* Handing an event to its subscribers keeps the types.
LEMMA DeliverTyped ==
    ASSUME IInv, NEW events \in Seq(Items), events # <<>>, Len(events) <= max_batch_size,
           Head(events) = Summary \/ Head(events) \in Accepted,
           NEW next \in {"high", "second", "ended"}, Deliver(events, next)
    PROVE  DeliveryTyped' /\ PlaceTyped'
<1>1. TypeOK /\ ExactlyOnePlace  BY DEF IInv
<1>2. /\ pending' \in Seq(Subs) /\ current' = events /\ attempt' = 0
      /\ pc' = "deliver" /\ after' = next
    BY <1>1, DeliverCalls
<1>3. QED  BY <1>2, Numbers DEF DeliveryTyped, PlaceTyped

\* A single event is taken out of a queue and delivered.
LEMMA SingleTyped ==
    ASSUME IInv, Typed, NEW p \in Priority, asyncQ[p] # <<>>,
           asyncQ' = [asyncQ EXCEPT ![p] = Tail(@)],
           Deliver(<<Head(asyncQ[p])>>, "high"),
           UNCHANGED <<intake, threadQ, hand, batch, control, history>>
    PROVE  Typed'
<1> DEFINE h == Head(asyncQ[p])
           t == Tail(asyncQ[p])
<1>1. /\ h \in Items /\ t \in Seq(Items) /\ Len(t) = Len(asyncQ[p]) - 1
      /\ h = Summary \/ h \in Accepted
    BY HeadOfQueue
<1>2. Len(t) <= Capacity[p]  BY <1>1, Lengths, Numbers DEF IInv
<1>3. asyncQ' = [asyncQ EXCEPT ![p] = t] /\ Deliver(<<h>>, "high")  OBVIOUS
<1> HIDE DEF h, t
<1>4. QueueTyped(asyncQ)'
    <2>1. QueueTyped([asyncQ EXCEPT ![p] = t])  BY <1>1, <1>2, QueueChanged DEF Typed
    <2>2. QED  BY <1>3, <2>1, Zenon DEF QueueTyped
<1>5. DeliveryTyped' /\ PlaceTyped'
    <2> DEFINE one == <<h>>
    <2>1. one \in Seq(Items) /\ one # <<>> /\ Len(one) = 1 /\ Head(one) = h
        BY <1>1
    <2>2. Len(one) <= max_batch_size  BY <2>1, Numbers
    <2>3. Deliver(one, "high")  BY <1>3
    <2> HIDE DEF one
    <2>4. QED  BY <1>1, <2>1, <2>2, <2>3, DeliverTyped
<1>6. QED  BY <1>4, <1>5, PartsUnchanged DEF Typed, history

\* A batch is filled from the normal queue and delivered.
LEMMA BatchTypes ==
    ASSUME IInv, NEW b \in Seq(Events), Len(b) = 1, Head(b) \in Accepted,
           NEW q \in Seq(Events), Len(q) <= Capacity["normal"],
           Deliver(Fill(b, q).batch, "second")
    PROVE  /\ DeliveryTyped' /\ PlaceTyped'
           /\ Fill(b, q).queue \in Seq(Items)
           /\ Len(Fill(b, q).queue) <= Capacity["normal"]
<1> DEFINE f == Fill(b, q)
<1>1. /\ f.batch \in Seq(Events) /\ Len(f.batch) \in 1..max_batch_size
      /\ Head(f.batch) = Head(b)
      /\ f.queue \in Seq(Events) /\ Len(f.queue) <= Len(q)
    BY FillProperties
<1>2. Deliver(f.batch, "second")  OBVIOUS
<1> HIDE DEF f
<1>3. f.batch \in Seq(Items) /\ f.queue \in Seq(Items)
    BY <1>1, Numbers, SeqMonotonic
<1>4. f.batch # <<>> /\ Len(f.batch) <= max_batch_size
    BY <1>1, EmptySeq, Numbers
<1>5. DeliveryTyped' /\ PlaceTyped'
    BY <1>1, <1>2, <1>3, <1>4, DeliverTyped
<1>6. Len(f.queue) \in Nat /\ Len(q) \in Nat /\ Capacity["normal"] \in Nat
    BY <1>1, LenProperties, Numbers DEF Priority
<1>7. Len(f.queue) <= Capacity["normal"]  BY <1>1, <1>6
<1>8. QED  BY <1>3, <1>5, <1>7 DEF f

\* Taking a batch that was carried over keeps the types.
LEMMA CarriedBatchTyped == ASSUME IInv, Typed, CarriedBatch PROVE Typed'
<1> DEFINE q == asyncQ["normal"]
           f == Fill(batch, q).queue
<1>1. batch # <<>>  BY DEF CarriedBatch
<1>2. batch \in Seq(Events) /\ Len(batch) = 1 /\ Head(batch) \in Accepted
    BY <1>1, CarriedEvent
<1>3. q \in Seq(Events) /\ Len(q) <= Capacity["normal"]
    <2>1. q \in Seq(Items) /\ Len(q) <= Capacity["normal"]
        BY Lengths DEF IInv, Priority
    <2>2. CASE q = <<>>  BY <2>1, <2>2, EmptySeq
    <2>3. CASE q # <<>>  BY <2>1, <2>3, HeadOfQueue DEF Priority
    <2>4. QED  BY <2>2, <2>3
<1>4. batch' = <<>> /\ Deliver(Fill(batch, q).batch, "second")
    BY DEF CarriedBatch, ProcessBatch
<1>5. DeliveryTyped' /\ PlaceTyped' /\ f \in Seq(Items) /\ Len(f) <= Capacity["normal"]
    BY <1>2, <1>3, <1>4, BatchTypes
<1>6. UNCHANGED <<intake, threadQ, hand, control, handled, settled, summarised>>
    BY DEF CarriedBatch
<1>7. BatchTyped'  BY <1>4, EmptySeq DEF BatchTyped
<1>8. CASE asyncQ' = [asyncQ EXCEPT !["normal"] = f] /\ UNCHANGED lost
    <2> HIDE DEF f
    <2>1. QueueTyped(asyncQ)'
        BY <1>5, <1>8, QueueChanged DEF Typed, Priority
    <2>2. QED  BY <1>5, <1>6, <1>7, <1>8, <2>1, PartsUnchanged DEF Typed
<1>9. CASE /\ asyncQ["high"] # <<>>
           /\ asyncQ' = [asyncQ EXCEPT !["normal"] = f, !["high"] = Tail(asyncQ["high"])]
           /\ lost' = lost \union ({Head(asyncQ["high"])} \ {Summary})
    <2> DEFINE h == Head(asyncQ["high"])
               t == Tail(asyncQ["high"])
    <2>1. h \in Items /\ t \in Seq(Items) /\ Len(t) = Len(asyncQ["high"]) - 1
        BY <1>9, HeadOfQueue DEF Priority
    <2>2. Len(t) <= Capacity["high"]
        BY <2>1, Lengths, Numbers DEF IInv, Priority
    <2>3. /\ asyncQ' = [[asyncQ EXCEPT !["normal"] = f] EXCEPT !["high"] = t]
          /\ lost' = lost \union ({h} \ {Summary})
        BY <1>9
    <2> HIDE DEF h, t, f
    <2>4. QueueTyped([asyncQ EXCEPT !["normal"] = f])
        BY <1>5, QueueChanged DEF Typed, Priority
    <2> DEFINE q1 == [asyncQ EXCEPT !["normal"] = f]
    <2> HIDE DEF q1
    <2>5. QueueTyped([q1 EXCEPT !["high"] = t])
        BY <2>1, <2>2, <2>4, QueueChanged DEF Priority, q1
    <2>6. asyncQ' = [q1 EXCEPT !["high"] = t]  BY <2>3 DEF q1
    <2>7. QueueTyped(asyncQ)'  BY <2>5, <2>6, Zenon DEF QueueTyped
    <2>8. {h} \ {Summary} \subseteq Events  BY <2>1, Numbers
    <2>9. DropTyped'  BY <1>6, <2>3, <2>8 DEF Typed, DropTyped
    <2>10. QED  BY <1>5, <1>6, <1>7, <2>7, <2>9, PartsUnchanged DEF Typed
<1>10. QED  BY <1>8, <1>9 DEF CarriedBatch, ProcessBatch

\* Taking an event for a batch keeps the types.
LEMMA NormalGetTyped == ASSUME IInv, Typed, NormalGet PROVE Typed'
<1> DEFINE h == Head(asyncQ["normal"])
           t == Tail(asyncQ["normal"])
           b == <<h>>
           f == Fill(b, t)
<1>1. asyncQ["normal"] # <<>>  BY DEF NormalGet
<1>2. /\ h \in Events /\ h \in Accepted /\ t \in Seq(Events)
      /\ Len(t) = Len(asyncQ["normal"]) - 1
    BY <1>1, HeadOfQueue, Numbers DEF Priority
<1>3. Len(t) <= Capacity["normal"]
    BY <1>2, Lengths, Numbers DEF IInv, Priority
<1> HIDE DEF h, t
<1>4. b \in Seq(Events) /\ Len(b) = 1 /\ Head(b) = h  BY <1>2
<1>5. /\ batch' = <<>> /\ asyncQ' = [asyncQ EXCEPT !["normal"] = f.queue]
      /\ Deliver(f.batch, "second")
    BY DEF NormalGet, ProcessBatch, h, t
<1> HIDE DEF b
<1>6. /\ DeliveryTyped' /\ PlaceTyped'
      /\ f.queue \in Seq(Items) /\ Len(f.queue) <= Capacity["normal"]
    BY <1>2, <1>3, <1>4, <1>5, BatchTypes
<1> HIDE DEF f
<1>7. QueueTyped(asyncQ)'
    BY <1>5, <1>6, QueueChanged DEF Typed, Priority
<1>8. BatchTyped'  BY <1>5, EmptySeq DEF BatchTyped
<1>9. UNCHANGED <<intake, threadQ, hand, control, history>>  BY DEF NormalGet
<1>10. QED  BY <1>6, <1>7, <1>8, <1>9, PartsUnchanged DEF Typed, history

\* Filling the batch keeps the types.
LEMMA SecondGetTyped == ASSUME IInv, Typed, SecondGet PROVE Typed'
<1> DEFINE h == Head(asyncQ["normal"])
           t == Tail(asyncQ["normal"])
<1>1. asyncQ["normal"] # <<>>  BY DEF SecondGet
<1>2. h \in Events /\ t \in Seq(Items) /\ Len(t) = Len(asyncQ["normal"]) - 1
    BY <1>1, HeadOfQueue DEF Priority
<1>3. Len(t) <= Capacity["normal"]
    BY <1>2, Lengths, Numbers DEF IInv, Priority
<1>4. batch' = <<h>> /\ asyncQ' = [asyncQ EXCEPT !["normal"] = t] /\ pc' = Round
    BY DEF SecondGet
<1> HIDE DEF h, t
<1>5. QueueTyped(asyncQ)'
    BY <1>2, <1>3, <1>4, QueueChanged DEF Typed, Priority
<1>6. BatchTyped'  BY <1>2, <1>4 DEF BatchTyped
<1>7. UNCHANGED <<intake, threadQ, hand, after, current, pending, attempt, control, history>>
    BY DEF SecondGet
<1>8. PlaceTyped'  BY <1>4, <1>7 DEF Round, Typed, PlaceTyped
<1>9. QED  BY <1>5, <1>6, <1>7, <1>8, PartsUnchanged DEF Typed, history

\* Closing the batch keeps the types.
LEMMA FinalBatchTyped == ASSUME IInv, Typed, FinalBatch PROVE Typed'
<1>1. batch # <<>> /\ batch' = <<>> /\ Deliver(batch, "ended")  BY DEF FinalBatch
<1>2. batch \in Seq(Events) /\ Len(batch) = 1 /\ Head(batch) \in Accepted
    BY <1>1, CarriedEvent
<1>3. batch \in Seq(Items)  BY <1>2, Numbers, SeqMonotonic
<1>4. Len(batch) <= max_batch_size  BY <1>2, Numbers
<1>5. DeliveryTyped' /\ PlaceTyped'  BY <1>1, <1>2, <1>3, <1>4, DeliverTyped
<1>6. BatchTyped'  BY <1>1, EmptySeq DEF BatchTyped
<1>7. UNCHANGED <<intake, threadQ, hand, asyncQ, control, history>>  BY DEF FinalBatch
<1>8. QED  BY <1>5, <1>6, <1>7, PartsUnchanged DEF Typed, history

\* Finding nothing to take keeps the types.
LEMMA TimeoutTyped ==
    ASSUME IInv, Typed, HighTimeout \/ NormalTimeout \/ SecondTimeout \/ LowTimeout
    PROVE  Typed'
<1>1. \E p \in Priority : TimesOut(p)
    BY DEF HighTimeout, NormalTimeout, SecondTimeout, LowTimeout, Priority
<1>2. QueueTyped(asyncQ)' /\ lost' \subseteq Events  BY <1>1, TimesOutTyped
<1>3. /\ UNCHANGED <<intake, threadQ, hand, after, batch, current, pending, attempt,
                     control, handled, settled, summarised>>
      /\ pc' \in {"normal", "second", "low", "high", "ended"}
    BY DEF HighTimeout, NormalTimeout, SecondTimeout, LowTimeout, Round
<1>4. PlaceTyped' /\ DropTyped'
    BY <1>2, <1>3 DEF Typed, PlaceTyped, DropTyped
<1>5. QED  BY <1>2, <1>3, <1>4, PartsUnchanged DEF Typed

\* The end of a subscriber's call keeps the types.
LEMMA CallTyped == ASSUME IInv, Typed, CallSucceeds \/ CallFails PROVE Typed'
<1>1. pending \in Seq(Subs) /\ pending # <<>> /\ attempt \in 0..max_retries
    BY DEF Typed, DeliveryTyped, CallSucceeds, CallFails
<1>2. Head(pending) \in Subs /\ Tail(pending) \in Seq(Subs)
    BY <1>1, HeadTailProperties
<1>3. UNCHANGED <<intake, threadQ, hand, asyncQ, pc, after, batch, current, control,
                  settled, summarised, lost>>
    BY DEF CallSucceeds, CallFails, history
<1>4. pending' \in Seq(Subs) /\ attempt' \in 0..max_retries
    <2>1. max_retries \in Nat  BY Numbers
    <2>2. QED  BY <1>1, <1>2, <2>1 DEF CallSucceeds, CallFails
<1>5. DeliveryTyped'  BY <1>3, <1>4 DEF Typed, DeliveryTyped
<1>6. handled' \in [Subs -> [Events -> Nat]]
    <2>1. CASE CallFails  BY <2>1 DEF CallFails, history, Typed, DoneTyped
    <2>2. CASE CallSucceeds
        <3>1. handled \in [Subs -> [Events -> Nat]]  BY DEF Typed, DoneTyped
        <3> DEFINE g == [e \in Events |-> handled[Head(pending)][e]
                                            + (IF e \in ToSet(current) THEN 1 ELSE 0)]
        <3>2. g \in [Events -> Nat]  BY <1>2, <3>1
        <3>3. handled' = [handled EXCEPT ![Head(pending)] = g]
            BY <2>2 DEF CallSucceeds
        <3> HIDE DEF g
        <3>4. QED  BY <1>2, <3>1, <3>2, <3>3
    <2>3. QED  BY <2>1, <2>2
<1>7. DoneTyped'  BY <1>3, <1>6 DEF Typed, DoneTyped
<1>8. QED  BY <1>3, <1>5, <1>7, PartsUnchanged DEF Typed

\* What is delivered as events holds no summary.
LEMMA DeliveredEvents ==
    ASSUME IInv, current # <<Summary>>
    PROVE  current \in Seq(Events)
<1>1. current \in Seq(Items) /\ TypeOK  BY DEF IInv, TypeOK
<1>2. Count(current, Summary) \in Nat  BY <1>1, CountType
<1>3. Count(current, Summary) = 0  BY <1>2 DEF IInv, Sorted
<1>4. QED  BY <1>1, <1>3, NoSummary

\* The end of a delivery keeps the types.
LEMMA DeliveryEndsTyped == ASSUME IInv, Typed, DeliveryEnds PROVE Typed'
<1>1. settled \in Seq(Events)  BY DEF Typed, DoneTyped
<1>2. settled' \in Seq(Events)
    <2>1. CASE current = <<Summary>>  BY <1>1, <2>1 DEF DeliveryEnds
    <2>2. CASE current # <<Summary>>
        <3>1. current \in Seq(Events)  BY <2>2, DeliveredEvents
        <3>2. settled' = settled \o current  BY <2>2 DEF DeliveryEnds
        <3>3. QED  BY <1>1, <3>1, <3>2, ConcatProperties
    <2>3. QED  BY <2>1, <2>2
<1>3. /\ UNCHANGED <<intake, threadQ, hand, asyncQ, after, batch, pending, attempt, control,
                     handled, summarised, lost>>
      /\ current' = <<>> /\ pc' \in {"high", "ended", after}
    BY DEF DeliveryEnds, Round
<1>4. <<>> \in Seq(Items) /\ Len(<<>>) <= max_batch_size  BY EmptySeq, Numbers
<1>5. DeliveryTyped'  BY <1>3, <1>4 DEF Typed, DeliveryTyped
<1>6. PlaceTyped' /\ DoneTyped'  BY <1>2, <1>3 DEF Typed, PlaceTyped, DoneTyped
<1>7. QED  BY <1>3, <1>5, <1>6, PartsUnchanged DEF Typed

\* Stopping keeps the types.
LEMMA StopTyped == ASSUME IInv, Typed, Stop PROVE Typed'
<1>1. buffer \in SUBSET Events /\ Flush(buffer)
    BY DEF Typed, IntakeTyped, Stop
<1>2. QueueTyped(threadQ)' /\ DropTyped' /\ buffer' = {}  BY <1>1, FlushTyped
<1>3. /\ UNCHANGED <<hand, asyncQ, processor, subscribers, handled, settled>>
      /\ UNCHANGED accepted
      /\ stops < MaxStops /\ stops' = stops + 1 /\ phase' = "stopping"
    BY DEF Stop
<1>4. IntakeTyped'  BY <1>2, <1>3 DEF Typed, IntakeTyped
<1>5. stops' \in 0..MaxStops  BY <1>3, Numbers DEF Typed, ControlTyped
<1>6. ControlTyped'  BY <1>3, <1>5 DEF Typed, ControlTyped
<1>7. QED  BY <1>2, <1>3, <1>4, <1>6, PartsUnchanged DEF Typed, processor

\* The end of the processor's thread keeps the types.
LEMMA ThreadEndsTyped == ASSUME IInv, Typed, ThreadEnds PROVE Typed'
<1>1. /\ hand' = Empty /\ asyncQ' = Empty
      /\ batch' = <<>> /\ current' = <<>> /\ pending' = <<>> /\ attempt' = 0
      /\ pc' = "off" /\ after' = "off" /\ phase' = "stopped"
      /\ subscribers' = [t \in Types |-> {}]
      /\ UNCHANGED <<intake, threadQ, stops, handled, settled, summarised>>
    BY DEF ThreadEnds
<1>2. QueueTyped(Empty)
    BY Numbers, EmptySeq DEF QueueTyped, Empty
<1>3. QueueTyped(asyncQ)'  BY <1>1, <1>2, Zenon DEF QueueTyped
<1>4. HandTyped'
    BY <1>1, EmptySeq DEF HandTyped, Empty
<1>5. BatchTyped' /\ PlaceTyped'
    BY <1>1, EmptySeq DEF BatchTyped, PlaceTyped
<1>6. DeliveryTyped'
    BY <1>1, EmptySeq, Numbers DEF DeliveryTyped
<1>7. ControlTyped'  BY <1>1 DEF Typed, ControlTyped
<1>8. lost' \subseteq Events
    <2> DEFINE held == ToSet(batch) \union ToSet(current)
                         \union UNION {ToSet(hand[p]) \union ToSet(asyncQ[p]) : p \in Priority}
    <2>1. lost' = lost \union (held \ {Summary})  BY DEF ThreadEnds
    <2>2. ASSUME NEW r \in Seq(Items) PROVE ToSet(r) \subseteq Items
        BY LenProperties, ElementOfSeq DEF ToSet
    <2>3. \A p \in Priority : hand[p] \in Seq(Items) /\ asyncQ[p] \in Seq(Items)
        BY Lengths DEF IInv
    <2>4. batch \in Seq(Items) /\ current \in Seq(Items)
        BY Numbers, SeqMonotonic DEF Typed, BatchTyped, DeliveryTyped
    <2>5. ToSet(batch) \subseteq Items /\ ToSet(current) \subseteq Items
        BY <2>2, <2>4
    <2>6. \A p \in Priority : ToSet(hand[p]) \union ToSet(asyncQ[p]) \subseteq Items
        BY <2>2, <2>3
    <2>7. held \subseteq Items  BY <2>5, <2>6
    <2> HIDE DEF held
    <2>8. held \ {Summary} \subseteq Events  BY <2>7, Numbers
    <2>9. QED  BY <2>1, <2>8 DEF Typed, DropTyped
<1>9. DropTyped'  BY <1>1, <1>8 DEF Typed, DropTyped
<1>10. QED
    BY <1>1, <1>3, <1>4, <1>5, <1>6, <1>7, <1>9, PartsUnchanged DEF Typed

\* Starting and subscribing keep the types.
LEMMA ControlsTyped ==
    ASSUME Typed, \/ Start
                  \/ \E s \in Subs, t \in Types : Subscribe(s, t) \/ Unsubscribe(s, t)
    PROVE  Typed'
<1>1. CASE Start
    <2>1. ControlTyped' /\ PlaceTyped'
        BY <1>1 DEF Start, Typed, ControlTyped, PlaceTyped
    <2>2. UNCHANGED <<intake, threadQ, hand, asyncQ, batch, current, pending, attempt, history>>
        BY <1>1 DEF Start
    <2>3. QED  BY <2>1, <2>2, PartsUnchanged DEF Typed, history
<1>2. ASSUME NEW s \in Subs, NEW t \in Types, Subscribe(s, t) \/ Unsubscribe(s, t)
      PROVE  Typed'
    <2>1. ControlTyped'
        BY <1>2 DEF Subscribe, Unsubscribe, Typed, ControlTyped
    <2>2. UNCHANGED <<intake, threadQ, hand, asyncQ, processor, history>>
        BY <1>2 DEF Subscribe, Unsubscribe
    <2>3. QED  BY <2>1, <2>2, PartsUnchanged DEF Typed, processor, history
<1>3. QED  BY <1>1, <1>2

\* Every step keeps every variable's type.
LEMMA TypeOKStep == ASSUME IInv, [Next]_vars PROVE TypeOK'
<1> SUFFICES Typed'
    BY DEF TypeOK, Typed, IntakeTyped, QueueTyped, HandTyped, PlaceTyped,
           BatchTyped, DeliveryTyped, ControlTyped, DropTyped, DoneTyped
<1>1. Typed  BY TypeParts DEF IInv
<1>2. ASSUME NEW kind \in Kinds, Emit(kind) PROVE Typed'
    BY <1>1, <1>2, EmitQueuedTyped, EmitBufferedTyped DEF Emit
<1>3. ASSUME NEW p \in Priority, Bridge(p) PROVE Typed'
    BY <1>1, <1>3, BridgeTyped
<1>4. CASE HighGet  BY <1>1, <1>4, SingleTyped DEF HighGet, Priority
<1>5. CASE LowGet  BY <1>1, <1>5, SingleTyped DEF LowGet, Priority
<1>6. CASE HighTimeout \/ NormalTimeout \/ SecondTimeout \/ LowTimeout
    BY <1>1, <1>6, TimeoutTyped
<1>7. CASE CarriedBatch  BY <1>1, <1>7, CarriedBatchTyped
<1>8. CASE NormalGet  BY <1>1, <1>8, NormalGetTyped
<1>9. CASE SecondGet  BY <1>1, <1>9, SecondGetTyped
<1>10. CASE CallSucceeds \/ CallFails  BY <1>1, <1>10, CallTyped
<1>11. CASE DeliveryEnds  BY <1>1, <1>11, DeliveryEndsTyped
<1>12. CASE FinalBatch  BY <1>1, <1>12, FinalBatchTyped
<1>13. CASE \/ Start
            \/ \E s \in Subs, t \in Types : Subscribe(s, t) \/ Unsubscribe(s, t)
    BY <1>1, <1>13, ControlsTyped
<1>14. CASE Stop  BY <1>1, <1>14, StopTyped
<1>15. CASE ThreadEnds  BY <1>1, <1>15, ThreadEndsTyped
<1>16. CASE UNCHANGED vars
    BY <1>1, <1>16, PartsUnchanged DEF Typed, vars, processor, history
<1>17. QED
    BY <1>2, <1>3, <1>4, <1>5, <1>6, <1>7, <1>8, <1>9, <1>10, <1>11, <1>12, <1>13,
       <1>14, <1>15, <1>16 DEF Next, Process
-----------------------------------------------------------------------------
(* What the steps do to the account of an event *)

Bit(b) == IF b THEN 1 ELSE 0

\* The three ways in which the sequences of a priority change.
LEMMA AsyncChanged ==
    ASSUME TypeOK, NEW p \in Priority, NEW s, asyncQ' = [asyncQ EXCEPT ![p] = s],
           UNCHANGED <<threadQ, hand>>, NEW x, NEW r \in Priority
    PROVE  Queued(r, x)' = IF r = p THEN Count(threadQ[p], x) + Count(hand[p], x) + Count(s, x)
                           ELSE Queued(r, x)
<1>1. asyncQ'[r] = IF r = p THEN s ELSE asyncQ[r]  BY DEF TypeOK
<1>2. CASE r = p
    <2>1. asyncQ'[r] = s  BY <1>1, <1>2
    <2>2. Queued(r, x)' = Count(threadQ[r], x) + Count(hand[r], x) + Count(s, x)
        BY <2>1, Zenon DEF Queued
    <2>3. QED  BY <1>2, <2>2
<1>3. CASE r # p
    <2>1. asyncQ'[r] = asyncQ[r]  BY <1>1, <1>3
    <2>2. Queued(r, x)' = Queued(r, x)  BY <2>1, Zenon DEF Queued
    <2>3. QED  BY <1>3, <2>2
<1>4. QED  BY <1>2, <1>3

\* What a change of one thread queue changes of the counts.
LEMMA ThreadChanged ==
    ASSUME TypeOK, NEW p \in Priority, NEW s, threadQ' = [threadQ EXCEPT ![p] = s],
           UNCHANGED <<asyncQ, hand>>, NEW x, NEW r \in Priority
    PROVE  Queued(r, x)' = IF r = p THEN Count(s, x) + Count(hand[p], x) + Count(asyncQ[p], x)
                           ELSE Queued(r, x)
<1>1. threadQ'[r] = IF r = p THEN s ELSE threadQ[r]  BY DEF TypeOK
<1>2. CASE r = p
    <2>1. threadQ'[r] = s  BY <1>1, <1>2
    <2>2. Queued(r, x)' = Count(s, x) + Count(hand[r], x) + Count(asyncQ[r], x)
        BY <2>1, Zenon DEF Queued
    <2>3. QED  BY <1>2, <2>2
<1>3. CASE r # p
    <2>1. threadQ'[r] = threadQ[r]  BY <1>1, <1>3
    <2>2. Queued(r, x)' = Queued(r, x)  BY <2>1, Zenon DEF Queued
    <2>3. QED  BY <1>3, <2>2
<1>4. QED  BY <1>2, <1>3

\* A get takes the first one out of a queue.
LEMMA TakenOut ==
    ASSUME IInv, NEW p \in Priority, asyncQ[p] # <<>>,
           asyncQ' = [asyncQ EXCEPT ![p] = Tail(@)],
           UNCHANGED <<threadQ, hand>>, NEW x, NEW r \in Priority
    PROVE  Queued(r, x)' = Queued(r, x) - Bit(r = p /\ x = Head(asyncQ[p]))
<1> DEFINE h == Head(asyncQ[p])
           t == Tail(asyncQ[p])
<1>1. TypeOK  BY DEF IInv
<1>2. t \in Seq(Items) /\ Count(asyncQ[p], x) = (IF h = x THEN 1 ELSE 0) + Count(t, x)
    BY HeadOfQueue
<1>3. asyncQ' = [asyncQ EXCEPT ![p] = t]  OBVIOUS
<1> HIDE DEF h, t
<1>4. Queued(r, x)' = IF r = p THEN Count(threadQ[p], x) + Count(hand[p], x) + Count(t, x)
                      ELSE Queued(r, x)
    BY <1>1, <1>3, AsyncChanged
<1>5. /\ Count(threadQ[p], x) \in Nat /\ Count(hand[p], x) \in Nat
      /\ Count(asyncQ[p], x) \in Nat /\ Queued(r, x) \in Nat /\ Count(t, x) \in Nat
      /\ Queued(p, x) = Count(threadQ[p], x) + Count(hand[p], x) + Count(asyncQ[p], x)
    BY <1>1, <1>2, CountsTyped, CountType DEF Queued
<1>6. QED  BY <1>2, <1>4, <1>5 DEF Bit, h

\* A bridge only moves within the queues of a priority.
LEMMA BridgeAccount ==
    ASSUME IInv, NEW p \in Priority, Bridge(p), NEW x, NEW r \in Priority
    PROVE  Queued(r, x)' = Queued(r, x)
<1>0. TypeOK  BY DEF IInv
<1>1. /\ threadQ[p] \in Seq(Items) /\ hand[p] \in Seq(Items) /\ asyncQ[p] \in Seq(Items)
      /\ threadQ[r] \in Seq(Items) /\ hand[r] \in Seq(Items) /\ asyncQ[r] \in Seq(Items)
    BY <1>0, Lengths
<1>2. \A s \in Seq(Items) : Count(s, x) \in Nat  BY CountType
<1>3. CASE r # p
    <2>1. threadQ'[r] = threadQ[r] /\ hand'[r] = hand[r] /\ asyncQ'[r] = asyncQ[r]
        BY <1>0, <1>3 DEF Bridge, BridgeMove, BridgePut, TypeOK
    <2>2. QED  BY <2>1, Zenon DEF Queued
<1>4. CASE r = p /\ BridgeMove(p)
    <2> DEFINE h == Head(threadQ[p])
               t == Tail(threadQ[p])
               q == asyncQ[p]
    <2>1. threadQ[p] # <<>> /\ hand[p] = <<>>  BY <1>4 DEF BridgeMove
    <2>2. h \in Items /\ t \in Seq(Items) /\ Count(threadQ[p], x) = Bit(h = x) + Count(t, x)
        BY <1>1, <2>1, HeadTailProperties, CountTail DEF Bit
    <2>3. threadQ'[p] = t  BY <1>0, <1>4 DEF BridgeMove, TypeOK
    <2>4. \/ asyncQ'[p] = Append(q, h) /\ hand'[p] = <<>>
          \/ asyncQ'[p] = q /\ hand'[p] = <<h>>
        BY <1>0, <1>4, <2>1 DEF BridgeMove, TypeOK
    <2>5. q \in Seq(Items)  BY <1>1
    <2> HIDE DEF h, t, q
    <2>6. Count(hand'[p], x) + Count(asyncQ'[p], x) = Bit(h = x) + Count(q, x)
        <3>1. Count(Append(q, h), x) = Count(q, x) + (IF h = x THEN 1 ELSE 0)
            BY <2>2, <2>5, CountAppend
        <3>2. Count(<<h>>, x) = (IF h = x THEN 1 ELSE 0) /\ Count(<<>>, x) = 0
            BY CountOne, CountEmpty
        <3>3. CASE asyncQ'[p] = Append(q, h) /\ hand'[p] = <<>>
            <4>1. /\ Count(asyncQ'[p], x) = Count(Append(q, h), x)
                  /\ Count(hand'[p], x) = Count(<<>>, x)
                BY <3>3, Zenon
            <4>2. Count(q, x) \in Nat  BY <1>2, <2>5
            <4>3. QED  BY <3>1, <3>2, <4>1, <4>2 DEF Bit
        <3>4. CASE asyncQ'[p] = q /\ hand'[p] = <<h>>
            <4>1. Count(asyncQ'[p], x) = Count(q, x) /\ Count(hand'[p], x) = Count(<<h>>, x)
                BY <3>4, Zenon
            <4>2. QED  BY <3>2, <4>1 DEF Bit
        <3>5. QED  BY <2>4, <3>3, <3>4
    <2>7. Count(hand[p], x) = 0  BY <2>1, CountEmpty
    <2>8. Count(threadQ'[p], x) = Count(t, x)  BY <2>3, Zenon
    <2>9. Queued(p, x)' = Count(t, x) + (Count(hand'[p], x) + Count(asyncQ'[p], x))
        <3>1. Count(hand'[p], x) \in Nat /\ Count(asyncQ'[p], x) \in Nat /\ Count(t, x) \in Nat
            <4>1. hand'[p] \in Seq(Items) /\ asyncQ'[p] \in Seq(Items)
                <5>1. <<>> \in Seq(Items) /\ <<h>> \in Seq(Items) /\ Append(q, h) \in Seq(Items)
                    BY <2>2, <2>5, EmptySeq, AppendProperties
                <5>2. QED  BY <2>4, <2>5, <5>1
            <4>2. QED  BY <1>2, <2>2, <4>1
        <3>2. QED  BY <2>8, <3>1 DEF Queued
    <2>10. Queued(p, x) = Bit(h = x) + Count(t, x) + Count(q, x)
        BY <1>2, <2>2, <2>5, <2>7 DEF Queued, q, Bit
    <2>11. Count(t, x) \in Nat /\ Count(q, x) \in Nat  BY <1>2, <2>2, <2>5
    <2>12. QED  BY <1>4, <2>6, <2>9, <2>10, <2>11 DEF Bit
<1>5. CASE r = p /\ BridgePut(p)
    <2> DEFINE q == asyncQ[p]
               g == hand[p]
               k == threadQ[p]
    <2>1. threadQ'[p] = k /\ hand'[p] = <<>> /\ asyncQ'[p] = q \o g
        BY <1>0, <1>5 DEF BridgePut, TypeOK
    <2>2. q \in Seq(Items) /\ g \in Seq(Items) /\ k \in Seq(Items)  BY <1>1
    <2>3. Queued(p, x) = Count(k, x) + Count(g, x) + Count(q, x)  BY DEF Queued
    <2> HIDE DEF q, g, k
    <2>4. Queued(p, x)' = Count(k, x) + Count(<<>>, x) + Count(q \o g, x)
        BY <2>1, Zenon DEF Queued
    <2>5. Count(<<>>, x) = 0  BY CountEmpty
    <2>6. Count(q \o g, x) = Count(q, x) + Count(g, x)  BY <2>2, CountConcat
    <2>7. Count(k, x) \in Nat /\ Count(q, x) \in Nat /\ Count(g, x) \in Nat
        BY <1>2, <2>2
    <2>8. QED  BY <1>5, <2>3, <2>4, <2>5, <2>6, <2>7
<1>6. QED  BY <1>3, <1>4, <1>5 DEF Bridge

\* A new event gets the next number; the others keep their kinds.
LEMMA AcceptEffect ==
    ASSUME TypeOK, NEW kind \in Kinds, Accept(kind)
    PROVE  /\ Len(accepted) + 1 \in Events /\ Len(accepted) + 1 \notin Accepted
           /\ Len(accepted') = Len(accepted) + 1
           /\ Accepted' = Accepted \union {Len(accepted) + 1}
           /\ \A e \in Accepted : accepted'[e] = accepted[e] /\ e < Len(accepted) + 1
           /\ accepted'[Len(accepted) + 1] = kind
<1>1. accepted \in Seq(Kinds)  BY DEF TypeOK
<1>2. Len(accepted) \in Nat /\ DOMAIN accepted = 1..Len(accepted)
    BY <1>1, LenProperties
<1>3. accepted' = Append(accepted, kind) /\ Len(accepted) < MaxEvents  BY DEF Accept
<1> DEFINE a == Append(accepted, kind)
<1>4. /\ a \in Seq(Kinds) /\ Len(a) = Len(accepted) + 1
      /\ \A i \in 1..Len(accepted) : a[i] = accepted[i]
      /\ a[Len(accepted) + 1] = kind
    BY <1>1, AppendProperties
<1>5. DOMAIN a = 1..Len(accepted) + 1  BY <1>4, LenProperties
<1>6. accepted' = a  BY <1>3
<1> HIDE DEF a
<1>7. Accepted' = 1..Len(accepted) + 1  BY <1>5, <1>6 DEF Accepted
<1>8. Len(accepted) + 1 \in Events  BY <1>2, <1>3, Numbers DEF Events
<1>9. QED  BY <1>2, <1>4, <1>6, <1>7, <1>8 DEF Accepted

\* An event that goes to the queue is in one place.
LEMMA EmitQueuedAccount ==
    ASSUME TypeOK, NEW kind \in Kinds, EmitQueued(kind), NEW x, NEW r \in Priority
    PROVE  Queued(r, x)' = Queued(r, x) + Bit(r = kind.priority /\ x = Len(accepted) + 1)
<1> DEFINE p == kind.priority
           n == Len(accepted) + 1
           k == threadQ[p]
           s == Append(k, n)
<1>1. p \in Priority  BY KindsAssumption
<1>2. Len(accepted') = n /\ n \in Items
    BY AcceptEffect, Numbers DEF EmitQueued
<1>3. k \in Seq(Items)  BY <1>1, Lengths
<1>4. threadQ' = [threadQ EXCEPT ![p] = s] /\ UNCHANGED <<asyncQ, hand>>
    BY <1>2 DEF EmitQueued
<1> HIDE DEF k, n
<1>5. Count(s, x) = Count(k, x) + (IF n = x THEN 1 ELSE 0)
    BY <1>2, <1>3, CountAppend
<1> HIDE DEF s, p
<1>6. Queued(r, x)' = IF r = p THEN Count(s, x) + Count(hand[p], x) + Count(asyncQ[p], x)
                      ELSE Queued(r, x)
    BY <1>1, <1>4, ThreadChanged
<1>7. /\ Count(k, x) \in Nat /\ Count(hand[p], x) \in Nat /\ Count(asyncQ[p], x) \in Nat
      /\ Queued(p, x) = Count(k, x) + Count(hand[p], x) + Count(asyncQ[p], x)
      /\ Queued(r, x) \in Nat
    BY <1>1, CountsTyped DEF Queued, k
<1>8. QED  BY <1>5, <1>6, <1>7 DEF Bit, p, n

\* A flush adds summaries to the low-priority queue and moves what was buffered.
LEMMA FlushAccount ==
    ASSUME TypeOK, NEW events \in SUBSET Events, Flush(events), UNCHANGED <<hand, asyncQ>>
    PROVE  /\ \A r \in Priority : \A x : x # Summary \/ r # "low" => Queued(r, x)' = Queued(r, x)
           /\ \A x \in Events :
                x \notin events \/ x \notin summarised \union lost
                  => Apart(x)' = Bit(x \in events) + Member(summarised, x) + Member(lost, x)
<1>1. "low" \in Priority  BY DEF Priority
<1>2. PICK z \in Seq({Summary}) : threadQ' = [threadQ EXCEPT !["low"] = threadQ["low"] \o z]
    BY FlushProperties
<1>3. PICK kept \in SUBSET events :
        summarised' = summarised \union kept /\ lost' = lost \union (events \ kept)
    BY FlushProperties
<1>4. buffer' = {}  BY FlushProperties
<1>5. ASSUME NEW r \in Priority, NEW x, x # Summary \/ r # "low"
      PROVE  Queued(r, x)' = Queued(r, x)
    <2> DEFINE k == threadQ["low"]
               s == k \o z
    <2>1. k \in Seq(Items) /\ z \in Seq(Items)
        BY <1>1, Lengths, Numbers, SeqMonotonic
    <2>2. threadQ' = [threadQ EXCEPT !["low"] = s]  BY <1>2
    <2> HIDE DEF k
    <2>3. Count(s, x) = Count(k, x) + Count(z, x)  BY <2>1, CountConcat
    <2> HIDE DEF s
    <2>4. Queued(r, x)' = IF r = "low" THEN Count(s, x) + Count(hand["low"], x) + Count(asyncQ["low"], x)
                          ELSE Queued(r, x)
        BY <1>1, <2>2, ThreadChanged
    <2>5. CASE r # "low"  BY <2>4, <2>5
    <2>6. CASE r = "low"
        <3>1. Count(z, x) = 0
            <4>1. \A i \in 1..Len(z) : z[i] # x  BY <1>5, <2>6, ElementOfSeq
            <4>2. QED  BY <4>1, CountZero
        <3>2. /\ Count(k, x) \in Nat
              /\ Queued("low", x) = Count(k, x) + Count(hand["low"], x) + Count(asyncQ["low"], x)
            BY <2>1, CountType DEF Queued, k
        <3>3. QED  BY <2>3, <2>4, <2>6, <3>1, <3>2
    <2>7. QED  BY <2>5, <2>6
<1>6. ASSUME NEW x \in Events, x \notin events \/ x \notin summarised \union lost
      PROVE  Apart(x)' = Bit(x \in events) + Member(summarised, x) + Member(lost, x)
    <2>1. /\ Member(buffer, x)' = 0
          /\ Member(summarised, x)' = Member(summarised \union kept, x)
          /\ Member(lost, x)' = Member(lost \union (events \ kept), x)
        BY <1>3, <1>4 DEF Member
    <2>2. Apart(x)' = Member(summarised \union kept, x) + Member(lost \union (events \ kept), x)
        BY <2>1 DEF Apart, Member
    <2>3. CASE x \in events  BY <1>6, <2>2, <2>3 DEF Member, Bit
    <2>4. CASE x \notin events
        <3>1. x \notin kept  BY <2>4
        <3>2. QED  BY <2>2, <2>4, <3>1 DEF Member, Bit
    <2>5. QED  BY <2>3, <2>4
<1>7. QED  BY <1>5, <1>6

\* An element of a sequence is one that is counted in it.
LEMMA ToSetCounted ==
    ASSUME NEW S, NEW s \in Seq(S), NEW x
    PROVE  x \in ToSet(s) <=> Count(s, x) > 0
<1>1. Count(s, x) \in Nat  BY CountType
<1>2. Count(s, x) = 0 <=> \A i \in 1..Len(s) : s[i] # x  BY CountZero
<1>3. x \in ToSet(s) <=> \E i \in 1..Len(s) : s[i] = x
    BY LenProperties DEF ToSet
<1>4. QED  BY <1>1, <1>2, <1>3

\* When the thread ends, an event it held is dropped, and no other is.
LEMMA ThreadEndsAccount ==
    ASSUME IInv, ThreadEnds, NEW e \in Events
    PROVE  /\ \A p \in Priority : Queued(p, e)' = Count(threadQ[p], e)
           /\ Processed(e)' = Count(settled, e)
           /\ Member(buffer, e)' = Member(buffer, e)
           /\ Member(summarised, e)' = Member(summarised, e)
           /\ Member(lost, e)' =
                Bit(\/ e \in lost \/ Count(batch, e) > 0 \/ Count(current, e) > 0
                    \/ \E p \in Priority : Count(hand[p], e) > 0 \/ Count(asyncQ[p], e) > 0)
<1>0. TypeOK  BY DEF IInv
<1>1. /\ hand' = Empty /\ asyncQ' = Empty /\ batch' = <<>> /\ current' = <<>>
      /\ UNCHANGED <<intake, threadQ, settled, summarised>>
    BY DEF ThreadEnds
<1>2. Count(<<>>, e) = 0  BY CountEmpty
<1>3. ASSUME NEW p \in Priority PROVE Queued(p, e)' = Count(threadQ[p], e)
    <2>1. hand'[p] = <<>> /\ asyncQ'[p] = <<>>  BY <1>1 DEF Empty
    <2>2. Queued(p, e)' = Count(threadQ[p], e) + Count(<<>>, e) + Count(<<>>, e)
        BY <1>1, <2>1, Zenon DEF Queued
    <2>3. Count(threadQ[p], e) \in Nat  BY <1>0, CountsTyped
    <2>4. QED  BY <1>2, <2>2, <2>3
<1>4. Processed(e)' = Count(settled, e)
    <2>1. Processed(e)' = Count(<<>>, e) + Count(<<>>, e) + Count(settled, e)
        BY <1>1, Zenon DEF Processed
    <2>2. Count(settled, e) \in Nat  BY <1>0, CountsTyped
    <2>3. QED  BY <1>2, <2>1, <2>2
<1>5. Member(buffer, e)' = Member(buffer, e) /\ Member(summarised, e)' = Member(summarised, e)
    BY <1>1 DEF Member, intake
<1>6. Member(lost, e)' =
        Bit(\/ e \in lost \/ Count(batch, e) > 0 \/ Count(current, e) > 0
            \/ \E p \in Priority : Count(hand[p], e) > 0 \/ Count(asyncQ[p], e) > 0)
    <2> DEFINE held == ToSet(batch) \union ToSet(current)
                         \union UNION {ToSet(hand[p]) \union ToSet(asyncQ[p]) : p \in Priority}
    <2>1. lost' = lost \union (held \ {Summary})  BY DEF ThreadEnds
    <2>2. e \in held <=> \/ e \in ToSet(batch) \/ e \in ToSet(current)
                         \/ \E p \in Priority : e \in ToSet(hand[p]) \/ e \in ToSet(asyncQ[p])
        OBVIOUS
    <2> HIDE DEF held
    <2>3. \A p \in Priority : /\ e \in ToSet(hand[p]) <=> Count(hand[p], e) > 0
                              /\ e \in ToSet(asyncQ[p]) <=> Count(asyncQ[p], e) > 0
        <3> TAKE p \in Priority
        <3>1. hand[p] \in Seq(Items) /\ asyncQ[p] \in Seq(Items)  BY <1>0, Lengths
        <3>2. QED  BY <3>1, ToSetCounted
    <2>4. /\ e \in ToSet(batch) <=> Count(batch, e) > 0
          /\ e \in ToSet(current) <=> Count(current, e) > 0
        <3>1. batch \in Seq(Events) /\ current \in Seq(Items)  BY <1>0 DEF TypeOK
        <3>2. QED  BY <3>1, ToSetCounted
    <2>5. e # Summary  BY Numbers
    <2>6. e \in lost' <=> e \in lost \/ e \in held  BY <2>1, <2>5
    <2>7. QED  BY <2>2, <2>3, <2>4, <2>6 DEF Member, Bit
<1>7. QED  BY <1>3, <1>4, <1>5, <1>6

\* What is not touched counts as before.
LEMMA Unmoved ==
    ASSUME NEW x
    PROVE  /\ UNCHANGED <<threadQ, hand, asyncQ>> => \A p \in Priority : Queued(p, x)' = Queued(p, x)
           /\ UNCHANGED <<batch, current, settled>> => Processed(x)' = Processed(x)
           /\ UNCHANGED <<buffer, summarised, lost>> => Apart(x)' = Apart(x)
<1>1. UNCHANGED <<threadQ, hand, asyncQ>> => \A p \in Priority : Queued(p, x)' = Queued(p, x)
    BY DEF Queued
<1>2. UNCHANGED <<batch, current, settled>> => Processed(x)' = Processed(x)
    BY DEF Processed
<1>3. UNCHANGED <<buffer, summarised, lost>> => Apart(x)' = Apart(x)
    BY DEF Apart, Member
<1>4. QED  BY <1>1, <1>2, <1>3

\* The event a discarding wait takes out of its queue is dropped.
LEMMA DiscardAccount ==
    ASSUME IInv, NEW p \in Priority, Discard(p), UNCHANGED <<threadQ, hand, buffer, summarised>>,
           NEW e \in Events
    PROVE  /\ \A r \in Priority : Queued(r, e)' = Queued(r, e) - Bit(r = p /\ e = Head(asyncQ[p]))
           /\ Apart(e)' = Apart(e) + Bit(e = Head(asyncQ[p]))
<1> DEFINE h == Head(asyncQ[p])
<1>1. /\ asyncQ[p] # <<>> /\ asyncQ' = [asyncQ EXCEPT ![p] = Tail(@)]
      /\ lost' = lost \union ({h} \ {Summary})
    BY DEF Discard
<1>2. \A r \in Priority : Queued(r, e)' = Queued(r, e) - Bit(r = p /\ e = h)
    BY <1>1, TakenOut
<1>3. e = h => e \notin lost
    <2> SUFFICES ASSUME e = h, e \in lost PROVE FALSE  OBVIOUS
    <2>1. TypeOK /\ ExactlyOnePlace  BY DEF IInv
    <2>2. asyncQ[p] \in Seq(Items)  BY <2>1, Lengths
    <2>3. Count(asyncQ[p], e) > 0  BY <1>1, <2>2, HeadCounted
    <2>4. Queued(p, e) > 0  BY <2>1, <2>3, QueuedParts
    <2>5. Apart(e) > 0
        <3>1. Member(lost, e) = 1  BY DEF Member
        <3>2. QED  BY <2>1, <3>1, CountsTyped DEF Apart
    <2>6. Occurrences(e) > 1
        BY <2>1, <2>4, <2>5, CountsTyped DEF Occurrences, Priority
    <2>7. QED  BY <2>1, <2>6 DEF ExactlyOnePlace
<1>4. Apart(e)' = Apart(e) + Bit(e = h)
    <2>1. e # Summary  BY Numbers
    <2>2. Member(lost, e)' = Member(lost, e) + Bit(e = h)
        BY <1>1, <1>3, <2>1 DEF Member, Bit
    <2>3. Member(buffer, e)' = Member(buffer, e) /\ Member(summarised, e)' = Member(summarised, e)
        BY DEF Member
    <2>4. Member(lost, e) \in {0, 1} /\ Bit(e = h) \in {0, 1}
          /\ Member(buffer, e) \in {0, 1} /\ Member(summarised, e) \in {0, 1}
        BY DEF Member, Bit
    <2>5. QED  BY <2>2, <2>3, <2>4 DEF Apart
<1>5. QED  BY <1>2, <1>4

\* A filled batch: what leaves the normal queue and the carried batch is what
\* comes under delivery.
LEMMA FillAccount ==
    ASSUME TypeOK, NEW b \in Seq(Events), Len(b) = 1,
           NEW q \in Seq(Events), NEW x
    PROVE  /\ Count(Fill(b, q).batch, x) \in Nat /\ Count(Fill(b, q).queue, x) \in Nat
           /\ Count(b, x) \in Nat /\ Count(q, x) \in Nat
           /\ Count(Fill(b, q).batch, x) + Count(Fill(b, q).queue, x) = Count(b, x) + Count(q, x)
<1> DEFINE f == Fill(b, q)
<1>1. /\ f.batch \in Seq(Events) /\ f.queue \in Seq(Events)
      /\ Count(f.batch, x) + Count(f.queue, x) = Count(b, x) + Count(q, x)
    BY FillProperties
<1> HIDE DEF f
<1>2. Count(f.batch, x) \in Nat /\ Count(f.queue, x) \in Nat
    BY <1>1, CountType
<1>3. Count(b, x) \in Nat /\ Count(q, x) \in Nat  BY CountType
<1>4. QED  BY <1>1, <1>2, <1>3 DEF f

\* The normal queue, when a batch is filled from what follows its first event
\* or from all of it.
LEMMA NormalFilled ==
    ASSUME IInv, NEW b \in Seq(Events), Len(b) = 1, NEW q \in Seq(Events),
           asyncQ'["normal"] = Fill(b, q).queue,
           current' = Fill(b, q).batch,
           UNCHANGED <<threadQ, hand>>, NEW x
    PROVE  /\ Count(current', x) \in Nat /\ Count(b, x) \in Nat /\ Count(q, x) \in Nat
           /\ Queued("normal", x)' \in Nat
           /\ Queued("normal", x)' + Count(current', x)
                = Count(threadQ["normal"], x) + Count(hand["normal"], x)
                    + Count(b, x) + Count(q, x)
<1> DEFINE f == Fill(b, q)
<1>0. TypeOK /\ "normal" \in Priority  BY DEF IInv, Priority
<1>1. /\ Count(f.batch, x) \in Nat /\ Count(f.queue, x) \in Nat
      /\ Count(b, x) \in Nat /\ Count(q, x) \in Nat
      /\ Count(f.batch, x) + Count(f.queue, x) = Count(b, x) + Count(q, x)
    BY <1>0, FillAccount
<1>2. asyncQ'["normal"] = f.queue /\ current' = f.batch  OBVIOUS
<1> HIDE DEF f
<1>3. Queued("normal", x)'
        = Count(threadQ["normal"], x) + Count(hand["normal"], x) + Count(f.queue, x)
    BY <1>2, Zenon DEF Queued
<1>4. Count(threadQ["normal"], x) \in Nat /\ Count(hand["normal"], x) \in Nat
    BY <1>0, QueuedParts
<1> DEFINE c == Count(current', x)
           m == Queued("normal", x)'
<1>5. c = Count(f.batch, x)  BY <1>2, Zenon
<1>6. m = Count(threadQ["normal"], x) + Count(hand["normal"], x) + Count(f.queue, x)
    BY <1>3
<1> DEFINE inBatch == Count(f.batch, x)
           inQueue == Count(f.queue, x)
           ofB == Count(b, x)
           ofQ == Count(q, x)
           inThread == Count(threadQ["normal"], x)
           inHand == Count(hand["normal"], x)
<1>7. /\ inBatch \in Nat /\ inQueue \in Nat /\ ofB \in Nat /\ ofQ \in Nat
      /\ inThread \in Nat /\ inHand \in Nat
      /\ inBatch + inQueue = ofB + ofQ /\ c = inBatch /\ m = inThread + inHand + inQueue
    BY <1>1, <1>4, <1>5, <1>6
<1> HIDE DEF c, m, inBatch, inQueue, ofB, ofQ, inThread, inHand
<1>8. /\ c \in Nat /\ ofB \in Nat /\ ofQ \in Nat /\ m \in Nat
      /\ m + c = inThread + inHand + ofB + ofQ
    BY <1>7
<1>9. QED  BY <1>8 DEF c, m, ofB, ofQ, inThread, inHand

\* A batch that was carried over the top of the loop is filled up.
LEMMA CarriedBatchAccount ==
    ASSUME IInv, CarriedBatch, NEW x
    PROVE  /\ Queued("normal", x)' + Count(current', x) = Queued("normal", x) + Count(batch, x)
           /\ Queued("normal", x)' \in Nat /\ Count(current', x) \in Nat
           /\ Queued("low", x)' = Queued("low", x)
           /\ Count(batch', x) = 0
           /\ \/ Queued("high", x)' = Queued("high", x) /\ UNCHANGED lost
              \/ /\ asyncQ["high"] # <<>>
                 /\ Queued("high", x)' = Queued("high", x) - Bit(x = Head(asyncQ["high"]))
                 /\ lost' = lost \union ({Head(asyncQ["high"])} \ {Summary})
<1>0. TypeOK /\ {"normal", "high", "low"} \subseteq Priority  BY DEF IInv, Priority
<1>1. batch # <<>> /\ batch' = <<>> /\ UNCHANGED <<threadQ, hand>>
    BY DEF CarriedBatch, ProcessBatch
<1>2. batch \in Seq(Events) /\ Len(batch) = 1  BY <1>1, CarriedEvent
<1>3. asyncQ["normal"] \in Seq(Events)
    <2>1. asyncQ["normal"] \in Seq(Items)  BY <1>0, Lengths
    <2>2. CASE asyncQ["normal"] = <<>>  BY <2>2, EmptySeq
    <2>3. CASE asyncQ["normal"] # <<>>  BY <1>0, <2>3, HeadOfQueue
    <2>4. QED  BY <2>2, <2>3
<1>4. /\ asyncQ'["normal"] = Fill(batch, asyncQ["normal"]).queue
      /\ current' = Fill(batch, asyncQ["normal"]).batch
      /\ asyncQ'["low"] = asyncQ["low"]
    BY <1>0 DEF CarriedBatch, ProcessBatch, Deliver, TypeOK
<1>5. /\ Queued("normal", x)' \in Nat /\ Count(current', x) \in Nat
      /\ Count(batch, x) \in Nat /\ Count(asyncQ["normal"], x) \in Nat
      /\ Queued("normal", x)' + Count(current', x)
           = Count(threadQ["normal"], x) + Count(hand["normal"], x)
               + Count(batch, x) + Count(asyncQ["normal"], x)
    BY <1>1, <1>2, <1>3, <1>4, NormalFilled
<1>6. /\ Count(threadQ["normal"], x) \in Nat /\ Count(hand["normal"], x) \in Nat
      /\ Queued("normal", x) = Count(threadQ["normal"], x) + Count(hand["normal"], x)
                                 + Count(asyncQ["normal"], x)
    BY <1>0, QueuedParts
<1>7. Queued("normal", x)' + Count(current', x) = Queued("normal", x) + Count(batch, x)
    BY <1>5, <1>6
<1>8. Queued("low", x)' = Queued("low", x)  BY <1>1, <1>4, Zenon DEF Queued
<1>9. Count(batch', x) = 0  BY <1>1, CountEmpty
<1>10. \/ asyncQ'["high"] = asyncQ["high"] /\ UNCHANGED lost
       \/ /\ asyncQ["high"] # <<>> /\ asyncQ'["high"] = Tail(asyncQ["high"])
          /\ lost' = lost \union ({Head(asyncQ["high"])} \ {Summary})
    BY <1>0 DEF CarriedBatch, ProcessBatch, TypeOK
<1>11. CASE asyncQ'["high"] = asyncQ["high"] /\ UNCHANGED lost
    <2>1. Queued("high", x)' = Queued("high", x)  BY <1>1, <1>11, Zenon DEF Queued
    <2>2. QED  BY <1>5, <1>7, <1>8, <1>9, <1>11, <2>1
<1>12. CASE /\ asyncQ["high"] # <<>> /\ asyncQ'["high"] = Tail(asyncQ["high"])
            /\ lost' = lost \union ({Head(asyncQ["high"])} \ {Summary})
    <2> DEFINE h == Head(asyncQ["high"])
               t == Tail(asyncQ["high"])
    <2>1. t \in Seq(Items) /\ Count(asyncQ["high"], x) = (IF h = x THEN 1 ELSE 0) + Count(t, x)
        BY <1>0, <1>12, HeadOfQueue
    <2>2. asyncQ'["high"] = t  BY <1>12
    <2> HIDE DEF h, t
    <2>3. Queued("high", x)' = Count(threadQ["high"], x) + Count(hand["high"], x) + Count(t, x)
        BY <1>1, <2>2, Zenon DEF Queued
    <2>4. /\ Count(threadQ["high"], x) \in Nat /\ Count(hand["high"], x) \in Nat
          /\ Queued("high", x) = Count(threadQ["high"], x) + Count(hand["high"], x)
                                   + Count(asyncQ["high"], x)
        BY <1>0, QueuedParts
    <2>5. Count(t, x) \in Nat  BY <2>1, CountType
    <2>6. Queued("high", x)' = Queued("high", x) - Bit(x = h)
        BY <2>1, <2>3, <2>4, <2>5 DEF Bit
    <2>7. QED  BY <1>5, <1>7, <1>8, <1>9, <1>12, <2>6 DEF h
<1>13. QED  BY <1>10, <1>11, <1>12

\* A normal event is taken out and its batch filled at once.
LEMMA NormalGetAccount ==
    ASSUME IInv, NormalGet, NEW x
    PROVE  /\ Queued("normal", x)' + Count(current', x) = Queued("normal", x)
           /\ Queued("normal", x)' \in Nat /\ Count(current', x) \in Nat
           /\ Queued("low", x)' = Queued("low", x) /\ Queued("high", x)' = Queued("high", x)
           /\ Count(batch', x) = 0
<1>0. TypeOK /\ {"normal", "high", "low"} \subseteq Priority  BY DEF IInv, Priority
<1> DEFINE h == Head(asyncQ["normal"])
           t == Tail(asyncQ["normal"])
           b == <<h>>
<1>1. asyncQ["normal"] # <<>> /\ batch' = <<>> /\ UNCHANGED <<threadQ, hand>>
    BY DEF NormalGet, ProcessBatch
<1>2. /\ h \in Events /\ t \in Seq(Events)
      /\ Count(asyncQ["normal"], x) = (IF h = x THEN 1 ELSE 0) + Count(t, x)
    BY <1>0, <1>1, HeadOfQueue
<1>3. /\ asyncQ'["normal"] = Fill(b, t).queue
      /\ current' = Fill(b, t).batch
      /\ asyncQ'["low"] = asyncQ["low"] /\ asyncQ'["high"] = asyncQ["high"]
    BY <1>0 DEF NormalGet, ProcessBatch, Deliver, TypeOK
<1> HIDE DEF h, t
<1>4. b \in Seq(Events) /\ Len(b) = 1 /\ Count(b, x) = IF h = x THEN 1 ELSE 0
    BY <1>2, CountOne
<1> HIDE DEF b
<1>5. /\ Queued("normal", x)' \in Nat /\ Count(current', x) \in Nat
      /\ Count(b, x) \in Nat /\ Count(t, x) \in Nat
      /\ Queued("normal", x)' + Count(current', x)
           = Count(threadQ["normal"], x) + Count(hand["normal"], x) + Count(b, x) + Count(t, x)
    BY <1>1, <1>2, <1>3, <1>4, NormalFilled
<1>6. /\ Count(threadQ["normal"], x) \in Nat /\ Count(hand["normal"], x) \in Nat
      /\ Queued("normal", x) = Count(threadQ["normal"], x) + Count(hand["normal"], x)
                                 + Count(asyncQ["normal"], x)
    BY <1>0, QueuedParts
<1>7. Queued("normal", x)' + Count(current', x) = Queued("normal", x)
    BY <1>2, <1>4, <1>5, <1>6
<1>8. Queued("low", x)' = Queued("low", x) /\ Queued("high", x)' = Queued("high", x)
    BY <1>1, <1>3, Zenon DEF Queued
<1>9. QED  BY <1>1, <1>5, <1>7, <1>8, CountEmpty
-----------------------------------------------------------------------------
(* Every event is in one place *)

\* The steps that take a single event out of a queue into current or batch.
LEMMA SingleAccount ==
    ASSUME IInv, HighGet \/ LowGet \/ SecondGet, NEW x
    PROVE  \E p \in Priority :
             /\ HighGet => p = "high" /\ current' = <<Head(asyncQ[p])>> /\ UNCHANGED batch
             /\ LowGet => p = "low" /\ current' = <<Head(asyncQ[p])>> /\ UNCHANGED batch
             /\ SecondGet => p = "normal" /\ batch' = <<Head(asyncQ[p])>> /\ UNCHANGED current
             /\ asyncQ[p] # <<>>
             /\ \A r \in Priority : Queued(r, x)' = Queued(r, x) - Bit(r = p /\ x = Head(asyncQ[p]))
             /\ UNCHANGED <<accepted, settled, buffer, summarised, lost>>
             /\ SecondGet => batch = <<>>
             /\ HighGet \/ LowGet => current = <<>>
<1>1. PICK p \in Priority :
        /\ HighGet => p = "high"
        /\ LowGet => p = "low"
        /\ SecondGet => p = "normal"
    BY DEF Priority, HighGet, LowGet, SecondGet
<1>2. /\ asyncQ[p] # <<>> /\ asyncQ' = [asyncQ EXCEPT ![p] = Tail(@)]
      /\ UNCHANGED <<threadQ, hand>>
    BY <1>1 DEF HighGet, LowGet, SecondGet
<1>3. \A r \in Priority : Queued(r, x)' = Queued(r, x) - Bit(r = p /\ x = Head(asyncQ[p]))
    BY <1>2, TakenOut
<1>4. UNCHANGED <<accepted, settled, buffer, summarised, lost>>
    BY DEF HighGet, LowGet, SecondGet, intake, history
<1>5. /\ HighGet => current' = <<Head(asyncQ[p])>> /\ UNCHANGED batch
      /\ LowGet => current' = <<Head(asyncQ[p])>> /\ UNCHANGED batch
      /\ SecondGet => batch' = <<Head(asyncQ[p])>> /\ UNCHANGED current
    BY <1>1 DEF HighGet, LowGet, SecondGet, Deliver
<1>6. /\ SecondGet => batch = <<>>
      /\ HighGet \/ LowGet => current = <<>>
    BY DEF IInv, Control, HighGet, LowGet, SecondGet
<1>7. QED  BY <1>1, <1>2, <1>3, <1>4, <1>5, <1>6

\* What one queue loses or gains, all of them lose or gain.
LEMMA QueuesLose ==
    ASSUME TypeOK, NEW p \in Priority, NEW e, NEW c \in BOOLEAN,
           \A r \in Priority : Queued(r, e)' = Queued(r, e) - Bit(r = p /\ c)
    PROVE  Queued("high", e)' + Queued("normal", e)' + Queued("low", e)'
             = (Queued("high", e) + Queued("normal", e) + Queued("low", e)) - Bit(c)
<1>1. Queued("high", e) \in Nat /\ Queued("normal", e) \in Nat /\ Queued("low", e) \in Nat
    BY CountsTyped DEF Priority
<1>2. p = "high" \/ p = "normal" \/ p = "low"  BY DEF Priority
<1>3. "high" \in Priority /\ "normal" \in Priority /\ "low" \in Priority  BY DEF Priority
<1>4. /\ Queued("high", e)' = Queued("high", e) - (IF "high" = p /\ c THEN 1 ELSE 0)
      /\ Queued("normal", e)' = Queued("normal", e) - (IF "normal" = p /\ c THEN 1 ELSE 0)
      /\ Queued("low", e)' = Queued("low", e) - (IF "low" = p /\ c THEN 1 ELSE 0)
    BY <1>3, Zenon DEF Bit
<1>5. Bit(c) = IF c THEN 1 ELSE 0  BY DEF Bit
<1>6. QED  BY <1>1, <1>2, <1>4, <1>5

\* What one priority gains, all of them together gain.
LEMMA QueuesGain ==
    ASSUME TypeOK, NEW p \in Priority, NEW e, NEW c \in BOOLEAN,
           \A r \in Priority : Queued(r, e)' = Queued(r, e) + Bit(r = p /\ c)
    PROVE  Queued("high", e)' + Queued("normal", e)' + Queued("low", e)'
             = (Queued("high", e) + Queued("normal", e) + Queued("low", e)) + Bit(c)
<1>1. Queued("high", e) \in Nat /\ Queued("normal", e) \in Nat /\ Queued("low", e) \in Nat
    BY CountsTyped DEF Priority
<1>2. p = "high" \/ p = "normal" \/ p = "low"  BY DEF Priority
<1>3. "high" \in Priority /\ "normal" \in Priority /\ "low" \in Priority  BY DEF Priority
<1>4. /\ Queued("high", e)' = Queued("high", e) + (IF "high" = p /\ c THEN 1 ELSE 0)
      /\ Queued("normal", e)' = Queued("normal", e) + (IF "normal" = p /\ c THEN 1 ELSE 0)
      /\ Queued("low", e)' = Queued("low", e) + (IF "low" = p /\ c THEN 1 ELSE 0)
    BY <1>3, Zenon DEF Bit
<1>5. Bit(c) = IF c THEN 1 ELSE 0  BY DEF Bit
<1>6. QED  BY <1>1, <1>2, <1>4, <1>5

\* When its delivery ends, what was delivered is settled.
LEMMA DeliveredCounted ==
    ASSUME IInv, DeliveryEnds, NEW e \in Events
    PROVE  Count(settled', e) = Count(settled, e) + Count(current, e)
<1>1. settled' = (IF current = <<Summary>> THEN settled ELSE settled \o current)
    BY DEF DeliveryEnds
<1>2. settled \in Seq(Events)  BY DEF IInv, TypeOK
<1>3. CASE current = <<Summary>>
    <2>1. Count(<<Summary>>, e) = 0  BY CountOne, Numbers
    <2>2. Count(current, e) = Count(<<Summary>>, e)  BY <1>3, Zenon
    <2>3. settled' = settled /\ Count(settled, e) \in Nat  BY <1>1, <1>2, <1>3, CountType
    <2>4. QED  BY <2>1, <2>2, <2>3
<1>4. CASE current # <<Summary>>
    <2>1. current \in Seq(Events)  BY <1>4, DeliveredEvents
    <2>2. Count(settled \o current, e) = Count(settled, e) + Count(current, e)
        BY <1>2, <2>1, CountConcat
    <2>3. settled' = settled \o current  BY <1>1, <1>4
    <2>4. QED  BY <2>2, <2>3
<1>5. QED  BY <1>3, <1>4

\* No step duplicates an event or loses one unseen.
LEMMA OnePlaceStep == ASSUME IInv, [Next]_vars PROVE ExactlyOnePlace'
<1> SUFFICES ASSUME NEW e \in Events
             PROVE  Occurrences(e)' = (IF e \in Accepted THEN 1 ELSE 0)'
    BY DEF ExactlyOnePlace
<1> DEFINE Goal == Occurrences(e)' = (IF e \in Accepted THEN 1 ELSE 0)'
<1>0. TypeOK /\ ExactlyOnePlace  BY DEF IInv
<1>1. /\ Queued("high", e) \in Nat /\ Queued("normal", e) \in Nat /\ Queued("low", e) \in Nat
      /\ Processed(e) \in Nat /\ Apart(e) \in Nat
      /\ Count(batch, e) \in Nat /\ Count(current, e) \in Nat /\ Count(settled, e) \in Nat
      /\ Processed(e) = Count(batch, e) + Count(current, e) + Count(settled, e)
    BY <1>0, CountsTyped DEF Priority, Processed
<1>2. Queued("high", e) + Queued("normal", e) + Queued("low", e) + Processed(e) + Apart(e)
        = IF e \in Accepted THEN 1 ELSE 0
    BY <1>0 DEF ExactlyOnePlace, Occurrences
<1>3. /\ Occurrences(e)' = Queued("high", e)' + Queued("normal", e)' + Queued("low", e)'
                             + Processed(e)' + Apart(e)'
      /\ Processed(e)' = Count(batch', e) + Count(current', e) + Count(settled', e)
    BY DEF Occurrences, Processed
<1>4. Count(<<>>, e) = 0 /\ "high" \in Priority /\ "normal" \in Priority /\ "low" \in Priority
    BY CountEmpty DEF Priority
<1> DEFINE before == Queued("high", e) + Queued("normal", e) + Queued("low", e)
           now == Queued("high", e)' + Queued("normal", e)' + Queued("low", e)'
           done == Processed(e)'
           apart == Apart(e)'
           b == Count(batch', e)
           c == Count(current', e)
           s == Count(settled', e)
<1>sums. /\ before \in Nat
         /\ before + Processed(e) + Apart(e) = IF e \in Accepted THEN 1 ELSE 0
         /\ Occurrences(e)' = now + done + apart
         /\ done = b + c + s
    BY <1>1, <1>2, <1>3
<1>same. ASSUME \A r \in Priority : Queued(r, e)' = Queued(r, e) PROVE now = before
    BY <1>4, <1>same
<1>total. ASSUME Accepted' = Accepted, now + done + apart = before + Processed(e) + Apart(e)
          PROVE  Goal
    BY <1>sums, <1>total
<1>5. ASSUME UNCHANGED <<accepted, threadQ, hand, asyncQ, batch, current, settled,
                         buffer, summarised, lost>>
      PROVE  Goal
    <2>1. now = before  BY <1>5, <1>same, Unmoved
    <2>2. done = Processed(e) /\ apart = Apart(e) /\ Accepted' = Accepted
        BY <1>5, Unmoved DEF Accepted
    <2> HIDE DEF now, done, apart, before, Goal
    <2>3. QED  BY <1>total, <2>1, <2>2
<1>6. ASSUME NEW kind \in Kinds, EmitQueued(kind) PROVE Goal
    <2>1. \A r \in Priority :
            Queued(r, e)' = Queued(r, e) + Bit(r = kind.priority /\ e = Len(accepted) + 1)
        BY <1>0, <1>6, EmitQueuedAccount
    <2>2. Processed(e)' = Processed(e) /\ Apart(e)' = Apart(e)
        BY <1>6, Unmoved DEF EmitQueued, processor, history
    <2>3. /\ Len(accepted) + 1 \notin Accepted
          /\ Accepted' = Accepted \union {Len(accepted) + 1}
        BY <1>0, <1>6, AcceptEffect DEF EmitQueued
    <2>4. now = before + Bit(e = Len(accepted) + 1)
        <3> DEFINE hit == e = Len(accepted) + 1
                   p == kind.priority
        <3>1. p \in Priority /\ hit \in BOOLEAN  BY KindsAssumption
        <3>2. \A r \in Priority : Queued(r, e)' = Queued(r, e) + Bit(r = p /\ hit)  BY <2>1
        <3> HIDE DEF hit, p
        <3>3. now = before + Bit(hit)  BY <1>0, <3>1, <3>2, QueuesGain
        <3>4. QED  BY <3>3 DEF hit
    <2> HIDE DEF now, done, apart, before
    <2>5. done = Processed(e) /\ apart = Apart(e)  BY <2>2 DEF done, apart
    <2>6. CASE e = Len(accepted) + 1
        <3>1. e \notin Accepted /\ e \in Accepted'  BY <2>3, <2>6
        <3>2. now = before + 1  BY <2>4, <2>6 DEF Bit
        <3>3. QED  BY <1>1, <1>sums, <2>5, <3>1, <3>2
    <2>7. CASE e # Len(accepted) + 1
        <3>1. e \in Accepted' <=> e \in Accepted  BY <2>3, <2>7
        <3>2. now = before  BY <1>sums, <2>4, <2>7 DEF Bit
        <3>3. QED  BY <1>1, <1>sums, <2>5, <3>1, <3>2
    <2>8. QED  BY <2>6, <2>7
<1>7. ASSUME NEW kind \in Kinds, EmitBuffered(kind) PROVE Goal
    <2> DEFINE n == Len(accepted) + 1
               waiting == buffer \union {n}
    <2>1. /\ n \in Events /\ n \notin Accepted /\ Accepted' = Accepted \union {n}
        BY <1>0, <1>7, AcceptEffect DEF EmitBuffered
    <2>2. /\ Processed(e)' = Processed(e) /\ UNCHANGED <<hand, asyncQ>>
        BY <1>7, Unmoved DEF EmitBuffered, processor
    <2>3. Flush(waiting) \/ (buffer' = waiting /\ UNCHANGED <<threadQ, summarised, lost>>)
        BY <1>7 DEF EmitBuffered
    <2>4. e # Summary  BY Numbers
    <2>5. waiting \in SUBSET Events  BY <1>0, <2>1 DEF TypeOK
    <2> HIDE DEF n
    <2>6. e \in waiting => e \notin summarised \union lost
        <3>1. CASE e = n
            <4>1. Apart(e) = 0  BY <1>1, <1>2, <2>1, <3>1
            <4>2. QED  BY <4>1 DEF Apart, Member
        <3>2. CASE e \in buffer
            <4>1. Apart(e) <= 1  BY <1>1, <1>2
            <4>2. QED  BY <3>2, <4>1 DEF Apart, Member
        <3>3. QED  BY <3>1, <3>2
    <2>7. /\ \A r \in Priority : Queued(r, e)' = Queued(r, e)
          /\ Apart(e)' = Bit(e \in waiting) + Member(summarised, e) + Member(lost, e)
        <3>1. CASE Flush(waiting)
            <4> HIDE DEF waiting
            <4> QED  BY <1>0, <2>2, <2>4, <2>5, <2>6, <3>1, FlushAccount
        <3>2. CASE buffer' = waiting /\ UNCHANGED <<threadQ, summarised, lost>>
            <4>1. \A r \in Priority : Queued(r, e)' = Queued(r, e)  BY <2>2, <3>2, Unmoved
            <4>2. QED  BY <3>2, <4>1 DEF Apart, Member, Bit
        <3>3. QED  BY <2>3, <3>1, <3>2
    <2>8. now = before /\ done = Processed(e)  BY <1>same, <2>2, <2>7
    <2>9. apart = Bit(e \in waiting) + Member(summarised, e) + Member(lost, e)  BY <2>7
    <2> HIDE DEF now, done, apart, before
    <2>10. CASE e = n
        <3>1. e \notin Accepted /\ e \in Accepted'  BY <2>1, <2>10
        <3>2. Apart(e) = 0  BY <1>1, <1>2, <3>1
        <3>3. apart = 1  BY <2>9, <2>10, <3>2 DEF Apart, Member, Bit
        <3>4. QED  BY <1>1, <1>sums, <2>8, <3>1, <3>2, <3>3
    <2>11. CASE e # n
        <3>1. e \in Accepted' <=> e \in Accepted  BY <2>1, <2>11
        <3>2. apart = Apart(e)  BY <2>9, <2>11 DEF Apart, Member, Bit
        <3>3. QED  BY <1>1, <1>sums, <2>8, <3>1, <3>2
    <2>12. QED  BY <2>10, <2>11
<1>8. ASSUME Stop PROVE Goal
    <2>1. /\ Processed(e)' = Processed(e) /\ UNCHANGED <<hand, asyncQ>> /\ Accepted' = Accepted
        BY <1>8, Unmoved DEF Stop, processor, Accepted
    <2>2. e # Summary /\ buffer \in SUBSET Events  BY <1>0, Numbers DEF TypeOK
    <2>3. e \in buffer => e \notin summarised \union lost
        <3>1. Apart(e) <= 1  BY <1>1, <1>2
        <3>2. QED  BY <3>1 DEF Apart, Member
    <2>4. /\ \A r \in Priority : Queued(r, e)' = Queued(r, e)
          /\ Apart(e)' = Bit(e \in buffer) + Member(summarised, e) + Member(lost, e)
        BY <1>0, <1>8, <2>1, <2>2, <2>3, FlushAccount DEF Stop
    <2>5. apart = Apart(e)  BY <2>4 DEF Apart, Member, Bit
    <2>6. now = before /\ done = Processed(e)  BY <1>same, <2>1, <2>4
    <2> HIDE DEF now, done, apart, before, Goal
    <2>7. QED  BY <1>total, <2>1, <2>5, <2>6
<1>9. ASSUME NEW p \in Priority, Bridge(p) PROVE Goal
    <2>1. \A r \in Priority : Queued(r, e)' = Queued(r, e)  BY <1>0, <1>9, BridgeAccount
    <2>2. Processed(e)' = Processed(e) /\ Apart(e)' = Apart(e) /\ Accepted' = Accepted
        BY <1>9, Unmoved DEF Bridge, BridgeMove, BridgePut, intake, processor, history, Accepted
    <2>3. now = before /\ done = Processed(e) /\ apart = Apart(e)  BY <1>same, <2>1, <2>2
    <2> HIDE DEF now, done, apart, before, Goal
    <2>4. QED  BY <1>total, <2>2, <2>3
<1>10. ASSUME HighGet \/ LowGet \/ SecondGet PROVE Goal
    <2>1. PICK p \in Priority :
             /\ HighGet => current' = <<Head(asyncQ[p])>> /\ UNCHANGED batch
             /\ LowGet => current' = <<Head(asyncQ[p])>> /\ UNCHANGED batch
             /\ SecondGet => batch' = <<Head(asyncQ[p])>> /\ UNCHANGED current
             /\ \A r \in Priority : Queued(r, e)' = Queued(r, e) - Bit(r = p /\ e = Head(asyncQ[p]))
             /\ UNCHANGED <<accepted, settled, buffer, summarised, lost>>
             /\ SecondGet => batch = <<>>
             /\ HighGet \/ LowGet => current = <<>>
        BY <1>10, SingleAccount
    <2> DEFINE h == Head(asyncQ[p])
    <2>2. Count(<<h>>, e) = Bit(e = h)  BY CountOne DEF Bit
    <2> HIDE DEF h
    <2>3. Count(batch', e) + Count(current', e) = Count(batch, e) + Count(current, e) + Bit(e = h)
        <3>1. CASE HighGet \/ LowGet
            <4>1. /\ Count(batch', e) = Count(batch, e) /\ Count(current', e) = Count(<<h>>, e)
                  /\ Count(current, e) = Count(<<>>, e)
                BY <2>1, <3>1, Zenon DEF h
            <4>2. QED  BY <1>1, <1>4, <2>2, <4>1 DEF Bit
        <3>2. CASE SecondGet
            <4>1. /\ Count(batch', e) = Count(<<h>>, e) /\ Count(current', e) = Count(current, e)
                  /\ Count(batch, e) = Count(<<>>, e)
                BY <2>1, <3>2, Zenon DEF h
            <4>2. QED  BY <1>1, <1>4, <2>2, <4>1 DEF Bit
        <3>3. QED  BY <1>10, <3>1, <3>2
    <2>4. s = Count(settled, e) /\ apart = Apart(e) /\ Accepted' = Accepted
        BY <2>1, Unmoved DEF Accepted
    <2>5. now = before - Bit(e = h)
        <3> DEFINE hit == e = h
        <3>1. hit \in BOOLEAN  OBVIOUS
        <3>2. \A r \in Priority : Queued(r, e)' = Queued(r, e) - Bit(r = p /\ hit)  BY <2>1 DEF h
        <3> HIDE DEF hit
        <3>3. now = before - Bit(hit)  BY <1>0, <3>1, <3>2, QueuesLose
        <3>4. QED  BY <3>3 DEF hit
    <2>6. b \in Nat /\ c \in Nat
        <3>1. TypeOK'  BY <1>10, TypeOKStep DEF Next, Process
        <3>2. batch' \in Seq(Events) /\ current' \in Seq(Items)  BY <3>1 DEF TypeOK
        <3>3. QED  BY <3>2, CountType
    <2>7. b + c = Count(batch, e) + Count(current, e) + Bit(e = h)  BY <2>3
    <2>8. Bit(e = h) \in Nat  BY DEF Bit
    <2> HIDE DEF now, done, apart, before, b, c, s, Goal
    <2>9. done = Processed(e) + Bit(e = h)
        BY <1>1, <1>sums, <2>4, <2>6, <2>7, <2>8
    <2>10. QED  BY <1>1, <1>sums, <1>total, <2>4, <2>5, <2>8, <2>9
<1>11. ASSUME NEW p \in Priority, TimesOut(p),
              UNCHANGED <<accepted, threadQ, hand, batch, current, settled, buffer, summarised>>
       PROVE  Goal
    <2>1. CASE UNCHANGED <<asyncQ, lost>>  BY <1>5, <1>11, <2>1
    <2>2. CASE Discard(p)
        <3>1. /\ \A r \in Priority : Queued(r, e)' = Queued(r, e) - Bit(r = p /\ e = Head(asyncQ[p]))
              /\ Apart(e)' = Apart(e) + Bit(e = Head(asyncQ[p]))
            BY <1>11, <2>2, DiscardAccount
        <3>2. Processed(e)' = Processed(e) /\ Accepted' = Accepted
            BY <1>11, Unmoved DEF Accepted
        <3> DEFINE h == Head(asyncQ[p])
        <3>3. now = before - Bit(e = h)
            <4> DEFINE hit == e = h
            <4>1. hit \in BOOLEAN  OBVIOUS
            <4>2. \A r \in Priority : Queued(r, e)' = Queued(r, e) - Bit(r = p /\ hit)  BY <3>1
            <4> HIDE DEF hit
            <4>3. now = before - Bit(hit)  BY <1>0, <4>1, <4>2, QueuesLose
            <4>4. QED  BY <4>3 DEF hit
        <3>4. apart = Apart(e) + Bit(e = h) /\ done = Processed(e)  BY <3>1, <3>2
        <3>5. Bit(e = h) \in Nat  BY DEF Bit
        <3> HIDE DEF now, done, apart, before, h, Goal
        <3>6. QED  BY <1>1, <1>sums, <1>total, <3>2, <3>3, <3>4, <3>5
    <2>3. QED  BY <1>11, <2>1, <2>2 DEF TimesOut
<1>12. ASSUME CarriedBatch PROVE Goal
    <2>1. /\ Queued("normal", e)' + Count(current', e) = Queued("normal", e) + Count(batch, e)
          /\ Queued("normal", e)' \in Nat /\ Count(current', e) \in Nat
          /\ Queued("low", e)' = Queued("low", e)
          /\ Count(batch', e) = 0
          /\ \/ Queued("high", e)' = Queued("high", e) /\ UNCHANGED lost
             \/ /\ asyncQ["high"] # <<>>
                /\ Queued("high", e)' = Queued("high", e) - Bit(e = Head(asyncQ["high"]))
                /\ lost' = lost \union ({Head(asyncQ["high"])} \ {Summary})
        BY <1>12, CarriedBatchAccount
    <2>2. current = <<>> /\ UNCHANGED <<accepted, settled, buffer, summarised>>
        BY <1>12 DEF IInv, Control, CarriedBatch, intake
    <2>3. Count(current, e) = 0  BY <1>4, <2>2, Zenon
    <2>4. /\ Count(settled', e) = Count(settled, e) /\ Accepted' = Accepted
          /\ Member(buffer, e)' = Member(buffer, e)
          /\ Member(summarised, e)' = Member(summarised, e)
        BY <2>2 DEF Accepted, Member
    <2>5. Queued("high", e)' + Member(lost, e)' = Queued("high", e) + Member(lost, e)
        <3>1. CASE Queued("high", e)' = Queued("high", e) /\ UNCHANGED lost
            <4>1. Member(lost, e)' = Member(lost, e)  BY <3>1 DEF Member
            <4>2. QED  BY <3>1, <4>1
        <3>2. CASE /\ asyncQ["high"] # <<>>
                   /\ Queued("high", e)' = Queued("high", e) - Bit(e = Head(asyncQ["high"]))
                   /\ lost' = lost \union ({Head(asyncQ["high"])} \ {Summary})
            <4>1. e = Head(asyncQ["high"]) => Member(lost, e) = 0
                <5> SUFFICES ASSUME e = Head(asyncQ["high"]) PROVE Member(lost, e) = 0
                    OBVIOUS
                <5>1. asyncQ["high"] \in Seq(Items)  BY <1>0, <1>4, Lengths
                <5>2. Count(asyncQ["high"], e) > 0  BY <3>2, <5>1, HeadCounted
                <5>3. Queued("high", e) > 0  BY <1>0, <1>4, <5>2, QueuedParts
                <5>4. Apart(e) = 0  BY <1>1, <1>2, <5>3
                <5>5. QED  BY <5>4 DEF Apart, Member
            <4>2. e # Summary  BY Numbers
            <4>3. Member(lost, e)' = Member(lost, e) + Bit(e = Head(asyncQ["high"]))
                BY <3>2, <4>1, <4>2 DEF Member, Bit
            <4>4. QED  BY <1>1, <3>2, <4>3 DEF Member, Bit
        <3>3. QED  BY <2>1, <3>1, <3>2
    <2> DEFINE qh == Queued("high", e)'
               ml == Member(lost, e)'
    <2>6. qh \in Nat /\ ml \in Nat
        <3>1. TypeOK'  BY <1>12, TypeOKStep DEF Next, Process
        <3>2. asyncQ'["high"] \in Seq(Items) /\ threadQ'["high"] \in Seq(Items) /\ hand'["high"] \in Seq(Items)
            BY <1>4, <3>1 DEF TypeOK
        <3>3. /\ Count(asyncQ'["high"], e) \in Nat /\ Count(threadQ'["high"], e) \in Nat
              /\ Count(hand'["high"], e) \in Nat
            BY <3>2, CountType
        <3>4. QED  BY <3>3 DEF Queued, Member
    <2>7. Apart(e)' = Member(buffer, e) + Member(summarised, e) + ml
        BY <2>4 DEF Apart
    <2>8. Apart(e) = Member(buffer, e) + Member(summarised, e) + Member(lost, e)
        BY DEF Apart
    <2>9. qh + ml = Queued("high", e) + Member(lost, e)  BY <2>5
    <2>10. Member(buffer, e) \in Nat /\ Member(summarised, e) \in Nat /\ Member(lost, e) \in Nat
        BY DEF Member
    <2> DEFINE tt == Occurrences(e)'
               qn == Queued("normal", e)'
               cc == Count(current', e)
    <2>11. tt = qh + qn + Queued("low", e) + (0 + cc + Count(settled, e))
                  + (Member(buffer, e) + Member(summarised, e) + ml)
        BY <1>3, <2>1, <2>4, <2>7
    <2>12. qn + cc = Queued("normal", e) + Count(batch, e) /\ qn \in Nat /\ cc \in Nat
        BY <2>1
    <2> HIDE DEF qh, ml, tt, qn, cc
    <2>13. tt = Queued("high", e) + Queued("normal", e) + Queued("low", e) + Processed(e) + Apart(e)
        BY <1>1, <2>3, <2>6, <2>8, <2>9, <2>10, <2>11, <2>12
    <2>14. QED  BY <1>2, <2>4, <2>13 DEF tt
<1>13. ASSUME NormalGet PROVE Goal
    <2>1. /\ Queued("normal", e)' + Count(current', e) = Queued("normal", e)
          /\ Queued("normal", e)' \in Nat /\ Count(current', e) \in Nat
          /\ Queued("low", e)' = Queued("low", e) /\ Queued("high", e)' = Queued("high", e)
          /\ Count(batch', e) = 0
        BY <1>13, NormalGetAccount
    <2>2. batch = <<>> /\ current = <<>> /\ UNCHANGED <<accepted, settled, buffer, summarised, lost>>
        BY <1>13 DEF IInv, Control, NormalGet, intake, history
    <2>3. Count(batch, e) = 0 /\ Count(current, e) = 0  BY <1>4, <2>2, Zenon
    <2>4. Count(settled', e) = Count(settled, e) /\ Apart(e)' = Apart(e) /\ Accepted' = Accepted
        BY <2>2, Unmoved DEF Accepted
    <2> DEFINE qn == Queued("normal", e)'
    <2>5. /\ now = Queued("high", e) + qn + Queued("low", e)
          /\ s = Count(settled, e) /\ apart = Apart(e) /\ b = 0
          /\ qn \in Nat /\ c \in Nat /\ qn + c = Queued("normal", e)
        BY <2>1, <2>4
    <2> HIDE DEF now, done, apart, b, c, s, Goal, qn
    <2>6. now + done = before + Processed(e)
        BY <1>1, <1>sums, <2>3, <2>5
    <2>7. QED  BY <1>total, <2>4, <2>5, <2>6
<1>14. ASSUME FinalBatch PROVE Goal
    <2>1. /\ current = <<>> /\ current' = batch /\ batch' = <<>>
          /\ UNCHANGED <<accepted, settled, buffer, summarised, lost, threadQ, hand, asyncQ>>
        BY <1>14 DEF IInv, Control, FinalBatch, Deliver, intake, history
    <2>2. /\ Count(batch', e) = 0 /\ Count(current', e) = Count(batch, e) /\ Count(current, e) = 0
        BY <1>4, <2>1, Zenon
    <2>3. /\ Count(settled', e) = Count(settled, e) /\ Apart(e)' = Apart(e) /\ Accepted' = Accepted
          /\ \A r \in Priority : Queued(r, e)' = Queued(r, e)
        BY <2>1, Unmoved DEF Accepted
    <2>4. /\ now = before /\ apart = Apart(e) /\ b = 0 /\ c = Count(batch, e)
          /\ s = Count(settled, e)
        BY <1>same, <2>2, <2>3
    <2> HIDE DEF now, done, apart, before, b, c, s, Goal
    <2>5. done = Processed(e)  BY <1>1, <1>sums, <2>2, <2>4
    <2>6. QED  BY <1>total, <2>3, <2>4, <2>5
<1>15. ASSUME DeliveryEnds PROVE Goal
    <2>1. /\ current' = <<>> /\ settled' = (IF current = <<Summary>> THEN settled ELSE settled \o current)
          /\ UNCHANGED <<accepted, batch, buffer, summarised, lost, threadQ, hand, asyncQ>>
        BY <1>15 DEF DeliveryEnds, intake
    <2>2. Count(batch', e) = Count(batch, e) /\ Count(current', e) = 0
        BY <1>4, <2>1, Zenon
    <2>3. Count(settled', e) = Count(settled, e) + Count(current, e)  BY <1>15, DeliveredCounted
    <2>4. /\ Apart(e)' = Apart(e) /\ Accepted' = Accepted
          /\ \A r \in Priority : Queued(r, e)' = Queued(r, e)
        BY <2>1, Unmoved DEF Accepted
    <2>5. /\ now = before /\ apart = Apart(e) /\ b = Count(batch, e) /\ c = 0
          /\ s = Count(settled, e) + Count(current, e)
        BY <1>same, <2>2, <2>3, <2>4
    <2> HIDE DEF now, done, apart, before, b, c, s, Goal
    <2>6. done = Processed(e)  BY <1>1, <1>sums, <2>5
    <2>7. QED  BY <1>total, <2>4, <2>5, <2>6
<1>16. ASSUME ThreadEnds PROVE Goal
    <2>1. /\ \A p \in Priority : Queued(p, e)' = Count(threadQ[p], e)
          /\ Processed(e)' = Count(settled, e)
          /\ Member(buffer, e)' = Member(buffer, e)
          /\ Member(summarised, e)' = Member(summarised, e)
          /\ Member(lost, e)' =
               Bit(\/ e \in lost \/ Count(batch, e) > 0 \/ Count(current, e) > 0
                   \/ \E p \in Priority : Count(hand[p], e) > 0 \/ Count(asyncQ[p], e) > 0)
        BY <1>16, ThreadEndsAccount
    <2>2. Accepted' = Accepted  BY <1>16 DEF ThreadEnds, intake, Accepted
    <2>3. ASSUME NEW p \in Priority
          PROVE  /\ Count(threadQ[p], e) \in Nat /\ Count(hand[p], e) \in Nat
                 /\ Count(asyncQ[p], e) \in Nat
                 /\ Queued(p, e) = Count(threadQ[p], e) + Count(hand[p], e) + Count(asyncQ[p], e)
        BY <1>0, QueuedParts
    <2>4. Apart(e)' = Member(buffer, e) + Member(summarised, e) + Member(lost, e)'
        BY <2>1 DEF Apart
    <2>5. Apart(e) = Member(buffer, e) + Member(summarised, e) + Member(lost, e)
        BY DEF Apart
    <2>6. (e \in lost <=> Member(lost, e) = 1) /\ Member(lost, e) \in {0, 1}
          /\ Member(buffer, e) \in {0, 1} /\ Member(summarised, e) \in {0, 1}
        BY DEF Member
    <2>7. Occurrences(e)' = Count(threadQ["high"], e) + Count(threadQ["normal"], e)
                              + Count(threadQ["low"], e) + Count(settled, e)
                              + (Member(buffer, e) + Member(summarised, e) + Member(lost, e)')
        BY <1>3, <1>4, <2>1, <2>4
    <2> DEFINE ml == Member(lost, e)'
               tt == Occurrences(e)'
               gone == \/ e \in lost \/ Count(batch, e) > 0 \/ Count(current, e) > 0
                       \/ Count(hand["high"], e) > 0 \/ Count(asyncQ["high"], e) > 0
                       \/ Count(hand["normal"], e) > 0 \/ Count(asyncQ["normal"], e) > 0
                       \/ Count(hand["low"], e) > 0 \/ Count(asyncQ["low"], e) > 0
    <2>8. ml = IF gone THEN 1 ELSE 0
        <3>1. (\E p \in Priority : Count(hand[p], e) > 0 \/ Count(asyncQ[p], e) > 0)
                <=> \/ Count(hand["high"], e) > 0 \/ Count(asyncQ["high"], e) > 0
                    \/ Count(hand["normal"], e) > 0 \/ Count(asyncQ["normal"], e) > 0
                    \/ Count(hand["low"], e) > 0 \/ Count(asyncQ["low"], e) > 0
            BY DEF Priority
        <3>2. gone <=> \/ e \in lost \/ Count(batch, e) > 0 \/ Count(current, e) > 0
                       \/ \E p \in Priority : Count(hand[p], e) > 0 \/ Count(asyncQ[p], e) > 0
            BY <3>1
        <3> HIDE DEF gone
        <3>3. ml = Bit(gone)  BY <2>1, <3>2
        <3>4. QED  BY <3>3 DEF Bit
    <2>9. tt = Count(threadQ["high"], e) + Count(threadQ["normal"], e)
                 + Count(threadQ["low"], e) + Count(settled, e)
                 + (Member(buffer, e) + Member(summarised, e) + ml)
        BY <2>7
    <2>10. /\ Count(threadQ["high"], e) \in Nat /\ Count(hand["high"], e) \in Nat
           /\ Count(asyncQ["high"], e) \in Nat
           /\ Queued("high", e) = Count(threadQ["high"], e) + Count(hand["high"], e) + Count(asyncQ["high"], e)
           /\ Count(threadQ["normal"], e) \in Nat /\ Count(hand["normal"], e) \in Nat
           /\ Count(asyncQ["normal"], e) \in Nat
           /\ Queued("normal", e) = Count(threadQ["normal"], e) + Count(hand["normal"], e) + Count(asyncQ["normal"], e)
           /\ Count(threadQ["low"], e) \in Nat /\ Count(hand["low"], e) \in Nat
           /\ Count(asyncQ["low"], e) \in Nat
           /\ Queued("low", e) = Count(threadQ["low"], e) + Count(hand["low"], e) + Count(asyncQ["low"], e)
        BY <1>4, <2>3
    <2> HIDE DEF ml, tt
    <2>11. tt = Queued("high", e) + Queued("normal", e) + Queued("low", e) + Processed(e) + Apart(e)
        <3> DEFINE dropped == Member(lost, e) + Count(batch, e) + Count(current, e)
                     + Count(hand["high"], e) + Count(asyncQ["high"], e)
                     + Count(hand["normal"], e) + Count(asyncQ["normal"], e)
                     + Count(hand["low"], e) + Count(asyncQ["low"], e)
                   left == Count(threadQ["high"], e) + Count(threadQ["normal"], e)
                     + Count(threadQ["low"], e) + Count(settled, e)
                     + (Member(buffer, e) + Member(summarised, e))
        <3>1. dropped \in Nat /\ left \in Nat /\ (gone <=> dropped > 0)
            <4>1. left \in Nat  BY <1>1, <2>6, <2>10
            <4>2. dropped \in Nat  BY <1>1, <2>6, <2>10
            <4>3. gone <=> dropped > 0
                <5>1. e \in lost <=> Member(lost, e) > 0  BY <2>6
                <5>2. QED  BY <1>1, <2>6, <2>10, <5>1
            <4> HIDE DEF gone, dropped, left
            <4>4. QED  BY <4>1, <4>2, <4>3
        <3>2. tt = left + ml
            <4>1. ml \in Nat  BY <2>8
            <4> HIDE DEF gone
            <4>2. QED  BY <1>1, <2>6, <2>9, <2>10, <4>1
        <3>3. Queued("high", e) + Queued("normal", e) + Queued("low", e) + Processed(e) + Apart(e)
                = left + dropped
            <4> HIDE DEF gone
            <4> QED  BY <1>1, <2>5, <2>6, <2>10
        <3> HIDE DEF dropped, left, gone
        <3>4. left + dropped <= 1  BY <1>2, <3>3
        <3>5. ml = dropped  BY <2>8, <3>1, <3>4
        <3>6. QED  BY <3>2, <3>3, <3>5
    <2>12. QED  BY <1>2, <2>2, <2>11 DEF tt
<1>17. ASSUME Process PROVE Goal
    <2>1. {"high", "normal", "low"} \subseteq Priority  BY <1>4
    <2>2. ASSUME HighTimeout PROVE Goal  BY <1>11, <2>1, <2>2 DEF HighTimeout, intake
    <2>3. ASSUME NormalTimeout PROVE Goal  BY <1>11, <2>1, <2>3 DEF NormalTimeout, intake
    <2>4. ASSUME SecondTimeout PROVE Goal  BY <1>11, <2>1, <2>4 DEF SecondTimeout, intake
    <2>5. ASSUME LowTimeout PROVE Goal  BY <1>11, <2>1, <2>5 DEF LowTimeout, intake
    <2>6. ASSUME CallSucceeds PROVE Goal  BY <1>5, <2>6 DEF CallSucceeds, intake
    <2>7. ASSUME CallFails PROVE Goal  BY <1>5, <2>7 DEF CallFails, intake, history
    <2> HIDE DEF Goal
    <2>8. QED
        BY <1>10, <1>12, <1>13, <1>14, <1>15, <1>17, <2>2, <2>3, <2>4, <2>5, <2>6, <2>7 DEF Process
<1>18. ASSUME Start PROVE Goal  BY <1>5, <1>18 DEF Start, intake, history
<1>19. ASSUME NEW x \in Subs, NEW y \in Types, Subscribe(x, y) \/ Unsubscribe(x, y) PROVE Goal
    BY <1>5, <1>19 DEF Subscribe, Unsubscribe, intake, processor, history
<1>20. ASSUME UNCHANGED vars PROVE Goal  BY <1>5, <1>20 DEF vars, intake, processor, history
<1> HIDE DEF Goal
<1>21. Goal
    BY <1>6, <1>7, <1>8, <1>9, <1>16, <1>17, <1>18, <1>19, <1>20 DEF Next, Emit
<1>22. QED  BY <1>21 DEF Goal

-----------------------------------------------------------------------------
(* The places of the processor *)

\* Every step keeps what the control states say.
LEMMA ControlStep == ASSUME IInv, [Next]_vars PROVE Control'
<1>0. Control /\ PlaceTyped  BY TypeParts DEF IInv, Typed
<1>1. ASSUME UNCHANGED <<processor, phase>> PROVE Control'
    BY <1>0, <1>1 DEF Control, processor
<1>2. ASSUME NEW kind \in Kinds, Emit(kind) PROVE Control'
    BY <1>1, <1>2 DEF Emit, EmitQueued, EmitBuffered, control
<1>3. ASSUME NEW p \in Priority, Bridge(p) PROVE Control'
    BY <1>1, <1>3 DEF Bridge, BridgeMove, BridgePut, control
<1>4. ASSUME HighGet \/ LowGet PROVE Control'
    BY <1>0, <1>4 DEF HighGet, LowGet, Deliver, Control, control
<1>5. ASSUME CarriedBatch \/ NormalGet \/ FinalBatch PROVE Control'
    BY <1>0, <1>5 DEF CarriedBatch, NormalGet, FinalBatch, ProcessBatch, Deliver, Control, control
<1>6. ASSUME HighTimeout \/ NormalTimeout \/ SecondTimeout PROVE Control'
    BY <1>0, <1>6 DEF HighTimeout, NormalTimeout, SecondTimeout, Control, control
<1>7. ASSUME SecondGet \/ LowTimeout PROVE Control'
    BY <1>0, <1>7 DEF SecondGet, LowTimeout, Round, Control, control
<1>8. ASSUME CallSucceeds \/ CallFails PROVE Control'
    BY <1>0, <1>8 DEF CallSucceeds, CallFails, Control, control
<1>9. ASSUME DeliveryEnds PROVE Control'
    BY <1>0, <1>9 DEF DeliveryEnds, Round, Control, PlaceTyped, control
<1>10. ASSUME Start \/ Stop \/ ThreadEnds PROVE Control'
    BY <1>0, <1>10 DEF Start, Stop, ThreadEnds, Control, control, processor
<1>11. ASSUME NEW s \in Subs, NEW t \in Types, Subscribe(s, t) \/ Unsubscribe(s, t)
       PROVE  Control'
    BY <1>1, <1>11 DEF Subscribe, Unsubscribe
<1>12. ASSUME UNCHANGED vars PROVE Control'
    BY <1>1, <1>12 DEF vars, control
<1>13. QED
    BY <1>2, <1>3, <1>4, <1>5, <1>6, <1>7, <1>8, <1>9, <1>10, <1>11, <1>12 DEF Next, Process

-----------------------------------------------------------------------------
(* What the queues hold *)

\* An event keeps its kind, and what the queues held has one already.
LEMMA KindsKept ==
    ASSUME IInv, [Next]_vars, NEW e \in Accepted
    PROVE  e \in Accepted' /\ TypeOf(e)' = TypeOf(e) /\ PriorityOf(e)' = PriorityOf(e)
<1>0. TypeOK  BY DEF IInv
<1>1. CASE \E kind \in Kinds : Emit(kind)
    <2>1. PICK kind \in Kinds : Accept(kind)  BY <1>1 DEF Emit, EmitQueued, EmitBuffered
    <2>2. e \in Accepted' /\ accepted'[e] = accepted[e]  BY <1>0, <2>1, AcceptEffect
    <2>3. QED  BY <2>2 DEF TypeOf, PriorityOf
<1>2. CASE UNCHANGED accepted
    BY <1>2 DEF Accepted, TypeOf, PriorityOf
<1>3. ~(\E kind \in Kinds : Emit(kind)) => UNCHANGED accepted
    BY DEF Next, vars, Bridge, BridgeMove, BridgePut, Process, HighGet, HighTimeout, CarriedBatch,
           NormalGet, NormalTimeout, SecondGet, SecondTimeout, LowGet, LowTimeout,
           CallSucceeds, CallFails, DeliveryEnds, FinalBatch, Start, Stop, ThreadEnds,
           Subscribe, Unsubscribe, intake
<1>4. QED  BY <1>1, <1>2, <1>3

\* After a step that keeps the types, counts are numbers.
LEMMA CountsNext ==
    ASSUME TypeOK', NEW x
    PROVE  /\ \A p \in Priority : Queued(p, x)' \in Nat
           /\ Count(batch', x) \in Nat /\ Count(current', x) \in Nat /\ Count(settled', x) \in Nat
<1>1. ASSUME NEW p \in Priority PROVE Queued(p, x)' \in Nat
    <2>1. threadQ'[p] \in Seq(Items) /\ hand'[p] \in Seq(Items) /\ asyncQ'[p] \in Seq(Items)
        BY DEF TypeOK
    <2>2. Count(threadQ'[p], x) \in Nat /\ Count(hand'[p], x) \in Nat /\ Count(asyncQ'[p], x) \in Nat
        BY <2>1, CountType
    <2>3. QED  BY <2>2 DEF Queued
<1>2. batch' \in Seq(Events) /\ current' \in Seq(Items) /\ settled' \in Seq(Events)
    BY DEF TypeOK
<1>3. QED  BY <1>1, <1>2, CountType

\* What is in a queue after a step was there before, or in a batch of which
\* the filler puts the rest back, or has just been accepted.
LEMMA QueuedBefore ==
    ASSUME IInv, [Next]_vars, NEW p \in Priority, NEW x, x # Summary \/ p # "low",
           Queued(p, x)' > 0
    PROVE  \/ Queued(p, x) > 0
           \/ p = "normal" /\ Count(batch, x) > 0
           \/ \E kind \in Kinds : EmitQueued(kind) /\ p = kind.priority /\ x = Len(accepted) + 1
<1> DEFINE Goal == \/ Queued(p, x) > 0
                   \/ p = "normal" /\ Count(batch, x) > 0
                   \/ \E kind \in Kinds :
                        EmitQueued(kind) /\ p = kind.priority /\ x = Len(accepted) + 1
           now == Queued(p, x)'
<1>0. /\ TypeOK /\ Queued(p, x) \in Nat /\ Count(batch, x) \in Nat
      /\ now \in Nat /\ now > 0
    BY TypeOKStep, CountsTyped, CountsNext DEF IInv
<1>1. "high" \in Priority /\ "normal" \in Priority /\ "low" \in Priority /\ Priority = {"high", "normal", "low"}
    BY DEF Priority
<1>2. ASSUME UNCHANGED <<threadQ, hand, asyncQ>> PROVE Goal
    BY <1>0, <1>2, Unmoved
<1>3. ASSUME NEW kind \in Kinds, EmitQueued(kind) PROVE Goal
    <2>1. now = Queued(p, x) + Bit(p = kind.priority /\ x = Len(accepted) + 1)
        BY <1>0, <1>3, EmitQueuedAccount
    <2> HIDE DEF now
    <2>2. CASE p = kind.priority /\ x = Len(accepted) + 1  BY <1>3, <2>2
    <2>3. CASE ~(p = kind.priority /\ x = Len(accepted) + 1)
        <3>1. Bit(p = kind.priority /\ x = Len(accepted) + 1) = 0  BY <2>3, Zenon DEF Bit
        <3>2. QED  BY <1>0, <2>1, <3>1
    <2>4. QED  BY <2>2, <2>3
<1>4. ASSUME NEW events \in SUBSET Events, Flush(events), UNCHANGED <<hand, asyncQ>> PROVE Goal
    BY <1>0, <1>4, FlushAccount
<1>5. ASSUME NEW kind \in Kinds, EmitBuffered(kind) PROVE Goal
    <2>1. Len(accepted) + 1 \in Events /\ buffer \subseteq Events
        BY <1>0, <1>5, AcceptEffect DEF EmitBuffered, TypeOK
    <2>2. buffer \union {Len(accepted) + 1} \in SUBSET Events  BY <2>1
    <2> HIDE DEF Goal
    <2>3. QED  BY <1>2, <1>4, <1>5, <2>2 DEF EmitBuffered
<1>6. ASSUME NEW r \in Priority, Bridge(r) PROVE Goal
    BY <1>0, <1>6, BridgeAccount
<1>7. ASSUME HighGet \/ LowGet \/ SecondGet PROVE Goal
    <2>1. PICK r \in Priority : \A k \in Priority :
            Queued(k, x)' = Queued(k, x) - Bit(k = r /\ x = Head(asyncQ[r]))
        BY <1>7, SingleAccount
    <2> DEFINE out == Bit(p = r /\ x = Head(asyncQ[r]))
    <2>2. out \in Nat  BY DEF Bit
    <2>3. now = Queued(p, x) - out  BY <2>1
    <2> HIDE DEF out, now
    <2>4. QED  BY <1>0, <2>2, <2>3
<1>8. ASSUME NEW r \in Priority, TimesOut(r), UNCHANGED <<threadQ, hand>> PROVE Goal
    <2>1. CASE UNCHANGED asyncQ  BY <1>2, <1>8, <2>1
    <2>2. CASE Discard(r)
        <3>1. asyncQ[r] # <<>> /\ asyncQ' = [asyncQ EXCEPT ![r] = Tail(@)]  BY <2>2 DEF Discard
        <3> DEFINE out == Bit(p = r /\ x = Head(asyncQ[r]))
        <3>2. now = Queued(p, x) - out  BY <1>8, <3>1, TakenOut
        <3>3. out \in Nat  BY DEF Bit
        <3> HIDE DEF out, now
        <3>4. QED  BY <1>0, <3>2, <3>3
    <2>3. QED  BY <1>8, <2>1, <2>2 DEF TimesOut
<1>9. ASSUME CarriedBatch PROVE Goal
    <2>1. /\ Queued("normal", x)' + Count(current', x) = Queued("normal", x) + Count(batch, x)
          /\ Queued("normal", x)' \in Nat /\ Count(current', x) \in Nat
          /\ Queued("low", x)' = Queued("low", x)
          /\ \/ Queued("high", x)' = Queued("high", x)
             \/ Queued("high", x)' = Queued("high", x) - Bit(x = Head(asyncQ["high"]))
        BY <1>9, CarriedBatchAccount
    <2>2. CASE p = "normal"
        <3> DEFINE c == Count(current', x)
        <3>1. now + c = Queued(p, x) + Count(batch, x) /\ c \in Nat  BY <2>1, <2>2
        <3> HIDE DEF now, c
        <3>2. Queued(p, x) > 0 \/ Count(batch, x) > 0  BY <1>0, <3>1
        <3>3. QED  BY <2>2, <3>2
    <2>3. CASE p = "low"  BY <1>0, <2>1, <2>3
    <2>4. CASE p = "high"
        <3> DEFINE out == Bit(x = Head(asyncQ["high"]))
        <3>1. now = Queued(p, x) \/ now = Queued(p, x) - out  BY <2>1, <2>4
        <3>2. out \in Nat  BY DEF Bit
        <3> HIDE DEF now, out
        <3>3. QED  BY <1>0, <3>1, <3>2
    <2>5. QED  BY <1>1, <2>2, <2>3, <2>4
<1>10. ASSUME NormalGet PROVE Goal
    <2>1. /\ Queued("normal", x)' + Count(current', x) = Queued("normal", x)
          /\ Count(current', x) \in Nat
          /\ Queued("low", x)' = Queued("low", x) /\ Queued("high", x)' = Queued("high", x)
        BY <1>10, NormalGetAccount
    <2>2. CASE p = "normal"
        <3> DEFINE c == Count(current', x)
        <3>1. now + c = Queued(p, x) /\ c \in Nat  BY <2>1, <2>2
        <3> HIDE DEF now, c
        <3>2. QED  BY <1>0, <3>1
    <2>3. CASE p # "normal"  BY <1>0, <1>1, <2>1, <2>3
    <2>4. QED  BY <2>2, <2>3
<1>11. ASSUME ThreadEnds PROVE Goal
    <2>1. Queued(p, x)' = Count(threadQ[p], x) + Count(<<>>, x) + Count(<<>>, x)
        <3>1. hand'[p] = <<>> /\ asyncQ'[p] = <<>> /\ threadQ' = threadQ
            BY <1>11 DEF ThreadEnds, Empty
        <3>2. QED  BY <3>1, Zenon DEF Queued
    <2>2. Queued(p, x) >= Count(threadQ[p], x) /\ Count(threadQ[p], x) \in Nat
        BY <1>0, QueuedParts
    <2>3. now = Count(threadQ[p], x)  BY <2>1, <2>2, CountEmpty
    <2> HIDE DEF now
    <2>4. QED  BY <1>0, <2>2, <2>3
<1>12. ASSUME Process PROVE Goal
    <2>1. ASSUME HighTimeout PROVE Goal  BY <1>1, <1>8, <2>1 DEF HighTimeout
    <2>2. ASSUME NormalTimeout PROVE Goal  BY <1>1, <1>8, <2>2 DEF NormalTimeout
    <2>3. ASSUME SecondTimeout PROVE Goal  BY <1>1, <1>8, <2>3 DEF SecondTimeout
    <2>4. ASSUME LowTimeout PROVE Goal  BY <1>1, <1>8, <2>4 DEF LowTimeout
    <2>5. ASSUME CallSucceeds \/ CallFails \/ DeliveryEnds \/ FinalBatch PROVE Goal
        BY <1>2, <2>5 DEF CallSucceeds, CallFails, DeliveryEnds, FinalBatch
    <2> HIDE DEF Goal
    <2>6. QED  BY <1>7, <1>9, <1>10, <1>12, <2>1, <2>2, <2>3, <2>4, <2>5 DEF Process
<1>13. ASSUME Start \/ Stop \/ ThreadEnds PROVE Goal
    <2>1. buffer \in SUBSET Events  BY <1>0 DEF TypeOK
    <2> HIDE DEF Goal
    <2>2. QED  BY <1>2, <1>4, <1>11, <1>13, <2>1 DEF Start, Stop
<1>14. ASSUME NEW s \in Subs, NEW t \in Types, Subscribe(s, t) \/ Unsubscribe(s, t) PROVE Goal
    BY <1>2, <1>14 DEF Subscribe, Unsubscribe
<1>15. ASSUME UNCHANGED vars PROVE Goal  BY <1>2, <1>15 DEF vars
<1> HIDE DEF Goal
<1>16. Goal
    BY <1>3, <1>5, <1>6, <1>12, <1>13, <1>14, <1>15 DEF Next, Emit
<1>17. QED  BY <1>16 DEF Goal

\* A step changes the carried batch only by emptying it, or by carrying the
\* next normal event.
LEMMA BatchAfter ==
    ASSUME IInv, [Next]_vars
    PROVE  \/ batch' = batch \/ batch' = <<>>
           \/ /\ asyncQ["normal"] # <<>> /\ batch' = <<Head(asyncQ["normal"])>>
<1> DEFINE Goal == \/ batch' = batch \/ batch' = <<>>
                   \/ asyncQ["normal"] # <<>> /\ batch' = <<Head(asyncQ["normal"])>>
<1>1. ASSUME CarriedBatch \/ NormalGet \/ FinalBatch \/ SecondGet \/ ThreadEnds PROVE Goal
    BY <1>1 DEF CarriedBatch, NormalGet, ProcessBatch, FinalBatch, SecondGet, ThreadEnds
<1>2. ASSUME UNCHANGED batch PROVE Goal  BY <1>2
<1>3. CarriedBatch \/ NormalGet \/ FinalBatch \/ SecondGet \/ ThreadEnds \/ UNCHANGED batch
    BY DEF Next, vars, Emit, EmitQueued, EmitBuffered, Bridge, BridgeMove, BridgePut, Process,
           HighGet, HighTimeout, NormalTimeout, SecondTimeout, LowGet, LowTimeout,
           CallSucceeds, CallFails, DeliveryEnds, Start, Stop, Subscribe, Unsubscribe, processor
<1> HIDE DEF Goal
<1>4. Goal  BY <1>1, <1>2, <1>3
<1>5. QED  BY <1>4 DEF Goal

\* What comes under delivery: one event from the front of a queue, a batch of
\* normal events, or the batch that was carried.
LEMMA CurrentAfter ==
    ASSUME IInv, [Next]_vars
    PROVE  \/ current' = current \/ current' = <<>>
           \/ (HighGet \/ LowGet) /\ \E p \in Priority : asyncQ[p] # <<>> /\ current' = <<Head(asyncQ[p])>>
           \/ CarriedBatch \/ NormalGet
           \/ FinalBatch /\ current' = batch
<1> DEFINE Goal == \/ current' = current \/ current' = <<>>
                   \/ /\ HighGet \/ LowGet
                      /\ \E p \in Priority : asyncQ[p] # <<>> /\ current' = <<Head(asyncQ[p])>>
                   \/ CarriedBatch \/ NormalGet
                   \/ FinalBatch /\ current' = batch
<1>1. ASSUME HighGet \/ LowGet PROVE Goal
    BY <1>1 DEF HighGet, LowGet, Deliver, Priority
<1>2. ASSUME CarriedBatch \/ NormalGet \/ FinalBatch \/ DeliveryEnds \/ ThreadEnds PROVE Goal
    BY <1>2 DEF FinalBatch, Deliver, DeliveryEnds, ThreadEnds
<1>3. ASSUME UNCHANGED current PROVE Goal  BY <1>3
<1>4. \/ HighGet \/ LowGet \/ CarriedBatch \/ NormalGet \/ FinalBatch \/ DeliveryEnds \/ ThreadEnds
      \/ UNCHANGED current
    BY DEF Next, vars, Emit, EmitQueued, EmitBuffered, Bridge, BridgeMove, BridgePut, Process,
           HighTimeout, NormalTimeout, SecondGet, SecondTimeout, LowTimeout,
           CallSucceeds, CallFails, Start, Stop, Subscribe, Unsubscribe, processor
<1> HIDE DEF Goal
<1>5. Goal  BY <1>1, <1>2, <1>3, <1>4
<1>6. QED  BY <1>5 DEF Goal

\* Every step keeps the queues sorted by arrival, but for what was put back.
LEMMA SortedStep == ASSUME IInv, [Next]_vars PROVE Sorted'
<1>0. TypeOK /\ TypeOK' /\ ExactlyOnePlace /\ Sorted  BY TypeOKStep DEF IInv
<1>1. "high" \in Priority /\ "normal" \in Priority /\ "low" \in Priority  BY DEF Priority
<1>2. ASSUME NEW e \in Events, Count(batch, e) > 0 PROVE e \in Accepted
    <2>1. Processed(e) > 0  BY <1>0, <1>2, CountsTyped DEF Processed
    <2>2. QED  BY <1>0, <2>1, OnTheWayAccepted
<1>3. ASSUME NEW p \in Priority, NEW e \in Events, Queued(p, e)' > 0
      PROVE  PriorityOf(e)' = p
    <2>1. e # Summary  BY Numbers
    <2>2. \/ Queued(p, e) > 0
          \/ p = "normal" /\ Count(batch, e) > 0
          \/ \E kind \in Kinds : EmitQueued(kind) /\ p = kind.priority /\ e = Len(accepted) + 1
        BY <1>3, <2>1, QueuedBefore
    <2>3. CASE Queued(p, e) > 0
        <3>1. e \in Accepted /\ PriorityOf(e) = p
            BY <1>0, <2>3, OnTheWayAccepted DEF Sorted
        <3>2. QED  BY <3>1, KindsKept
    <2>4. CASE p = "normal" /\ Count(batch, e) > 0
        <3>1. e \in Accepted /\ PriorityOf(e) = p  BY <1>0, <1>2, <2>4 DEF Sorted
        <3>2. QED  BY <3>1, KindsKept
    <2>5. CASE \E kind \in Kinds : EmitQueued(kind) /\ p = kind.priority /\ e = Len(accepted) + 1
        <3>1. PICK kind \in Kinds : EmitQueued(kind) /\ p = kind.priority /\ e = Len(accepted) + 1
            BY <2>5
        <3>2. accepted'[e] = kind  BY <1>0, <3>1, AcceptEffect DEF EmitQueued
        <3>3. QED  BY <3>1, <3>2 DEF PriorityOf
    <2>6. QED  BY <2>2, <2>3, <2>4, <2>5
<1>4. ASSUME NEW e \in Events, Count(batch', e) > 0
      PROVE  PriorityOf(e)' = "normal"
    <2>1. CASE batch' = batch
        <3>1. Count(batch, e) > 0  BY <1>4, <2>1
        <3>2. e \in Accepted /\ PriorityOf(e) = "normal"  BY <1>0, <1>2, <3>1 DEF Sorted
        <3>3. QED  BY <3>2, KindsKept
    <2>2. CASE batch' = <<>>
        <3>1. Count(batch', e) = Count(<<>>, e)  BY <2>2, Zenon
        <3>2. QED  BY <1>4, <3>1, CountEmpty
    <2>3. CASE asyncQ["normal"] # <<>> /\ batch' = <<Head(asyncQ["normal"])>>
        <3> DEFINE h == Head(asyncQ["normal"])
        <3>1. h \in Events /\ h \in Accepted /\ PriorityOf(h) = "normal"
            BY <1>1, <2>3, HeadOfQueue, Numbers
        <3>2. batch' = <<h>>  BY <2>3
        <3> HIDE DEF h
        <3>3. Count(batch', e) = Count(<<h>>, e)  BY <3>2, Zenon
        <3>4. e = h  BY <1>4, <3>3, CountOne
        <3>5. QED  BY <3>1, <3>4, KindsKept
    <2>4. QED  BY <2>1, <2>2, <2>3, BatchAfter
<1>5. Count(batch, Summary) = 0
    <2>1. \A i \in 1..Len(batch) : batch[i] # Summary
        BY <1>0, ElementOfSeq, Numbers DEF TypeOK
    <2>2. batch \in Seq(Events)  BY <1>0 DEF TypeOK
    <2>3. QED  BY <2>1, <2>2, CountZero
<1>6. Queued("normal", Summary)' = 0
    <2>1. Queued("normal", Summary) = 0  BY <1>0 DEF Sorted
    <2>2. ~(Queued("normal", Summary)' > 0)
        <3> SUFFICES ASSUME Queued("normal", Summary)' > 0 PROVE FALSE  OBVIOUS
        <3>1. \/ Queued("normal", Summary) > 0
              \/ Count(batch, Summary) > 0
              \/ \E kind \in Kinds : EmitQueued(kind) /\ Summary = Len(accepted) + 1
            BY <1>1, QueuedBefore
        <3>2. ASSUME NEW kind \in Kinds, EmitQueued(kind), Summary = Len(accepted) + 1 PROVE FALSE
            BY <1>0, <3>2, AcceptEffect, Numbers DEF EmitQueued
        <3>3. QED  BY <1>5, <2>1, <3>1, <3>2
    <2> DEFINE now == Queued("normal", Summary)'
    <2>3. now \in Nat /\ ~(now > 0)  BY <1>0, <1>1, <2>2, CountsNext
    <2> HIDE DEF now
    <2>4. now = 0  BY <2>3
    <2>5. QED  BY <2>4 DEF now
<1>7. ASSUME Count(current', Summary) > 0 PROVE current' = <<Summary>>
    <2> DEFINE c == Count(current', Summary)
    <2>1. CASE current' = current
        <3>1. Count(current, Summary) > 0  BY <1>7, <2>1
        <3>2. QED  BY <1>0, <2>1, <3>1 DEF Sorted
    <2>2. CASE current' = <<>>
        <3>1. Count(current', Summary) = Count(<<>>, Summary)  BY <2>2, Zenon
        <3>2. QED  BY <1>7, <3>1, CountEmpty
    <2>3. CASE \E p \in Priority : asyncQ[p] # <<>> /\ current' = <<Head(asyncQ[p])>>
        <3>1. PICK h : current' = <<h>>  BY <2>3
        <3>2. Count(current', Summary) = Count(<<h>>, Summary)  BY <3>1, Zenon
        <3>3. h = Summary  BY <1>7, <3>2, CountOne
        <3>4. QED  BY <3>1, <3>3
    <2>4. CASE CarriedBatch
        <3>1. Queued("normal", Summary)' + c = Queued("normal", Summary) + Count(batch, Summary)
            BY <2>4, CarriedBatchAccount
        <3>2. c \in Nat /\ c > 0  BY <1>0, <1>7, CountsNext
        <3> HIDE DEF c
        <3>3. FALSE  BY <1>0, <1>5, <1>6, <3>1, <3>2 DEF Sorted
        <3>4. QED  BY <3>3
    <2>5. CASE NormalGet
        <3>1. Queued("normal", Summary)' + c = Queued("normal", Summary)
            BY <2>5, NormalGetAccount
        <3>2. c \in Nat /\ c > 0  BY <1>0, <1>7, CountsNext
        <3> HIDE DEF c
        <3>3. FALSE  BY <1>0, <1>6, <3>1, <3>2 DEF Sorted
        <3>4. QED  BY <3>3
    <2>6. CASE current' = batch
        <3>1. Count(current', Summary) = Count(batch, Summary)  BY <2>6
        <3>2. QED  BY <1>5, <1>7, <3>1
    <2>7. QED  BY <2>1, <2>2, <2>3, <2>4, <2>5, <2>6, CurrentAfter
<1>8. QED  BY <1>3, <1>4, <1>6, <1>7 DEF Sorted

-----------------------------------------------------------------------------
(* Who has handled what *)

\* A step changes the calls to be made only by a delivery.
LEMMA CallsAfter ==
    ASSUME IInv, [Next]_vars
    PROVE  \/ CallSucceeds \/ CallFails \/ DeliveryEnds \/ ThreadEnds
           \/ \E events \in Seq(Items), next \in {"high", "second", "ended"} :
                /\ events # <<>> /\ (Head(events) = Summary \/ Head(events) \in Accepted)
                /\ Deliver(events, next) /\ current = <<>>
                /\ UNCHANGED <<handled, settled>> /\ lost \subseteq lost'
           \/ UNCHANGED <<pending, current, handled, settled>> /\ lost \subseteq lost'
<1> DEFINE Delivery == \E events \in Seq(Items), next \in {"high", "second", "ended"} :
                         /\ events # <<>> /\ (Head(events) = Summary \/ Head(events) \in Accepted)
                         /\ Deliver(events, next) /\ current = <<>>
                         /\ UNCHANGED <<handled, settled>> /\ lost \subseteq lost'
           Same == UNCHANGED <<pending, current, handled, settled>> /\ lost \subseteq lost'
<1>0. TypeOK /\ "high" \in Priority /\ "normal" \in Priority /\ "low" \in Priority
    BY DEF IInv, Priority
<1>1. ASSUME NEW p \in Priority, asyncQ[p] # <<>>, Deliver(<<Head(asyncQ[p])>>, "high"),
             current = <<>>, UNCHANGED <<handled, settled, lost>>
      PROVE  Delivery
    <2> DEFINE h == Head(asyncQ[p])
               events == <<h>>
    <2>1. h \in Items /\ (h # Summary => h \in Accepted)  BY <1>1, HeadOfQueue
    <2>2. Deliver(events, "high")  BY <1>1
    <2> HIDE DEF h
    <2>3. events \in Seq(Items) /\ events # <<>> /\ Head(events) = h  BY <2>1
    <2> HIDE DEF events
    <2>4. QED  BY <1>1, <2>1, <2>2, <2>3
<1>2. ASSUME NEW events \in Seq(Events), events # <<>>, Head(events) \in Accepted,
             NEW next \in {"high", "second", "ended"}, Deliver(events, next),
             current = <<>>, UNCHANGED <<handled, settled>>, lost \subseteq lost'
      PROVE  Delivery
    <2>1. events \in Seq(Items)  BY Numbers, SeqMonotonic
    <2>2. QED  BY <1>2, <2>1
<1>3. ASSUME NEW b \in Seq(Events), Len(b) = 1, NEW q \in Seq(Events), Head(b) \in Accepted,
             Deliver(Fill(b, q).batch, "second"),
             current = <<>>, UNCHANGED <<handled, settled>>, lost \subseteq lost'
      PROVE  Delivery
    <2> DEFINE f == Fill(b, q).batch
    <2>1. f \in Seq(Events) /\ Len(f) \in 1..max_batch_size /\ Head(f) = Head(b)
        BY <1>3, FillProperties
    <2>2. Deliver(f, "second")  BY <1>3
    <2> HIDE DEF f
    <2>3. f # <<>>  BY <2>1, EmptySeq, Numbers
    <2>4. QED  BY <1>2, <1>3, <2>1, <2>2, <2>3
<1>4. ASSUME HighGet \/ LowGet PROVE Delivery
    <2>1. current = <<>>  BY <1>4 DEF IInv, Control, HighGet, LowGet
    <2> HIDE DEF Delivery
    <2>2. QED  BY <1>0, <1>1, <1>4, <2>1 DEF HighGet, LowGet, history
<1>5. ASSUME CarriedBatch PROVE Delivery
    <2>1. current = <<>> /\ batch # <<>>  BY <1>5 DEF IInv, Control, CarriedBatch
    <2>2. batch \in Seq(Events) /\ Len(batch) = 1 /\ Head(batch) \in Accepted
        BY <2>1, CarriedEvent
    <2>3. asyncQ["normal"] \in Seq(Events)
        <3>1. CASE asyncQ["normal"] = <<>>  BY <3>1, EmptySeq
        <3>2. CASE asyncQ["normal"] # <<>>  BY <1>0, <3>2, HeadOfQueue
        <3>3. QED  BY <3>1, <3>2
    <2>4. /\ Deliver(Fill(batch, asyncQ["normal"]).batch, "second")
          /\ UNCHANGED <<handled, settled>> /\ lost \subseteq lost'
        BY <1>5 DEF CarriedBatch, ProcessBatch
    <2> HIDE DEF Delivery
    <2>5. QED  BY <1>3, <2>1, <2>2, <2>3, <2>4
<1>6. ASSUME NormalGet PROVE Delivery
    <2> DEFINE h == Head(asyncQ["normal"])
               t == Tail(asyncQ["normal"])
               b == <<h>>
    <2>1. current = <<>> /\ asyncQ["normal"] # <<>>
        BY <1>6 DEF IInv, Control, NormalGet
    <2>2. h \in Events /\ t \in Seq(Events) /\ h \in Accepted
        BY <1>0, <2>1, HeadOfQueue, Numbers
    <2>3. Deliver(Fill(b, t).batch, "second") /\ UNCHANGED <<handled, settled, lost>>
        BY <1>6 DEF NormalGet, ProcessBatch, history
    <2> HIDE DEF h, t
    <2>4. b \in Seq(Events) /\ Len(b) = 1 /\ Head(b) = h  BY <2>2
    <2> HIDE DEF b, Delivery
    <2>5. QED  BY <1>3, <2>1, <2>2, <2>3, <2>4
<1>7. ASSUME FinalBatch PROVE Delivery
    <2>1. current = <<>> /\ batch # <<>>  BY <1>7 DEF IInv, Control, FinalBatch
    <2>2. batch \in Seq(Events) /\ Head(batch) \in Accepted  BY <2>1, CarriedEvent
    <2>3. Deliver(batch, "ended") /\ UNCHANGED <<handled, settled, lost>>
        BY <1>7 DEF FinalBatch, history
    <2> HIDE DEF Delivery
    <2>4. QED  BY <1>2, <2>1, <2>2, <2>3
<1>8. \/ HighGet \/ LowGet \/ CarriedBatch \/ NormalGet \/ FinalBatch
      \/ CallSucceeds \/ CallFails \/ DeliveryEnds \/ ThreadEnds \/ Same
    <2>1. ASSUME NEW kind \in Kinds, Emit(kind) PROVE Same
        BY <2>1 DEF Emit, EmitQueued, EmitBuffered, Flush, processor, history
    <2>2. ASSUME NEW p \in Priority, Bridge(p) PROVE Same
        BY <2>2 DEF Bridge, BridgeMove, BridgePut, processor, history
    <2>3. ASSUME HighTimeout \/ NormalTimeout \/ SecondTimeout \/ LowTimeout \/ SecondGet PROVE Same
        BY <2>3 DEF HighTimeout, NormalTimeout, SecondTimeout, LowTimeout, SecondGet,
                    TimesOut, Discard, history
    <2>4. ASSUME Start \/ Stop PROVE Same
        BY <2>4 DEF Start, Stop, Flush, processor, history
    <2>5. ASSUME NEW s \in Subs, NEW t \in Types, Subscribe(s, t) \/ Unsubscribe(s, t) PROVE Same
        BY <2>5 DEF Subscribe, Unsubscribe, processor, history
    <2>6. ASSUME UNCHANGED vars PROVE Same
        BY <2>6 DEF vars, processor, history
    <2> HIDE DEF Same
    <2>7. QED  BY <2>1, <2>2, <2>3, <2>4, <2>5, <2>6 DEF Next, Process
<1>9. QED  BY <1>4, <1>5, <1>6, <1>7, <1>8

\* Calling the first subscriber leaves the others, each once.
LEMMA TailCalls ==
    ASSUME NEW q \in Seq(Subs), q # <<>>,
           \A i, j \in 1..Len(q) : i # j => q[i] # q[j]
    PROVE  LET t == Tail(q) IN
           /\ \A i, j \in 1..Len(t) : i # j => t[i] # t[j]
           /\ \A i \in 1..Len(t) : t[i] # Head(q) /\ \E k \in 1..Len(q) : t[i] = q[k]
           /\ Head(q) \in Subs /\ 1 \in 1..Len(q) /\ Head(q) = q[1]
<1> DEFINE t == Tail(q)
<1>1. /\ t \in Seq(Subs) /\ Len(t) = Len(q) - 1 /\ Head(q) = q[1] /\ Head(q) \in Subs
      /\ \A i \in 1..Len(t) : t[i] = q[i + 1]
    BY HeadTailProperties
<1>2. Len(q) \in Nat \ {0}  BY EmptySeq
<1> HIDE DEF t
<1>3. \A i \in 1..Len(t) : i + 1 \in 1..Len(q) /\ i + 1 # 1  BY <1>1, <1>2
<1>4. 1 \in 1..Len(q)  BY <1>2
<1>5. \A i, j \in 1..Len(t) : i # j => t[i] # t[j]
    <2> TAKE i, j \in 1..Len(t)
    <2>1. i # j => i + 1 # j + 1  OBVIOUS
    <2>2. QED  BY <1>1, <1>3, <2>1
<1>6. \A i \in 1..Len(t) : t[i] # Head(q) /\ \E k \in 1..Len(q) : t[i] = q[k]
    BY <1>1, <1>3, <1>4
<1>7. QED  BY <1>1, <1>4, <1>5, <1>6 DEF t

\* An event is not under delivery, delivered and dropped at once.
LEMMA OnceApart ==
    ASSUME TypeOK', ExactlyOnePlace', NEW e \in Events
    PROVE  Count(current', e) + Count(settled', e) + Member(lost', e) <= 1
<1>1. /\ Queued("high", e)' \in Nat /\ Queued("normal", e)' \in Nat /\ Queued("low", e)' \in Nat
      /\ Count(batch', e) \in Nat /\ Count(current', e) \in Nat /\ Count(settled', e) \in Nat
    BY CountsNext DEF Priority
<1>2. Member(buffer', e) \in Nat /\ Member(summarised', e) \in Nat /\ Member(lost', e) \in Nat
    BY DEF Member
<1>3. Queued("high", e)' + Queued("normal", e)' + Queued("low", e)'
        + (Count(batch', e) + Count(current', e) + Count(settled', e))
        + (Member(buffer', e) + Member(summarised', e) + Member(lost', e)) <= 1
    <2>1. Occurrences(e)' <= 1  BY DEF ExactlyOnePlace
    <2>2. QED  BY <2>1 DEF Occurrences, Processed, Apart, Member
<1> DEFINE qh == Queued("high", e)'
           qn == Queued("normal", e)'
           ql == Queued("low", e)'
           b == Count(batch', e)
           c == Count(current', e)
           s == Count(settled', e)
           mb == Member(buffer', e)
           ms == Member(summarised', e)
           ml == Member(lost', e)
<1>4. /\ qh \in Nat /\ qn \in Nat /\ ql \in Nat /\ b \in Nat /\ c \in Nat /\ s \in Nat
      /\ mb \in Nat /\ ms \in Nat /\ ml \in Nat
      /\ qh + qn + ql + (b + c + s) + (mb + ms + ml) <= 1
    BY <1>1, <1>2, <1>3
<1> HIDE DEF qh, qn, ql, b, c, s, mb, ms, ml
<1>5. c + s + ml <= 1  BY <1>4
<1>6. QED  BY <1>5 DEF c, s, ml

\* Every step keeps the account of what is being handled.
LEMMA HandlingStep == ASSUME IInv, [Next]_vars PROVE Handling'
<1>0. TypeOK /\ TypeOK' /\ ExactlyOnePlace' /\ Handling
    BY TypeOKStep, OnePlaceStep DEF IInv
<1>1. pending \in Seq(Subs) /\ handled \in [Subs -> [Events -> Nat]]  BY <1>0 DEF TypeOK
<1>2. ASSUME NEW e \in Events
      PROVE  /\ Count(current, e) \in Nat /\ Count(settled, e) \in Nat /\ Member(lost, e) \in Nat
             /\ Count(current', e) \in Nat /\ Count(settled', e) \in Nat /\ Member(lost', e) \in Nat
    BY <1>0, CountsTyped, CountsNext DEF Member
<1>3. lost \subseteq lost' => \A e \in Events : Member(lost', e) >= Member(lost, e)
    BY DEF Member
<1>4. ASSUME CallSucceeds PROVE Handling'
    <2> DEFINE s0 == Head(pending)
               t == Tail(pending)
    <2>1. /\ pending # <<>> /\ pending' = t
          /\ UNCHANGED <<current, settled, lost>>
          /\ handled' = [handled EXCEPT ![s0] =
                           [e \in Events |-> @[e] + (IF e \in ToSet(current) THEN 1 ELSE 0)]]
        BY <1>4 DEF CallSucceeds
    <2>2. /\ \A i, j \in 1..Len(t) : i # j => t[i] # t[j]
          /\ \A i \in 1..Len(t) : t[i] # s0 /\ \E k \in 1..Len(pending) : t[i] = pending[k]
          /\ s0 \in Subs /\ 1 \in 1..Len(pending) /\ s0 = pending[1]
        BY <1>0, <1>1, <2>1, TailCalls DEF Handling
    <2> HIDE DEF s0, t
    <2>3. ASSUME NEW s \in Subs, NEW e \in Events
          PROVE  handled'[s][e] = handled[s][e] + (IF s = s0 /\ e \in ToSet(current) THEN 1 ELSE 0)
        BY <1>1, <2>1, <2>2
    <2>4. ASSUME NEW e \in Events PROVE e \in ToSet(current) <=> Count(current, e) > 0
        <3>1. current \in Seq(Items)  BY <1>0 DEF TypeOK
        <3>2. QED  BY <3>1, ToSetCounted
    <2>5. ASSUME NEW s \in Subs, NEW e \in Events
          PROVE  /\ handled'[s][e] <= 1
                 /\ handled'[s][e] = 1 => Count(current, e) + Count(settled, e) + Member(lost, e) > 0
                 /\ handled'[s][e] = 1 /\ Count(current, e) > 0 => \A i \in 1..Len(t) : t[i] # s
        <3>1. /\ handled[s][e] \in Nat /\ handled[s][e] <= 1
              /\ handled[s][e] = 1 => Count(current, e) + Count(settled, e) + Member(lost, e) > 0
              /\ handled[s][e] = 1 /\ Count(current, e) > 0 =>
                   \A i \in 1..Len(pending) : pending[i] # s
            BY <1>0, <1>1 DEF Handling
        <3>2. CASE s = s0 /\ e \in ToSet(current)
            <4>1. handled[s][e] # 1  BY <2>2, <2>4, <3>1, <3>2
            <4>2. handled'[s][e] = 1  BY <2>3, <3>1, <3>2, <4>1
            <4>3. Count(current, e) > 0  BY <2>4, <3>2
            <4>4. QED  BY <1>2, <2>2, <3>2, <4>2, <4>3
        <3>3. CASE ~(s = s0 /\ e \in ToSet(current))
            <4>1. handled'[s][e] = handled[s][e]  BY <2>3, <3>1, <3>3
            <4>2. handled[s][e] = 1 /\ Count(current, e) > 0 => \A i \in 1..Len(t) : t[i] # s
                BY <2>2, <3>1
            <4>3. QED  BY <3>1, <4>1, <4>2
        <3>4. QED  BY <3>2, <3>3
    <2>6. QED  BY <2>1, <2>2, <2>5 DEF Handling
<1>5. ASSUME CallFails PROVE Handling'
    <2> DEFINE t == Tail(pending)
    <2>1. /\ pending # <<>> /\ (pending' = pending \/ pending' = t)
          /\ UNCHANGED <<current, settled, lost, handled>>
        BY <1>5 DEF CallFails, history
    <2>2. /\ \A i, j \in 1..Len(t) : i # j => t[i] # t[j]
          /\ \A i \in 1..Len(t) : \E k \in 1..Len(pending) : t[i] = pending[k]
        <3>1. pending # <<>>  BY <1>5 DEF CallFails
        <3>2. QED  BY <1>0, <1>1, <3>1, TailCalls DEF Handling
    <2> HIDE DEF t
    <2>3. CASE pending' = pending  BY <1>0, <2>1, <2>3 DEF Handling, Member
    <2>4. CASE pending' = t
        <3>1. ASSUME NEW s \in Subs, NEW e \in Events, handled[s][e] = 1, Count(current, e) > 0
              PROVE  \A i \in 1..Len(t) : t[i] # s
            BY <1>0, <2>2, <3>1 DEF Handling
        <3>2. QED  BY <1>0, <2>1, <2>2, <2>4, <3>1 DEF Handling, Member
    <2>5. QED  BY <2>1, <2>3, <2>4
<1>6. ASSUME DeliveryEnds PROVE Handling'
    <2>1. /\ pending' = pending /\ current' = <<>> /\ UNCHANGED <<handled, lost>>
          /\ settled' = (IF current = <<Summary>> THEN settled ELSE settled \o current)
        BY <1>6 DEF DeliveryEnds
    <2>2. ASSUME NEW e \in Events
          PROVE  Count(current', e) = 0 /\ Count(settled', e) = Count(settled, e) + Count(current, e)
        <3>1. Count(current', e) = Count(<<>>, e)  BY <2>1, Zenon
        <3>2. Count(settled', e) = Count(settled, e) + Count(current, e)
            BY <1>6, DeliveredCounted
        <3>3. QED  BY <3>1, <3>2, CountEmpty
    <2>3. ASSUME NEW s \in Subs, NEW e \in Events
          PROVE  /\ handled'[s][e] <= 1
                 /\ handled'[s][e] = 1 => Count(current', e) + Count(settled', e) + Member(lost', e) > 0
                 /\ ~(handled'[s][e] = 1 /\ Count(current', e) > 0)
        <3>1. /\ handled[s][e] <= 1
              /\ handled[s][e] = 1 => Count(current, e) + Count(settled, e) + Member(lost, e) > 0
            BY <1>0 DEF Handling
        <3>2. QED  BY <1>2, <2>1, <2>2, <3>1
    <2>4. QED  BY <1>0, <2>1, <2>3 DEF Handling
<1>7. ASSUME ThreadEnds PROVE Handling'
    <2>1. pending' = <<>> /\ current' = <<>> /\ UNCHANGED <<handled, settled>>
        BY <1>7 DEF ThreadEnds
    <2>2. ASSUME NEW s \in Subs, NEW e \in Events
          PROVE  /\ handled'[s][e] <= 1
                 /\ handled'[s][e] = 1 => Count(current', e) + Count(settled', e) + Member(lost', e) > 0
        <3>1. /\ handled[s][e] <= 1
              /\ handled[s][e] = 1 => Count(current, e) + Count(settled, e) + Member(lost, e) > 0
            BY <1>0 DEF Handling
        <3>2. Member(lost', e) = Bit(\/ e \in lost \/ Count(batch, e) > 0 \/ Count(current, e) > 0
                    \/ \E p \in Priority : Count(hand[p], e) > 0 \/ Count(asyncQ[p], e) > 0)
            BY <1>7, ThreadEndsAccount DEF Member
        <3>3. Member(lost, e) > 0 <=> e \in lost  BY DEF Member
        <3>4. Count(current, e) > 0 \/ Member(lost, e) > 0 => Member(lost', e) = 1
            BY <3>2, <3>3 DEF Bit
        <3>5. Count(settled', e) = Count(settled, e)  BY <2>1
        <3>6. QED  BY <1>2, <2>1, <3>1, <3>4, <3>5
    <2>3. Len(pending') = 0  BY <2>1
    <2>4. QED  BY <2>1, <2>2, <2>3 DEF Handling
<1>8. ASSUME UNCHANGED <<pending, current, handled, settled>>, lost \subseteq lost'
      PROVE  Handling'
    <2>1. ASSUME NEW s \in Subs, NEW e \in Events
          PROVE  /\ handled'[s][e] <= 1
                 /\ handled'[s][e] = 1 => Count(current', e) + Count(settled', e) + Member(lost', e) > 0
                 /\ handled'[s][e] = 1 /\ Count(current', e) > 0 =>
                      \A i \in 1..Len(pending') : pending'[i] # s
        <3>1. /\ handled[s][e] <= 1
              /\ handled[s][e] = 1 => Count(current, e) + Count(settled, e) + Member(lost, e) > 0
              /\ handled[s][e] = 1 /\ Count(current, e) > 0 =>
                   \A i \in 1..Len(pending) : pending[i] # s
            BY <1>0 DEF Handling
        <3>2. Count(current', e) = Count(current, e) /\ Count(settled', e) = Count(settled, e)
            BY <1>8
        <3>3. QED  BY <1>2, <1>3, <1>8, <3>1, <3>2
    <2>2. QED  BY <1>0, <1>8, <2>1 DEF Handling
<1>9. ASSUME NEW events \in Seq(Items), NEW next \in {"high", "second", "ended"},
             events # <<>>, Head(events) = Summary \/ Head(events) \in Accepted,
             Deliver(events, next), current = <<>>,
             UNCHANGED <<handled, settled>>, lost \subseteq lost'
      PROVE  Handling'
    <2>1. \A i, j \in 1..Len(pending') : i # j => pending'[i] # pending'[j]
        BY <1>9, DeliverCalls DEF IInv
    <2>2. ASSUME NEW s \in Subs, NEW e \in Events
          PROVE  /\ handled'[s][e] <= 1
                 /\ handled'[s][e] = 1 => Count(current', e) + Count(settled', e) + Member(lost', e) > 0
                 /\ ~(handled'[s][e] = 1 /\ Count(current', e) > 0)
        <3>1. /\ handled[s][e] <= 1
              /\ handled[s][e] = 1 => Count(current, e) + Count(settled, e) + Member(lost, e) > 0
            BY <1>0 DEF Handling
        <3>2. Count(current, e) = 0
            <4>1. Count(current, e) = Count(<<>>, e)  BY <1>9, Zenon
            <4>2. QED  BY <4>1, CountEmpty
        <3>3. Count(settled', e) = Count(settled, e)  BY <1>9
        <3>4. Count(current', e) + Count(settled', e) + Member(lost', e) <= 1
            BY <1>0, OnceApart
        <3>5. QED  BY <1>2, <1>3, <1>9, <3>1, <3>2, <3>3, <3>4
    <2>3. QED  BY <2>1, <2>2 DEF Handling
<1>10. QED  BY <1>4, <1>5, <1>6, <1>7, <1>8, <1>9, CallsAfter

-----------------------------------------------------------------------------
(* What a batch holds *)

\* What is being handled was accepted.
LEMMA CurrentAccepted ==
    ASSUME IInv, current # <<Summary>>, NEW i \in 1..Len(current)
    PROVE  current[i] \in Accepted
<1>0. TypeOK /\ ExactlyOnePlace  BY DEF IInv
<1>1. current \in Seq(Events)  BY DeliveredEvents
<1>2. current[i] \in Events  BY <1>1, ElementOfSeq
<1>3. Count(current, current[i]) > 0  BY <1>1, ElementCounted
<1>4. Processed(current[i]) > 0  BY <1>0, <1>3, CountsTyped DEF Processed
<1>5. QED  BY <1>0, <1>2, <1>4, OnTheWayAccepted

\* Every step keeps batches to one type of events.
LEMMA OneTypeStep == ASSUME IInv, [Next]_vars PROVE OneTypePerBatch'
<1>0. TypeOK /\ OneTypePerBatch /\ "normal" \in Priority  BY DEF IInv, Priority
<1>1. CASE current' = current
    <2> SUFFICES ASSUME NEW i \in 1..Len(current), NEW j \in 1..Len(current), i < j
                 PROVE  TypeOf(current[i])' = TypeOf(current[j])'
        BY <1>1 DEF OneTypePerBatch, TypeOf
    <2>1. current # <<Summary>>
        <3>1. Len(<<Summary>>) = 1  OBVIOUS
        <3>2. Len(current) # 1
            <4> DEFINE n == Len(current)
            <4>1. i \in 1..n /\ j \in 1..n /\ i < j  OBVIOUS
            <4> HIDE DEF n
            <4>2. n # 1  BY <4>1
            <4>3. QED  BY <4>2 DEF n
        <3>3. QED  BY <3>1, <3>2
    <2>2. current[i] \in Accepted /\ current[j] \in Accepted  BY <2>1, CurrentAccepted
    <2>3. TypeOf(current[i]) = TypeOf(current[j])  BY <1>0 DEF OneTypePerBatch
    <2>4. \A e \in Accepted : accepted'[e].type = TypeOf(e)  BY KindsKept DEF TypeOf
    <2>5. QED  BY <1>1, <2>2, <2>3, <2>4 DEF TypeOf
<1>2. ASSUME Len(current') <= 1 PROVE OneTypePerBatch'
    BY <1>2 DEF OneTypePerBatch
<1>3. CASE current' = <<>>
    <2>1. Len(current') = 0  BY <1>3
    <2>2. QED  BY <1>2, <2>1
<1>4. CASE \E p \in Priority : asyncQ[p] # <<>> /\ current' = <<Head(asyncQ[p])>>
    <2>1. PICK h : current' = <<h>>  BY <1>4
    <2>2. Len(current') = 1  BY <2>1
    <2>3. QED  BY <1>2, <2>2
<1>5. CASE current' = batch
    <2>1. Len(batch) <= 1  BY <1>0 DEF TypeOK
    <2>2. QED  BY <1>2, <1>5, <2>1
<1>6. ASSUME NEW b \in Seq(Events), Len(b) = 1, NEW q \in Seq(Events),
             current' = Fill(b, q).batch, UNCHANGED accepted
      PROVE  OneTypePerBatch'
    <2> DEFINE f == Fill(b, q).batch
    <2>1. \A i \in 1..Len(f) : TypeOf(f[i]) = TypeOf(Head(b))  BY <1>6, FillProperties
    <2>2. current' = f  BY <1>6
    <2> HIDE DEF f
    <2>3. QED  BY <1>6, <2>1, <2>2 DEF OneTypePerBatch, TypeOf
<1>7. CASE CarriedBatch
    <2>1. batch \in Seq(Events) /\ Len(batch) = 1  BY <1>7, CarriedEvent DEF CarriedBatch
    <2>2. asyncQ["normal"] \in Seq(Events)
        <3>1. CASE asyncQ["normal"] = <<>>  BY <3>1, EmptySeq
        <3>2. CASE asyncQ["normal"] # <<>>  BY <1>0, <3>2, HeadOfQueue
        <3>3. QED  BY <3>1, <3>2
    <2>3. current' = Fill(batch, asyncQ["normal"]).batch /\ UNCHANGED accepted
        BY <1>7 DEF CarriedBatch, ProcessBatch, Deliver, intake
    <2>4. QED  BY <1>6, <2>1, <2>2, <2>3
<1>8. CASE NormalGet
    <2> DEFINE h == Head(asyncQ["normal"])
               t == Tail(asyncQ["normal"])
               b == <<h>>
    <2>1. asyncQ["normal"] # <<>>  BY <1>8 DEF NormalGet
    <2>2. h \in Events /\ t \in Seq(Events)  BY <1>0, <2>1, HeadOfQueue
    <2>3. current' = Fill(b, t).batch /\ UNCHANGED accepted
        BY <1>8 DEF NormalGet, ProcessBatch, Deliver, intake
    <2> HIDE DEF h, t
    <2>4. b \in Seq(Events) /\ Len(b) = 1  BY <2>2
    <2> HIDE DEF b
    <2>5. QED  BY <1>6, <2>2, <2>3, <2>4
<1>9. QED  BY <1>1, <1>3, <1>4, <1>5, <1>7, <1>8, CurrentAfter

-----------------------------------------------------------------------------
(* Order *)

\* The empty sequence adds nothing to another.
LEMMA NothingFirst ==
    ASSUME NEW S, NEW s \in Seq(S)
    PROVE  <<>> \o s = s /\ s \o <<>> = s
BY ConcatEmptySeq

\* Where an element of a sequence put together of three stands.
LEMMA ThreePlaces ==
    ASSUME NEW S, NEW s \in Seq(S), NEW u \in Seq(S), NEW t \in Seq(S)
    PROVE  /\ s \o (u \o t) \in Seq(S) /\ s \o t \in Seq(S)
           /\ Len(s \o (u \o t)) = Len(s) + Len(u) + Len(t) /\ Len(s \o t) = Len(s) + Len(t)
           /\ Len(s) \in Nat /\ Len(u) \in Nat /\ Len(t) \in Nat
           /\ \A i \in 1..Len(s) : (s \o (u \o t))[i] = s[i] /\ (s \o t)[i] = s[i]
           /\ \A i \in 1..Len(u) : (s \o (u \o t))[Len(s) + i] = u[i]
           /\ \A i \in 1..Len(t) : /\ (s \o (u \o t))[Len(s) + Len(u) + i] = t[i]
                                   /\ (s \o t)[Len(s) + i] = t[i]
<1> DEFINE v == u \o t
           m == Len(s)
           n == Len(u)
           k == Len(t)
<1>1. m \in Nat /\ n \in Nat /\ k \in Nat  BY LenProperties
<1>2. /\ v \in Seq(S) /\ Len(v) = n + k
      /\ \A i \in 1..n + k : v[i] = IF i <= n THEN u[i] ELSE t[i - n]
    BY ConcatProperties
<1> HIDE DEF v
<1>3. /\ s \o v \in Seq(S) /\ Len(s \o v) = m + Len(v)
      /\ \A i \in 1..m + Len(v) : (s \o v)[i] = IF i <= m THEN s[i] ELSE v[i - m]
    <2>1. v \in Seq(S)  BY <1>2
    <2>2. QED  BY <2>1, ConcatProperties
<1>4. /\ s \o t \in Seq(S) /\ Len(s \o t) = m + k
      /\ \A i \in 1..m + k : (s \o t)[i] = IF i <= m THEN s[i] ELSE t[i - m]
    BY ConcatProperties
<1> DEFINE w == s \o v
           x == s \o t
<1>5. /\ \A i \in 1..m + (n + k) : w[i] = IF i <= m THEN s[i] ELSE v[i - m]
      /\ \A i \in 1..m + k : x[i] = IF i <= m THEN s[i] ELSE t[i - m]
    BY <1>2, <1>3, <1>4
<1>6. w \in Seq(S) /\ Len(w) = m + n + k /\ x \in Seq(S) /\ Len(x) = m + k
    BY <1>1, <1>2, <1>3, <1>4
<1> HIDE DEF w, x, m, n, k
<1>7. ASSUME NEW i \in 1..m PROVE w[i] = s[i] /\ x[i] = s[i]
    BY <1>1, <1>5
<1>8. ASSUME NEW i \in 1..n PROVE w[m + i] = u[i]
    <2>1. m + i \in 1..m + (n + k) /\ ~(m + i <= m) /\ (m + i) - m = i  BY <1>1
    <2>2. w[m + i] = v[i]  BY <1>5, <2>1
    <2>3. i \in 1..n + k /\ i <= n  BY <1>1
    <2>4. QED  BY <1>2, <2>2, <2>3
<1>9. ASSUME NEW i \in 1..k PROVE w[m + n + i] = t[i] /\ x[m + i] = t[i]
    <2>1. /\ m + n + i \in 1..m + (n + k) /\ ~(m + n + i <= m) /\ (m + n + i) - m = n + i
          /\ n + i \in 1..n + k /\ ~(n + i <= n) /\ (n + i) - n = i
          /\ m + i \in 1..m + k /\ ~(m + i <= m) /\ (m + i) - m = i
        BY <1>1
    <2>2. w[m + n + i] = v[n + i]  BY <1>5, <2>1
    <2>3. v[n + i] = t[i]  BY <1>2, <2>1
    <2>4. x[m + i] = t[i]  BY <1>5, <2>1
    <2>5. QED  BY <2>2, <2>3, <2>4
<1>10. QED  BY <1>1, <1>6, <1>7, <1>8, <1>9 DEF w, x, v, m, n, k

\* Taking a piece out keeps the order of the rest.
LEMMA InOrderDrop ==
    ASSUME NEW S, NEW s \in Seq(S), NEW u \in Seq(S), NEW t \in Seq(S), NEW E,
           InOrder(s \o (u \o t), E)
    PROVE  InOrder(s \o t, E)
<1> DEFINE w == s \o (u \o t)
           x == s \o t
           m == Len(s)
           n == Len(u)
           k == Len(t)
           place(i) == IF i <= m THEN i ELSE n + i
<1>1. /\ Len(w) = m + n + k /\ Len(x) = m + k
      /\ m \in Nat /\ n \in Nat /\ k \in Nat
      /\ \A i \in 1..m : w[i] = s[i] /\ x[i] = s[i]
      /\ \A i \in 1..k : w[m + n + i] = t[i] /\ x[m + i] = t[i]
    BY ThreePlaces
<1>2. InOrder(w, E)  OBVIOUS
<1> HIDE DEF w, x, m, n, k
<1>3. ASSUME NEW i \in 1..m + k
      PROVE  place(i) \in 1..m + n + k /\ x[i] = w[place(i)]
    <2>1. CASE i <= m
        <3>1. i \in 1..m /\ place(i) = i  BY <1>1, <2>1
        <3>2. QED  BY <1>1, <3>1
    <2>2. CASE ~(i <= m)
        <3>1. i - m \in 1..k /\ m + (i - m) = i /\ m + n + (i - m) = n + i /\ place(i) = n + i
            BY <1>1, <2>2
        <3>2. w[m + n + (i - m)] = t[i - m] /\ x[m + (i - m)] = t[i - m]  BY <1>1, <3>1
        <3>3. x[i] = w[n + i] /\ n + i \in 1..m + n + k  BY <1>1, <3>1, <3>2
        <3>4. QED  BY <3>1, <3>3
    <2>3. QED  BY <2>1, <2>2
<1>4. \A i, j \in 1..m + k : i < j => place(i) < place(j)  BY <1>1
<1> HIDE DEF place
<1>5. InOrder(x, E)  BY <1>1, <1>2, <1>3, <1>4 DEF InOrder
<1>6. QED  BY <1>5 DEF x

\* Putting in a piece with no member of the set keeps the order.
LEMMA InOrderInsert ==
    ASSUME NEW S, NEW s \in Seq(S), NEW u \in Seq(S), NEW t \in Seq(S), NEW E,
           InOrder(s \o t, E), \A i \in 1..Len(u) : u[i] \notin E
    PROVE  InOrder(s \o (u \o t), E)
<1> DEFINE w == s \o (u \o t)
           x == s \o t
           m == Len(s)
           n == Len(u)
           k == Len(t)
           place(i) == IF i <= m THEN i ELSE i - n
<1>1. /\ Len(w) = m + n + k /\ Len(x) = m + k
      /\ m \in Nat /\ n \in Nat /\ k \in Nat
      /\ \A i \in 1..m : w[i] = s[i] /\ x[i] = s[i]
      /\ \A i \in 1..n : w[m + i] = u[i]
      /\ \A i \in 1..k : w[m + n + i] = t[i] /\ x[m + i] = t[i]
    BY ThreePlaces
<1>2. InOrder(x, E) /\ \A i \in 1..n : u[i] \notin E  OBVIOUS
<1> HIDE DEF w, x, m, n, k
<1>3. ASSUME NEW i \in 1..m + n + k, w[i] \in E
      PROVE  /\ place(i) \in 1..m + k /\ w[i] = x[place(i)]
             /\ i <= m \/ i > m + n
    <2>1. CASE i <= m
        <3>1. place(i) = i  BY <2>1
        <3> HIDE DEF place
        <3>2. m \in Nat /\ n \in Nat /\ k \in Nat  BY <1>1
        <3>3. i \in 1..m /\ i \in 1..m + k  BY <2>1, <3>2
        <3>4. QED  BY <1>1, <2>1, <3>1, <3>3
    <2>2. CASE i > m /\ i <= m + n
        <3>1. i - m \in 1..n /\ m + (i - m) = i  BY <1>1, <2>2
        <3>2. w[i] = u[i - m]  BY <1>1, <3>1
        <3>3. QED  BY <1>2, <1>3, <3>1, <3>2
    <2>3. CASE i > m + n
        <3>1. /\ i - (m + n) \in 1..k /\ m + n + (i - (m + n)) = i
              /\ m + (i - (m + n)) = i - n /\ place(i) = i - n /\ i - n \in 1..m + k
            BY <1>1, <2>3
        <3>2. /\ w[m + n + (i - (m + n))] = t[i - (m + n)]
              /\ x[m + (i - (m + n))] = t[i - (m + n)]
            BY <1>1, <3>1
        <3>3. w[i] = x[i - n]  BY <3>1, <3>2
        <3>4. QED  BY <2>3, <3>1, <3>3
    <2>4. QED  BY <1>1, <2>1, <2>2, <2>3
<1>4. ASSUME NEW i \in 1..m + n + k, NEW j \in 1..m + n + k, i < j,
             i <= m \/ i > m + n, j <= m \/ j > m + n
      PROVE  place(i) < place(j)
    BY <1>1, <1>4
<1> HIDE DEF place
<1>5. InOrder(w, E)
    <2> SUFFICES ASSUME NEW i \in 1..m + n + k, NEW j \in 1..m + n + k, i < j,
                        w[i] \in E, w[j] \in E
                 PROVE  w[i] < w[j]
        BY <1>1 DEF InOrder
    <2>1. place(i) < place(j)  BY <1>3, <1>4
    <2>2. QED  BY <1>1, <1>2, <1>3, <2>1 DEF InOrder
<1>6. QED  BY <1>5 DEF w

\* Other events at the end do not disturb the order of some.
LEMMA InOrderExtended ==
    ASSUME NEW S, NEW s \in Seq(S), NEW w \in Seq(S), NEW E, InOrder(s, E),
           \A i \in 1..Len(w) : w[i] \notin E
    PROVE  InOrder(s \o w, E)
<1>1. <<>> \in Seq(S) /\ s \o <<>> = s /\ w \o <<>> = w  BY EmptySeq, NothingFirst
<1> DEFINE none == <<>>
<1>2. none \in Seq(S) /\ s \o none = s /\ w \o none = w  BY <1>1
<1> HIDE DEF none
<1>3. InOrder(s \o none, E)  BY <1>2, Zenon
<1>4. InOrder(s \o (w \o none), E)  BY <1>2, <1>3, InOrderInsert
<1>5. QED  BY <1>2, <1>4, Zenon

\* A new last event with the greatest number.
LEMMA InOrderNext ==
    ASSUME NEW S, NEW s \in Seq(S), NEW n \in S, NEW E, NEW F, InOrder(s, E),
           \A i \in 1..Len(s) : s[i] \in F => s[i] \in E /\ s[i] < n
    PROVE  InOrder(s \o <<n>>, F)
<1> DEFINE t == <<n>>
           w == s \o t
           m == Len(s)
<1>1. t \in Seq(S) /\ Len(t) = 1 /\ t[1] = n /\ m \in Nat  BY LenProperties
<1>2. InOrder(s, E) /\ \A i \in 1..m : s[i] \in F => s[i] \in E /\ s[i] < n  OBVIOUS
<1> HIDE DEF t
<1>3. /\ Len(w) = m + Len(t)
      /\ \A i \in 1..m + Len(t) : w[i] = IF i <= m THEN s[i] ELSE t[i - m]
    BY <1>1, ConcatProperties
<1> HIDE DEF w
<1>4. Len(w) = m + 1 /\ w[m + 1] = n /\ \A i \in 1..m : w[i] = s[i]
    <2>1. Len(w) = m + 1 /\ (m + 1) - m = 1 /\ m + 1 \in 1..m + Len(t) /\ ~(m + 1 <= m)
        BY <1>1, <1>3
    <2>2. w[m + 1] = n  BY <1>1, <1>3, <2>1
    <2>3. \A i \in 1..m : i \in 1..m + Len(t) /\ i <= m  BY <1>1
    <2>4. \A i \in 1..m : w[i] = s[i]  BY <1>3, <2>3
    <2>5. QED  BY <2>1, <2>2, <2>4
<1>5. InOrder(w, F)
    <2> SUFFICES ASSUME NEW i \in 1..m + 1, NEW j \in 1..m + 1, i < j, w[i] \in F, w[j] \in F
                 PROVE  w[i] < w[j]
        BY <1>4 DEF InOrder
    <2> HIDE DEF m
    <2>1. i \in 1..m  BY <1>1
    <2>2. CASE j = m + 1  BY <1>2, <1>4, <2>1, <2>2
    <2>3. CASE j # m + 1
        <3>1. j \in 1..m  BY <1>1, <2>3
        <3>2. w[i] = s[i] /\ w[j] = s[j] /\ s[i] \in E /\ s[j] \in E  BY <1>2, <1>4, <2>1, <3>1
        <3>3. QED  BY <1>2, <2>1, <3>1, <3>2 DEF InOrder, m
    <2>4. QED  BY <2>2, <2>3
<1>6. QED  BY <1>5 DEF w, t

\* The parts of a journey are sequences of items.
LEMMA JourneyTyped ==
    ASSUME TypeOK, NEW p \in Priority
    PROVE  /\ settled \in Seq(Items) /\ current \in Seq(Items) /\ asyncQ[p] \in Seq(Items)
           /\ hand[p] \in Seq(Items) /\ threadQ[p] \in Seq(Items)
           /\ hand[p] \o threadQ[p] \in Seq(Items)
           /\ asyncQ[p] \o (hand[p] \o threadQ[p]) \in Seq(Items)
           /\ current \o (asyncQ[p] \o (hand[p] \o threadQ[p])) \in Seq(Items)
           /\ Journey(p) \in Seq(Items)
<1>1. /\ current \in Seq(Items) /\ asyncQ[p] \in Seq(Items)
      /\ hand[p] \in Seq(Items) /\ threadQ[p] \in Seq(Items)
    BY DEF TypeOK
<1>2. settled \in Seq(Items)
    <2>1. settled \in Seq(Events)  BY DEF TypeOK
    <2>2. QED  BY <2>1, Numbers, SeqMonotonic
<1> DEFINE r == hand[p] \o threadQ[p]
           q == asyncQ[p] \o r
           v == current \o q
<1>3. r \in Seq(Items)  BY <1>1, ConcatProperties
<1> HIDE DEF r
<1>4. q \in Seq(Items)  BY <1>1, <1>3, ConcatProperties
<1> HIDE DEF q
<1>5. v \in Seq(Items)  BY <1>1, <1>4, ConcatProperties
<1> HIDE DEF v
<1>6. settled \o v \in Seq(Items)  BY <1>2, <1>5, ConcatProperties
<1>7. QED  BY <1>1, <1>2, <1>3, <1>4, <1>5, <1>6 DEF Journey, v, q, r

\* What is on the journey is a summary or an accepted event.
LEMMA JourneyMembers ==
    ASSUME TypeOK, ExactlyOnePlace, NEW p \in Priority, NEW i \in 1..Len(Journey(p)),
           Journey(p)[i] \in Events
    PROVE  Journey(p)[i] \in Accepted
<1> DEFINE x == Journey(p)[i]
           r == hand[p] \o threadQ[p]
           q == asyncQ[p] \o r
           v == current \o q
<1>1. /\ settled \in Seq(Items) /\ current \in Seq(Items) /\ asyncQ[p] \in Seq(Items)
      /\ hand[p] \in Seq(Items) /\ threadQ[p] \in Seq(Items)
      /\ r \in Seq(Items) /\ q \in Seq(Items) /\ v \in Seq(Items)
      /\ Journey(p) \in Seq(Items) /\ Journey(p) = settled \o v
    BY JourneyTyped DEF Journey
<1>2. Count(Journey(p), x) > 0  BY <1>1, ElementCounted
<1> HIDE DEF x
<1>3. Count(r, x) = Count(hand[p], x) + Count(threadQ[p], x)  BY <1>1, CountConcat
<1> HIDE DEF r
<1>4. Count(q, x) = Count(asyncQ[p], x) + Count(r, x)  BY <1>1, CountConcat
<1> HIDE DEF q
<1>5. Count(v, x) = Count(current, x) + Count(q, x)  BY <1>1, CountConcat
<1> HIDE DEF v
<1>6. Count(Journey(p), x) = Count(settled, x) + Count(v, x)
    <2>1. Count(settled \o v, x) = Count(settled, x) + Count(v, x)  BY <1>1, CountConcat
    <2>2. QED  BY <1>1, <2>1, Zenon
<1>7. /\ Queued(p, x) = Count(threadQ[p], x) + Count(hand[p], x) + Count(asyncQ[p], x)
      /\ Count(threadQ[p], x) \in Nat /\ Count(hand[p], x) \in Nat /\ Count(asyncQ[p], x) \in Nat
    BY QueuedParts
<1>8. /\ Processed(x) = Count(batch, x) + Count(current, x) + Count(settled, x)
      /\ Count(batch, x) \in Nat /\ Count(current, x) \in Nat /\ Count(settled, x) \in Nat
    BY CountsTyped DEF Processed
<1> DEFINE total == Count(Journey(p), x)
           inQ == Queued(p, x)
           out == Processed(x)
           inThread == Count(threadQ[p], x)
           inHand == Count(hand[p], x)
           inAsync == Count(asyncQ[p], x)
           inBatch == Count(batch, x)
           inCurrent == Count(current, x)
           inSettled == Count(settled, x)
<1>9. /\ total > 0 /\ total = inSettled + (inCurrent + (inAsync + (inHand + inThread)))
      /\ inQ = inThread + inHand + inAsync /\ out = inBatch + inCurrent + inSettled
      /\ inThread \in Nat /\ inHand \in Nat /\ inAsync \in Nat
      /\ inBatch \in Nat /\ inCurrent \in Nat /\ inSettled \in Nat
    BY <1>2, <1>3, <1>4, <1>5, <1>6, <1>7, <1>8
<1> HIDE DEF total, inQ, out, inThread, inHand, inAsync, inBatch, inCurrent, inSettled
<1>10. inQ > 0 \/ out > 0  BY <1>9
<1>11. QED  BY <1>10, OnTheWayAccepted DEF x, inQ, out

\* What is appended to the thread queue comes at the end of the journey.
LEMMA JourneyExtended ==
    ASSUME TypeOK, NEW p \in Priority, NEW w \in Seq(Items),
           threadQ'[p] = threadQ[p] \o w, UNCHANGED <<settled, current, asyncQ, hand>>
    PROVE  Journey(p)' = Journey(p) \o w
<1> DEFINE a == settled
           b == current
           c == asyncQ[p]
           d == hand[p]
           e == threadQ[p]
           r == d \o e
           q == c \o r
           v == b \o q
<1>1. /\ a \in Seq(Items) /\ b \in Seq(Items) /\ c \in Seq(Items) /\ d \in Seq(Items)
      /\ e \in Seq(Items) /\ r \in Seq(Items) /\ q \in Seq(Items) /\ v \in Seq(Items)
    BY JourneyTyped
<1>2. Journey(p)' = a \o (b \o (c \o (d \o (e \o w)))) /\ Journey(p) = a \o v
    BY Zenon DEF Journey
<1>3. r = d \o e /\ q = c \o r /\ v = b \o q  OBVIOUS
<1> HIDE DEF a, b, c, d, e, r, q, v
<1>4. \A x, y \in Seq(Items) : (x \o y) \o w = x \o (y \o w)
    BY ConcatAssociative
<1>5. d \o (e \o w) = r \o w  BY <1>1, <1>3, <1>4, Zenon
<1>6. c \o (r \o w) = q \o w  BY <1>1, <1>3, <1>4, Zenon
<1>7. b \o (q \o w) = v \o w  BY <1>1, <1>3, <1>4, Zenon
<1>8. a \o (v \o w) = (a \o v) \o w  BY <1>1, <1>4, Zenon
<1>9. QED  BY <1>2, <1>5, <1>6, <1>7, <1>8, Zenon

\* A bridge takes the first event of the thread queue to the end of the
\* asyncio queue, at once or by its hand.
LEMMA JourneyBridged ==
    ASSUME IInv, NEW p \in Priority, NEW o \in Priority, Bridge(o)
    PROVE  Journey(p)' = Journey(p)
<1> DEFINE c == asyncQ[p]
           d == hand[p]
           e == threadQ[p]
<1>0. TypeOK  BY DEF IInv
<1>1. c \in Seq(Items) /\ d \in Seq(Items) /\ e \in Seq(Items)  BY <1>0, JourneyTyped
<1>2. UNCHANGED <<settled, current>>
    BY DEF Bridge, BridgeMove, BridgePut, processor, history
<1>3. asyncQ'[p] \o (hand'[p] \o threadQ'[p]) = c \o (d \o e)
    <2>1. CASE o # p
        <3>1. asyncQ'[p] = c /\ hand'[p] = d /\ threadQ'[p] = e
            BY <1>0, <2>1 DEF Bridge, BridgeMove, BridgePut, TypeOK
        <3>2. QED  BY <3>1, Zenon
    <2>2. CASE o = p /\ BridgeMove(p)
        <3> DEFINE h == Head(e)
                   t == Tail(e)
                   one == <<h>>
                   none == <<>>
        <3>1. e # <<>> /\ d = none  BY <2>2 DEF BridgeMove
        <3>2. e = one \o t /\ t \in Seq(Items) /\ one \in Seq(Items) /\ h \in Items
            BY <1>1, <3>1, HeadThenTail
        <3>3. threadQ'[p] = t  BY <1>0, <2>2 DEF BridgeMove, TypeOK
        <3>4. \/ asyncQ'[p] = Append(c, h) /\ hand'[p] = none
              \/ asyncQ'[p] = c /\ hand'[p] = one
            BY <1>0, <2>2, <3>1 DEF BridgeMove, TypeOK
        <3>5. none \o e = e /\ none \o t = t /\ none \in Seq(Items)
            BY <1>1, <3>2, EmptySeq, NothingFirst
        <3>6. Append(c, h) = c \o one  BY <1>1, <3>2, AppendIsConcat
        <3> HIDE DEF c, d, e, h, t, one, none
        <3>7. (c \o one) \o t = c \o (one \o t)
            BY ONLY <1>1, <3>2, ConcatAssociative
        <3>8. CASE asyncQ'[p] = Append(c, h) /\ hand'[p] = none
            BY <3>1, <3>2, <3>3, <3>5, <3>6, <3>7, <3>8, Zenon
        <3>9. CASE asyncQ'[p] = c /\ hand'[p] = one
            BY <3>1, <3>2, <3>3, <3>5, <3>9, Zenon
        <3>10. QED  BY <3>4, <3>8, <3>9
    <2>3. CASE o = p /\ BridgePut(p)
        <3> DEFINE none == <<>>
        <3>1. asyncQ'[p] = c \o d /\ hand'[p] = none /\ threadQ'[p] = e
            BY <1>0, <2>3 DEF BridgePut, TypeOK
        <3>2. none \o e = e  BY <1>1, NothingFirst
        <3> HIDE DEF c, d, e, none
        <3>3. (c \o d) \o e = c \o (d \o e)  BY <1>1, ConcatAssociative
        <3>4. QED  BY <3>1, <3>2, <3>3, Zenon
    <2>4. QED  BY <2>1, <2>2, <2>3 DEF Bridge
<1>4. QED  BY <1>2, <1>3, Zenon DEF Journey

\* What the normal queue gives out has no other priority.
LEMMA NormalDelivered ==
    ASSUME IInv, [Next]_vars, CarriedBatch \/ NormalGet \/ FinalBatch,
           NEW p \in {"high", "low"}, NEW i \in 1..Len(current')
    PROVE  current'[i] \notin Of(p)
<1>0. TypeOK /\ TypeOK' /\ ExactlyOnePlace /\ Sorted /\ "normal" \in Priority
    BY TypeOKStep DEF IInv, Priority
<1> SUFFICES ASSUME NEW x \in Accepted, x = current'[i] PROVE PriorityOf(x) = "normal"
    BY DEF Of
<1> DEFINE c == Count(current', x)
<1>1. current' \in Seq(Items)  BY <1>0 DEF TypeOK
<1>2. c > 0  BY <1>1, ElementCounted
<1>3. x \in Events  BY <1>0, AcceptedKinds
<1>4. Queued("normal", x) \in Nat /\ Count(batch, x) \in Nat  BY <1>0, CountsTyped
<1>5. Queued("normal", x) > 0 \/ Count(batch, x) > 0
    <2>1. CASE CarriedBatch
        <3>1. /\ Queued("normal", x)' + c = Queued("normal", x) + Count(batch, x)
              /\ Queued("normal", x)' \in Nat /\ c \in Nat
            BY <2>1, CarriedBatchAccount
        <3> DEFINE left == Queued("normal", x)'
        <3>2. left + c = Queued("normal", x) + Count(batch, x) /\ left \in Nat /\ c \in Nat
            BY <3>1
        <3> HIDE DEF c, left
        <3>3. QED  BY <1>2, <1>4, <3>2
    <2>2. CASE NormalGet
        <3>1. /\ Queued("normal", x)' + c = Queued("normal", x)
              /\ Queued("normal", x)' \in Nat /\ c \in Nat
            BY <2>2, NormalGetAccount
        <3> DEFINE left == Queued("normal", x)'
        <3>2. left + c = Queued("normal", x) /\ left \in Nat /\ c \in Nat
            BY <3>1
        <3> HIDE DEF c, left
        <3>3. QED  BY <1>2, <1>4, <3>2
    <2>3. CASE FinalBatch
        <3>1. current' = batch  BY <2>3 DEF FinalBatch, Deliver
        <3>2. c = Count(batch, x)  BY <3>1
        <3>3. QED  BY <1>2, <3>2
    <2>4. QED  BY <2>1, <2>2, <2>3
<1>6. QED  BY <1>0, <1>3, <1>5 DEF Sorted

\* An accepted event is later than all that came before it, and adds to its priority.
LEMMA OfNext ==
    ASSUME TypeOK, NEW kind \in Kinds, Accept(kind), NEW p \in Priority
    PROVE  /\ \A x \in Of(p)' : x \in Of(p) \/ x = Len(accepted) + 1
           /\ p # kind.priority => Of(p)' = Of(p)
           /\ \A x \in Of(p) : x < Len(accepted) + 1
           /\ Of(p)' \subseteq Events
<1>1. /\ Len(accepted) + 1 \in Events /\ Len(accepted) + 1 \notin Accepted
      /\ Accepted' = Accepted \union {Len(accepted) + 1}
      /\ \A e \in Accepted : accepted'[e] = accepted[e] /\ e < Len(accepted) + 1
      /\ accepted'[Len(accepted) + 1] = kind
    BY AcceptEffect
<1>2. Of(p)' = {e \in Accepted' : accepted'[e].priority = p}  BY DEF Of, PriorityOf
<1>3. Of(p) = {e \in Accepted : accepted[e].priority = p}  BY DEF Of, PriorityOf
<1>4. \A e \in Accepted : e \in Events  BY AcceptedKinds
<1>5. QED  BY <1>1, <1>2, <1>3, <1>4

\* Every step keeps the order of arrival within high and low events.
LEMMA OrderedStep == ASSUME IInv, [Next]_vars PROVE Ordered'
<1> SUFFICES ASSUME NEW p \in {"high", "low"} PROVE InOrder(Journey(p)', Of(p)')
    BY DEF Ordered
<1>0. TypeOK /\ TypeOK' /\ ExactlyOnePlace /\ Sorted /\ p \in Priority /\ p # "normal"
    BY TypeOKStep DEF IInv, Priority
<1> DEFINE Goal == InOrder(Journey(p)', Of(p)')
           E == Of(p)
           a == settled
           b == current
           c == asyncQ[p]
           d == hand[p]
           e == threadQ[p]
           r == d \o e
           q == c \o r
           none == <<>>
<1>1. /\ a \in Seq(Items) /\ b \in Seq(Items) /\ c \in Seq(Items) /\ d \in Seq(Items)
      /\ e \in Seq(Items) /\ r \in Seq(Items) /\ q \in Seq(Items) /\ none \in Seq(Items)
    BY <1>0, JourneyTyped, EmptySeq
<1>2. InOrder(a \o (b \o q), E)
    BY DEF IInv, Ordered, Journey
<1>3. ASSUME NEW x \in Seq(Items), NEW y \in Seq(Items), NEW z \in Seq(Items)
      PROVE  /\ InOrder(x \o (y \o z), E) => InOrder(x \o z, E)
             /\ InOrder(x \o z, E) /\ (\A i \in 1..Len(y) : y[i] \notin E) => InOrder(x \o (y \o z), E)
             /\ (x \o y) \o z = x \o (y \o z) /\ y \o z \in Seq(Items)
             /\ none \o z = z
    BY InOrderDrop, InOrderInsert, ConcatAssociative, ConcatProperties, NothingFirst
<1>4. UNCHANGED accepted => Of(p)' = E  BY DEF Of, Accepted, PriorityOf
<1>5. /\ Journey(p) = a \o (b \o q) /\ q = c \o r /\ r = d \o e
      /\ Journey(p)' = settled' \o (current' \o (asyncQ'[p] \o (hand'[p] \o threadQ'[p])))
    BY Zenon DEF Journey
<1>6. Summary \notin E /\ E \subseteq Events /\ E \subseteq Accepted
    BY <1>0, AcceptedKinds, Numbers DEF Of
<1>7. asyncQ[p] # <<>> =>
        /\ c = <<Head(c)>> \o Tail(c)
        /\ Tail(c) \in Seq(Items) /\ <<Head(c)>> \in Seq(Items)
    BY <1>1, HeadThenTail
<1>same. ASSUME Journey(p)' = Journey(p), UNCHANGED accepted PROVE Goal
    BY <1>2, <1>4, <1>5, <1>same
<1>pieces. ASSUME UNCHANGED <<accepted, settled, current, asyncQ, hand, threadQ>> PROVE Goal
    BY <1>same, <1>pieces DEF Journey
<1>8. ASSUME NEW kind \in Kinds, EmitQueued(kind) PROVE Goal
    <2> DEFINE n == Len(accepted) + 1
    <2>1. /\ Accept(kind) /\ Len(accepted') = n /\ n \in Items /\ n \in Events /\ n \notin Accepted
        <3>1. Accept(kind)  BY <1>8 DEF EmitQueued
        <3>2. QED  BY <1>0, <3>1, AcceptEffect, Numbers
    <2>2. /\ threadQ' = [threadQ EXCEPT ![kind.priority] = Append(@, n)]
          /\ UNCHANGED <<settled, current, asyncQ, hand>>
        BY <1>8, <2>1 DEF EmitQueued, processor, history
    <2>3. CASE p = kind.priority
        <3> DEFINE w == <<n>>
        <3>1. w \in Seq(Items)  BY <2>1
        <3>2. threadQ'[p] = e \o w
            <4>1. threadQ'[p] = Append(e, n)  BY <1>0, <2>2, <2>3 DEF TypeOK
            <4>2. Append(e, n) = e \o w
                <5> HIDE DEF e, n
                <5> QED  BY <1>1, <2>1, AppendIsConcat
            <4>3. QED  BY <4>1, <4>2, Zenon
        <3> HIDE DEF w
        <3>3. Journey(p)' = Journey(p) \o w  BY <1>0, <2>2, <3>1, <3>2, JourneyExtended
        <3> DEFINE J == Journey(p)
                   F == Of(p)'
        <3>4. J \in Seq(Items) /\ InOrder(J, E)  BY <1>0, <1>2, <1>5, JourneyTyped
        <3>5. \A i \in 1..Len(J) : J[i] \in F => J[i] \in E /\ J[i] < n
            <4> SUFFICES ASSUME NEW i \in 1..Len(J), J[i] \in F
                         PROVE  J[i] \in E /\ J[i] < n
                OBVIOUS
            <4>1. J[i] \in Events  BY <1>0, <2>1, OfNext
            <4>2. J[i] \in Accepted  BY <1>0, <4>1, JourneyMembers
            <4>3. J[i] # n  BY <2>1, <4>2
            <4>4. J[i] \in E  BY <1>0, <2>1, <4>3, OfNext
            <4>5. QED  BY <1>0, <2>1, <4>4, OfNext
        <3> HIDE DEF J, F, n
        <3>6. InOrder(J \o <<n>>, F)  BY <2>1, <3>4, <3>5, InOrderNext
        <3>7. QED  BY <3>3, <3>6 DEF J, F, w
    <2>4. CASE p # kind.priority
        <3>1. threadQ'[p] = threadQ[p]  BY <1>0, <2>2, <2>4 DEF TypeOK
        <3>2. Journey(p)' = Journey(p)  BY <2>2, <3>1, Zenon DEF Journey
        <3>3. Of(p)' = E  BY <1>0, <2>1, <2>4, OfNext
        <3>4. QED  BY <1>2, <1>5, <3>2, <3>3
    <2>5. QED  BY <2>3, <2>4
<1>9. ASSUME NEW events \in SUBSET Events, Flush(events),
             UNCHANGED <<settled, current, asyncQ, hand>>,
             Summary \notin Of(p)', InOrder(Journey(p), Of(p)')
      PROVE  Goal
    <2>1. PICK z \in Seq({Summary}) :
            threadQ' = [threadQ EXCEPT !["low"] = threadQ["low"] \o z]
        BY <1>0, <1>9, FlushProperties
    <2>2. z \in Seq(Items)  BY Numbers, SeqMonotonic
    <2>3. CASE p = "low"
        <3>1. threadQ'[p] = e \o z  BY <1>0, <2>1, <2>3 DEF TypeOK
        <3>2. Journey(p)' = Journey(p) \o z  BY <1>0, <1>9, <2>2, <3>1, JourneyExtended
        <3> DEFINE J == Journey(p)
                   F == Of(p)'
        <3>3. J \in Seq(Items)  BY <1>0, JourneyTyped
        <3>4. \A i \in 1..Len(z) : z[i] \notin F  BY <1>9, ElementOfSeq
        <3>5. InOrder(J, F)  BY <1>9
        <3> HIDE DEF J, F
        <3>6. InOrder(J \o z, F)  BY <2>2, <3>3, <3>4, <3>5, InOrderExtended
        <3>7. QED  BY <3>2, <3>6 DEF J, F
    <2>4. CASE p # "low"
        <3>1. threadQ'[p] = threadQ[p]  BY <1>0, <2>1, <2>4 DEF TypeOK
        <3>2. Journey(p)' = Journey(p)  BY <1>9, <3>1, Zenon DEF Journey
        <3>3. QED  BY <1>9, <3>2
    <2>5. QED  BY <2>3, <2>4
<1>10. ASSUME NEW kind \in Kinds, EmitBuffered(kind) PROVE Goal
    <2> DEFINE n == Len(accepted) + 1
               F == Of(p)'
               J == Journey(p)
    <2>1. Accept(kind) /\ UNCHANGED <<settled, current, asyncQ, hand>>
        BY <1>10 DEF EmitBuffered, processor
    <2>2. n \in Events /\ n \notin Accepted /\ buffer \subseteq Events
        BY <1>0, <2>1, AcceptEffect DEF TypeOK
    <2>3. F \subseteq Events /\ \A x \in F : x \in E \/ x = n
        BY <1>0, <2>1, OfNext
    <2>4. InOrder(J, F)
        <3>1. InOrder(J, E)  BY <1>2, <1>5
        <3>2. \A i \in 1..Len(J) : J[i] \in F => J[i] \in E
            <4> SUFFICES ASSUME NEW i \in 1..Len(J), J[i] \in F PROVE J[i] \in E
                OBVIOUS
            <4>1. J[i] \in Accepted  BY <1>0, <2>3, JourneyMembers
            <4>2. QED  BY <2>2, <2>3, <4>1
        <3> HIDE DEF J, E, F
        <3>3. QED  BY <3>1, <3>2 DEF InOrder
    <2>5. CASE Flush(buffer \union {n})
        <3>1. buffer \union {n} \in SUBSET Events  BY <2>2
        <3>2. Summary \notin F  BY <2>3, Numbers
        <3> HIDE DEF n
        <3>3. QED  BY <1>9, <2>1, <2>4, <2>5, <3>1, <3>2
    <2>6. CASE UNCHANGED threadQ
        <3>1. Journey(p)' = Journey(p)  BY <2>1, <2>6, Zenon DEF Journey
        <3>2. QED  BY <2>4, <3>1
    <2>7. QED  BY <1>10, <2>5, <2>6 DEF EmitBuffered
<1>11. ASSUME Stop PROVE Goal
    <2>1. Flush(buffer) /\ UNCHANGED <<accepted, settled, current, asyncQ, hand>>
        BY <1>11 DEF Stop, processor
    <2>2. buffer \in SUBSET Events  BY <1>0 DEF TypeOK
    <2>3. Of(p)' = E  BY <1>4, <2>1
    <2>4. QED  BY <1>2, <1>5, <1>6, <1>9, <2>1, <2>2, <2>3
<1>12. ASSUME NEW o \in Priority, Bridge(o) PROVE Goal
    <2>1. UNCHANGED accepted  BY <1>12 DEF Bridge, BridgeMove, BridgePut, intake
    <2>2. Journey(p)' = Journey(p)  BY <1>0, <1>12, JourneyBridged
    <2>3. QED  BY <1>same, <2>1, <2>2
<1>13. ASSUME UNCHANGED <<accepted, settled, hand, threadQ>>, current = none,
              NEW u \in Seq(Items), current' = u, \A i \in 1..Len(u) : u[i] \notin E,
              asyncQ'[p] = c \/ (c # <<>> /\ asyncQ'[p] = Tail(c))
       PROVE  Goal
    <2>1. Of(p)' = E  BY <1>4, <1>13
    <2>2. Journey(p)' = a \o (u \o (asyncQ'[p] \o r))  BY <1>5, <1>13, Zenon
    <2>3. InOrder(a \o q, E)  BY <1>1, <1>2, <1>3, <1>13
    <2>4. CASE asyncQ'[p] = c
        <3>1. Journey(p)' = a \o (u \o q)  BY <1>5, <2>2, <2>4, Zenon
        <3> HIDE DEF a, q, E
        <3>2. InOrder(a \o (u \o q), E)  BY <1>1, <1>3, <1>13, <2>3
        <3>3. QED  BY <2>1, <3>1, <3>2
    <2>5. CASE c # <<>> /\ asyncQ'[p] = Tail(c)
        <3> DEFINE one == <<Head(c)>>
                   t == Tail(c)
                   w == t \o r
        <3>1. c = one \o t /\ t \in Seq(Items) /\ one \in Seq(Items)  BY <1>7, <2>5
        <3>2. Journey(p)' = a \o (u \o w)  BY <2>2, <2>5, Zenon
        <3>3. q = c \o r  OBVIOUS
        <3>4. w = t \o r  OBVIOUS
        <3> HIDE DEF a, c, r, q, one, t, w, E
        <3>5. (one \o t) \o r = one \o (t \o r) 
            <4>1. one \in Seq(Items) /\ t \in Seq(Items) /\ r \in Seq(Items)  BY <1>1, <3>1
            <4>2. QED  BY ONLY <4>1, ConcatAssociative
        <3>w. w \in Seq(Items)  BY <1>1, <1>3, <3>1, <3>4
        <3>6. q = one \o w  BY <3>1, <3>3, <3>4, <3>5, Zenon
        <3>7. InOrder(a \o (one \o w), E)  BY <2>3, <3>6, Zenon
        <3>8. InOrder(a \o w, E)  BY <1>1, <1>3, <3>1, <3>w, <3>7
        <3>9. InOrder(a \o (u \o w), E)  BY <1>1, <1>3, <1>13, <3>w, <3>8
        <3>10. QED  BY <2>1, <3>2, <3>9
    <2>6. QED  BY <1>13, <2>4, <2>5
<1>single. ASSUME NEW s \in {"high", "low"}, asyncQ[s] # <<>>, pc # "deliver",
                  asyncQ' = [asyncQ EXCEPT ![s] = Tail(@)], current' = <<Head(asyncQ[s])>>,
                  UNCHANGED <<accepted, settled, hand, threadQ>>
           PROVE  Goal
    <2>1. current = none  BY <1>single DEF IInv, Control
    <2>2. CASE s = p
        <3> DEFINE one == <<Head(c)>>
                   t == Tail(c)
        <3>1. c = one \o t /\ t \in Seq(Items) /\ one \in Seq(Items)  BY <1>7, <1>single, <2>2
        <3>2. asyncQ'[p] = t /\ current' = one  BY <1>0, <1>single, <2>2 DEF TypeOK
        <3>3. Journey(p)' = a \o (one \o (t \o r))  BY <1>5, <1>single, <3>2, Zenon
        <3>4. none \o q = q  BY <1>1, <1>3
        <3>b. b = none  BY <2>1
        <3>5. q = c \o r  OBVIOUS
        <3> HIDE DEF a, b, c, r, q, one, none, t, E
        <3>6. InOrder(a \o q, E)  BY <1>2, <3>4, <3>b, Zenon
        <3>7. (one \o t) \o r = one \o (t \o r)
            <4>1. one \in Seq(Items) /\ t \in Seq(Items) /\ r \in Seq(Items)  BY <1>1, <3>1
            <4>2. QED  BY ONLY <4>1, ConcatAssociative
        <3>8. Journey(p)' = a \o q  BY <3>1, <3>3, <3>5, <3>7, Zenon
        <3>9. Of(p)' = E  BY <1>4, <1>single
        <3>10. QED  BY <3>6, <3>8, <3>9
    <2>3. CASE s # p
        <3> DEFINE h == Head(asyncQ[s])
                   u == <<h>>
        <3>1. s \in Priority  BY DEF Priority
        <3>2. h \in Items /\ (h # Summary => PriorityOf(h) = s)
            BY <1>single, <3>1, HeadOfQueue
        <3>3. h \notin E  BY <1>6, <2>3, <3>2 DEF Of
        <3>4. asyncQ'[p] = c  BY <1>0, <1>single, <2>3 DEF TypeOK
        <3>5. current' = u  BY <1>single
        <3> HIDE DEF h
        <3>6. u \in Seq(Items) /\ \A i \in 1..Len(u) : u[i] \notin E  BY <3>2, <3>3
        <3> HIDE DEF u, E, c, Goal
        <3>7. QED  BY <1>13, <1>single, <2>1, <3>4, <3>5, <3>6
    <2>4. QED  BY <2>2, <2>3
<1>14. ASSUME SecondGet PROVE Goal
    <2>1. /\ asyncQ' = [asyncQ EXCEPT !["normal"] = Tail(@)]
          /\ UNCHANGED <<accepted, settled, current, hand, threadQ>>
        BY <1>14 DEF SecondGet, intake, history
    <2>2. asyncQ'[p] = asyncQ[p]  BY <1>0, <2>1 DEF TypeOK
    <2>3. Journey(p)' = Journey(p)  BY <2>1, <2>2, Zenon DEF Journey
    <2>4. QED  BY <1>same, <2>1, <2>3
<1>15. ASSUME HighGet \/ LowGet PROVE Goal
    <2>1. CASE HighGet
        BY <1>single, <2>1 DEF HighGet, Deliver, intake, history
    <2>2. CASE LowGet
        BY <1>single, <2>2 DEF LowGet, Deliver, intake, history
    <2>3. QED  BY <1>15, <2>1, <2>2
<1>16. ASSUME CarriedBatch \/ NormalGet \/ FinalBatch PROVE Goal
    <2> DEFINE u == current'
    <2>1. u \in Seq(Items)  BY <1>0 DEF TypeOK
    <2>2. \A i \in 1..Len(u) : u[i] \notin E
        <3>1. UNCHANGED accepted  BY <1>16 DEF CarriedBatch, NormalGet, FinalBatch, intake
        <3>2. QED  BY <1>16, <3>1, NormalDelivered DEF Of
    <2>3. current = none
        BY <1>16 DEF CarriedBatch, NormalGet, FinalBatch, IInv, Control
    <2>4. UNCHANGED <<accepted, settled, hand, threadQ>>
        BY <1>16 DEF CarriedBatch, NormalGet, FinalBatch, intake, history
    <2>5. asyncQ'[p] = c \/ (c # <<>> /\ asyncQ'[p] = Tail(c))
        <3>1. CASE CarriedBatch
            BY <1>0, <3>1 DEF CarriedBatch, ProcessBatch, TypeOK
        <3>2. CASE NormalGet
            BY <1>0, <3>2 DEF NormalGet, ProcessBatch, TypeOK
        <3>3. CASE FinalBatch
            BY <3>3 DEF FinalBatch
        <3>4. QED  BY <1>16, <3>1, <3>2, <3>3
    <2>6. current' = u  OBVIOUS
    <2> HIDE DEF u, E, c, none, Goal
    <2>7. QED  BY <1>13, <2>1, <2>2, <2>3, <2>4, <2>5, <2>6
<1>17. ASSUME HighTimeout \/ NormalTimeout \/ SecondTimeout \/ LowTimeout PROVE Goal
    <2>1. current = none /\ current' = none
        BY <1>17 DEF HighTimeout, NormalTimeout, SecondTimeout, LowTimeout, IInv, Control
    <2>2. UNCHANGED <<accepted, settled, hand, threadQ>>
        BY <1>17 DEF HighTimeout, NormalTimeout, SecondTimeout, LowTimeout, intake
    <2>3. asyncQ'[p] = c \/ (c # <<>> /\ asyncQ'[p] = Tail(c))
        <3>1. PICK s \in Priority : TimesOut(s)
            BY <1>17 DEF HighTimeout, NormalTimeout, SecondTimeout, LowTimeout, Priority
        <3>2. QED  BY <1>0, <3>1 DEF TimesOut, Discard, TypeOK
    <2>4. \A i \in 1..Len(none) : none[i] \notin E  OBVIOUS
    <2> HIDE DEF E, c, none, Goal
    <2>5. QED  BY <1>1, <1>13, <2>1, <2>2, <2>3, <2>4
<1>18. ASSUME DeliveryEnds PROVE Goal
    <2>1. current' = none /\ UNCHANGED <<accepted, asyncQ, hand, threadQ>>
        BY <1>18 DEF DeliveryEnds, intake
    <2>2. settled' = a \/ settled' = a \o b  BY <1>18 DEF DeliveryEnds
    <2>3. Journey(p)' = settled' \o (none \o q)  BY <1>5, <2>1, Zenon
    <2>4. none \o q = q  BY <1>1, <1>3
    <2>5. Of(p)' = E  BY <1>4, <2>1
    <2> HIDE DEF a, b, q, none, E
    <2>6. CASE settled' = a
        <3>1. InOrder(a \o q, E)  BY <1>1, <1>2, <1>3
        <3>2. QED  BY <2>3, <2>4, <2>5, <2>6, <3>1, Zenon
    <2>7. CASE settled' = a \o b
        <3>1. (a \o b) \o q = a \o (b \o q)
            <4>1. a \in Seq(Items) /\ b \in Seq(Items) /\ q \in Seq(Items)  BY <1>1
            <4>2. QED  BY ONLY <4>1, ConcatAssociative
        <3>2. Journey(p)' = a \o (b \o q)  BY <2>3, <2>4, <2>7, <3>1, Zenon
        <3>3. QED  BY <1>2, <2>5, <3>2, Zenon
    <2>8. QED  BY <2>2, <2>6, <2>7
<1>19. ASSUME ThreadEnds PROVE Goal
    <2>1. /\ settled' = a /\ current' = none /\ asyncQ'[p] = none /\ hand'[p] = none
          /\ threadQ'[p] = e /\ UNCHANGED accepted
        BY <1>0, <1>19 DEF ThreadEnds, Empty, intake
    <2>2. Journey(p)' = a \o (none \o (none \o (none \o e)))  BY <1>5, <2>1, Zenon
    <2>3. none \o e = e  BY <1>1, <1>3
    <2>4. Of(p)' = E  BY <1>4, <2>1
    <2>5. q = c \o r /\ r = d \o e  OBVIOUS
    <2> HIDE DEF a, b, c, d, e, r, q, none, E
    <2>6. InOrder(a \o q, E)  BY <1>1, <1>2, <1>3
    <2>7. InOrder(a \o (c \o r), E)  BY <2>5, <2>6, Zenon
    <2>8. InOrder(a \o r, E)  BY <1>1, <1>3, <2>7
    <2>9. InOrder(a \o (d \o e), E)  BY <2>5, <2>8, Zenon
    <2>10. InOrder(a \o e, E)  BY <1>1, <1>3, <2>9
    <2>11. Journey(p)' = a \o e  BY <2>2, <2>3, Zenon
    <2>12. QED  BY <2>4, <2>10, <2>11, Zenon
<1>20. ASSUME CallSucceeds \/ CallFails \/ Start PROVE Goal
    BY <1>20, <1>pieces DEF CallSucceeds, CallFails, Start, intake, history
<1>21. ASSUME NEW s \in Subs, NEW t \in Types, Subscribe(s, t) \/ Unsubscribe(s, t) PROVE Goal
    BY <1>21, <1>pieces DEF Subscribe, Unsubscribe, intake, processor, history
<1>22. ASSUME UNCHANGED vars PROVE Goal
    BY <1>22, <1>pieces DEF vars, intake, processor, history
<1> HIDE DEF Goal
<1>23. Goal
    BY <1>8, <1>10, <1>11, <1>12, <1>14, <1>15, <1>16, <1>17, <1>18, <1>19, <1>20, <1>21, <1>22
       DEF Next, Process, Emit
<1>24. QED  BY <1>23 DEF Goal

-----------------------------------------------------------------------------
(* The inductive invariant *)

\* The queue begins as the invariant says.
LEMMA InitIInv == ASSUME Init PROVE IInv
<1>1. accepted = <<>> /\ Accepted = {}  BY DEF Init, Accepted
<1>2. \A p \in Priority : threadQ[p] = <<>> /\ hand[p] = <<>> /\ asyncQ[p] = <<>>
    BY DEF Init, Empty
<1>3. TypeOK
    <2>1. <<>> \in Seq(Kinds) /\ <<>> \in Seq(Items) /\ <<>> \in Seq(Events) /\ <<>> \in Seq(Subs)
          /\ Len(<<>>) = 0
        BY EmptySeq
    <2>2. \A p \in Priority : Capacity[p] \in Nat  BY Numbers
    <2>3. max_batch_size \in Nat /\ max_retries \in Nat /\ MaxStops \in Nat /\ MaxEvents \in Nat
        BY Numbers, BoundsAssumption
    <2>4. Empty \in [Priority -> Seq(Items)]  BY <2>1 DEF Empty
    <2>5. /\ threadQ \in [Priority -> Seq(Items)] /\ hand \in [Priority -> Seq(Items)]
          /\ asyncQ \in [Priority -> Seq(Items)]
        BY <2>4 DEF Init
    <2>6. /\ subscribers \in [Types -> SUBSET Subs]
          /\ handled \in [Subs -> [Events -> Nat]]
        BY DEF Init
    <2>7. \A p \in Priority :
            Len(threadQ[p]) <= Capacity[p] /\ Len(asyncQ[p]) <= Capacity[p] /\ Len(hand[p]) <= 1
        BY <1>2, <2>1, <2>2
    <2>8. QED  BY <2>1, <2>3, <2>5, <2>6, <2>7 DEF Init, TypeOK
<1>4. \A p \in Priority : \A x : Queued(p, x) = 0
    BY <1>2, CountEmpty DEF Queued
<1>5. \A x : Count(batch, x) = 0 /\ Count(current, x) = 0 /\ Count(settled, x) = 0
    BY CountEmpty DEF Init
<1>6. ExactlyOnePlace
    <2>1. \A e \in Events : Processed(e) = 0  BY <1>5 DEF Processed
    <2>2. \A e \in Events : Apart(e) = 0  BY DEF Init, Apart, Member
    <2>3. "high" \in Priority /\ "normal" \in Priority /\ "low" \in Priority  BY DEF Priority
    <2>4. QED  BY <1>1, <1>4, <2>1, <2>2, <2>3 DEF ExactlyOnePlace, Occurrences
<1>7. Control  BY DEF Init, Control
<1>8. Sorted
    <2>1. "normal" \in Priority  BY DEF Priority
    <2>2. QED  BY <1>4, <1>5, <2>1, Numbers DEF Sorted
<1>9. Handling
    <2>1. pending = <<>> /\ \A s \in Subs, e \in Events : handled[s][e] = 0  BY DEF Init
    <2>2. QED  BY <2>1 DEF Handling
<1>10. OneTypePerBatch  BY DEF Init, OneTypePerBatch
<1>11. Ordered
    <2>1. \A p : Of(p) = {}  BY <1>1 DEF Of
    <2>2. QED  BY <2>1 DEF Ordered, InOrder
<1>12. QED  BY <1>3, <1>6, <1>7, <1>8, <1>9, <1>10, <1>11 DEF IInv

\* Every step keeps the invariant.
LEMMA NextIInv == IInv /\ [Next]_vars => IInv'
<1> SUFFICES ASSUME IInv, [Next]_vars PROVE IInv'
    OBVIOUS
<1>1. TypeOK' /\ ExactlyOnePlace' /\ Control' /\ Sorted'
    BY TypeOKStep, OnePlaceStep, ControlStep, SortedStep
<1>2. Handling' /\ OneTypePerBatch' /\ Ordered'
    BY HandlingStep, OneTypeStep, OrderedStep
<1>3. QED  BY <1>1, <1>2 DEF IInv

\* In every reachable state, for any number of events and subscribers and any
\* capacities, all the parts of the invariant hold together.
THEOREM Inductive == Spec => []IInv
<1>1. Init => IInv  BY InitIInv
<1>2. IInv /\ [Next]_vars => IInv'  BY NextIInv
<1>3. QED  BY <1>1, <1>2, PTL DEF Spec

\* What has been delivered is the near end of the journey.
LEMMA DeliveredInOrder == ASSUME IInv PROVE PriorityFifo
<1> SUFFICES ASSUME NEW i \in 1..Len(settled), NEW j \in 1..Len(settled), i < j,
                    PriorityOf(settled[i]) = PriorityOf(settled[j]),
                    PriorityOf(settled[i]) # "normal"
             PROVE  settled[i] < settled[j]
    BY DEF PriorityFifo
<1> DEFINE p == PriorityOf(settled[i])
           rest == current \o (asyncQ[p] \o (hand[p] \o threadQ[p]))
           way == settled \o rest
<1>1. TypeOK /\ ExactlyOnePlace /\ Ordered  BY DEF IInv
<1>2. settled \in Seq(Events)  BY <1>1 DEF TypeOK
<1>3. ASSUME NEW k \in 1..Len(settled) PROVE settled[k] \in Accepted
    <2>1. settled[k] \in Events  BY <1>2, ElementOfSeq
    <2>2. Count(settled, settled[k]) > 0  BY <1>2, ElementCounted
    <2> DEFINE x == settled[k]
    <2>3. /\ Processed(x) = Count(batch, x) + Count(current, x) + Count(settled, x)
          /\ Count(batch, x) \in Nat /\ Count(current, x) \in Nat /\ Count(settled, x) \in Nat
        BY <1>1, CountsTyped DEF Processed
    <2>4. Processed(x) > 0  BY <2>2, <2>3
    <2>5. QED  BY <1>1, <2>1, <2>4, OnTheWayAccepted
<1>4. p \in {"high", "low"} /\ p \in Priority
    <2>1. p \in Priority  BY <1>1, <1>3, AcceptedKinds
    <2> HIDE DEF p
    <2>2. p # "normal"  BY DEF p
    <2>3. QED  BY <2>1, <2>2 DEF Priority
<1>5. settled[i] \in Of(p) /\ settled[j] \in Of(p)
    BY <1>3 DEF Of
<1>6. InOrder(Journey(p), Of(p))  BY <1>1, <1>4 DEF Ordered
<1>7. Journey(p) = way  BY Zenon DEF Journey
<1>8. settled \in Seq(Items) /\ rest \in Seq(Items)  BY <1>1, <1>4, JourneyTyped
<1> DEFINE E == Of(p)
<1>9. InOrder(way, E) /\ settled[i] \in E /\ settled[j] \in E  BY <1>5, <1>6, <1>7
<1> HIDE DEF p, rest, E
<1>10. /\ Len(way) = Len(settled) + Len(rest) /\ Len(settled) \in Nat /\ Len(rest) \in Nat
       /\ \A k \in 1..Len(way) : way[k] = IF k <= Len(settled) THEN settled[k] ELSE rest[k - Len(settled)]
    BY <1>8, ConcatProperties, LenProperties
<1> HIDE DEF way
<1>11. way[i] = settled[i] /\ way[j] = settled[j] /\ i \in 1..Len(way) /\ j \in 1..Len(way)
    BY <1>10
<1>12. QED  BY <1>9, <1>11 DEF InOrder

-----------------------------------------------------------------------------
(* The theorems *)

\* Every variable keeps its type, and no queue of resources/events/queue.py
\* exceeds its maxsize.
THEOREM TypesKept == Spec => []TypeOK
<1>1. IInv => TypeOK  BY DEF IInv
<1>2. QED  BY <1>1, Inductive, PTL

\* An accepted event is in exactly one place, once, whatever the bridges, the
\* batch filler, time-outs, a flush or a restart do with it.
THEOREM NothingLostUnseen == Spec => []ExactlyOnePlace
<1>1. IInv => ExactlyOnePlace  BY DEF IInv
<1>2. QED  BY <1>1, Inductive, PTL

\* No retry, batch or restart makes a callback handle an event twice.
THEOREM NoneHandledTwice == Spec => []HandledAtMostOnce
<1>1. IInv => HandledAtMostOnce  BY DEF IInv, Handling, HandledAtMostOnce
<1>2. QED  BY <1>1, Inductive, PTL

\* High- and low-priority events are delivered in the order of acceptance,
\* and a batch has events of one type.
THEOREM OrderKept == Spec => []HandedOverInOrder
<1>1. IInv => HandedOverInOrder
    BY DeliveredInOrder DEF IInv, HandedOverInOrder
<1>2. QED  BY <1>1, Inductive, PTL
=============================================================================
