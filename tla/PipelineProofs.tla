--------------------------- MODULE PipelineProofs ---------------------------
(***************************************************************************)
(* Theorems about OutboxPublisher and EventPipeline for any number of      *)
(* workers, members, events and partitions, any batch and queue size and   *)
(* any number of faults and moves.                                         *)
(***************************************************************************)
EXTENDS EventPipeline, TLAPS, FiniteSetTheorems, FunctionTheorems, SequenceTheorems

-----------------------------------------------------------------------------
(* The elements of a sequence.                                             *)
LEMMA ElementsOf ==
    ASSUME NEW S, NEW s \in Seq(S)
    PROVE  /\ DOMAIN s = 1..Len(s) /\ Len(s) \in Nat
           /\ \A i \in 1..Len(s) : s[i] \in ToSet(s) /\ s[i] \in S
           /\ \A e \in ToSet(s) : e \in S /\ \E i \in 1..Len(s) : s[i] = e
  BY DEF ToSet

(* No message has the empty queue.                                         *)
LEMMA EmptyHasNone == ToSet(<<>>) = {} /\ IsInjective(<<>>)
  BY DEF ToSet, IsInjective

(* Appending one message.                                                  *)
LEMMA AppendElements ==
    ASSUME NEW S, NEW s \in Seq(S), NEW e \in S
    PROVE  /\ ToSet(Append(s, e)) = ToSet(s) \cup {e}
           /\ IsInjective(s) /\ e \notin ToSet(s) => IsInjective(Append(s, e))
<1>1. /\ Append(s, e) \in Seq(S) /\ Len(Append(s, e)) = Len(s) + 1
      /\ Append(s, e)[Len(s) + 1] = e /\ \A i \in 1..Len(s) : Append(s, e)[i] = s[i]
  OBVIOUS
<1>2. DOMAIN s = 1..Len(s) /\ DOMAIN Append(s, e) = 1..(Len(s) + 1) /\ Len(s) \in Nat
  OBVIOUS
<1>3. ToSet(Append(s, e)) = ToSet(s) \cup {e}
  <2>1. ToSet(Append(s, e)) \subseteq ToSet(s) \cup {e}
    BY <1>1, <1>2 DEF ToSet
  <2>2. ToSet(s) \subseteq ToSet(Append(s, e))
    BY <1>1, <1>2 DEF ToSet
  <2>3. e \in ToSet(Append(s, e))
    BY <1>1, <1>2 DEF ToSet
  <2> QED
    BY <2>1, <2>2, <2>3
<1>4. ASSUME IsInjective(s), e \notin ToSet(s) PROVE IsInjective(Append(s, e))
  <2>1. \A i \in 1..Len(s) : s[i] # e
    BY <1>2, <1>4 DEF ToSet
  <2> QED
    BY <1>1, <1>2, <1>4, <2>1 DEF IsInjective
<1> QED
  BY <1>3, <1>4

(* Queueing a batch behind what is queued.                                 *)
LEMMA ConcatElements ==
    ASSUME NEW S, NEW s \in Seq(S), NEW t \in Seq(S)
    PROVE  /\ ToSet(s \o t) = ToSet(s) \cup ToSet(t)
           /\ IsInjective(s) /\ IsInjective(t) /\ ToSet(s) \cap ToSet(t) = {}
                 => IsInjective(s \o t)
<1>1. /\ s \o t \in Seq(S) /\ Len(s \o t) = Len(s) + Len(t)
      /\ \A i \in 1..Len(s) : (s \o t)[i] = s[i]
      /\ \A i \in 1..Len(t) : (s \o t)[Len(s) + i] = t[i]
      /\ \A i \in 1..(Len(s) + Len(t)) : i > Len(s) => (s \o t)[i] = t[i - Len(s)]
  OBVIOUS
<1>2. /\ DOMAIN s = 1..Len(s) /\ DOMAIN t = 1..Len(t) /\ Len(s) \in Nat /\ Len(t) \in Nat
      /\ DOMAIN (s \o t) = 1..(Len(s) + Len(t))
  BY <1>1
<1>3. ToSet(s \o t) = ToSet(s) \cup ToSet(t)
  <2>1. ASSUME NEW e \in ToSet(s \o t) PROVE e \in ToSet(s) \cup ToSet(t)
    <3>1. PICK i \in 1..(Len(s) + Len(t)) : e = (s \o t)[i]
      BY <1>2, <2>1 DEF ToSet
    <3>2. CASE i <= Len(s)
      BY <1>1, <1>2, <3>1, <3>2 DEF ToSet
    <3>3. CASE i > Len(s)
      <4>1. i - Len(s) \in 1..Len(t) /\ e = t[i - Len(s)]
        BY <1>1, <1>2, <3>1, <3>3
      <4> QED
        BY <1>2, <4>1 DEF ToSet
    <3> QED
      BY <1>2, <3>1, <3>2, <3>3
  <2>2. ToSet(s) \subseteq ToSet(s \o t)
    BY <1>1, <1>2 DEF ToSet
  <2>3. ASSUME NEW e \in ToSet(t) PROVE e \in ToSet(s \o t)
    <3>1. PICK i \in 1..Len(t) : e = t[i]
      BY <1>2, <2>3 DEF ToSet
    <3>2. Len(s) + i \in 1..(Len(s) + Len(t)) /\ e = (s \o t)[Len(s) + i]
      BY <1>1, <1>2, <3>1
    <3> QED
      BY <1>2, <3>2 DEF ToSet
  <2> QED
    BY <2>1, <2>2, <2>3
<1>4. ASSUME IsInjective(s), IsInjective(t), ToSet(s) \cap ToSet(t) = {}
      PROVE  IsInjective(s \o t)
  <2>1. \A i \in 1..Len(s), j \in 1..Len(t) : s[i] # t[j]
    BY <1>2, <1>4 DEF ToSet
  <2> SUFFICES ASSUME NEW a \in 1..(Len(s) + Len(t)), NEW b \in 1..(Len(s) + Len(t)),
                      (s \o t)[a] = (s \o t)[b]
               PROVE  a = b
    BY <1>2 DEF IsInjective
  <2>2. CASE a <= Len(s) /\ b <= Len(s)
    BY <1>1, <1>2, <1>4, <2>2 DEF IsInjective
  <2>3. CASE a > Len(s) /\ b > Len(s)
    <3>1. a - Len(s) \in 1..Len(t) /\ b - Len(s) \in 1..Len(t) /\ t[a - Len(s)] = t[b - Len(s)]
      BY <1>1, <1>2, <2>3
    <3>2. a - Len(s) = b - Len(s)
      BY <1>2, <1>4, <3>1 DEF IsInjective
    <3> QED
      BY <1>2, <3>2
  <2>4. CASE a <= Len(s) /\ b > Len(s)
    <3>1. a \in 1..Len(s) /\ b - Len(s) \in 1..Len(t) /\ s[a] = t[b - Len(s)]
      BY <1>1, <1>2, <2>4
    <3> QED
      BY <2>1, <3>1
  <2>5. CASE a > Len(s) /\ b <= Len(s)
    <3>1. b \in 1..Len(s) /\ a - Len(s) \in 1..Len(t) /\ s[b] = t[a - Len(s)]
      BY <1>1, <1>2, <2>5
    <3> QED
      BY <2>1, <3>1
  <2> QED
    BY <1>2, <2>2, <2>3, <2>4, <2>5
<1> QED
  BY <1>3, <1>4

(* Taking message i out of the queue.                                      *)
LEMMA RemoveElements ==
    ASSUME NEW S, NEW s \in Seq(S), NEW i \in 1..Len(s)
    PROVE  /\ RemoveAt(s, i) \in Seq(S) /\ Len(RemoveAt(s, i)) = Len(s) - 1
           /\ ToSet(RemoveAt(s, i)) \subseteq ToSet(s)
           /\ ToSet(s) \subseteq ToSet(RemoveAt(s, i)) \cup {s[i]}
           /\ IsInjective(s) => /\ IsInjective(RemoveAt(s, i))
                                /\ s[i] \notin ToSet(RemoveAt(s, i))
<1> DEFINE r == RemoveAt(s, i)
           From(k) == IF k < i THEN k ELSE k + 1
<1>0. Len(s) \in Nat /\ i \in Nat /\ 1 <= i /\ i <= Len(s)
  OBVIOUS
<1>1. DOMAIN s = 1..Len(s) /\ Len(s) \in Nat /\ i \in Int /\ \A k \in 1..Len(s) : s[k] \in S
  OBVIOUS
<1>2. /\ SubSeq(s, 1, i - 1) \in Seq(S) /\ Len(SubSeq(s, 1, i - 1)) = i - 1
      /\ \A k \in 1..(i - 1) : SubSeq(s, 1, i - 1)[k] = s[k]
  BY <1>1
<1>3. /\ SubSeq(s, i + 1, Len(s)) \in Seq(S) /\ Len(SubSeq(s, i + 1, Len(s))) = Len(s) - i
      /\ \A k \in 1..(Len(s) - i) : SubSeq(s, i + 1, Len(s))[k] = s[i + k]
  <2>1. \A k \in (i + 1)..Len(s) : s[k] \in S
    BY <1>1
  <2>2. i + 1 \in Int /\ Len(s) \in Int
    BY <1>1
  <2>3. /\ SubSeq(s, i + 1, Len(s)) \in Seq(S)
        /\ Len(SubSeq(s, i + 1, Len(s))) = IF i + 1 <= Len(s) THEN Len(s) - (i + 1) + 1 ELSE 0
        /\ \A k \in 1..(Len(s) - (i + 1) + 1) : SubSeq(s, i + 1, Len(s))[k] = s[(i + 1) + k - 1]
    BY ONLY <2>1, <2>2, SubSeqProperties
  <2>4. \A k \in 1..(Len(s) - i) : (i + 1) + k - 1 = i + k /\ k \in 1..(Len(s) - (i + 1) + 1)
    BY <1>1
  <2>5. Len(s) - i = IF i + 1 <= Len(s) THEN Len(s) - (i + 1) + 1 ELSE 0
    BY ONLY <1>0
  <2> QED
    BY ONLY <2>3, <2>4, <2>5
<1>4. /\ r \in Seq(S) /\ Len(r) = Len(s) - 1
      /\ \A k \in 1..(Len(s) - 1) : r[k] = s[From(k)] /\ From(k) \in 1..Len(s) /\ From(k) # i
  <2>1. /\ r \in Seq(S) /\ Len(r) = Len(s) - 1
        /\ \A k \in 1..(i - 1) : r[k] = SubSeq(s, 1, i - 1)[k]
        /\ \A k \in i..(Len(s) - 1) : r[k] = SubSeq(s, i + 1, Len(s))[k - (i - 1)]
    <3> DEFINE u == SubSeq(s, 1, i - 1)
               v == SubSeq(s, i + 1, Len(s))
    <3>1. r = u \o v
      BY DEF RemoveAt
    <3>2. u \in Seq(S) /\ v \in Seq(S) /\ Len(u) = i - 1 /\ Len(v) = Len(s) - i
      BY <1>2, <1>3
    <3> HIDE DEF r, u, v
    <3>3. r \in Seq(S) /\ Len(r) = Len(s) - 1
      <4>1. r \in Seq(S) /\ Len(r) = Len(u) + Len(v)
        BY ONLY <3>1, <3>2, ConcatProperties
      <4> QED
        BY ONLY <1>0, <3>2, <4>1
    <3>4. \A k \in 1..(i - 1) : r[k] = u[k]
      BY <1>0, <3>1, <3>2
    <3>5. \A k \in i..(Len(s) - 1) : r[k] = v[k - (i - 1)]
      BY <1>0, <3>1, <3>2
    <3> QED
      BY <3>3, <3>4, <3>5 DEF u, v
  <2>2. \A k \in i..(Len(s) - 1) : r[k] = s[k + 1]
    <3> TAKE k \in i..(Len(s) - 1)
    <3>1. k - (i - 1) \in 1..(Len(s) - i) /\ i + (k - (i - 1)) = k + 1
      BY <1>1
    <3> QED
      BY <1>3, <2>1, <3>1
  <2> QED
    BY <1>1, <1>2, <2>1, <2>2
<1>5. DOMAIN r = 1..(Len(s) - 1)
  BY <1>4
<1> HIDE DEF r
<1>6. ToSet(r) \subseteq ToSet(s)
  BY <1>1, <1>4, <1>5 DEF ToSet
<1>7. ASSUME NEW k \in 1..Len(s), k # i PROVE s[k] \in ToSet(r)
  <2>1. CASE k < i
    <3>1. k \in 1..(Len(s) - 1) /\ r[k] = s[k]
      BY <1>1, <1>4, <2>1
    <3> QED
      BY <1>5, <3>1 DEF ToSet
  <2>2. CASE k > i
    <3>1. k - 1 \in 1..(Len(s) - 1) /\ From(k - 1) = k
      BY <1>1, <2>2
    <3>2. r[k - 1] = s[k]
      BY <1>4, <3>1
    <3> QED
      BY <1>5, <3>1, <3>2 DEF ToSet
  <2> QED
    BY <1>1, <1>7, <2>1, <2>2
<1>8. ToSet(s) \subseteq ToSet(r) \cup {s[i]}
  BY <1>1, <1>7 DEF ToSet
<1>9. ASSUME IsInjective(s) PROVE IsInjective(r) /\ s[i] \notin ToSet(r)
  <2>1. \A a, b \in 1..(Len(s) - 1) : From(a) = From(b) => a = b
    BY <1>1
  <2>2. IsInjective(r)
    BY <1>1, <1>4, <1>5, <1>9, <2>1 DEF IsInjective
  <2>3. \A k \in 1..(Len(s) - 1) : r[k] # s[i]
    BY <1>1, <1>4, <1>9 DEF IsInjective
  <2>4. s[i] \notin ToSet(r)
    BY <1>5, <2>3 DEF ToSet
  <2> QED
    BY <2>2, <2>4
<1> QED
  BY <1>4, <1>6, <1>8, <1>9 DEF r

-----------------------------------------------------------------------------
USE PublisherAssumption

(* A finite set of rows can be put in order: a row goes where the number   *)
(* of rows up to it says.                                                  *)
LEMMA OldestFirstSorts ==
    ASSUME NEW R, R \subseteq Nat, IsFiniteSet(R)
    PROVE  /\ OldestFirst(R) \in SetToSeqs(R)
           /\ \A i, j \in DOMAIN OldestFirst(R) :
                 i < j => OldestFirst(R)[i] < OldestFirst(R)[j]
<1> DEFINE n == Cardinality(R)
           UpTo(x) == {y \in R : y <= x}
           rank == [x \in R |-> Cardinality(UpTo(x))]
<1>1. n \in Nat
  BY FS_CardinalityType
<1>2. ASSUME NEW x \in R
      PROVE  IsFiniteSet(UpTo(x)) /\ Cardinality(UpTo(x)) \in 1..n
  <2>1. UpTo(x) \in SUBSET R /\ x \in UpTo(x)
    OBVIOUS
  <2>2. IsFiniteSet(UpTo(x)) /\ Cardinality(UpTo(x)) <= n
    BY <2>1, FS_Subset
  <2>3. Cardinality(UpTo(x)) \in Nat /\ Cardinality(UpTo(x)) # 0
    BY <2>1, <2>2, FS_CardinalityType, FS_EmptySet
  <2> QED
    BY <1>1, <2>2, <2>3
<1>3. ASSUME NEW x \in R, NEW y \in R, x < y
      PROVE  Cardinality(UpTo(x)) < Cardinality(UpTo(y))
  <2>1. UpTo(x) \in SUBSET UpTo(y) /\ UpTo(x) # UpTo(y)
    <3>1. y \in UpTo(y) /\ y \notin UpTo(x)
      BY <1>3
    <3>2. \A z \in R : z <= x => z <= y
      BY <1>3
    <3> QED
      BY <3>1, <3>2
  <2>2. IsFiniteSet(UpTo(y)) /\ Cardinality(UpTo(x)) \in Nat /\ Cardinality(UpTo(y)) \in Nat
    BY <1>2
  <2> HIDE DEF UpTo
  <2>3. Cardinality(UpTo(x)) <= Cardinality(UpTo(y)) /\ Cardinality(UpTo(x)) # Cardinality(UpTo(y))
    BY <2>1, <2>2, FS_Subset
  <2> QED
    BY <2>2, <2>3
<1> HIDE DEF n, UpTo
<1>4. rank \in [R -> 1..n] /\ \A x, y \in R : x < y => rank[x] < rank[y]
  BY <1>2, <1>3
<1> HIDE DEF rank
<1>5. \A x, y \in R : rank[x] = rank[y] => x = y
  <2>1. \A x, y \in R : x \in Nat /\ y \in Nat /\ rank[x] \in Nat /\ rank[y] \in Nat
    BY <1>4
  <2> QED
    BY <1>4, <2>1
<1>6. \A k \in 1..n : \E x \in R : rank[x] = k
  <2>1. rank \in Injection(R, 1..n)
    BY <1>4, <1>5, Fun_IsInj
  <2>2. IsFiniteSet(1..n) /\ Cardinality(1..n) = n
    BY <1>1, FS_Interval
  <2>3. rank \in Surjection(R, 1..n)
    BY <2>1, <2>2, FS_Injection DEF n
  <2> QED
    BY <2>3, Fun_SurjectionProperties
<1> DEFINE s == [k \in 1..n |-> CHOOSE x \in R : rank[x] = k]
<1>7. s \in [1..n -> R] /\ \A k \in 1..n : rank[s[k]] = k
  BY <1>6
<1> HIDE DEF s
<1>8. s \in SetToSeqs(R)
  BY <1>7 DEF SetToSeqs, n
<1>9. \A i, j \in DOMAIN s : i < j => s[i] < s[j]
  <2> SUFFICES ASSUME NEW i \in 1..n, NEW j \in 1..n, i < j PROVE s[i] < s[j]
    BY <1>7
  <2>1. s[i] \in R /\ s[j] \in R /\ rank[s[i]] = i /\ rank[s[j]] = j /\ s[i] \in Nat /\ s[j] \in Nat
    BY <1>7
  <2>2. i \in Nat /\ j \in Nat
    BY <1>1
  <2>3. CASE s[j] < s[i]
    <3>1. j < i
      BY <1>4, <2>1, <2>3
    <3> QED
      BY <2>2, <3>1
  <2>4. CASE s[i] = s[j]
    BY <2>1, <2>2, <2>4
  <2> QED
    BY <2>1, <2>3, <2>4
<1> QED
  BY <1>8, <1>9 DEF OldestFirst

(* What a worker fetches are unpublished rows, each once and at most a     *)
(* batch of them.                                                          *)
LEMMA FetchedRows ==
    ASSUME TypeOK
    PROVE  /\ fetch_unpublished \in Seq(outbox \ published)
           /\ IsInjective(fetch_unpublished) /\ Len(fetch_unpublished) <= BatchSize
<1> DEFINE R == outbox \ published
<1>1. R \subseteq Nat /\ IsFiniteSet(R)
  <2>1. R \in SUBSET Events
    BY DEF TypeOK
  <2> QED
    BY <2>1, FS_Subset
<1>2. Cardinality(R) \in Nat
  BY <1>1, FS_CardinalityType
<1>3. Pending \in SetToSeqs(R)
  BY <1>1, OldestFirstSorts DEF Pending
<1> HIDE DEF R
<1>4. Pending \in [1..Cardinality(R) -> R] /\ IsInjective(Pending)
  BY <1>3 DEF SetToSeqs, IsInjective
<1>5. /\ Pending \in Seq(R) /\ Len(Pending) = Cardinality(R)
      /\ \A k \in 1..Len(Pending) : Pending[k] \in R
  BY <1>2, <1>4
<1>6. CASE Len(Pending) <= BatchSize
  BY <1>4, <1>5, <1>6 DEF fetch_unpublished, Limited, R
<1>7. CASE ~(Len(Pending) <= BatchSize)
  <2>1. fetch_unpublished = SubSeq(Pending, 1, BatchSize)
    BY <1>7 DEF fetch_unpublished, Limited
  <2>2. BatchSize \in Nat /\ Len(Pending) \in Nat /\ BatchSize >= 1 /\ BatchSize < Len(Pending)
    BY <1>2, <1>5, <1>7
  <2>3. \A k \in 1..BatchSize : Pending[k] \in R /\ k \in 1..Len(Pending)
    BY <1>5, <2>2
  <2>4. /\ SubSeq(Pending, 1, BatchSize) \in Seq(R)
        /\ Len(SubSeq(Pending, 1, BatchSize)) = BatchSize
        /\ \A k \in 1..BatchSize : SubSeq(Pending, 1, BatchSize)[k] = Pending[k]
    BY <1>5, <2>2, <2>3
  <2>5. DOMAIN SubSeq(Pending, 1, BatchSize) = 1..BatchSize /\ DOMAIN Pending = 1..Len(Pending)
    BY <1>5, <2>4
  <2>6. IsInjective(SubSeq(Pending, 1, BatchSize))
    BY <1>4, <2>3, <2>4, <2>5 DEF IsInjective
  <2> QED
    BY <2>1, <2>2, <2>4, <2>6 DEF R
<1> QED
  BY <1>6, <1>7

-----------------------------------------------------------------------------
(* Every message is in the partition of its key.                           *)
InPlace == \A p \in Partitions : \A e \in ToSet(topic[p]) : Partition[e] = p

(* Once produce has run, a row of the batch is queued or in the log unless *)
(* an error is reported, and after a flush that waited it is in the log.   *)
BatchIsSent ==
    \A w \in Publishers :
       /\ ToSet(batch[w]) \subseteq outbox
       /\ pc[w] = "flush" /\ ~reports[w] =>
             \A e \in ToSet(batch[w]) : Logged(e) \/ e \in ToSet(queue[w])
       /\ pc[w] = "mark" /\ ~timedOut => \A e \in ToSet(batch[w]) : Logged(e)

(* The inductive invariant of the publisher.                               *)
PublisherInv == TypeOK /\ InPlace /\ BatchIsSent /\ PublishedIsLogged

(* The log is only ever appended to.                                       *)
LEMMA LogGrows ==
    ASSUME TypeOK, InPlace, topic' = topic \/ \E e \in Events : LogAppend(e)
    PROVE  /\ topic' \in [Partitions -> Seq(Events)]
           /\ InPlace'
           /\ \A e : Logged(e) => Logged(e)'
<1>1. topic \in [Partitions -> Seq(Events)]
  BY DEF TypeOK
<1>2. CASE topic' = topic
  BY <1>1, <1>2 DEF InPlace, Logged
<1>3. CASE \E e \in Events : LogAppend(e)
  <2>1. PICK e \in Events : LogAppend(e)
    BY <1>3
  <2>2. Partition[e] \in Partitions /\ topic[Partition[e]] \in Seq(Events)
    BY <1>1
  <2>3. /\ topic' = [topic EXCEPT ![Partition[e]] = Append(topic[Partition[e]], e)]
        /\ Append(topic[Partition[e]], e) \in Seq(Events)
    BY <2>1, <2>2 DEF LogAppend
  <2>4. ToSet(topic'[Partition[e]]) = ToSet(topic[Partition[e]]) \cup {e}
    BY <1>1, <2>2, <2>3, AppendElements
  <2>5. \A p \in Partitions : p # Partition[e] => topic'[p] = topic[p]
    BY <1>1, <2>3
  <2>6. topic' \in [Partitions -> Seq(Events)]
    BY <1>1, <2>3
  <2>7. InPlace'
    BY <2>2, <2>4, <2>5 DEF InPlace
  <2>8. \A x : Logged(x) => Logged(x)'
    BY <2>2, <2>4, <2>5 DEF Logged
  <2> QED
    BY <2>6, <2>7, <2>8
<1> QED
  BY <1>2, <1>3

(* The appended message is logged.                                         *)
LEMMA AppendLogs ==
    ASSUME TypeOK, NEW e \in Events, LogAppend(e)
    PROVE  Logged(e)'
<1>1. Partition[e] \in Partitions /\ topic[Partition[e]] \in Seq(Events)
  BY DEF TypeOK
<1>2. topic'[Partition[e]] = Append(topic[Partition[e]], e)
  BY <1>1 DEF LogAppend, TypeOK
<1>3. e \in ToSet(topic'[Partition[e]])
  BY <1>1, <1>2, AppendElements
<1> QED
  BY <1>1, <1>3 DEF Logged

(* A fresh outbox, an idle worker and an empty log.                        *)
LEMMA PublisherInit == Init => PublisherInv
<1> SUFFICES ASSUME Init PROVE PublisherInv
  OBVIOUS
<1>1. <<>> \in Seq(Events) /\ Len(<<>>) = 0
  OBVIOUS
<1>2. /\ \A w \in Publishers : pc[w] \in {"fetch", "down"} /\ batch[w] = <<>> /\ queue[w] = <<>>
      /\ \A p \in Partitions : topic[p] = <<>>
      /\ outbox = {} /\ published = {}
  BY DEF Init
<1>3. TypeOK
  <2>1. pc \in [Publishers -> {"down", "fetch", "produce", "flush", "mark"}]
    BY DEF Init
  <2>2. \A w \in Publishers : Len(batch[w]) <= BatchSize /\ Len(queue[w]) <= QueueLimit
    BY <1>1, <1>2
  <2>3. /\ batch \in [Publishers -> Seq(Events)] /\ queue \in [Publishers -> Seq(Events)]
        /\ topic \in [Partitions -> Seq(Events)]
    BY <1>1 DEF Init
  <2>4. reports \in [Publishers -> BOOLEAN] /\ timedOut \in BOOLEAN
    BY DEF Init
  <2>5. faults \in 0..MaxFaults
    BY DEF Init
  <2> QED
    BY <1>2, <2>1, <2>2, <2>3, <2>4, <2>5 DEF TypeOK
<1>4. InPlace /\ BatchIsSent
  BY <1>2, EmptyHasNone DEF InPlace, BatchIsSent
<1>5. PublishedIsLogged
  BY <1>2 DEF PublishedIsLogged
<1> QED
  BY <1>3, <1>4, <1>5 DEF PublisherInv

(* What every step has to keep of one worker, the others being untouched.  *)
LEMMA WorkerKeeps ==
    ASSUME PublisherInv, NEW w \in Publishers,
           outbox' = outbox, published' = published \/ published' = published \cup ToSet(batch[w]),
           NEW at \in {"down", "fetch", "produce", "flush", "mark"}, pc' = [pc EXCEPT ![w] = at],
           NEW b \in Seq(Events), batch' = [batch EXCEPT ![w] = b], Len(b) <= BatchSize,
           NEW q \in Seq(Events), queue' = [queue EXCEPT ![w] = q], Len(q) <= QueueLimit,
           NEW r \in BOOLEAN, reports' = [reports EXCEPT ![w] = r],
           topic' = topic \/ \E e \in Events : LogAppend(e),
           timedOut' \in BOOLEAN, timedOut => timedOut', faults' \in 0..MaxFaults,
           ToSet(b) \subseteq outbox,
           at = "flush" /\ ~r => \A e \in ToSet(b) : Logged(e)' \/ e \in ToSet(q),
           at = "mark" /\ ~timedOut' => \A e \in ToSet(b) : Logged(e)',
           \A e \in published' \ published : ~timedOut' => Logged(e)'
    PROVE  PublisherInv'
<1>1. topic' \in [Partitions -> Seq(Events)] /\ InPlace' /\ \A e : Logged(e) => Logged(e)'
  BY LogGrows DEF PublisherInv
<1>2. /\ pc'[w] = at /\ batch'[w] = b /\ queue'[w] = q /\ reports'[w] = r
      /\ \A v \in Publishers \ {w} : /\ pc'[v] = pc[v] /\ batch'[v] = batch[v]
                                     /\ queue'[v] = queue[v] /\ reports'[v] = reports[v]
  BY DEF PublisherInv, TypeOK
<1>3. TypeOK'
  <2>1. published' \subseteq outbox' /\ outbox' \subseteq Events
    BY DEF PublisherInv, TypeOK, BatchIsSent
  <2>2. /\ pc' \in [Publishers -> {"down", "fetch", "produce", "flush", "mark"}]
        /\ batch' \in [Publishers -> Seq(Events)] /\ queue' \in [Publishers -> Seq(Events)]
        /\ reports' \in [Publishers -> BOOLEAN]
    BY DEF PublisherInv, TypeOK
  <2>3. \A v \in Publishers : Len(batch'[v]) <= BatchSize /\ Len(queue'[v]) <= QueueLimit
    BY <1>2 DEF PublisherInv, TypeOK
  <2> QED
    BY <1>1, <2>1, <2>2, <2>3 DEF TypeOK
<1>4. BatchIsSent'
  <2> SUFFICES ASSUME NEW v \in Publishers
               PROVE  /\ ToSet(batch'[v]) \subseteq outbox'
                      /\ pc'[v] = "flush" /\ ~reports'[v] =>
                            \A e \in ToSet(batch'[v]) : Logged(e)' \/ e \in ToSet(queue'[v])
                      /\ pc'[v] = "mark" /\ ~timedOut' => \A e \in ToSet(batch'[v]) : Logged(e)'
    BY DEF BatchIsSent
  <2>1. CASE v = w
    BY <1>2, <2>1
  <2>2. CASE v # w
    BY <1>1, <1>2, <2>2 DEF PublisherInv, BatchIsSent
  <2> QED
    BY <2>1, <2>2
<1>5. PublishedIsLogged'
  <2> SUFFICES ASSUME ~timedOut', NEW e \in published' PROVE Logged(e)'
    BY DEF PublishedIsLogged
  <2>1. CASE e \in published
    BY <1>1, <2>1 DEF PublisherInv, PublishedIsLogged
  <2>2. CASE e \notin published
    BY <2>2
  <2> QED
    BY <2>1, <2>2
<1> QED
  BY <1>1, <1>3, <1>4, <1>5 DEF PublisherInv

(* A variable a step of w leaves alone.                                    *)
LEMMA Untouched ==
    ASSUME NEW S, NEW T, NEW f \in [S -> T], NEW w \in S
    PROVE  f = [f EXCEPT ![w] = f[w]]
  OBVIOUS

(* The variables of a worker that a step finds.                            *)
LEMMA WorkerTypes ==
    ASSUME TypeOK, NEW w \in Publishers
    PROVE  /\ pc[w] \in {"down", "fetch", "produce", "flush", "mark"}
           /\ batch[w] \in Seq(Events) /\ Len(batch[w]) <= BatchSize
           /\ queue[w] \in Seq(Events) /\ Len(queue[w]) <= QueueLimit
           /\ reports[w] \in BOOLEAN
           /\ pc = [pc EXCEPT ![w] = pc[w]] /\ batch = [batch EXCEPT ![w] = batch[w]]
           /\ queue = [queue EXCEPT ![w] = queue[w]] /\ reports = [reports EXCEPT ![w] = reports[w]]
           /\ timedOut \in BOOLEAN /\ faults \in 0..MaxFaults
           /\ Fault => faults' \in 0..MaxFaults
<1>1. Fault => faults' \in 0..MaxFaults
  BY DEF Fault, TypeOK
<1>2. /\ pc[w] \in {"down", "fetch", "produce", "flush", "mark"}
      /\ batch[w] \in Seq(Events) /\ queue[w] \in Seq(Events) /\ reports[w] \in BOOLEAN
  BY DEF TypeOK
<1>3. /\ pc = [pc EXCEPT ![w] = pc[w]] /\ batch = [batch EXCEPT ![w] = batch[w]]
      /\ queue = [queue EXCEPT ![w] = queue[w]] /\ reports = [reports EXCEPT ![w] = reports[w]]
  BY Untouched DEF TypeOK
<1> QED
  BY <1>1, <1>2, <1>3 DEF TypeOK

(* The worker is back at the top of its loop with an empty batch.          *)
LEMMA LoopKeeps ==
    ASSUME PublisherInv, NEW w \in Publishers, Loop(w),
           outbox' = outbox,
           \/ published' = published
           \/ published' = published \cup ToSet(batch[w]) /\ pc[w] = "mark",
           NEW q \in Seq(Events), queue' = [queue EXCEPT ![w] = q], Len(q) <= QueueLimit,
           NEW r \in BOOLEAN, reports' = [reports EXCEPT ![w] = r],
           topic' = topic, timedOut' \in BOOLEAN, timedOut => timedOut',
           faults' \in 0..MaxFaults
    PROVE  PublisherInv'
<1>1. /\ pc' = [pc EXCEPT ![w] = "fetch"] /\ batch' = [batch EXCEPT ![w] = <<>>]
      /\ <<>> \in Seq(Events) /\ Len(<<>>) <= BatchSize
  BY DEF Loop
<1>2. ToSet(<<>>) = {}
  BY EmptyHasNone
<1>3. \A e \in published' \ published : ~timedOut' => Logged(e)'
  <2>1. \A e : Logged(e)' <=> Logged(e)
    BY DEF Logged
  <2> QED
    BY <2>1 DEF PublisherInv, BatchIsSent
<1>4. published' = published \/ published' = published \cup ToSet(batch[w])
  OBVIOUS
<1> QED
  BY <1>1, <1>2, <1>3, <1>4, WorkerKeeps

(* What the database and the loop of a worker do.                          *)
LEMMA BatchStepKeeps ==
    ASSUME PublisherInv, NEW w \in Publishers,
           \/ Fetch(w) \/ Produce(w) \/ QueueFull(w)
           \/ MarkPublished(w) \/ CommitFails(w) \/ Crash(w)
    PROVE  PublisherInv'
<1> USE WorkerTypes DEF PublisherInv
<1>1. CASE Fetch(w)
  <2>1. /\ fetch_unpublished \in Seq(Events) /\ Len(fetch_unpublished) <= BatchSize
        /\ ToSet(fetch_unpublished) \subseteq outbox
    <3>1. fetch_unpublished \in Seq(outbox \ published) /\ outbox \ published \subseteq Events
      BY FetchedRows DEF TypeOK
    <3> QED
      BY <3>1, FetchedRows, SeqMonotonic, ElementsOf
  <2>2. /\ pc' = [pc EXCEPT ![w] = "produce"] /\ batch' = [batch EXCEPT ![w] = fetch_unpublished]
        /\ UNCHANGED <<outbox, published, queue, reports, topic, timedOut, faults>>
    BY <1>1 DEF Fetch
  <2> HIDE DEF PublisherInv
  <2> QED
    BY <2>1, <2>2, WorkerTypes, WorkerKeeps DEF PublisherInv
<1>2. CASE Produce(w)
  <2> DEFINE q == queue[w] \o batch[w]
  <2>1. /\ pc' = [pc EXCEPT ![w] = "flush"] /\ queue' = [queue EXCEPT ![w] = q]
        /\ Len(queue[w]) + Len(batch[w]) <= QueueLimit
        /\ UNCHANGED <<outbox, published, batch, reports, topic, timedOut, faults>>
    BY <1>2 DEF Produce
  <2>2. q \in Seq(Events) /\ Len(q) <= QueueLimit /\ ToSet(batch[w]) \subseteq ToSet(q)
    <3>1. queue[w] \in Seq(Events) /\ batch[w] \in Seq(Events)
      OBVIOUS
    <3>2. q \in Seq(Events) /\ Len(q) = Len(queue[w]) + Len(batch[w])
      BY ONLY <3>1, ConcatProperties
    <3>3. ToSet(batch[w]) \subseteq ToSet(q)
      BY ONLY <3>1, ConcatElements
    <3> QED
      BY ONLY <2>1, <3>2, <3>3
  <2>3. ToSet(batch[w]) \subseteq outbox
    BY DEF BatchIsSent
  <2> HIDE DEF q, PublisherInv
  <2> QED
    BY <2>1, <2>2, <2>3, WorkerTypes, WorkerKeeps DEF PublisherInv
<1>3. CASE QueueFull(w)
  <2> DEFINE b == SubSeq(batch[w], 1, QueueLimit - Len(queue[w]))
             q == queue[w] \o b
  <2>1. /\ Loop(w) /\ queue' = [queue EXCEPT ![w] = q] /\ Fault
        /\ Len(queue[w]) + Len(batch[w]) > QueueLimit
        /\ UNCHANGED <<outbox, published, reports, topic, timedOut>>
    BY <1>3 DEF QueueFull, TypeOK
  <2>2. /\ QueueLimit - Len(queue[w]) \in Nat /\ QueueLimit - Len(queue[w]) <= Len(batch[w])
        /\ Len(batch[w]) \in Nat /\ Len(queue[w]) \in Nat
    <3>1. Len(batch[w]) \in Nat /\ Len(queue[w]) \in Nat /\ Len(queue[w]) <= QueueLimit
      OBVIOUS
    <3>2. Len(queue[w]) + Len(batch[w]) > QueueLimit /\ QueueLimit \in Nat
      BY <2>1
    <3>3. \A L, m, n \in Nat : m <= L /\ m + n > L => L - m \in Nat /\ L - m <= n
      OBVIOUS
    <3> QED
      BY ONLY <3>1, <3>2, <3>3
  <2>3. b \in Seq(Events) /\ Len(b) = QueueLimit - Len(queue[w])
    BY <2>2
  <2> HIDE DEF b
  <2>4. q \in Seq(Events) /\ Len(q) <= QueueLimit
    BY <2>2, <2>3
  <2> HIDE DEF q, PublisherInv
  <2> QED
    BY <2>1, <2>4, WorkerTypes, LoopKeeps DEF PublisherInv
<1>4. CASE MarkPublished(w)
  <2>1. /\ Loop(w) /\ pc[w] = "mark" /\ published' = published \cup ToSet(batch[w])
        /\ UNCHANGED <<outbox, queue, reports, topic, timedOut, faults>>
    BY <1>4 DEF MarkPublished
  <2> HIDE DEF PublisherInv
  <2> QED
    BY <2>1, WorkerTypes, LoopKeeps DEF PublisherInv
<1>5. CASE CommitFails(w)
  <2>1. Loop(w) /\ Fault /\ UNCHANGED <<outbox, published, queue, reports, topic, timedOut>>
    BY <1>5 DEF CommitFails
  <2> HIDE DEF PublisherInv
  <2> QED
    BY <2>1, WorkerTypes, LoopKeeps DEF PublisherInv
<1>6. CASE Crash(w)
  <2>1. /\ Loop(w) /\ Fault /\ UNCHANGED <<outbox, published, topic, timedOut>>
        /\ queue' = [queue EXCEPT ![w] = <<>>] /\ reports' = [reports EXCEPT ![w] = FALSE]
    BY <1>6 DEF Crash
  <2>2. <<>> \in Seq(Events) /\ Len(<<>>) <= QueueLimit
    OBVIOUS
  <2> HIDE DEF PublisherInv
  <2> QED
    BY <2>1, <2>2, WorkerTypes, LoopKeeps DEF PublisherInv
<1> QED
  BY <1>1, <1>2, <1>3, <1>4, <1>5, <1>6

(* flush returns, with or without messages left in the queue.              *)
LEMMA FlushKeeps ==
    ASSUME PublisherInv, NEW w \in Publishers, FlushAcked(w) \/ FlushTimeout(w)
    PROVE  PublisherInv'
<1>1. /\ pc[w] = "flush" /\ reports' = [reports EXCEPT ![w] = FALSE]
      /\ UNCHANGED <<outbox, published, queue, topic, faults>>
      /\ \/ reports[w] /\ Loop(w)
         \/ ~reports[w] /\ pc' = [pc EXCEPT ![w] = "mark"] /\ UNCHANGED batch
  BY DEF FlushAcked, FlushTimeout, AfterFlush
<1>2. /\ timedOut' \in BOOLEAN /\ (timedOut => timedOut')
      /\ ~timedOut' => queue[w] = <<>>
  BY DEF FlushAcked, FlushTimeout, PublisherInv, TypeOK
<1>3. CASE Loop(w)
  BY <1>1, <1>2, <1>3, WorkerTypes, LoopKeeps DEF PublisherInv
<1>4. CASE ~reports[w] /\ pc' = [pc EXCEPT ![w] = "mark"] /\ UNCHANGED batch
  <2>1. \A e \in ToSet(batch[w]) : Logged(e) \/ e \in ToSet(queue[w])
    BY <1>1, <1>4 DEF PublisherInv, BatchIsSent
  <2>2. \A e : Logged(e)' <=> Logged(e)
    BY <1>1 DEF Logged
  <2>3. ~timedOut' => \A e \in ToSet(batch[w]) : Logged(e)'
    BY <1>2, <2>1, <2>2, EmptyHasNone
  <2>4. ToSet(batch[w]) \subseteq outbox
    BY DEF PublisherInv, BatchIsSent
  <2> QED
    BY <1>1, <1>2, <1>4, <2>3, <2>4, WorkerTypes, WorkerKeeps DEF PublisherInv
<1> QED
  BY <1>1, <1>3, <1>4

(* The producer's thread takes a message from the queue: into the log, or  *)
(* with an error report, or both.                                          *)
LEMMA SendKeeps ==
    ASSUME PublisherInv, NEW w \in Publishers, NEW i \in 1..Len(queue[w]),
           Deliver(w, i) \/ GiveUp(w, i)
    PROVE  PublisherInv'
<1> DEFINE q == RemoveAt(queue[w], i)
           r == IF Deliver(w, i) THEN reports[w] ELSE TRUE
<1>0. PICK e \in Events : e = queue[w][i]
  BY WorkerTypes, ElementsOf DEF PublisherInv
<1>1. /\ queue[w] \in Seq(Events) /\ Len(queue[w]) \in Nat
      /\ Len(queue[w]) <= QueueLimit
  BY WorkerTypes, ElementsOf DEF PublisherInv
<1>2. /\ q \in Seq(Events) /\ Len(q) = Len(queue[w]) - 1
      /\ ToSet(queue[w]) \subseteq ToSet(q) \cup {e}
  BY <1>0, <1>1, RemoveElements
<1>3. /\ queue' = [queue EXCEPT ![w] = q]
      /\ UNCHANGED <<outbox, published, pc, batch, timedOut>>
      /\ topic' = topic \/ LogAppend(e)
      /\ Deliver(w, i) => LogAppend(e) /\ UNCHANGED <<reports, faults>>
      /\ ~Deliver(w, i) => reports' = [reports EXCEPT ![w] = TRUE] /\ Fault
  BY <1>0 DEF Deliver, GiveUp, PublisherInv, TypeOK
<1> HIDE DEF q
<1>4. Len(q) <= QueueLimit
  BY <1>1, <1>2
<1>5. r \in BOOLEAN /\ reports' = [reports EXCEPT ![w] = r] /\ faults' \in 0..MaxFaults
  BY <1>3, WorkerTypes DEF PublisherInv
<1>6. \A x : Logged(x) => Logged(x)'
  BY <1>1, <1>3, LogGrows DEF PublisherInv
<1>7. Deliver(w, i) => Logged(e)'
  BY <1>1, <1>3, AppendLogs DEF PublisherInv
<1>8. pc[w] = "flush" /\ ~r => \A x \in ToSet(batch[w]) : Logged(x)' \/ x \in ToSet(q)
  BY <1>2, <1>6, <1>7 DEF PublisherInv, BatchIsSent
<1>9. /\ ToSet(batch[w]) \subseteq outbox
      /\ pc[w] = "mark" /\ ~timedOut' => \A x \in ToSet(batch[w]) : Logged(x)'
  BY <1>3, <1>6 DEF PublisherInv, BatchIsSent
<1>10. timedOut' \in BOOLEAN /\ (timedOut => timedOut')
  BY <1>3, WorkerTypes DEF PublisherInv
<1>11. /\ pc[w] \in {"down", "fetch", "produce", "flush", "mark"}
       /\ pc' = [pc EXCEPT ![w] = pc[w]] /\ batch' = [batch EXCEPT ![w] = batch[w]]
       /\ batch[w] \in Seq(Events) /\ Len(batch[w]) <= BatchSize
  BY <1>3, WorkerTypes DEF PublisherInv
<1> HIDE DEF r
<1> QED
  BY <1>1, <1>2, <1>3, <1>4, <1>5, <1>8, <1>9, <1>10, <1>11, WorkerKeeps

(* A new row, or a new worker.                                             *)
LEMMA ArrivalKeeps ==
    ASSUME PublisherInv,
           (\E e \in Events : CommitEvent(e)) \/ (\E w \in Publishers : Start(w))
    PROVE  PublisherInv'
<1>1. CASE \E e \in Events : CommitEvent(e)
  <2>1. PICK e \in Events : CommitEvent(e)
    BY <1>1
  <2>2. outbox' = outbox \cup {e} /\ UNCHANGED <<published, pc, batch, queue, reports, topic, timedOut, faults>>
    BY <2>1 DEF CommitEvent, workers
  <2>3. \A x : Logged(x)' <=> Logged(x)
    BY <2>2 DEF Logged
  <2>4. TypeOK' /\ InPlace' /\ PublishedIsLogged'
    BY <2>2, <2>3 DEF PublisherInv, TypeOK, InPlace, PublishedIsLogged
  <2>5. BatchIsSent'
    BY <2>2, <2>3 DEF PublisherInv, BatchIsSent
  <2> QED
    BY <2>4, <2>5 DEF PublisherInv
<1>2. CASE \E w \in Publishers : Start(w)
  <2>1. PICK w \in Publishers : Start(w)
    BY <1>2
  <2>2. /\ pc' = [pc EXCEPT ![w] = "fetch"]
        /\ UNCHANGED <<outbox, published, batch, queue, reports, topic, timedOut, faults>>
    BY <2>1 DEF Start
  <2>3. ToSet(batch[w]) \subseteq outbox
    BY DEF PublisherInv, BatchIsSent
  <2> QED
    BY <2>2, <2>3, WorkerTypes, WorkerKeeps DEF PublisherInv
<1> QED
  BY <1>1, <1>2

(* Every step of the publisher keeps its invariant.                        *)
LEMMA PublisherStep == PublisherInv /\ [Next]_vars => PublisherInv'
<1> SUFFICES ASSUME PublisherInv, [Next]_vars PROVE PublisherInv'
  OBVIOUS
<1>1. CASE UNCHANGED vars
  <2>1. UNCHANGED <<outbox, published, pc, batch, queue, reports, topic, timedOut, faults>>
    BY <1>1 DEF vars, workers
  <2>2. \A x : Logged(x)' <=> Logged(x)
    BY <2>1 DEF Logged
  <2> QED
    BY <2>1, <2>2 DEF PublisherInv, TypeOK, InPlace, PublishedIsLogged, BatchIsSent
<1>2. CASE Next
  BY <1>2, ArrivalKeeps, BatchStepKeeps, FlushKeeps, SendKeeps DEF Next, PublishStep
<1> QED
  BY <1>1, <1>2

(* It holds of every behaviour, with any number of workers at once.        *)
THEOREM PublisherInvariant == Spec => []PublisherInv
  BY PublisherInit, PublisherStep, PTL DEF Spec

(* The workers' variables keep their shape: no batch is longer than        *)
(* batch_size and no local queue overflows.                                *)
THEOREM PublisherIsTyped == Spec => []TypeOK
<1>1. PublisherInv => TypeOK
  BY DEF PublisherInv
<1> QED
  BY <1>1, PublisherInvariant, PTL

(* At-least-once: as long as every flush waited for its acknowledgements,  *)
(* a row marked as published is in the log, also when several workers send *)
(* and mark the same rows and whatever crashes or fails in between.        *)
THEOREM PublishedRowsAreLogged == Spec => []PublishedIsLogged
<1>1. PublisherInv => PublishedIsLogged
  BY DEF PublisherInv
<1> QED
  BY <1>1, PublisherInvariant, PTL

-----------------------------------------------------------------------------
(* The workers that run.                                                   *)
Up == {w \in Publishers : pc[w] # "down"}

(* Worker w, running alone and without a fault so far, has sent what is    *)
(* published and what is in the batch it waits for, each event once.       *)
OnceFor(w) ==
    /\ \A p \in Partitions : IsInjective(topic[p])
    /\ IsInjective(queue[w]) /\ \A e \in ToSet(queue[w]) : ~Logged(e)
    /\ ~reports[w] /\ IsInjective(batch[w])
    /\ \A e \in Events : Logged(e) \/ e \in ToSet(queue[w]) =>
          e \in published \/ (pc[w] \in {"flush", "mark"} /\ e \in ToSet(batch[w]))
    /\ pc[w] = "produce" => ToSet(batch[w]) \cap published = {}

(* Some worker runs, a worker that does not has nothing queued, and one    *)
(* that runs alone without faults repeats nothing.                         *)
OnceInv ==
    /\ IsFiniteSet(Up) /\ (Publishers # {} => Up # {})
    /\ \A w \in Publishers : pc[w] = "down" => queue[w] = <<>>
    /\ faults = 0 => \A w \in Publishers : Up = {w} => OnceFor(w)

(* The loop of a lone worker.                                              *)
LEMMA LoneLoop ==
    ASSUME PublisherInv, NEW w \in Publishers, OnceFor(w),
           Fetch(w) \/ Produce(w) \/ FlushAcked(w) \/ FlushTimeout(w) \/ MarkPublished(w)
    PROVE  OnceFor(w)'
<1>1. /\ queue[w] \in Seq(Events) /\ batch[w] \in Seq(Events)
      /\ ToSet(queue[w]) \subseteq Events /\ ToSet(batch[w]) \subseteq Events
  BY WorkerTypes, ElementsOf DEF PublisherInv
<1>2. topic' = topic /\ \A e : Logged(e)' <=> Logged(e)
  BY DEF Fetch, Produce, FlushAcked, FlushTimeout, AfterFlush, MarkPublished, Logged
<1>3. CASE Fetch(w)
  <2>1. /\ pc[w] = "fetch" /\ pc'[w] = "produce" /\ batch'[w] = fetch_unpublished
        /\ UNCHANGED <<published, queue, reports>>
    BY <1>3 DEF Fetch, PublisherInv, TypeOK
  <2>2. IsInjective(fetch_unpublished) /\ ToSet(fetch_unpublished) \subseteq outbox \ published
    BY FetchedRows, ElementsOf DEF PublisherInv
  <2> QED
    BY <1>2, <2>1, <2>2 DEF OnceFor
<1>4. CASE Produce(w)
  <2>1. /\ pc[w] = "produce" /\ pc'[w] = "flush" /\ queue'[w] = queue[w] \o batch[w]
        /\ UNCHANGED <<published, batch, reports>>
    BY <1>4 DEF Produce, PublisherInv, TypeOK
  <2>2. ToSet(queue'[w]) = ToSet(queue[w]) \cup ToSet(batch[w])
    BY <1>1, <2>1, ConcatElements
  <2>3. ToSet(queue[w]) \subseteq published /\ ToSet(batch[w]) \cap published = {}
    BY <1>1, <2>1 DEF OnceFor
  <2>4. IsInjective(queue'[w])
    BY <1>1, <2>1, <2>3, ConcatElements DEF OnceFor
  <2>5. \A e \in ToSet(queue'[w]) : ~Logged(e)
    BY <1>1, <2>1, <2>2, <2>3 DEF OnceFor
  <2> QED
    BY <1>2, <2>1, <2>2, <2>4, <2>5 DEF OnceFor
<1>5. CASE FlushAcked(w) \/ FlushTimeout(w)
  <2>1. /\ pc[w] = "flush" /\ pc'[w] = "mark" /\ ~reports'[w]
        /\ UNCHANGED <<published, queue, batch>>
    BY <1>5 DEF FlushAcked, FlushTimeout, AfterFlush, OnceFor, PublisherInv, TypeOK
  <2> QED
    BY <1>2, <2>1 DEF OnceFor
<1>6. CASE MarkPublished(w)
  <2>1. /\ pc[w] = "mark" /\ pc'[w] = "fetch" /\ batch'[w] = <<>>
        /\ published' = published \cup ToSet(batch[w]) /\ UNCHANGED <<queue, reports>>
    BY <1>6 DEF MarkPublished, Loop, PublisherInv, TypeOK
  <2> QED
    BY <1>2, <2>1, EmptyHasNone DEF OnceFor
<1> QED
  BY <1>3, <1>4, <1>5, <1>6

(* The producer of a lone worker.                                          *)
LEMMA LoneSend ==
    ASSUME PublisherInv, NEW w \in Publishers, OnceFor(w),
           NEW i \in 1..Len(queue[w]), Deliver(w, i)
    PROVE  OnceFor(w)'
<1>1. PICK e \in Events : e = queue[w][i] /\ e \in ToSet(queue[w])
  BY WorkerTypes, ElementsOf DEF PublisherInv
<1>2. queue[w] \in Seq(Events) /\ topic \in [Partitions -> Seq(Events)] /\ Partition[e] \in Partitions
  BY DEF PublisherInv, TypeOK
<1>3. /\ LogAppend(e) /\ UNCHANGED <<published, pc, batch, reports>>
      /\ queue'[w] = RemoveAt(queue[w], i)
  BY <1>1 DEF Deliver, PublisherInv, TypeOK
<1>4. /\ IsInjective(queue'[w]) /\ e \notin ToSet(queue'[w])
      /\ ToSet(queue'[w]) \subseteq ToSet(queue[w])
  BY <1>1, <1>2, <1>3, RemoveElements DEF OnceFor
<1>5. /\ topic'[Partition[e]] = Append(topic[Partition[e]], e)
      /\ \A p \in Partitions : p # Partition[e] => topic'[p] = topic[p]
  BY <1>2, <1>3 DEF LogAppend
<1>6. ~Logged(e) /\ e \notin ToSet(topic[Partition[e]])
  BY <1>1, <1>2 DEF OnceFor, Logged
<1>7. ToSet(topic'[Partition[e]]) = ToSet(topic[Partition[e]]) \cup {e}
  BY <1>2, <1>5, AppendElements
<1>8. \A x : Logged(x)' => Logged(x) \/ x = e
  BY <1>5, <1>7 DEF Logged
<1>9. \A p \in Partitions : IsInjective(topic'[p])
  <2>1. IsInjective(topic'[Partition[e]])
    BY <1>2, <1>5, <1>6, AppendElements DEF OnceFor
  <2> QED
    BY <1>5, <2>1 DEF OnceFor
<1>10. \A x \in ToSet(queue'[w]) : ~Logged(x)'
  BY <1>4, <1>8 DEF OnceFor
<1>11. \A x \in Events : Logged(x)' \/ x \in ToSet(queue'[w]) =>
          x \in published \/ (pc[w] \in {"flush", "mark"} /\ x \in ToSet(batch[w]))
  BY <1>1, <1>4, <1>8 DEF OnceFor
<1> QED
  BY <1>3, <1>4, <1>9, <1>10, <1>11 DEF OnceFor

(* Workers start and never stop for good.                                  *)
LEMMA UpGrows ==
    ASSUME PublisherInv, OnceInv, Next
    PROVE  /\ IsFiniteSet(Up') /\ (Publishers # {} => Up' # {})
           /\ \/ Up' = Up
              \/ \E w \in Publishers : Start(w) /\ w \notin Up /\ Up' = Up \cup {w}
<1>1. ASSUME NEW w \in Publishers, pc[w] # "down",
             NEW at \in {"fetch", "produce", "flush", "mark"}, pc' = [pc EXCEPT ![w] = at]
      PROVE  Up' = Up
  BY <1>1 DEF Up, PublisherInv, TypeOK
<1>2. ASSUME NEW w \in Publishers, Start(w)
      PROVE  w \notin Up /\ Up' = Up \cup {w}
  BY <1>2 DEF Start, Up, PublisherInv, TypeOK
<1>3. ASSUME pc' = pc PROVE Up' = Up
  BY <1>3 DEF Up
<1>4. \/ Up' = Up
      \/ \E w \in Publishers : Start(w) /\ w \notin Up /\ Up' = Up \cup {w}
  BY <1>1, <1>2, <1>3 DEF Next, PublishStep, CommitEvent, workers, Fetch, Produce, QueueFull,
     FlushAcked, FlushTimeout, AfterFlush, MarkPublished, CommitFails, Crash, Loop, Deliver, GiveUp
<1> QED
  BY <1>4, FS_AddElement DEF OnceInv

(* The lone worker without a fault takes one of its own steps, or a row    *)
(* arrives.                                                                *)
LEMMA LoneSteps ==
    ASSUME PublisherInv, OnceInv, Next, faults' = 0,
           NEW w \in Publishers, Up = {w}, Up' = {w}
    PROVE  \/ \E e \in Events : CommitEvent(e)
           \/ Fetch(w) \/ Produce(w) \/ FlushAcked(w) \/ FlushTimeout(w) \/ MarkPublished(w)
           \/ \E i \in 1..Len(queue[w]) : Deliver(w, i)
<1>1. ~Fault
  BY DEF Fault, PublisherInv, TypeOK
<1>2. \A v \in Publishers \ {w} : pc[v] = "down" /\ queue[v] = <<>>
  BY DEF Up, OnceInv
<1>3. \A v \in Publishers : ~Start(v)
  <2> SUFFICES ASSUME NEW v \in Publishers, Start(v) PROVE FALSE
    OBVIOUS
  <2>1. pc[v] = "down" /\ pc'[v] = "fetch"
    BY DEF Start, PublisherInv, TypeOK
  <2> QED
    BY <2>1 DEF Up
<1>4. ASSUME NEW v \in Publishers, NEW i \in 1..Len(queue[v]) PROVE v = w
  <2>1. Len(<<>>) = 0
    OBVIOUS
  <2> QED
    BY <1>2, <1>4, <2>1
<1>5. ASSUME NEW v \in Publishers, PublishStep(v) PROVE v = w
  <2>1. pc[v] # "down"
    BY <1>5 DEF PublishStep, Fetch, Produce, FlushAcked, FlushTimeout, MarkPublished
  <2> QED
    BY <1>2, <2>1
<1>6. CASE \E e \in Events : CommitEvent(e)
  BY <1>6
<1>7. CASE \E v \in Publishers :
             \/ PublishStep(v) \/ \E i \in 1..Len(queue[v]) : Deliver(v, i)
  BY <1>4, <1>5, <1>7 DEF PublishStep
<1> QED
  BY <1>1, <1>3, <1>6, <1>7 DEF Next, QueueFull, CommitFails, Crash, GiveUp

(* Every step keeps the events of a lone worker from being sent twice.     *)
LEMMA OnceStep == PublisherInv /\ OnceInv /\ [Next]_vars => OnceInv'
<1> SUFFICES ASSUME PublisherInv, OnceInv, [Next]_vars PROVE OnceInv'
  OBVIOUS
<1>1. CASE UNCHANGED vars
  <2>1. UNCHANGED <<outbox, published, pc, batch, queue, reports, topic, timedOut, faults>>
    BY <1>1 DEF vars, workers
  <2>2. Up' = Up /\ \A x : Logged(x)' <=> Logged(x)
    BY <2>1 DEF Up, Logged
  <2>3. \A w \in Publishers : OnceFor(w)' <=> OnceFor(w)
    BY <2>1, <2>2 DEF OnceFor
  <2> QED
    BY <2>1, <2>2, <2>3 DEF OnceInv
<1>2. CASE Next
  <2>1. /\ IsFiniteSet(Up') /\ (Publishers # {} => Up' # {})
        /\ \/ Up' = Up
           \/ \E w \in Publishers : Start(w) /\ w \notin Up /\ Up' = Up \cup {w}
    BY <1>2, UpGrows
  <2>2. ASSUME NEW v \in Publishers, pc'[v] = "down" PROVE queue'[v] = <<>>
    <3>1. v \notin Up'
      BY <2>2 DEF Up
    <3>2. pc[v] = "down" /\ queue[v] = <<>>
      BY <2>1, <3>1 DEF Up, OnceInv
    <3>3. ASSUME NEW w \in Publishers, pc[w] # "down",
                 NEW q, queue' = [queue EXCEPT ![w] = q]
          PROVE  queue'[v] = <<>>
      BY <3>2, <3>3 DEF PublisherInv, TypeOK
    <3>4. ASSUME NEW w \in Publishers, NEW i \in 1..Len(queue[w]) PROVE pc[w] # "down"
      <4>1. Len(<<>>) = 0
        OBVIOUS
      <4> QED
        BY <3>4, <4>1 DEF OnceInv
    <3> QED
      BY <1>2, <3>2, <3>3, <3>4 DEF Next, PublishStep, CommitEvent, workers, Start, Fetch, Produce,
         QueueFull, FlushAcked, FlushTimeout, AfterFlush, MarkPublished, CommitFails, Crash,
         Deliver, GiveUp
  <2>3. ASSUME faults' = 0, NEW w \in Publishers, Up' = {w} PROVE OnceFor(w)'
    <3>1. Up = {w}
      BY <2>1, <2>3 DEF OnceInv
    <3>2. faults = 0
      <4>1. faults' = faults \/ Fault
        BY <1>2 DEF Next, PublishStep, CommitEvent, Start, Fetch, Produce, QueueFull, FlushAcked,
           FlushTimeout, AfterFlush, MarkPublished, CommitFails, Crash, Deliver, GiveUp
      <4> QED
        BY <2>3, <4>1 DEF Fault, PublisherInv, TypeOK
    <3>3. OnceFor(w)
      BY <3>1, <3>2 DEF OnceInv
    <3>4. CASE \E e \in Events : CommitEvent(e)
      <4>1. UNCHANGED <<published, pc, batch, queue, reports, topic>>
        BY <3>4 DEF CommitEvent, workers
      <4>2. \A x : Logged(x)' <=> Logged(x)
        BY <4>1 DEF Logged
      <4> QED
        BY <3>3, <4>1, <4>2 DEF OnceFor
    <3> QED
      BY <1>2, <2>3, <3>1, <3>3, <3>4, LoneSteps, LoneLoop, LoneSend
  <2> QED
    BY <2>1, <2>2, <2>3 DEF OnceInv
<1> QED
  BY <1>1, <1>2

(* A worker that runs alone and meets no fault sends no event twice,       *)
(* however long the brokers take and however often a flush times out.      *)
THEOREM LoneWorkersSendOnce == Spec => []SentOnceWithoutFaults
<1>1. Init => OnceInv
  <2> SUFFICES ASSUME Init PROVE OnceInv
    OBVIOUS
  <2> DEFINE first == CHOOSE w \in Publishers : TRUE
  <2>1. pc = [w \in Publishers |-> IF w = first THEN "fetch" ELSE "down"]
    BY DEF Init
  <2>2. Publishers # {} => Up = {first}
    BY <2>1 DEF Up
  <2>3. Publishers = {} => Up = {}
    BY DEF Up
  <2>4. IsFiniteSet(Up) /\ (Publishers # {} => Up # {})
    <3>1. CASE Publishers = {}
      BY <2>3, <3>1, FS_EmptySet
    <3>2. CASE Publishers # {}
      <4>1. Up = {first}
        BY <2>2, <3>2
      <4> HIDE DEF first
      <4> QED
        BY <4>1, FS_Singleton
    <3> QED
      BY <3>1, <3>2
  <2>5. \A w \in Publishers : OnceFor(w)
    <3>1. /\ published = {} /\ \A w \in Publishers : batch[w] = <<>> /\ queue[w] = <<>> /\ ~reports[w]
          /\ \A w \in Publishers : pc[w] # "produce"
          /\ \A p \in Partitions : topic[p] = <<>>
      BY <2>1 DEF Init
    <3>2. \A e : ~Logged(e)
      BY <3>1, EmptyHasNone DEF Logged
    <3> QED
      BY <3>1, <3>2, EmptyHasNone DEF OnceFor
  <2> QED
    BY <2>4, <2>5 DEF OnceInv, Init
<1>2. PublisherInv /\ OnceInv => SentOnceWithoutFaults
  <2> SUFFICES ASSUME PublisherInv, OnceInv, faults = 0, Cardinality(Up) = 1
               PROVE  /\ \A p \in Partitions : IsInjective(topic[p])
                      /\ \A w \in Publishers : /\ IsInjective(queue[w])
                                               /\ \A i \in 1..Len(queue[w]) : ~Logged(queue[w][i])
    BY DEF SentOnceWithoutFaults, Up
  <2>1. PICK w : Up = {w}
    BY FS_Singleton DEF OnceInv
  <2>2. w \in Publishers /\ OnceFor(w)
    BY <2>1 DEF OnceInv, Up
  <2>3. \A v \in Publishers \ {w} : queue[v] = <<>>
    BY <2>1 DEF OnceInv, Up
  <2>4. \A i \in 1..Len(queue[w]) : ~Logged(queue[w][i])
    BY <2>2, WorkerTypes, ElementsOf DEF OnceFor, PublisherInv
  <2>5. 1..Len(<<>>) = {}
    OBVIOUS
  <2> QED
    BY <2>2, <2>3, <2>4, <2>5, EmptyHasNone DEF OnceFor
<1> QED
  BY <1>1, <1>2, OnceStep, PublisherInvariant, PTL DEF Spec

-----------------------------------------------------------------------------
(* The message in a member's hands.                                        *)
Message == [part : Partitions, next : Nat, event : Events]

(* The group and its members keep their shape; a fetch position lies       *)
(* between the committed offset and the end of the log.                    *)
GroupShape ==
    /\ owner \in [Partitions -> Instances]
    /\ position \in [Partitions -> Nat] /\ offset \in [Partitions -> Nat]
    /\ \A p \in Partitions : offset[p] <= position[p] /\ position[p] <= Len(topic[p])
    /\ moves \in Nat
    /\ member \in [Instances -> {"poll", "handle", "offset"}]
    /\ msg \in [Instances -> Message \cup {<<>>}]
    /\ seen \in [Instances -> SUBSET Events]
    /\ notified \in [Events -> Nat]

(* A message in hand was read from the log; while its partition is still   *)
(* the member's, it is the last one that was fetched.                      *)
InHand ==
    \A i \in Instances : member[i] # "poll" =>
       /\ msg[i] \in Message /\ msg[i].next \in 1..Len(topic[msg[i].part])
       /\ msg[i].event = topic[msg[i].part][msg[i].next]
       /\ owner[msg[i].part] = i => msg[i].next = position[msg[i].part]
       /\ member[i] = "offset" => notified[msg[i].event] > 0

(* Whatever was fetched is notified, but for the message that the owner of *)
(* the partition is about to handle.                                       *)
Handled ==
    /\ \A i \in Instances : \A e \in seen[i] : notified[e] > 0
    /\ \A p \in Partitions : \A n \in 1..offset[p] : notified[topic[p][n]] > 0
    /\ \A p \in Partitions : \A n \in 1..position[p] :
          \/ notified[topic[p][n]] > 0
          \/ /\ member[owner[p]] = "handle"
             /\ msg[owner[p]].part = p /\ msg[owner[p]].next = n

(* The members that may notify of e before anything moves: the owner of    *)
(* its partition and who has it in hand, unless they remember it.          *)
Could(e) ==
    {i \in Instances : /\ e \notin seen[i]
                       /\ \/ owner[Partition[e]] = i
                          \/ member[i] = "handle" /\ msg[i].event = e}

(* Each notification there was or could be is paid for: one for free and   *)
(* one by each move.                                                       *)
Budget ==
    \A e \in Events :
       IsFiniteSet(Could(e)) /\ notified[e] + Cardinality(Could(e)) <= 1 + moves

DeliveryInv == GroupShape /\ InHand /\ Handled /\ Budget

(* The steps of the pipeline as steps of its parts.                        *)
LEMMA PipelineSteps ==
    ASSUME [PipelineNext]_pipelineVars
    PROVE  /\ [Next]_vars
           /\ \/ UNCHANGED consumerOnly
              \/ UNCHANGED topic /\ N!Next
<1>1. N!Next => UNCHANGED topic
  BY DEF N!Next, N!Step, N!Poll, N!handle_event, N!CommitOffset, N!Crash, N!Rebalance,
     N!Fetched, N!Committed, N!Restarted, N!Moved, N!groupVars
<1>2. UNCHANGED publisherOnly /\ UNCHANGED topic => UNCHANGED vars
  BY DEF publisherOnly, vars, workers
<1> QED
  BY <1>1, <1>2 DEF PipelineNext, pipelineVars

(* The publisher's invariant holds in the pipeline.                        *)
LEMMA PublisherInPipeline == PipelineSpec => []PublisherInv
<1>1. PipelineInit => PublisherInv
  BY PublisherInit DEF PipelineInit
<1>2. PublisherInv /\ [PipelineNext]_pipelineVars => PublisherInv'
  BY PipelineSteps, PublisherStep
<1> QED
  BY <1>1, <1>2, PTL DEF PipelineSpec

(* A member of the group starts with nothing in hand.                      *)
LEMMA DeliveryInit == PipelineInit => DeliveryInv
<1> SUFFICES ASSUME PipelineInit PROVE DeliveryInv
  OBVIOUS
<1>1. /\ topic = [p \in Partitions |-> <<>>] /\ owner \in [Partitions -> Instances]
      /\ position = [p \in Partitions |-> 0] /\ offset = [p \in Partitions |-> 0] /\ moves = 0
      /\ member = [i \in Instances |-> "poll"] /\ msg = [i \in Instances |-> <<>>]
      /\ seen = [i \in Instances |-> {}] /\ notified = [e \in Events |-> 0]
  BY DEF PipelineInit, N!Init, N!GroupInit
<1>2. GroupShape
  <2>1. \A p \in Partitions : offset[p] <= position[p] /\ position[p] <= Len(topic[p])
    BY <1>1
  <2> QED
    BY <1>1, <2>1 DEF GroupShape
<1>3. InHand /\ Handled
  BY <1>1 DEF InHand, Handled
<1>4. ASSUME NEW e \in Events
      PROVE  IsFiniteSet(Could(e)) /\ notified[e] + Cardinality(Could(e)) <= 1 + moves
  <2> DEFINE i == owner[Partition[e]]
  <2>1. Could(e) \in SUBSET {i} /\ notified[e] = 0
    BY <1>1, <1>4 DEF Could
  <2> HIDE DEF i
  <2>2. IsFiniteSet({i}) /\ Cardinality({i}) = 1
    BY FS_Singleton
  <2>3. IsFiniteSet(Could(e)) /\ Cardinality(Could(e)) <= 1 /\ Cardinality(Could(e)) \in Nat
    BY <2>1, <2>2, FS_Subset, FS_CardinalityType
  <2> QED
    BY <1>1, <2>1, <2>3
<1> QED
  BY <1>2, <1>3, <1>4 DEF DeliveryInv, Budget

(* What was in the log stays there, at its place.                          *)
LEMMA LogIsStable ==
    ASSUME PublisherInv, [Next]_vars, NEW p \in Partitions
    PROVE  /\ Len(topic[p]) \in Nat /\ Len(topic'[p]) \in Nat /\ Len(topic[p]) <= Len(topic'[p])
           /\ \A n \in 1..Len(topic[p]) : topic'[p][n] = topic[p][n]
<1>1. topic \in [Partitions -> Seq(Events)] /\ topic[p] \in Seq(Events)
  BY DEF PublisherInv, TypeOK
<1>2. topic' = topic \/ \E e \in Events : LogAppend(e)
  <2>1. ASSUME NEW w \in Publishers, NEW i \in 1..Len(queue[w]) PROVE queue[w][i] \in Events
    BY <2>1, WorkerTypes, ElementsOf DEF PublisherInv
  <2> QED
    BY <2>1 DEF Next, PublishStep, CommitEvent, Start, Fetch, Produce, QueueFull, FlushAcked,
       FlushTimeout, AfterFlush, MarkPublished, CommitFails, Crash, Deliver, GiveUp, vars
<1>3. CASE topic' = topic
  BY <1>1, <1>3
<1>4. CASE \E e \in Events : LogAppend(e)
  <2>1. PICK e \in Events : topic' = [topic EXCEPT ![Partition[e]] = Append(@, e)]
    BY <1>4 DEF LogAppend
  <2>2. topic'[p] = topic[p] \/ topic'[p] = Append(topic[p], e)
    BY <1>1, <2>1
  <2> QED
    BY <1>1, <2>2, AppendProperties
<1> QED
  BY <1>2, <1>3, <1>4

(* A step of the publisher disturbs nothing the group relies on.           *)
LEMMA PublishingKeeps ==
    ASSUME PublisherInv, DeliveryInv, [Next]_vars, UNCHANGED consumerOnly
    PROVE  DeliveryInv'
<1>1. UNCHANGED <<owner, position, offset, moves, member, msg, seen, notified>>
  BY DEF consumerOnly
<1>2. \A p \in Partitions :
         /\ Len(topic[p]) \in Nat /\ Len(topic'[p]) \in Nat /\ Len(topic[p]) <= Len(topic'[p])
         /\ \A n \in 1..Len(topic[p]) : topic'[p][n] = topic[p][n]
  BY LogIsStable
<1>3. GroupShape'
  <2>1. \A p \in Partitions : position[p] <= Len(topic'[p])
    BY <1>2 DEF DeliveryInv, GroupShape
  <2> QED
    BY <1>1, <2>1 DEF DeliveryInv, GroupShape
<1>4. InHand'
  <2> SUFFICES ASSUME NEW i \in Instances, member[i] # "poll"
               PROVE  /\ msg[i].next \in 1..Len(topic'[msg[i].part])
                      /\ msg[i].event = topic'[msg[i].part][msg[i].next]
    BY <1>1 DEF DeliveryInv, InHand
  <2>1. /\ msg[i].part \in Partitions /\ msg[i].next \in 1..Len(topic[msg[i].part])
        /\ msg[i].event = topic[msg[i].part][msg[i].next]
    BY DEF DeliveryInv, InHand, Message
  <2> QED
    BY <1>2, <2>1
<1>5. Handled'
  <2>1. \A p \in Partitions : \A n \in 1..position[p] :
           n \in 1..Len(topic[p]) /\ topic'[p][n] = topic[p][n]
    BY <1>2 DEF DeliveryInv, GroupShape
  <2>2. \A p \in Partitions : \A n \in 1..offset[p] : n \in 1..position[p]
    BY DEF DeliveryInv, GroupShape
  <2> QED
    BY <1>1, <2>1, <2>2 DEF DeliveryInv, Handled
<1>6. Budget'
  <2>1. \A e : Could(e)' = Could(e)
    BY <1>1 DEF Could
  <2> QED
    BY <1>1, <2>1 DEF DeliveryInv, Budget
<1> QED
  BY <1>3, <1>4, <1>5, <1>6 DEF DeliveryInv

(* Where a partition stands.                                               *)
LEMMA Positions ==
    ASSUME PublisherInv, GroupShape, NEW p \in Partitions
    PROVE  /\ offset[p] \in Nat /\ position[p] \in Nat /\ Len(topic[p]) \in Nat
           /\ offset[p] <= position[p] /\ position[p] <= Len(topic[p]) /\ offset[p] <= Len(topic[p])
<1>1. offset[p] \in Nat /\ position[p] \in Nat /\ Len(topic[p]) \in Nat
  BY DEF GroupShape, PublisherInv, TypeOK
<1>2. offset[p] <= position[p] /\ position[p] <= Len(topic[p])
  BY DEF GroupShape
<1> QED
  BY <1>1, <1>2

(* A member fetches the next message of one of its partitions.             *)
LEMMA PollKeeps ==
    ASSUME PublisherInv, DeliveryInv, NEW i \in Instances, NEW p \in Partitions, N!Poll(i, p)
    PROVE  DeliveryInv'
<1>1. /\ member[i] = "poll" /\ owner[p] = i /\ position[p] < Len(topic[p])
      /\ position' = [position EXCEPT ![p] = position[p] + 1]
      /\ msg' = [msg EXCEPT ![i] = [part |-> p, next |-> position[p] + 1,
                                    event |-> topic[p][position[p] + 1]]]
      /\ member' = [member EXCEPT ![i] = "handle"]
      /\ UNCHANGED <<topic, owner, offset, moves, seen, notified>>
  BY DEF N!Poll, N!Fetched, DeliveryInv, GroupShape
<1>2. /\ topic[p] \in Seq(Events) /\ Len(topic[p]) \in Nat /\ position[p] \in Nat
      /\ position[p] + 1 \in 1..Len(topic[p])
  <2>1. topic[p] \in Seq(Events) /\ Len(topic[p]) \in Nat /\ position[p] \in Nat
    BY DEF PublisherInv, TypeOK, DeliveryInv, GroupShape
  <2> QED
    BY <1>1, <2>1
<1>3. PICK e \in Events : e = topic[p][position[p] + 1] /\ Partition[e] = p
  BY <1>2, ElementsOf DEF PublisherInv, InPlace
<1> DEFINE m == [part |-> p, next |-> position[p] + 1, event |-> e]
<1>4. /\ m \in Message /\ msg'[i] = m /\ member'[i] = "handle" /\ position'[p] = position[p] + 1
      /\ \A j \in Instances \ {i} : msg'[j] = msg[j] /\ member'[j] = member[j]
      /\ \A q \in Partitions \ {p} : position'[q] = position[q]
      /\ m.part = p /\ m.next = position[p] + 1 /\ m.event = e
  BY <1>1, <1>2, <1>3 DEF Message, DeliveryInv, GroupShape
<1>5. GroupShape'
  <2>1. position' \in [Partitions -> Nat] /\ msg' \in [Instances -> Message \cup {<<>>}]
    BY <1>1, <1>2, <1>3, <1>4 DEF DeliveryInv, GroupShape
  <2>2. member' \in [Instances -> {"poll", "handle", "offset"}]
    BY <1>1 DEF DeliveryInv, GroupShape
  <2>3. \A q \in Partitions : offset[q] <= position'[q] /\ position'[q] <= Len(topic[q])
    <3> TAKE q \in Partitions
    <3>1. /\ offset[q] \in Nat /\ position[q] \in Nat /\ offset[q] <= position[q]
          /\ position[q] <= Len(topic[q])
      BY DEF DeliveryInv, GroupShape
    <3>2. CASE q = p
      BY <1>2, <1>4, <3>1, <3>2
    <3>3. CASE q # p
      BY <1>4, <3>1, <3>3
    <3> QED
      BY <3>2, <3>3
  <2> QED
    BY <1>1, <2>1, <2>2, <2>3 DEF DeliveryInv, GroupShape
<1> HIDE DEF m
<1>6. InHand'
  <2> SUFFICES ASSUME NEW j \in Instances, member'[j] # "poll"
               PROVE  /\ msg'[j] \in Message /\ msg'[j].next \in 1..Len(topic[msg'[j].part])
                      /\ msg'[j].event = topic[msg'[j].part][msg'[j].next]
                      /\ owner[msg'[j].part] = j => msg'[j].next = position'[msg'[j].part]
                      /\ member'[j] = "offset" => notified[msg'[j].event] > 0
    BY <1>1 DEF InHand
  <2>1. CASE j = i
    BY <1>2, <1>3, <1>4, <2>1
  <2>2. CASE j # i
    <3>1. /\ msg[j] \in Message /\ msg[j].next \in 1..Len(topic[msg[j].part])
          /\ msg[j].event = topic[msg[j].part][msg[j].next]
          /\ owner[msg[j].part] = j => msg[j].next = position[msg[j].part]
          /\ member[j] = "offset" => notified[msg[j].event] > 0
          /\ member'[j] = member[j] /\ msg'[j] = msg[j]
      BY <1>4, <2>2 DEF DeliveryInv, InHand
    <3>2. owner[msg[j].part] = j => msg[j].part \in Partitions \ {p}
      BY <1>1, <2>2, <3>1 DEF Message
    <3> QED
      BY <1>4, <3>1, <3>2
  <2> QED
    BY <2>1, <2>2
<1>7. Handled'
  <2>1. ASSUME NEW q \in Partitions, NEW n \in 1..position'[q]
        PROVE  \/ notified[topic[q][n]] > 0
               \/ /\ member'[owner[q]] = "handle"
                  /\ msg'[owner[q]].part = q /\ msg'[owner[q]].next = n
    <3>1. CASE q = p /\ n = position[p] + 1
      BY <1>1, <1>4, <3>1
    <3>2. CASE n \in 1..position[q]
      BY <1>1, <1>4, <3>2 DEF DeliveryInv, Handled, GroupShape
    <3> QED
      BY <1>2, <1>4, <2>1, <3>1, <3>2
  <2> QED
    BY <1>1, <2>1 DEF DeliveryInv, Handled
<1>8. Budget'
  <2>1. \A x \in Events : Could(x)' = Could(x)
    BY <1>1, <1>3, <1>4 DEF Could
  <2> QED
    BY <1>1, <2>1 DEF DeliveryInv, Budget
<1> QED
  BY <1>5, <1>6, <1>7, <1>8 DEF DeliveryInv

(* A member skips what it remembers and notifies of the rest.              *)
LEMMA HandleKeeps ==
    ASSUME PublisherInv, DeliveryInv, NEW i \in Instances, N!handle_event(i)
    PROVE  DeliveryInv'
<1>1. /\ member[i] = "handle" /\ member' = [member EXCEPT ![i] = "offset"]
      /\ UNCHANGED <<topic, owner, position, offset, moves, msg>>
  BY DEF N!handle_event, N!groupVars
<1>2. PICK e \in Events : msg[i].event = e /\ msg[i] \in Message
  BY <1>1 DEF DeliveryInv, InHand, Message
<1>3. /\ member'[i] = "offset" /\ \A j \in Instances \ {i} : member'[j] = member[j]
      /\ member' \in [Instances -> {"poll", "handle", "offset"}]
  BY <1>1 DEF DeliveryInv, GroupShape
<1>4. /\ seen' \in [Instances -> SUBSET Events] /\ notified' \in [Events -> Nat]
      /\ \A j \in Instances \ {i} : seen'[j] = seen[j]
      /\ seen'[i] = seen[i] \cup {e}
      /\ \A x \in Events \ {e} : notified'[x] = notified[x]
      /\ notified'[e] > 0
      /\ notified'[e] = IF e \in seen[i] THEN notified[e] ELSE notified[e] + 1
  <2>1. CASE e \in seen[i]
    BY <1>2, <2>1 DEF N!handle_event, DeliveryInv, GroupShape, Handled
  <2>2. CASE e \notin seen[i]
    <3>1. /\ notified' = [notified EXCEPT ![e] = notified[e] + 1]
          /\ seen' = [seen EXCEPT ![i] = seen[i] \cup {e}]
      BY <1>2, <2>2 DEF N!handle_event, DeliveryInv, GroupShape
    <3>2. notified[e] \in Nat /\ seen[i] \in SUBSET Events
      BY DEF DeliveryInv, GroupShape
    <3> QED
      BY <2>2, <3>1, <3>2 DEF DeliveryInv, GroupShape
  <2> QED
    BY <2>1, <2>2
<1>5. \A x \in Events : notified[x] > 0 => notified'[x] > 0
  BY <1>4
<1>6. GroupShape'
  BY <1>1, <1>3, <1>4 DEF DeliveryInv, GroupShape
<1>7. \A q \in Partitions : \A n \in 1..Len(topic[q]) : topic[q][n] \in Events
  BY ElementsOf DEF PublisherInv, TypeOK
<1>8. InHand'
  <2> SUFFICES ASSUME NEW j \in Instances, member'[j] # "poll"
               PROVE  /\ msg[j] \in Message /\ msg[j].next \in 1..Len(topic[msg[j].part])
                      /\ msg[j].event = topic[msg[j].part][msg[j].next]
                      /\ owner[msg[j].part] = j => msg[j].next = position[msg[j].part]
                      /\ member'[j] = "offset" => notified'[msg[j].event] > 0
    BY <1>1 DEF InHand
  <2>1. CASE j = i
    BY <1>1, <1>2, <1>4, <2>1 DEF DeliveryInv, InHand
  <2>2. CASE j # i
    BY <1>3, <1>5, <2>2 DEF DeliveryInv, InHand, Message
  <2> QED
    BY <2>1, <2>2
<1>9. Handled'
  <2>1. \A j \in Instances : \A x \in seen'[j] : notified'[x] > 0
    <3> SUFFICES ASSUME NEW j \in Instances, NEW x \in seen'[j] PROVE notified'[x] > 0
      OBVIOUS
    <3>1. x \in Events
      BY <1>4
    <3>2. CASE x = e
      BY <1>4, <3>2
    <3>3. CASE x # e
      <4>1. x \in seen[j]
        BY <1>4, <3>3
      <4> QED
        BY <1>5, <3>1, <4>1 DEF DeliveryInv, Handled
    <3> QED
      BY <3>2, <3>3
  <2>2. \A q \in Partitions : /\ \A n \in 1..position[q] : n \in 1..Len(topic[q])
                              /\ \A n \in 1..offset[q] : n \in 1..Len(topic[q])
    BY DEF DeliveryInv, GroupShape, PublisherInv, TypeOK
  <2>3. \A q \in Partitions : \A n \in 1..offset[q] : notified'[topic[q][n]] > 0
    BY <1>5, <1>7, <2>2 DEF DeliveryInv, Handled
  <2>4. ASSUME NEW q \in Partitions, NEW n \in 1..position[q]
        PROVE  \/ notified'[topic[q][n]] > 0
               \/ /\ member'[owner[q]] = "handle"
                  /\ msg[owner[q]].part = q /\ msg[owner[q]].next = n
    <3>1. CASE notified[topic[q][n]] > 0
      BY <1>5, <1>7, <2>2, <3>1
    <3>2. CASE /\ member[owner[q]] = "handle"
               /\ msg[owner[q]].part = q /\ msg[owner[q]].next = n
      <4>1. CASE owner[q] = i
        <5>1. topic[q][n] = e
          BY <1>1, <1>2, <3>2, <4>1 DEF DeliveryInv, InHand
        <5> QED
          BY <1>4, <5>1
      <4>2. CASE owner[q] # i
        <5>1. owner[q] \in Instances
          BY DEF DeliveryInv, GroupShape
        <5> QED
          BY <1>3, <3>2, <4>2, <5>1
      <4> QED
        BY <4>1, <4>2
    <3> QED
      BY <3>1, <3>2 DEF DeliveryInv, Handled
  <2> QED
    BY <1>1, <2>1, <2>3, <2>4 DEF Handled
<1>10. Budget'
  <2> SUFFICES ASSUME NEW x \in Events
               PROVE  /\ IsFiniteSet(Could(x)')
                      /\ notified'[x] + Cardinality(Could(x)') <= 1 + moves'
    BY DEF Budget
  <2>1. /\ IsFiniteSet(Could(x)) /\ notified[x] + Cardinality(Could(x)) <= 1 + moves
        /\ Cardinality(Could(x)) \in Nat /\ notified[x] \in Nat /\ moves \in Nat /\ moves' = moves
    BY <1>1, FS_CardinalityType DEF DeliveryInv, Budget, GroupShape
  <2>2. CASE x # e \/ e \in seen[i]
    <3>1. Could(x)' = Could(x)
      BY <1>1, <1>2, <1>3, <1>4, <2>2 DEF Could
    <3>2. notified'[x] = notified[x]
      BY <1>4, <2>2
    <3> QED
      BY <2>1, <3>1, <3>2
  <2>3. CASE x = e /\ e \notin seen[i]
    <3>1. Could(x)' = Could(x) \ {i} /\ i \in Could(x)
      BY <1>1, <1>2, <1>3, <1>4, <2>3 DEF Could
    <3>2. notified'[x] = notified[x] + 1
      BY <1>4, <2>3
    <3>3. IsFiniteSet(Could(x) \ {i}) /\ Cardinality(Could(x) \ {i}) = Cardinality(Could(x)) - 1
      BY <2>1, <3>1, FS_RemoveElement
    <3> QED
      BY <2>1, <3>1, <3>2, <3>3
  <2> QED
    BY <2>2, <2>3
<1> QED
  BY <1>6, <1>8, <1>9, <1>10 DEF DeliveryInv

(* The offset of a handled message is committed, lost or refused.          *)
LEMMA CommitOffsetKeeps ==
    ASSUME PublisherInv, DeliveryInv, NEW i \in Instances, N!CommitOffset(i)
    PROVE  DeliveryInv'
<1>1. /\ member[i] = "offset" /\ member' = [member EXCEPT ![i] = "poll"]
      /\ msg' = [msg EXCEPT ![i] = <<>>]
      /\ \/ owner[msg[i].part] = i /\ offset' = [offset EXCEPT ![msg[i].part] = msg[i].next]
         \/ offset' = offset
      /\ UNCHANGED <<topic, owner, position, moves, seen, notified>>
  BY DEF N!CommitOffset, N!Committed
<1>2. /\ member'[i] = "poll" /\ msg'[i] = <<>>
      /\ \A j \in Instances \ {i} : member'[j] = member[j] /\ msg'[j] = msg[j]
      /\ member' \in [Instances -> {"poll", "handle", "offset"}]
      /\ msg' \in [Instances -> Message \cup {<<>>}]
  BY <1>1 DEF DeliveryInv, GroupShape
<1>3. /\ msg[i].part \in Partitions /\ msg[i].next \in Nat
      /\ owner[msg[i].part] = i => msg[i].next = position[msg[i].part]
  BY <1>1 DEF DeliveryInv, InHand, Message
<1>4. \A q \in Partitions : \/ offset'[q] = offset[q]
                            \/ offset'[q] = position[q] /\ owner[q] = i
  BY <1>1, <1>3 DEF DeliveryInv, GroupShape
<1>5. offset' \in [Partitions -> Nat]
  BY <1>1, <1>3 DEF DeliveryInv, GroupShape
<1>6. GroupShape'
  <2>1. \A q \in Partitions : offset'[q] <= position[q]
    BY <1>4, Positions DEF DeliveryInv
  <2> QED
    BY <1>1, <1>2, <1>5, <2>1 DEF DeliveryInv, GroupShape
<1>7. InHand'
  BY <1>1, <1>2 DEF DeliveryInv, InHand
<1>8. Handled'
  <2>1. ASSUME NEW q \in Partitions, NEW n \in 1..position[q]
        PROVE  \/ notified[topic[q][n]] > 0
               \/ /\ member'[owner[q]] = "handle"
                  /\ msg'[owner[q]].part = q /\ msg'[owner[q]].next = n
    <3>1. owner[q] \in Instances
      BY DEF DeliveryInv, GroupShape
    <3> QED
      BY <1>1, <1>2, <3>1 DEF DeliveryInv, Handled
  <2>2. ASSUME NEW q \in Partitions, NEW n \in 1..offset'[q]
        PROVE  notified[topic[q][n]] > 0
    <3>1. CASE offset'[q] = offset[q]
      BY <2>2, <3>1 DEF DeliveryInv, Handled
    <3>2. CASE offset'[q] = position[q] /\ owner[q] = i
      BY <1>1, <2>2, <3>2 DEF DeliveryInv, Handled
    <3> QED
      BY <1>4, <3>1, <3>2
  <2> QED
    BY <1>1, <2>1, <2>2 DEF DeliveryInv, Handled
<1>9. Budget'
  <2>1. \A x \in Events : Could(x)' = Could(x)
    BY <1>1, <1>2 DEF Could
  <2> QED
    BY <1>1, <2>1 DEF DeliveryInv, Budget
<1> QED
  BY <1>6, <1>7, <1>8, <1>9 DEF DeliveryInv

(* A move pays for the one member that may repeat because of it.           *)
LEMMA MovePays ==
    ASSUME DeliveryInv, moves' = moves + 1, notified' = notified, NEW i,
           \A x \in Events : Could(x)' \subseteq Could(x) \cup {i}
    PROVE  Budget'
<1> SUFFICES ASSUME NEW x \in Events
             PROVE  /\ IsFiniteSet(Could(x)')
                    /\ notified'[x] + Cardinality(Could(x)') <= 1 + moves'
  BY DEF Budget
<1>1. /\ IsFiniteSet(Could(x)) /\ notified[x] + Cardinality(Could(x)) <= 1 + moves
      /\ Cardinality(Could(x)) \in Nat /\ notified[x] \in Nat /\ moves \in Nat
  BY FS_CardinalityType DEF DeliveryInv, Budget, GroupShape
<1>2. /\ IsFiniteSet(Could(x) \cup {i})
      /\ Cardinality(Could(x) \cup {i}) <= Cardinality(Could(x)) + 1
  <2>1. /\ IsFiniteSet(Could(x) \cup {i})
        /\ \/ Cardinality(Could(x) \cup {i}) = Cardinality(Could(x))
           \/ Cardinality(Could(x) \cup {i}) = Cardinality(Could(x)) + 1
    BY <1>1, FS_AddElement
  <2> QED
    BY <1>1, <2>1
<1>3. Could(x)' \in SUBSET (Could(x) \cup {i})
  OBVIOUS
<1>4. IsFiniteSet(Could(x)') /\ Cardinality(Could(x)') <= Cardinality(Could(x) \cup {i})
  BY <1>2, <1>3, FS_Subset
<1>5. Cardinality(Could(x)') \in Nat /\ Cardinality(Could(x) \cup {i}) \in Nat
  BY <1>2, <1>4, FS_CardinalityType
<1> QED
  BY <1>1, <1>2, <1>4, <1>5

(* A member ends, forgets everything and is back.                          *)
LEMMA CrashKeeps ==
    ASSUME PublisherInv, DeliveryInv, NEW i \in Instances, N!Crash(i)
    PROVE  DeliveryInv'
<1>1. /\ member' = [member EXCEPT ![i] = "poll"] /\ msg' = [msg EXCEPT ![i] = <<>>]
      /\ seen' = [seen EXCEPT ![i] = {}] /\ moves' = moves + 1
      /\ position' = [q \in Partitions |-> IF owner[q] = i THEN offset[q] ELSE position[q]]
      /\ UNCHANGED <<topic, owner, offset, notified>>
  BY DEF N!Crash, N!Restarted
<1>2. /\ member'[i] = "poll" /\ msg'[i] = <<>> /\ seen'[i] = {}
      /\ \A j \in Instances \ {i} : member'[j] = member[j] /\ msg'[j] = msg[j] /\ seen'[j] = seen[j]
      /\ member' \in [Instances -> {"poll", "handle", "offset"}]
      /\ msg' \in [Instances -> Message \cup {<<>>}] /\ seen' \in [Instances -> SUBSET Events]
  BY <1>1 DEF DeliveryInv, GroupShape
<1>3. \A q \in Partitions : /\ owner[q] = i => position'[q] = offset[q]
                            /\ owner[q] # i => position'[q] = position[q]
  BY <1>1
<1>4. GroupShape'
  <2>1. position' \in [Partitions -> Nat]
    BY <1>1 DEF DeliveryInv, GroupShape
  <2>2. \A q \in Partitions : offset[q] <= position'[q] /\ position'[q] <= Len(topic[q])
    BY <1>3, Positions DEF DeliveryInv
  <2>3. moves' \in Nat
    BY <1>1 DEF DeliveryInv, GroupShape
  <2> QED
    BY <1>1, <1>2, <2>1, <2>2, <2>3 DEF DeliveryInv, GroupShape
<1>5. InHand'
  <2> SUFFICES ASSUME NEW j \in Instances, member'[j] # "poll"
               PROVE  /\ msg'[j] \in Message /\ msg'[j].next \in 1..Len(topic[msg'[j].part])
                      /\ msg'[j].event = topic[msg'[j].part][msg'[j].next]
                      /\ owner[msg'[j].part] = j => msg'[j].next = position'[msg'[j].part]
                      /\ member'[j] = "offset" => notified[msg'[j].event] > 0
    BY <1>1 DEF InHand
  <2>1. j # i /\ msg'[j] = msg[j] /\ member'[j] = member[j]
    BY <1>2
  <2>2. msg[j].part \in Partitions
    BY <2>1 DEF DeliveryInv, InHand, Message
  <2> QED
    BY <1>3, <2>1, <2>2 DEF DeliveryInv, InHand
<1>6. Handled'
  <2>1. ASSUME NEW q \in Partitions, NEW n \in 1..position'[q]
        PROVE  \/ notified[topic[q][n]] > 0
               \/ /\ member'[owner[q]] = "handle"
                  /\ msg'[owner[q]].part = q /\ msg'[owner[q]].next = n
    <3>1. owner[q] \in Instances
      BY DEF DeliveryInv, GroupShape
    <3>2. CASE owner[q] = i
      BY <1>3, <2>1, <3>2 DEF DeliveryInv, Handled
    <3>3. CASE owner[q] # i
      BY <1>2, <1>3, <2>1, <3>1, <3>3 DEF DeliveryInv, Handled
    <3> QED
      BY <3>2, <3>3
  <2>2. \A j \in Instances : \A e \in seen'[j] : notified[e] > 0
    BY <1>2 DEF DeliveryInv, Handled
  <2> QED
    BY <1>1, <2>1, <2>2 DEF DeliveryInv, Handled
<1>7. Budget'
  <2>1. \A x \in Events : Could(x)' \subseteq Could(x) \cup {i}
    BY <1>1, <1>2 DEF Could
  <2> QED
    BY <1>1, <2>1, MovePays
<1> QED
  BY <1>4, <1>5, <1>6, <1>7 DEF DeliveryInv

(* A partition moves to a member that is polling.                          *)
LEMMA RebalanceKeeps ==
    ASSUME PublisherInv, DeliveryInv, NEW i \in Instances, NEW p \in Partitions, N!Rebalance(p, i)
    PROVE  DeliveryInv'
<1>1. /\ member[i] = "poll" /\ owner[p] # i /\ moves' = moves + 1
      /\ owner' = [owner EXCEPT ![p] = i] /\ position' = [position EXCEPT ![p] = offset[p]]
      /\ UNCHANGED <<topic, offset, member, msg, seen, notified>>
  BY DEF N!Rebalance, N!Moved, N!handlers
<1>2. /\ owner'[p] = i /\ position'[p] = offset[p]
      /\ \A q \in Partitions \ {p} : owner'[q] = owner[q] /\ position'[q] = position[q]
      /\ owner' \in [Partitions -> Instances] /\ position' \in [Partitions -> Nat]
  BY <1>1 DEF DeliveryInv, GroupShape
<1>3. GroupShape'
  <2>1. \A q \in Partitions : offset[q] <= position'[q] /\ position'[q] <= Len(topic[q])
    <3> SUFFICES ASSUME NEW q \in Partitions
                 PROVE  offset[q] <= position'[q] /\ position'[q] <= Len(topic[q])
      OBVIOUS
    <3>1. /\ offset[q] \in Nat /\ position[q] \in Nat /\ Len(topic[q]) \in Nat
          /\ offset[q] <= position[q] /\ position[q] <= Len(topic[q]) /\ offset[q] <= Len(topic[q])
      BY Positions DEF DeliveryInv
    <3>2. position'[q] \in {position[q], offset[q]}
      BY <1>2
    <3> QED
      BY <3>1, <3>2
  <2>2. moves' \in Nat
    BY <1>1 DEF DeliveryInv, GroupShape
  <2> QED
    BY <1>1, <1>2, <2>1, <2>2 DEF DeliveryInv, GroupShape
<1>4. InHand'
  <2> SUFFICES ASSUME NEW j \in Instances, member[j] # "poll",
                      owner'[msg[j].part] = j
               PROVE  msg[j].next = position'[msg[j].part]
    BY <1>1 DEF DeliveryInv, InHand
  <2>1. msg[j].part \in Partitions /\ (owner[msg[j].part] = j => msg[j].next = position[msg[j].part])
    BY DEF DeliveryInv, InHand, Message
  <2>2. msg[j].part # p
    BY <1>1, <1>2
  <2> QED
    BY <1>2, <2>1, <2>2
<1>5. Handled'
  <2>1. ASSUME NEW q \in Partitions, NEW n \in 1..position'[q]
        PROVE  \/ notified[topic[q][n]] > 0
               \/ /\ member[owner'[q]] = "handle"
                  /\ msg[owner'[q]].part = q /\ msg[owner'[q]].next = n
    <3>1. CASE q = p
      BY <1>2, <2>1, <3>1 DEF DeliveryInv, Handled
    <3>2. CASE q # p
      BY <1>2, <2>1, <3>2 DEF DeliveryInv, Handled
    <3> QED
      BY <3>1, <3>2
  <2> QED
    BY <1>1, <2>1 DEF DeliveryInv, Handled
<1>6. Budget'
  <2>1. \A x \in Events : Could(x)' \subseteq Could(x) \cup {i}
    BY <1>1, <1>2 DEF Could
  <2> QED
    BY <1>1, <2>1, MovePays
<1> QED
  BY <1>3, <1>4, <1>5, <1>6 DEF DeliveryInv

(* The invariant of the whole pipeline.                                    *)
THEOREM DeliveryInvariant == PipelineSpec => []DeliveryInv
<1>1. PublisherInv /\ DeliveryInv /\ [PipelineNext]_pipelineVars => DeliveryInv'
  <2> SUFFICES ASSUME PublisherInv, DeliveryInv, [PipelineNext]_pipelineVars PROVE DeliveryInv'
    OBVIOUS
  <2>1. CASE UNCHANGED consumerOnly
    BY <2>1, PipelineSteps, PublishingKeeps
  <2>2. CASE N!Next
    BY <2>2, PollKeeps, HandleKeeps, CommitOffsetKeeps, CrashKeeps, RebalanceKeeps
       DEF N!Next, N!Step
  <2> QED
    BY <2>1, <2>2, PipelineSteps
<1> QED
  BY <1>1, DeliveryInit, PublisherInPipeline, PTL DEF PipelineSpec

(* At-least-once, end to end: through crashes and rebalances, no offset is *)
(* committed past an event nobody was notified of.                         *)
THEOREM OffsetsFollowNotifications == PipelineSpec => []NotifiedBeforeCommitted
<1>1. DeliveryInv => NotifiedBeforeCommitted
  BY DEF DeliveryInv, Handled, NotifiedBeforeCommitted, N!NotifiedBeforeCommitted, N!Consumed
<1> QED
  BY <1>1, DeliveryInvariant, PTL

(* However often the publisher repeats an event, it is notified once, and  *)
(* once more at most for each restart or rebalance of the group.           *)
THEOREM RepeatsArePaidFor == PipelineSpec => []RepeatsNeedAMove
<1>1. ASSUME DeliveryInv, NEW e \in Events PROVE notified[e] <= 1 + moves
  <2>1. /\ Cardinality(Could(e)) \in Nat /\ notified[e] \in Nat /\ moves \in Nat
        /\ notified[e] + Cardinality(Could(e)) <= 1 + moves
    BY <1>1, FS_CardinalityType DEF DeliveryInv, Budget, GroupShape
  <2> QED
    BY <2>1
<1>2. DeliveryInv => RepeatsNeedAMove
  BY <1>1 DEF RepeatsNeedAMove, N!RepeatsNeedAMove
<1> QED
  BY <1>2, DeliveryInvariant, PTL
=============================================================================
