-------------------------- MODULE AnalyticsProofs ---------------------------
(***************************************************************************)
(* Theorems about AnalyticsConsumer for any number of members, partitions, *)
(* events and stats rows.  The argument: the group never gives out a       *)
(* message before all earlier ones of its partition went through a         *)
(* handler, however many offset commits are lost; the primary key of       *)
(* processed_events lets one session at a time work on an event, and       *)
(* nobody on a recorded one; and what a session read from a stats row is   *)
(* out of date only if another one had the row open as well.               *)
(***************************************************************************)
EXTENDS AnalyticsConsumer, TLAPS, FiniteSetTheorems

USE AnalyticsAssumption, GroupAssumption

Message == [part : Partitions, next : Nat, event : Events]

Busy(i, p) == pc[i] # "poll" /\ msg[i].part = p

(* A message in anybody's hands was read from the log; in the hands of its *)
(* partition's owner it is the last one fetched, and not yet committed.    *)
GroupInStep ==
    /\ msg \in [Instances -> Message \cup {NoMsg}]
    /\ \A i \in Instances : pc[i] # "poll" =>
          /\ msg[i].next \in 1..Len(log[msg[i].part])
          /\ msg[i].event = log[msg[i].part][msg[i].next]
          /\ owner[msg[i].part] = i => /\ msg[i].next = position[msg[i].part]
                                      /\ offset[msg[i].part] < msg[i].next

(* The places of a partition that were in a handler and left it: those the *)
(* owner has fetched but for the one in its hands, and those before a      *)
(* message in anybody's hands.                                             *)
Behind(p) ==
    {n \in 1..Len(log[p]) :
       \/ n <= position[p] /\ (Busy(owner[p], p) => n # msg[owner[p]].next)
       \/ \E j \in Instances : Busy(j, p) /\ n < msg[j].next}

Passed(p) == {log[p][n] : n \in Behind(p)}

(* The primary key of processed_events.                                    *)
HoldersDiffer ==
    \A i \in Instances : HoldsEvent(i) =>
       /\ Event(i) \notin processed
       /\ \A j \in Instances \ {i} : HoldsEvent(j) => Event(j) # Event(i)

(* What a stats row, or none, says.                                        *)
Count(s) == IF s = NoStat THEN 0 ELSE s.count
Total(s) == IF s = NoStat THEN 0 ELSE s.total_amount

Open(i) == pc[i] \in {"write", "commit"}

(* A session's copy of a stats row never says more than is recorded by     *)
(* now, and is the row itself, in nobody else's hands, if no clash was.    *)
ReadsArePast ==
    \A i \in Instances : Open(i) =>
       /\ Count(read[i]) <= Cardinality(InBucket(Row(i)))
       /\ Total(read[i]) <= Cardinality(Recorded(Row(i)))
       /\ Row(i) \notin clashed =>
             /\ read[i] = stats[Row(i)]
             /\ \A j \in Instances \ {i} : Open(j) => Row(j) # Row(i)

(* Finitely many events are recorded at any time.                          *)
FiniteRecords ==
    IsFiniteSet(processed) /\ \A b \in Buckets : IsFiniteSet(Recorded(b))

(* The events that were passed over, or are about to be, without a clash.  *)
Skipped ==
    {e \in Events \ processed :
       /\ Bucket[e] \notin clashed
       /\ \/ \E p \in Partitions : e \in Passed(p)
          \/ \E i \in Instances : pc[i] = "offset" /\ Event(i) = e}

SkippedPaid == IsFiniteSet(Skipped) /\ Cardinality(Skipped) <= failures

(* The inductive invariant of the module.                                  *)
AnalyticsInv ==
    /\ TypeOK /\ GroupInStep /\ HoldersDiffer
    /\ ReadsArePast /\ FiniteRecords /\ NeverDoubleCounted /\ ExactUnlessClashed
    /\ SkippedPaid

-----------------------------------------------------------------------------
(* What the invariant says of a member that handles a message.             *)
LEMMA InHand ==
    ASSUME TypeOK, NEW i \in Instances, pc[i] # "poll"
    PROVE  /\ msg[i] \in Message /\ Event(i) \in Events /\ Row(i) \in Buckets
           /\ msg[i].part \in Partitions
  BY DEF TypeOK, Message, Event, Row

(* An empty group: nothing in hand, recorded or consumed.                  *)
LEMMA AnalyticsInit == Init => AnalyticsInv
<1> SUFFICES ASSUME Init PROVE AnalyticsInv
  OBVIOUS
<1>1. /\ \A i \in Instances : pc[i] = "poll" /\ msg[i] = NoMsg
      /\ processed = {} /\ \A b \in Buckets : stats[b] = NoStat
      /\ \A p \in Partitions : log[p] = <<>> /\ position[p] = 0 /\ offset[p] = 0
      /\ failures = 0
  BY DEF Init, GroupInit
<1>2. TypeOK
  <2>1. GroupTypeOK
    BY DEF Init, GroupInit, GroupTypeOK
  <2> QED
    BY <2>1 DEF Init, TypeOK
<1>3. GroupInStep
  BY <1>1 DEF Init, GroupInit, GroupInStep
<1>4. HoldersDiffer /\ ReadsArePast
  BY <1>1 DEF HoldersDiffer, ReadsArePast, HoldsEvent, Open
<1>5. \A b \in Buckets : InBucket(b) = {} /\ Recorded(b) = {}
  BY <1>1 DEF InBucket, Recorded
<1>6. FiniteRecords
  BY <1>1, <1>5, FS_EmptySet DEF FiniteRecords
<1>7. NeverDoubleCounted /\ ExactUnlessClashed
  <2>1. \A b \in Buckets : Counted(b) = 0 /\ Summed(b) = 0
    BY <1>1 DEF Counted, Summed
  <2>2. \A b \in Buckets : Cardinality(InBucket(b)) = 0 /\ Expected(b) = 0
    BY <1>5, FS_EmptySet DEF Expected
  <2> QED
    BY <2>1, <2>2 DEF NeverDoubleCounted, ExactUnlessClashed, Exact
<1>8. SkippedPaid
  <2>1. Skipped = {}
    BY <1>1 DEF Skipped, Passed, Behind
  <2> QED
    BY <1>1, <2>1, FS_EmptySet DEF SkippedPaid
<1> QED
  BY <1>2, <1>3, <1>4, <1>6, <1>7, <1>8 DEF AnalyticsInv

-----------------------------------------------------------------------------
(* A step of the handler: the group and the message stay as they are.      *)
LEMMA HandlerInStep ==
    ASSUME TypeOK, GroupInStep, NEW i \in Instances, pc[i] # "poll",
           UNCHANGED <<groupVars, msg>>, pc' \in [Instances -> {"poll", "check", "insert", "read", "write", "commit", "offset"}],
           pc'[i] # "poll", \A j \in Instances \ {i} : pc'[j] = pc[j]
    PROVE  GroupInStep' /\ GroupTypeOK'
<1>1. \A j \in Instances : (pc'[j] = "poll") <=> (pc[j] = "poll")
  OBVIOUS
<1>2. owner \in [Partitions -> Instances] /\ GroupTypeOK
  BY DEF TypeOK, GroupTypeOK
<1>3. GroupTypeOK'
  BY <1>2 DEF GroupTypeOK, groupVars
<1> QED
  BY <1>1, <1>2, <1>3 DEF GroupInStep, groupVars

(* ... and so do the messages behind it.                                   *)
LEMMA HandlerPasses ==
    ASSUME UNCHANGED <<groupVars, msg>>, owner \in [Partitions -> Instances],
           \A j \in Instances : (pc'[j] = "poll") <=> (pc[j] = "poll")
    PROVE  \A p \in Partitions : Passed(p)' = Passed(p)
<1> SUFFICES ASSUME NEW p \in Partitions PROVE Passed(p)' = Passed(p)
  OBVIOUS
<1>1. UNCHANGED <<log, owner, position>>
  BY DEF groupVars
<1>2. \A j \in Instances : Busy(j, p)' = Busy(j, p)
  BY DEF Busy
<1>3. owner[p] \in Instances /\ Busy(owner[p], p)' = Busy(owner[p], p)
  BY <1>1 DEF Busy
<1>4. Behind(p)' = Behind(p)
  BY <1>1, <1>2, <1>3 DEF Behind
<1> QED
  BY <1>1, <1>4 DEF Passed

(* Sessions that go on or end disturb nobody's INSERT.                     *)
LEMMA HoldersStay ==
    ASSUME HoldersDiffer, processed' = processed,
           \A j \in Instances : HoldsEvent(j)' => HoldsEvent(j) /\ msg'[j] = msg[j]
    PROVE  HoldersDiffer'
  BY DEF HoldersDiffer, Event

(* Without a COMMIT or a new read, copies stay what they were.             *)
LEMMA ReadsStay ==
    ASSUME AnalyticsInv, UNCHANGED database, clashed \subseteq clashed',
           \A j \in Instances : Open(j)' => Open(j) /\ msg'[j] = msg[j] /\ read'[j] = read[j]
    PROVE  ReadsArePast' /\ FiniteRecords' /\ NeverDoubleCounted' /\ ExactUnlessClashed'
<1>1. UNCHANGED <<processed, stats>>
  BY DEF database
<1>2. \A b : InBucket(b)' = InBucket(b) /\ Recorded(b)' = Recorded(b) /\ Expected(b)' = Expected(b)
  BY <1>1 DEF InBucket, Recorded, Expected
<1>3. \A b : Counted(b)' = Counted(b) /\ Summed(b)' = Summed(b)
  BY <1>1 DEF Counted, Summed
<1>4. FiniteRecords' /\ NeverDoubleCounted' /\ ExactUnlessClashed'
  BY <1>1, <1>2, <1>3 DEF AnalyticsInv, FiniteRecords, NeverDoubleCounted, ExactUnlessClashed, Exact
<1>5. \A j \in Instances : Open(j)' => Row(j)' = Row(j)
  BY DEF Row, Event
<1>6. ReadsArePast'
  <2> SUFFICES ASSUME NEW j \in Instances, Open(j)'
               PROVE  /\ Count(read'[j]) <= Cardinality(InBucket(Row(j))')
                      /\ Total(read'[j]) <= Cardinality(Recorded(Row(j))')
                      /\ Row(j)' \notin clashed' =>
                            /\ read'[j] = stats'[Row(j)']
                            /\ \A k \in Instances \ {j} : Open(k)' => Row(k)' # Row(j)'
    BY DEF ReadsArePast, Count, Total
  <2>1. Open(j) /\ read'[j] = read[j] /\ Row(j)' = Row(j)
    BY <1>5
  <2>2. InBucket(Row(j))' = InBucket(Row(j)) /\ Recorded(Row(j))' = Recorded(Row(j))
    BY <1>2, <2>1 DEF InBucket, Recorded
  <2> QED
    BY <1>1, <1>5, <2>1, <2>2 DEF AnalyticsInv, ReadsArePast
<1> QED
  BY <1>4, <1>6

(* Nothing new is passed over.                                             *)
LEMMA SkippedStay ==
    ASSUME SkippedPaid, Skipped' \subseteq Skipped, failures \in Nat, failures' = failures
    PROVE  SkippedPaid'
<1>1. IsFiniteSet(Skipped') /\ Cardinality(Skipped') <= Cardinality(Skipped)
  BY FS_Subset DEF SkippedPaid
<1>2. Cardinality(Skipped) \in Nat /\ Cardinality(Skipped') \in Nat
  BY <1>1, FS_CardinalityType DEF SkippedPaid
<1> QED
  BY <1>1, <1>2 DEF SkippedPaid

(* No new message is passed over by a handler that is not at its end.      *)
LEMMA NothingPassed ==
    ASSUME AnalyticsInv, UNCHANGED <<groupVars, msg, failures>>,
           \A j \in Instances : (pc'[j] = "poll") <=> (pc[j] = "poll"),
           processed \subseteq processed', clashed \subseteq clashed',
           \A j \in Instances : pc'[j] = "offset" =>
              \/ pc[j] = "offset" /\ msg'[j] = msg[j]
              \/ Event(j)' \in processed' \/ Row(j)' \in clashed'
    PROVE  SkippedPaid'
<1>1. failures \in Nat /\ SkippedPaid
  BY DEF AnalyticsInv, TypeOK
<1>2. \A p \in Partitions : Passed(p)' = Passed(p)
  BY HandlerPasses DEF AnalyticsInv, TypeOK, GroupTypeOK
<1>3. Skipped' \subseteq Skipped
  <2> SUFFICES ASSUME NEW e \in Skipped' PROVE e \in Skipped
    OBVIOUS
  <2>1. /\ e \in Events \ processed /\ e \notin processed'
        /\ Bucket[e] \notin clashed /\ Bucket[e] \notin clashed'
    BY DEF Skipped
  <2>2. CASE \E p \in Partitions : e \in Passed(p)'
    BY <1>2, <2>1, <2>2 DEF Skipped
  <2>3. CASE \E j \in Instances : pc'[j] = "offset" /\ Event(j)' = e
    <3>1. PICK j \in Instances : pc'[j] = "offset" /\ Event(j)' = e
      BY <2>3
    <3>2. pc[j] = "offset" /\ msg'[j] = msg[j]
      BY <2>1, <3>1 DEF Row, Event
    <3> QED
      BY <2>1, <3>1, <3>2 DEF Skipped, Event
  <2> QED
    BY <2>2, <2>3 DEF Skipped
<1> QED
  BY <1>1, <1>3, SkippedStay

Places == {"poll", "check", "insert", "read", "write", "commit", "offset"}

(* The look-up in processed_events.                                        *)
LEMMA CheckKeeps ==
    ASSUME AnalyticsInv, NEW i \in Instances, is_processed(i)
    PROVE  AnalyticsInv'
<1>1. /\ pc[i] = "check" /\ UNCHANGED <<groupVars, msg, read, database, clashed, failures>>
      /\ pc' = [pc EXCEPT ![i] = IF Event(i) \in processed THEN "offset" ELSE "insert"]
  BY DEF is_processed, Goto
<1>2. pc \in [Instances -> Places] /\ TypeOK /\ GroupInStep
  BY DEF AnalyticsInv, TypeOK, Places
<1>3. pc' \in [Instances -> Places] /\ pc'[i] \in {"offset", "insert"}
  BY <1>1, <1>2 DEF Places
<1>4. GroupInStep' /\ GroupTypeOK'
  BY <1>1, <1>2, <1>3, HandlerInStep DEF Places
<1>5. TypeOK'
  BY <1>1, <1>2, <1>3, <1>4 DEF TypeOK, Places, database
<1>6. HoldersDiffer'
  BY <1>1, <1>2, HoldersStay DEF AnalyticsInv, HoldsEvent, database
<1>7. ReadsArePast' /\ FiniteRecords' /\ NeverDoubleCounted' /\ ExactUnlessClashed'
  BY <1>1, <1>2, ReadsStay DEF Open
<1>8. SkippedPaid'
  BY <1>1, <1>2, <1>3, NothingPassed DEF Event, database
<1> QED
  BY <1>4, <1>5, <1>6, <1>7, <1>8 DEF AnalyticsInv

(* The INSERT into processed_events.                                       *)
LEMMA MarkKeeps ==
    ASSUME AnalyticsInv, NEW i \in Instances, mark_processed(i)
    PROVE  AnalyticsInv'
<1>1. /\ pc[i] = "insert" /\ UNCHANGED <<groupVars, msg, read, database, clashed, failures>>
      /\ pc' = [pc EXCEPT ![i] = IF Event(i) \in processed THEN "offset" ELSE "read"]
      /\ \A j \in Instances \ {i} : HoldsEvent(j) => Event(j) # Event(i)
  BY DEF mark_processed, Goto
<1>2. pc \in [Instances -> Places] /\ TypeOK /\ GroupInStep
  BY DEF AnalyticsInv, TypeOK, Places
<1>3. pc' \in [Instances -> Places] /\ pc'[i] \in {"offset", "read"}
  BY <1>1, <1>2 DEF Places
<1>4. GroupInStep' /\ GroupTypeOK'
  BY <1>1, <1>2, <1>3, HandlerInStep DEF Places
<1>5. TypeOK'
  BY <1>1, <1>2, <1>3, <1>4 DEF TypeOK, Places, database
<1>6. HoldersDiffer'
  <2>1. \A j \in Instances : Event(j)' = Event(j) /\ processed' = processed
    BY <1>1 DEF Event, database
  <2>2. \A j \in Instances \ {i} : HoldsEvent(j)' = HoldsEvent(j)
    BY <1>1, <1>2 DEF HoldsEvent
  <2>3. HoldsEvent(i)' => Event(i) \notin processed
    BY <1>1, <1>2 DEF HoldsEvent
  <2> QED
    BY <1>1, <2>1, <2>2, <2>3 DEF AnalyticsInv, HoldersDiffer
<1>7. ReadsArePast' /\ FiniteRecords' /\ NeverDoubleCounted' /\ ExactUnlessClashed'
  BY <1>1, <1>2, ReadsStay DEF Open
<1>8. SkippedPaid'
  BY <1>1, <1>2, <1>3, NothingPassed DEF Event, database
<1> QED
  BY <1>4, <1>5, <1>6, <1>7, <1>8 DEF AnalyticsInv

(* The load of the stats row: the copy is the row, or the row has clashed. *)
LEMMA ReadKeeps ==
    ASSUME AnalyticsInv, NEW i \in Instances, ReadStat(i)
    PROVE  AnalyticsInv'
<1>1. /\ pc[i] = "read" /\ UNCHANGED <<groupVars, msg, database, failures>>
      /\ pc' = [pc EXCEPT ![i] = "write"]
      /\ read' = [read EXCEPT ![i] = stats[Row(i)]]
      /\ clashed' = clashed \cup {Row(j) : j \in {k \in Instances \ {i} :
                                    pc[k] \in {"write", "commit"} /\ Row(k) = Row(i)}}
  BY DEF ReadStat, Goto
<1>2. pc \in [Instances -> Places] /\ TypeOK /\ GroupInStep
  BY DEF AnalyticsInv, TypeOK, Places
<1>3. pc' \in [Instances -> Places] /\ pc'[i] = "write"
  BY <1>1, <1>2 DEF Places
<1>4. GroupInStep' /\ GroupTypeOK'
  BY <1>1, <1>2, <1>3, HandlerInStep DEF Places
<1>5. Row(i) \in Buckets /\ (\A j \in Instances : Row(j)' = Row(j)) /\ clashed \subseteq clashed'
  BY <1>1, <1>2, InHand DEF Row, Event
<1>6. clashed' \subseteq Buckets
  BY <1>1, <1>2, <1>5 DEF TypeOK
<1>7. read' \in [Instances -> StatRow \cup {NoStat}] /\ read'[i] = stats[Row(i)]
  BY <1>1, <1>2, <1>5 DEF TypeOK
<1>8. TypeOK'
  BY <1>1, <1>2, <1>3, <1>4, <1>6, <1>7 DEF TypeOK, Places, database
<1>9. HoldersDiffer'
  BY <1>1, <1>2, HoldersStay DEF AnalyticsInv, HoldsEvent, database
<1>10. UNCHANGED <<processed, stats>>
  BY <1>1 DEF database
<1>11. \A b : InBucket(b)' = InBucket(b) /\ Recorded(b)' = Recorded(b)
              /\ Expected(b)' = Expected(b)
              /\ Counted(b)' = Counted(b) /\ Summed(b)' = Summed(b)
  BY <1>10 DEF InBucket, Recorded, Expected, Counted, Summed
<1>12. FiniteRecords' /\ NeverDoubleCounted' /\ ExactUnlessClashed'
  BY <1>5, <1>10, <1>11
     DEF AnalyticsInv, FiniteRecords, NeverDoubleCounted, ExactUnlessClashed, Exact
<1>13. ReadsArePast'
  <2>1. \A j \in Instances \ {i} : /\ Open(j)' = Open(j) /\ read'[j] = read[j]
    BY <1>1, <1>2 DEF Open, TypeOK
  <2>2. ASSUME NEW j \in Instances \ {i}, Open(j), Row(j) = Row(i)
        PROVE  Row(i) \in clashed'
    BY <1>1, <2>2 DEF Open
  <2>3. /\ Count(read'[i]) <= Cardinality(InBucket(Row(i)))
        /\ Total(read'[i]) <= Cardinality(Recorded(Row(i)))
    BY <1>5, <1>7 DEF AnalyticsInv, NeverDoubleCounted, Counted, Summed, Expected, Count, Total
  <2> SUFFICES ASSUME NEW j \in Instances, Open(j)'
               PROVE  /\ Count(read'[j]) <= Cardinality(InBucket(Row(j)))
                      /\ Total(read'[j]) <= Cardinality(Recorded(Row(j)))
                      /\ Row(j) \notin clashed' =>
                            /\ read'[j] = stats[Row(j)]
                            /\ \A k \in Instances \ {j} : Open(k)' => Row(k) # Row(j)
    BY <1>5, <1>10 DEF ReadsArePast, Count, Total, InBucket, Recorded
  <2>4. CASE j = i
    BY <1>7, <2>1, <2>2, <2>3, <2>4
  <2>5. CASE j # i
    BY <1>5, <2>1, <2>2, <2>5 DEF AnalyticsInv, ReadsArePast
  <2> QED
    BY <2>4, <2>5
<1>14. SkippedPaid'
  BY <1>1, <1>2, <1>3, <1>5, NothingPassed DEF Event, database
<1> QED
  BY <1>4, <1>8, <1>9, <1>12, <1>13, <1>14 DEF AnalyticsInv

(* The flush of the stats row: refused only after a clash.                 *)
LEMMA WriteKeeps ==
    ASSUME AnalyticsInv, NEW i \in Instances, WriteStat(i)
    PROVE  AnalyticsInv'
<1>1. /\ pc[i] = "write" /\ UNCHANGED <<groupVars, msg, read, database, clashed, failures>>
      /\ pc' = [pc EXCEPT ![i] = IF read[i] = NoStat /\ stats[Row(i)] # NoStat
                                 THEN "offset" ELSE "commit"]
  BY DEF WriteStat, Goto
<1>2. pc \in [Instances -> Places] /\ TypeOK /\ GroupInStep
  BY DEF AnalyticsInv, TypeOK, Places
<1>3. pc' \in [Instances -> Places] /\ pc'[i] \in {"offset", "commit"}
  BY <1>1, <1>2 DEF Places
<1>4. GroupInStep' /\ GroupTypeOK'
  BY <1>1, <1>2, <1>3, HandlerInStep DEF Places
<1>5. TypeOK'
  BY <1>1, <1>2, <1>3, <1>4 DEF TypeOK, Places, database
<1>6. HoldersDiffer'
  BY <1>1, <1>2, HoldersStay DEF AnalyticsInv, HoldsEvent, database
<1>7. ReadsArePast' /\ FiniteRecords' /\ NeverDoubleCounted' /\ ExactUnlessClashed'
  BY <1>1, <1>2, ReadsStay DEF Open
<1>8. pc'[i] = "offset" => Row(i)' \in clashed'
  BY <1>1, <1>2 DEF AnalyticsInv, ReadsArePast, Open, Row, Event
<1>9. SkippedPaid'
  BY <1>1, <1>2, <1>3, <1>8, NothingPassed DEF Event, database
<1> QED
  BY <1>4, <1>5, <1>6, <1>7, <1>9 DEF AnalyticsInv

(* One more event of a pair: one more to count, and its units of money.    *)
LEMMA RecordedGrows ==
    ASSUME AnalyticsInv, NEW e \in Events, e \notin processed, processed' = processed \cup {e}
    PROVE  /\ FiniteRecords'
           /\ \A b \in Buckets : /\ Cardinality(InBucket(b)) \in Nat
                                 /\ Cardinality(Recorded(b)) \in Nat
           /\ LET b == Bucket[e] IN
              /\ Cardinality(InBucket(b)') = Cardinality(InBucket(b)) + 1
              /\ Cardinality(Recorded(b)') = Cardinality(Recorded(b)) + Amount[e]
           /\ \A b \in Buckets \ {Bucket[e]} :
                 InBucket(b)' = InBucket(b) /\ Recorded(b)' = Recorded(b)
<1> DEFINE b == Bucket[e]
<1>1. b \in Buckets /\ Amount[e] \in Nat \ {0} /\ processed \subseteq Events
  BY DEF AnalyticsInv, TypeOK
<1>2. /\ IsFiniteSet(processed) /\ \A c \in Buckets : IsFiniteSet(Recorded(c))
  BY DEF AnalyticsInv, FiniteRecords
<1>3. \A c \in Buckets : IsFiniteSet(InBucket(c))
  <2>1. \A c : InBucket(c) \in SUBSET processed
    BY DEF InBucket
  <2> QED
    BY <1>2, <2>1, FS_Subset
<1>4. InBucket(b)' = InBucket(b) \cup {e} /\ e \notin InBucket(b)
  BY DEF InBucket
<1>5. \A c \in Buckets \ {b} : InBucket(c)' = InBucket(c) /\ Recorded(c)' = Recorded(c)
  BY DEF InBucket, Recorded
<1>6. Recorded(b)' = Recorded(b) \cup Units(e)
  <2>1. Recorded(b)' = UNION {Units(x) : x \in InBucket(b)'}
    BY DEF Recorded
  <2> QED
    BY <1>4, <2>1 DEF Recorded
<1>7. Recorded(b) \cap Units(e) = {}
  <2>1. ASSUME NEW x \in InBucket(b), NEW u \in Units(x), u \in Units(e)
        PROVE  FALSE
    BY <1>4, <2>1 DEF Units
  <2> QED
    BY <2>1 DEF Recorded
<1>8. IsFiniteSet(Units(e)) /\ Cardinality(Units(e)) = Amount[e]
  <2>1. IsFiniteSet({e}) /\ Cardinality({e}) = 1
    BY FS_Singleton
  <2>2. IsFiniteSet(1..Amount[e]) /\ Cardinality(1..Amount[e]) = Amount[e]
    BY <1>1, FS_Interval
  <2>3. IsFiniteSet(Units(e)) /\ Cardinality(Units(e)) = 1 * Amount[e]
    BY <2>1, <2>2, FS_Product DEF Units
  <2> QED
    BY <1>1, <2>3
<1>9. /\ Cardinality(InBucket(b)') = Cardinality(InBucket(b)) + 1
  BY <1>1, <1>3, <1>4, FS_AddElement
<1>10. /\ IsFiniteSet(Recorded(b)')
       /\ Cardinality(Recorded(b)') = Cardinality(Recorded(b)) + Amount[e]
  <2>1. /\ IsFiniteSet(Recorded(b) \cup Units(e))
        /\ Cardinality(Recorded(b) \cup Units(e)) = Cardinality(Recorded(b)) + Amount[e] - 0
    BY <1>1, <1>2, <1>7, <1>8, FS_Union, FS_EmptySet
  <2>2. Cardinality(Recorded(b)) \in Nat
    BY <1>1, <1>2, FS_CardinalityType
  <2> QED
    BY <1>1, <1>6, <2>1, <2>2
<1>11. FiniteRecords'
  <2>1. IsFiniteSet(processed')
    BY <1>2, FS_AddElement
  <2>2. \A c \in Buckets : IsFiniteSet(Recorded(c)')
    BY <1>2, <1>5, <1>10
  <2> QED
    BY <2>1, <2>2 DEF FiniteRecords
<1>12. \A c \in Buckets : Cardinality(InBucket(c)) \in Nat /\ Cardinality(Recorded(c)) \in Nat
  BY <1>2, <1>3, FS_CardinalityType
<1> QED
  BY <1>5, <1>9, <1>10, <1>11, <1>12

(* The COMMIT of the processed row and the aggregate.                      *)
LEMMA CommitKeeps ==
    ASSUME AnalyticsInv, NEW i \in Instances, Commit(i)
    PROVE  AnalyticsInv'
<1>0. pc[i] = "commit" /\ TypeOK
  BY DEF Commit, AnalyticsInv
<1> PICK e \in Events : e = Event(i)
  BY <1>0, InHand
<1> PICK b \in Buckets : b = Row(i)
  BY <1>0, InHand
<1>1. /\ pc[i] = "commit" /\ UNCHANGED <<groupVars, msg, read, clashed, failures>>
      /\ pc' = [pc EXCEPT ![i] = "offset"]
      /\ processed' = processed \cup {e}
      /\ stats' = [stats EXCEPT ![b] = Increment(read[i], e)]
  BY DEF Commit, Goto
<1>2. pc \in [Instances -> Places] /\ TypeOK /\ GroupInStep
  BY DEF AnalyticsInv, TypeOK, Places
<1>3. pc' \in [Instances -> Places] /\ pc'[i] = "offset"
  BY <1>1, <1>2 DEF Places
<1>4. GroupInStep' /\ GroupTypeOK'
  BY <1>1, <1>2, <1>3, HandlerInStep DEF Places
<1>5. e \in Events /\ b \in Buckets /\ b = Bucket[e] /\ Amount[e] \in Nat
  BY DEF Row
<1>6. /\ Increment(read[i], e) \in StatRow
      /\ Count(Increment(read[i], e)) = Count(read[i]) + 1
      /\ Total(Increment(read[i], e)) = Total(read[i]) + Amount[e]
  <2>1. read[i] \in StatRow \cup {NoStat}
    BY <1>2 DEF TypeOK
  <2>2. Increment(read[i], e) \in StatRow
    BY <1>5, <2>1 DEF Increment, StatRow
  <2> QED
    BY <1>5, <2>1, <2>2 DEF Increment, StatRow, Count, Total
<1>7. stats' \in [Buckets -> StatRow \cup {NoStat}] /\ stats'[b] = Increment(read[i], e)
  BY <1>1, <1>2, <1>5, <1>6 DEF TypeOK
<1>8. TypeOK'
  BY <1>1, <1>2, <1>3, <1>4, <1>5, <1>7 DEF TypeOK, Places
<1>9. HoldsEvent(i) /\ Open(i) /\ e \notin processed
  BY <1>1 DEF HoldsEvent, Open, AnalyticsInv, HoldersDiffer
<1>10. \A j \in Instances : Event(j)' = Event(j) /\ Row(j)' = Row(j)
  BY <1>1 DEF Event, Row
<1>11. HoldersDiffer'
  <2>1. \A j \in Instances : HoldsEvent(j)' => HoldsEvent(j) /\ j # i
    BY <1>1, <1>2 DEF HoldsEvent
  <2> QED
    BY <1>1, <1>9, <1>10, <2>1 DEF AnalyticsInv, HoldersDiffer
<1>12. /\ FiniteRecords'
       /\ \A c \in Buckets : Cardinality(InBucket(c)) \in Nat /\ Cardinality(Recorded(c)) \in Nat
       /\ Cardinality(InBucket(b)') = Cardinality(InBucket(b)) + 1
       /\ Cardinality(Recorded(b)') = Cardinality(Recorded(b)) + Amount[e]
       /\ \A c \in Buckets \ {b} : InBucket(c)' = InBucket(c) /\ Recorded(c)' = Recorded(c)
  BY <1>1, <1>5, <1>9, RecordedGrows
<1>13. \A c \in Buckets : /\ Counted(c) = Count(stats[c]) /\ Counted(c)' = Count(stats'[c])
                          /\ Summed(c) = Total(stats[c]) /\ Summed(c)' = Total(stats'[c])
                          /\ Expected(c) = Cardinality(Recorded(c))
                          /\ Expected(c)' = Cardinality(Recorded(c)')
  BY DEF Counted, Summed, Count, Total, Expected
<1>14. \A c \in Buckets \ {b} : stats'[c] = stats[c]
  BY <1>1, <1>2 DEF TypeOK
<1>15. \A s \in StatRow \cup {NoStat} : Count(s) \in Nat /\ Total(s) \in Nat
  BY DEF Count, Total, StatRow
<1>16. read[i] \in StatRow \cup {NoStat} /\ Count(read[i]) \in Nat /\ Total(read[i]) \in Nat
  BY <1>2, <1>15 DEF TypeOK
<1>17. NeverDoubleCounted'
  <2> SUFFICES ASSUME NEW c \in Buckets
               PROVE  /\ Count(stats'[c]) <= Cardinality(InBucket(c)')
                      /\ Total(stats'[c]) <= Cardinality(Recorded(c)')
    BY <1>13 DEF NeverDoubleCounted
  <2>1. CASE c = b
    <3>1. /\ Count(read[i]) <= Cardinality(InBucket(b))
          /\ Total(read[i]) <= Cardinality(Recorded(b))
      BY <1>9 DEF AnalyticsInv, ReadsArePast
    <3> QED
      BY <1>5, <1>6, <1>7, <1>12, <1>16, <2>1, <3>1
  <2>2. CASE c # b
    BY <1>12, <1>13, <1>14, <2>2 DEF AnalyticsInv, NeverDoubleCounted
  <2> QED
    BY <2>1, <2>2
<1>18. ExactUnlessClashed'
  <2> SUFFICES ASSUME NEW c \in Buckets \ clashed
               PROVE  /\ Count(stats'[c]) = Cardinality(InBucket(c)')
                      /\ Total(stats'[c]) = Cardinality(Recorded(c)')
    BY <1>1, <1>13 DEF ExactUnlessClashed, Exact
  <2>0. /\ Count(stats[c]) = Cardinality(InBucket(c))
        /\ Total(stats[c]) = Cardinality(Recorded(c))
    BY <1>13 DEF AnalyticsInv, ExactUnlessClashed, Exact
  <2>1. CASE c = b
    <3>1. read[i] = stats[b]
      BY <1>9, <2>1 DEF AnalyticsInv, ReadsArePast
    <3> QED
      BY <1>5, <1>6, <1>7, <1>12, <1>16, <2>0, <2>1, <3>1
  <2>2. CASE c # b
    BY <1>12, <1>14, <2>0, <2>2
  <2> QED
    BY <2>1, <2>2
<1>19. ReadsArePast'
  <2> SUFFICES ASSUME NEW j \in Instances, Open(j)'
               PROVE  /\ Count(read[j]) <= Cardinality(InBucket(Row(j))')
                      /\ Total(read[j]) <= Cardinality(Recorded(Row(j))')
                      /\ Row(j) \notin clashed =>
                            /\ read[j] = stats'[Row(j)]
                            /\ \A k \in Instances \ {j} : Open(k)' => Row(k) # Row(j)
    BY <1>1, <1>10 DEF ReadsArePast, Count, Total
  <2>1. j # i /\ Open(j) /\ \A k \in Instances : Open(k)' => Open(k)
    BY <1>1, <1>2 DEF Open
  <2>2. /\ Count(read[j]) <= Cardinality(InBucket(Row(j)))
        /\ Total(read[j]) <= Cardinality(Recorded(Row(j)))
        /\ Row(j) \notin clashed => /\ read[j] = stats[Row(j)]
                                    /\ \A k \in Instances \ {j} : Open(k) => Row(k) # Row(j)
    BY <2>1 DEF AnalyticsInv, ReadsArePast
  <2>3. Row(j) \in Buckets /\ Row(j)' = Row(j) /\ Count(read[j]) \in Nat /\ Total(read[j]) \in Nat
    BY <1>2, <1>10, <1>15, <2>1, InHand DEF Open, TypeOK
  <2>4. PICK c \in Buckets : c = Row(j) /\ c = Row(j)'
    BY <2>3
  <2>5. InBucket(Row(j))' = InBucket(c)' /\ Recorded(Row(j))' = Recorded(c)'
    BY <2>4 DEF InBucket, Recorded
  <2>6. CASE c = b
    <3>1. c \in clashed
      BY <1>9, <2>1, <2>2, <2>4, <2>6
    <3> QED
      BY <1>5, <1>12, <2>2, <2>3, <2>4, <2>5, <2>6, <3>1
  <2>7. CASE c # b
    BY <1>12, <1>14, <2>1, <2>2, <2>4, <2>5, <2>7
  <2> QED
    BY <2>6, <2>7
<1>20. SkippedPaid'
  <2>1. Event(i)' \in processed'
    BY <1>1, <1>10
  <2> QED
    BY <1>1, <1>2, <1>3, <2>1, NothingPassed
<1> QED
  BY <1>4, <1>8, <1>11, <1>12, <1>17, <1>18, <1>19, <1>20 DEF AnalyticsInv

(* An exception: the event is passed over, and counted as a failure.       *)
LEMMA FailureKeeps ==
    ASSUME AnalyticsInv, NEW i \in Instances, HandlerFails(i)
    PROVE  AnalyticsInv'
<1>1. /\ pc[i] \in {"check", "insert", "read", "write", "commit"}
      /\ UNCHANGED <<groupVars, msg, read, database, clashed>>
      /\ pc' = [pc EXCEPT ![i] = "offset"]
      /\ failures < MaxFailures /\ failures' = failures + 1
  BY DEF HandlerFails, Goto
<1>2. pc \in [Instances -> Places] /\ TypeOK /\ GroupInStep
  BY DEF AnalyticsInv, TypeOK, Places
<1>3. pc' \in [Instances -> Places] /\ pc'[i] = "offset"
  BY <1>1, <1>2 DEF Places
<1>4. GroupInStep' /\ GroupTypeOK'
  BY <1>1, <1>2, <1>3, HandlerInStep DEF Places
<1>5. TypeOK'
  BY <1>1, <1>2, <1>3, <1>4 DEF TypeOK, Places, database
<1>6. HoldersDiffer'
  BY <1>1, <1>2, HoldersStay DEF AnalyticsInv, HoldsEvent, database
<1>7. ReadsArePast' /\ FiniteRecords' /\ NeverDoubleCounted' /\ ExactUnlessClashed'
  BY <1>1, <1>2, ReadsStay DEF Open
<1>8. SkippedPaid'
  <2>1. Skipped' \in SUBSET (Skipped \cup {Event(i)})
    <3>0. \A j \in Instances : (pc'[j] = "poll") <=> (pc[j] = "poll")
      BY <1>1, <1>2
    <3>1. \A p \in Partitions : Passed(p)' = Passed(p)
      BY <1>1, <1>2, <3>0, HandlerPasses DEF TypeOK, GroupTypeOK
    <3>2. \A j \in Instances : Event(j)' = Event(j) /\ (pc'[j] = "offset" => pc[j] = "offset" \/ j = i)
      BY <1>1, <1>2 DEF Event
    <3> QED
      BY <1>1, <3>1, <3>2 DEF Skipped, database
  <2>2. /\ IsFiniteSet(Skipped \cup {Event(i)})
        /\ Cardinality(Skipped \cup {Event(i)}) <= Cardinality(Skipped) + 1
        /\ Cardinality(Skipped) \in Nat /\ Cardinality(Skipped \cup {Event(i)}) \in Nat
    <3>1. IsFiniteSet(Skipped)
      BY DEF AnalyticsInv, SkippedPaid
    <3>2. Cardinality(Skipped) \in Nat
      BY <3>1, FS_CardinalityType
    <3>3. /\ IsFiniteSet(Skipped \cup {Event(i)})
          /\ Cardinality(Skipped \cup {Event(i)}) =
                IF Event(i) \in Skipped THEN Cardinality(Skipped) ELSE Cardinality(Skipped) + 1
      BY <3>1, FS_AddElement
    <3> QED
      BY <3>1, <3>2, <3>3
  <2>3. IsFiniteSet(Skipped') /\ Cardinality(Skipped') <= Cardinality(Skipped \cup {Event(i)})
    BY <2>1, <2>2, FS_Subset
  <2>4. Cardinality(Skipped') \in Nat /\ Cardinality(Skipped) <= failures /\ failures \in Nat
    BY <1>2, <2>3, FS_CardinalityType DEF AnalyticsInv, SkippedPaid, TypeOK
  <2> QED
    BY <1>1, <2>2, <2>3, <2>4 DEF SkippedPaid
<1> QED
  BY <1>4, <1>5, <1>6, <1>7, <1>8 DEF AnalyticsInv

-----------------------------------------------------------------------------
(* The numbers of a partition.                                             *)
LEMMA Offsets ==
    ASSUME AnalyticsInv, NEW p \in Partitions
    PROVE  /\ offset[p] \in Nat /\ position[p] \in Nat /\ Len(log[p]) \in Nat
           /\ log[p] \in Seq(Events) /\ owner[p] \in Instances
           /\ offset[p] <= position[p] /\ position[p] <= Len(log[p])
  BY DEF AnalyticsInv, TypeOK, GroupTypeOK

(* A member that ends or is ended, and one that has no message: what the   *)
(* database sees of them is that they hold nothing.                        *)
LEMMA IdleKeeps ==
    ASSUME AnalyticsInv, UNCHANGED <<database, clashed, failures>>,
           \A j \in Instances : \/ pc'[j] = pc[j] /\ msg'[j] = msg[j] /\ read'[j] = read[j]
                                \/ pc'[j] \in {"poll", "check"},
           \A p \in Partitions : \A e \in Passed(p)' :
              e \in Passed(p) \/ \E j \in Instances : pc[j] = "offset" /\ Event(j) = e
    PROVE  /\ HoldersDiffer' /\ SkippedPaid'
           /\ ReadsArePast' /\ FiniteRecords' /\ NeverDoubleCounted' /\ ExactUnlessClashed'
<1>1. HoldersDiffer'
  BY HoldersStay DEF AnalyticsInv, HoldsEvent, database
<1>2. ReadsArePast' /\ FiniteRecords' /\ NeverDoubleCounted' /\ ExactUnlessClashed'
  BY ReadsStay DEF Open
<1>3. Skipped' \subseteq Skipped
  <2> SUFFICES ASSUME NEW e \in Skipped' PROVE e \in Skipped
    OBVIOUS
  <2>1. e \in Events \ processed /\ Bucket[e] \notin clashed
    BY DEF Skipped, database
  <2>2. CASE \E p \in Partitions : e \in Passed(p)'
    BY <2>1, <2>2 DEF Skipped
  <2>3. CASE \E j \in Instances : pc'[j] = "offset" /\ Event(j)' = e
    BY <2>1, <2>3 DEF Skipped, Event
  <2> QED
    BY <2>2, <2>3 DEF Skipped
<1>4. SkippedPaid'
  BY <1>3, SkippedStay DEF AnalyticsInv, TypeOK
<1> QED
  BY <1>1, <1>2, <1>4

(* A member fetches the next message: the ones before it are behind it.    *)
LEMMA PollKeeps ==
    ASSUME AnalyticsInv, NEW i \in Instances, NEW p \in Partitions, Poll(i, p)
    PROVE  AnalyticsInv'
<1> DEFINE m == [part |-> p, next |-> position[p] + 1, event |-> log[p][position[p] + 1]]
<1>1. /\ pc[i] = "poll" /\ owner[p] = i /\ position[p] < Len(log[p])
      /\ position' = [position EXCEPT ![p] = @ + 1]
      /\ msg' = [msg EXCEPT ![i] = m] /\ pc' = [pc EXCEPT ![i] = "check"]
      /\ UNCHANGED <<log, owner, offset, moves, read, database, clashed, failures>>
  BY DEF Poll, Fetched, Goto
<1>2. /\ pc \in [Instances -> Places] /\ msg \in [Instances -> Message \cup {NoMsg}]
      /\ position \in [Partitions -> Nat] /\ TypeOK /\ GroupInStep
  BY DEF AnalyticsInv, TypeOK, Places, GroupInStep, GroupTypeOK
<1>3. m \in Message /\ position[p] + 1 \in 1..Len(log[p])
  <2>1. position[p] + 1 \in 1..Len(log[p])
    BY <1>1, Offsets
  <2>2. log[p][position[p] + 1] \in Events
    BY <2>1, Offsets
  <2> QED
    BY <2>1, <2>2, Offsets DEF Message
<1>4. m.part = p /\ m.next = position[p] + 1 /\ m.event = log[p][position[p] + 1]
  OBVIOUS
<1> HIDE DEF m
<1>5. /\ pc'[i] = "check" /\ msg'[i] = m /\ position'[p] = position[p] + 1
      /\ pc' \in [Instances -> Places] /\ msg' \in [Instances -> Message \cup {NoMsg}]
      /\ position' \in [Partitions -> Nat]
      /\ \A j \in Instances \ {i} : pc'[j] = pc[j] /\ msg'[j] = msg[j]
      /\ \A q \in Partitions \ {p} : position'[q] = position[q]
  BY <1>1, <1>2, <1>3 DEF Places
<1>6. GroupInStep'
  <2>1. ASSUME NEW j \in Instances, pc'[j] # "poll"
        PROVE  /\ msg'[j].next \in 1..Len(log[msg'[j].part])
               /\ msg'[j].event = log[msg'[j].part][msg'[j].next]
               /\ owner[msg'[j].part] = j => /\ msg'[j].next = position'[msg'[j].part]
                                             /\ offset[msg'[j].part] < msg'[j].next
    <3>1. CASE j = i
      BY <1>3, <1>4, <1>5, <3>1, Offsets
    <3>2. CASE j # i
      <4>1. pc[j] # "poll" /\ msg'[j] = msg[j]
        BY <1>5, <2>1, <3>2
      <4>2. PICK q \in Partitions : q = msg[j].part
        BY <1>2, <4>1, InHand
      <4>3. owner[q] = j => position'[q] = position[q]
        BY <1>1, <1>5, <3>2
      <4> QED
        BY <1>2, <4>1, <4>2, <4>3 DEF GroupInStep
    <3> QED
      BY <3>1, <3>2
  <2> QED
    BY <1>1, <1>5, <2>1 DEF GroupInStep
<1>7. GroupTypeOK'
  <2>1. ASSUME NEW q \in Partitions
        PROVE  offset[q] <= position'[q] /\ position'[q] <= Len(log[q])
    <3>1. CASE q = p
      BY <1>3, <1>5, <3>1, Offsets
    <3>2. CASE q # p
      BY <1>5, <3>2, Offsets
    <3> QED
      BY <3>1, <3>2
  <2> QED
    BY <1>1, <1>2, <1>5, <2>1 DEF TypeOK, GroupTypeOK
<1>8. TypeOK'
  BY <1>1, <1>2, <1>3, <1>5, <1>7 DEF TypeOK, Places, database, Message
<1>9. ASSUME NEW q \in Partitions, NEW n \in Behind(q)'
      PROVE  n \in Behind(q)
  <2>1. /\ n \in 1..Len(log[q]) /\ position[q] \in Nat /\ owner[q] \in Instances
        /\ \/ n <= position'[q] /\ (Busy(owner[q], q)' => n # msg'[owner[q]].next)
           \/ \E j \in Instances : Busy(j, q)' /\ n < msg'[j].next
    BY <1>1, Offsets DEF Behind, Busy
  <2>2. ~Busy(i, q) /\ (Busy(i, q)' <=> q = p)
    BY <1>1, <1>4, <1>5 DEF Busy
  <2>3. \A j \in Instances \ {i} : Busy(j, q)' = Busy(j, q) /\ msg'[j] = msg[j]
    BY <1>5 DEF Busy
  <2>4. CASE q = p /\ n <= position[p]
    BY <1>1, <2>1, <2>2, <2>4 DEF Behind
  <2>5. CASE q = p /\ n > position[p]
    <3>1. ~(n <= position'[p] /\ (Busy(i, p)' => n # msg'[i].next))
      BY <1>4, <1>5, <2>1, <2>2, <2>5
    <3>2. PICK j \in Instances : Busy(j, q)' /\ n < msg'[j].next
      BY <1>1, <2>1, <2>5, <3>1
    <3>3. j # i
      BY <1>4, <1>5, <2>1, <2>5, <3>2
    <3> QED
      BY <2>1, <2>3, <3>2, <3>3 DEF Behind
  <2>6. CASE q # p
    <3>1. position'[q] = position[q]
      BY <1>5, <2>6
    <3>2. CASE \E j \in Instances : Busy(j, q)' /\ n < msg'[j].next
      BY <2>1, <2>2, <2>3, <2>6, <3>2 DEF Behind
    <3>3. CASE n <= position[q] /\ (Busy(owner[q], q)' => n # msg'[owner[q]].next)
      <4>1. PICK o \in Instances : o = owner[q] /\ o = owner'[q]
        BY <1>1, <2>1
      <4>2. Busy(o, q) => Busy(o, q)' /\ msg'[o] = msg[o]
        BY <2>2, <2>3
      <4>3. Busy(o, q)' => n # msg'[o].next
        BY <3>3, <4>1 DEF Busy
      <4> QED
        BY <2>1, <3>3, <4>1, <4>2, <4>3 DEF Behind
    <3> QED
      BY <2>1, <3>1, <3>2, <3>3
  <2> QED
    BY <2>1, <2>4, <2>5, <2>6
<1>10. /\ HoldersDiffer' /\ SkippedPaid'
       /\ ReadsArePast' /\ FiniteRecords' /\ NeverDoubleCounted' /\ ExactUnlessClashed'
  <2>1. \A q \in Partitions : \A e \in Passed(q)' : e \in Passed(q)
    BY <1>1, <1>9 DEF Passed
  <2> QED
    BY <1>1, <1>5, <2>1, IdleKeeps
<1> QED
  BY <1>6, <1>8, <1>10 DEF AnalyticsInv

(* A member has no message any more: only that one joins those behind.     *)
LEMMA LetGo ==
    ASSUME AnalyticsInv, NEW i \in Instances, UNCHANGED <<log, owner>>,
           pc' = [pc EXCEPT ![i] = "poll"], msg' = [msg EXCEPT ![i] = NoMsg],
           offset' \in [Partitions -> Nat], position' \in [Partitions -> Nat],
           \A p \in Partitions : position'[p] <= position[p],
           \A p \in Partitions : owner[p] # i => position'[p] = position[p] /\ offset'[p] = offset[p]
    PROVE  /\ GroupInStep' /\ pc' \in [Instances -> Places]
           /\ \A p \in Partitions : \A n \in Behind(p)' :
                 \/ n \in Behind(p)
                 \/ owner[p] = i /\ Busy(i, p) /\ n = msg[i].next /\ n <= position'[p]
<1>1. /\ pc \in [Instances -> Places] /\ msg \in [Instances -> Message \cup {NoMsg}] /\ GroupInStep
      /\ TypeOK
  BY DEF AnalyticsInv, TypeOK, Places, GroupInStep
<1>2. /\ pc' \in [Instances -> Places] /\ msg' \in [Instances -> Message \cup {NoMsg}]
      /\ pc'[i] = "poll" /\ \A j \in Instances \ {i} : pc'[j] = pc[j] /\ msg'[j] = msg[j]
  BY <1>1 DEF Places
<1>3. ASSUME NEW j \in Instances, pc'[j] # "poll"
      PROVE  /\ msg'[j].next \in 1..Len(log[msg'[j].part])
             /\ msg'[j].event = log[msg'[j].part][msg'[j].next]
             /\ owner[msg'[j].part] = j => /\ msg'[j].next = position'[msg'[j].part]
                                           /\ offset'[msg'[j].part] < msg'[j].next
  <2>1. j # i /\ pc[j] # "poll" /\ msg'[j] = msg[j]
    BY <1>2, <1>3
  <2>2. PICK q \in Partitions : q = msg[j].part
    BY <1>1, <2>1, InHand
  <2>3. /\ msg[j].next \in 1..Len(log[q]) /\ msg[j].event = log[q][msg[j].next]
        /\ owner[q] = j => msg[j].next = position[q] /\ offset[q] < msg[j].next
    BY <1>1, <2>1, <2>2 DEF GroupInStep
  <2>4. owner[q] = j => position'[q] = position[q] /\ offset'[q] = offset[q]
    BY <2>1
  <2> QED
    BY <2>1, <2>2, <2>3, <2>4
<1>4. ASSUME NEW p \in Partitions, NEW n \in Behind(p)'
      PROVE  \/ n \in Behind(p)
             \/ owner[p] = i /\ Busy(i, p) /\ n = msg[i].next /\ n <= position'[p]
  <2>1. /\ n \in 1..Len(log[p]) /\ owner[p] \in Instances
        /\ position[p] \in Nat /\ position'[p] \in Nat /\ position'[p] <= position[p]
        /\ \/ n <= position'[p] /\ (Busy(owner[p], p)' => n # msg'[owner[p]].next)
           \/ \E j \in Instances : Busy(j, p)' /\ n < msg'[j].next
    BY Offsets DEF Behind, Busy
  <2>2. ~Busy(i, p)' /\ \A j \in Instances \ {i} : Busy(j, p)' = Busy(j, p) /\ msg'[j] = msg[j]
    BY <1>2 DEF Busy
  <2>3. CASE \E j \in Instances : Busy(j, p)' /\ n < msg'[j].next
    BY <2>1, <2>2, <2>3 DEF Behind
  <2>4. CASE n <= position'[p] /\ owner[p] # i /\ (Busy(owner[p], p)' => n # msg'[owner[p]].next)
    <3>1. n <= position[p]
      BY <2>1, <2>4
    <3> QED
      BY <2>1, <2>2, <2>4, <3>1 DEF Behind
  <2>5. CASE n <= position'[p] /\ owner[p] = i
    <3>1. n <= position[p]
      BY <2>1, <2>5
    <3> QED
      BY <2>1, <2>5, <3>1 DEF Behind
  <2> QED
    BY <2>1, <2>3, <2>4, <2>5
<1> QED
  BY <1>2, <1>3, <1>4 DEF GroupInStep

(* The offset goes past the message, if the partition is still the         *)
(* member's and the request arrives.                                       *)
LEMMA OffsetKeeps ==
    ASSUME AnalyticsInv, NEW i \in Instances, CommitOffset(i)
    PROVE  AnalyticsInv'
<1>0. pc[i] = "offset" /\ TypeOK /\ GroupInStep /\ GroupTypeOK
  BY DEF CommitOffset, AnalyticsInv, TypeOK
<1> PICK p \in Partitions : p = msg[i].part
  BY <1>0, InHand
<1>1. /\ \/ owner[p] = i /\ offset' = [offset EXCEPT ![p] = msg[i].next]
         \/ offset' = offset
      /\ pc' = [pc EXCEPT ![i] = "poll"] /\ msg' = [msg EXCEPT ![i] = NoMsg]
      /\ read' = [read EXCEPT ![i] = NoStat]
      /\ UNCHANGED <<log, owner, position, moves, database, clashed, failures>>
  BY DEF CommitOffset, Committed, Goto
<1>2. /\ msg[i].next \in 1..Len(log[p]) /\ msg[i].event = log[p][msg[i].next]
      /\ owner[p] = i => msg[i].next = position[p]
  BY <1>0 DEF GroupInStep
<1>3. /\ offset \in [Partitions -> Nat] /\ position \in [Partitions -> Nat] /\ Len(log[p]) \in Nat
  BY <1>0, Offsets DEF GroupTypeOK
<1>4. /\ offset' \in [Partitions -> Nat] /\ position' = position
      /\ \A q \in Partitions : owner[q] # i => offset'[q] = offset[q]
      /\ \A q \in Partitions : offset'[q] = offset[q] \/ offset'[q] = position[q]
  BY <1>1, <1>2, <1>3
<1>5. ASSUME NEW q \in Partitions
      PROVE  offset'[q] <= position[q] /\ position[q] <= Len(log[q])
  <2>1. /\ offset[q] \in Nat /\ position[q] \in Nat /\ Len(log[q]) \in Nat
        /\ offset[q] <= position[q] /\ position[q] <= Len(log[q])
    BY Offsets
  <2> QED
    BY <1>4, <2>1
<1>6. /\ GroupInStep' /\ pc' \in [Instances -> Places]
      /\ \A q \in Partitions : \A n \in Behind(q)' :
            \/ n \in Behind(q)
            \/ owner[q] = i /\ Busy(i, q) /\ n = msg[i].next /\ n <= position'[q]
  <2>1. \A q \in Partitions : position'[q] <= position[q]
    BY <1>3, <1>4
  <2> QED
    BY <1>1, <1>3, <1>4, <2>1, LetGo
<1>7. GroupTypeOK'
  BY <1>0, <1>1, <1>4, <1>5 DEF GroupTypeOK
<1>8. TypeOK'
  BY <1>0, <1>1, <1>6, <1>7 DEF TypeOK, Places, database, GroupInStep
<1>9. ASSUME NEW q \in Partitions, NEW e \in Passed(q)'
      PROVE  e \in Passed(q) \/ \E j \in Instances : pc[j] = "offset" /\ Event(j) = e
  <2>1. PICK n \in Behind(q)' : e = log[q][n]
    BY <1>1 DEF Passed
  <2>2. CASE n \in Behind(q)
    BY <2>1, <2>2 DEF Passed
  <2>3. CASE Busy(i, q) /\ n = msg[i].next
    BY <1>0, <1>2, <2>1, <2>3 DEF Busy, Event
  <2> QED
    BY <1>6, <2>1, <2>2, <2>3
<1>10. /\ HoldersDiffer' /\ SkippedPaid'
       /\ ReadsArePast' /\ FiniteRecords' /\ NeverDoubleCounted' /\ ExactUnlessClashed'
  <2>1. \A j \in Instances : \/ pc'[j] = pc[j] /\ msg'[j] = msg[j] /\ read'[j] = read[j]
                             \/ pc'[j] \in {"poll", "check"}
    BY <1>0, <1>1 DEF TypeOK, GroupInStep
  <2> QED
    BY <1>1, <1>9, <2>1, IdleKeeps
<1> QED
  BY <1>6, <1>8, <1>10 DEF AnalyticsInv

(* A member dies and comes back.                                           *)
LEMMA CrashKeeps ==
    ASSUME AnalyticsInv, NEW i \in Instances, Crash(i)
    PROVE  AnalyticsInv'
<1>0. TypeOK /\ GroupInStep /\ GroupTypeOK
  BY DEF AnalyticsInv, TypeOK
<1>1. /\ moves < MaxMoves /\ moves' = moves + 1
      /\ position' = [p \in Partitions |-> IF owner[p] = i THEN offset[p] ELSE position[p]]
      /\ pc' = [pc EXCEPT ![i] = "poll"] /\ msg' = [msg EXCEPT ![i] = NoMsg]
      /\ read' = [read EXCEPT ![i] = NoStat]
      /\ UNCHANGED <<log, owner, offset, database, clashed, failures>>
  BY DEF Crash, Restarted, Goto
<1>2. /\ offset \in [Partitions -> Nat] /\ position \in [Partitions -> Nat]
  BY <1>0 DEF GroupTypeOK
<1>3. position' \in [Partitions -> Nat]
  BY <1>1, <1>2
<1>4. ASSUME NEW q \in Partitions
      PROVE  /\ offset[q] <= position'[q] /\ position'[q] <= position[q]
             /\ position'[q] <= Len(log[q])
             /\ owner[q] = i => position'[q] = offset[q]
             /\ owner[q] # i => position'[q] = position[q]
  BY <1>1, Offsets
<1>5. /\ GroupInStep' /\ pc' \in [Instances -> Places]
      /\ \A q \in Partitions : \A n \in Behind(q)' :
            \/ n \in Behind(q)
            \/ owner[q] = i /\ Busy(i, q) /\ n = msg[i].next /\ n <= position'[q]
  BY <1>1, <1>2, <1>3, <1>4, LetGo
<1>6. GroupTypeOK'
  BY <1>0, <1>1, <1>3, <1>4 DEF GroupTypeOK
<1>7. TypeOK'
  BY <1>0, <1>1, <1>5, <1>6 DEF TypeOK, Places, database, GroupInStep
<1>8. ASSUME NEW q \in Partitions, NEW n \in Behind(q)'
      PROVE  n \in Behind(q)
  <2>1. owner[q] = i /\ Busy(i, q) => offset[q] < msg[i].next /\ msg[i].next \in Nat
    BY <1>0, InHand DEF GroupInStep, Busy, Message
  <2>2. offset[q] \in Nat
    BY <1>2
  <2> QED
    BY <1>4, <1>5, <2>1, <2>2
<1>9. /\ HoldersDiffer' /\ SkippedPaid'
      /\ ReadsArePast' /\ FiniteRecords' /\ NeverDoubleCounted' /\ ExactUnlessClashed'
  <2>1. \A j \in Instances : \/ pc'[j] = pc[j] /\ msg'[j] = msg[j] /\ read'[j] = read[j]
                             \/ pc'[j] \in {"poll", "check"}
    BY <1>0, <1>1 DEF TypeOK, GroupInStep
  <2>2. \A q \in Partitions : \A e \in Passed(q)' : e \in Passed(q)
    BY <1>1, <1>8 DEF Passed
  <2> QED
    BY <1>1, <2>1, <2>2, IdleKeeps
<1> QED
  BY <1>5, <1>7, <1>9 DEF AnalyticsInv

(* A partition moves to a member that is polling.                          *)
LEMMA RebalanceKeeps ==
    ASSUME AnalyticsInv, NEW i \in Instances, NEW p \in Partitions, Rebalance(p, i)
    PROVE  AnalyticsInv'
<1>0. TypeOK /\ GroupInStep /\ GroupTypeOK
  BY DEF AnalyticsInv, TypeOK
<1>1. /\ pc[i] = "poll" /\ moves < MaxMoves /\ moves' = moves + 1
      /\ owner' = [owner EXCEPT ![p] = i] /\ position' = [position EXCEPT ![p] = offset[p]]
      /\ UNCHANGED <<log, offset, pc, msg, read, database, clashed, failures>>
  BY DEF Rebalance, Moved, handlers
<1>2. /\ owner' \in [Partitions -> Instances] /\ position' \in [Partitions -> Nat]
      /\ owner'[p] = i /\ position'[p] = offset[p]
      /\ \A q \in Partitions \ {p} : owner'[q] = owner[q] /\ position'[q] = position[q]
  BY <1>0, <1>1 DEF GroupTypeOK
<1>3. \A q \in Partitions : offset[q] <= position'[q] /\ position'[q] <= Len(log[q])
  BY <1>2, Offsets
<1>4. ASSUME NEW j \in Instances, pc[j] # "poll"
      PROVE  owner'[msg[j].part] = j =>
                owner[msg[j].part] = j /\ position'[msg[j].part] = position[msg[j].part]
  BY <1>0, <1>1, <1>2, <1>4, InHand
<1>5. GroupInStep'
  BY <1>0, <1>1, <1>4 DEF GroupInStep
<1>6. GroupTypeOK'
  BY <1>0, <1>1, <1>2, <1>3 DEF GroupTypeOK
<1>7. TypeOK'
  BY <1>0, <1>1, <1>6 DEF TypeOK, database
<1>8. ASSUME NEW q \in Partitions, NEW n \in Behind(q)'
      PROVE  n \in Behind(q)
  <2>1. /\ n \in 1..Len(log[q]) /\ owner[q] \in Instances /\ position[q] \in Nat
        /\ offset[q] \in Nat /\ offset[q] <= position[q]
        /\ \/ n <= position'[q] /\ (Busy(owner'[q], q) => n # msg[owner'[q]].next)
           \/ \E j \in Instances : Busy(j, q) /\ n < msg[j].next
    BY <1>1, Offsets DEF Behind, Busy
  <2>2. CASE \E j \in Instances : Busy(j, q) /\ n < msg[j].next
    BY <2>1, <2>2 DEF Behind
  <2>3. CASE q # p /\ n <= position'[q] /\ (Busy(owner'[q], q) => n # msg[owner'[q]].next)
    BY <1>2, <2>1, <2>3 DEF Behind
  <2>4. CASE q = p /\ n <= position'[p]
    <3>1. Busy(owner[q], q) => offset[q] < msg[owner[q]].next /\ msg[owner[q]].next \in Nat
      BY <1>0, <2>1, InHand DEF GroupInStep, Busy, Message
    <3>2. n <= offset[q] /\ n <= position[q]
      BY <1>2, <2>1, <2>4
    <3>3. Busy(owner[q], q) => n # msg[owner[q]].next
      BY <2>1, <3>1, <3>2
    <3> QED
      BY <2>1, <3>2, <3>3 DEF Behind
  <2> QED
    BY <2>1, <2>2, <2>3, <2>4
<1>9. /\ HoldersDiffer' /\ SkippedPaid'
      /\ ReadsArePast' /\ FiniteRecords' /\ NeverDoubleCounted' /\ ExactUnlessClashed'
  <2>1. \A q \in Partitions : \A e \in Passed(q)' : e \in Passed(q)
    BY <1>1, <1>8 DEF Passed
  <2> QED
    BY <1>1, <2>1, IdleKeeps
<1> QED
  BY <1>5, <1>7, <1>9 DEF AnalyticsInv

(* A message more at the end of a log.                                     *)
LEMMA ProduceKeeps ==
    ASSUME AnalyticsInv, NEW e \in Events, Produce(e)
    PROVE  AnalyticsInv'
<1>0. TypeOK /\ GroupInStep /\ GroupTypeOK
  BY DEF AnalyticsInv, TypeOK
<1>1. /\ log' = [log EXCEPT ![Partition[e]] = Append(@, e)]
      /\ UNCHANGED <<owner, position, offset, moves, pc, msg, read, database, clashed, failures>>
  BY DEF Produce, Publish, handlers
<1>2. log \in [Partitions -> Seq(Events)] /\ Partition[e] \in Partitions
  BY <1>0 DEF GroupTypeOK
<1>3. log' \in [Partitions -> Seq(Events)]
  BY <1>1, <1>2
<1>4. ASSUME NEW p \in Partitions
      PROVE  /\ Len(log[p]) \in Nat /\ Len(log'[p]) \in Nat /\ Len(log[p]) <= Len(log'[p])
             /\ \A n \in 1..Len(log[p]) : log'[p][n] = log[p][n]
  <2>1. CASE p = Partition[e]
    <3>1. log'[p] = Append(log[p], e) /\ log[p] \in Seq(Events)
      BY <1>1, <1>2, <2>1
    <3> QED
      BY <3>1
  <2>2. CASE p # Partition[e]
    BY <1>1, <1>2, <2>2
  <2> QED
    BY <2>1, <2>2
<1>5. GroupTypeOK'
  <2>1. \A p \in Partitions : position[p] <= Len(log'[p])
    BY <1>4, Offsets
  <2> QED
    BY <1>0, <1>1, <1>3, <2>1 DEF GroupTypeOK
<1>6. GroupInStep'
  <2>1. ASSUME NEW j \in Instances, pc[j] # "poll"
        PROVE  /\ msg[j].next \in 1..Len(log'[msg[j].part])
               /\ msg[j].event = log'[msg[j].part][msg[j].next]
    <3>1. msg[j].part \in Partitions
      BY <1>0, <2>1, InHand
    <3>2. /\ msg[j].next \in 1..Len(log[msg[j].part])
          /\ msg[j].event = log[msg[j].part][msg[j].next]
      BY <1>0, <2>1 DEF GroupInStep
    <3> QED
      BY <1>4, <3>1, <3>2
  <2> QED
    BY <1>0, <1>1, <2>1 DEF GroupInStep
<1>7. TypeOK'
  BY <1>0, <1>1, <1>5 DEF TypeOK, database
<1>8. \A p \in Partitions : \A x \in Passed(p)' : x \in Passed(p)
  <2> SUFFICES ASSUME NEW p \in Partitions, NEW n \in Behind(p)'
               PROVE  n \in Behind(p) /\ log'[p][n] = log[p][n]
    BY DEF Passed
  <2>1. /\ n \in 1..Len(log'[p]) /\ position[p] \in Nat /\ position[p] <= Len(log[p])
        /\ \/ n <= position[p] /\ (Busy(owner[p], p) => n # msg[owner[p]].next)
           \/ \E j \in Instances : Busy(j, p) /\ n < msg[j].next
    BY <1>1, Offsets DEF Behind, Busy
  <2>2. \A j \in Instances : Busy(j, p) => msg[j].next \in 1..Len(log[p])
    BY <1>0 DEF GroupInStep, Busy
  <2>3. n \in 1..Len(log[p])
    BY <1>4, <2>1, <2>2
  <2> QED
    BY <1>4, <2>1, <2>3 DEF Behind
<1>9. /\ HoldersDiffer' /\ SkippedPaid'
      /\ ReadsArePast' /\ FiniteRecords' /\ NeverDoubleCounted' /\ ExactUnlessClashed'
  BY <1>1, <1>8, IdleKeeps
<1> QED
  BY <1>6, <1>7, <1>9 DEF AnalyticsInv

-----------------------------------------------------------------------------
(* The invariant holds however members, messages and failures interleave.  *)
THEOREM AnalyticsInvariant == Spec => []AnalyticsInv
<1>1. AnalyticsInv /\ [Next]_vars => AnalyticsInv'
  <2> SUFFICES ASSUME AnalyticsInv, [Next]_vars PROVE AnalyticsInv'
    OBVIOUS
  <2>1. CASE UNCHANGED vars
    <3>1. UNCHANGED <<log, owner, position, offset, moves, pc, msg, read, database, processed,
                      stats, clashed, failures>>
      BY <2>1 DEF vars, groupVars, handlers, database
    <3>2. TypeOK' /\ GroupInStep'
      BY <3>1 DEF AnalyticsInv, TypeOK, GroupTypeOK, GroupInStep
    <3>3. \A p \in Partitions : Passed(p)' = Passed(p)
      BY <3>1 DEF Passed, Behind, Busy
    <3>4. /\ HoldersDiffer' /\ SkippedPaid'
          /\ ReadsArePast' /\ FiniteRecords' /\ NeverDoubleCounted' /\ ExactUnlessClashed'
      BY <3>1, <3>3, IdleKeeps
    <3> QED
      BY <3>2, <3>4 DEF AnalyticsInv
  <2>2. CASE Next
    BY <2>2, ProduceKeeps, PollKeeps, CheckKeeps, MarkKeeps, ReadKeeps, WriteKeeps, CommitKeeps,
       OffsetKeeps, FailureKeeps, CrashKeeps, RebalanceKeeps DEF Next, Step
  <2> QED
    BY <2>1, <2>2
<1> QED
  BY <1>1, AnalyticsInit, PTL DEF Spec

(* Loops, sessions and tables keep their shape; offsets trail the fetch    *)
(* positions and these the logs.                                           *)
THEOREM ConsumersAreTyped == Spec => []TypeOK
<1>1. AnalyticsInv => TypeOK
  BY DEF AnalyticsInv
<1> QED
  BY <1>1, AnalyticsInvariant, PTL

(* However often an event is delivered and whoever handles it, the rollup  *)
(* counts it at most once.                                                 *)
THEOREM NothingCountedTwice == Spec => []NeverDoubleCounted
<1>1. AnalyticsInv => NeverDoubleCounted
  BY DEF AnalyticsInv
<1> QED
  BY <1>1, AnalyticsInvariant, PTL

(* A stats row that no two sessions had open at once is exact.             *)
THEOREM RollupIsExactUnlessClashed == Spec => []ExactUnlessClashed
<1>1. AnalyticsInv => ExactUnlessClashed
  BY DEF AnalyticsInv
<1> QED
  BY <1>1, AnalyticsInvariant, PTL

(* What is committed is behind.                                            *)
LEMMA CommittedIsBehind ==
    ASSUME AnalyticsInv, NEW p \in Partitions
    PROVE  1..offset[p] \subseteq Behind(p)
<1> SUFFICES ASSUME NEW n \in 1..offset[p] PROVE n \in Behind(p)
  OBVIOUS
<1>1. /\ offset[p] \in Nat /\ position[p] \in Nat /\ Len(log[p]) \in Nat /\ owner[p] \in Instances
      /\ offset[p] <= position[p] /\ position[p] <= Len(log[p])
  BY Offsets
<1>2. Busy(owner[p], p) => offset[p] < msg[owner[p]].next /\ msg[owner[p]].next \in Nat
  BY <1>1, InHand DEF AnalyticsInv, GroupInStep, Busy, Message
<1>3. Busy(owner[p], p) => n # msg[owner[p]].next
  BY <1>1, <1>2
<1>4. n \in 1..Len(log[p]) /\ n <= position[p]
  BY <1>1
<1> QED
  BY <1>3, <1>4 DEF Behind

(* Offsets pass over at most one uncounted event for each failure of a     *)
(* handler, apart from those that lost a clash.                            *)
THEOREM FailuresPayForSkips == Spec => []SkippedOnlyByFailures
<1>1. AnalyticsInv => SkippedOnlyByFailures
  <2> SUFFICES ASSUME AnalyticsInv PROVE SkippedOnlyByFailures
    OBVIOUS
  <2>1. PassedOver \in SUBSET Skipped
    <3>1. \A p \in Partitions : Consumed(p) \subseteq Passed(p)
      BY CommittedIsBehind DEF Consumed, Passed
    <3> QED
      BY <3>1 DEF PassedOver, Skipped
  <2>2. IsFiniteSet(Skipped) /\ Cardinality(Skipped) <= failures /\ failures \in Nat
    BY DEF AnalyticsInv, SkippedPaid, TypeOK
  <2>3. IsFiniteSet(PassedOver) /\ Cardinality(PassedOver) <= Cardinality(Skipped)
    BY <2>1, <2>2, FS_Subset
  <2>4. Cardinality(PassedOver) \in Nat /\ Cardinality(Skipped) \in Nat
    BY <2>2, <2>3, FS_CardinalityType
  <2> QED
    BY <2>2, <2>3, <2>4 DEF SkippedOnlyByFailures
<1> QED
  BY <1>1, AnalyticsInvariant, PTL

(* Two members come to work on one row for the first time only from        *)
(* different partitions, or after a failure: the messages before the later *)
(* one are behind it, hence recorded, clashed or failed.                   *)
THEOREM FirstClashNeedsTwoPartitions == Spec => []ClashNeedsTwoPartitions
<1>1. ASSUME AnalyticsInv, failures = 0, NEW i \in Instances, NEW j \in Instances, i # j,
             HoldsEvent(i), HoldsEvent(j), Row(i) = Row(j), Row(i) \notin clashed,
             msg[i].part = msg[j].part, msg[i].next <= msg[j].next
      PROVE  FALSE
  <2>1. pc[i] # "poll" /\ pc[j] # "poll" /\ TypeOK /\ GroupInStep
    BY <1>1 DEF AnalyticsInv, HoldsEvent
  <2>2. PICK p \in Partitions : p = msg[i].part
    BY <2>1, InHand
  <2>3. Event(i) \in Events /\ Event(i) \notin processed /\ Event(j) # Event(i)
    BY <1>1, <2>1, InHand DEF AnalyticsInv, HoldersDiffer
  <2>4. /\ msg[i].next \in 1..Len(log[p]) /\ msg[j].next \in 1..Len(log[p])
        /\ Event(i) = log[p][msg[i].next] /\ Event(j) = log[p][msg[j].next]
    BY <1>1, <2>1, <2>2 DEF GroupInStep, Event
  <2>5. msg[i].next \in Behind(p)
    <3>1. msg[i].next # msg[j].next
      BY <2>3, <2>4
    <3>2. msg[i].next < msg[j].next
      BY <1>1, <2>4, <3>1, Offsets
    <3>3. Busy(j, p)
      BY <1>1, <2>1, <2>2 DEF Busy
    <3> QED
      BY <2>4, <3>2, <3>3 DEF Behind
  <2>6. Event(i) \in Skipped
    BY <1>1, <2>3, <2>4, <2>5 DEF Skipped, Passed, Row
  <2>7. Skipped = {}
    <3>1. IsFiniteSet(Skipped) /\ Cardinality(Skipped) <= 0
      BY <1>1 DEF AnalyticsInv, SkippedPaid
    <3>2. Cardinality(Skipped) \in Nat
      BY <3>1, FS_CardinalityType
    <3>3. Cardinality(Skipped) = 0
      BY <3>1, <3>2
    <3> QED
      BY <3>1, <3>3, FS_EmptySet
  <2> QED
    BY <2>6, <2>7
<1>2. AnalyticsInv => ClashNeedsTwoPartitions
  <2> SUFFICES ASSUME AnalyticsInv, NEW i \in Instances, NEW j \in Instances, i # j,
                      HoldsEvent(i), HoldsEvent(j), Row(i) = Row(j), Row(i) \notin clashed,
                      msg[i].part = msg[j].part, failures = 0
               PROVE  FALSE
    BY DEF AnalyticsInv, TypeOK, ClashNeedsTwoPartitions
  <2>1. msg[i].next \in Nat /\ msg[j].next \in Nat
    BY InHand DEF AnalyticsInv, HoldsEvent, Message
  <2>2. CASE msg[i].next <= msg[j].next
    BY <1>1, <2>2
  <2>3. CASE msg[j].next <= msg[i].next
    BY <1>1, <2>3
  <2> QED
    BY <2>1, <2>2, <2>3
<1> QED
  BY <1>2, AnalyticsInvariant, PTL
=============================================================================
