-------------------------- MODULE MigrationsProofs --------------------------
(***************************************************************************)
(* The committed schema is always the one its version promises, and only   *)
(* an overlapping run makes a run fail, for any number of jobs and runs,   *)
(* any downgrades and crashes.  A run that is alone since it read the      *)
(* version executes its statements as the chain foresees.  A run that was  *)
(* overtaken may still be right, when the version is back where it was: it *)
(* holds the tables it has touched, so what it made of them is what it     *)
(* would make of them now.                                                 *)
(***************************************************************************)
EXTENDS Migrations, TLAPS, SequenceTheorems

Parts == UNION {User, Wallet, Transaction, LedgerEntry, OutboxEvent, TransactionStat,
                ProcessedEvent}
Stmt == [op : {"create_table", "drop_table", "add", "drop"}, table : Tables,
         parts : SUBSET Parts, fills : BOOLEAN]

(* The schema after a statement.                                           *)
Executed(S, s) == [t \in Tables |-> IF t = s.table THEN Effect(S[t], s) ELSE S[t]]

(* A statement that PostgreSQL accepts whatever rows there are.            *)
Fits(S, s) ==
    /\ s.fills
    /\ \/ s.op = "create_table" /\ S[s.table] = {} /\ \A t \in Refs[s.table] : S[t] # {}
       \/ s.op = "drop_table" /\ S[s.table] # {}
                              /\ \A t \in Tables : s.table \in Refs[t] => S[t] = {}
       \/ s.op = "add" /\ S[s.table] # {} /\ s.parts \cap S[s.table] = {}
       \/ s.op = "drop" /\ s.parts \subseteq S[s.table]

(* The statements q all fit, one after the other, and lead from S to T.    *)
Path(f, S, q, T) ==
    /\ f[0] = S
    /\ \A i \in 1..Len(q) : Fits(f[i-1], q[i]) /\ f[i] = Executed(f[i-1], q[i])
    /\ f[Len(q)] = T
Reaches(S, q, T) == \E f : Path(f, S, q, T)

(* What q makes of the parts X of one table.                               *)
Trail(f, t, X, q, Y) ==
    /\ f[0] = X
    /\ \A i \in 1..Len(q) : f[i] = IF q[i].table = t THEN Effect(f[i-1], q[i]) ELSE f[i-1]
    /\ f[Len(q)] = Y
Leaves(t, X, q, Y) == \E f : Trail(f, t, X, q, Y)

(* The first statement and the rest.                                       *)
LEMMA HeadTail ==
    ASSUME NEW q \in Seq(Stmt), q # <<>>
    PROVE  /\ Len(q) \in Nat \ {0} /\ Head(q) = q[1] /\ Head(q) \in Stmt
           /\ Tail(q) \in Seq(Stmt) /\ Len(Tail(q)) = Len(q) - 1
           /\ \A i \in 1..(Len(q) - 1) : Tail(q)[i] = q[i + 1]
<1> HIDE DEF Stmt
<1>1. Len(q) \in Nat /\ Len(q) # 0
  OBVIOUS
<1> QED
  BY <1>1

(* No statement, no change.                                                *)
LEMMA ReachesEnd ==
    ASSUME NEW S, NEW T
    PROVE  Reaches(S, <<>>, T) <=> S = T
<1>1. Len(<<>>) = 0
  OBVIOUS
<1>2. ASSUME S = T PROVE Reaches(S, <<>>, T)
  <2> DEFINE f == [i \in {0} |-> S]
  <2>1. f[0] = S
    OBVIOUS
  <2> HIDE DEF f
  <2>2. Path(f, S, <<>>, T)
    BY <1>1, <1>2, <2>1 DEF Path
  <2> QED
    BY <2>2 DEF Reaches
<1>3. ASSUME Reaches(S, <<>>, T) PROVE S = T
  BY <1>1, <1>3 DEF Reaches, Path
<1> QED
  BY <1>2, <1>3

(* One statement after the other.                                          *)
LEMMA ReachesStep ==
    ASSUME NEW S, NEW T, NEW q \in Seq(Stmt), q # <<>>
    PROVE  Reaches(S, q, T) <=>
              Fits(S, Head(q)) /\ Reaches(Executed(S, Head(q)), Tail(q), T)
<1> DEFINE r == Tail(q)  n == Len(q)
<1>1. /\ n \in Nat \ {0} /\ Head(q) = q[1] /\ Len(r) = n - 1
      /\ \A i \in 1..(n - 1) : r[i] = q[i + 1]
  BY HeadTail
<1> HIDE DEF r, n
<1>2. ASSUME NEW f, Path(f, S, q, T)
      PROVE  Fits(S, Head(q)) /\ Reaches(Executed(S, Head(q)), r, T)
  <2> DEFINE g == [i \in 0..(n - 1) |-> f[i + 1]]
  <2>1. /\ f[0] = S /\ f[n] = T
        /\ \A i \in 1..n : Fits(f[i-1], q[i]) /\ f[i] = Executed(f[i-1], q[i])
    BY <1>2 DEF Path, n
  <2>2. Fits(S, q[1]) /\ f[1] = Executed(S, q[1])
    BY <1>1, <2>1
  <2>3. \A i \in 0..(n - 1) : g[i] = f[i + 1]
    OBVIOUS
  <2> HIDE DEF g
  <2>4. g[0] = Executed(S, q[1]) /\ g[n - 1] = f[n]
    BY <1>1, <2>2, <2>3
  <2>5. ASSUME NEW i \in 1..(n - 1)
        PROVE  Fits(g[i-1], r[i]) /\ g[i] = Executed(g[i-1], r[i])
    <3>1. i + 1 \in 1..n /\ (i + 1) - 1 = i /\ i \in 0..(n - 1) /\ i - 1 \in 0..(n - 1)
          /\ (i - 1) + 1 = i
      BY <1>1
    <3>2. g[i-1] = f[i] /\ g[i] = f[i + 1] /\ r[i] = q[i + 1]
      BY <1>1, <2>3, <3>1
    <3> QED
      BY <2>1, <3>1, <3>2
  <2>6. Path(g, Executed(S, q[1]), r, T)
    BY <1>1, <2>1, <2>4, <2>5 DEF Path
  <2> QED
    BY <1>1, <2>2, <2>6 DEF Reaches
<1>3. ASSUME Fits(S, Head(q)), NEW g, Path(g, Executed(S, Head(q)), r, T)
      PROVE  Reaches(S, q, T)
  <2> DEFINE f == [i \in 0..n |-> IF i = 0 THEN S ELSE g[i - 1]]
  <2>1. /\ g[0] = Executed(S, q[1]) /\ g[n - 1] = T
        /\ \A i \in 1..(n - 1) : Fits(g[i-1], r[i]) /\ g[i] = Executed(g[i-1], r[i])
    BY <1>1, <1>3 DEF Path
  <2>2. f[0] = S /\ \A i \in 1..n : f[i] = g[i - 1]
    BY <1>1
  <2> HIDE DEF f
  <2>3. ASSUME NEW i \in 1..n
        PROVE  Fits(f[i-1], q[i]) /\ f[i] = Executed(f[i-1], q[i])
    <3>1. CASE i = 1
      BY <1>1, <1>3, <2>1, <2>2, <3>1
    <3>2. CASE i # 1
      <4>1. i - 1 \in 1..(n - 1) /\ i - 1 \in 1..n /\ (i - 1) + 1 = i
        BY <1>1, <3>2
      <4>2. f[i] = g[i - 1] /\ f[i - 1] = g[(i - 1) - 1] /\ r[i - 1] = q[i]
        BY <1>1, <2>2, <4>1
      <4> QED
        BY <2>1, <4>1, <4>2
    <3> QED
      BY <3>1, <3>2
  <2>4. Path(f, S, q, T)
    BY <1>1, <2>1, <2>2, <2>3 DEF Path, n
  <2> QED
    BY <2>4 DEF Reaches
<1> QED
  BY <1>2, <1>3 DEF Reaches, r

(* The same for the parts of one table.                                    *)
LEMMA LeavesEnd ==
    ASSUME NEW t, NEW X, NEW Y
    PROVE  Leaves(t, X, <<>>, Y) <=> X = Y
<1>1. Len(<<>>) = 0
  OBVIOUS
<1>2. ASSUME X = Y PROVE Leaves(t, X, <<>>, Y)
  <2> DEFINE f == [i \in {0} |-> X]
  <2>1. f[0] = X
    OBVIOUS
  <2> HIDE DEF f
  <2>2. Trail(f, t, X, <<>>, Y)
    BY <1>1, <1>2, <2>1 DEF Trail
  <2> QED
    BY <2>2 DEF Leaves
<1>3. ASSUME Leaves(t, X, <<>>, Y) PROVE X = Y
  BY <1>1, <1>3 DEF Leaves, Trail
<1> QED
  BY <1>2, <1>3

(* A statement on another table does not matter.                           *)
LEMMA LeavesStep ==
    ASSUME NEW t, NEW X, NEW Y, NEW q \in Seq(Stmt), q # <<>>
    PROVE  Leaves(t, X, q, Y) <=>
              Leaves(t, IF Head(q).table = t THEN Effect(X, Head(q)) ELSE X, Tail(q), Y)
<1> DEFINE r == Tail(q)  n == Len(q)  After(x, s) == IF s.table = t THEN Effect(x, s) ELSE x
<1>1. /\ n \in Nat \ {0} /\ Head(q) = q[1] /\ Len(r) = n - 1
      /\ \A i \in 1..(n - 1) : r[i] = q[i + 1]
  BY HeadTail
<1>0. \A f, x, p : Trail(f, t, x, p, Y) <=>
         f[0] = x /\ f[Len(p)] = Y /\ \A i \in 1..Len(p) : f[i] = After(f[i-1], p[i])
  BY DEF Trail
<1> HIDE DEF r, n, After
<1>2. ASSUME NEW f, Trail(f, t, X, q, Y)
      PROVE  Leaves(t, After(X, Head(q)), r, Y)
  <2> DEFINE g == [i \in 0..(n - 1) |-> f[i + 1]]
  <2>1. f[0] = X /\ f[n] = Y /\ \A i \in 1..n : f[i] = After(f[i-1], q[i])
    BY <1>0, <1>2 DEF n
  <2>2. f[1] = After(X, q[1])
    BY <1>1, <2>1
  <2>3. \A i \in 0..(n - 1) : g[i] = f[i + 1]
    OBVIOUS
  <2> HIDE DEF g
  <2>4. g[0] = After(X, q[1]) /\ g[n - 1] = Y
    BY <1>1, <2>1, <2>2, <2>3
  <2>5. ASSUME NEW i \in 1..(n - 1) PROVE g[i] = After(g[i-1], r[i])
    <3>1. i + 1 \in 1..n /\ (i + 1) - 1 = i /\ i \in 0..(n - 1) /\ i - 1 \in 0..(n - 1)
          /\ (i - 1) + 1 = i
      BY <1>1
    <3>2. g[i-1] = f[i] /\ g[i] = f[i + 1] /\ r[i] = q[i + 1]
      BY <1>1, <2>3, <3>1
    <3> QED
      BY <2>1, <3>1, <3>2
  <2>6. Trail(g, t, After(X, q[1]), r, Y)
    BY <1>0, <1>1, <2>4, <2>5
  <2> QED
    BY <1>1, <2>6 DEF Leaves
<1>3. ASSUME NEW g, Trail(g, t, After(X, Head(q)), r, Y)
      PROVE  Leaves(t, X, q, Y)
  <2> DEFINE f == [i \in 0..n |-> IF i = 0 THEN X ELSE g[i - 1]]
  <2>1. /\ g[0] = After(X, q[1]) /\ g[n - 1] = Y
        /\ \A i \in 1..(n - 1) : g[i] = After(g[i-1], r[i])
    BY <1>0, <1>1, <1>3
  <2>2. f[0] = X /\ \A i \in 1..n : f[i] = g[i - 1]
    BY <1>1
  <2> HIDE DEF f
  <2>3. ASSUME NEW i \in 1..n PROVE f[i] = After(f[i-1], q[i])
    <3>1. CASE i = 1
      BY <1>1, <2>1, <2>2, <3>1
    <3>2. CASE i # 1
      <4>1. i - 1 \in 1..(n - 1) /\ i - 1 \in 1..n /\ (i - 1) + 1 = i
        BY <1>1, <3>2
      <4>2. f[i] = g[i - 1] /\ f[i - 1] = g[(i - 1) - 1] /\ r[i - 1] = q[i]
        BY <1>1, <2>2, <4>1
      <4> QED
        BY <2>1, <4>1, <4>2
    <3> QED
      BY <3>1, <3>2
  <2>4. f[n] = Y
    <3>1. n \in 1..n
      BY <1>1
    <3> QED
      BY <2>1, <2>2, <3>1
  <2>5. Trail(f, t, X, q, Y)
    BY <1>0, <2>2, <2>3, <2>4 DEF n
  <2> QED
    BY <2>5 DEF Leaves
<1> QED
  BY <1>2, <1>3 DEF Leaves, r, After

(* A schema is made table by table.                                        *)
LEMMA ReachesLeaves ==
    ASSUME NEW S, NEW q \in Seq(Stmt), NEW T, Reaches(S, q, T), NEW t \in Tables
    PROVE  Leaves(t, S[t], q, T[t])
<1>1. PICK f : Path(f, S, q, T)
  BY DEF Reaches
<1> DEFINE g == [i \in 0..Len(q) |-> f[i][t]]
<1>2. Len(q) \in Nat /\ \A i \in 0..Len(q) : g[i] = f[i][t]
  OBVIOUS
<1> HIDE DEF g
<1>3. g[0] = S[t] /\ g[Len(q)] = T[t]
  BY <1>1, <1>2 DEF Path
<1>4. ASSUME NEW i \in 1..Len(q)
      PROVE  g[i] = IF q[i].table = t THEN Effect(g[i-1], q[i]) ELSE g[i-1]
  <2>1. i \in 0..Len(q) /\ i - 1 \in 0..Len(q)
    BY <1>2
  <2>2. f[i] = Executed(f[i-1], q[i])
    BY <1>1 DEF Path
  <2> QED
    BY <1>2, <2>1, <2>2 DEF Executed
<1>5. Trail(g, t, S[t], q, T[t])
  BY <1>3, <1>4 DEF Trail
<1> QED
  BY <1>5 DEF Leaves

(* One statement more at the end.                                          *)
LEMMA ReachesAppend ==
    ASSUME NEW S, NEW q \in Seq(Stmt), NEW T, Reaches(S, q, T), NEW s \in Stmt, Fits(T, s)
    PROVE  Reaches(S, Append(q, s), Executed(T, s))
<1> DEFINE r == Append(q, s)  n == Len(q)
<1>1. n \in Nat /\ Len(r) = n + 1 /\ r[n + 1] = s /\ \A i \in 1..n : r[i] = q[i]
  OBVIOUS
<1>2. PICK f : Path(f, S, q, T)
  BY DEF Reaches
<1>3. /\ f[0] = S /\ f[n] = T
      /\ \A i \in 1..n : Fits(f[i-1], q[i]) /\ f[i] = Executed(f[i-1], q[i])
  BY <1>2 DEF Path
<1> DEFINE g == [i \in 0..(n + 1) |-> IF i = n + 1 THEN Executed(T, s) ELSE f[i]]
<1>4. g[n + 1] = Executed(T, s) /\ \A i \in 0..n : g[i] = f[i]
  BY <1>1
<1> HIDE DEF g, r, n
<1>5. ASSUME NEW i \in 1..(n + 1)
      PROVE  Fits(g[i-1], r[i]) /\ g[i] = Executed(g[i-1], r[i])
  <2>1. CASE i = n + 1
    <3>1. i - 1 = n /\ n \in 0..n
      BY <1>1, <2>1
    <3> QED
      BY <1>1, <1>3, <1>4, <2>1, <3>1
  <2>2. CASE i # n + 1
    <3>1. i \in 1..n /\ i \in 0..n /\ i - 1 \in 0..n
      BY <1>1, <2>2
    <3> QED
      BY <1>1, <1>3, <1>4, <3>1
  <2> QED
    BY <2>1, <2>2
<1>6. g[0] = S
  BY <1>1, <1>3, <1>4
<1>7. Path(g, S, r, Executed(T, s))
  BY <1>1, <1>4, <1>5, <1>6 DEF Path
<1> QED
  BY <1>7 DEF Reaches, r

(* What a downgrade does about a statement of the upgrade.                 *)
Undo(s) == IF s.op = "create_table" THEN drop_table(s.table)
                                    ELSE Statement("drop", s.table, s.parts, TRUE)

(* The upgrade's statements can be executed and then undone.               *)
Undoable(S, s) ==
    /\ S = [t \in Tables |-> S[t]] /\ s \in Stmt /\ Fits(S, s)
    /\ \/ s.op = "add"
       \/ /\ s.op = "create_table" /\ s.parts # {}
          /\ \A u \in Tables : s.table \in Refs[u] => u # s.table /\ S[u] = {}

RoundTrip(S, up, down, T) ==
    up \in Seq(Stmt) /\ down \in Seq(Stmt) /\ Reaches(S, up, T) /\ Reaches(T, down, S)

(* A statement and what undoes it.                                         *)
LEMMA UndoWorks ==
    ASSUME NEW S, NEW s, Undoable(S, s)
    PROVE  /\ Undo(s) \in Stmt /\ Fits(Executed(S, s), Undo(s))
           /\ Executed(Executed(S, s), Undo(s)) = S
<1> DEFINE M == Executed(S, s)
<1>1. S = [t \in Tables |-> S[t]] /\ s \in Stmt /\ s.table \in Tables /\ s.parts \in SUBSET Parts
  BY DEF Undoable, Stmt
<1>2. \A t \in Tables : M[t] = IF t = s.table THEN Effect(S[t], s) ELSE S[t]
  BY DEF Executed
<1> HIDE DEF M
<1>3. CASE s.op = "add"
  <2>1. /\ Undo(s) \in Stmt /\ Undo(s).op = "drop" /\ Undo(s).table = s.table
        /\ Undo(s).parts = s.parts /\ Undo(s).fills
    BY <1>1, <1>3 DEF Undo, Statement, Stmt
  <2>2. S[s.table] # {} /\ s.parts \cap S[s.table] = {}
    BY <1>3 DEF Undoable, Fits
  <2>3. M[s.table] = S[s.table] \cup s.parts
    BY <1>1, <1>2, <1>3 DEF Effect
  <2>4. Fits(M, Undo(s))
    BY <2>1, <2>3 DEF Fits
  <2>5. \A t \in Tables : Executed(M, Undo(s))[t] = IF t = s.table THEN M[t] \ s.parts ELSE M[t]
    BY <2>1 DEF Executed, Effect
  <2>6. \A t \in Tables : Executed(M, Undo(s))[t] = S[t]
    BY <1>2, <2>2, <2>3, <2>5
  <2>7. Executed(M, Undo(s)) = S
    BY <1>1, <2>6 DEF Executed
  <2> QED
    BY <2>1, <2>4, <2>7 DEF M
<1>4. CASE s.op = "create_table"
  <2>1. /\ Undo(s) \in Stmt /\ Undo(s).op = "drop_table" /\ Undo(s).table = s.table
        /\ Undo(s).fills
    BY <1>1, <1>4 DEF Undo, drop_table, Statement, Stmt
  <2>2. /\ S[s.table] = {} /\ s.parts # {}
        /\ \A u \in Tables : s.table \in Refs[u] => u # s.table /\ S[u] = {}
    BY <1>4 DEF Undoable, Fits
  <2>3. M[s.table] = S[s.table] \cup s.parts
    BY <1>1, <1>2, <1>4 DEF Effect
  <2>4. Fits(M, Undo(s))
    BY <1>2, <2>1, <2>2, <2>3 DEF Fits
  <2>5. \A t \in Tables : Executed(M, Undo(s))[t] = IF t = s.table THEN {} ELSE M[t]
    BY <2>1 DEF Executed, Effect
  <2>6. \A t \in Tables : Executed(M, Undo(s))[t] = S[t]
    BY <1>2, <2>2, <2>5
  <2>7. Executed(M, Undo(s)) = S
    BY <1>1, <2>6 DEF Executed
  <2> QED
    BY <2>1, <2>4, <2>7 DEF M
<1> QED
  BY <1>3, <1>4 DEF Undoable

(* Nothing to do.                                                          *)
LEMMA RoundTripEnd ==
    ASSUME NEW S
    PROVE  RoundTrip(S, <<>>, <<>>, S)
<1>1. <<>> \in Seq(Stmt)
  OBVIOUS
<1> QED
  BY <1>1, ReachesEnd DEF RoundTrip

(* One statement more before the others, and undone after them.            *)
LEMMA RoundTripStep ==
    ASSUME NEW S, NEW s, Undoable(S, s), NEW up, NEW down, NEW T,
           up # <<>>, s = Head(up), up \in Seq(Stmt),
           RoundTrip(Executed(S, s), Tail(up), down, T)
    PROVE  RoundTrip(S, up, Append(down, Undo(s)), T)
<1>1. Undo(s) \in Stmt /\ Fits(Executed(S, s), Undo(s)) /\ Executed(Executed(S, s), Undo(s)) = S
  BY UndoWorks
<1>2. Reaches(S, up, T)
  BY ReachesStep DEF RoundTrip, Undoable
<1>3. Reaches(T, Append(down, Undo(s)), S)
  BY <1>1, ReachesAppend DEF RoundTrip
<1>4. Append(down, Undo(s)) \in Seq(Stmt)
  BY <1>1 DEF RoundTrip
<1> QED
  BY <1>2, <1>3, <1>4 DEF RoundTrip
-----------------------------------------------------------------------------
(* The chain has eight revisions.                                          *)
LEMMA ChainLinks ==
    /\ Newest = 8
    /\ Chain[1] = bb91eeb72b09 /\ Chain[2] = u03aeff243be4 /\ Chain[3] = ace04db20b32
    /\ Chain[4] = c3f9a1d72b40 /\ Chain[5] = a7b8c9d0e1f2 /\ Chain[6] = b8c9d0e1f2a3
    /\ Chain[7] = d0e1f2a3b4c5 /\ Chain[8] = e1f2a3b4c5d6
<1> HIDE DEF bb91eeb72b09, u03aeff243be4, ace04db20b32, c3f9a1d72b40, a7b8c9d0e1f2,
             b8c9d0e1f2a3, d0e1f2a3b4c5, e1f2a3b4c5d6
<1> QED
  BY DEF Newest, Chain

(* What the statements of an upgrade, or of revision n, add to table t.    *)
AddedBy(q, t) == UNION {s.parts : s \in {r \in ToSet(q) : r.table = t}}
Added(n, t) == AddedBy(Chain[n].upgrade, t)

(* Before the first revision there is nothing.                             *)
LEMMA NoSchema == \A t \in Tables : SchemaAt(0)[t] = {}
  BY DEF SchemaAt

(* Each revision adds to the schema of the one before.                     *)
LEMMA SchemaGrows ==
    ASSUME NEW n \in Nat \ {0}, NEW t \in Tables
    PROVE  SchemaAt(n)[t] = SchemaAt(n - 1)[t] \cup Added(n, t)
<1> DEFINE In(k, r) == r \in ToSet(Chain[k].upgrade) /\ r.table = t
<1>1. \A m \in Nat : \A x :
         x \in SchemaAt(m)[t] <=> \E k \in 1..m : \E r : In(k, r) /\ x \in r.parts
  BY DEF SchemaAt
<1>2. \A x : x \in Added(n, t) <=> \E r : In(n, r) /\ x \in r.parts
  BY DEF Added, AddedBy
<1> HIDE DEF In
<1>3. \A k : k \in 1..n <=> k \in 1..(n - 1) \/ k = n
  OBVIOUS
<1>4. n \in Nat /\ n - 1 \in Nat
  OBVIOUS
<1>5. \A x : x \in SchemaAt(n)[t] <=> x \in SchemaAt(n - 1)[t] \/ x \in Added(n, t)
  BY <1>1, <1>2, <1>3, <1>4
<1> QED
  BY <1>5

(* One statement after the other, again.                                   *)
LEMMA AddedParts ==
    ASSUME NEW q \in Seq(Stmt)
    PROVE  \A t, x : x \in AddedBy(q, t) <=>
              \E i \in 1..Len(q) : q[i].table = t /\ x \in q[i].parts
<1>1. DOMAIN q = 1..Len(q)
  OBVIOUS
<1>2. \A r : r \in ToSet(q) <=> \E i \in 1..Len(q) : r = q[i]
  BY <1>1 DEF ToSet
<1>3. \A t, x : x \in AddedBy(q, t) <=> \E r : r \in ToSet(q) /\ r.table = t /\ x \in r.parts
  BY DEF AddedBy
<1> QED
  BY <1>2, <1>3
-----------------------------------------------------------------------------
(* A statement of the upgrades.                                            *)
Is(s, op, t, p) == s \in Stmt /\ s.op = op /\ s.table = t /\ s.parts = p /\ s.fills

(* Parts that come after their table is made.                              *)
KeyParts      == {"idempotency_key", "ix_transactions_idempotency_key"}
SeqParts      == {"seq", "ix_ledger_entries_seq"}
LedgerIndexes == {"ix_ledger_entries_transaction_id", "ix_ledger_entries_wallet_id"}
OutboxIndexes == {"ix_outbox_events_aggregate_id", "ix_outbox_unpublished"}

(* Revision 2 makes the users.                                             *)
LEMMA Revision2 ==
    \E a, b :
       /\ Chain[2].upgrade = <<a, b>>
       /\ Chain[2].downgrade = <<Undo(b), Undo(a)>>
       /\ Is(a, "create_table", "users", User \ {"ix_users_email"})
       /\ Is(b, "add", "users", {"ix_users_email"})
<1> DEFINE Pa == {"id", "name", "email", "password_hash", "created_at"}
           Pb == {"ix_users_email"}
           a == Statement("create_table", "users", Pa, TRUE)
           b == Statement("add", "users", Pb, TRUE)
           Ua == drop_table("users")
           Ub == Statement("drop", "users", Pb, TRUE)
<1>1. Chain[2] = Revision(<<a, b>>, <<Ub, Ua>>)
  BY ChainLinks DEF u03aeff243be4, create_table, create_index, drop_index, add_column, drop_column
<1>2. /\ Pa = User \ {"ix_users_email"}
  BY DEF User
<1>3. Pa \in SUBSET Parts /\ Pb \in SUBSET Parts
  BY DEF Parts, User
<1>4. "users" \in Tables
  BY DEF Tables
<1> HIDE DEF Pa, Pb
<1>5. /\ Is(a, "create_table", "users", Pa)
      /\ Undo(a) = Ua
  BY <1>3, <1>4 DEF Is, Stmt, Undo, Statement
<1>6. /\ Is(b, "add", "users", Pb)
      /\ Undo(b) = Ub
  BY <1>3, <1>4 DEF Is, Stmt, Undo, Statement
<1> HIDE DEF a, b, Ua, Ub
<1>7. Chain[2].upgrade = <<a, b>> /\ Chain[2].downgrade = <<Undo(b), Undo(a)>>
  BY <1>1, <1>5, <1>6 DEF Revision
<1> QED
  BY <1>2, <1>5, <1>6, <1>7 DEF Pb

(* Revision 3 makes the wallets.                                           *)
LEMMA Revision3 ==
    \E a, b :
       /\ Chain[3].upgrade = <<a, b>>
       /\ Chain[3].downgrade = <<Undo(b), Undo(a)>>
       /\ Is(a, "create_table", "wallets", Wallet \ {"ix_wallets_user_id"})
       /\ Is(b, "add", "wallets", {"ix_wallets_user_id"})
<1> DEFINE Pa == {"id", "user_id", "currency", "available_balance", "locked_balance",
                  "created_at", "updated_at", "ck_wallet_available_nonneg",
                  "ck_wallet_locked_nonneg", "uq_wallet_user_currency"}
           Pb == {"ix_wallets_user_id"}
           a == Statement("create_table", "wallets", Pa, TRUE)
           b == Statement("add", "wallets", Pb, TRUE)
           Ua == drop_table("wallets")
           Ub == Statement("drop", "wallets", Pb, TRUE)
<1>1. Chain[3] = Revision(<<a, b>>, <<Ub, Ua>>)
  BY ChainLinks DEF ace04db20b32, create_table, create_index, drop_index, add_column, drop_column
<1>2. /\ Pa = Wallet \ {"ix_wallets_user_id"}
  BY DEF Wallet
<1>3. Pa \in SUBSET Parts /\ Pb \in SUBSET Parts
  BY DEF Parts, Wallet
<1>4. "wallets" \in Tables
  BY DEF Tables
<1> HIDE DEF Pa, Pb
<1>5. /\ Is(a, "create_table", "wallets", Pa)
      /\ Undo(a) = Ua
  BY <1>3, <1>4 DEF Is, Stmt, Undo, Statement
<1>6. /\ Is(b, "add", "wallets", Pb)
      /\ Undo(b) = Ub
  BY <1>3, <1>4 DEF Is, Stmt, Undo, Statement
<1> HIDE DEF a, b, Ua, Ub
<1>7. Chain[3].upgrade = <<a, b>> /\ Chain[3].downgrade = <<Undo(b), Undo(a)>>
  BY <1>1, <1>5, <1>6 DEF Revision
<1> QED
  BY <1>2, <1>5, <1>6, <1>7 DEF Pb

(* Revision 4 makes the ledger.                                            *)
LEMMA Revision4 ==
    \E a, b, c, d :
       /\ Chain[4].upgrade = <<a, b, c, d>>
       /\ Chain[4].downgrade = <<Undo(d), Undo(c), Undo(b), Undo(a)>>
       /\ Is(a, "create_table", "transactions", Transaction \ KeyParts)
       /\ Is(b, "create_table", "ledger_entries", LedgerEntry \ (SeqParts \cup LedgerIndexes))
       /\ Is(c, "add", "ledger_entries", {"ix_ledger_entries_transaction_id"})
       /\ Is(d, "add", "ledger_entries", {"ix_ledger_entries_wallet_id"})
<1> DEFINE Pa == {"id", "type", "status", "currency", "created_at"}
           Pb == {"id", "transaction_id", "entry_type", "amount", "currency", "wallet_id",
                  "system_account", "created_at", "ck_ledger_amount_positive",
                  "ck_ledger_exactly_one_side"}
           Pc == {"ix_ledger_entries_transaction_id"}
           Pd == {"ix_ledger_entries_wallet_id"}
           a == Statement("create_table", "transactions", Pa, TRUE)
           b == Statement("create_table", "ledger_entries", Pb, TRUE)
           c == Statement("add", "ledger_entries", Pc, TRUE)
           d == Statement("add", "ledger_entries", Pd, TRUE)
           Ua == drop_table("transactions")
           Ub == drop_table("ledger_entries")
           Uc == Statement("drop", "ledger_entries", Pc, TRUE)
           Ud == Statement("drop", "ledger_entries", Pd, TRUE)
<1>1. Chain[4] = Revision(<<a, b, c, d>>, <<Ud, Uc, Ub, Ua>>)
  BY ChainLinks DEF c3f9a1d72b40, create_table, create_index, drop_index, add_column, drop_column
<1>2. /\ Pa = Transaction \ KeyParts
      /\ Pb = LedgerEntry \ (SeqParts \cup LedgerIndexes)
  BY DEF Transaction, LedgerEntry, KeyParts, SeqParts, LedgerIndexes
<1>3. Pa \in SUBSET Parts /\ Pb \in SUBSET Parts /\ Pc \in SUBSET Parts /\ Pd \in SUBSET Parts
  BY DEF Parts, Transaction, LedgerEntry
<1>4. "ledger_entries" \in Tables /\ "transactions" \in Tables
  BY DEF Tables
<1> HIDE DEF Pa, Pb, Pc, Pd
<1>5. /\ Is(a, "create_table", "transactions", Pa)
      /\ Undo(a) = Ua
  BY <1>3, <1>4 DEF Is, Stmt, Undo, Statement
<1>6. /\ Is(b, "create_table", "ledger_entries", Pb)
      /\ Undo(b) = Ub
  BY <1>3, <1>4 DEF Is, Stmt, Undo, Statement
<1>7. /\ Is(c, "add", "ledger_entries", Pc)
      /\ Undo(c) = Uc
  BY <1>3, <1>4 DEF Is, Stmt, Undo, Statement
<1>8. /\ Is(d, "add", "ledger_entries", Pd)
      /\ Undo(d) = Ud
  BY <1>3, <1>4 DEF Is, Stmt, Undo, Statement
<1> HIDE DEF a, b, c, d, Ua, Ub, Uc, Ud
<1>9. Chain[4].upgrade = <<a, b, c, d>>
      /\ Chain[4].downgrade = <<Undo(d), Undo(c), Undo(b), Undo(a)>>
  BY <1>1, <1>5, <1>6, <1>7, <1>8 DEF Revision
<1> QED
  BY <1>2, <1>5, <1>6, <1>7, <1>8, <1>9 DEF Pc, Pd

(* Revision 5 makes the idempotency key.                                   *)
LEMMA Revision5 ==
    \E a, b :
       /\ Chain[5].upgrade = <<a, b>>
       /\ Chain[5].downgrade = <<Undo(b), Undo(a)>>
       /\ Is(a, "add", "transactions", {"idempotency_key"})
       /\ Is(b, "add", "transactions", {"ix_transactions_idempotency_key"})
<1> DEFINE Pa == {"idempotency_key"}
           Pb == {"ix_transactions_idempotency_key"}
           a == Statement("add", "transactions", Pa, TRUE)
           b == Statement("add", "transactions", Pb, TRUE)
           Ua == Statement("drop", "transactions", Pa, TRUE)
           Ub == Statement("drop", "transactions", Pb, TRUE)
<1>1. Chain[5] = Revision(<<a, b>>, <<Ub, Ua>>)
  BY ChainLinks DEF a7b8c9d0e1f2, create_table, create_index, drop_index, add_column, drop_column
<1>3. Pa \in SUBSET Parts /\ Pb \in SUBSET Parts
  BY DEF Parts, Transaction
<1>4. "transactions" \in Tables
  BY DEF Tables
<1> HIDE DEF Pa, Pb
<1>5. /\ Is(a, "add", "transactions", Pa)
      /\ Undo(a) = Ua
  BY <1>3, <1>4 DEF Is, Stmt, Undo, Statement
<1>6. /\ Is(b, "add", "transactions", Pb)
      /\ Undo(b) = Ub
  BY <1>3, <1>4 DEF Is, Stmt, Undo, Statement
<1> HIDE DEF a, b, Ua, Ub
<1>7. Chain[5].upgrade = <<a, b>> /\ Chain[5].downgrade = <<Undo(b), Undo(a)>>
  BY <1>1, <1>5, <1>6 DEF Revision
<1> QED
  BY <1>5, <1>6, <1>7 DEF Pa, Pb

(* Revision 6 makes the outbox.                                            *)
LEMMA Revision6 ==
    \E a, b, c :
       /\ Chain[6].upgrade = <<a, b, c>>
       /\ Chain[6].downgrade = <<Undo(c), Undo(b), Undo(a)>>
       /\ Is(a, "create_table", "outbox_events", OutboxEvent \ OutboxIndexes)
       /\ Is(b, "add", "outbox_events", {"ix_outbox_events_aggregate_id"})
       /\ Is(c, "add", "outbox_events", {"ix_outbox_unpublished"})
<1> DEFINE Pa == {"id", "aggregate_type", "aggregate_id", "event_type", "payload",
                  "created_at", "published_at"}
           Pb == {"ix_outbox_events_aggregate_id"}
           Pc == {"ix_outbox_unpublished"}
           a == Statement("create_table", "outbox_events", Pa, TRUE)
           b == Statement("add", "outbox_events", Pb, TRUE)
           c == Statement("add", "outbox_events", Pc, TRUE)
           Ua == drop_table("outbox_events")
           Ub == Statement("drop", "outbox_events", Pb, TRUE)
           Uc == Statement("drop", "outbox_events", Pc, TRUE)
<1>1. Chain[6] = Revision(<<a, b, c>>, <<Uc, Ub, Ua>>)
  BY ChainLinks DEF b8c9d0e1f2a3, create_table, create_index, drop_index, add_column, drop_column
<1>2. /\ Pa = OutboxEvent \ OutboxIndexes
  BY DEF OutboxEvent, OutboxIndexes
<1>3. Pa \in SUBSET Parts /\ Pb \in SUBSET Parts /\ Pc \in SUBSET Parts
  BY DEF Parts, OutboxEvent
<1>4. "outbox_events" \in Tables
  BY DEF Tables
<1> HIDE DEF Pa, Pb, Pc
<1>5. /\ Is(a, "create_table", "outbox_events", Pa)
      /\ Undo(a) = Ua
  BY <1>3, <1>4 DEF Is, Stmt, Undo, Statement
<1>6. /\ Is(b, "add", "outbox_events", Pb)
      /\ Undo(b) = Ub
  BY <1>3, <1>4 DEF Is, Stmt, Undo, Statement
<1>7. /\ Is(c, "add", "outbox_events", Pc)
      /\ Undo(c) = Uc
  BY <1>3, <1>4 DEF Is, Stmt, Undo, Statement
<1> HIDE DEF a, b, c, Ua, Ub, Uc
<1>8. Chain[6].upgrade = <<a, b, c>> /\ Chain[6].downgrade = <<Undo(c), Undo(b), Undo(a)>>
  BY <1>1, <1>5, <1>6, <1>7 DEF Revision
<1> QED
  BY <1>2, <1>5, <1>6, <1>7, <1>8 DEF Pb, Pc

(* Revision 7 makes the tables of the analytics consumer.                  *)
LEMMA Revision7 ==
    \E a, b :
       /\ Chain[7].upgrade = <<a, b>>
       /\ Chain[7].downgrade = <<Undo(b), Undo(a)>>
       /\ Is(a, "create_table", "transaction_stats", TransactionStat)
       /\ Is(b, "create_table", "processed_events", ProcessedEvent)
<1> DEFINE Pa == {"currency", "type", "count", "total_amount", "updated_at"}
           Pb == {"consumer", "transaction_id", "processed_at"}
           a == Statement("create_table", "transaction_stats", Pa, TRUE)
           b == Statement("create_table", "processed_events", Pb, TRUE)
           Ua == drop_table("transaction_stats")
           Ub == drop_table("processed_events")
<1>1. Chain[7] = Revision(<<a, b>>, <<Ub, Ua>>)
  BY ChainLinks DEF d0e1f2a3b4c5, create_table, create_index, drop_index, add_column, drop_column
<1>2. /\ Pa = TransactionStat
      /\ Pb = ProcessedEvent
  BY DEF TransactionStat, ProcessedEvent
<1>3. Pa \in SUBSET Parts /\ Pb \in SUBSET Parts
  BY DEF Parts, TransactionStat, ProcessedEvent
<1>4. "processed_events" \in Tables /\ "transaction_stats" \in Tables
  BY DEF Tables
<1> HIDE DEF Pa, Pb
<1>5. /\ Is(a, "create_table", "transaction_stats", Pa)
      /\ Undo(a) = Ua
  BY <1>3, <1>4 DEF Is, Stmt, Undo, Statement
<1>6. /\ Is(b, "create_table", "processed_events", Pb)
      /\ Undo(b) = Ub
  BY <1>3, <1>4 DEF Is, Stmt, Undo, Statement
<1> HIDE DEF a, b, Ua, Ub
<1>7. Chain[7].upgrade = <<a, b>> /\ Chain[7].downgrade = <<Undo(b), Undo(a)>>
  BY <1>1, <1>5, <1>6 DEF Revision
<1> QED
  BY <1>2, <1>5, <1>6, <1>7

(* Revision 8 makes seq.                                                   *)
LEMMA Revision8 ==
    \E a, b :
       /\ Chain[8].upgrade = <<a, b>>
       /\ Chain[8].downgrade = <<Undo(b), Undo(a)>>
       /\ Is(a, "add", "ledger_entries", {"seq"})
       /\ Is(b, "add", "ledger_entries", {"ix_ledger_entries_seq"})
<1> DEFINE Pa == {"seq"}
           Pb == {"ix_ledger_entries_seq"}
           a == Statement("add", "ledger_entries", Pa, TRUE)
           b == Statement("add", "ledger_entries", Pb, TRUE)
           Ua == Statement("drop", "ledger_entries", Pa, TRUE)
           Ub == Statement("drop", "ledger_entries", Pb, TRUE)
<1>1. Chain[8] = Revision(<<a, b>>, <<Ub, Ua>>)
  BY ChainLinks DEF e1f2a3b4c5d6, create_table, create_index, drop_index, add_column, drop_column
<1>3. Pa \in SUBSET Parts /\ Pb \in SUBSET Parts
  BY DEF Parts, LedgerEntry
<1>4. "ledger_entries" \in Tables
  BY DEF Tables
<1> HIDE DEF Pa, Pb
<1>5. /\ Is(a, "add", "ledger_entries", Pa)
      /\ Undo(a) = Ua
  BY <1>3, <1>4 DEF Is, Stmt, Undo, Statement
<1>6. /\ Is(b, "add", "ledger_entries", Pb)
      /\ Undo(b) = Ub
  BY <1>3, <1>4 DEF Is, Stmt, Undo, Statement
<1> HIDE DEF a, b, Ua, Ub
<1>7. Chain[8].upgrade = <<a, b>> /\ Chain[8].downgrade = <<Undo(b), Undo(a)>>
  BY <1>1, <1>5, <1>6 DEF Revision
<1> QED
  BY <1>5, <1>6, <1>7 DEF Pa, Pb

-----------------------------------------------------------------------------
(* The schema at each revision, table by table.                            *)
Contents(n) == [t \in Tables |->
    CASE t = "users"             -> IF n >= 2 THEN User ELSE {}
      [] t = "wallets"           -> IF n >= 3 THEN Wallet ELSE {}
      [] t = "transactions"      -> IF n >= 5 THEN Transaction
                                    ELSE IF n = 4 THEN Transaction \ KeyParts ELSE {}
      [] t = "ledger_entries"    -> IF n >= 8 THEN LedgerEntry
                                    ELSE IF n >= 4 THEN LedgerEntry \ SeqParts ELSE {}
      [] t = "outbox_events"     -> IF n >= 6 THEN OutboxEvent ELSE {}
      [] t = "transaction_stats" -> IF n >= 7 THEN TransactionStat ELSE {}
      [] t = "processed_events"  -> IF n >= 7 THEN ProcessedEvent ELSE {}]

(* Every table has columns when it is made, and what comes later is new.   *)
LEMMA PartsFacts ==
    /\ User \ {"ix_users_email"} # {} /\ "ix_users_email" \in User
    /\ Wallet \ {"ix_wallets_user_id"} # {} /\ "ix_wallets_user_id" \in Wallet
    /\ Transaction \ KeyParts # {} /\ KeyParts \subseteq Transaction
    /\ LedgerEntry \ (SeqParts \cup LedgerIndexes) # {}
    /\ SeqParts \subseteq LedgerEntry /\ LedgerIndexes \subseteq LedgerEntry \ SeqParts
    /\ OutboxEvent \ OutboxIndexes # {} /\ OutboxIndexes \subseteq OutboxEvent
    /\ TransactionStat # {} /\ ProcessedEvent # {}
<1>1. /\ "id" \in User \ {"ix_users_email"} /\ "ix_users_email" \in User
      /\ "id" \in Wallet \ {"ix_wallets_user_id"} /\ "ix_wallets_user_id" \in Wallet
  BY DEF User, Wallet
<1>2. "id" \in Transaction \ KeyParts /\ KeyParts \subseteq Transaction
  BY DEF Transaction, KeyParts
<1>3. /\ "id" \in LedgerEntry \ (SeqParts \cup LedgerIndexes)
      /\ SeqParts \subseteq LedgerEntry /\ LedgerIndexes \subseteq LedgerEntry \ SeqParts
  BY DEF LedgerEntry, SeqParts, LedgerIndexes
<1>4. /\ "id" \in OutboxEvent \ OutboxIndexes /\ OutboxIndexes \subseteq OutboxEvent
      /\ "currency" \in TransactionStat /\ "consumer" \in ProcessedEvent
  BY DEF OutboxEvent, OutboxIndexes, TransactionStat, ProcessedEvent
<1> QED
  BY <1>1, <1>2, <1>3, <1>4

(* The parts that the statements of a list add.                            *)
LEMMA AddedByTwo ==
    ASSUME NEW a \in Stmt, NEW b \in Stmt
    PROVE  \A t, x : x \in AddedBy(<<a, b>>, t) <=>
              (a.table = t /\ x \in a.parts) \/ (b.table = t /\ x \in b.parts)
<1> DEFINE q == <<a, b>>
<1> HIDE DEF Stmt
<1>1. q \in Seq(Stmt) /\ Len(q) = 2 /\ q[1] = a /\ q[2] = b
  OBVIOUS
<1>2. \A i : i \in 1..2 <=> i \in {1, 2}
  OBVIOUS
<1>3. \A t, x : x \in AddedBy(q, t) <=> \E i \in 1..Len(q) : q[i].table = t /\ x \in q[i].parts
  BY <1>1, AddedParts
<1> HIDE DEF q
<1>4. \A t, x : x \in AddedBy(q, t) <=>
         \/ (a.table = t /\ x \in a.parts)
         \/ (b.table = t /\ x \in b.parts)
  BY <1>1, <1>2, <1>3
<1> QED
  BY <1>4 DEF q

(* Three of them.                                                          *)
LEMMA AddedByThree ==
    ASSUME NEW a \in Stmt, NEW b \in Stmt, NEW c \in Stmt
    PROVE  \A t, x : x \in AddedBy(<<a, b, c>>, t) <=>
              \/ a.table = t /\ x \in a.parts
              \/ b.table = t /\ x \in b.parts
              \/ c.table = t /\ x \in c.parts
<1> DEFINE q == <<a, b, c>>
<1> HIDE DEF Stmt
<1>1. q \in Seq(Stmt) /\ Len(q) = 3 /\ q[1] = a /\ q[2] = b /\ q[3] = c
  OBVIOUS
<1>2. \A i : i \in 1..3 <=> i \in {1, 2, 3}
  OBVIOUS
<1>3. \A t, x : x \in AddedBy(q, t) <=> \E i \in 1..Len(q) : q[i].table = t /\ x \in q[i].parts
  BY <1>1, AddedParts
<1> HIDE DEF q
<1>4. \A t, x : x \in AddedBy(q, t) <=>
         \/ (a.table = t /\ x \in a.parts)
         \/ (b.table = t /\ x \in b.parts)
         \/ (c.table = t /\ x \in c.parts)
  BY <1>1, <1>2, <1>3
<1> QED
  BY <1>4 DEF q

(* Four of them.                                                           *)
LEMMA AddedByFour ==
    ASSUME NEW a \in Stmt, NEW b \in Stmt, NEW c \in Stmt, NEW d \in Stmt
    PROVE  \A t, x : x \in AddedBy(<<a, b, c, d>>, t) <=>
              \/ a.table = t /\ x \in a.parts
              \/ b.table = t /\ x \in b.parts
              \/ c.table = t /\ x \in c.parts
              \/ d.table = t /\ x \in d.parts
<1> DEFINE q == <<a, b, c, d>>
<1> HIDE DEF Stmt
<1>1. q \in Seq(Stmt) /\ Len(q) = 4 /\ q[1] = a /\ q[2] = b /\ q[3] = c /\ q[4] = d
  OBVIOUS
<1>2. \A i : i \in 1..4 <=> i \in {1, 2, 3, 4}
  OBVIOUS
<1>3. \A t, x : x \in AddedBy(q, t) <=> \E i \in 1..Len(q) : q[i].table = t /\ x \in q[i].parts
  BY <1>1, AddedParts
<1> HIDE DEF q
<1>4. \A t, x : x \in AddedBy(q, t) <=>
         \/ (a.table = t /\ x \in a.parts)
         \/ (b.table = t /\ x \in b.parts)
         \/ (c.table = t /\ x \in c.parts)
         \/ (d.table = t /\ x \in d.parts)
  BY <1>1, <1>2, <1>3
<1> QED
  BY <1>4 DEF q

(* The list above, line by line.                                           *)
LEMMA ContentsLines ==
    ASSUME NEW n
    PROVE  /\ Contents(n) = [t \in Tables |-> Contents(n)[t]]
           /\ Contents(n)["users"] = IF n >= 2 THEN User ELSE {}
           /\ Contents(n)["wallets"] = IF n >= 3 THEN Wallet ELSE {}
           /\ Contents(n)["transactions"] = IF n >= 5 THEN Transaction
                                            ELSE IF n = 4 THEN Transaction \ KeyParts ELSE {}
           /\ Contents(n)["ledger_entries"] = IF n >= 8 THEN LedgerEntry
                                              ELSE IF n >= 4 THEN LedgerEntry \ SeqParts ELSE {}
           /\ Contents(n)["outbox_events"] = IF n >= 6 THEN OutboxEvent ELSE {}
           /\ Contents(n)["transaction_stats"] = IF n >= 7 THEN TransactionStat ELSE {}
           /\ Contents(n)["processed_events"] = IF n >= 7 THEN ProcessedEvent ELSE {}
  BY DEF Contents, Tables

(* A step from one line to the next.                                       *)
LEMMA NextContents ==
    ASSUME NEW n \in 1..8, \A t \in Tables : SchemaAt(n - 1)[t] = Contents(n - 1)[t],
           \A t \in Tables : Contents(n)[t] = Contents(n - 1)[t] \cup Added(n, t)
    PROVE  \A t \in Tables : SchemaAt(n)[t] = Contents(n)[t]
<1>1. n \in Nat \ {0}
  OBVIOUS
<1> QED
  BY <1>1, SchemaGrows

(* The schema that the upgrades make is the one listed above.              *)
LEMMA SchemaIs == \A n \in 0..8 : SchemaAt(n) = Contents(n)
<1> DEFINE Agree(n) == \A t \in Tables : SchemaAt(n)[t] = Contents(n)[t]
           Grows(n) == \A t \in Tables : Contents(n)[t] = Contents(n - 1)[t] \cup Added(n, t)
<1>0. Agree(0)
  <2>1. \A t \in Tables : Contents(0)[t] = {}
    BY ContentsLines DEF Tables
  <2> QED
    BY <2>1, NoSchema
<1>1. Grows(1)
  <2>1. \A t : Added(1, t) = {}
    <3>1. Chain[1].upgrade = <<>>
      BY ChainLinks DEF bb91eeb72b09, Revision
    <3>2. Chain[1].upgrade \in Seq(Stmt) /\ Len(Chain[1].upgrade) = 0
      BY <3>1
    <3> QED
      BY <3>2, AddedParts DEF Added
  <2> QED
    BY <2>1, ContentsLines DEF Tables
<1>2. Grows(2)
  <2>1. PICK a, b :
          /\ Chain[2].upgrade = <<a, b>>
          /\ Is(a, "create_table", "users", User \ {"ix_users_email"})
          /\ Is(b, "add", "users", {"ix_users_email"})
    BY Revision2
  <2>2. \A t, x : x \in Added(2, t) <=>
          \/ (a.table = t /\ x \in a.parts) \/ (b.table = t /\ x \in b.parts)
    BY <2>1, AddedByTwo DEF Is, Added
  <2>3. \A t, x : x \in Added(2, t) <=> t = "users" /\ x \in User
    BY <2>1, <2>2, PartsFacts DEF Is
  <2> QED
    BY <2>3, ContentsLines DEF Tables
<1>3. Grows(3)
  <2>1. PICK a, b :
          /\ Chain[3].upgrade = <<a, b>>
          /\ Is(a, "create_table", "wallets", Wallet \ {"ix_wallets_user_id"})
          /\ Is(b, "add", "wallets", {"ix_wallets_user_id"})
    BY Revision3
  <2>2. \A t, x : x \in Added(3, t) <=>
          \/ (a.table = t /\ x \in a.parts) \/ (b.table = t /\ x \in b.parts)
    BY <2>1, AddedByTwo DEF Is, Added
  <2>3. \A t, x : x \in Added(3, t) <=> t = "wallets" /\ x \in Wallet
    BY <2>1, <2>2, PartsFacts DEF Is
  <2> QED
    BY <2>3, ContentsLines DEF Tables
<1>4. Grows(4)
  <2>1. PICK a, b, c, d :
          /\ Chain[4].upgrade = <<a, b, c, d>>
          /\ Is(a, "create_table", "transactions", Transaction \ KeyParts)
          /\ Is(b, "create_table", "ledger_entries", LedgerEntry \ (SeqParts \cup LedgerIndexes))
          /\ Is(c, "add", "ledger_entries", {"ix_ledger_entries_transaction_id"})
          /\ Is(d, "add", "ledger_entries", {"ix_ledger_entries_wallet_id"})
    BY Revision4
  <2>2. \A t, x : x \in Added(4, t) <=>
          \/ (a.table = t /\ x \in a.parts) \/ (b.table = t /\ x \in b.parts)
                  \/ (c.table = t /\ x \in c.parts)
                  \/ (d.table = t /\ x \in d.parts)
    BY <2>1, AddedByFour DEF Is, Added
  <2>3. \A t, x : x \in Added(4, t) <=> \/ t = "transactions" /\ x \in Transaction \ KeyParts
                                        \/ t = "ledger_entries" /\ x \in LedgerEntry \ SeqParts
    BY <2>1, <2>2, PartsFacts DEF Is, LedgerIndexes
  <2> QED
    BY <2>3, ContentsLines DEF Tables
<1>5. Grows(5)
  <2>1. PICK a, b :
          /\ Chain[5].upgrade = <<a, b>>
          /\ Is(a, "add", "transactions", {"idempotency_key"})
          /\ Is(b, "add", "transactions", {"ix_transactions_idempotency_key"})
    BY Revision5
  <2>2. \A t, x : x \in Added(5, t) <=>
          \/ (a.table = t /\ x \in a.parts) \/ (b.table = t /\ x \in b.parts)
    BY <2>1, AddedByTwo DEF Is, Added
  <2>3. \A t, x : x \in Added(5, t) <=> t = "transactions" /\ x \in KeyParts
    BY <2>1, <2>2 DEF Is, KeyParts
  <2> QED
    BY <2>3, ContentsLines, PartsFacts DEF Tables
<1>6. Grows(6)
  <2>1. PICK a, b, c :
          /\ Chain[6].upgrade = <<a, b, c>>
          /\ Is(a, "create_table", "outbox_events", OutboxEvent \ OutboxIndexes)
          /\ Is(b, "add", "outbox_events", {"ix_outbox_events_aggregate_id"})
          /\ Is(c, "add", "outbox_events", {"ix_outbox_unpublished"})
    BY Revision6
  <2>2. \A t, x : x \in Added(6, t) <=>
          \/ (a.table = t /\ x \in a.parts) \/ (b.table = t /\ x \in b.parts)
                  \/ (c.table = t /\ x \in c.parts)
    BY <2>1, AddedByThree DEF Is, Added
  <2>3. \A t, x : x \in Added(6, t) <=> t = "outbox_events" /\ x \in OutboxEvent
    BY <2>1, <2>2, PartsFacts DEF Is, OutboxIndexes
  <2> QED
    BY <2>3, ContentsLines DEF Tables
<1>7. Grows(7)
  <2>1. PICK a, b :
          /\ Chain[7].upgrade = <<a, b>>
          /\ Is(a, "create_table", "transaction_stats", TransactionStat)
          /\ Is(b, "create_table", "processed_events", ProcessedEvent)
    BY Revision7
  <2>2. \A t, x : x \in Added(7, t) <=>
          \/ (a.table = t /\ x \in a.parts) \/ (b.table = t /\ x \in b.parts)
    BY <2>1, AddedByTwo DEF Is, Added
  <2>3. \A t, x : x \in Added(7, t) <=> \/ t = "transaction_stats" /\ x \in TransactionStat
                                        \/ t = "processed_events" /\ x \in ProcessedEvent
    BY <2>1, <2>2 DEF Is
  <2> QED
    BY <2>3, ContentsLines DEF Tables
<1>8. Grows(8)
  <2>1. PICK a, b :
          /\ Chain[8].upgrade = <<a, b>>
          /\ Is(a, "add", "ledger_entries", {"seq"})
          /\ Is(b, "add", "ledger_entries", {"ix_ledger_entries_seq"})
    BY Revision8
  <2>2. \A t, x : x \in Added(8, t) <=>
          \/ (a.table = t /\ x \in a.parts) \/ (b.table = t /\ x \in b.parts)
    BY <2>1, AddedByTwo DEF Is, Added
  <2>3. \A t, x : x \in Added(8, t) <=> t = "ledger_entries" /\ x \in SeqParts
    BY <2>1, <2>2 DEF Is, SeqParts
  <2> QED
    BY <2>3, ContentsLines, PartsFacts DEF Tables
<1> HIDE DEF Grows
<1>9. \A n \in 1..8 : Grows(n) /\ Agree(n - 1) => Agree(n)
  BY NextContents DEF Grows
<1> HIDE DEF Agree
<1>10. Agree(1)
  BY <1>0, <1>1, <1>9
<1>11. Agree(2)
  BY <1>10, <1>2, <1>9
<1>12. Agree(3)
  BY <1>11, <1>3, <1>9
<1>13. Agree(4)
  BY <1>12, <1>4, <1>9
<1>14. Agree(5)
  BY <1>13, <1>5, <1>9
<1>15. Agree(6)
  BY <1>14, <1>6, <1>9
<1>16. Agree(7)
  BY <1>15, <1>7, <1>9
<1>17. Agree(8)
  BY <1>16, <1>8, <1>9
<1>18. \A n \in 0..8 : Agree(n)
  <2>1. \A n \in 0..8 : n \in {0, 1, 2, 3, 4, 5, 6, 7, 8}
    OBVIOUS
  <2> QED
    BY <1>0, <1>10, <1>11, <1>12, <1>13, <1>14, <1>15, <1>16, <1>17, <2>1
<1>19. \A n : SchemaAt(n) = [t \in Tables |-> SchemaAt(n)[t]]
  BY DEF SchemaAt
<1> QED
  BY <1>18, <1>19, ContentsLines DEF Agree

(* M is the schema S with q for the parts of table t.                      *)
Alters(S, t, q, M) == /\ M = [u \in Tables |-> M[u]] /\ M[t] = q
                      /\ \A u \in Tables : u # t => M[u] = S[u]

(* Making a table.                                                         *)
LEMMA CanCreate ==
    ASSUME NEW S, S = [u \in Tables |-> S[u]], NEW t \in Tables, NEW p, p # {}, NEW s,
           Is(s, "create_table", t, p), S[t] = {}, \A u \in Refs[t] : S[u] # {},
           \A u \in Tables : t \in Refs[u] => u # t /\ S[u] = {}
    PROVE  Undoable(S, s) /\ \E M : Executed(S, s) = M /\ Alters(S, t, p, M)
<1>1. s \in Stmt /\ s.op = "create_table" /\ s.table = t /\ s.parts = p /\ s.fills
  BY DEF Is
<1>2. Fits(S, s)
  BY <1>1 DEF Fits
<1>3. Undoable(S, s)
  BY <1>1, <1>2 DEF Undoable
<1>4. Effect(S[t], s) = p
  BY <1>1 DEF Effect
<1>5. Alters(S, t, p, Executed(S, s))
  BY <1>1, <1>4 DEF Executed, Alters
<1> QED
  BY <1>3, <1>5

(* Adding to a table.                                                      *)
LEMMA CanAdd ==
    ASSUME NEW S, S = [u \in Tables |-> S[u]], NEW t \in Tables, NEW p, NEW s,
           Is(s, "add", t, p), S[t] # {}, p \cap S[t] = {}
    PROVE  Undoable(S, s) /\ \E M : Executed(S, s) = M /\ Alters(S, t, S[t] \cup p, M)
<1>1. s \in Stmt /\ s.op = "add" /\ s.table = t /\ s.parts = p /\ s.fills
  BY DEF Is
<1>2. Fits(S, s)
  BY <1>1 DEF Fits
<1>3. Undoable(S, s)
  BY <1>1, <1>2 DEF Undoable
<1>4. Effect(S[t], s) = S[t] \cup p
  BY <1>1 DEF Effect
<1>5. Alters(S, t, S[t] \cup p, Executed(S, s))
  BY <1>1, <1>4 DEF Executed, Alters
<1> QED
  BY <1>3, <1>5

(* A list of one.                                                          *)
LEMMA ListOfOne ==
    ASSUME NEW A, NEW a \in A
    PROVE  /\ <<a>> \in Seq(A) /\ <<a>> # <<>>
           /\ Head(<<a>>) = a /\ Tail(<<a>>) = <<>>
           /\ Append(<<>>, a) = <<a>>
<1>1. <<a>> \in Seq(A) /\ <<a>> # <<>> /\ Head(<<a>>) = a /\ Tail(<<a>>) = <<>>
  OBVIOUS
<1> DEFINE l == Append(<<>>, a)  r == <<a>>
<1>2. l \in Seq(A) /\ Len(l) = 1 /\ l[1] = a
  OBVIOUS
<1>3. r \in Seq(A) /\ Len(r) = 1 /\ r[1] = a
  OBVIOUS
<1> HIDE DEF l, r
<1>4. \A i \in 1..1 : i \in {1}
  OBVIOUS
<1>5. \A i \in 1..1 : l[i] = r[i]
  BY <1>2, <1>3, <1>4
<1>6. l = r
  BY <1>2, <1>3, <1>5, SeqEqual
<1> QED
  BY <1>1, <1>6 DEF l, r

(* A list of two.                                                          *)
LEMMA ListOfTwo ==
    ASSUME NEW A, NEW a \in A, NEW b \in A
    PROVE  /\ <<a, b>> \in Seq(A) /\ <<a, b>> # <<>>
           /\ Head(<<a, b>>) = a /\ Tail(<<a, b>>) = <<b>>
           /\ Append(<<a>>, b) = <<a, b>>
<1>1. <<a, b>> \in Seq(A) /\ <<a, b>> # <<>> /\ Head(<<a, b>>) = a /\ Tail(<<a, b>>) = <<b>>
  OBVIOUS
<1> DEFINE l == Append(<<a>>, b)  r == <<a, b>>
<1>2. l \in Seq(A) /\ Len(l) = 2 /\ l[1] = a /\ l[2] = b
  OBVIOUS
<1>3. r \in Seq(A) /\ Len(r) = 2 /\ r[1] = a /\ r[2] = b
  OBVIOUS
<1> HIDE DEF l, r
<1>4. \A i \in 1..2 : i \in {1, 2}
  OBVIOUS
<1>5. \A i \in 1..2 : l[i] = r[i]
  BY <1>2, <1>3, <1>4
<1>6. l = r
  BY <1>2, <1>3, <1>5, SeqEqual
<1> QED
  BY <1>1, <1>6 DEF l, r

(* A list of three.                                                        *)
LEMMA ListOfThree ==
    ASSUME NEW A, NEW a \in A, NEW b \in A, NEW c \in A
    PROVE  /\ <<a, b, c>> \in Seq(A) /\ <<a, b, c>> # <<>>
           /\ Head(<<a, b, c>>) = a /\ Tail(<<a, b, c>>) = <<b, c>>
           /\ Append(<<a, b>>, c) = <<a, b, c>>
<1>1. <<a, b, c>> \in Seq(A) /\ <<a, b, c>> # <<>> /\ Head(<<a, b, c>>) = a
      /\ Tail(<<a, b, c>>) = <<b, c>>
  OBVIOUS
<1> DEFINE l == Append(<<a, b>>, c)  r == <<a, b, c>>
<1>2. l \in Seq(A) /\ Len(l) = 3 /\ l[1] = a /\ l[2] = b /\ l[3] = c
  OBVIOUS
<1>3. r \in Seq(A) /\ Len(r) = 3 /\ r[1] = a /\ r[2] = b /\ r[3] = c
  OBVIOUS
<1> HIDE DEF l, r
<1>4. \A i \in 1..3 : i \in {1, 2, 3}
  OBVIOUS
<1>5. \A i \in 1..3 : l[i] = r[i]
  BY <1>2, <1>3, <1>4
<1>6. l = r
  BY <1>2, <1>3, <1>5, SeqEqual
<1> QED
  BY <1>1, <1>6 DEF l, r

(* The last of four is appended.                                           *)
LEMMA AppendFourth ==
    ASSUME NEW A, NEW a \in A, NEW b \in A, NEW c \in A, NEW d \in A
    PROVE  Append(<<a, b, c>>, d) = <<a, b, c, d>>
<1> DEFINE l == Append(<<a, b, c>>, d)  r == <<a, b, c, d>>
<1>2. l \in Seq(A) /\ Len(l) = 4 /\ l[1] = a /\ l[2] = b /\ l[3] = c /\ l[4] = d
  OBVIOUS
<1>3. r \in Seq(A) /\ Len(r) = 4 /\ r[1] = a /\ r[2] = b /\ r[3] = c /\ r[4] = d
  OBVIOUS
<1> HIDE DEF l, r
<1>4. \A i \in 1..4 : i \in {1, 2, 3, 4}
  OBVIOUS
<1>5. \A i \in 1..4 : l[i] = r[i]
  BY <1>2, <1>3, <1>4
<1>6. l = r
  BY <1>2, <1>3, <1>5, SeqEqual
<1> QED
  BY <1>6 DEF l, r

(* A list of four.                                                         *)
LEMMA ListOfFour ==
    ASSUME NEW A, NEW a \in A, NEW b \in A, NEW c \in A, NEW d \in A
    PROVE  /\ <<a, b, c, d>> \in Seq(A) /\ <<a, b, c, d>> # <<>>
           /\ Head(<<a, b, c, d>>) = a /\ Tail(<<a, b, c, d>>) = <<b, c, d>>
  OBVIOUS

(* Two statements, there and back.                                         *)
LEMMA TripOfTwo ==
    ASSUME NEW S, NEW a, NEW b, NEW M, NEW T, Undoable(S, a), Executed(S, a) = M,
           Undoable(M, b), Executed(M, b) = T
    PROVE  RoundTrip(S, <<a, b>>, <<Undo(b), Undo(a)>>, T)
<1>1. a \in Stmt /\ b \in Stmt /\ Undo(a) \in Stmt /\ Undo(b) \in Stmt
  BY UndoWorks DEF Undoable
<1> HIDE DEF Stmt
<1>2. /\ <<b>> \in Seq(Stmt) /\ <<b>> # <<>> /\ Head(<<b>>) = b /\ Tail(<<b>>) = <<>>
      /\ <<a, b>> \in Seq(Stmt) /\ <<a, b>> # <<>> /\ Head(<<a, b>>) = a /\ Tail(<<a, b>>) = <<b>>
      /\ Append(<<>>, Undo(b)) = <<Undo(b)>>
      /\ Append(<<Undo(b)>>, Undo(a)) = <<Undo(b), Undo(a)>>
  BY <1>1, ListOfOne, ListOfTwo
<1>3. RoundTrip(T, <<>>, <<>>, T)
  BY RoundTripEnd
<1>4. RoundTrip(M, <<b>>, <<Undo(b)>>, T)
  BY <1>2, <1>3, RoundTripStep
<1> QED
  BY <1>2, <1>4, RoundTripStep

(* One more before them.                                                   *)
LEMMA TripOfThree ==
    ASSUME NEW S, NEW a, NEW b, NEW c, NEW M, NEW T, Undoable(S, a), Executed(S, a) = M,
           RoundTrip(M, <<b, c>>, <<Undo(c), Undo(b)>>, T)
    PROVE  RoundTrip(S, <<a, b, c>>, <<Undo(c), Undo(b), Undo(a)>>, T)
<1>1. a \in Stmt /\ Undo(a) \in Stmt /\ b \in Stmt /\ c \in Stmt
      /\ Undo(c) \in Stmt /\ Undo(b) \in Stmt
  <2>1. a \in Stmt /\ Undo(a) \in Stmt
    BY UndoWorks DEF Undoable
  <2>2. <<b, c>> \in Seq(Stmt) /\ <<Undo(c), Undo(b)>> \in Seq(Stmt)
    BY DEF RoundTrip
  <2> HIDE DEF Stmt
  <2> QED
    BY <2>1, <2>2
<1> HIDE DEF Stmt
<1>2. <<a, b, c>> \in Seq(Stmt) /\ <<a, b, c>> # <<>> /\ Head(<<a, b, c>>) = a
      /\ Tail(<<a, b, c>>) = <<b, c>>
  BY <1>1, ListOfThree
<1>3. Append(<<Undo(c), Undo(b)>>, Undo(a)) = <<Undo(c), Undo(b), Undo(a)>>
  <2>1. \A x, y, z \in Stmt : Append(<<x, y>>, z) = <<x, y, z>>
    BY ListOfThree
  <2> QED
    BY <1>1, <2>1, Zenon
<1> QED
  BY <1>2, <1>3, RoundTripStep

(* And one more.                                                           *)
LEMMA TripOfFour ==
    ASSUME NEW S, NEW a, NEW b, NEW c, NEW d, NEW M, NEW T, Undoable(S, a), Executed(S, a) = M,
           RoundTrip(M, <<b, c, d>>, <<Undo(d), Undo(c), Undo(b)>>, T)
    PROVE  RoundTrip(S, <<a, b, c, d>>, <<Undo(d), Undo(c), Undo(b), Undo(a)>>, T)
<1>1. a \in Stmt /\ Undo(a) \in Stmt /\ b \in Stmt /\ c \in Stmt /\ d \in Stmt
      /\ Undo(d) \in Stmt /\ Undo(c) \in Stmt /\ Undo(b) \in Stmt
  <2>1. a \in Stmt /\ Undo(a) \in Stmt
    BY UndoWorks DEF Undoable
  <2>2. <<b, c, d>> \in Seq(Stmt) /\ <<Undo(d), Undo(c), Undo(b)>> \in Seq(Stmt)
    BY DEF RoundTrip
  <2> HIDE DEF Stmt
  <2> QED
    BY <2>1, <2>2
<1> HIDE DEF Stmt
<1>2. <<a, b, c, d>> \in Seq(Stmt) /\ <<a, b, c, d>> # <<>> /\ Head(<<a, b, c, d>>) = a
      /\ Tail(<<a, b, c, d>>) = <<b, c, d>>
  BY <1>1, ListOfFour
<1>3. Append(<<Undo(d), Undo(c), Undo(b)>>, Undo(a)) = <<Undo(d), Undo(c), Undo(b), Undo(a)>>
  <2> DEFINE x == Undo(d)  y == Undo(c)  z == Undo(b)  u == Undo(a)
  <2>1. x \in Stmt /\ y \in Stmt /\ z \in Stmt /\ u \in Stmt
    BY <1>1
  <2> HIDE DEF x, y, z, u
  <2>2. Append(<<x, y, z>>, u) = <<x, y, z, u>>
    BY <2>1, AppendFourth, Zenon
  <2> QED
    BY <2>2 DEF x, y, z, u
<1> QED
  BY <1>2, <1>3, RoundTripStep

(* A schema is the function of its tables.                                 *)
LEMMA SameSchema ==
    ASSUME NEW S, NEW T, S = [u \in Tables |-> S[u]], T = [u \in Tables |-> T[u]],
           \A u \in Tables : S[u] = T[u]
    PROVE  S = T
  OBVIOUS

(* The foreign keys, line by line.                                         *)
LEMMA RefsLines ==
    /\ Refs["wallets"] = {"users"} /\ Refs["ledger_entries"] = {"transactions", "wallets"}
    /\ \A t \in Tables : t \notin {"wallets", "ledger_entries"} => Refs[t] = {}
  BY DEF Refs, Tables

(* The first revision changes nothing.                                     *)
LEMMA Trip1 == RoundTrip(SchemaAt(0), Chain[1].upgrade, Chain[1].downgrade, SchemaAt(1))
<1>1. Chain[1].upgrade = <<>> /\ Chain[1].downgrade = <<>>
  BY ChainLinks DEF bb91eeb72b09, Revision
<1>2. SchemaAt(0) = Contents(0) /\ SchemaAt(1) = Contents(1)
  BY SchemaIs
<1>3. \A u \in Tables : Contents(0)[u] = Contents(1)[u]
  BY ContentsLines DEF Tables
<1>4. Contents(0) = Contents(1)
  BY <1>3, ContentsLines, SameSchema
<1> QED
  BY <1>1, <1>2, <1>4, RoundTripEnd

(* Revision 2, there and back.                                             *)
LEMMA Trip2 == RoundTrip(SchemaAt(1), Chain[2].upgrade, Chain[2].downgrade, SchemaAt(2))
<1>1. PICK a, b :
        /\ Chain[2].upgrade = <<a, b>>
        /\ Chain[2].downgrade = <<Undo(b), Undo(a)>>
        /\ Is(a, "create_table", "users", User \ {"ix_users_email"})
        /\ Is(b, "add", "users", {"ix_users_email"})
  BY Revision2
<1> DEFINE S == SchemaAt(1)  T == SchemaAt(2)
<1>2. "users" \in Tables
  BY DEF Tables
<1>3. S = Contents(1) /\ T = Contents(2)
  BY SchemaIs
<1> HIDE DEF S, T
<1>4. S = [u \in Tables |-> S[u]] /\ T = [u \in Tables |-> T[u]]
  BY <1>3, ContentsLines
<1>5. S["users"] = {} /\ (\A u \in Refs["users"] : S[u] # {})
      /\ \A u \in Tables : "users" \in Refs[u] => u # "users" /\ S[u] = {}
  BY <1>3, ContentsLines, RefsLines, PartsFacts DEF Tables
<1>6. Undoable(S, a) /\ \E W : Executed(S, a) = W
      /\ Alters(S, "users", User \ {"ix_users_email"}, W)
  BY <1>1, <1>2, <1>4, <1>5, CanCreate, PartsFacts
<1>7. PICK K : Executed(S, a) = K
      /\ Alters(S, "users", User \ {"ix_users_email"}, K)
  BY <1>6
<1>8. K = [u \in Tables |-> K[u]]
  BY <1>7 DEF Alters
<1>9. K["users"] # {} /\ {"ix_users_email"} \cap K["users"] = {}
      /\ K["users"] \cup {"ix_users_email"} = User
  BY PartsFacts, <1>7 DEF Alters
<1>10. Undoable(K, b) /\ \E W : Executed(K, b) = W
      /\ Alters(K, "users", K["users"] \cup {"ix_users_email"}, W)
  BY <1>1, <1>2, <1>8, <1>9, CanAdd
<1>11. PICK L : Executed(K, b) = L
      /\ Alters(K, "users", User, L)
  BY <1>9, <1>10
<1>12. L = T
  <2>1. \A u \in Tables : L[u] = T[u]
    BY <1>3, ContentsLines, <1>7, <1>11 DEF Tables, Alters
  <2> QED
    BY <1>4, <2>1, <1>11, SameSchema DEF Alters
<1>13. RoundTrip(S, <<a, b>>, <<Undo(b), Undo(a)>>, L)
  BY <1>6, <1>7, <1>10, <1>11, TripOfTwo
<1> QED
  BY <1>1, <1>12, <1>13 DEF S, T

(* Revision 3, there and back.                                             *)
LEMMA Trip3 == RoundTrip(SchemaAt(2), Chain[3].upgrade, Chain[3].downgrade, SchemaAt(3))
<1>1. PICK a, b :
        /\ Chain[3].upgrade = <<a, b>>
        /\ Chain[3].downgrade = <<Undo(b), Undo(a)>>
        /\ Is(a, "create_table", "wallets", Wallet \ {"ix_wallets_user_id"})
        /\ Is(b, "add", "wallets", {"ix_wallets_user_id"})
  BY Revision3
<1> DEFINE S == SchemaAt(2)  T == SchemaAt(3)
<1>2. "wallets" \in Tables
  BY DEF Tables
<1>3. S = Contents(2) /\ T = Contents(3)
  BY SchemaIs
<1> HIDE DEF S, T
<1>4. S = [u \in Tables |-> S[u]] /\ T = [u \in Tables |-> T[u]]
  BY <1>3, ContentsLines
<1>5. S["wallets"] = {} /\ (\A u \in Refs["wallets"] : S[u] # {})
      /\ \A u \in Tables : "wallets" \in Refs[u] => u # "wallets" /\ S[u] = {}
  BY <1>3, ContentsLines, RefsLines, PartsFacts DEF Tables
<1>6. Undoable(S, a) /\ \E W : Executed(S, a) = W
      /\ Alters(S, "wallets", Wallet \ {"ix_wallets_user_id"}, W)
  BY <1>1, <1>2, <1>4, <1>5, CanCreate, PartsFacts
<1>7. PICK K : Executed(S, a) = K
      /\ Alters(S, "wallets", Wallet \ {"ix_wallets_user_id"}, K)
  BY <1>6
<1>8. K = [u \in Tables |-> K[u]]
  BY <1>7 DEF Alters
<1>9. K["wallets"] # {} /\ {"ix_wallets_user_id"} \cap K["wallets"] = {}
      /\ K["wallets"] \cup {"ix_wallets_user_id"} = Wallet
  BY PartsFacts, <1>7 DEF Alters
<1>10. Undoable(K, b) /\ \E W : Executed(K, b) = W
      /\ Alters(K, "wallets", K["wallets"] \cup {"ix_wallets_user_id"}, W)
  BY <1>1, <1>2, <1>8, <1>9, CanAdd
<1>11. PICK L : Executed(K, b) = L
      /\ Alters(K, "wallets", Wallet, L)
  BY <1>9, <1>10
<1>12. L = T
  <2>1. \A u \in Tables : L[u] = T[u]
    BY <1>3, ContentsLines, <1>7, <1>11 DEF Tables, Alters
  <2> QED
    BY <1>4, <2>1, <1>11, SameSchema DEF Alters
<1>13. RoundTrip(S, <<a, b>>, <<Undo(b), Undo(a)>>, L)
  BY <1>6, <1>7, <1>10, <1>11, TripOfTwo
<1> QED
  BY <1>1, <1>12, <1>13 DEF S, T

(* Revision 4, there and back.                                             *)
LEMMA Trip4 == RoundTrip(SchemaAt(3), Chain[4].upgrade, Chain[4].downgrade, SchemaAt(4))
<1>1. PICK a, b, c, d :
        /\ Chain[4].upgrade = <<a, b, c, d>>
        /\ Chain[4].downgrade = <<Undo(d), Undo(c), Undo(b), Undo(a)>>
        /\ Is(a, "create_table", "transactions", Transaction \ KeyParts)
        /\ Is(b, "create_table", "ledger_entries", LedgerEntry \ (SeqParts \cup LedgerIndexes))
        /\ Is(c, "add", "ledger_entries", {"ix_ledger_entries_transaction_id"})
        /\ Is(d, "add", "ledger_entries", {"ix_ledger_entries_wallet_id"})
  BY Revision4
<1> DEFINE S == SchemaAt(3)  T == SchemaAt(4)
<1>2. "transactions" \in Tables /\ "ledger_entries" \in Tables
  BY DEF Tables
<1>3. S = Contents(3) /\ T = Contents(4)
  BY SchemaIs
<1> HIDE DEF S, T
<1>4. S = [u \in Tables |-> S[u]] /\ T = [u \in Tables |-> T[u]]
  BY <1>3, ContentsLines
<1>5. S["transactions"] = {} /\ (\A u \in Refs["transactions"] : S[u] # {})
      /\ \A u \in Tables : "transactions" \in Refs[u] => u # "transactions" /\ S[u] = {}
  BY <1>3, ContentsLines, RefsLines, PartsFacts DEF Tables
<1>6. Undoable(S, a) /\ \E W : Executed(S, a) = W
      /\ Alters(S, "transactions", Transaction \ KeyParts, W)
  BY <1>1, <1>2, <1>4, <1>5, CanCreate, PartsFacts
<1>7. PICK K : Executed(S, a) = K
      /\ Alters(S, "transactions", Transaction \ KeyParts, K)
  BY <1>6
<1>8. K = [u \in Tables |-> K[u]]
  BY <1>7 DEF Alters
<1>9. K["ledger_entries"] = {} /\ (\A u \in Refs["ledger_entries"] : K[u] # {})
      /\ \A u \in Tables : "ledger_entries" \in Refs[u] => u # "ledger_entries" /\ K[u] = {}
  BY <1>3, ContentsLines, RefsLines, PartsFacts, <1>7 DEF Tables, Alters
<1>10. Undoable(K, b) /\ \E W : Executed(K, b) = W
      /\ Alters(K, "ledger_entries", LedgerEntry \ (SeqParts \cup LedgerIndexes), W)
  BY <1>1, <1>2, <1>8, <1>9, CanCreate, PartsFacts
<1>11. PICK L : Executed(K, b) = L
      /\ Alters(K, "ledger_entries", LedgerEntry \ (SeqParts \cup LedgerIndexes), L)
  BY <1>10
<1>12. L = [u \in Tables |-> L[u]]
  BY <1>11 DEF Alters
<1>13. L["ledger_entries"] # {}
      /\ {"ix_ledger_entries_transaction_id"} \cap L["ledger_entries"] = {}
      /\ L["ledger_entries"] \cup {"ix_ledger_entries_transaction_id"}
           = LedgerEntry \ (SeqParts \cup {"ix_ledger_entries_wallet_id"})
  BY PartsFacts, <1>11 DEF Alters, LedgerIndexes
<1>14. Undoable(L, c) /\ \E W : Executed(L, c) = W
      /\ Alters(L, "ledger_entries", L["ledger_entries"] \cup {"ix_ledger_entries_transaction_id"}, W)
  BY <1>1, <1>2, <1>12, <1>13, CanAdd
<1>15. PICK M : Executed(L, c) = M
      /\ Alters(L, "ledger_entries", LedgerEntry \ (SeqParts \cup {"ix_ledger_entries_wallet_id"}), M)
  BY <1>13, <1>14
<1>16. M = [u \in Tables |-> M[u]]
  BY <1>15 DEF Alters
<1>17. M["ledger_entries"] # {} /\ {"ix_ledger_entries_wallet_id"} \cap M["ledger_entries"] = {}
      /\ M["ledger_entries"] \cup {"ix_ledger_entries_wallet_id"} = LedgerEntry \ SeqParts
  BY PartsFacts, <1>15 DEF Alters, LedgerIndexes
<1>18. Undoable(M, d) /\ \E W : Executed(M, d) = W
      /\ Alters(M, "ledger_entries", M["ledger_entries"] \cup {"ix_ledger_entries_wallet_id"}, W)
  BY <1>1, <1>2, <1>16, <1>17, CanAdd
<1>19. PICK N : Executed(M, d) = N
      /\ Alters(M, "ledger_entries", LedgerEntry \ SeqParts, N)
  BY <1>17, <1>18
<1>20. N = T
  <2>1. \A u \in Tables : N[u] = T[u]
    BY <1>3, ContentsLines, <1>7, <1>11, <1>15, <1>19 DEF Tables, Alters
  <2> QED
    BY <1>4, <2>1, <1>19, SameSchema DEF Alters
<1>21. RoundTrip(L, <<c, d>>, <<Undo(d), Undo(c)>>, N)
  BY <1>14, <1>15, <1>18, <1>19, TripOfTwo
<1>22. RoundTrip(K, <<b, c, d>>, <<Undo(d), Undo(c), Undo(b)>>, N)
  BY <1>10, <1>11, <1>21, TripOfThree
<1>23. RoundTrip(S, <<a, b, c, d>>, <<Undo(d), Undo(c), Undo(b), Undo(a)>>, N)
  BY <1>6, <1>7, <1>22, TripOfFour
<1> QED
  BY <1>1, <1>20, <1>23 DEF S, T

(* Revision 5, there and back.                                             *)
LEMMA Trip5 == RoundTrip(SchemaAt(4), Chain[5].upgrade, Chain[5].downgrade, SchemaAt(5))
<1>1. PICK a, b :
        /\ Chain[5].upgrade = <<a, b>>
        /\ Chain[5].downgrade = <<Undo(b), Undo(a)>>
        /\ Is(a, "add", "transactions", {"idempotency_key"})
        /\ Is(b, "add", "transactions", {"ix_transactions_idempotency_key"})
  BY Revision5
<1> DEFINE S == SchemaAt(4)  T == SchemaAt(5)
<1>2. "transactions" \in Tables
  BY DEF Tables
<1>3. S = Contents(4) /\ T = Contents(5)
  BY SchemaIs
<1> HIDE DEF S, T
<1>4. S = [u \in Tables |-> S[u]] /\ T = [u \in Tables |-> T[u]]
  BY <1>3, ContentsLines
<1>5. S["transactions"] # {} /\ {"idempotency_key"} \cap S["transactions"] = {}
      /\ S["transactions"] \cup {"idempotency_key"} = Transaction \ {"ix_transactions_idempotency_key"}
  BY <1>3, ContentsLines, PartsFacts DEF Alters, KeyParts
<1>6. Undoable(S, a) /\ \E W : Executed(S, a) = W
      /\ Alters(S, "transactions", S["transactions"] \cup {"idempotency_key"}, W)
  BY <1>1, <1>2, <1>4, <1>5, CanAdd
<1>7. PICK K : Executed(S, a) = K
      /\ Alters(S, "transactions", Transaction \ {"ix_transactions_idempotency_key"}, K)
  BY <1>5, <1>6
<1>8. K = [u \in Tables |-> K[u]]
  BY <1>7 DEF Alters
<1>9. K["transactions"] # {} /\ {"ix_transactions_idempotency_key"} \cap K["transactions"] = {}
      /\ K["transactions"] \cup {"ix_transactions_idempotency_key"} = Transaction
  BY PartsFacts, <1>7 DEF Alters, KeyParts
<1>10. Undoable(K, b) /\ \E W : Executed(K, b) = W
      /\ Alters(K, "transactions", K["transactions"] \cup {"ix_transactions_idempotency_key"}, W)
  BY <1>1, <1>2, <1>8, <1>9, CanAdd
<1>11. PICK L : Executed(K, b) = L
      /\ Alters(K, "transactions", Transaction, L)
  BY <1>9, <1>10
<1>12. L = T
  <2>1. \A u \in Tables : L[u] = T[u]
    BY <1>3, ContentsLines, <1>7, <1>11 DEF Tables, Alters
  <2> QED
    BY <1>4, <2>1, <1>11, SameSchema DEF Alters
<1>13. RoundTrip(S, <<a, b>>, <<Undo(b), Undo(a)>>, L)
  BY <1>6, <1>7, <1>10, <1>11, TripOfTwo
<1> QED
  BY <1>1, <1>12, <1>13 DEF S, T

(* Revision 6, there and back.                                             *)
LEMMA Trip6 == RoundTrip(SchemaAt(5), Chain[6].upgrade, Chain[6].downgrade, SchemaAt(6))
<1>1. PICK a, b, c :
        /\ Chain[6].upgrade = <<a, b, c>>
        /\ Chain[6].downgrade = <<Undo(c), Undo(b), Undo(a)>>
        /\ Is(a, "create_table", "outbox_events", OutboxEvent \ OutboxIndexes)
        /\ Is(b, "add", "outbox_events", {"ix_outbox_events_aggregate_id"})
        /\ Is(c, "add", "outbox_events", {"ix_outbox_unpublished"})
  BY Revision6
<1> DEFINE S == SchemaAt(5)  T == SchemaAt(6)
<1>2. "outbox_events" \in Tables
  BY DEF Tables
<1>3. S = Contents(5) /\ T = Contents(6)
  BY SchemaIs
<1> HIDE DEF S, T
<1>4. S = [u \in Tables |-> S[u]] /\ T = [u \in Tables |-> T[u]]
  BY <1>3, ContentsLines
<1>5. S["outbox_events"] = {} /\ (\A u \in Refs["outbox_events"] : S[u] # {})
      /\ \A u \in Tables : "outbox_events" \in Refs[u] => u # "outbox_events" /\ S[u] = {}
  BY <1>3, ContentsLines, RefsLines, PartsFacts DEF Tables
<1>6. Undoable(S, a) /\ \E W : Executed(S, a) = W
      /\ Alters(S, "outbox_events", OutboxEvent \ OutboxIndexes, W)
  BY <1>1, <1>2, <1>4, <1>5, CanCreate, PartsFacts
<1>7. PICK K : Executed(S, a) = K
      /\ Alters(S, "outbox_events", OutboxEvent \ OutboxIndexes, K)
  BY <1>6
<1>8. K = [u \in Tables |-> K[u]]
  BY <1>7 DEF Alters
<1>9. K["outbox_events"] # {} /\ {"ix_outbox_events_aggregate_id"} \cap K["outbox_events"] = {}
      /\ K["outbox_events"] \cup {"ix_outbox_events_aggregate_id"} = OutboxEvent \ {"ix_outbox_unpublished"}
  BY PartsFacts, <1>7 DEF Alters, OutboxIndexes
<1>10. Undoable(K, b) /\ \E W : Executed(K, b) = W
      /\ Alters(K, "outbox_events", K["outbox_events"] \cup {"ix_outbox_events_aggregate_id"}, W)
  BY <1>1, <1>2, <1>8, <1>9, CanAdd
<1>11. PICK L : Executed(K, b) = L
      /\ Alters(K, "outbox_events", OutboxEvent \ {"ix_outbox_unpublished"}, L)
  BY <1>9, <1>10
<1>12. L = [u \in Tables |-> L[u]]
  BY <1>11 DEF Alters
<1>13. L["outbox_events"] # {} /\ {"ix_outbox_unpublished"} \cap L["outbox_events"] = {}
      /\ L["outbox_events"] \cup {"ix_outbox_unpublished"} = OutboxEvent
  BY PartsFacts, <1>11 DEF Alters, OutboxIndexes
<1>14. Undoable(L, c) /\ \E W : Executed(L, c) = W
      /\ Alters(L, "outbox_events", L["outbox_events"] \cup {"ix_outbox_unpublished"}, W)
  BY <1>1, <1>2, <1>12, <1>13, CanAdd
<1>15. PICK M : Executed(L, c) = M
      /\ Alters(L, "outbox_events", OutboxEvent, M)
  BY <1>13, <1>14
<1>16. M = T
  <2>1. \A u \in Tables : M[u] = T[u]
    BY <1>3, ContentsLines, <1>7, <1>11, <1>15 DEF Tables, Alters
  <2> QED
    BY <1>4, <2>1, <1>15, SameSchema DEF Alters
<1>17. RoundTrip(K, <<b, c>>, <<Undo(c), Undo(b)>>, M)
  BY <1>10, <1>11, <1>14, <1>15, TripOfTwo
<1>18. RoundTrip(S, <<a, b, c>>, <<Undo(c), Undo(b), Undo(a)>>, M)
  BY <1>6, <1>7, <1>17, TripOfThree
<1> QED
  BY <1>1, <1>16, <1>18 DEF S, T

(* Revision 7, there and back.                                             *)
LEMMA Trip7 == RoundTrip(SchemaAt(6), Chain[7].upgrade, Chain[7].downgrade, SchemaAt(7))
<1>1. PICK a, b :
        /\ Chain[7].upgrade = <<a, b>>
        /\ Chain[7].downgrade = <<Undo(b), Undo(a)>>
        /\ Is(a, "create_table", "transaction_stats", TransactionStat)
        /\ Is(b, "create_table", "processed_events", ProcessedEvent)
  BY Revision7
<1> DEFINE S == SchemaAt(6)  T == SchemaAt(7)
<1>2. "transaction_stats" \in Tables /\ "processed_events" \in Tables
  BY DEF Tables
<1>3. S = Contents(6) /\ T = Contents(7)
  BY SchemaIs
<1> HIDE DEF S, T
<1>4. S = [u \in Tables |-> S[u]] /\ T = [u \in Tables |-> T[u]]
  BY <1>3, ContentsLines
<1>5. S["transaction_stats"] = {} /\ (\A u \in Refs["transaction_stats"] : S[u] # {})
      /\ \A u \in Tables : "transaction_stats" \in Refs[u] => u # "transaction_stats" /\ S[u] = {}
  BY <1>3, ContentsLines, RefsLines, PartsFacts DEF Tables
<1>6. Undoable(S, a) /\ \E W : Executed(S, a) = W
      /\ Alters(S, "transaction_stats", TransactionStat, W)
  BY <1>1, <1>2, <1>4, <1>5, CanCreate, PartsFacts
<1>7. PICK K : Executed(S, a) = K
      /\ Alters(S, "transaction_stats", TransactionStat, K)
  BY <1>6
<1>8. K = [u \in Tables |-> K[u]]
  BY <1>7 DEF Alters
<1>9. K["processed_events"] = {} /\ (\A u \in Refs["processed_events"] : K[u] # {})
      /\ \A u \in Tables : "processed_events" \in Refs[u] => u # "processed_events" /\ K[u] = {}
  BY <1>3, ContentsLines, RefsLines, PartsFacts, <1>7 DEF Tables, Alters
<1>10. Undoable(K, b) /\ \E W : Executed(K, b) = W
      /\ Alters(K, "processed_events", ProcessedEvent, W)
  BY <1>1, <1>2, <1>8, <1>9, CanCreate, PartsFacts
<1>11. PICK L : Executed(K, b) = L
      /\ Alters(K, "processed_events", ProcessedEvent, L)
  BY <1>10
<1>12. L = T
  <2>1. \A u \in Tables : L[u] = T[u]
    BY <1>3, ContentsLines, <1>7, <1>11 DEF Tables, Alters
  <2> QED
    BY <1>4, <2>1, <1>11, SameSchema DEF Alters
<1>13. RoundTrip(S, <<a, b>>, <<Undo(b), Undo(a)>>, L)
  BY <1>6, <1>7, <1>10, <1>11, TripOfTwo
<1> QED
  BY <1>1, <1>12, <1>13 DEF S, T

(* Revision 8, there and back.                                             *)
LEMMA Trip8 == RoundTrip(SchemaAt(7), Chain[8].upgrade, Chain[8].downgrade, SchemaAt(8))
<1>1. PICK a, b :
        /\ Chain[8].upgrade = <<a, b>>
        /\ Chain[8].downgrade = <<Undo(b), Undo(a)>>
        /\ Is(a, "add", "ledger_entries", {"seq"})
        /\ Is(b, "add", "ledger_entries", {"ix_ledger_entries_seq"})
  BY Revision8
<1> DEFINE S == SchemaAt(7)  T == SchemaAt(8)
<1>2. "ledger_entries" \in Tables
  BY DEF Tables
<1>3. S = Contents(7) /\ T = Contents(8)
  BY SchemaIs
<1> HIDE DEF S, T
<1>4. S = [u \in Tables |-> S[u]] /\ T = [u \in Tables |-> T[u]]
  BY <1>3, ContentsLines
<1>5. S["ledger_entries"] # {} /\ {"seq"} \cap S["ledger_entries"] = {}
      /\ S["ledger_entries"] \cup {"seq"} = LedgerEntry \ {"ix_ledger_entries_seq"}
  BY <1>3, ContentsLines, PartsFacts DEF Alters, SeqParts
<1>6. Undoable(S, a) /\ \E W : Executed(S, a) = W
      /\ Alters(S, "ledger_entries", S["ledger_entries"] \cup {"seq"}, W)
  BY <1>1, <1>2, <1>4, <1>5, CanAdd
<1>7. PICK K : Executed(S, a) = K
      /\ Alters(S, "ledger_entries", LedgerEntry \ {"ix_ledger_entries_seq"}, K)
  BY <1>5, <1>6
<1>8. K = [u \in Tables |-> K[u]]
  BY <1>7 DEF Alters
<1>9. K["ledger_entries"] # {} /\ {"ix_ledger_entries_seq"} \cap K["ledger_entries"] = {}
      /\ K["ledger_entries"] \cup {"ix_ledger_entries_seq"} = LedgerEntry
  BY PartsFacts, <1>7 DEF Alters, SeqParts
<1>10. Undoable(K, b) /\ \E W : Executed(K, b) = W
      /\ Alters(K, "ledger_entries", K["ledger_entries"] \cup {"ix_ledger_entries_seq"}, W)
  BY <1>1, <1>2, <1>8, <1>9, CanAdd
<1>11. PICK L : Executed(K, b) = L
      /\ Alters(K, "ledger_entries", LedgerEntry, L)
  BY <1>9, <1>10
<1>12. L = T
  <2>1. \A u \in Tables : L[u] = T[u]
    BY <1>3, ContentsLines, <1>7, <1>11 DEF Tables, Alters
  <2> QED
    BY <1>4, <2>1, <1>11, SameSchema DEF Alters
<1>13. RoundTrip(S, <<a, b>>, <<Undo(b), Undo(a)>>, L)
  BY <1>6, <1>7, <1>10, <1>11, TripOfTwo
<1> QED
  BY <1>1, <1>12, <1>13 DEF S, T

(* Every revision, there and back.                                         *)
LEMMA Trips ==
    \A n \in 1..8 : RoundTrip(SchemaAt(n - 1), Chain[n].upgrade, Chain[n].downgrade, SchemaAt(n))
<1> DEFINE Trip(n) == RoundTrip(SchemaAt(n - 1), Chain[n].upgrade, Chain[n].downgrade, SchemaAt(n))
<1>1. Trip(1) /\ Trip(2) /\ Trip(3) /\ Trip(4)
  BY Trip1, Trip2, Trip3, Trip4
<1>2. Trip(5) /\ Trip(6) /\ Trip(7) /\ Trip(8)
  BY Trip5, Trip6, Trip7, Trip8
<1>3. \A n \in 1..8 : n \in {1, 2, 3, 4, 5, 6, 7, 8}
  OBVIOUS
<1> HIDE DEF Trip
<1>4. \A n \in 1..8 : Trip(n)
  BY <1>1, <1>2, <1>3
<1> QED
  BY <1>4 DEF Trip

(* The schema that the statements a run is at lead to.                     *)
Goal(at, target) == SchemaAt(IF at = target THEN at ELSE Step(at, target))

(* Each step of a run leads from one revision to the next on its way.      *)
LEMMA TodoWorks ==
    ASSUME NEW at \in 0..Newest, NEW target \in 0..Newest
    PROVE  /\ Todo(at, target) \in Seq(Stmt)
           /\ Reaches(SchemaAt(at), Todo(at, target), Goal(at, target))
           /\ at # target => Step(at, target) \in 0..Newest
<1>0. Newest = 8
  BY ChainLinks
<1>1. CASE at < target
  <2>1. at + 1 \in 1..8 /\ (at + 1) - 1 = at /\ at # target /\ Step(at, target) = at + 1
    BY <1>0, <1>1 DEF Step
  <2>2. RoundTrip(SchemaAt(at), Chain[at + 1].upgrade, Chain[at + 1].downgrade, SchemaAt(at + 1))
    BY <2>1, Trips
  <2>3. Todo(at, target) = Chain[at + 1].upgrade /\ Goal(at, target) = SchemaAt(at + 1)
    BY <1>1, <2>1 DEF Todo, Goal
  <2>4. at + 1 \in 0..Newest
    BY <1>0, <2>1
  <2> QED
    BY <2>1, <2>2, <2>3, <2>4 DEF RoundTrip
<1>2. CASE at > target
  <2>1. at \in 1..8 /\ at - 1 \in 0..8 /\ at # target /\ Step(at, target) = at - 1
    BY <1>0, <1>2 DEF Step
  <2>2. RoundTrip(SchemaAt(at - 1), Chain[at].upgrade, Chain[at].downgrade, SchemaAt(at))
    BY <2>1, Trips
  <2>3. Todo(at, target) = Chain[at].downgrade /\ Goal(at, target) = SchemaAt(at - 1)
    <3>1. ~(at < target)
      BY <1>2
    <3> QED
      BY <1>2, <2>1, <3>1 DEF Todo, Goal
  <2> QED
    BY <1>0, <2>1, <2>2, <2>3 DEF RoundTrip
<1>3. CASE at = target
  <2>1. ~(at < target) /\ ~(at > target)
    BY <1>3
  <2>2. Todo(at, target) = <<>> /\ Goal(at, target) = SchemaAt(at)
    BY <1>3, <2>1 DEF Todo, Goal
  <2>3. <<>> \in Seq(Stmt)
    OBVIOUS
  <2> QED
    BY <1>3, <2>2, <2>3, ReachesEnd
<1>4. at < target \/ at > target \/ at = target
  BY <1>0
<1> QED
  BY <1>1, <1>2, <1>3, <1>4

(* The last revision makes what the models declare.                        *)
LEMMA ModelsAreTheHead == SchemaAt(Newest) = Models
<1>1. SchemaAt(Newest) = Contents(8)
  BY ChainLinks, SchemaIs
<1>2. /\ Models = [t \in Tables |-> Models[t]]
      /\ Models["users"] = User /\ Models["wallets"] = Wallet
      /\ Models["transactions"] = Transaction /\ Models["ledger_entries"] = LedgerEntry
      /\ Models["outbox_events"] = OutboxEvent
      /\ Models["transaction_stats"] = TransactionStat
      /\ Models["processed_events"] = ProcessedEvent
  BY DEF Models, Tables
<1>3. \A t \in Tables : Contents(8)[t] = Models[t]
  BY <1>2, ContentsLines DEF Tables
<1> QED
  BY <1>1, <1>2, <1>3, ContentsLines, SameSchema

(* From the second revision on there are users, so a run cannot make them. *)
LEMMA UsersThere ==
    ASSUME NEW n \in 2..8
    PROVE  /\ SchemaAt(n)["users"] # {} /\ Chain[2].upgrade # <<>>
           /\ Head(Chain[2].upgrade).op = "create_table"
           /\ Head(Chain[2].upgrade).table = "users"
<1>1. SchemaAt(n) = Contents(n)
  BY SchemaIs
<1>2. Contents(n)["users"] = User
  BY ContentsLines
<1>3. PICK a, b :
        /\ Chain[2].upgrade = <<a, b>>
        /\ Is(a, "create_table", "users", User \ {"ix_users_email"})
        /\ Is(b, "add", "users", {"ix_users_email"})
  BY Revision2
<1>4. a \in Stmt /\ b \in Stmt /\ a.op = "create_table" /\ a.table = "users"
  BY <1>3 DEF Is
<1>5. <<a, b>> # <<>> /\ Head(<<a, b>>) = a
  BY <1>4, ListOfTwo
<1> QED
  BY <1>1, <1>2, <1>3, <1>4, <1>5, PartsFacts
-----------------------------------------------------------------------------
(* What a transaction that has made m of some tables sees of schema S.     *)
ViewOf(m, S) == [t \in Tables |-> IF t \in DOMAIN m THEN m[t] ELSE S[t]]

(* The run r planned from the committed revision n, and the statements it  *)
(* has left make the revision that it is heading for.                      *)
OnCourse(r, m, S, n) == r.read = n /\ Reaches(ViewOf(m, S), r.todo, Goal(r.at, r.target))

(* It planned from the empty database, found the row of the first revision *)
(* free because the version is beyond it, and will not make the users.     *)
Doomed(r, m, n) ==
    /\ r.read = 0 /\ r.at = 1 /\ r.target = Newest /\ n \in 2..8
    /\ r.todo = Chain[2].upgrade /\ DOMAIN m = {}

(* What is left of its first step will make of each table what the whole   *)
(* step makes of it: of the table that is there when the run holds it, of  *)
(* any when it does not.                                                   *)
Completes(r, m, S) ==
    \A t \in Tables : \A Y :
       IF t \in DOMAIN m
       THEN Leaves(t, m[t], r.todo, Y) <=> Leaves(t, S[t], Todo(r.read, r.target), Y)
       ELSE \A X : Leaves(t, X, r.todo, Y) <=> Leaves(t, X, Todo(r.read, r.target), Y)

(* The transaction after statement s.                                      *)
Made(m, S, s) == [t \in DOMAIN m \cup Touched(s) |->
    IF t = s.table THEN Effect(ViewOf(m, S)[t], s) ELSE ViewOf(m, S)[t]]

(* It sees the statement's effect.                                         *)
LEMMA MadeView ==
    ASSUME NEW m, NEW S, NEW s
    PROVE  ViewOf(Made(m, S, s), S) = Executed(ViewOf(m, S), s)
<1> DEFINE V == ViewOf(m, S)  M == Made(m, S, s)
<1>1. DOMAIN M = DOMAIN m \cup Touched(s) /\ s.table \in Touched(s)
  BY DEF Made, Touched
<1>2. \A t \in DOMAIN M : M[t] = IF t = s.table THEN Effect(V[t], s) ELSE V[t]
  BY DEF Made
<1>3. \A t \in Tables : t \notin DOMAIN m => V[t] = S[t]
  BY DEF ViewOf
<1> HIDE DEF V, M
<1>4. \A t \in Tables : (IF t \in DOMAIN M THEN M[t] ELSE S[t])
                        = (IF t = s.table THEN Effect(V[t], s) ELSE V[t])
  BY <1>1, <1>2, <1>3
<1>5. ViewOf(M, S) = Executed(V, s)
  BY <1>4 DEF ViewOf, Executed
<1> QED
  BY <1>5 DEF V, M

(* A run on course goes on.                                                *)
LEMMA CourseGoesOn ==
    ASSUME NEW r, NEW m, NEW S, NEW n, OnCourse(r, m, S, n), r.todo \in Seq(Stmt),
           r.todo # <<>>, NEW q, q.read = r.read, q.at = r.at, q.target = r.target,
           q.todo = Tail(r.todo)
    PROVE  Fits(ViewOf(m, S), Head(r.todo)) /\ OnCourse(q, Made(m, S, Head(r.todo)), S, n)
<1>1. Reaches(ViewOf(m, S), r.todo, Goal(r.at, r.target)) /\ r.read = n
  BY DEF OnCourse
<1>2. /\ Fits(ViewOf(m, S), Head(r.todo))
      /\ Reaches(Executed(ViewOf(m, S), Head(r.todo)), Tail(r.todo), Goal(r.at, r.target))
  BY <1>1, ReachesStep
<1> QED
  BY <1>1, <1>2, MadeView DEF OnCourse

(* The statements executed and those left go on to make the whole step.    *)
LEMMA CompletesGoesOn ==
    ASSUME NEW r, NEW m, NEW S, Completes(r, m, S), r.todo \in Seq(Stmt), r.todo # <<>>,
           NEW q, q.read = r.read, q.target = r.target, q.todo = Tail(r.todo)
    PROVE  Completes(q, Made(m, S, Head(r.todo)), S)
<1> DEFINE s == Head(r.todo)  M == Made(m, S, s)  All == Todo(r.read, r.target)
           After(t, X) == IF s.table = t THEN Effect(X, s) ELSE X
<1>1. \A t, X, Y : Leaves(t, X, r.todo, Y) <=> Leaves(t, After(t, X), q.todo, Y)
  BY LeavesStep
<1>2. /\ DOMAIN M = DOMAIN m \cup Touched(s) /\ s.table \in Touched(s)
      /\ \A t \in DOMAIN M : M[t] = After(t, ViewOf(m, S)[t])
  BY DEF Made, Touched
<1>3. \A t \in Tables : ViewOf(m, S)[t] = IF t \in DOMAIN m THEN m[t] ELSE S[t]
  BY DEF ViewOf
<1>4. \A t, X : t # s.table => After(t, X) = X
  OBVIOUS
<1>5. Todo(q.read, q.target) = All
  OBVIOUS
<1> HIDE DEF s, M, All, After
<1>6. ASSUME NEW t \in Tables, NEW Y
      PROVE  IF t \in DOMAIN M
             THEN Leaves(t, M[t], q.todo, Y) <=> Leaves(t, S[t], All, Y)
             ELSE \A X : Leaves(t, X, q.todo, Y) <=> Leaves(t, X, All, Y)
  <2>1. IF t \in DOMAIN m
        THEN Leaves(t, m[t], r.todo, Y) <=> Leaves(t, S[t], All, Y)
        ELSE \A X : Leaves(t, X, r.todo, Y) <=> Leaves(t, X, All, Y)
    BY DEF Completes, All
  <2>2. CASE t \in DOMAIN m
    <3>1. M[t] = After(t, m[t]) /\ t \in DOMAIN M
      BY <1>2, <1>3, <2>2
    <3> QED
      BY <1>1, <2>1, <2>2, <3>1
  <2>3. CASE t \notin DOMAIN m /\ t \in DOMAIN M
    <3>1. M[t] = After(t, S[t])
      BY <1>2, <1>3, <2>3
    <3> QED
      BY <1>1, <2>1, <2>3, <3>1
  <2>4. CASE t \notin DOMAIN M
    <3>1. t # s.table /\ t \notin DOMAIN m
      BY <1>2, <2>4
    <3>2. \A X : After(t, X) = X
      BY <1>4, <3>1
    <3> QED
      BY <1>1, <2>1, <2>4, <3>1, <3>2
  <2> QED
    BY <2>2, <2>3, <2>4
<1>7. Completes(q, M, S)
  BY <1>5, <1>6 DEF Completes
<1> QED
  BY <1>7 DEF M, s

(* At its end the step is made, when the version is the one it was planned *)
(* from.                                                                   *)
LEMMA Completed ==
    ASSUME NEW r, NEW m, NEW S, Completes(r, m, S), r.todo = <<>>,
           r.read \in 0..Newest, r.target \in 0..Newest, r.read # r.target,
           S = SchemaAt(r.read)
    PROVE  ViewOf(m, S) = SchemaAt(Step(r.read, r.target))
<1> DEFINE All == Todo(r.read, r.target)  T == SchemaAt(Step(r.read, r.target))
<1>1. All \in Seq(Stmt) /\ Reaches(S, All, T)
  BY TodoWorks DEF Goal
<1>2. T = [t \in Tables |-> T[t]]
  BY DEF SchemaAt
<1> HIDE DEF T, All
<1>3. \A t \in Tables : Leaves(t, S[t], All, T[t])
  BY <1>1, ReachesLeaves
<1>4. ASSUME NEW t \in Tables
      PROVE  ViewOf(m, S)[t] = T[t]
  <2>1. IF t \in DOMAIN m THEN Leaves(t, m[t], <<>>, T[t]) ELSE Leaves(t, S[t], <<>>, T[t])
    BY <1>3 DEF Completes, All
  <2>2. ViewOf(m, S)[t] = IF t \in DOMAIN m THEN m[t] ELSE S[t]
    BY DEF ViewOf
  <2> QED
    BY <2>1, <2>2, LeavesEnd
<1>5. ViewOf(m, S) = [t \in Tables |-> ViewOf(m, S)[t]]
  BY DEF ViewOf
<1>6. ViewOf(m, S) = T
  BY <1>2, <1>4, <1>5, SameSchema
<1> QED
  BY <1>6 DEF T

(* A commit leaves alone the tables that another run holds.                *)
LEMMA CompletesElsewhere ==
    ASSUME NEW r, NEW m, NEW S, Completes(r, m, S), NEW T,
           \A t \in DOMAIN m : T[t] = S[t]
    PROVE  Completes(r, m, T)
  BY DEF Completes

(* Before the first statement nothing is touched.                          *)
LEMMA CompletesAtFirst ==
    ASSUME NEW r, NEW m, NEW S, DOMAIN m = {}, r.todo = Todo(r.read, r.target)
    PROVE  Completes(r, m, S) /\ (S = [t \in Tables |-> S[t]] => ViewOf(m, S) = S)
<1>1. Completes(r, m, S)
  BY DEF Completes
<1>2. ViewOf(m, S) = [t \in Tables |-> S[t]]
  BY DEF ViewOf
<1> QED
  BY <1>1, <1>2
-----------------------------------------------------------------------------
States == {"never", "running", "done", "failed", "deadlock", "killed"}
Run == [state : States, target : 0..Newest, read : 0..Newest, at : 0..Newest, todo : Seq(Stmt)]

RunsInv ==
    /\ run \in [Jobs -> Run]
    /\ mine = [j \in Jobs |-> mine[j]] /\ \A j \in Jobs : DOMAIN mine[j] \subseteq Tables
    /\ stamped \subseteq Jobs

(* The version row has one writer, and so has each table.                  *)
LocksInv ==
    /\ \A j, k \in stamped : j = k
    /\ \A j, k \in Jobs : j # k => DOMAIN mine[j] \cap DOMAIN mine[k] = {}

(* What is known of a run r, that has made m of its tables, while S and n  *)
(* are committed.                                                          *)
Unmoved(r, m, S) ==
    /\ r.at = r.read /\ r.read # r.target
    /\ r.at = 0 => DOMAIN m = {} /\ r.todo = <<>>
    /\ Completes(r, m, S)
Job(j, r, m, S, n) ==
    /\ r.state # "running" => DOMAIN m = {} /\ j \notin stamped
    /\ r.state = "failed" => j \in overlapped
    /\ r.state = "running" =>
          /\ r.target = Newest \/ r.target < r.read
          /\ j \in overlapped \/ OnCourse(r, m, S, n)
          /\ j \in stamped => OnCourse(r, m, S, n) \/ Doomed(r, m, n)
          /\ j \in stamped \/ Unmoved(r, m, S)

(* Revision n is committed.                                                *)
Committed(n) == n \in 0..Newest /\ heads = {n} \ {0} /\ schema = SchemaAt(n)
JobsInv == \E n : Committed(n) /\ \A j \in Jobs : Job(j, run[j], mine[j], schema, n)

Inv == RunsInv /\ LocksInv /\ JobsInv

(* The version row read.                                                   *)
LEMMA CurrentIs ==
    ASSUME NEW n, Committed(n)
    PROVE  Current = n
<1>1. n \in Int
  BY ChainLinks DEF Committed
<1>2. CASE n = 0
  <2>1. heads = {}
    BY <1>2 DEF Committed
  <2> QED
    BY <1>2, <2>1 DEF Current
<1>3. CASE n # 0
  <2>1. heads = {n}
    BY <1>3 DEF Committed
  <2>2. \A x : x \in heads <=> x = n
    BY <2>1
  <2>3. heads # {}
    BY <2>1
  <2>4. (CHOOSE x \in heads : TRUE) = n
    BY <2>2
  <2> QED
    BY <2>3, <2>4 DEF Current
<1> QED
  BY <1>2, <1>3

(* The schema a run sees.                                                  *)
LEMMA ViewIs == \A j : View(j) = ViewOf(mine[j], schema)
  BY DEF View, ViewOf

(* It starts.                                                              *)
LEMMA InitInv == Init => Inv
<1> SUFFICES ASSUME Init PROVE Inv
  OBVIOUS
<1>0. Newest = 8
  BY ChainLinks
<1>1. RunsInv
  <2>1. Idle("never") \in Run
    <3>1. 0 \in 0..Newest /\ <<>> \in Seq(Stmt) /\ "never" \in States
      BY <1>0 DEF States
    <3> QED
      BY <3>1 DEF Idle, Run
  <2>2. DOMAIN <<>> = {}
    OBVIOUS
  <2> QED
    BY <2>1, <2>2 DEF Init, RunsInv
<1>2. LocksInv
  <2>1. DOMAIN <<>> = {}
    OBVIOUS
  <2> QED
    BY <2>1 DEF Init, LocksInv
<1>3. Committed(0)
  <2>1. schema = SchemaAt(0)
    <3>1. SchemaAt(0) = [t \in Tables |-> SchemaAt(0)[t]]
      BY DEF SchemaAt
    <3> QED
      BY <3>1, NoSchema DEF Init, Empty
  <2> QED
    BY <1>0, <2>1 DEF Init, Committed
<1>4. ASSUME NEW j \in Jobs PROVE Job(j, run[j], mine[j], schema, 0)
  <2>1. run[j].state = "never" /\ mine[j] = <<>> /\ j \notin stamped /\ DOMAIN <<>> = {}
    BY DEF Init, Idle
  <2> QED
    BY <2>1 DEF Job
<1> QED
  BY <1>1, <1>2, <1>3, <1>4 DEF Inv, JobsInv

(* A run that is rolled back leaves nothing, and has failed only when it   *)
(* was overtaken.                                                          *)
LEMMA RollsBackInv ==
    ASSUME Inv, NEW j \in Jobs, NEW how \in States \ {"running"},
           how = "failed" => j \in overlapped, RollsBack(j, how)
    PROVE  Inv'
<1>0. /\ run' = [run EXCEPT ![j] = Idle(how)] /\ mine' = [mine EXCEPT ![j] = <<>>]
      /\ stamped' = stamped \ {j} /\ schema' = schema /\ heads' = heads
      /\ overlapped' = overlapped
  BY DEF RollsBack, Ends
<1>1. /\ run'[j] = Idle(how) /\ mine'[j] = <<>> /\ DOMAIN <<>> = {}
      /\ \A k \in Jobs : k # j => run'[k] = run[k] /\ mine'[k] = mine[k]
  BY <1>0 DEF Inv, RunsInv
<1>2. RunsInv'
  <2>1. Idle(how) \in Run
    <3>1. 0 \in 0..Newest /\ <<>> \in Seq(Stmt)
      BY ChainLinks
    <3> QED
      BY <3>1 DEF Idle, Run
  <2>2. run' \in [Jobs -> Run]
    BY <1>0, <2>1 DEF Inv, RunsInv
  <2>3. mine' = [k \in Jobs |-> mine'[k]] /\ \A k \in Jobs : DOMAIN mine'[k] \subseteq Tables
    BY <1>0, <1>1 DEF Inv, RunsInv
  <2>4. stamped' \subseteq Jobs
    BY <1>0 DEF Inv, RunsInv
  <2> QED
    BY <2>2, <2>3, <2>4 DEF RunsInv
<1>3. LocksInv'
  BY <1>0, <1>1 DEF Inv, LocksInv
<1>4. PICK n : Committed(n) /\ \A k \in Jobs : Job(k, run[k], mine[k], schema, n)
  BY DEF Inv, JobsInv
<1>5. Committed(n)'
  BY <1>0, <1>4 DEF Committed
<1>6. ASSUME NEW k \in Jobs PROVE Job(k, run[k], mine[k], schema, n)'
  <2>1. CASE k = j
    <3>1. run'[k].state = how /\ DOMAIN mine'[k] = {} /\ k \notin stamped'
      BY <1>0, <1>1, <2>1 DEF Idle
    <3>2. k \in overlapped' \/ how # "failed"
      BY <1>0, <2>1
    <3> QED
      BY <3>1, <3>2 DEF Job
  <2>2. CASE k # j
    <3>1. Job(k, run[k], mine[k], schema, n)
      BY <1>4
    <3>2. run'[k] = run[k] /\ mine'[k] = mine[k] /\ (k \in stamped' <=> k \in stamped)
      BY <1>0, <1>1, <2>2
    <3> QED
      BY <1>0, <3>1, <3>2 DEF Job
  <2> QED
    BY <2>1, <2>2
<1> QED
  BY <1>2, <1>3, <1>5, <1>6 DEF Inv, JobsInv

(* A statement: refused only to a run that was overtaken.                  *)
LEMMA ExecuteInv ==
    ASSUME Inv, NEW j \in Jobs, Execute(j)
    PROVE  Inv'
<1> DEFINE r == run[j]  m == mine[j]  s == Head(r.todo)
<1>1. /\ r.state = "running" /\ r.todo # <<>> /\ WaitsFor(j) = {}
  BY DEF Execute, Running
<1>2. r \in Run /\ r.todo \in Seq(Stmt) /\ DOMAIN m \subseteq Tables
  BY DEF Inv, RunsInv, Run
<1>3. PICK n : Committed(n) /\ \A k \in Jobs : Job(k, run[k], mine[k], schema, n)
  BY DEF Inv, JobsInv
<1>4. Job(j, r, m, schema, n)
  BY <1>3
<1>5. s \in Stmt /\ Tail(r.todo) \in Seq(Stmt)
  BY <1>1, <1>2, HeadTail
<1>6. CASE Accepted(View(j), s)
  <2> DEFINE q == run'[j]  M == Made(m, schema, s)
  <2>1. /\ mine' = [mine EXCEPT ![j] = M]
        /\ run' = [run EXCEPT ![j].todo = Tail(r.todo)]
        /\ schema' = schema /\ heads' = heads /\ stamped' = stamped /\ overlapped' = overlapped
    <3>1. /\ mine' = [mine EXCEPT ![j] = [t \in DOMAIN m \cup Touched(s) |->
                            IF t = s.table THEN Effect(View(j)[t], s) ELSE View(j)[t]]]
          /\ run' = [run EXCEPT ![j].todo = Tail(r.todo)]
          /\ schema' = schema /\ heads' = heads /\ stamped' = stamped /\ overlapped' = overlapped
      BY <1>6 DEF Execute
    <3> QED
      BY <3>1, ViewIs DEF Made
  <2>2. /\ q.state = r.state /\ q.read = r.read /\ q.at = r.at /\ q.target = r.target
        /\ q.todo = Tail(r.todo)
        /\ \A k \in Jobs : k # j => run'[k] = run[k] /\ mine'[k] = mine[k]
        /\ mine'[j] = M
    BY <2>1 DEF Inv, RunsInv, Run
  <2>3. DOMAIN M = DOMAIN m \cup Touched(s) /\ Touched(s) \subseteq Tables
    <3>1. s.table \in Tables /\ Refs[s.table] \subseteq Tables
      BY <1>5, RefsLines DEF Stmt, Tables
    <3> QED
      BY <3>1 DEF Made, Touched
  <2>4. RunsInv'
    <3>1. run' \in [Jobs -> Run]
      BY <1>5, <2>1 DEF Inv, RunsInv, Run
    <3>2. mine' = [k \in Jobs |-> mine'[k]] /\ \A k \in Jobs : DOMAIN mine'[k] \subseteq Tables
      BY <1>2, <2>1, <2>2, <2>3 DEF Inv, RunsInv
    <3> QED
      BY <2>1, <3>1, <3>2 DEF Inv, RunsInv
  <2>5. LocksInv'
    <3>1. \A k \in Jobs : k # j => Touched(s) \cap DOMAIN mine[k] = {}
      BY <1>1 DEF WaitsFor, Running
    <3>2. \A k, i \in Jobs : k # i => DOMAIN mine'[k] \cap DOMAIN mine'[i] = {}
      BY <2>2, <2>3, <3>1 DEF Inv, LocksInv
    <3> QED
      BY <2>1, <3>2 DEF Inv, LocksInv
  <2>6. Committed(n)'
    BY <1>3, <2>1 DEF Committed
  <2> HIDE DEF q, M
  <2>7. ASSUME NEW k \in Jobs PROVE Job(k, run[k], mine[k], schema, n)'
    <3>1. CASE k = j
      <4>1. OnCourse(r, m, schema, n) => OnCourse(q, M, schema, n)
        BY <1>1, <1>2, <2>2, CourseGoesOn DEF M
      <4>2. Unmoved(r, m, schema) => Unmoved(q, M, schema)
        <5>1. Completes(r, m, schema) => Completes(q, M, schema)
          BY <1>1, <1>2, <2>2, CompletesGoesOn DEF M
        <5> QED
          BY <1>1, <2>2, <5>1 DEF Unmoved
      <4>3. ~ Doomed(r, m, n)
        <5>1. SUFFICES ASSUME Doomed(r, m, n) PROVE FALSE
          OBVIOUS
        <5>2. n \in 2..8 /\ r.todo = Chain[2].upgrade /\ DOMAIN m = {}
          BY <5>1 DEF Doomed
        <5>3. s.op = "create_table" /\ s.table = "users" /\ SchemaAt(n)["users"] # {}
          BY <5>2, UsersThere
        <5>4. View(j)["users"] # {}
          <6>1. "users" \in Tables
            BY DEF Tables
          <6> QED
            BY <1>3, <5>2, <5>3, <6>1 DEF View, Committed
        <5> QED
          BY <1>6, <5>3, <5>4 DEF Accepted
      <4>4. Job(j, r, m, schema, n)
        BY <1>4
      <4> HIDE DEF r, m, s
      <4>5. Job(j, q, M, schema, n)
        BY <1>1, <2>2, <4>1, <4>2, <4>3, <4>4 DEF Job
      <4>6. run'[j] = q /\ mine'[j] = M
        BY <2>2 DEF q
      <4> QED
        BY <2>1, <3>1, <4>5, <4>6 DEF Job
    <3>2. CASE k # j
      <4>1. Job(k, run[k], mine[k], schema, n)
        BY <1>3
      <4>2. run'[k] = run[k] /\ mine'[k] = mine[k]
        BY <2>2, <3>2
      <4> QED
        BY <2>1, <4>1, <4>2 DEF Job
    <3> QED
      BY <3>1, <3>2
  <2> QED
    BY <2>4, <2>5, <2>6, <2>7 DEF Inv, JobsInv
<1>7. CASE ~ Accepted(View(j), s)
  <2>1. RollsBack(j, "failed")
    BY <1>7 DEF Execute
  <2>2. j \in overlapped
    <3>1. SUFFICES ASSUME j \notin overlapped PROVE FALSE
      OBVIOUS
    <3>2. OnCourse(r, m, schema, n)
      BY <1>1, <1>4, <3>1 DEF Job
    <3>3. Reaches(ViewOf(m, schema), r.todo, Goal(r.at, r.target))
      BY <3>2 DEF OnCourse
    <3>4. Fits(View(j), s)
      BY <1>1, <1>2, <3>3, ReachesStep, ViewIs
    <3>5. Accepted(View(j), s)
      BY <3>4 DEF Fits, Accepted
    <3> QED
      BY <1>7, <3>5
  <2> QED
    BY <2>1, <2>2, RollsBackInv DEF States
<1> QED
  BY <1>6, <1>7

(* The version row moves: only from the version the run was planned from,  *)
(* or from nothing although there is one.                                  *)
LEMMA StampInv ==
    ASSUME Inv, NEW j \in Jobs, Stamp(j)
    PROVE  Inv'
<1> DEFINE r == run[j]  m == mine[j]
<1>0. Newest = 8
  BY ChainLinks
<1>1. /\ r.state = "running" /\ r.todo = <<>> /\ r.at # r.target /\ stamped \ {j} = {}
  BY DEF Stamp, StepEnds, Running, WaitsFor
<1>2. /\ r \in Run /\ r.read \in 0..Newest /\ r.at \in 0..Newest /\ r.target \in 0..Newest
      /\ j \in DOMAIN run
  BY DEF Inv, RunsInv, Run
<1>3. PICK n : Committed(n) /\ \A k \in Jobs : Job(k, run[k], mine[k], schema, n)
  BY DEF Inv, JobsInv
<1>4. Job(j, r, m, schema, n) /\ n \in 0..Newest /\ heads = {n} \ {0} /\ schema = SchemaAt(n)
  BY <1>3 DEF Committed
<1>5. CASE Matches(j)
  <2> DEFINE q == run'[j]  at == Step(r.at, r.target)
  <2>1. /\ run' = [run EXCEPT ![j].at = at, ![j].todo = Todo(at, r.target)]
        /\ stamped' = stamped \cup {j}
        /\ schema' = schema /\ heads' = heads /\ mine' = mine /\ overlapped' = overlapped
    BY <1>5 DEF Stamp
  <2>2. /\ q.state = r.state /\ q.read = r.read /\ q.at = at /\ q.target = r.target
        /\ q.todo = Todo(at, r.target)
        /\ \A k \in Jobs : k # j => run'[k] = run[k]
    BY <2>1 DEF Inv, RunsInv, Run
  <2>3. at \in 0..Newest /\ Todo(at, r.target) \in Seq(Stmt)
        /\ Reaches(SchemaAt(at), Todo(at, r.target), Goal(at, r.target))
    BY <1>1, <1>2, TodoWorks
  <2> HIDE DEF at, q
  <2>4. RunsInv'
    <3>1. run' \in [Jobs -> Run]
      BY <2>1, <2>3 DEF Inv, RunsInv, Run
    <3> QED
      BY <2>1, <3>1 DEF Inv, RunsInv
  <2>5. LocksInv'
    BY <1>1, <2>1 DEF Inv, LocksInv
  <2>6. Committed(n)'
    BY <1>3, <2>1 DEF Committed
  <2>7. ViewOf(m, schema) = SchemaAt(at) /\ r.read = n => OnCourse(q, m, schema, n)
    BY <2>2, <2>3 DEF OnCourse
  <2>8. OnCourse(r, m, schema, n) => OnCourse(q, m, schema, n)
    <3>1. SUFFICES ASSUME OnCourse(r, m, schema, n) PROVE OnCourse(q, m, schema, n)
      OBVIOUS
    <3>2. ViewOf(m, schema) = Goal(r.at, r.target) /\ r.read = n
      BY <1>1, <3>1, ReachesEnd DEF OnCourse
    <3>3. Goal(r.at, r.target) = SchemaAt(at)
      BY <1>1 DEF Goal, at
    <3> QED
      BY <2>7, <3>2, <3>3
  <2>9. OnCourse(q, m, schema, n) \/ Doomed(q, m, n)
    <3>1. CASE j \in stamped
      <4>1. ~ Doomed(r, m, n)
        <5>1. 2 \in 2..8
          OBVIOUS
        <5> QED
          BY <1>1, <5>1, UsersThere DEF Doomed
      <4> QED
        BY <1>1, <1>4, <2>8, <3>1, <4>1 DEF Job
    <3>2. CASE j \notin stamped
      <4>1. Unmoved(r, m, schema)
        BY <1>1, <1>4, <3>2 DEF Job
      <4>2. r.at = r.read /\ r.read # r.target /\ Completes(r, m, schema)
            /\ (r.at = 0 => DOMAIN m = {})
        BY <4>1 DEF Unmoved
      <4>3. CASE r.read = n
        <5>1. ViewOf(m, schema) = SchemaAt(Step(r.read, r.target))
          BY <1>1, <1>2, <1>4, <4>2, <4>3, Completed
        <5> QED
          BY <2>7, <4>2, <4>3, <5>1 DEF at
      <4>4. CASE r.read # n
        <5>1. IF r.read = 0 THEN 1 \notin heads ELSE r.read \in heads
          BY <1>5, <3>2 DEF Matches
        <5>2. r.read = 0
          BY <1>4, <4>4, <5>1
        <5>3. 1 # n
          BY <1>4, <5>1, <5>2
        <5>4. n \in 2..8
          BY <1>0, <1>4, <4>4, <5>2, <5>3
        <5>5. r.target = Newest
          BY <1>1, <1>2, <1>4, <5>2 DEF Job
        <5>6. at = 1 /\ Todo(1, Newest) = Chain[2].upgrade
          BY <1>0, <4>2, <5>2, <5>5 DEF at, Step, Todo
        <5> QED
          BY <2>2, <4>2, <5>2, <5>4, <5>5, <5>6 DEF Doomed
      <4> QED
        BY <4>3, <4>4
    <3> QED
      BY <3>1, <3>2
  <2>10. ASSUME NEW k \in Jobs PROVE Job(k, run[k], mine[k], schema, n)'
    <3>1. CASE k = j
      <4>1. run'[j] = q /\ mine'[j] = m /\ j \in stamped' /\ overlapped' = overlapped
            /\ schema' = schema
        BY <2>1 DEF q
      <4>2. q.state = "running" /\ (q.target = Newest \/ q.target < q.read)
            /\ (j \in overlapped \/ OnCourse(q, m, schema, n))
        BY <1>1, <1>4, <2>2, <2>8 DEF Job
      <4> QED
        BY <2>9, <3>1, <4>1, <4>2 DEF Job
    <3>2. CASE k # j
      <4>1. Job(k, run[k], mine[k], schema, n)
        BY <1>3
      <4>2. run'[k] = run[k] /\ mine'[k] = mine[k] /\ (k \in stamped' <=> k \in stamped)
        BY <2>1, <2>2, <3>2
      <4> QED
        BY <2>1, <4>1, <4>2 DEF Job
    <3> QED
      BY <3>1, <3>2
  <2> QED
    BY <2>4, <2>5, <2>6, <2>10 DEF Inv, JobsInv
<1>6. CASE ~ Matches(j)
  <2>1. RollsBack(j, "failed")
    BY <1>6 DEF Stamp
  <2>2. j \in overlapped
    <3>1. SUFFICES ASSUME j \notin overlapped PROVE FALSE
      OBVIOUS
    <3>2. r.read = n
      BY <1>1, <1>4, <3>1 DEF Job, OnCourse
    <3>3. IF r.read = 0 THEN 1 \notin heads ELSE r.read \in heads
      BY <1>0, <1>4, <3>2
    <3> QED
      BY <1>6, <3>3 DEF Matches
  <2> QED
    BY <2>1, <2>2, RollsBackInv DEF States
<1> QED
  BY <1>5, <1>6

(* A run commits the revision that it has reached, and every other one     *)
(* that is running has been overtaken.                                     *)
LEMMA CommitInv ==
    ASSUME Inv, NEW j \in Jobs, Commit(j)
    PROVE  Inv'
<1> DEFINE r == run[j]  m == mine[j]
<1>0. Newest = 8
  BY ChainLinks
<1>1. /\ r.state = "running" /\ r.todo = <<>> /\ r.at = r.target
      /\ schema' = View(j) /\ heads' = (heads \ {r.read}) \cup ({r.at} \ {0})
      /\ overlapped' = overlapped \cup {k \in Jobs \ {j} : Running(k)}
      /\ run' = [run EXCEPT ![j] = Idle("done")] /\ mine' = [mine EXCEPT ![j] = <<>>]
      /\ stamped' = stamped \ {j}
  BY DEF Commit, Running, Ends
<1>2. r.at \in 0..Newest
  BY DEF Inv, RunsInv, Run
<1>3. PICK n : Committed(n) /\ \A k \in Jobs : Job(k, run[k], mine[k], schema, n)
  BY DEF Inv, JobsInv
<1>4. Job(j, r, m, schema, n) /\ n \in 0..Newest /\ heads = {n} \ {0} /\ schema = SchemaAt(n)
  BY <1>3 DEF Committed
<1>5. /\ run'[j] = Idle("done") /\ mine'[j] = <<>> /\ DOMAIN <<>> = {}
      /\ \A k \in Jobs : k # j => run'[k] = run[k] /\ mine'[k] = mine[k]
  BY <1>1 DEF Inv, RunsInv
<1>6. j \in stamped
  BY <1>1, <1>4 DEF Job, Unmoved
<1>7. OnCourse(r, m, schema, n)
  <2>1. ~ Doomed(r, m, n)
    <3>1. 2 \in 2..8
      OBVIOUS
    <3> QED
      BY <1>1, <3>1, UsersThere DEF Doomed
  <2> QED
    BY <1>1, <1>4, <1>6, <2>1 DEF Job
<1>8. r.read = n /\ View(j) = SchemaAt(r.at)
  BY <1>1, <1>7, ReachesEnd, ViewIs DEF OnCourse, Goal
<1>9. RunsInv'
  <2>1. Idle("done") \in Run
    <3>1. 0 \in 0..Newest /\ <<>> \in Seq(Stmt) /\ "done" \in States
      BY <1>0 DEF States
    <3> QED
      BY <3>1 DEF Idle, Run
  <2>2. run' \in [Jobs -> Run]
    BY <1>1, <2>1 DEF Inv, RunsInv
  <2>3. mine' = [k \in Jobs |-> mine'[k]] /\ \A k \in Jobs : DOMAIN mine'[k] \subseteq Tables
    BY <1>1, <1>5 DEF Inv, RunsInv
  <2>4. stamped' \subseteq Jobs
    BY <1>1 DEF Inv, RunsInv
  <2> QED
    BY <2>2, <2>3, <2>4 DEF RunsInv
<1>10. LocksInv'
  BY <1>1, <1>5 DEF Inv, LocksInv
<1>11. PICK a : a = r.at
  OBVIOUS
<1>12. Committed(a)'
  <2>1. heads' = {a} \ {0}
    BY <1>1, <1>4, <1>8, <1>11
  <2> QED
    BY <1>1, <1>2, <1>8, <1>11, <2>1 DEF Committed
<1>13. ASSUME NEW k \in Jobs PROVE Job(k, run[k], mine[k], schema, a)'
  <2>1. CASE k = j
    <3>1. run'[k].state = "done" /\ DOMAIN mine'[k] = {} /\ k \notin stamped'
      BY <1>1, <1>5, <2>1 DEF Idle
    <3> QED
      BY <3>1 DEF Job
  <2>2. CASE k # j
    <3>1. Job(k, run[k], mine[k], schema, n)
      BY <1>3
    <3>2. /\ run'[k] = run[k] /\ mine'[k] = mine[k] /\ k \notin stamped /\ k \notin stamped'
          /\ (run[k].state = "running" => k \in overlapped')
          /\ (k \in overlapped => k \in overlapped')
      BY <1>1, <1>5, <1>6, <2>2 DEF Inv, LocksInv, Running
    <3>3. Unmoved(run[k], mine[k], schema) => Unmoved(run[k], mine[k], schema')
      <4>1. \A t \in DOMAIN mine[k] : schema'[t] = schema[t]
        <5>1. \A t \in DOMAIN mine[k] : t \in Tables /\ t \notin DOMAIN m
          BY <2>2 DEF Inv, RunsInv, LocksInv
        <5> QED
          BY <1>1, <5>1 DEF View
      <4>2. Completes(run[k], mine[k], schema) => Completes(run[k], mine[k], schema')
        BY <4>1, CompletesElsewhere
      <4> QED
        BY <4>2 DEF Unmoved
    <3>4. /\ run[k].state # "running" => DOMAIN mine[k] = {}
          /\ run[k].state = "failed" => k \in overlapped
          /\ run[k].state = "running" => /\ run[k].target = Newest \/ run[k].target < run[k].read
                                         /\ Unmoved(run[k], mine[k], schema)
      BY <3>1, <3>2 DEF Job
    <3> QED
      BY <3>2, <3>3, <3>4 DEF Job
  <2> QED
    BY <2>1, <2>2
<1> QED
  BY <1>9, <1>10, <1>12, <1>13 DEF Inv, JobsInv

(* A run is planned from the version that is committed.                    *)
LEMMA BeginInv ==
    ASSUME Inv, NEW j \in Jobs, NEW target \in DownTo \cup {Newest}, Begin(j, target)
    PROVE  Inv'
<1>0. Newest = 8
  BY ChainLinks
<1>1. target \in 0..Newest
  BY <1>0, MigrationsAssumption
<1>2. PICK n : Committed(n) /\ \A k \in Jobs : Job(k, run[k], mine[k], schema, n)
  BY DEF Inv, JobsInv
<1>3. Current = n
  BY <1>2, CurrentIs
<1> DEFINE q == [state |-> "running", target |-> target, read |-> n, at |-> n,
                 todo |-> Todo(n, target)]
<1>4. /\ run[j].state # "running" /\ (target = Newest \/ target < n) /\ target # n
      /\ run' = [run EXCEPT ![j] = q] /\ overlapped' = overlapped \ {j}
      /\ schema' = schema /\ heads' = heads /\ mine' = mine /\ stamped' = stamped
  BY <1>3 DEF Begin, Running
<1>5. n \in 0..Newest /\ schema = SchemaAt(n) /\ DOMAIN mine[j] = {} /\ j \notin stamped
  BY <1>2, <1>4 DEF Committed, Job
<1>6. /\ Todo(n, target) \in Seq(Stmt)
      /\ Reaches(SchemaAt(n), Todo(n, target), Goal(n, target))
  BY <1>1, <1>5, TodoWorks
<1>7. /\ q.state = "running" /\ q.target = target /\ q.read = n /\ q.at = n
      /\ q.todo = Todo(n, target) /\ q \in Run
  BY <1>1, <1>5, <1>6 DEF Run, States
<1> HIDE DEF q
<1>8. /\ run'[j] = q /\ mine'[j] = mine[j]
      /\ \A k \in Jobs : k # j => run'[k] = run[k] /\ mine'[k] = mine[k]
  BY <1>4 DEF Inv, RunsInv
<1>9. RunsInv'
  BY <1>4, <1>7 DEF Inv, RunsInv
<1>10. LocksInv'
  BY <1>4 DEF Inv, LocksInv
<1>11. Committed(n)'
  BY <1>2, <1>4 DEF Committed
<1>12. ASSUME NEW k \in Jobs PROVE Job(k, run[k], mine[k], schema, n)'
  <2>1. CASE k = j
    <3>1. Completes(q, mine[j], schema) /\ ViewOf(mine[j], schema) = schema
      <4>1. schema = [t \in Tables |-> schema[t]]
        BY <1>5 DEF SchemaAt
      <4>2. q.todo = Todo(q.read, q.target) /\ DOMAIN mine[j] = {}
        BY <1>5, <1>7
      <4> QED
        BY <4>1, <4>2, CompletesAtFirst
    <3>2. OnCourse(q, mine[j], schema, n)
      BY <1>5, <1>6, <1>7, <3>1 DEF OnCourse
    <3>3. Unmoved(q, mine[j], schema)
      <4>1. n = 0 => Todo(n, target) = <<>>
        <5>1. SUFFICES ASSUME n = 0 PROVE Todo(0, target) = <<>>
          OBVIOUS
        <5>2. 0 < target
          BY <1>1, <1>4, <5>1
        <5>3. Todo(0, target) = Chain[1].upgrade
          BY <5>2 DEF Todo
        <5> QED
          BY <5>3, ChainLinks DEF bb91eeb72b09, Revision
      <4> QED
        BY <1>4, <1>5, <1>7, <3>1, <4>1 DEF Unmoved
    <3> QED
      BY <1>4, <1>5, <1>7, <1>8, <2>1, <3>2, <3>3 DEF Job
  <2>2. CASE k # j
    <3>1. Job(k, run[k], mine[k], schema, n)
      BY <1>2
    <3>2. run'[k] = run[k] /\ mine'[k] = mine[k] /\ (k \in overlapped' <=> k \in overlapped)
      BY <1>4, <1>8, <2>2
    <3> QED
      BY <1>4, <3>1, <3>2 DEF Job
  <2> QED
    BY <2>1, <2>2
<1> QED
  BY <1>9, <1>10, <1>11, <1>12 DEF Inv, JobsInv

(* The invariant looks neither at the rows nor at the counters.            *)
LEMMA FrameInv ==
    ASSUME Inv, UNCHANGED <<schema, heads, run, mine, stamped, overlapped>>
    PROVE  Inv'
<1>1. PICK n : Committed(n) /\ \A k \in Jobs : Job(k, run[k], mine[k], schema, n)
  BY DEF Inv, JobsInv
<1>2. Committed(n)' /\ \A k \in Jobs : Job(k, run[k], mine[k], schema, n)'
  BY <1>1 DEF Committed, Job
<1>3. RunsInv' /\ LocksInv'
  BY DEF Inv, RunsInv, LocksInv
<1> QED
  BY <1>2, <1>3 DEF Inv, JobsInv

(* Every step keeps the invariant.                                         *)
LEMMA NextInv == Inv /\ [Next]_vars => Inv'
<1> SUFFICES ASSUME Inv, [Next]_vars PROVE Inv'
  OBVIOUS
<1>1. ASSUME NEW j \in Jobs, Execute(j) PROVE Inv'
  BY <1>1, ExecuteInv
<1>2. ASSUME NEW j \in Jobs, Stamp(j) PROVE Inv'
  BY <1>2, StampInv
<1>3. ASSUME NEW j \in Jobs, Commit(j) PROVE Inv'
  BY <1>3, CommitInv
<1>4. ASSUME NEW j \in Jobs, Deadlock(j) PROVE Inv'
  BY <1>4, RollsBackInv DEF Deadlock, States
<1>5. ASSUME NEW j \in Jobs, Crash(j) PROVE Inv'
  BY <1>5, RollsBackInv DEF Crash, States
<1>6. ASSUME NEW j \in Jobs, NEW target \in DownTo \cup {Newest}, Begin(j, target) PROVE Inv'
  BY <1>6, BeginInv
<1>7. ASSUME NEW t, Write(t) PROVE Inv'
  BY <1>7, FrameInv DEF Write
<1>8. CASE UNCHANGED vars
  BY <1>8, FrameInv DEF vars
<1> QED
  BY <1>1, <1>2, <1>3, <1>4, <1>5, <1>6, <1>7, <1>8 DEF Next, RunStep

(* So it always holds.                                                    *)
LEMMA AlwaysInv == Spec => []Inv
  BY InitInv, NextInv, PTL DEF Spec

(* However the runs of any number of jobs overlap, wait, fail or are       *)
(* killed, and whatever downgrades there are between them, the committed   *)
(* version is one revision, the committed schema is what the upgrades of   *)
(* alembic/versions make up to it, and at the head that is what the models *)
(* of app/db/models declare.                                               *)
THEOREM VersionAlwaysMatchesSchema == Spec => []VersionMatchesSchema
<1>1. Inv => VersionMatchesSchema
  <2> SUFFICES ASSUME Inv PROVE VersionMatchesSchema
    OBVIOUS
  <2>1. PICK n : Committed(n)
    BY DEF Inv, JobsInv
  <2>2. Current = n
    BY <2>1, CurrentIs
  <2>3. heads \subseteq {n} /\ schema = SchemaAt(n)
    BY <2>1 DEF Committed
  <2>4. n = Newest => schema = Models
    BY <2>3, ModelsAreTheHead
  <2> QED
    BY <2>2, <2>3, <2>4 DEF VersionMatchesSchema
<1> QED
  BY <1>1, AlwaysInv, PTL

(* A run of alembic fails only when another one committed while it ran: no *)
(* statement of the eight revisions is refused because of its order, of    *)
(* what an earlier downgrade left or of the rows in the tables, and the    *)
(* version row is where an undisturbed run expects it.                     *)
THEOREM RunsFailOnlyByOverlap == Spec => []FailsOnlyByOverlap
<1>1. Inv => FailsOnlyByOverlap
  <2> SUFFICES ASSUME Inv, NEW j \in Jobs, run[j].state = "failed" PROVE j \in overlapped
    BY DEF FailsOnlyByOverlap
  <2>1. PICK n : \A k \in Jobs : Job(k, run[k], mine[k], schema, n)
    BY DEF Inv, JobsInv
  <2> QED
    BY <2>1 DEF Job
<1> QED
  BY <1>1, AlwaysInv, PTL
=============================================================================
