---------------------------- MODULE CacheProofs -----------------------------
(***************************************************************************)
(* Theorems about BalanceCache for any number of readers, writers, users   *)
(* and wallets.  The argument for freshness: while Redis answers and no    *)
(* late store raced, a cached balance is never older than the last one     *)
(* confirmed to a writer's client, because the DELETE comes first; and     *)
(* what a reader loads from the database never is.  For the owners: only   *)
(* readers fill the cache, each the key of the wallet it named with the    *)
(* row of that wallet, so the cached user_id is the owner's.               *)
(***************************************************************************)
EXTENDS BalanceCache, TLAPS

USE CacheAssumption

(* A payload that the row of wallet w has given, when its balance was at   *)
(* most n.                                                                 *)
Genuine(w, p, n) ==
    p \in Payload /\ p.id = w /\ p.user_id = Owner[w] /\ p.balance <= n

(* Balances and the bookkeeping of the requests are numbers of writes.     *)
CacheShape ==
    /\ rpc \in [Readers -> {"start", "get", "load", "set", "done"}]
    /\ wpc \in [Writers -> {"commit", "invalidate", "done", "died"}]
    /\ balance \in [Wallets -> Nat] /\ cache \in [Wallets -> Payload \cup {Miss}]
    /\ loaded \in [Readers -> Payload \cup {Miss}] /\ atStart \in [Readers -> Nat]
    /\ answer \in [Readers -> [status : {0, 200, 404}, about : Payload \cup {Miss}]]
    /\ wrote \in [Writers -> [Wallets -> Nat]] /\ confirmed \in [Wallets -> Nat]
    /\ raced \subseteq Wallets /\ outages \in Nat

(* Nothing was written, confirmed or seen at a reader's start that the     *)
(* committed balance does not include, and a writer confirms only the      *)
(* wallets it touched.                                                     *)
BalanceIsLatest ==
    /\ \A w \in Wallets : confirmed[w] <= balance[w]
    /\ \A x \in Writers, w \in Wallets :
          /\ wrote[x][w] <= balance[w]
          /\ wpc[x] = "invalidate" /\ w \notin Touches[x] => wrote[x][w] = 0
    /\ \A r \in Readers : atStart[r] <= confirmed[Wallet(r)]

(* A reader that is about to store and answer is the owner and holds the   *)
(* wallet's row as it was at its start or later.                           *)
LoadedIsFresh ==
    \A r \in Readers : rpc[r] = "set" =>
       /\ Owner[Wallet(r)] = ReadOf[r].user
       /\ Genuine(Wallet(r), loaded[r], balance[Wallet(r)])
       /\ loaded[r].balance >= atStart[r]

(* Under each key is a payload from that wallet's row.                     *)
CacheIsGenuine ==
    \A w \in Wallets : cache[w] # Miss => Genuine(w, cache[w], balance[w])

(* No answer yet before the end.                                           *)
NotAnswered == \A r \in Readers : rpc[r] # "done" => answer[r].status = 0

(* A cached balance includes every confirmed write, unless a late store    *)
(* raced or Redis failed.                                                  *)
CacheIsFresh ==
    outages = 0 => \A w \in Wallets \ raced : cache[w] # Miss => cache[w].balance >= confirmed[w]

(* The inductive invariant of the module.                                  *)
CacheInv ==
    /\ CacheShape /\ BalanceIsLatest /\ LoadedIsFresh /\ NotAnswered
    /\ CacheIsGenuine /\ CacheIsFresh
    /\ OwnersOnly /\ FreshUnlessRaced

(* The larger of two numbers.                                              *)
LEMMA MaxOfTwo ==
    ASSUME NEW a \in Nat, NEW b \in Nat
    PROVE  Max({a, b}) \in {a, b} /\ Max({a, b}) >= a /\ Max({a, b}) >= b
<1>1. \E x \in {a, b} : \A y \in {a, b} : x >= y
  <2>1. CASE a >= b
    BY <2>1
  <2>2. CASE b >= a
    BY <2>2
  <2> QED
    BY <2>1, <2>2
<1>2. Max({a, b}) \in {a, b} /\ \A y \in {a, b} : Max({a, b}) >= y
  BY <1>1 DEF Max
<1> QED
  BY <1>2

(* What the assumptions say of a reader.                                   *)
LEMMA ReadersWallet ==
    ASSUME NEW r \in Readers
    PROVE  Wallet(r) \in Wallets
  BY DEF Wallet

(* What a row gives stays genuine while the balance grows.                 *)
LEMMA StaysGenuine ==
    ASSUME NEW w, NEW p, NEW m \in Nat, NEW n \in Nat, m <= n, Genuine(w, p, m)
    PROVE  Genuine(w, p, n)
  BY DEF Genuine, Payload

(* A row is a genuine payload of its wallet.                               *)
LEMMA RowIsGenuine ==
    ASSUME CacheShape, NEW w \in Wallets
    PROVE  /\ Genuine(w, Row(w), balance[w])
           /\ Row(w) \in Payload /\ Row(w).user_id = Owner[w] /\ Row(w).balance = balance[w]
  BY DEF Genuine, Row, Payload, CacheShape

(* An empty cache, and nothing written.                                    *)
LEMMA CacheInit == Init => CacheInv
<1> SUFFICES ASSUME Init PROVE CacheInv
  OBVIOUS
<1>1. /\ rpc = [r \in Readers |-> "start"] /\ wpc = [x \in Writers |-> "commit"]
      /\ balance = [w \in Wallets |-> 0] /\ cache = [w \in Wallets |-> Miss]
      /\ loaded = [r \in Readers |-> Miss] /\ atStart = [r \in Readers |-> 0]
      /\ answer = [r \in Readers |-> [status |-> 0, about |-> Miss]]
      /\ wrote = [x \in Writers |-> [w \in Wallets |-> 0]] /\ confirmed = [w \in Wallets |-> 0]
      /\ raced = {} /\ outages = 0
  BY DEF Init, NoAnswer
<1>2. CacheShape
  BY <1>1 DEF CacheShape
<1>3. BalanceIsLatest
  BY <1>1, ReadersWallet DEF BalanceIsLatest
<1>4. LoadedIsFresh /\ NotAnswered /\ CacheIsGenuine /\ CacheIsFresh
  BY <1>1 DEF LoadedIsFresh, NotAnswered, CacheIsGenuine, CacheIsFresh
<1>5. OwnersOnly /\ FreshUnlessRaced
  BY <1>1 DEF OwnersOnly, FreshUnlessRaced
<1> QED
  BY <1>2, <1>3, <1>4, <1>5 DEF CacheInv

(* A step of reader r that answers nobody and leaves the cache alone.      *)
LEMMA ReaderGoesOn ==
    ASSUME CacheInv, NEW r \in Readers, rpc[r] # "done",
           NEW at \in {"get", "load", "set"}, rpc' = [rpc EXCEPT ![r] = at],
           NEW s \in Nat, atStart' = [atStart EXCEPT ![r] = s], s <= confirmed[Wallet(r)],
           NEW l \in Payload \cup {Miss}, loaded' = [loaded EXCEPT ![r] = l],
           at = "set" => /\ Owner[Wallet(r)] = ReadOf[r].user
                         /\ Genuine(Wallet(r), l, balance[Wallet(r)]) /\ l.balance >= s,
           outages' \in Nat, outages' = 0 => outages = 0,
           UNCHANGED <<answer, writers, balance, cache, raced>>
    PROVE  CacheInv'
<1>1. UNCHANGED <<wpc, wrote, confirmed, answer, balance, cache, raced>>
  BY DEF writers
<1>2. /\ rpc'[r] = at /\ atStart'[r] = s /\ loaded'[r] = l
      /\ \A q \in Readers \ {r} : /\ rpc'[q] = rpc[q] /\ atStart'[q] = atStart[q]
                                  /\ loaded'[q] = loaded[q]
  BY DEF CacheInv, CacheShape
<1>3. CacheShape'
  BY <1>1 DEF CacheInv, CacheShape
<1>4. BalanceIsLatest'
  BY <1>1, <1>2 DEF CacheInv, BalanceIsLatest
<1>5. LoadedIsFresh' /\ NotAnswered' /\ CacheIsGenuine' /\ CacheIsFresh'
  BY <1>1, <1>2 DEF CacheInv, LoadedIsFresh, NotAnswered, CacheIsGenuine, CacheIsFresh
<1>6. OwnersOnly'
  BY <1>1 DEF CacheInv, OwnersOnly
<1>7. FreshUnlessRaced'
  <2>1. answer[r].status # 200
    BY DEF CacheInv, NotAnswered
  <2> QED
    BY <1>1, <1>2, <2>1 DEF CacheInv, FreshUnlessRaced
<1> QED
  BY <1>3, <1>4, <1>5, <1>6, <1>7 DEF CacheInv

(* Reader r is answered; it may store what it loaded.                      *)
LEMMA ReaderAnswered ==
    ASSUME CacheInv, NEW r \in Readers,
           NEW st \in {200, 404}, NEW p \in Payload \cup {Miss},
           Answer(r, [status |-> st, about |-> p]),
           st = 200 => /\ Owner[Wallet(r)] = ReadOf[r].user
                       /\ Genuine(Wallet(r), p, balance[Wallet(r)]),
           cache' \in [Wallets -> Payload \cup {Miss}],
           \A w \in Wallets : cache'[w] # Miss => Genuine(w, cache'[w], balance[w]),
           raced' \subseteq Wallets, raced \subseteq raced',
           outages' \in Nat, outages' = 0 => outages = 0,
           outages' = 0 => \A w \in Wallets \ raced' :
                              cache'[w] # Miss => cache'[w].balance >= confirmed[w],
           outages' = 0 /\ st = 200 /\ Wallet(r) \notin raced' => p.balance >= atStart[r],
           UNCHANGED <<atStart, loaded, writers, balance>>
    PROVE  CacheInv'
<1>1. UNCHANGED <<wpc, wrote, confirmed, atStart, loaded, balance>>
  BY DEF writers
<1>2. /\ answer' = [answer EXCEPT ![r] = [status |-> st, about |-> p]]
      /\ rpc' = [rpc EXCEPT ![r] = "done"]
  BY DEF Answer
<1>3. /\ rpc'[r] = "done" /\ answer'[r].status = st /\ answer'[r].about = p
      /\ \A q \in Readers \ {r} : rpc'[q] = rpc[q] /\ answer'[q] = answer[q]
  BY <1>2 DEF CacheInv, CacheShape
<1>4. CacheShape'
  <2>1. [status |-> st, about |-> p] \in [status : {0, 200, 404}, about : Payload \cup {Miss}]
    OBVIOUS
  <2> QED
    BY <1>1, <1>2, <2>1 DEF CacheInv, CacheShape
<1>5. BalanceIsLatest' /\ LoadedIsFresh' /\ NotAnswered'
  <2>1. BalanceIsLatest'
    <3>1. BalanceIsLatest
      BY DEF CacheInv
    <3> QED
      BY <1>1, <3>1 DEF BalanceIsLatest
  <2>2. LoadedIsFresh'
    <3>1. LoadedIsFresh
      BY DEF CacheInv
    <3> QED
      BY <1>1, <1>3, <3>1 DEF LoadedIsFresh
  <2>3. NotAnswered'
    BY <1>3 DEF CacheInv, NotAnswered
  <2> QED
    BY <2>1, <2>2, <2>3
<1>6. CacheIsGenuine' /\ CacheIsFresh'
  BY <1>1 DEF CacheIsGenuine, CacheIsFresh
<1>7. OwnersOnly'
  <2>1. st = 200 => p.id = Wallet(r) /\ p.balance \in 0..balance[Wallet(r)]
    BY DEF Genuine, Payload
  <2> QED
    BY <1>1, <1>3, <2>1 DEF CacheInv, OwnersOnly
<1>8. FreshUnlessRaced'
  BY <1>1, <1>3 DEF CacheInv, FreshUnlessRaced
<1> QED
  BY <1>4, <1>5, <1>6, <1>7, <1>8 DEF CacheInv

(* A variable a step of r leaves alone.                                    *)
LEMMA Untouched ==
    ASSUME CacheShape, NEW r \in Readers
    PROVE  /\ atStart = [atStart EXCEPT ![r] = atStart[r]] /\ atStart[r] \in Nat
           /\ loaded = [loaded EXCEPT ![r] = loaded[r]] /\ loaded[r] \in Payload \cup {Miss}
           /\ outages \in Nat /\ (Outage => outages' \in Nat /\ outages' # 0)
  BY DEF CacheShape, Outage

(* A read, from its arrival to its answer.                                 *)
LEMMA ReadKeeps ==
    ASSUME CacheInv, NEW r \in Readers, ReadStep(r)
    PROVE  CacheInv'
<1>1. /\ Wallet(r) \in Wallets /\ balance[Wallet(r)] \in Nat /\ confirmed[Wallet(r)] \in Nat
      /\ atStart[r] \in Nat /\ loaded[r] \in Payload \cup {Miss}
      /\ atStart[r] <= confirmed[Wallet(r)] /\ confirmed[Wallet(r)] <= balance[Wallet(r)]
  BY ReadersWallet DEF CacheInv, CacheShape, BalanceIsLatest
<1>2. /\ CacheShape /\ raced \subseteq Wallets /\ cache \in [Wallets -> Payload \cup {Miss}]
      /\ \A w \in Wallets : cache[w] # Miss => Genuine(w, cache[w], balance[w])
      /\ outages = 0 => \A w \in Wallets \ raced :
                           cache[w] # Miss => cache[w].balance >= confirmed[w]
  BY DEF CacheInv, CacheShape, CacheIsGenuine, CacheIsFresh
<1>3. CASE Arrive(r)
  <2>1. /\ rpc[r] = "start" /\ rpc' = [rpc EXCEPT ![r] = "get"]
        /\ atStart' = [atStart EXCEPT ![r] = confirmed[Wallet(r)]]
        /\ UNCHANGED <<loaded, answer, writers, balance, cache, raced, outages>>
    BY <1>3 DEF Arrive
  <2>2. /\ loaded' = [loaded EXCEPT ![r] = loaded[r]] /\ outages' \in Nat /\ outages' = outages
        /\ confirmed[Wallet(r)] <= confirmed[Wallet(r)]
    BY <1>1, <1>2, <2>1, Untouched
  <2> QED
    BY <1>1, <2>1, <2>2, ReaderGoesOn
<1>4. CASE Hit(r)
  <2>1. /\ cache[Wallet(r)] # Miss
        /\ Answer(r, IF cache[Wallet(r)].user_id = ReadOf[r].user
                       THEN Ok(cache[Wallet(r)]) ELSE NotFound)
        /\ UNCHANGED <<loaded, atStart, writers, balance, cache, raced, outages>>
    BY <1>4 DEF Hit
  <2>2. /\ Genuine(Wallet(r), cache[Wallet(r)], balance[Wallet(r)])
        /\ cache[Wallet(r)] \in Payload /\ cache[Wallet(r)].balance \in Nat
        /\ cache[Wallet(r)].user_id = Owner[Wallet(r)]
        /\ outages = 0 /\ Wallet(r) \notin raced => cache[Wallet(r)].balance >= confirmed[Wallet(r)]
    BY <1>1, <1>2, <2>1 DEF Genuine, Payload
  <2>3. outages = 0 /\ Wallet(r) \notin raced => cache[Wallet(r)].balance >= atStart[r]
    BY <1>1, <2>2
  <2>4. CASE cache[Wallet(r)].user_id = ReadOf[r].user
    <3>1. /\ Answer(r, [status |-> 200, about |-> cache[Wallet(r)]])
          /\ Owner[Wallet(r)] = ReadOf[r].user
      BY <2>1, <2>2, <2>4 DEF Ok
    <3> QED
      BY <1>2, <2>1, <2>2, <2>3, <3>1, Untouched, ReaderAnswered
  <2>5. CASE cache[Wallet(r)].user_id # ReadOf[r].user
    <3>1. Answer(r, [status |-> 404, about |-> Miss])
      BY <2>1, <2>5 DEF NotFound
    <3> QED
      BY <1>2, <2>1, <3>1, Untouched, ReaderAnswered
  <2> QED
    BY <2>4, <2>5
<1>5. CASE MissOrDown(r)
  <2>1. /\ rpc[r] = "get" /\ rpc' = [rpc EXCEPT ![r] = "load"]
        /\ outages' = outages \/ Outage
        /\ UNCHANGED <<loaded, answer, atStart, writers, balance, cache, raced>>
    BY <1>5 DEF MissOrDown
  <2>2. /\ loaded' = [loaded EXCEPT ![r] = loaded[r]] /\ atStart' = [atStart EXCEPT ![r] = atStart[r]]
        /\ outages' \in Nat /\ (outages' = 0 => outages = 0)
    BY <1>2, <2>1, Untouched
  <2> QED
    BY <1>1, <2>1, <2>2, ReaderGoesOn
<1>6. CASE Load(r)
  <2>1. rpc[r] = "load" /\ UNCHANGED <<atStart, writers, balance, cache, raced, outages>>
    BY <1>6 DEF Load
  <2>2. /\ Genuine(Wallet(r), Row(Wallet(r)), balance[Wallet(r)]) /\ Row(Wallet(r)) \in Payload
        /\ Row(Wallet(r)).user_id = Owner[Wallet(r)] /\ Row(Wallet(r)).balance >= atStart[r]
    BY <1>1, <1>2, RowIsGenuine
  <2>3. CASE Row(Wallet(r)).user_id = ReadOf[r].user
    <3>1. /\ loaded' = [loaded EXCEPT ![r] = Row(Wallet(r))]
          /\ rpc' = [rpc EXCEPT ![r] = "set"] /\ UNCHANGED answer
      BY <1>6, <2>3 DEF Load
    <3>2. Owner[Wallet(r)] = ReadOf[r].user
      BY <2>2, <2>3
    <3> QED
      BY <1>1, <1>2, <2>1, <2>2, <3>1, <3>2, Untouched, ReaderGoesOn
  <2>4. CASE Row(Wallet(r)).user_id # ReadOf[r].user
    <3>1. Answer(r, [status |-> 404, about |-> Miss]) /\ UNCHANGED loaded
      BY <1>6, <2>4 DEF Load, NotFound
    <3> QED
      BY <1>2, <2>1, <3>1, Untouched, ReaderAnswered
  <2> QED
    BY <2>3, <2>4
<1>7. CASE Set(r)
  <2>1. /\ rpc[r] = "set" /\ Answer(r, [status |-> 200, about |-> loaded[r]])
        /\ \/ /\ cache' = [cache EXCEPT ![Wallet(r)] = loaded[r]]
              /\ raced' = IF loaded[r].balance < confirmed[Wallet(r)]
                          THEN raced \cup {Wallet(r)} ELSE raced
              /\ UNCHANGED outages
           \/ Outage /\ UNCHANGED <<cache, raced>>
        /\ UNCHANGED <<loaded, atStart, writers, balance>>
    BY <1>7 DEF Set, Ok
  <2>2. /\ Owner[Wallet(r)] = ReadOf[r].user /\ loaded[r].balance >= atStart[r]
        /\ Genuine(Wallet(r), loaded[r], balance[Wallet(r)])
    BY <2>1 DEF CacheInv, LoadedIsFresh
  <2>3. loaded[r] \in Payload /\ loaded[r].balance \in Nat
    BY <2>2 DEF Genuine, Payload
  <2>4. /\ raced' \subseteq Wallets /\ raced \subseteq raced'
        /\ cache' \in [Wallets -> Payload \cup {Miss}]
        /\ outages' \in Nat /\ (outages' = 0 => outages = 0)
    BY <1>1, <1>2, <2>1, <2>3, Untouched
  <2>5. \A w \in Wallets : cache'[w] # Miss => Genuine(w, cache'[w], balance[w])
    BY <1>1, <1>2, <2>1, <2>2
  <2>6. ASSUME outages' = 0, NEW w \in Wallets \ raced', cache'[w] # Miss
        PROVE  cache'[w].balance >= confirmed[w]
    <3>1. /\ cache' = [cache EXCEPT ![Wallet(r)] = loaded[r]]
          /\ raced' = IF loaded[r].balance < confirmed[Wallet(r)]
                      THEN raced \cup {Wallet(r)} ELSE raced
          /\ \A v \in Wallets \ raced : cache[v] # Miss => cache[v].balance >= confirmed[v]
      BY <1>2, <2>1, <2>6, Untouched
    <3>2. CASE w = Wallet(r)
      <4>1. cache'[w] = loaded[r] /\ ~(loaded[r].balance < confirmed[w])
        BY <1>1, <1>2, <2>6, <3>1, <3>2
      <4> QED
        BY <1>1, <2>3, <3>2, <4>1
    <3>3. CASE w # Wallet(r)
      <4>1. cache'[w] = cache[w] /\ w \notin raced
        BY <1>2, <2>4, <2>6, <3>1, <3>3
      <4> QED
        BY <2>6, <3>1, <4>1
    <3> QED
      BY <3>2, <3>3
  <2> QED
    BY <1>1, <2>1, <2>2, <2>3, <2>4, <2>5, <2>6, ReaderAnswered
<1> QED
  BY <1>3, <1>4, <1>5, <1>6, <1>7 DEF ReadStep

(* A write, from its commit to its answer or its death.                    *)
LEMMA WriteKeeps ==
    ASSUME CacheInv, NEW x \in Writers, WriteStep(x) \/ WriterDies(x)
    PROVE  CacheInv'
<1>1. UNCHANGED <<rpc, loaded, answer, atStart, raced>>
  BY DEF WriteStep, CommitWrite, Invalidate, WriterDies, readers
<1>3. \A w \in Wallets : /\ balance[w] \in Nat /\ confirmed[w] \in Nat /\ confirmed[w] <= balance[w]
                         /\ \A y \in Writers : wrote[y][w] \in Nat /\ wrote[y][w] <= balance[w]
  BY DEF CacheInv, CacheShape, BalanceIsLatest
<1>2. ASSUME \A w \in Wallets : balance'[w] \in Nat /\ balance'[w] >= balance[w],
             \A w \in Wallets : cache'[w] = cache[w] \/ cache'[w] = Miss
      PROVE  LoadedIsFresh' /\ NotAnswered' /\ OwnersOnly' /\ CacheIsGenuine'
  <2>1. \A r \in Readers : Wallet(r) \in Wallets
    BY ReadersWallet
  <2>2. LoadedIsFresh'
    BY <1>1, <1>2, <1>3, <2>1, StaysGenuine DEF CacheInv, LoadedIsFresh
  <2>3. NotAnswered'
    BY <1>1 DEF CacheInv, NotAnswered
  <2>4. OwnersOnly'
    BY <1>1, <1>2, <1>3, <2>1 DEF CacheInv, OwnersOnly
  <2>5. CacheIsGenuine'
    BY <1>2, <1>3, StaysGenuine DEF CacheInv, CacheIsGenuine
  <2> QED
    BY <2>2, <2>3, <2>4, <2>5
<1>4. CASE CommitWrite(x)
  <2>1. /\ wpc[x] = "commit" /\ wpc' = [wpc EXCEPT ![x] = "invalidate"]
        /\ balance' = [w \in Wallets |-> IF w \in Touches[x] THEN balance[w] + 1 ELSE balance[w]]
        /\ wrote' = [wrote EXCEPT ![x] = [w \in Wallets |-> IF w \in Touches[x] THEN balance'[w] ELSE 0]]
        /\ UNCHANGED <<cache, confirmed, outages>>
    BY <1>4 DEF CommitWrite
  <2>2. balance' \in [Wallets -> Nat] /\ \A w \in Wallets : balance'[w] >= balance[w]
    BY <1>3, <2>1
  <2> DEFINE f == [w \in Wallets |-> IF w \in Touches[x] THEN balance'[w] ELSE 0]
  <2>3. /\ f \in [Wallets -> Nat] /\ \A w \in Wallets : f[w] <= balance'[w]
        /\ \A w \in Wallets : w \notin Touches[x] => f[w] = 0
    BY <2>2
  <2>4. wrote' = [wrote EXCEPT ![x] = f]
    BY <2>1
  <2> HIDE DEF f
  <2>5. /\ wrote'[x] = f /\ wpc'[x] = "invalidate"
        /\ \A y \in Writers \ {x} : wrote'[y] = wrote[y] /\ wpc'[y] = wpc[y]
        /\ wrote' \in [Writers -> [Wallets -> Nat]]
        /\ wpc' \in [Writers -> {"commit", "invalidate", "done", "died"}]
    BY <2>1, <2>3, <2>4 DEF CacheInv, CacheShape
  <2>6. CacheShape'
    BY <1>1, <2>1, <2>2, <2>5 DEF CacheInv, CacheShape
  <2>7. BalanceIsLatest'
    <3>1. \A w \in Wallets : confirmed[w] <= balance'[w]
      BY <1>3, <2>2
    <3>2. \A y \in Writers, w \in Wallets :
             /\ wrote'[y][w] <= balance'[w]
             /\ wpc'[y] = "invalidate" /\ w \notin Touches[y] => wrote'[y][w] = 0
      <4> TAKE y \in Writers, w \in Wallets
      <4>1. CASE y = x
        BY <2>3, <2>5, <4>1
      <4>2. CASE y # x
        <5>1. wrote'[y][w] = wrote[y][w] /\ wpc'[y] = wpc[y] /\ wrote[y][w] <= balance'[w]
          BY <1>3, <2>2, <2>5, <4>2
        <5> QED
          BY <5>1 DEF CacheInv, BalanceIsLatest
      <4> QED
        BY <4>1, <4>2
    <3> QED
      BY <1>1, <2>1, <3>1, <3>2 DEF CacheInv, BalanceIsLatest
  <2>8. CacheIsFresh' /\ FreshUnlessRaced'
    BY <1>1, <2>1 DEF CacheInv, CacheIsFresh, FreshUnlessRaced
  <2> QED
    BY <1>2, <2>1, <2>2, <2>6, <2>7, <2>8 DEF CacheInv
<1>5. CASE Invalidate(x)
  <2>1. /\ wpc[x] = "invalidate" /\ wpc' = [wpc EXCEPT ![x] = "done"]
        /\ \/ /\ cache' = [w \in Wallets |-> IF w \in Touches[x] THEN Miss ELSE cache[w]]
              /\ UNCHANGED outages
           \/ Outage /\ UNCHANGED cache
        /\ confirmed' = [w \in Wallets |-> Max({confirmed[w], wrote[x][w]})]
        /\ UNCHANGED <<wrote, balance>>
    BY <1>5 DEF Invalidate, Invalidated
  <2>2. \A w \in Wallets : /\ confirmed'[w] \in {confirmed[w], wrote[x][w]}
                           /\ confirmed'[w] \in Nat /\ confirmed'[w] <= balance[w]
                           /\ confirmed'[w] >= confirmed[w]
    BY <1>3, <2>1, MaxOfTwo
  <2>3. \A w \in Wallets : w \notin Touches[x] => confirmed'[w] = confirmed[w]
    <3> TAKE w \in Wallets
    <3> HAVE w \notin Touches[x]
    <3>1. wrote[x][w] = 0
      BY <2>1 DEF CacheInv, BalanceIsLatest
    <3> QED
      BY <1>3, <2>2, <3>1
  <2>4. /\ cache' \in [Wallets -> Payload \cup {Miss}]
        /\ \A w \in Wallets : cache'[w] = cache[w] \/ cache'[w] = Miss
        /\ outages' \in Nat /\ (outages' = 0 => outages = 0)
    BY <2>1 DEF CacheInv, CacheShape, Outage
  <2>5. CacheShape'
    <3>1. confirmed' \in [Wallets -> Nat]
      BY <2>1, <2>2
    <3> QED
      BY <1>1, <2>1, <2>4, <3>1 DEF CacheInv, CacheShape
  <2>6. BalanceIsLatest'
    <3>1. \A r \in Readers : atStart[r] <= confirmed'[Wallet(r)]
      <4> TAKE r \in Readers
      <4>1. /\ atStart[r] <= confirmed[Wallet(r)] /\ Wallet(r) \in Wallets /\ atStart[r] \in Nat
        BY ReadersWallet DEF CacheInv, BalanceIsLatest, CacheShape
      <4> QED
        BY <1>3, <2>2, <4>1
    <3>2. \A y \in Writers : wpc'[y] = "invalidate" => wpc[y] = "invalidate"
      BY <2>1 DEF CacheInv, CacheShape
    <3> QED
      BY <1>1, <2>1, <2>2, <3>1, <3>2 DEF CacheInv, BalanceIsLatest
  <2>7. CacheIsFresh'
    <3> SUFFICES ASSUME outages' = 0, NEW w \in Wallets \ raced, cache'[w] # Miss
                 PROVE  cache'[w].balance >= confirmed'[w]
      BY <1>1 DEF CacheIsFresh
    <3>1. outages = 0 /\ cache' = [v \in Wallets |-> IF v \in Touches[x] THEN Miss ELSE cache[v]]
      BY <2>1, <2>4 DEF Outage, CacheInv, CacheShape
    <3>2. w \notin Touches[x] /\ cache'[w] = cache[w]
      BY <3>1
    <3> QED
      BY <2>3, <3>1, <3>2 DEF CacheInv, CacheIsFresh
  <2>8. FreshUnlessRaced'
    BY <1>1, <2>4 DEF CacheInv, FreshUnlessRaced
  <2> QED
    BY <1>2, <1>3, <2>1, <2>4, <2>5, <2>6, <2>7, <2>8 DEF CacheInv
<1>6. CASE WriterDies(x)
  <2>1. /\ wpc' = [wpc EXCEPT ![x] = "died"]
        /\ UNCHANGED <<wrote, confirmed, balance, cache, outages>>
    BY <1>6 DEF WriterDies
  <2>2. CacheShape'
    BY <1>1, <2>1 DEF CacheInv, CacheShape
  <2>3. \A y \in Writers : wpc'[y] = "invalidate" => wpc[y] = "invalidate"
    BY <2>1 DEF CacheInv, CacheShape
  <2>4. BalanceIsLatest'
    BY <1>1, <2>1, <2>3 DEF CacheInv, BalanceIsLatest
  <2>5. CacheIsFresh' /\ FreshUnlessRaced'
    BY <1>1, <2>1 DEF CacheInv, CacheIsFresh, FreshUnlessRaced
  <2> QED
    BY <1>2, <1>3, <2>1, <2>2, <2>4, <2>5 DEF CacheInv
<1> QED
  BY <1>4, <1>5, <1>6 DEF WriteStep

(* A key expires.                                                          *)
LEMMA ExpireKeeps ==
    ASSUME CacheInv, NEW w \in Wallets, Expire(w)
    PROVE  CacheInv'
<1>1. /\ cache' = [cache EXCEPT ![w] = Miss]
      /\ UNCHANGED <<rpc, loaded, answer, atStart, wpc, wrote, confirmed, balance, raced, outages>>
  BY DEF Expire, readers, writers
<1>2. CacheShape'
  BY <1>1 DEF CacheInv, CacheShape
<1>3. CacheIsGenuine' /\ CacheIsFresh'
  <2>1. \A v \in Wallets : cache'[v] # Miss => cache'[v] = cache[v]
    BY <1>1 DEF CacheInv, CacheShape
  <2> QED
    BY <1>1, <2>1 DEF CacheInv, CacheIsGenuine, CacheIsFresh
<1>4. BalanceIsLatest' /\ LoadedIsFresh' /\ NotAnswered' /\ OwnersOnly' /\ FreshUnlessRaced'
  BY <1>1 DEF CacheInv, BalanceIsLatest, LoadedIsFresh, NotAnswered, OwnersOnly, FreshUnlessRaced
<1> QED
  BY <1>2, <1>3, <1>4 DEF CacheInv

(* The invariant holds however reads, writes and failures interleave.      *)
THEOREM CacheInvariant == Spec => []CacheInv
<1>1. CacheInv /\ [Next]_vars => CacheInv'
  <2> SUFFICES ASSUME CacheInv, [Next]_vars PROVE CacheInv'
    OBVIOUS
  <2>1. CASE UNCHANGED vars
    <3>1. UNCHANGED <<rpc, loaded, answer, atStart, wpc, wrote, confirmed, balance, cache, raced,
                      outages>>
      BY <2>1 DEF vars, readers, writers
    <3> QED
      BY <3>1 DEF CacheInv, CacheShape, BalanceIsLatest, LoadedIsFresh, NotAnswered,
         CacheIsGenuine, CacheIsFresh, OwnersOnly, FreshUnlessRaced
  <2>2. CASE Next
    BY <2>2, ReadKeeps, WriteKeeps, ExpireKeeps DEF Next
  <2> QED
    BY <2>1, <2>2
<1> QED
  BY <1>1, CacheInit, PTL DEF Spec

(* From the cache, whoever filled it, or from the database: a user is      *)
(* shown only the wallet it named, its own, with a balance it has had.     *)
THEOREM BalancesAreShownToOwners == Spec => []OwnersOnly
<1>1. CacheInv => OwnersOnly
  BY DEF CacheInv
<1> QED
  BY <1>1, CacheInvariant, PTL

(* As long as Redis answers, a read that begins after a write was          *)
(* confirmed shows it, unless a late store raced with the DELETE.          *)
THEOREM ReadsAreFreshUnlessRaced == Spec => []FreshUnlessRaced
<1>1. CacheInv => FreshUnlessRaced
  BY DEF CacheInv
<1> QED
  BY <1>1, CacheInvariant, PTL
=============================================================================
