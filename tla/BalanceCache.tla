---------------------------- MODULE BalanceCache ----------------------------
(***************************************************************************)
(* GET /wallets/{id}/balance and the money routes around the Redis balance *)
(* cache.  A reader looks in the cache, falls through to the database on a *)
(* miss and stores what it read; a writer commits in the database and then *)
(* deletes the keys of the wallets it touched.  None of this is atomic,    *)
(* and every cache operation may fail and be ignored.                      *)
(*                                                                         *)
(* Only the order of the balances of a wallet matters here, so a balance   *)
(* is the number of writes committed to the wallet.                        *)
(***************************************************************************)
EXTENDS Integers, FiniteSetsExt

CONSTANTS
    Wallets, Users,
    Owner,       \* Wallets -> Users
    Readers,     \* GET .../balance requests
    ReadOf,      \* reader -> [user, wallet]
    Writers,     \* deposit, transfer and withdraw requests that succeed
    Touches,     \* writer -> wallets whose balance it changes
    Named,       \* writer -> the wallet in its URL, one of them
    Miss,        \* no key in Redis
    MaxOutages   \* bound on cache operations that fail

(* What the route stores in Redis, and answers from there; currency,       *)
(* locked_balance and updated_at go with the balance.                      *)
Payload == [id : Wallets, user_id : Users, balance : Nat]

ASSUME CacheAssumption ==
    /\ Owner \in [Wallets -> Users]
    /\ ReadOf \in [Readers -> [user : Users, wallet : Wallets]]
    /\ Touches \in [Writers -> SUBSET Wallets]
    /\ \A x \in Writers : Named[x] \in Touches[x]
    /\ Miss \notin Payload /\ MaxOutages \in Nat

VARIABLES
    rpc, wpc,   \* where readers and writers stand
    balance,    \* committed balances
    cache,      \* Redis: wallet -> cached payload or Miss
    loaded,     \* reader -> payload made from the row it read, or Miss
    answer,     \* reader -> [status, about], about a wallet's payload
    wrote,      \* writer -> the balances it committed
    confirmed,  \* wallet -> balance after the last write whose client was answered
    atStart,    \* reader -> confirmed[wallet] when its request began
    raced,      \* wallets for which a reader stored a balance after the DELETE of a newer one
    outages

readers == <<rpc, loaded, answer, atStart>>
writers == <<wpc, wrote, confirmed>>
vars    == <<readers, writers, balance, cache, raced, outages>>

NoAnswer == [status |-> 0, about |-> Miss]
NotFound == [status |-> 404, about |-> Miss]
Ok(p)    == [status |-> 200, about |-> p]

Init ==
    /\ rpc = [r \in Readers |-> "start"]
    /\ wpc = [x \in Writers |-> "commit"]
    /\ balance = [w \in Wallets |-> 0]
    /\ cache = [w \in Wallets |-> Miss]
    /\ loaded = [r \in Readers |-> Miss]
    /\ answer = [r \in Readers |-> NoAnswer]
    /\ wrote = [x \in Writers |-> balance]
    /\ confirmed = balance
    /\ atStart = [r \in Readers |-> 0]
    /\ raced = {}
    /\ outages = 0

Wallet(r) == ReadOf[r].wallet

(* The wallet's row, and the payload made from it.                         *)
Row(w) == [id |-> w, user_id |-> Owner[w], balance |-> balance[w]]

Outage == outages < MaxOutages /\ outages' = outages + 1

Arrive(r) ==
    /\ rpc[r] = "start"
    /\ atStart' = [atStart EXCEPT ![r] = confirmed[Wallet(r)]]
    /\ rpc' = [rpc EXCEPT ![r] = "get"]
    /\ UNCHANGED <<loaded, answer, writers, balance, cache, raced, outages>>

Answer(r, a) ==
    /\ answer' = [answer EXCEPT ![r] = a]
    /\ rpc' = [rpc EXCEPT ![r] = "done"]

(* Mutation: a hit is served to whoever asks.                              *)
BugHit(r) ==
    /\ rpc[r] = "get"
    /\ cache[Wallet(r)] # Miss
    /\ Answer(r, Ok(cache[Wallet(r)]))
    /\ UNCHANGED <<loaded, atStart, writers, balance, cache, raced, outages>>

(* cache.get finds a value: the cached user_id decides, not the database.  *)
Hit(r) ==
    /\ rpc[r] = "get"
    /\ cache[Wallet(r)] # Miss
    /\ Answer(r, IF cache[Wallet(r)].user_id = ReadOf[r].user
                   THEN Ok(cache[Wallet(r)]) ELSE NotFound)
    /\ UNCHANGED <<loaded, atStart, writers, balance, cache, raced, outages>>

MissOrDown(r) ==
    /\ rpc[r] = "get"
    /\ \/ cache[Wallet(r)] = Miss /\ UNCHANGED outages
       \/ Outage
    /\ rpc' = [rpc EXCEPT ![r] = "load"]
    /\ UNCHANGED <<loaded, answer, atStart, writers, balance, cache, raced>>

(* WalletService.get_balance: read the row, refuse a stranger.             *)
Load(r) ==
    /\ rpc[r] = "load"
    /\ IF Row(Wallet(r)).user_id = ReadOf[r].user
       THEN /\ loaded' = [loaded EXCEPT ![r] = Row(Wallet(r))]
            /\ rpc' = [rpc EXCEPT ![r] = "set"]
            /\ UNCHANGED answer
       ELSE Answer(r, NotFound) /\ UNCHANGED loaded
    /\ UNCHANGED <<atStart, writers, balance, cache, raced, outages>>

(* cache.set (setex), or its failure, and the response.                    *)
Set(r) ==
    /\ rpc[r] = "set"
    /\ \/ /\ cache' = [cache EXCEPT ![Wallet(r)] = loaded[r]]
          /\ raced' = IF loaded[r].balance < confirmed[Wallet(r)]
                      THEN raced \cup {Wallet(r)} ELSE raced
          /\ UNCHANGED outages
       \/ Outage /\ UNCHANGED <<cache, raced>>
    /\ Answer(r, Ok(loaded[r]))
    /\ UNCHANGED <<loaded, atStart, writers, balance>>

(* The money operation commits.                                            *)
CommitWrite(x) ==
    /\ wpc[x] = "commit"
    /\ balance' = [w \in Wallets |-> IF w \in Touches[x] THEN balance[w] + 1 ELSE balance[w]]
    /\ wrote' = [wrote EXCEPT ![x] = [w \in Wallets |-> IF w \in Touches[x] THEN balance'[w] ELSE 0]]
    /\ wpc' = [wpc EXCEPT ![x] = "invalidate"]
    /\ UNCHANGED <<readers, cache, confirmed, raced, outages>>

(* Mutation: a transfer forgets the recipient's key.                       *)
BugInvalidated(x) == {Named[x]}

(* invalidate(wallet_id) or invalidate(wallet_id, recipient_wallet_id).    *)
Invalidated(x) == Touches[x]

(* One DELETE for all of them, or its failure, and the response.           *)
Invalidate(x) ==
    /\ wpc[x] = "invalidate"
    /\ \/ /\ cache' = [w \in Wallets |-> IF w \in Invalidated(x) THEN Miss ELSE cache[w]]
          /\ UNCHANGED outages
       \/ Outage /\ UNCHANGED cache
    /\ confirmed' = [w \in Wallets |-> Max({confirmed[w], wrote[x][w]})]
    /\ wpc' = [wpc EXCEPT ![x] = "done"]
    /\ UNCHANGED <<readers, wrote, balance, raced>>

(* The process dies between the commit and the DELETE.                     *)
WriterDies(x) ==
    /\ wpc[x] = "invalidate"
    /\ wpc' = [wpc EXCEPT ![x] = "died"]
    /\ UNCHANGED <<readers, wrote, confirmed, balance, cache, raced, outages>>

(* Mutation: values are stored without a time to live.                     *)
BugExpire(w) == FALSE /\ UNCHANGED vars

(* The time to live of a key ends.                                         *)
Expire(w) ==
    /\ cache[w] # Miss
    /\ cache' = [cache EXCEPT ![w] = Miss]
    /\ UNCHANGED <<readers, writers, balance, raced, outages>>

ReadStep(r)  == Arrive(r) \/ Hit(r) \/ MissOrDown(r) \/ Load(r) \/ Set(r)
WriteStep(x) == CommitWrite(x) \/ Invalidate(x)

Next ==
    \/ \E r \in Readers : ReadStep(r)
    \/ \E x \in Writers : WriteStep(x) \/ WriterDies(x)
    \/ \E w \in Wallets : Expire(w)

Spec == Init /\ [][Next]_vars

(* Handlers run to their end, and Redis drops a key when its time is over. *)
FairSpec ==
    /\ Spec
    /\ \A r \in Readers : WF_vars(ReadStep(r))
    /\ \A x \in Writers : WF_vars(WriteStep(x))
    /\ \A w \in Wallets : WF_vars(Expire(w))
-----------------------------------------------------------------------------
(* Whoever filled the cache, a reader is shown a wallet only if it is the  *)
(* one it named and its own, with a balance that wallet has had.           *)
OwnersOnly ==
    \A r \in Readers : answer[r].status = 200 =>
       /\ answer[r].about.id = Wallet(r)
       /\ Owner[Wallet(r)] = ReadOf[r].user
       /\ answer[r].about.balance \in 0..balance[Wallet(r)]

(* Whatever raced or failed, a stale value does not stay in the cache.     *)
StalenessHeals == \A w \in Wallets : <>[](cache[w] \in {Miss, Row(w)})

(* As long as Redis answers, a read that begins after a write was          *)
(* confirmed to its client shows that write, unless a reader that had      *)
(* loaded the wallet earlier stored the old balance after the DELETE.      *)
FreshUnlessRaced ==
    outages = 0 =>
       \A r \in Readers : answer[r].status = 200 /\ Wallet(r) \notin raced
                             => answer[r].about.balance >= atStart[r]
=============================================================================
