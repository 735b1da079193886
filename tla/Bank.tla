-------------------------------- MODULE Bank --------------------------------
(***************************************************************************)
(* What the money path promises its clients, without sessions, locks or    *)
(* sequence numbers: every accepted request is posted in one step, at most *)
(* once per idempotency key, only when the owner asks for it in the        *)
(* wallet's currency and the money is there; a client is told of a         *)
(* transaction only after it was posted, and only of its own one or of     *)
(* the one that already used its key.                                      *)
(***************************************************************************)
EXTENDS Integers

CONSTANTS Calls, Requests, Wallets, Owner, Currency, Upper, NoKey, Opening, MaxBigInt,
          NoCall

VARIABLES
    asked,    \* call -> its request
    account,  \* wallet -> balance
    posted,   \* calls whose transaction took place
    told      \* call -> transaction reported to the client, or NoCall

bankVars == <<asked, account, posted, told>>

KeyOf(r) == IF r.op = "deposit" THEN NoKey ELSE r.key

Allowed(r) ==
    /\ r.wallet \in Wallets
    /\ Owner[r.wallet] = r.user
    /\ Currency[r.wallet] = Upper[r.currency]
    /\ r.op = "transfer" => /\ r.to \in Wallets \ {r.wallet}
                            /\ Currency[r.to] = Currency[r.wallet]

Delta(r, w) ==
    CASE w = r.wallet -> IF r.op = "deposit" THEN r.amount ELSE -r.amount
      [] w # r.wallet /\ r.op = "transfer" /\ w = r.to -> r.amount
      [] OTHER -> 0

SharesKey(c, d) == KeyOf(asked[c]) # NoKey /\ KeyOf(asked[c]) = KeyOf(asked[d])

BankInit ==
    /\ asked \in [Calls -> Requests]
    /\ account = [w \in Wallets |-> Opening[w]]
    /\ posted = {}
    /\ told = [c \in Calls |-> NoCall]

Post(c) ==
    /\ c \notin posted
    /\ Allowed(asked[c])
    /\ \A t \in posted : ~SharesKey(c, t)
    /\ account' = [w \in Wallets |-> account[w] + Delta(asked[c], w)]
    /\ \A w \in Wallets : account'[w] \in 0..MaxBigInt
    /\ posted' = posted \cup {c}
    /\ UNCHANGED <<asked, told>>

Tell(c) ==
    /\ told[c] = NoCall
    /\ \E t \in posted : /\ t = c \/ (c \notin posted /\ SharesKey(c, t))
                         /\ told' = [told EXCEPT ![c] = t]
    /\ UNCHANGED <<asked, account, posted>>

BankNext == \E c \in Calls : Post(c) \/ Tell(c)

BankSpec == BankInit /\ [][BankNext]_bankVars
=============================================================================
