--------------------------- MODULE LedgerService ----------------------------
(***************************************************************************)
(* The money path of the wallet API: LedgerService.deposit, .transfer and  *)
(* .withdraw, each handled by its own thread with its own PostgreSQL       *)
(* session, running concurrently under READ COMMITTED.                     *)
(*                                                                         *)
(* A call c handles one HTTP request req[c].  What other sessions can see  *)
(* or be blocked by is a step of its own: the read of the idempotency key, *)
(* each SELECT ... FOR UPDATE, the INSERT of the transaction row with its  *)
(* unique key, the INSERTs that draw ledger sequence numbers, the COMMIT,  *)
(* and the re-read of the wallet after it.  A call creates at most one     *)
(* row in transactions, so the call names the row.                         *)
(***************************************************************************)
EXTENDS Ledger, FiniteSets

CONSTANTS
    Calls,        \* the HTTP requests being handled
    Requests,     \* what a client may ask for
    Users,        \* authenticated requesters
    WalletIds,    \* the wallet ids a request may name, in UUID order
    Wallets,      \* those that exist
    Owner,        \* Wallets -> Users
    CurrencyText, \* what a client may type as a currency
    Upper,        \* str.upper() on them
    Currency,     \* Wallets -> stored (upper-case) currency
    Keys,         \* Idempotency-Key header values
    EmptyKey,     \* a header without a value
    NoKey,        \* no header
    Funding,      \* SYSTEM_ACCOUNT_FUNDING
    MaxBigInt,    \* largest value of a BIGINT column
    NoCall

VARIABLES
    pc,        \* where each call stands in its handler
    todo,      \* wallet rows the call has still to lock
    copy,      \* the call's Wallet objects: available_balance as loaded or assigned
    firstSeq,  \* sequence number of the call's first ledger row
    answer,    \* the HTTP response
    req,       \* the request each call handles
    lockedBy,  \* row locks on wallets
    balance,   \* wallets.available_balance, committed
    ledger,    \* ledger_entries, in commit order
    txns,      \* transactions, committed (all COMPLETED)
    outbox,    \* outbox_events, committed
    nextSeq    \* the identity sequence behind ledger_entries.seq

session   == <<pc, todo, copy, firstSeq, answer, req>>
committed == <<balance, ledger, txns, outbox>>
vars      == <<session, lockedBy, committed, nextSeq>>

Operation   == {"deposit", "transfer", "withdraw"}
Accounts    == Wallets \cup {Funding}
RequestType == [op : Operation, user : Users, wallet : WalletIds, to : WalletIds,
                amount : Nat \ {0}, currency : CurrencyText, key : Keys \cup {NoKey}]

ASSUME WalletsAssumption ==
    /\ WalletIds \subseteq Nat
    /\ Wallets \subseteq WalletIds
    /\ Owner \in [Wallets -> Users]
    /\ Funding \notin WalletIds
    /\ MaxBigInt \in Nat
    /\ \A w \in Wallets : Opening[w] \in 0..MaxBigInt
    /\ Opening[Funding] \in Int
ASSUME RequestsAssumption ==
    /\ \A r \in Requests : r \in RequestType
    /\ NoKey \notin Keys /\ EmptyKey \in Keys
    /\ NoCall \notin Calls
-----------------------------------------------------------------------------
(* The parts of the handlers that depend on the operation.                 *)

(* What create stores in idempotency_key: only transfer and withdraw take  *)
(* the header, NULL is in no unique index, and "" is a value like others.  *)
Key(c) == IF req[c].op = "deposit" THEN NoKey ELSE req[c].key
Keyed(c) == Key(c) # NoKey

(* if idempotency_key: the empty value is stored but never looked up.      *)
LooksUp(c) == Key(c) \notin {NoKey, EmptyKey}

(* get_with_lock locks one row, get_for_update_ordered two.                 *)
RowsToLock(r) == IF r.op = "transfer" THEN {r.wallet, r.to} ELSE {r.wallet}

(* Mutation: rows locked in argument order, the sender's first.            *)
BugNextRow(c) ==
    IF req[c].wallet \in todo[c] THEN req[c].wallet ELSE CHOOSE w \in todo[c] : TRUE

(* sorted(set(wallet_ids)): the next row is the smallest one left.          *)
NextRow(c) == CHOOSE w \in todo[c] : \A v \in todo[c] : w <= v

(* Mutation: the ownership check is missing.                               *)
BugWalletError(r) == IF r.wallet \notin Wallets THEN "WalletNotFound" ELSE "none"

WalletError(r) ==
    IF r.wallet \notin Wallets THEN "WalletNotFound"
    ELSE IF Owner[r.wallet] # r.user THEN "WalletAccessDenied"
    ELSE "none"

CurrencyError(r) ==
    IF Currency[r.wallet] # Upper[r.currency] THEN "CurrencyMismatch" ELSE "none"

FundsError(c) ==
    IF copy[c][req[c].wallet] < req[c].amount THEN "InsufficientFunds" ELSE "none"

DepositError(c) ==
    LET r == req[c] IN
    IF WalletError(r) # "none" THEN WalletError(r) ELSE CurrencyError(r)

WithdrawError(c) ==
    LET r == req[c] IN
    IF WalletError(r) # "none" THEN WalletError(r)
    ELSE IF CurrencyError(r) # "none" THEN CurrencyError(r)
    ELSE FundsError(c)

(* Mutation: the recipient's currency is not compared.                     *)
BugTransferError(c) ==
    LET r == req[c] IN
    IF WalletError(r) # "none" THEN WalletError(r)
    ELSE IF r.to \notin Wallets THEN "RecipientNotFound"
    ELSE IF CurrencyError(r) # "none" THEN CurrencyError(r)
    ELSE FundsError(c)

TransferError(c) ==
    LET r == req[c] IN
    IF WalletError(r) # "none" THEN WalletError(r)
    ELSE IF r.to \notin Wallets THEN "RecipientNotFound"
    ELSE IF CurrencyError(r) # "none" THEN CurrencyError(r)
    ELSE IF Currency[r.to] # Currency[r.wallet] THEN "CurrencyMismatch"
    ELSE FundsError(c)

(* The checks made on the locked rows before any money moves.              *)
Error(c) ==
    CASE req[c].op = "deposit"  -> DepositError(c)
      [] req[c].op = "transfer" -> TransferError(c)
      [] req[c].op = "withdraw" -> WithdrawError(c)

(* The two legs in the order they are inserted: <<account, entry_type>>.   *)
DepositLegs(r)  == <<<<r.wallet, "CREDIT">>, <<Funding, "DEBIT">>>>
TransferLegs(r) == <<<<r.wallet, "DEBIT">>, <<r.to, "CREDIT">>>>
WithdrawLegs(r) == <<<<r.wallet, "DEBIT">>, <<Funding, "CREDIT">>>>

Legs(r) ==
    CASE r.op = "deposit"  -> DepositLegs(r)
      [] r.op = "transfer" -> TransferLegs(r)
      [] r.op = "withdraw" -> WithdrawLegs(r)

(* The ledger row of leg i of call c; both legs carry the wallet's currency. *)
Entry(c, i) ==
    [seq |-> firstSeq[c] + i - 1, transaction_id |-> c,
     account |-> Legs(req[c])[i][1], entry_type |-> Legs(req[c])[i][2],
     amount |-> req[c].amount, currency |-> Currency[req[c].wallet]]

(* The balances the handler assigns to its Wallet objects.                 *)
NewBalances(c) ==
    LET r == req[c]  b == copy[c] IN
    CASE r.op = "deposit"  -> [b EXCEPT ![r.wallet] = @ + r.amount]
      [] r.op = "transfer" -> [b EXCEPT ![r.wallet] = @ - r.amount,
                                        ![r.to]     = @ + r.amount]
      [] r.op = "withdraw" -> [b EXCEPT ![r.wallet] = @ - r.amount]

(* The payload of the transaction.completed event; a deposit or withdrawal *)
(* has no counterparty_wallet_id.                                          *)
Event(c) ==
    [transaction_id |-> c, type |-> req[c].op, amount |-> req[c].amount,
     currency |-> Currency[req[c].wallet], wallet_id |-> req[c].wallet,
     counterparty |-> IF req[c].op = "transfer" THEN {req[c].to} ELSE {}]

(* What the routes turn each exception into.                               *)
HttpStatus(e) ==
    CASE e \in {"WalletNotFound", "WalletAccessDenied", "RecipientNotFound"} -> 404
      [] e = "CurrencyMismatch" -> 409
      [] e \in {"SameWalletTransfer", "InsufficientFunds"} -> 422
      [] e = "Unhandled" -> 500
-----------------------------------------------------------------------------
(* The database, as the sessions use it.                                   *)

NoCopy   == [w \in Wallets |-> 0]
NoAnswer == [status |-> 0, transaction_id |-> NoCall, available_balance |-> 0]

Failed(e) == [NoAnswer EXCEPT !.status = HttpStatus(e)]
Ok(t, b)  == [status |-> 200, transaction_id |-> t, available_balance |-> b]

(* Mutation: the session is never closed, its locks stay.                  *)
BugReleased(c) == lockedBy

Released(c) == [w \in Wallets |-> IF lockedBy[w] = c THEN NoCall ELSE lockedBy[w]]

(* Committed transactions carrying c's key.                                *)
SameKey(c) == {t \in txns : Keyed(c) /\ Key(t) = Key(c)}

(* The call's rows are inserted and not yet committed.                     *)
InFlight(c) == pc[c] \in {"write", "commit"}

(* Uncommitted rows in the unique index: an INSERT of the same key waits.  *)
KeyInFlight(c) == \E d \in Calls \ {c} : InFlight(d) /\ Keyed(c) /\ Key(d) = Key(c)

(* The session ends without a commit: rolled back, its locks released.     *)
Close(c, a, at) ==
    /\ pc' = [pc EXCEPT ![c] = at]
    /\ answer' = [answer EXCEPT ![c] = a]
    /\ lockedBy' = Released(c)
    /\ todo' = [todo EXCEPT ![c] = {}]
    /\ copy' = [copy EXCEPT ![c] = NoCopy]
    /\ UNCHANGED <<firstSeq, req, committed>>
-----------------------------------------------------------------------------
Init ==
    /\ pc = [c \in Calls |-> "idle"]
    /\ todo = [c \in Calls |-> {}]
    /\ copy = [c \in Calls |-> NoCopy]
    /\ firstSeq = [c \in Calls |-> 0]
    /\ answer = [c \in Calls |-> NoAnswer]
    /\ req \in [Calls -> Requests]
    /\ lockedBy = [w \in Wallets |-> NoCall]
    /\ balance = [w \in Wallets |-> Opening[w]]
    /\ ledger = <<>>
    /\ txns = {}
    /\ outbox = {}
    /\ nextSeq = 1

SelfTransfer(r) == r.op = "transfer" /\ r.wallet = r.to

(* The handler starts: it looks its key up, or goes on to lock.            *)
Arrive(c) ==
    /\ pc[c] = "idle"
    /\ ~SelfTransfer(req[c])
    /\ pc' = [pc EXCEPT ![c] = IF LooksUp(c) THEN "check" ELSE "lock"]
    /\ todo' = [todo EXCEPT ![c] = RowsToLock(req[c])]
    /\ UNCHANGED <<copy, firstSeq, answer, req, lockedBy, committed, nextSeq>>

RejectSelfTransfer(c) ==
    /\ pc[c] = "idle"
    /\ SelfTransfer(req[c])
    /\ Close(c, Failed("SameWalletTransfer"), "done")
    /\ UNCHANGED nextSeq

(* get_by_idempotency_key: a read of what is committed now.                *)
CheckKey(c) ==
    /\ pc[c] = "check"
    /\ pc' = [pc EXCEPT ![c] = IF SameKey(c) # {} THEN "replay" ELSE "lock"]
    /\ UNCHANGED <<todo, copy, firstSeq, answer, req, lockedBy, committed, nextSeq>>

(* return existing, self.wallets.get_by_id(wallet_id): the wallet is read  *)
(* without a lock, and a missing one breaks the route.                     *)
Replay(c) ==
    /\ pc[c] = "replay"
    /\ \E t \in SameKey(c) :
          Close(c, IF req[c].wallet \in Wallets
                     THEN Ok(t, balance[req[c].wallet])
                     ELSE Failed("Unhandled"), "done")
    /\ UNCHANGED nextSeq

(* Mutation: a plain SELECT, which waits for nobody.                       *)
BugLockRow(c) ==
    /\ pc[c] = "lock" /\ todo[c] # {}
    /\ LET w == NextRow(c) IN
       /\ w \in Wallets
       /\ copy' = [copy EXCEPT ![c][w] = balance[w]]
       /\ todo' = [todo EXCEPT ![c] = @ \ {w}]
    /\ UNCHANGED <<pc, firstSeq, answer, req, lockedBy, committed, nextSeq>>

(* SELECT ... FOR UPDATE on the next row: waits while another session holds *)
(* it and then loads the latest committed version.                          *)
LockRow(c) ==
    /\ pc[c] = "lock" /\ todo[c] # {}
    /\ LET w == NextRow(c) IN
       /\ w \in Wallets
       /\ lockedBy[w] = NoCall
       /\ lockedBy' = [lockedBy EXCEPT ![w] = c]
       /\ copy' = [copy EXCEPT ![c][w] = balance[w]]
       /\ todo' = [todo EXCEPT ![c] = @ \ {w}]
    /\ UNCHANGED <<pc, firstSeq, answer, req, committed, nextSeq>>

(* No such row: nothing to lock, the result is None.                       *)
SkipMissingRow(c) ==
    /\ pc[c] = "lock" /\ todo[c] # {}
    /\ NextRow(c) \notin Wallets
    /\ todo' = [todo EXCEPT ![c] = @ \ {NextRow(c)}]
    /\ UNCHANGED <<pc, copy, firstSeq, answer, req, lockedBy, committed, nextSeq>>

Reject(c) ==
    /\ pc[c] = "lock" /\ todo[c] = {}
    /\ Error(c) # "none"
    /\ Close(c, Failed(Error(c)), "done")
    /\ UNCHANGED nextSeq

(* Mutation: idempotency_key has an index that is not unique.              *)
BugOpenTransaction(c) ==
    /\ pc[c] = "lock" /\ todo[c] = {}
    /\ Error(c) = "none"
    /\ pc' = [pc EXCEPT ![c] = "write"]
    /\ UNCHANGED <<todo, copy, firstSeq, answer, req, lockedBy, committed, nextSeq>>

(* transactions.create: the INSERT is flushed at once and waits for an     *)
(* uncommitted row with the same key.                                      *)
OpenTransaction(c) ==
    /\ pc[c] = "lock" /\ todo[c] = {}
    /\ Error(c) = "none"
    /\ ~KeyInFlight(c)
    /\ SameKey(c) = {}
    /\ pc' = [pc EXCEPT ![c] = "write"]
    /\ UNCHANGED <<todo, copy, firstSeq, answer, req, lockedBy, committed, nextSeq>>

(* Mutation: the IntegrityError is swallowed and the handler goes on.      *)
BugKeyConflict(c) ==
    /\ pc[c] = "lock" /\ todo[c] = {}
    /\ Error(c) = "none"
    /\ SameKey(c) # {}
    /\ Close(c, Ok(c, balance[req[c].wallet]), "done")
    /\ UNCHANGED nextSeq

(* The unique index refuses the INSERT.  The IntegrityError leaves create, *)
(* which no try block surrounds.                                           *)
KeyConflict(c) ==
    /\ pc[c] = "lock" /\ todo[c] = {}
    /\ Error(c) = "none"
    /\ SameKey(c) # {}
    /\ Close(c, Failed("Unhandled"), "done")
    /\ UNCHANGED nextSeq

(* Mutation: a column of unlimited width and no CHECK.                     *)
BugOutOfRange(c) == FALSE

(* A balance that its BIGINT column or its CHECK (>= 0) does not admit.    *)
OutOfRange(c) == \E w \in Wallets : NewBalances(c)[w] \notin 0..MaxBigInt

(* Mutation: the event is written in a transaction of its own.             *)
BugWriteRows(c) ==
    /\ pc[c] = "write"
    /\ ~OutOfRange(c)
    /\ copy' = [copy EXCEPT ![c] = NewBalances(c)]
    /\ firstSeq' = [firstSeq EXCEPT ![c] = nextSeq]
    /\ nextSeq' = nextSeq + 2
    /\ outbox' = outbox \cup {Event(c)}
    /\ pc' = [pc EXCEPT ![c] = "commit"]
    /\ UNCHANGED <<todo, answer, req, lockedBy, balance, ledger, txns>>

(* create_entry twice, the new balances, mark_completed and the outbox row *)
(* are flushed: rows only this session sees, and two sequence numbers that *)
(* a rollback does not give back.  Another session may draw between the    *)
(* two; only the order of one wallet's rows matters, and its lock is held. *)
WriteRows(c) ==
    /\ pc[c] = "write"
    /\ ~OutOfRange(c)
    /\ copy' = [copy EXCEPT ![c] = NewBalances(c)]
    /\ firstSeq' = [firstSeq EXCEPT ![c] = nextSeq]
    /\ nextSeq' = nextSeq + 2
    /\ pc' = [pc EXCEPT ![c] = "commit"]
    /\ UNCHANGED <<todo, answer, req, lockedBy, committed>>

(* The database refuses the new balance, or already the ledger rows when   *)
(* the amount alone is too large; sequence numbers drawn are gone.         *)
WriteOutOfRange(c) ==
    /\ pc[c] = "write"
    /\ OutOfRange(c)
    /\ Close(c, Failed("Unhandled"), "done")
    /\ nextSeq' \in IF req[c].amount > MaxBigInt THEN nextSeq..(nextSeq + 1) ELSE {nextSeq + 2}

(* COMMIT publishes every row of the session and releases its locks.       *)
Commit(c) ==
    /\ pc[c] = "commit"
    /\ balance' = [w \in Wallets |->
                     IF w \in RowsToLock(req[c]) THEN copy[c][w] ELSE balance[w]]
    /\ ledger' = Append(Append(ledger, Entry(c, 1)), Entry(c, 2))
    /\ txns' = txns \cup {c}
    /\ outbox' = outbox \cup {Event(c)}
    /\ lockedBy' = Released(c)
    /\ pc' = [pc EXCEPT ![c] = "refresh"]
    /\ UNCHANGED <<todo, copy, firstSeq, answer, req, nextSeq>>

(* db.refresh(wallet) in a new transaction, then the response.             *)
Refresh(c) ==
    /\ pc[c] = "refresh"
    /\ Close(c, Ok(c, balance[req[c].wallet]), "done")
    /\ UNCHANGED nextSeq

(* The API process dies: no response, and PostgreSQL rolls back what was   *)
(* not committed.                                                          *)
Crash(c) ==
    /\ pc[c] \notin {"idle", "done", "crashed"}
    /\ Close(c, NoAnswer, "crashed")
    /\ UNCHANGED nextSeq

(* The session loses its database connection: the statement under way      *)
(* raises an OperationalError, which no handler catches.  Up to the COMMIT *)
(* the work is rolled back; at "refresh" it is there, because db.refresh   *)
(* failed or because the acknowledgement of db.commit() was what got lost. *)
LoseConnection(c) ==
    /\ pc[c] \notin {"idle", "done", "crashed"}
    /\ Close(c, Failed("Unhandled"), "done")
    /\ UNCHANGED nextSeq

Fault(c) == Crash(c) \/ LoseConnection(c)

Step(c) ==
    \/ Arrive(c) \/ RejectSelfTransfer(c)
    \/ CheckKey(c) \/ Replay(c)
    \/ LockRow(c) \/ SkipMissingRow(c)
    \/ Reject(c) \/ OpenTransaction(c) \/ KeyConflict(c)
    \/ WriteRows(c) \/ WriteOutOfRange(c)
    \/ Commit(c) \/ Refresh(c)

Next == \E c \in Calls : Step(c) \/ Fault(c)

Spec == Init /\ [][Next]_vars

(* A started handler keeps running: its thread is scheduled, and PostgreSQL *)
(* grants a free lock to a session that waits for it.                       *)
Fairness == \A c \in Calls : WF_vars(Step(c))
FairSpec == Spec /\ Fairness
-----------------------------------------------------------------------------
BigInt == (-MaxBigInt - 1)..MaxBigInt
PC == {"idle", "check", "replay", "lock", "write", "commit", "refresh", "done", "crashed"}
EntryRow == [seq : Nat, transaction_id : Calls, account : Accounts, entry_type : EntryType,
             amount : Nat \ {0}, currency : {Currency[w] : w \in Wallets}]
EventRow == [transaction_id : Calls, type : Operation, amount : Nat \ {0},
             currency : {Currency[w] : w \in Wallets}, wallet_id : Wallets,
             counterparty : SUBSET Wallets]
AnswerRow == [status : Nat, transaction_id : Calls \cup {NoCall}, available_balance : BigInt]

(* Every variable has the shape of its column or session object; in        *)
(* particular each stored balance fits a BIGINT.                           *)
TypeOK ==
    /\ pc \in [Calls -> PC]
    /\ todo \in [Calls -> SUBSET WalletIds]
    /\ copy \in [Calls -> [Wallets -> BigInt]]
    /\ firstSeq \in [Calls -> Nat]
    /\ answer \in [Calls -> AnswerRow]
    /\ req \in [Calls -> Requests]
    /\ lockedBy \in [Wallets -> Calls \cup {NoCall}]
    /\ balance \in [Wallets -> BigInt]
    /\ ledger \in Seq(EntryRow)
    /\ txns \subseteq Calls
    /\ outbox \subseteq EventRow
    /\ nextSeq \in Nat

B == INSTANCE Bank WITH asked <- req, account <- balance, posted <- txns,
                        told <- [c \in Calls |-> answer[c].transaction_id]

(* Rows c has been granted and has not given back.                         *)
Granted(c) == (RowsToLock(req[c]) \ todo[c]) \cap Wallets

(* What a handler read under its row locks stays true until it commits:    *)
(* the locks are still its own, and its Wallet objects differ from the     *)
(* committed rows exactly by the money it is about to move.                *)
LocksProtectCopies ==
    \A c \in Calls : pc[c] = "lock" \/ InFlight(c) =>
       \A w \in Granted(c) :
          /\ lockedBy[w] = c
          /\ copy[c][w] = balance[w] + IF pc[c] = "commit" THEN B!Delta(req[c], w) ELSE 0

(* The balance cached in a wallet row is what its ledger rows add up to,   *)
(* whatever handlers run concurrently or die half-way: no lost update and  *)
(* no half-committed transaction.                                          *)
BalanceMatchesLedger ==
    \A w \in Wallets : balance[w] = LedgerBalance(ledger, w)

(* No line of any wallet's statement is below zero: two debits that each   *)
(* fit the balance never both take it.                                     *)
NoOverdraft ==
    \A w \in Wallets : \A n \in 0..Len(ledger) : RunningBalance(ledger, w)[n] >= 0

RowsOf(t) == {i \in 1..Len(ledger) : ledger[i].transaction_id = t}

(* Every committed transaction has exactly two rows, which cancel, and no  *)
(* row puts one currency into a wallet of another.                         *)
DoubleEntry ==
    /\ \A t \in txns :
          \E i, j \in RowsOf(t) :
             /\ RowsOf(t) = {i, j}
             /\ SignedAmount(ledger[i]) + SignedAmount(ledger[j]) = 0
             /\ ledger[i].account # ledger[j].account
    /\ Len(ledger) = 2 * Cardinality(txns)
    /\ \A i \in 1..Len(ledger) :
          ledger[i].account \in Wallets => ledger[i].currency = Currency[ledger[i].account]

(* A key is spent once, the empty one too: no two transactions, committed  *)
(* or about to commit, carry the same one.  So the except IntegrityError   *)
(* around db.commit() has nothing to catch.                                *)
KeysSpentOnce ==
    \A c, d \in Calls :
       /\ c # d
       /\ c \in txns \/ InFlight(c)
       /\ d \in txns \/ InFlight(d)
       => ~(Keyed(c) /\ Key(c) = Key(d))

(* The outbox holds exactly one event for each committed transaction and   *)
(* the event tells what the ledger rows say.                               *)
OutboxMatchesLedger ==
    /\ txns = {e.transaction_id : e \in outbox}
    /\ Cardinality(outbox) = Cardinality(txns)
    /\ \A e \in outbox : \A i \in RowsOf(e.transaction_id) :
          /\ ledger[i].amount = e.amount /\ ledger[i].currency = e.currency
          /\ ledger[i].account \in {e.wallet_id} \cup
                IF e.type = "transfer" THEN e.counterparty ELSE {Funding}

(* What the client is told is what happened.  A 200 names a committed      *)
(* transaction: the call's own, which the wallet's owner asked for in the  *)
(* right currency, or, nothing about the caller having been checked, the   *)
(* one that spent a non-empty key before; then the call moved no money.    *)
(* Nor did it after a 404, 409 or 422.  A 500 tells nothing: it may follow *)
(* the COMMIT.                                                             *)
AnswersTruthful ==
    \A c \in Calls : pc[c] = "done" =>
       /\ answer[c].status = 200 =>
             LET t == answer[c].transaction_id IN
             /\ t \in txns
             /\ \/ t = c /\ B!Allowed(req[c])
                \/ c \notin txns /\ LooksUp(c) /\ Key(t) = Key(c)
       /\ answer[c].status \notin {200, 500} => c \notin txns

(* The balance in a 200 response is a line of the wallet's statement that  *)
(* already includes the reported transaction (read your writes).           *)
ReadYourWrites ==
    \A c \in Calls : pc[c] = "done" /\ answer[c].status = 200 =>
       \E n \in 1..Len(ledger) :
          /\ \E i \in RowsOf(answer[c].transaction_id) : i <= n
          /\ answer[c].available_balance = RunningBalance(ledger, req[c].wallet)[n]

(* ledger_entries.seq, drawn before the commit and used to sort a wallet's *)
(* history, agrees with the commit order of that wallet's rows.            *)
HistoryInCommitOrder ==
    \A i, j \in 1..Len(ledger) :
       i < j /\ ledger[i].account = ledger[j].account /\ ledger[i].account \in Wallets
       => ledger[i].seq < ledger[j].seq

(* c cannot take its next step before d ends its database transaction.     *)
WaitsFor(c, d) ==
    /\ pc[c] = "lock"
    /\ \/ /\ todo[c] # {}
          /\ NextRow(c) \in Wallets
          /\ lockedBy[NextRow(c)] = d
       \/ /\ todo[c] = {}
          /\ Error(c) = "none" /\ d # c /\ InFlight(d)
          /\ Keyed(c) /\ Key(c) = Key(d)

(* No group of handlers in which each one waits for another one of the     *)
(* group, over row locks and the unique index of the key together.         *)
NoDeadlock ==
    \A S \in (SUBSET Calls) \ {{}} : \E c \in S : \A d \in S : ~WaitsFor(c, d)

(* How far a handler has come fixes what it knows of its request.          *)
SessionsConsistent ==
    \A c \in Calls :
       /\ pc[c] = "check" => todo[c] = RowsToLock(req[c])
       /\ pc[c] \in {"check", "lock", "write", "commit"} => ~SelfTransfer(req[c])
       /\ InFlight(c) => todo[c] = {}
       /\ pc[c] \in {"write", "commit", "refresh"} => RowsToLock(req[c]) \subseteq Wallets

(* The inductive invariant behind BalanceMatchesLedger.                    *)
LedgerInv == TypeOK /\ SessionsConsistent /\ LocksProtectCopies /\ BalanceMatchesLedger

(* Every request is answered (or its process died).                        *)
EveryCallAnswered ==
    \A c \in Calls : pc[c] = "idle" ~> pc[c] \in {"done", "crashed"}

(* Concurrent handlers together behave like the atomic bank.               *)
ImplementsBank == B!BankSpec

(* "A concurrent request with the same idempotency key won the race        *)
(* (unique constraint).  Roll back ours and return the winner's txn."      *)
LoserReturnsWinner ==
    [][\A c \in Calls :
         /\ pc[c] = "lock" /\ todo[c] = {} /\ Error(c) = "none"
         /\ SameKey(c) # {}
         /\ pc'[c] = "done"
         => answer'[c].transaction_id \in SameKey(c)]_vars
=============================================================================
