-------------------------- MODULE LedgerRowsProofs --------------------------
(***************************************************************************)
(* What the committed rows say, for any number of concurrent handlers: the *)
(* ledger is double-entry, no statement goes below zero, seq agrees with   *)
(* the commit order of each wallet, the outbox tells what the ledger says, *)
(* a client reads its own writes, the drift that reconciliation reports is *)
(* the money that moved between its two reads, and the pages a client gets *)
(* are one statement.  Only a COMMIT adds rows, and all of them at once;   *)
(* the row locks make the sequence numbers it drew newer than every row of *)
(* the wallets it holds.                                                   *)
(***************************************************************************)
EXTENDS LedgerKeysProofs, Reconciliation, History,
        FiniteSetTheorems, FunctionTheorems, SequenceTheorems

(* Rows and transactions are committed together.                           *)
RowsHaveTransactions ==
    /\ IsFiniteSet(txns) /\ IsFiniteSet(outbox)
    /\ \A i \in 1..Len(ledger) : ledger[i].transaction_id \in txns

(* Sequence numbers drawn and not yet committed are newer than every row   *)
(* of the wallets their session has locked.                                *)
SequenceFresh ==
    /\ \A i \in 1..Len(ledger) : ledger[i].seq < nextSeq
    /\ \A c \in Calls : pc[c] = "commit" =>
          /\ firstSeq[c] + 1 < nextSeq
          /\ \A i \in 1..Len(ledger) :
                ledger[i].account \in Granted(c) => ledger[i].seq < firstSeq[c]

(* The inductive invariant behind the properties of the rows.              *)
RowsInv ==
    /\ RowsHaveTransactions /\ SequenceFresh
    /\ HistoryInCommitOrder /\ DoubleEntry /\ OutboxMatchesLedger /\ NoOverdraft /\ ReadYourWrites

(* The two rows of a transaction: who, how much, in which currency, and in *)
(* which direction.                                                        *)
LEMMA EntryFields ==
    ASSUME TypeOK, NEW c \in Calls, ~SelfTransfer(req[c]), B!Allowed(req[c]), NEW k \in {1, 2}
    PROVE  /\ Entry(c, k).transaction_id = c /\ Entry(c, k).seq = firstSeq[c] + k - 1
           /\ Entry(c, k).amount = Event(c).amount /\ Entry(c, k).currency = Event(c).currency
           /\ Entry(c, k).account \in {Event(c).wallet_id} \cup
                 IF Event(c).type = "transfer" THEN Event(c).counterparty ELSE {Funding}
           /\ Entry(c, k).account \in Wallets =>
                 /\ Entry(c, k).account \in RowsToLock(req[c])
                 /\ Entry(c, k).currency = Currency[Entry(c, k).account]
<1>1. req[c] \in RequestType
  BY RequestShape
<1>2. Funding \notin Wallets
  BY WalletsAssumption
<1>3. CASE req[c].op = "deposit"
  BY <1>1, <1>2, <1>3 DEF RequestType, Entry, Event, Legs, DepositLegs, RowsToLock, B!Allowed
<1>4. CASE req[c].op = "transfer"
  BY <1>1, <1>2, <1>4 DEF RequestType, Entry, Event, Legs, TransferLegs, RowsToLock, B!Allowed
<1>5. CASE req[c].op = "withdraw"
  BY <1>1, <1>2, <1>5 DEF RequestType, Entry, Event, Legs, WithdrawLegs, RowsToLock, B!Allowed
<1> QED
  BY <1>1, <1>3, <1>4, <1>5 DEF RequestType, Operation

(* They cancel and name two accounts.                                      *)
LEMMA LegsCancel ==
    ASSUME TypeOK, NEW c \in Calls, ~SelfTransfer(req[c]), B!Allowed(req[c])
    PROVE  /\ SignedAmount(Entry(c, 1)) \in Int
           /\ SignedAmount(Entry(c, 1)) + SignedAmount(Entry(c, 2)) = 0
           /\ Entry(c, 1).account # Entry(c, 2).account
<1>1. req[c] \in RequestType
  BY RequestShape
<1>2. Funding \notin Wallets
  BY WalletsAssumption
<1>3. CASE req[c].op = "deposit"
  BY <1>1, <1>2, <1>3 DEF RequestType, Entry, SignedAmount, Legs, DepositLegs, B!Allowed
<1>4. CASE req[c].op = "transfer"
  BY <1>1, <1>2, <1>4 DEF RequestType, Entry, SignedAmount, Legs, TransferLegs, B!Allowed
<1>5. CASE req[c].op = "withdraw"
  BY <1>1, <1>2, <1>5 DEF RequestType, Entry, SignedAmount, Legs, WithdrawLegs, B!Allowed
<1> QED
  BY <1>1, <1>3, <1>4, <1>5 DEF RequestType, Operation

(* The initial state satisfies the invariant.                              *)
LEMMA RowsInit == Init => RowsInv
<1> SUFFICES ASSUME Init PROVE RowsInv
  OBVIOUS
<1>1. /\ ledger = <<>> /\ Len(ledger) = 0 /\ txns = {} /\ outbox = {}
      /\ \A c \in Calls : pc[c] = "idle"
  BY DEF Init
<1>2. RowsHaveTransactions
  BY <1>1, FS_EmptySet DEF RowsHaveTransactions
<1>3. SequenceFresh /\ HistoryInCommitOrder
  BY <1>1 DEF SequenceFresh, HistoryInCommitOrder
<1>4. DoubleEntry
  BY <1>1, FS_EmptySet DEF DoubleEntry
<1>5. OutboxMatchesLedger
  BY <1>1, FS_EmptySet DEF OutboxMatchesLedger
<1>6. NoOverdraft
  <2> SUFFICES ASSUME NEW w \in Wallets PROVE RunningBalance(ledger, w)[0] >= 0
    BY <1>1 DEF NoOverdraft
  <2>1. RunningBalance(ledger, w)[0] = Opening[w]
    BY <1>1, EmptyLedger DEF LedgerBalance
  <2> QED
    BY <2>1, WalletsAssumption
<1>7. ReadYourWrites
  BY <1>1 DEF ReadYourWrites
<1> QED
  BY <1>2, <1>3, <1>4, <1>5, <1>6, <1>7 DEF RowsInv

(* An answer with a balance: what the committed row of the wallet held.    *)
Current(c, a) ==
    a.status = 200 => /\ a.transaction_id \in txns
                      /\ req[c].wallet \in Wallets
                      /\ a.available_balance = balance[req[c].wallet]

(* A step other than a COMMIT adds no rows; the sequence only grows, and   *)
(* an answer shows the balance committed at that moment.                   *)
Uncommitting(c) ==
    /\ UNCHANGED <<ledger, txns, outbox, req, balance>>
    /\ nextSeq' \in Nat /\ nextSeq <= nextSeq'
    /\ \A d \in Calls \ {c} : /\ pc'[d] = pc[d] /\ todo'[d] = todo[d]
                              /\ firstSeq'[d] = firstSeq[d] /\ answer'[d] = answer[d]
    /\ pc'[c] = "commit" => firstSeq'[c] = nextSeq /\ nextSeq' = nextSeq + 2
    /\ pc'[c] = "done" => Current(c, answer'[c])

(* Such is every ending of a session.                                      *)
LEMMA CloseUncommitting ==
    ASSUME LedgerInv, NEW c \in Calls, NEW a, NEW at \in {"done", "crashed"}, Close(c, a, at),
           nextSeq' \in Nat, nextSeq <= nextSeq', at = "done" => Current(c, a)
    PROVE  Uncommitting(c)
<1>1. /\ pc' = [pc EXCEPT ![c] = at] /\ answer' = [answer EXCEPT ![c] = a]
      /\ todo' = [todo EXCEPT ![c] = {}]
      /\ UNCHANGED <<firstSeq, req, balance, ledger, txns, outbox>>
  BY DEF Close, committed
<1> QED
  BY <1>1 DEF Uncommitting, LedgerInv, TypeOK

(* Such is every step but the COMMIT.                                      *)
LEMMA OthersUncommitting ==
    ASSUME LedgerInv, KeysInv, NEW c \in Calls, Step(c) \/ Fault(c), ~Commit(c)
    PROVE  Uncommitting(c)
<1>0. TypeOK /\ nextSeq \in Nat /\ nextSeq <= nextSeq /\ PlaceTellsOutcome
  BY DEF LedgerInv, TypeOK, KeysInv
<1>1. CASE Arrive(c)
  BY <1>0, <1>1 DEF Arrive, committed, Uncommitting, TypeOK
<1>2. CASE CheckKey(c)
  BY <1>0, <1>2 DEF CheckKey, committed, Uncommitting, TypeOK
<1>3. CASE LockRow(c)
  BY <1>0, <1>3 DEF LockRow, committed, Uncommitting, TypeOK
<1>4. CASE SkipMissingRow(c)
  BY <1>0, <1>4 DEF SkipMissingRow, committed, Uncommitting, TypeOK
<1>5. CASE OpenTransaction(c)
  BY <1>0, <1>5 DEF OpenTransaction, committed, Uncommitting, TypeOK
<1>6. CASE WriteRows(c)
  BY <1>0, <1>6 DEF WriteRows, committed, Uncommitting, TypeOK
<1>7. CASE RejectSelfTransfer(c) \/ Reject(c) \/ KeyConflict(c) \/ WriteOutOfRange(c)
           \/ LoseConnection(c)
  <2>1. PICK e \in {"WalletNotFound", "WalletAccessDenied", "RecipientNotFound",
                    "CurrencyMismatch", "SameWalletTransfer", "InsufficientFunds", "Unhandled"} :
          Close(c, Failed(e), "done")
    BY <1>0, <1>7, ErrorNames DEF RejectSelfTransfer, Reject, KeyConflict, WriteOutOfRange,
                                     LoseConnection
  <2>2. nextSeq' \in Nat /\ nextSeq <= nextSeq'
    BY <1>0, <1>7 DEF RejectSelfTransfer, Reject, KeyConflict, WriteOutOfRange,
                                     LoseConnection
  <2>3. Current(c, Failed(e))
    BY FailuresAreNot200 DEF Current
  <2> QED
    BY <2>1, <2>2, <2>3, CloseUncommitting
<1>8. CASE Replay(c)
  <2>1. PICK t \in SameKey(c) :
          Close(c, IF req[c].wallet \in Wallets THEN Ok(t, balance[req[c].wallet])
                                                ELSE Failed("Unhandled"), "done")
    BY <1>8 DEF Replay
  <2>2. Current(c, Failed("Unhandled"))
    BY FailuresAreNot200 DEF Current
  <2>3. req[c].wallet \in Wallets => Current(c, Ok(t, balance[req[c].wallet]))
    BY DEF SameKey, Current, Ok
  <2> QED
    BY <1>0, <1>8, <2>1, <2>2, <2>3, CloseUncommitting DEF Replay
<1>9. CASE Refresh(c)
  <2>1. c \in txns /\ req[c].wallet \in Wallets
    BY <1>0, <1>9 DEF Refresh, PlaceTellsOutcome, LedgerInv, SessionsConsistent, RowsToLock
  <2>2. Current(c, Ok(c, balance[req[c].wallet]))
    BY <2>1 DEF Current, Ok
  <2> QED
    BY <1>0, <1>9, <2>2, CloseUncommitting DEF Refresh
<1>10. CASE Crash(c)
  BY <1>0, <1>10, CloseUncommitting DEF Crash
<1> QED
  BY <1>1, <1>2, <1>3, <1>4, <1>5, <1>6, <1>7, <1>8, <1>9, <1>10 DEF Step, Fault

(* The last line of a statement is the cached balance.                     *)
LEMMA LastLine ==
    ASSUME LedgerInv, NEW w \in Wallets
    PROVE  RunningBalance(ledger, w)[Len(ledger)] = balance[w]
  BY DEF LedgerInv, BalanceMatchesLedger, LedgerBalance

(* A step that adds no rows preserves what the rows say.                   *)
LEMMA UncommittingKeepsRows ==
    ASSUME LedgerInv, RowsInv, NEW c \in Calls, Uncommitting(c)
    PROVE  RowsInv'
<1>0. /\ ledger' = ledger /\ txns' = txns /\ outbox' = outbox /\ req' = req
      /\ ledger \in Seq(EntryRow) /\ Len(ledger) \in Nat
  BY DEF Uncommitting, LedgerInv, TypeOK
<1>1. RowsHaveTransactions' /\ HistoryInCommitOrder'
  BY <1>0 DEF RowsInv, RowsHaveTransactions, HistoryInCommitOrder
<1>2. DoubleEntry'
  BY <1>0 DEF RowsInv, DoubleEntry, RowsOf
<1>3. OutboxMatchesLedger'
  BY <1>0 DEF RowsInv, OutboxMatchesLedger, RowsOf
<1>4. NoOverdraft'
  BY <1>0 DEF RowsInv, NoOverdraft
<1>5. SequenceFresh'
  <2>1. \A i \in 1..Len(ledger) : ledger[i].seq \in Nat /\ ledger[i].seq < nextSeq
    <3>1. \A i \in 1..Len(ledger) : ledger[i] \in EntryRow
      BY <1>0
    <3> QED
      BY <3>1 DEF RowsInv, SequenceFresh, EntryRow
  <2>2. nextSeq \in Nat /\ nextSeq' \in Nat /\ nextSeq <= nextSeq'
    BY DEF Uncommitting, LedgerInv, TypeOK
  <2>3. \A i \in 1..Len(ledger) : ledger[i].seq < nextSeq'
    BY <2>1, <2>2
  <2>4. ASSUME NEW d \in Calls, pc'[d] = "commit"
        PROVE  /\ firstSeq'[d] + 1 < nextSeq'
               /\ \A i \in 1..Len(ledger) :
                     ledger[i].account \in Granted(d)' => ledger[i].seq < firstSeq'[d]
    <3>1. CASE d = c
      BY <2>1, <2>2, <2>4, <3>1 DEF Uncommitting
    <3>2. CASE d # c
      <4>1. pc[d] = "commit" /\ firstSeq'[d] = firstSeq[d] /\ todo'[d] = todo[d]
        BY <2>4, <3>2 DEF Uncommitting
      <4>2. firstSeq[d] \in Nat /\ Granted(d)' = Granted(d)
        BY <1>0, <4>1 DEF LedgerInv, TypeOK, Granted
      <4> QED
        BY <2>2, <4>1, <4>2 DEF RowsInv, SequenceFresh
    <3> QED
      BY <3>1, <3>2
  <2> QED
    BY <1>0, <2>3, <2>4 DEF SequenceFresh
<1>6. ReadYourWrites'
  <2> SUFFICES ASSUME NEW d \in Calls, pc'[d] = "done", answer'[d].status = 200
               PROVE  \E n \in 1..Len(ledger) :
                         /\ \E i \in RowsOf(answer'[d].transaction_id) : i <= n
                         /\ answer'[d].available_balance = RunningBalance(ledger, req[d].wallet)[n]
    BY <1>0 DEF ReadYourWrites, RowsOf
  <2>1. CASE d # c
    <3>1. pc[d] = "done" /\ answer'[d] = answer[d]
      BY <2>1 DEF Uncommitting
    <3> QED
      BY <3>1 DEF RowsInv, ReadYourWrites
  <2>2. CASE d = c
    <3>1. Current(c, answer'[c])
      BY <2>2 DEF Uncommitting
    <3>2. PICK i \in RowsOf(answer'[c].transaction_id) : TRUE
      BY <2>2, <3>1 DEF Current, RowsInv, DoubleEntry
    <3>3. i \in 1..Len(ledger) /\ i <= Len(ledger) /\ Len(ledger) \in 1..Len(ledger)
      BY <1>0, <3>2 DEF RowsOf
    <3>4. answer'[c].available_balance = RunningBalance(ledger, req[c].wallet)[Len(ledger)]
      BY <2>2, <3>1, LastLine DEF Current
    <3> QED
      BY <2>2, <3>2, <3>3, <3>4
  <2> QED
    BY <2>1, <2>2
<1> QED
  BY <1>1, <1>2, <1>3, <1>4, <1>5, <1>6 DEF RowsInv

(* What a COMMIT appends.                                                  *)
LEMMA CommitAppends ==
    ASSUME LedgerInv, KeysInv, NEW c \in Calls, Commit(c)
    PROVE  /\ pc[c] = "commit" /\ todo[c] = {} /\ c \notin txns
           /\ ~SelfTransfer(req[c]) /\ B!Allowed(req[c]) /\ RowsToLock(req[c]) \subseteq Wallets
           /\ Entry(c, 1) \in EntryRow /\ Entry(c, 2) \in EntryRow
           /\ Len(ledger) \in Nat /\ Len(ledger') = Len(ledger) + 2
           /\ \A i \in 1..Len(ledger) : ledger'[i] = ledger[i] /\ ledger[i] \in EntryRow
           /\ ledger'[Len(ledger) + 1] = Entry(c, 1) /\ ledger'[Len(ledger) + 2] = Entry(c, 2)
           /\ txns' = txns \cup {c} /\ outbox' = outbox \cup {Event(c)}
           /\ UNCHANGED <<req, firstSeq, answer, todo, nextSeq>>
           /\ pc' = [pc EXCEPT ![c] = "refresh"]
<1>1. TypeOK /\ pc[c] = "commit" /\ InFlight(c)
  BY DEF LedgerInv, Commit, InFlight
<1>2. todo[c] = {} /\ ~SelfTransfer(req[c]) /\ RowsToLock(req[c]) \subseteq Wallets
  BY <1>1 DEF LedgerInv, SessionsConsistent
<1>3. c \notin txns /\ B!Allowed(req[c])
  BY <1>1 DEF KeysInv, PlaceTellsOutcome, OnlyAllowedWrites
<1>4. Entry(c, 1) \in EntryRow /\ Entry(c, 2) \in EntryRow
  BY <1>1, <1>2, EntriesAreRows
<1>5. ledger \in Seq(EntryRow) /\ ledger' = Append(Append(ledger, Entry(c, 1)), Entry(c, 2))
  BY <1>1 DEF TypeOK, Commit
<1> HIDE DEF Entry, EntryRow
<1>6. /\ Len(ledger) \in Nat /\ Len(ledger') = Len(ledger) + 2
      /\ \A i \in 1..Len(ledger) : ledger'[i] = ledger[i] /\ ledger[i] \in EntryRow
      /\ ledger'[Len(ledger) + 1] = Entry(c, 1) /\ ledger'[Len(ledger) + 2] = Entry(c, 2)
  BY <1>4, <1>5
<1> QED
  BY <1>1, <1>2, <1>3, <1>4, <1>6 DEF Commit

(* The lines a COMMIT adds to a statement; earlier ones stay.              *)
LEMMA CommitLines ==
    ASSUME LedgerInv, KeysInv, NEW c \in Calls, Commit(c), NEW w
    PROVE  /\ \A n \in 0..Len(ledger) : RunningBalance(ledger', w)[n] = RunningBalance(ledger, w)[n]
           /\ RunningBalance(ledger', w)[Len(ledger) + 1]
                = RunningBalance(ledger, w)[Len(ledger)] + Contribution(Entry(c, 1), w)
<1> DEFINE k == Append(ledger, Entry(c, 1))
<1>1. /\ Entry(c, 1) \in EntryRow /\ Entry(c, 2) \in EntryRow
      /\ ledger \in Seq(EntryRow) /\ Len(ledger) \in Nat
  BY CommitAppends DEF LedgerInv, TypeOK
<1>2. k \in Seq(EntryRow) /\ Len(k) = Len(ledger) + 1 /\ Len(ledger) + 1 \in 0..Len(k)
  BY <1>1
<1>3. ledger' = Append(k, Entry(c, 2))
  BY DEF Commit
<1>4. LedgerBalance(k, w) = LedgerBalance(ledger, w) + Contribution(Entry(c, 1), w)
  BY <1>1, AppendMovesBalance
<1>5. ASSUME NEW n \in 0..Len(ledger)
      PROVE  RunningBalance(k, w)[n] = RunningBalance(ledger, w)[n]
  BY <1>1, RunningPrefix
<1> HIDE DEF k
<1>6. ASSUME NEW n \in 0..Len(k)
      PROVE  RunningBalance(ledger', w)[n] = RunningBalance(k, w)[n]
  BY <1>1, <1>2, <1>3, RunningPrefix
<1>7. \A n \in 0..Len(ledger) : n \in 0..Len(k)
  BY <1>1, <1>2
<1> QED
  BY <1>2, <1>4, <1>5, <1>6, <1>7 DEF LedgerBalance

(* A leg moves a wallet by all of the request or by nothing.               *)
LEMMA LegAllOrNothing ==
    ASSUME TypeOK, NEW c \in Calls, ~SelfTransfer(req[c]), B!Allowed(req[c]), NEW w \in Wallets
    PROVE  Contribution(Entry(c, 1), w) \in {0, B!Delta(req[c], w)}
<1>1. /\ Contribution(Entry(c, 1), w) \in Int /\ Contribution(Entry(c, 2), w) \in Int
      /\ Contribution(Entry(c, 1), w) + Contribution(Entry(c, 2), w) = B!Delta(req[c], w)
  BY LegsAddUp
<1>2. Contribution(Entry(c, 1), w) = 0 \/ Contribution(Entry(c, 2), w) = 0
  BY LegsCancel DEF Contribution
<1> QED
  BY <1>1, <1>2

(* A COMMIT appends two rows that keep every property of the rows.         *)
LEMMA CommitKeepsRows ==
    ASSUME LedgerInv, KeysInv, RowsInv, NEW c \in Calls, Commit(c), LedgerInv', KeysInv'
    PROVE  RowsInv'
<1> DEFINE n == Len(ledger)
<1>0. /\ pc[c] = "commit" /\ todo[c] = {} /\ c \notin txns
      /\ ~SelfTransfer(req[c]) /\ B!Allowed(req[c]) /\ RowsToLock(req[c]) \subseteq Wallets
      /\ n \in Nat /\ Len(ledger') = n + 2
      /\ \A i \in 1..n : ledger'[i] = ledger[i] /\ ledger[i] \in EntryRow
      /\ ledger'[n + 1] = Entry(c, 1) /\ ledger'[n + 2] = Entry(c, 2)
      /\ txns' = txns \cup {c} /\ outbox' = outbox \cup {Event(c)}
      /\ UNCHANGED <<req, firstSeq, answer, todo, nextSeq>>
      /\ pc' = [pc EXCEPT ![c] = "refresh"]
  BY CommitAppends
<1>1. /\ TypeOK /\ IsFiniteSet(txns) /\ IsFiniteSet(outbox) /\ txns \subseteq Calls
      /\ \A i \in 1..n : ledger[i].transaction_id \in txns
  BY DEF LedgerInv, TypeOK, RowsInv, RowsHaveTransactions
<1>2. \A i \in 1..Len(ledger') : i \in 1..n \/ i = n + 1 \/ i = n + 2
  BY <1>0
<1>3. \A k \in {1, 2} :
         /\ Entry(c, k).transaction_id = c /\ Entry(c, k).seq = firstSeq[c] + k - 1
         /\ Entry(c, k).amount = Event(c).amount /\ Entry(c, k).currency = Event(c).currency
         /\ Entry(c, k).account \in {Event(c).wallet_id} \cup
               IF Event(c).type = "transfer" THEN Event(c).counterparty ELSE {Funding}
         /\ Entry(c, k).account \in Wallets =>
               /\ Entry(c, k).account \in RowsToLock(req[c])
               /\ Entry(c, k).currency = Currency[Entry(c, k).account]
  BY <1>0, <1>1, EntryFields
<1>4. \A t \in txns : RowsOf(t)' = RowsOf(t)
  <2> TAKE t \in txns
  <2>1. t # c
    BY <1>0
  <2> QED
    BY <1>0, <1>2, <1>3, <2>1 DEF RowsOf
<1>5. RowsOf(c)' = {n + 1, n + 2}
  <2>1. \A i \in 1..n : ledger'[i].transaction_id # c
    BY <1>0, <1>1
  <2>2. n + 1 \in 1..Len(ledger') /\ n + 2 \in 1..Len(ledger')
    BY <1>0
  <2> QED
    BY <1>0, <1>2, <1>3, <2>1, <2>2 DEF RowsOf
<1> HIDE DEF n
<1>6. RowsHaveTransactions'
  BY <1>0, <1>1, <1>2, <1>3, FS_AddElement DEF RowsHaveTransactions
<1>7. DoubleEntry'
  <2>1. ASSUME NEW t \in txns'
        PROVE  \E i, j \in RowsOf(t)' :
                  /\ RowsOf(t)' = {i, j}
                  /\ SignedAmount(ledger'[i]) + SignedAmount(ledger'[j]) = 0
                  /\ ledger'[i].account # ledger'[j].account
    <3>1. CASE t = c
      BY <1>0, <1>1, <1>5, <3>1, LegsCancel
    <3>2. CASE t \in txns
      <4>1. PICK i \in RowsOf(t), j \in RowsOf(t) :
                  /\ RowsOf(t) = {i, j}
                  /\ SignedAmount(ledger[i]) + SignedAmount(ledger[j]) = 0
                  /\ ledger[i].account # ledger[j].account
        BY <3>2 DEF RowsInv, DoubleEntry
      <4>2. i \in 1..n /\ j \in 1..n
        BY DEF RowsOf, n
      <4> QED
        BY <1>0, <1>4, <3>2, <4>1, <4>2
    <3> QED
      BY <1>0, <3>1, <3>2
  <2>2. Len(ledger') = 2 * Cardinality(txns')
    <3>1. Cardinality(txns) \in Nat /\ Cardinality(txns') = Cardinality(txns) + 1
      BY <1>0, <1>1, FS_AddElement, FS_CardinalityType
    <3>2. n = 2 * Cardinality(txns)
      BY DEF RowsInv, DoubleEntry, n
    <3> QED
      BY <1>0, <3>1, <3>2
  <2>3. ASSUME NEW i \in 1..Len(ledger'), ledger'[i].account \in Wallets
        PROVE  ledger'[i].currency = Currency[ledger'[i].account]
    <3>1. CASE i \in 1..n
      BY <1>0, <2>3, <3>1 DEF RowsInv, DoubleEntry, n
    <3>2. CASE i = n + 1 \/ i = n + 2
      BY <1>0, <1>3, <2>3, <3>2
    <3> QED
      BY <1>2, <3>1, <3>2
  <2> QED
    BY <2>1, <2>2, <2>3 DEF DoubleEntry
<1>8. OutboxMatchesLedger'
  <2>0. Event(c).transaction_id = c
    BY DEF Event
  <2>1. txns = {e.transaction_id : e \in outbox} /\ Cardinality(outbox) = Cardinality(txns)
    BY DEF RowsInv, OutboxMatchesLedger
  <2>2. txns' = {e.transaction_id : e \in outbox'}
    BY <1>0, <2>0, <2>1
  <2>3. Cardinality(outbox') = Cardinality(txns')
    <3>1. Event(c) \notin outbox
      BY <1>0, <2>0, <2>1
    <3>2. Cardinality(outbox') = Cardinality(outbox) + 1
      BY <1>0, <1>1, <3>1, FS_AddElement
    <3>3. Cardinality(txns') = Cardinality(txns) + 1
      BY <1>0, <1>1, FS_AddElement
    <3> QED
      BY <2>1, <3>2, <3>3
  <2>4. ASSUME NEW e \in outbox', NEW i \in RowsOf(e.transaction_id)'
        PROVE  /\ ledger'[i].amount = e.amount /\ ledger'[i].currency = e.currency
               /\ ledger'[i].account \in {e.wallet_id} \cup
                     IF e.type = "transfer" THEN e.counterparty ELSE {Funding}
    <3>1. CASE e \in outbox
      <4>1. e.transaction_id \in txns
        BY <2>1, <3>1
      <4>2. i \in RowsOf(e.transaction_id) /\ i \in 1..n
        BY <1>4, <4>1 DEF RowsOf, n
      <4> QED
        BY <1>0, <3>1, <4>2 DEF RowsInv, OutboxMatchesLedger
    <3>2. CASE e = Event(c)
      <4>1. i = n + 1 \/ i = n + 2
        BY <1>5, <2>0, <3>2
      <4> QED
        BY <1>0, <1>3, <3>2, <4>1
    <3> QED
      BY <1>0, <3>1, <3>2
  <2> QED
    BY <2>2, <2>3, <2>4 DEF OutboxMatchesLedger
<1>9. nextSeq \in Nat /\ firstSeq[c] \in Nat /\ firstSeq[c] + 1 < nextSeq
  BY <1>0, <1>1 DEF TypeOK, RowsInv, SequenceFresh
<1>10. \A i \in 1..n : ledger[i].seq \in Nat /\ ledger[i].seq < nextSeq
  BY <1>0 DEF RowsInv, SequenceFresh, EntryRow, n
<1>11. SequenceFresh'
  <2>1. \A i \in 1..Len(ledger') : ledger'[i].seq < nextSeq'
    <3> TAKE i \in 1..Len(ledger')
    <3>1. CASE i \in 1..n
      BY <1>0, <1>10, <3>1
    <3>2. CASE i = n + 1
      BY <1>0, <1>3, <1>9, <3>2
    <3>3. CASE i = n + 2
      BY <1>0, <1>3, <1>9, <3>3
    <3> QED
      BY <1>2, <3>1, <3>2, <3>3
  <2>2. ASSUME NEW d \in Calls, pc'[d] = "commit"
        PROVE  /\ firstSeq'[d] + 1 < nextSeq'
               /\ \A i \in 1..Len(ledger') :
                     ledger'[i].account \in Granted(d)' => ledger'[i].seq < firstSeq'[d]
    <3>1. d # c /\ pc[d] = "commit" /\ Granted(d)' = Granted(d) /\ Granted(d) \subseteq Wallets
      BY <1>0, <1>1, <2>2 DEF TypeOK, Granted
    <3>2. firstSeq[d] + 1 < nextSeq
      BY <3>1 DEF RowsInv, SequenceFresh
    <3>3. Granted(d) \cap RowsToLock(req[c]) = {}
      <4> SUFFICES ASSUME NEW w \in Granted(d), w \in RowsToLock(req[c]) PROVE FALSE
        OBVIOUS
      <4>1. w \in Granted(c)
        BY <1>0, <3>1 DEF Granted
      <4>2. lockedBy[w] = c /\ lockedBy[w] = d
        BY <1>0, <3>1, <4>1 DEF LedgerInv, LocksProtectCopies, InFlight
      <4> QED
        BY <3>1, <4>2
    <3>4. ASSUME NEW i \in 1..Len(ledger'), ledger'[i].account \in Granted(d)
          PROVE  ledger'[i].seq < firstSeq[d]
      <4>1. i \notin {n + 1, n + 2}
        BY <1>0, <1>3, <3>1, <3>3, <3>4
      <4>2. i \in 1..n
        BY <1>2, <4>1
      <4> QED
        BY <1>0, <3>1, <3>4, <4>2 DEF RowsInv, SequenceFresh, n
    <3> QED
      BY <1>0, <3>1, <3>2, <3>4
  <2> QED
    BY <2>1, <2>2 DEF SequenceFresh
<1>12. HistoryInCommitOrder'
  <2> SUFFICES ASSUME NEW i \in 1..Len(ledger'), NEW j \in 1..Len(ledger'), i < j,
                      ledger'[i].account = ledger'[j].account, ledger'[i].account \in Wallets
               PROVE  ledger'[i].seq < ledger'[j].seq
    BY DEF HistoryInCommitOrder
  <2>1. CASE j \in 1..n
    <3>1. i \in 1..n
      BY <1>0, <2>1
    <3> QED
      BY <1>0, <2>1, <3>1 DEF RowsInv, HistoryInCommitOrder, n
  <2>2. CASE j \in {n + 1, n + 2}
    <3>1. ledger'[j].account \in Granted(c) /\ ledger'[j].seq >= firstSeq[c] /\ ledger'[j].seq \in Nat
      BY <1>0, <1>3, <1>9, <2>2 DEF Granted
    <3>2. i \in 1..n
      <4>1. ~(i = n + 1 /\ j = n + 2)
        BY <1>0, <1>1, LegsCancel
      <4> QED
        BY <1>0, <1>2, <2>2, <4>1
    <3>3. ledger[i].seq < firstSeq[c]
      BY <1>0, <3>1, <3>2 DEF RowsInv, SequenceFresh, n
    <3> QED
      BY <1>0, <1>9, <1>10, <3>1, <3>2, <3>3
  <2> QED
    BY <1>2, <2>1, <2>2
<1>13. NoOverdraft'
  <2> SUFFICES ASSUME NEW w \in Wallets, NEW m \in 0..(n + 2)
               PROVE  RunningBalance(ledger', w)[m] >= 0
    BY <1>0 DEF NoOverdraft
  <2>1. CASE m \in 0..n
    BY <2>1, CommitLines DEF RowsInv, NoOverdraft, n
  <2>2. balance[w] \in 0..MaxBigInt /\ balance'[w] \in 0..MaxBigInt
    BY DEF KeysInv, BalancesInRange
  <2>3. CASE m = n + 1
    <3>1. RunningBalance(ledger', w)[n + 1] = balance[w] + Contribution(Entry(c, 1), w)
      BY CommitLines, LastLine DEF n
    <3>2. Contribution(Entry(c, 1), w) \in {0, B!Delta(req[c], w)}
      BY <1>0, <1>1, LegAllOrNothing
    <3>3. balance'[w] = balance[w] + B!Delta(req[c], w)
      BY CommitMoves
    <3> QED
      BY <2>2, <2>3, <3>1, <3>2, <3>3, WalletsAssumption
  <2>4. CASE m = n + 2
    <3>1. RunningBalance(ledger', w)[n + 2] = balance'[w]
      BY <1>0 DEF LedgerInv, BalanceMatchesLedger, LedgerBalance
    <3> QED
      BY <2>2, <2>4, <3>1, WalletsAssumption
  <2> QED
    BY <1>0, <2>1, <2>3, <2>4
<1>14. ReadYourWrites'
  <2> SUFFICES ASSUME NEW d \in Calls, pc'[d] = "done", answer[d].status = 200
               PROVE  \E m \in 1..Len(ledger') :
                         /\ \E i \in RowsOf(answer[d].transaction_id)' : i <= m
                         /\ answer[d].available_balance = RunningBalance(ledger', req[d].wallet)[m]
    BY <1>0 DEF ReadYourWrites
  <2>1. d # c /\ pc[d] = "done"
    BY <1>0, <1>1 DEF TypeOK
  <2>2. answer[d].transaction_id \in txns
    BY <2>1 DEF KeysInv, AnswersTruthful
  <2>3. PICK m \in 1..n : /\ \E i \in RowsOf(answer[d].transaction_id) : i <= m
                          /\ answer[d].available_balance = RunningBalance(ledger, req[d].wallet)[m]
    BY <2>1 DEF RowsInv, ReadYourWrites, n
  <2>4. m \in 1..Len(ledger') /\ m \in 0..n
    BY <1>0
  <2>5. RunningBalance(ledger', req[d].wallet)[m] = RunningBalance(ledger, req[d].wallet)[m]
    BY <2>4, CommitLines DEF n
  <2>6. PICK i \in RowsOf(answer[d].transaction_id) : i <= m
    BY <2>3
  <2>7. i \in RowsOf(answer[d].transaction_id)'
    BY <1>0, <1>4, <2>2
  <2> QED
    BY <2>3, <2>4, <2>5, <2>6, <2>7
<1> QED
  BY <1>6, <1>7, <1>8, <1>11, <1>12, <1>13, <1>14 DEF RowsInv

(* The rows keep their properties in every reachable state.                *)
THEOREM RowsInvariant == Spec => []RowsInv
<1>1. Init => RowsInv
  BY RowsInit
<1>2. /\ LedgerInv /\ KeysInv /\ RowsInv /\ [Next]_vars
      /\ (LedgerInv /\ KeysInv)'
      => RowsInv'
  <2> SUFFICES ASSUME LedgerInv, KeysInv, RowsInv, LedgerInv', KeysInv', [Next]_vars
               PROVE  RowsInv'
    OBVIOUS
  <2>1. CASE UNCHANGED vars
    <3>1. UNCHANGED <<pc, todo, firstSeq, answer, req, ledger, txns, outbox, nextSeq>>
      BY <2>1 DEF vars, session, committed
    <3>2. RowsHaveTransactions' /\ SequenceFresh' /\ HistoryInCommitOrder'
      BY <3>1 DEF RowsInv, RowsHaveTransactions, SequenceFresh, Granted, HistoryInCommitOrder
    <3>3. DoubleEntry'
      BY <3>1 DEF RowsInv, DoubleEntry, RowsOf
    <3>4. OutboxMatchesLedger'
      BY <3>1 DEF RowsInv, OutboxMatchesLedger, RowsOf
    <3>5. NoOverdraft' /\ ReadYourWrites'
      BY <3>1 DEF RowsInv, NoOverdraft, ReadYourWrites, RowsOf
    <3> QED
      BY <3>2, <3>3, <3>4, <3>5 DEF RowsInv
  <2>2. ASSUME NEW c \in Calls, Step(c) \/ Fault(c)
        PROVE  RowsInv'
    <3>1. CASE Commit(c)
      BY <3>1, CommitKeepsRows
    <3>2. CASE ~Commit(c)
      BY <2>2, <3>2, OthersUncommitting, UncommittingKeepsRows
    <3> QED
      BY <3>1, <3>2
  <2> QED
    BY <2>1, <2>2 DEF Next
<1> QED
  BY <1>1, <1>2, KeysInvariant, PTL DEF Spec

(* No line of any statement is below zero, whatever debits compete.        *)
THEOREM NothingOverdrawn == Spec => []NoOverdraft
<1>1. RowsInv => NoOverdraft
  BY DEF RowsInv
<1> QED
  BY <1>1, RowsInvariant, PTL

(* Each transaction has two rows that cancel, in the wallets' currency.    *)
THEOREM LedgerIsDoubleEntry == Spec => []DoubleEntry
<1>1. RowsInv => DoubleEntry
  BY DEF RowsInv
<1> QED
  BY <1>1, RowsInvariant, PTL

(* One event for each committed transaction, and it tells the truth.       *)
THEOREM OutboxTellsLedger == Spec => []OutboxMatchesLedger
<1>1. RowsInv => OutboxMatchesLedger
  BY DEF RowsInv
<1> QED
  BY <1>1, RowsInvariant, PTL

(* seq, drawn before the commit, sorts each wallet's rows as they became   *)
(* visible.                                                                *)
THEOREM HistoryIsOrdered == Spec => []HistoryInCommitOrder
<1>1. RowsInv => HistoryInCommitOrder
  BY DEF RowsInv
<1> QED
  BY <1>1, RowsInvariant, PTL

(* The balance in a response includes the transaction it reports.          *)
THEOREM ClientsReadTheirWrites == Spec => []ReadYourWrites
<1>1. RowsInv => ReadYourWrites
  BY DEF RowsInv
<1> QED
  BY <1>1, RowsInvariant, PTL
-----------------------------------------------------------------------------
(* The job's two reads, as lines of the statements at two moments.         *)
ReadsAreLines ==
    /\ job \in {"summed", "reported"} =>
          /\ rowsSeen.ledger \in 0..Len(ledger)
          /\ \A w \in Wallets : /\ sums[w] \in Int
                                /\ sums[w] = RunningBalance(ledger, w)[rowsSeen.ledger]
    /\ job = "reported" =>
          /\ rowsSeen.wallets \in 0..Len(ledger)
          /\ \A w \in Wallets :
                LET cached == RunningBalance(ledger, w)[rowsSeen.wallets] IN
                /\ cached \in Int
                /\ IF w \in DOMAIN report
                   THEN cached # sums[w] /\ report[w].cached_balance = cached
                                         /\ report[w].ledger_balance = sums[w]
                   ELSE cached = sums[w]

(* The job's shape: rowsSeen is a record of two counters.                  *)
JobShape == rowsSeen = [ledger |-> rowsSeen.ledger, wallets |-> rowsSeen.wallets]

(* Each read of the job is a line of every statement, and stays one.       *)
LEMMA JobKeeps ==
    ASSUME LedgerInv, KeysInv, JobShape, ReadsAreLines, [JobNext]_<<vars, jobVars>>
    PROVE  JobShape' /\ ReadsAreLines'
<1>0. Len(ledger) \in Nat /\ Len(ledger) \in 0..Len(ledger)
  BY DEF LedgerInv, TypeOK
<1>1. \A w \in Wallets : balance[w] \in Int /\ RunningBalance(ledger, w)[Len(ledger)] = balance[w]
  BY BalancesAreInts, LastLine DEF LedgerInv
<1>2. CASE UNCHANGED <<vars, jobVars>>
  BY <1>2 DEF vars, committed, jobVars, JobShape, ReadsAreLines
<1>3. CASE ReadLedger
  <2>1. /\ ledger' = ledger /\ job' = "summed" /\ rowsSeen' = [rowsSeen EXCEPT !.ledger = Len(ledger)]
        /\ \A w \in Wallets : sums'[w] = RunningBalance(ledger, w)[Len(ledger)]
    BY <1>3 DEF ReadLedger, _ledger_balances, vars, committed, LedgerBalance
  <2>2. rowsSeen'.ledger = Len(ledger) /\ JobShape'
    BY <2>1 DEF JobShape
  <2> QED
    BY <1>0, <1>1, <2>1, <2>2 DEF ReadsAreLines
<1>4. CASE ReadWallets
  <2>1. /\ ledger' = ledger /\ job = "summed" /\ job' = "reported" /\ sums' = sums
        /\ rowsSeen' = [rowsSeen EXCEPT !.wallets = Len(ledger)]
        /\ report' = [w \in {v \in Wallets : balance[v] # sums[v]} |->
                        [cached_balance |-> balance[w], ledger_balance |-> sums[w]]]
    BY <1>4 DEF ReadWallets, vars, committed
  <2>2. rowsSeen'.ledger = rowsSeen.ledger /\ rowsSeen'.wallets = Len(ledger) /\ JobShape'
    BY <2>1 DEF JobShape
  <2>3. ASSUME NEW w \in Wallets
        PROVE  IF w \in DOMAIN report'
               THEN balance[w] # sums[w] /\ report'[w].cached_balance = balance[w]
                                         /\ report'[w].ledger_balance = sums[w]
               ELSE balance[w] = sums[w]
    BY <2>1
  <2> QED
    BY <1>0, <1>1, <2>1, <2>2, <2>3 DEF ReadsAreLines
<1>5. ASSUME NEW c \in Calls, Step(c) \/ Fault(c), UNCHANGED jobVars
      PROVE  JobShape' /\ ReadsAreLines'
  <2>1. CASE Commit(c)
    <3>1. Len(ledger') = Len(ledger) + 2 /\ \A n \in 0..Len(ledger) : n \in 0..Len(ledger')
      BY <1>0, <2>1, CommitAppends
    <3>2. \A w, n : n \in 0..Len(ledger) =>
             RunningBalance(ledger', w)[n] = RunningBalance(ledger, w)[n]
      BY <2>1, CommitLines
    <3> QED
      BY <1>5, <3>1, <3>2 DEF jobVars, JobShape, ReadsAreLines
  <2>2. CASE ~Commit(c)
    <3>1. ledger' = ledger
      BY <1>5, <2>2, OthersUncommitting DEF Uncommitting
    <3> QED
      BY <1>5, <3>1 DEF jobVars, JobShape, ReadsAreLines
  <2> QED
    BY <2>1, <2>2
<1> QED
  BY <1>2, <1>3, <1>4, <1>5 DEF JobNext, Job, Next

(* The drift reconciliation reports for a wallet is exactly the money that *)
(* moved between its two reads, at any speed of traffic.                   *)
THEOREM DriftIsTraffic == JobSpec => []DriftIsRecentTraffic
<1>1. JobSpec => Spec
  <2>1. [JobNext]_<<vars, jobVars>> => [Next]_vars
    BY DEF JobNext, Job, ReadLedger, ReadWallets
  <2> QED
    BY <2>1, PTL DEF JobSpec, Spec
<1>2. Init /\ JobInit => JobShape /\ ReadsAreLines
  BY DEF JobInit, JobShape, ReadsAreLines
<1>3. (LedgerInv /\ KeysInv) /\ JobShape /\ ReadsAreLines /\ [JobNext]_<<vars, jobVars>>
      => JobShape' /\ ReadsAreLines'
  BY JobKeeps
<1>4. ReadsAreLines => DriftIsRecentTraffic
  BY DEF ReadsAreLines, DriftIsRecentTraffic
<1> QED
  BY <1>1, <1>2, <1>3, <1>4, KeysInvariant, PTL DEF JobSpec
-----------------------------------------------------------------------------
(* Paging.  The rows of a statement, with their distinct sequence numbers. *)
Numbered(R) ==
    /\ IsFiniteSet(R) /\ \A x \in R : x.seq \in Nat
    /\ \A x, y \in R : x.seq = y.seq => x = y

(* A row's offset is the number of newer ones.                             *)
Newer(R, r)  == {x \in R : x.seq > r.seq}
Offset(R, r) == Cardinality(Newer(R, r))

(* The rows that LIMIT and OFFSET m select.                                *)
Page(R, m) == {r \in R : m <= Offset(R, r) /\ Offset(R, r) < m + Limit}

(* A set counted by a sequence.                                            *)
LEMMA Counted ==
    ASSUME NEW S, NEW n \in Nat, NEW f \in [1..n -> S],
           \A i, j \in 1..n : f[i] = f[j] => i = j, \A x \in S : \E i \in 1..n : f[i] = x
    PROVE  IsFiniteSet(S) /\ Cardinality(S) = n
<1>1. f \in Bijection(1..n, S)
  BY Fun_IsBij
<1>2. ExistsBijection(1..n, S)
  BY <1>1, Fun_ExistsBij
<1> QED
  BY <1>2, FS_CountingElements, FS_NatBijection

(* The newer a row, the smaller its offset.                                *)
LEMMA OffsetFacts ==
    ASSUME NEW R, Numbered(R)
    PROVE  /\ Cardinality(R) \in Nat
           /\ \A r \in R : Offset(R, r) \in 0..(Cardinality(R) - 1)
           /\ \A x, y \in R : x.seq < y.seq => Offset(R, y) < Offset(R, x)
           /\ \A x, y \in R : Offset(R, x) = Offset(R, y) => x = y
<1>1. Cardinality(R) \in Nat
  BY FS_CardinalityType DEF Numbered
<1>2. ASSUME NEW r \in R
      PROVE  /\ IsFiniteSet(Newer(R, r)) /\ Offset(R, r) \in Nat
             /\ Offset(R, r) \in 0..(Cardinality(R) - 1)
  <2>1. Newer(R, r) \in SUBSET R /\ r \notin Newer(R, r)
    BY DEF Newer, Numbered
  <2>2. IsFiniteSet(Newer(R, r)) /\ Offset(R, r) <= Cardinality(R)
        /\ (Cardinality(R) = Offset(R, r) => R = Newer(R, r))
    BY <2>1, FS_Subset DEF Numbered, Offset
  <2>3. Offset(R, r) \in Nat
    BY <2>2, FS_CardinalityType DEF Offset
  <2>4. Offset(R, r) # Cardinality(R)
    BY <2>1, <2>2
  <2> QED
    BY <1>1, <2>2, <2>3, <2>4
<1>3. ASSUME NEW x \in R, NEW y \in R, x.seq < y.seq
      PROVE  Offset(R, y) < Offset(R, x)
  <2>0. \A z \in R : z.seq \in Nat
    BY DEF Numbered
  <2>1. y \in Newer(R, x) /\ y \notin Newer(R, y)
    BY <1>3, <2>0 DEF Newer
  <2>2. Newer(R, y) \in SUBSET Newer(R, x) /\ Newer(R, y) # Newer(R, x)
    BY <1>3, <2>0, <2>1 DEF Newer
  <2>3. IsFiniteSet(Newer(R, x)) /\ Offset(R, x) \in Nat /\ Offset(R, y) \in Nat
    BY <1>2
  <2>4. Offset(R, y) <= Offset(R, x) /\ Offset(R, y) # Offset(R, x)
    BY <2>2, <2>3, FS_Subset DEF Offset
  <2> QED
    BY <2>3, <2>4
<1>4. ASSUME NEW x \in R, NEW y \in R, Offset(R, x) = Offset(R, y)
      PROVE  x = y
  <2>1. x.seq \in Nat /\ y.seq \in Nat /\ Offset(R, x) \in Nat /\ Offset(R, y) \in Nat
    BY <1>2 DEF Numbered
  <2>2. ~(x.seq < y.seq) /\ ~(y.seq < x.seq)
    BY <1>3, <1>4, <2>1
  <2>3. x.seq = y.seq
    BY <2>1, <2>2
  <2> QED
    BY <2>3 DEF Numbered
<1> QED
  BY <1>1, <1>2, <1>3, <1>4

(* The statement as ORDER BY seq DESC gives it.                            *)
NewestFirst(R) == CHOOSE s \in SetToSeqs(R) :
                     \A i, j \in DOMAIN s : i < j => s[i].seq > s[j].seq

(* It exists: each row goes where its offset says.                         *)
LEMMA NewestFirstSorts ==
    ASSUME NEW R, Numbered(R)
    PROVE  /\ NewestFirst(R) \in SetToSeqs(R)
           /\ \A i, j \in DOMAIN NewestFirst(R) :
                 i < j => NewestFirst(R)[i].seq > NewestFirst(R)[j].seq
<1> DEFINE n == Cardinality(R)
           place == [x \in R |-> Offset(R, x) + 1]
<1>1. n \in Nat
  BY OffsetFacts
<1>2. place \in [R -> 1..n] /\ \A x \in R : place[x] = Offset(R, x) + 1
  <2>1. \A x \in R : Offset(R, x) + 1 \in 1..n
    BY <1>1, OffsetFacts
  <2> QED
    BY <2>1
<1>3. \A x, y \in R : place[x] = place[y] => x = y
  <2>1. \A x, y \in R : Offset(R, x) + 1 = Offset(R, y) + 1 => Offset(R, x) = Offset(R, y)
    BY OffsetFacts
  <2> QED
    BY <1>2, <2>1, OffsetFacts
<1> HIDE DEF place, n
<1>4. \A k \in 1..n : \E x \in R : place[x] = k
  <2>1. place \in Injection(R, 1..n)
    BY <1>2, <1>3, Fun_IsInj
  <2>2. IsFiniteSet(1..n) /\ Cardinality(1..n) = n
    BY <1>1, FS_Interval
  <2>3. place \in Surjection(R, 1..n)
    BY <2>1, <2>2, FS_Injection DEF n
  <2> QED
    BY <2>3, Fun_SurjectionProperties
<1> DEFINE s == [k \in 1..n |-> CHOOSE x \in R : place[x] = k]
<1>5. s \in [1..n -> R] /\ \A k \in 1..n : place[s[k]] = k
  BY <1>4
<1> HIDE DEF s
<1>6. s \in SetToSeqs(R)
  BY <1>5 DEF SetToSeqs, n
<1>7. \A i, j \in DOMAIN s : i < j => s[i].seq > s[j].seq
  <2> SUFFICES ASSUME NEW i \in 1..n, NEW j \in 1..n, i < j PROVE s[i].seq > s[j].seq
    BY <1>5
  <2>1. /\ s[i] \in R /\ s[j] \in R /\ Offset(R, s[i]) + 1 = i /\ Offset(R, s[j]) + 1 = j
        /\ s[i].seq \in Nat /\ s[j].seq \in Nat /\ i \in Nat /\ j \in Nat
        /\ Offset(R, s[i]) \in Int /\ Offset(R, s[j]) \in Int
    BY <1>1, <1>2, <1>5, OffsetFacts DEF Numbered
  <2>2. CASE s[i].seq < s[j].seq
    <3>1. Offset(R, s[j]) < Offset(R, s[i])
      BY <2>1, <2>2, OffsetFacts
    <3> QED
      BY <2>1, <3>1
  <2>3. CASE s[i].seq = s[j].seq
    <3>1. s[i] = s[j]
      BY <2>1, <2>3 DEF Numbered
    <3>2. i = j
      BY <2>1, <3>1
    <3> QED
      BY <2>1, <3>2
  <2> QED
    BY <2>1, <2>2, <2>3
<1> QED
  BY <1>6, <1>7 DEF NewestFirst

(* Line q of the statement has offset q - 1, and every row is a line.      *)
LEMMA LineOffsets ==
    ASSUME NEW R, Numbered(R)
    PROVE  LET s == NewestFirst(R) IN
           /\ s \in Seq(R) /\ Len(s) = Cardinality(R) /\ Cardinality(R) \in Nat
           /\ \A q \in 1..Len(s) : s[q] \in R /\ Offset(R, s[q]) = q - 1
           /\ \A x \in R : \E q \in 1..Len(s) : s[q] = x
           /\ \A i, j \in 1..Len(s) : s[i] = s[j] => i = j
<1> DEFINE s == NewestFirst(R)  n == Cardinality(R)
<1>1. n \in Nat
  BY OffsetFacts
<1>2. /\ s \in [1..n -> R] /\ \A i, j \in 1..n : i # j => s[i] # s[j]
      /\ \A i, j \in 1..n : i < j => s[i].seq > s[j].seq
  <2>1. s \in SetToSeqs(R) /\ \A i, j \in DOMAIN s : i < j => s[i].seq > s[j].seq
    BY NewestFirstSorts
  <2> HIDE DEF s
  <2>2. s \in [1..n -> R] /\ \A i, j \in 1..n : i # j => s[i] # s[j]
    BY <2>1 DEF SetToSeqs
  <2>3. DOMAIN s = 1..n
    BY <2>2
  <2> QED
    BY <2>1, <2>2, <2>3
<1> HIDE DEF s
<1>3. s \in Seq(R) /\ Len(s) = n
  BY <1>1, <1>2
<1>4. \A i, j \in 1..n : s[i] = s[j] => i = j
  BY <1>2
<1>5. \A x \in R : \E q \in 1..n : s[q] = x
  <2>1. s \in Injection(1..n, R)
    BY <1>2, <1>4, Fun_IsInj
  <2>2. IsFiniteSet(1..n) /\ Cardinality(1..n) = n
    BY <1>1, FS_Interval
  <2>3. s \in Surjection(1..n, R)
    BY <2>1, <2>2, FS_Injection DEF n, Numbered
  <2> HIDE DEF n
  <2> QED
    BY <2>3 DEF Surjection
<1>6. ASSUME NEW q \in 1..n
      PROVE  s[q] \in R /\ Offset(R, s[q]) = q - 1
  <2> DEFINE f == [i \in 1..(q - 1) |-> s[i]]
  <2>1. q - 1 \in Nat /\ \A i \in 1..(q - 1) : i \in 1..n /\ i < q
    BY <1>1
  <2>2. \A i \in 1..(q - 1) : s[i] \in Newer(R, s[q])
    BY <1>2, <2>1 DEF Newer
  <2>3. f \in [1..(q - 1) -> Newer(R, s[q])]
    BY <2>2
  <2>4. \A i, j \in 1..(q - 1) : f[i] = f[j] => i = j
    BY <1>4, <2>1
  <2>5. ASSUME NEW x \in Newer(R, s[q])
        PROVE  \E i \in 1..(q - 1) : f[i] = x
    <3>1. PICK i \in 1..n : s[i] = x
      BY <1>5 DEF Newer
    <3>2. s[i].seq > s[q].seq /\ s[i].seq \in Nat /\ s[q].seq \in Nat
      BY <1>2, <3>1 DEF Newer, Numbered
    <3>3. ~(q < i) /\ q # i
      BY <1>2, <3>2
    <3>4. i \in 1..(q - 1)
      BY <1>1, <3>3
    <3> QED
      BY <3>1, <3>4
  <2> HIDE DEF f
  <2>6. Cardinality(Newer(R, s[q])) = q - 1
    BY <2>1, <2>3, <2>4, <2>5, Counted
  <2> QED
    BY <1>2, <2>6 DEF Offset
<1> QED
  BY <1>1, <1>3, <1>4, <1>5, <1>6 DEF n, s

(* What LIMIT and OFFSET cut out of the statement.                         *)
LEMMA PageCut ==
    ASSUME NEW R, Numbered(R), NEW m \in Nat
    PROVE  LET p == Rows(NewestFirst(R), m + 1, m + Limit) IN
           /\ p \in Seq(R) /\ ToSet(p) = Page(R, m)
           /\ IsFiniteSet(Page(R, m)) /\ Cardinality(Page(R, m)) = Len(p)
           /\ Len(p) < Limit => \A x \in R : Offset(R, x) < m + Limit
           /\ m = 0 => \A x \in R : \E y \in Page(R, m) : x.seq <= y.seq
<1> DEFINE s == NewestFirst(R)  n == Len(s)
           e == IF m + Limit < n THEN m + Limit ELSE n
           p == Rows(s, m + 1, m + Limit)
           l == IF m + 1 <= e THEN e - m ELSE 0
<1>0. Limit \in Nat \ {0}
  BY HistoryAssumption
<1>1. /\ s \in Seq(R) /\ n \in Nat
      /\ \A q \in 1..n : s[q] \in R /\ Offset(R, s[q]) = q - 1
      /\ \A x \in R : \E q \in 1..n : s[q] = x
      /\ \A i, j \in 1..n : s[i] = s[j] => i = j
  BY LineOffsets
<1>2. p = SubSeq(s, m + 1, e)
  BY DEF Rows
<1> HIDE DEF s, n, p
<1>3. e \in Nat /\ e <= n /\ e <= m + Limit /\ l \in Nat /\ (e < m + Limit => e = n)
      /\ (m < e => l = e - m) /\ (~(m < e) => l = 0)
  BY <1>0, <1>1
<1>4. \A i \in 1..l : m + i \in 1..n /\ m + i \in 1..e /\ (m + 1) + i - 1 = m + i
                      /\ i \in 1..(e - (m + 1) + 1)
  BY <1>1, <1>3
<1> HIDE DEF e
<1>5. p \in Seq(R) /\ Len(p) = l /\ \A i \in 1..l : p[i] = s[m + i]
  <2>1. \A i \in (m + 1)..e : s[i] \in R
    BY <1>1, <1>3
  <2>2. /\ p \in Seq(R) /\ Len(p) = IF m + 1 <= e THEN e - (m + 1) + 1 ELSE 0
        /\ \A i \in 1..(e - (m + 1) + 1) : p[i] = s[(m + 1) + i - 1]
    BY <1>2, <1>3, <2>1, SubSeqProperties
  <2>3. Len(p) = l
    BY <1>3, <2>2
  <2> QED
    BY <1>4, <2>2, <2>3
<1> HIDE DEF l
<1>6. ASSUME NEW i \in 1..l PROVE p[i] \in Page(R, m)
  <2>1. s[m + i] \in R /\ Offset(R, s[m + i]) = (m + i) - 1
    BY <1>1, <1>4
  <2>2. m <= (m + i) - 1 /\ (m + i) - 1 < m + Limit
    BY <1>0, <1>3, <1>4
  <2> QED
    BY <1>5, <2>1, <2>2 DEF Page
<1>7. ASSUME NEW x \in Page(R, m) PROVE \E i \in 1..l : p[i] = x
  <2>1. x \in R /\ m <= Offset(R, x) /\ Offset(R, x) < m + Limit
    BY DEF Page
  <2>2. PICK q \in 1..n : s[q] = x /\ Offset(R, x) = q - 1
    BY <1>1, <2>1
  <2>3. q - m \in 1..l /\ m + (q - m) = q
    BY <1>0, <1>1, <1>3, <2>1, <2>2
  <2> QED
    BY <1>5, <2>2, <2>3
<1>8. \A i, j \in 1..l : p[i] = p[j] => i = j
  <2> SUFFICES ASSUME NEW i \in 1..l, NEW j \in 1..l, p[i] = p[j] PROVE i = j
    OBVIOUS
  <2>1. m + i = m + j
    BY <1>1, <1>4, <1>5
  <2> QED
    BY <1>3, <2>1
<1>9. DOMAIN p = 1..l /\ p \in [1..l -> Page(R, m)]
  <2>1. DOMAIN p = 1..l
    BY <1>5
  <2>2. p = [i \in 1..l |-> p[i]]
    BY <1>5
  <2> QED
    BY <1>6, <2>1, <2>2
<1>10. ToSet(p) = Page(R, m)
  BY <1>6, <1>7, <1>9 DEF ToSet
<1>11. IsFiniteSet(Page(R, m)) /\ Cardinality(Page(R, m)) = l
  BY <1>3, <1>7, <1>8, <1>9, Counted
<1>12. ASSUME l < Limit, NEW x \in R PROVE Offset(R, x) < m + Limit
  <2>1. PICK q \in 1..n : s[q] = x /\ Offset(R, x) = q - 1
    BY <1>1
  <2>2. e < m + Limit
    BY <1>0, <1>3, <1>12
  <2> QED
    BY <1>0, <1>1, <1>3, <2>1, <2>2
<1>13. ASSUME m = 0, NEW x \in R PROVE \E y \in Page(R, m) : x.seq <= y.seq
  <2>1. PICK q \in 1..n : s[q] = x
    BY <1>1
  <2>2. 1 \in 1..n
    BY <1>1, <2>1
  <2>3. s[1] \in R /\ Offset(R, s[1]) = 0
    BY <1>1, <2>2
  <2>4. s[1] \in Page(R, m)
    BY <1>0, <1>13, <2>3 DEF Page
  <2>5. ~(s[1].seq < x.seq)
    <3>1. Offset(R, x) \in Nat
      BY OffsetFacts
    <3> QED
      BY <2>3, <3>1, OffsetFacts
  <2> QED
    BY <2>3, <2>4, <2>5 DEF Numbered
<1> QED
  BY <1>5, <1>10, <1>11, <1>12, <1>13 DEF p, s

(* The rows Sh shown on pages up to offset m of the statement R: a page    *)
(* leaves out no row between two it shows.                                 *)
Cut(R, Sh, m) ==
    /\ Sh \subseteq R
    /\ \A y \in Sh : \A x \in R : x.seq <= y.seq /\ Offset(R, x) < m => x \in Sh

(* Nothing older than a shown row is missing.                              *)
Complete(R, Sh) == \A y \in Sh : \A x \in R : x.seq <= y.seq => x \in Sh

(* The pages begin at least as late as the statement R0.                   *)
Covers(R0, Sh) == \A x \in R0 : \E y \in Sh : x.seq <= y.seq

(* Shown rows that newer ones pushed to where the next pages are.          *)
Pushed(R, Sh, m) == {r \in Sh : m <= Offset(R, r)}

(* On k lines, the rows shown twice and those that still may be are at     *)
(* most as many as the rows that came since the first page.                *)
Repeats(R, R0, Sh, k, m) ==
    (k - Cardinality(Sh)) + Cardinality(Pushed(R, Sh, m)) <= Cardinality(R \ R0)

(* Disjoint sets add up.                                                   *)
LEMMA DisjointUnion ==
    ASSUME NEW S, NEW T, IsFiniteSet(S), IsFiniteSet(T), S \cap T = {}
    PROVE  /\ Cardinality(S) \in Nat /\ Cardinality(T) \in Nat
           /\ Cardinality(S \cup T) = Cardinality(S) + Cardinality(T)
<1>1. Cardinality(S) \in Nat /\ Cardinality(T) \in Nat
  BY FS_CardinalityType
<1>2. Cardinality(S \cup T) = Cardinality(S) + Cardinality(T) - Cardinality(S \cap T)
  BY FS_Union
<1>3. Cardinality(S \cap T) = 0
  <2>1. Cardinality({}) = 0
    BY FS_EmptySet
  <2> QED
    BY <2>1
<1>4. \A a, b \in Nat : a + b - 0 = a + b
  OBVIOUS
<1> QED
  BY <1>1, <1>2, <1>3, <1>4

(* Newer rows raise every offset by their number.                          *)
LEMMA OffsetGrows ==
    ASSUME NEW R, NEW N, Numbered(R), IsFiniteSet(N), \A x \in R : \A z \in N : x.seq < z.seq,
           \A z \in N : z.seq \in Nat, NEW r \in R
    PROVE  Offset(R \cup N, r) = Offset(R, r) + Cardinality(N)
<1>1. Newer(R \cup N, r) = Newer(R, r) \cup N /\ Newer(R, r) \cap N = {}
  BY DEF Newer, Numbered
<1>2. Newer(R, r) \in SUBSET R
  BY DEF Newer
<1>3. IsFiniteSet(Newer(R, r))
  BY <1>2, FS_Subset DEF Numbered
<1>4. Cardinality(Newer(R, r) \cup N) = Cardinality(Newer(R, r)) + Cardinality(N)
  BY <1>1, <1>3, DisjointUnion
<1> QED
  BY <1>1, <1>4 DEF Offset

(* Rows that commit between two pages keep what the pages are.             *)
LEMMA TrafficKeepsPages ==
    ASSUME NEW R, NEW N, NEW R0, NEW Sh, NEW k \in Nat, NEW m \in Nat,
           Numbered(R), Numbered(R \cup N), \A x \in R : \A z \in N : x.seq < z.seq,
           R0 \subseteq R, Cut(R, Sh, m), Repeats(R, R0, Sh, k, m)
    PROVE  /\ Cut(R \cup N, Sh, m) /\ Repeats(R \cup N, R0, Sh, k, m)
           /\ Complete(R, Sh) => Complete(R \cup N, Sh)
<1> DEFINE d == Cardinality(N)
           W == {r \in Sh : Offset(R, r) < m /\ m <= Offset(R, r) + d}
           P == Pushed(R, Sh, m)
<1>0. /\ Sh \subseteq R /\ \A x \in R : x.seq \in Nat
      /\ \A z \in N : z.seq \in Nat /\ z \notin R
  BY DEF Cut, Numbered
<1>1. IsFiniteSet(R) /\ IsFiniteSet(N) /\ IsFiniteSet(Sh)
  <2>1. N \in SUBSET (R \cup N) /\ Sh \in SUBSET R
    BY <1>0
  <2>2. IsFiniteSet(R) /\ IsFiniteSet(R \cup N)
    BY DEF Numbered
  <2> QED
    BY <2>1, <2>2, FS_Subset
<1>2. d \in Nat /\ Cardinality(Sh) \in Nat
  BY <1>1, FS_CardinalityType
<1>3. \A r \in R : Offset(R, r) \in Nat
  BY OffsetFacts
<1>4. ASSUME NEW r \in R PROVE Offset(R \cup N, r) = Offset(R, r) + d
  BY <1>0, <1>1, OffsetGrows
<1> HIDE DEF d
<1>5. Cut(R \cup N, Sh, m)
  <2> SUFFICES ASSUME NEW y \in Sh, NEW x \in R \cup N, x.seq <= y.seq, Offset(R \cup N, x) < m
               PROVE  x \in Sh
    BY <1>0 DEF Cut
  <2>1. x \in R
    BY <1>0
  <2>2. Offset(R, x) < m
    <3>1. Offset(R, x) \in Nat /\ Offset(R \cup N, x) = Offset(R, x) + d
      BY <1>3, <1>4, <2>1
    <3> QED
      BY <1>2, <3>1
  <2> QED
    BY <2>1, <2>2 DEF Cut
<1>6. Complete(R, Sh) => Complete(R \cup N, Sh)
  BY <1>0 DEF Complete
<1>7. IsFiniteSet(W) /\ Cardinality(W) <= d
  <2> DEFINE f == [r \in W |-> Offset(R, r)]
             I == (m - d)..(m - 1)
  <2>1. \A r \in W : r \in R /\ Offset(R, r) \in I
    BY <1>0, <1>2, <1>3
  <2>2. f \in [W -> I] /\ \A x, y \in W : f[x] = f[y] => x = y
    BY <2>1, OffsetFacts
  <2>3. IsFiniteSet(I) /\ Cardinality(I) = d
    <3>1. m - d \in Int /\ m - 1 \in Int
      BY <1>2
    <3>2. IsFiniteSet(I) /\ Cardinality(I) = IF m - d > m - 1 THEN 0 ELSE (m - 1) - (m - d) + 1
      BY <3>1, FS_Interval
    <3> HIDE DEF I
    <3> QED
      BY <1>2, <3>2
  <2> HIDE DEF f, I, W
  <2>4. f \in Injection(W, I)
    BY <2>2, Fun_IsInj
  <2> QED
    BY <2>3, <2>4, FS_Injection
<1>8. IsFiniteSet(P) /\ P \cap W = {} /\ Pushed(R \cup N, Sh, m) = P \cup W
  <2>1. P \in SUBSET Sh
    BY DEF Pushed
  <2>2. IsFiniteSet(P)
    BY <1>1, <2>1, FS_Subset
  <2>3. P \cap W = {}
    BY <1>0, <1>3 DEF Pushed
  <2>4. ASSUME NEW r \in Sh
        PROVE  m <= Offset(R \cup N, r)
               <=> m <= Offset(R, r) \/ (Offset(R, r) < m /\ m <= Offset(R, r) + d)
    <3>1. r \in R /\ Offset(R, r) \in Nat /\ Offset(R \cup N, r) = Offset(R, r) + d
      BY <1>0, <1>3, <1>4
    <3> QED
      BY <1>2, <3>1
  <2> QED
    BY <2>2, <2>3, <2>4 DEF Pushed
<1> HIDE DEF W, P
<1>9. Cardinality(P) \in Nat /\ Cardinality(W) \in Nat
      /\ Cardinality(P \cup W) = Cardinality(P) + Cardinality(W)
  BY <1>7, <1>8, DisjointUnion
<1>10. Cardinality(R \ R0) \in Nat /\ Cardinality((R \cup N) \ R0) = Cardinality(R \ R0) + d
  <2>1. (R \cup N) \ R0 = (R \ R0) \cup N /\ (R \ R0) \cap N = {}
    BY <1>0
  <2>2. IsFiniteSet(R \ R0)
    BY <1>1, FS_Difference
  <2>3. Cardinality(R \ R0) \in Nat /\ Cardinality((R \ R0) \cup N) = Cardinality(R \ R0) + d
    BY <1>1, <2>1, <2>2, DisjointUnion DEF d
  <2> QED
    BY <2>1, <2>3
<1>11. Repeats(R \cup N, R0, Sh, k, m)
  <2>1. (k - Cardinality(Sh)) + Cardinality(P) <= Cardinality(R \ R0)
    BY DEF Repeats, P
  <2>2. (k - Cardinality(Sh)) + Cardinality(P \cup W) <= Cardinality((R \cup N) \ R0)
    BY <1>2, <1>7, <1>9, <1>10, <2>1
  <2> QED
    BY <1>8, <2>2 DEF Repeats
<1> QED
  BY <1>5, <1>6, <1>11

(* So does the next page.                                                  *)
LEMMA NextPageKeepsPages ==
    ASSUME NEW R, NEW R0, NEW Sh, NEW k \in Nat, NEW m \in Nat,
           Numbered(R), Cut(R, Sh, m), Repeats(R, R0, Sh, k, m),
           IsFiniteSet(Page(R, m))
    PROVE  /\ Cut(R, Sh \cup Page(R, m), m + Limit)
           /\ Repeats(R, R0, Sh \cup Page(R, m), k + Cardinality(Page(R, m)), m + Limit)
<1> DEFINE P == Page(R, m)
           A == Pushed(R, Sh \cup P, m + Limit)
<1>0. /\ Sh \subseteq R /\ P \subseteq R /\ Limit \in Nat
      /\ \A x \in R : x.seq \in Nat /\ Offset(R, x) \in Nat
  BY HistoryAssumption, OffsetFacts DEF Cut, Numbered, Page
<1>1. Cut(R, Sh \cup P, m + Limit)
  <2> SUFFICES ASSUME NEW y \in Sh \cup P, NEW x \in R, x.seq <= y.seq, Offset(R, x) < m + Limit,
                      x \notin P
               PROVE  x \in Sh
    BY <1>0 DEF Cut
  <2>1. Offset(R, x) < m
    BY <1>0 DEF Page
  <2>2. CASE y \in Sh
    BY <2>1, <2>2 DEF Cut
  <2>3. CASE y \in P
    <3>1. y \in R /\ m <= Offset(R, y) /\ Offset(R, y) \in Nat /\ Offset(R, x) \in Nat
      BY <1>0, <2>3 DEF Page
    <3>2. x # y
      BY <2>1, <3>1
    <3>3. x.seq < y.seq
      BY <1>0, <3>1, <3>2 DEF Numbered
    <3>4. Offset(R, y) < Offset(R, x)
      BY <3>1, <3>3, OffsetFacts
    <3> QED
      BY <2>1, <3>1, <3>4
  <2> QED
    BY <2>2, <2>3
<1>2. IsFiniteSet(Sh) /\ IsFiniteSet(P)
  <2>1. Sh \in SUBSET R /\ IsFiniteSet(R)
    BY <1>0 DEF Numbered
  <2> QED
    BY <2>1, FS_Subset
<1>3. Pushed(R, Sh, m) = (Sh \cap P) \cup A /\ (Sh \cap P) \cap A = {} /\ A \in SUBSET Sh
  <2>1. ASSUME NEW r \in R
        PROVE  /\ m <= Offset(R, r) <=> \/ m <= Offset(R, r) /\ Offset(R, r) < m + Limit
                                        \/ m + Limit <= Offset(R, r)
               /\ ~(m + Limit <= Offset(R, r) /\ Offset(R, r) < m + Limit)
    BY <1>0
  <2> QED
    BY <1>0, <2>1 DEF Pushed, Page
<1>4. IsFiniteSet(Sh \cap P) /\ IsFiniteSet(A)
  BY <1>2, <1>3, FS_Subset, FS_Intersection
<1> HIDE DEF A, P
<1>5. /\ Cardinality(Sh) \in Nat /\ Cardinality(P) \in Nat /\ Cardinality(Sh \cap P) \in Nat
      /\ Cardinality(A) \in Nat
  BY <1>2, <1>4, FS_CardinalityType
<1>6. Cardinality(Sh \cup P) = Cardinality(Sh) + Cardinality(P) - Cardinality(Sh \cap P)
  BY <1>2, FS_Union
<1>7. Cardinality(Pushed(R, Sh, m)) = Cardinality(Sh \cap P) + Cardinality(A)
  BY <1>3, <1>4, DisjointUnion
<1>8. Repeats(R, R0, Sh \cup P, k + Cardinality(P), m + Limit)
  <2>1. (k - Cardinality(Sh)) + Cardinality(Pushed(R, Sh, m)) <= Cardinality(R \ R0)
    BY DEF Repeats
  <2>2. (k - Cardinality(Sh)) + Cardinality(Pushed(R, Sh, m))
          = ((k + Cardinality(P)) - Cardinality(Sh \cup P)) + Cardinality(A)
    BY <1>5, <1>6, <1>7
  <2> QED
    BY <2>1, <2>2 DEF Repeats, A
<1> QED
  BY <1>1, <1>8 DEF P

(* The rows of an account in a ledger l.                                   *)
RowsIn(l, w) == {l[i] : i \in {j \in 1..Len(l) : l[j].account = w}}

(* There are finitely many of them.                                        *)
LEMMA RowsFinite ==
    ASSUME NEW l \in Seq(EntryRow), NEW w
    PROVE  IsFiniteSet(RowsIn(l, w))
<1> DEFINE I == {j \in 1..Len(l) : l[j].account = w}
           f == [i \in I |-> l[i]]
<1>1. IsFiniteSet(1..Len(l)) /\ I \in SUBSET (1..Len(l))
  <2>1. Len(l) \in Nat
    OBVIOUS
  <2> QED
    BY <2>1, FS_Interval
<1>2. IsFiniteSet(I)
  BY <1>1, FS_Subset
<1>3. f \in Surjection(I, RowsIn(l, w))
  BY DEF Surjection, RowsIn
<1> HIDE DEF f, I
<1> QED
  BY <1>2, <1>3, FS_Surjection

(* Those of a wallet have distinct sequence numbers.                       *)
LEMMA RowsAreNumbered ==
    ASSUME NEW l \in Seq(EntryRow), NEW w \in Wallets,
           \A i, j \in 1..Len(l) :
              i < j /\ l[i].account = l[j].account /\ l[i].account \in Wallets
              => l[i].seq < l[j].seq
    PROVE  Numbered(RowsIn(l, w))
<1>1. Len(l) \in Nat /\ \A i \in 1..Len(l) : l[i] \in EntryRow
  OBVIOUS
<1>2. \A x \in RowsIn(l, w) : x.seq \in Nat
  BY <1>1 DEF EntryRow, RowsIn
<1>3. ASSUME NEW x \in RowsIn(l, w), NEW y \in RowsIn(l, w), x.seq = y.seq PROVE x = y
  <2>1. PICK i \in 1..Len(l) : x = l[i] /\ l[i].account = w
    BY DEF RowsIn
  <2>2. PICK j \in 1..Len(l) : y = l[j] /\ l[j].account = w
    BY DEF RowsIn
  <2>3. ~(i < j) /\ ~(j < i)
    BY <1>2, <1>3, <2>1, <2>2
  <2>4. i = j
    BY <1>1, <2>3
  <2> QED
    BY <2>1, <2>2, <2>4
<1> QED
  BY <1>2, <1>3, RowsFinite DEF Numbered

(* A COMMIT adds rows that are newer than all of a wallet's.               *)
LEMMA CommitGrows ==
    ASSUME LedgerInv, KeysInv, HistoryInCommitOrder', NEW c \in Calls, Commit(c),
           NEW w \in Wallets
    PROVE  \E N : /\ RowsUpTo(w, Len(ledger))' = RowsUpTo(w, Len(ledger)) \cup N
                  /\ \A x \in RowsUpTo(w, Len(ledger)) : \A z \in N : x.seq < z.seq
<1> DEFINE n == Len(ledger)
           N == {ledger'[i] : i \in {j \in (n + 1)..(n + 2) : ledger'[j].account = w}}
<1>1. n \in Nat /\ Len(ledger') = n + 2 /\ \A i \in 1..n : ledger'[i] = ledger[i]
  BY CommitAppends
<1>2. RowsUpTo(w, Len(ledger))'
        = {ledger'[i] : i \in {j \in 1..Len(ledger') : ledger'[j].account = w}}
  BY DEF RowsUpTo
<1>3. /\ \A i \in 1..(n + 2) : i \in 1..n \/ i \in (n + 1)..(n + 2)
      /\ \A i \in 1..n : i \in 1..(n + 2) /\ \A j \in (n + 1)..(n + 2) : i < j
      /\ \A j \in (n + 1)..(n + 2) : j \in 1..(n + 2)
  BY <1>1
<1>4. RowsUpTo(w, n) = {ledger[i] : i \in {j \in 1..n : ledger[j].account = w}}
  BY DEF RowsUpTo
<1>5. RowsUpTo(w, Len(ledger))' = RowsUpTo(w, n) \cup N
  BY <1>1, <1>2, <1>3, <1>4
<1>6. ASSUME NEW x \in RowsUpTo(w, n), NEW z \in N PROVE x.seq < z.seq
  <2>1. PICK i \in 1..n : x = ledger[i] /\ ledger[i].account = w
    BY <1>4
  <2>2. PICK j \in (n + 1)..(n + 2) : z = ledger'[j] /\ ledger'[j].account = w
    OBVIOUS
  <2>3. /\ i \in 1..Len(ledger') /\ j \in 1..Len(ledger') /\ i < j
        /\ ledger'[i] = x /\ ledger'[i].account = w
    BY <1>1, <1>3, <2>1, <2>2
  <2> QED
    BY <2>2, <2>3 DEF HistoryInCommitOrder
<1> HIDE DEF N
<1> QED
  BY <1>5, <1>6

(* The older ones stay what they are.                                      *)
LEMMA CommitKeepsOlder ==
    ASSUME LedgerInv, KeysInv, NEW c \in Calls, Commit(c), NEW w, NEW n \in 0..Len(ledger)
    PROVE  RowsUpTo(w, n)' = RowsUpTo(w, n)
<1>1. \A i \in 1..n : i \in 1..Len(ledger) /\ ledger'[i] = ledger[i]
  <2>1. Len(ledger) \in Nat /\ \A i \in 1..Len(ledger) : ledger'[i] = ledger[i]
    BY CommitAppends
  <2> QED
    BY <2>1
<1> QED
  BY <1>1 DEF RowsUpTo

(* Another page: its rows and its lines.                                   *)
LEMMA PageAppended ==
    ASSUME NEW p, pages \in Seq(Seq(EntryRow)), p \in Seq(EntryRow), pages' = Append(pages, p),
           IsFiniteSet(Lines)
    PROVE  /\ pages' \in Seq(Seq(EntryRow)) /\ Len(pages') = Len(pages) + 1 /\ pages' # <<>>
           /\ Last(pages') = p /\ Shown' = Shown \cup ToSet(p)
           /\ IsFiniteSet(Lines') /\ Cardinality(Lines') = Cardinality(Lines) + Len(p)
<1> DEFINE n == Len(pages)
           L == {n + 1} \X (1..Len(p))
<1> HIDE DEF EntryRow
<1>1. /\ n \in Nat /\ pages' \in Seq(Seq(EntryRow)) /\ Len(pages') = n + 1
      /\ pages'[n + 1] = p /\ \A i \in 1..n : pages'[i] = pages[i]
      /\ DOMAIN pages = 1..n /\ DOMAIN pages' = 1..(n + 1)
  OBVIOUS
<1>2. pages' # <<>>
  BY <1>1
<1>3. Last(pages') = p
  BY <1>1 DEF Last
<1>4. 1..(n + 1) = (1..n) \cup {n + 1} /\ n + 1 \notin 1..n
  BY <1>1
<1>5. Shown' = Shown \cup ToSet(p)
  <2>1. Shown' = UNION {ToSet(pages'[k]) : k \in (1..n) \cup {n + 1}}
    BY <1>1, <1>4 DEF Shown
  <2>2. Shown = UNION {ToSet(pages[k]) : k \in 1..n}
    BY <1>1 DEF Shown
  <2> QED
    BY <1>1, <2>1, <2>2
<1>6. DOMAIN p = 1..Len(p) /\ Len(p) \in Nat
  OBVIOUS
<1>7. Lines' = Lines \cup L /\ Lines \cap L = {}
  <2>1. Lines' = UNION {{k} \X DOMAIN pages'[k] : k \in (1..n) \cup {n + 1}}
    BY <1>1, <1>4 DEF Lines
  <2>2. Lines = UNION {{k} \X DOMAIN pages[k] : k \in 1..n}
    BY <1>1 DEF Lines
  <2>3. Lines' = Lines \cup L
    BY <1>1, <1>6, <2>1, <2>2
  <2>4. Lines \cap L = {}
    BY <1>4, <2>2
  <2> QED
    BY <2>3, <2>4
<1>8. IsFiniteSet(L) /\ Cardinality(L) = Len(p)
  <2>1. IsFiniteSet({n + 1}) /\ Cardinality({n + 1}) = 1
    BY FS_Singleton
  <2>2. IsFiniteSet(1..Len(p)) /\ Cardinality(1..Len(p)) = Len(p)
    <3>1. 1 \in Int /\ Len(p) \in Int
      BY <1>6
    <3>2. /\ IsFiniteSet(1..Len(p))
          /\ Cardinality(1..Len(p)) = IF 1 > Len(p) THEN 0 ELSE Len(p) - 1 + 1
      BY <3>1, FS_Interval
    <3> QED
      BY <1>6, <3>2
  <2>3. IsFiniteSet(L) /\ Cardinality(L) = Cardinality({n + 1}) * Cardinality(1..Len(p))
    BY <2>1, <2>2, FS_Product
  <2> QED
    BY <1>6, <2>1, <2>2, <2>3
<1> HIDE DEF L
<1>9. IsFiniteSet(Lines') /\ Cardinality(Lines') = Cardinality(Lines) + Len(p)
  <2>1. IsFiniteSet(Lines \cup L)
    BY <1>8, FS_Union
  <2>2. Cardinality(Lines \cup L) = Cardinality(Lines) + Cardinality(L)
    BY <1>7, <1>8, DisjointUnion
  <2> QED
    BY <1>7, <1>8, <2>1, <2>2
<1> QED
  BY <1>1, <1>2, <1>3, <1>5, <1>9

(* The client does not own the wallet, or there is none.                   *)
Refused == WalletError([wallet |-> PageWallet, user |-> reader]) # "none"

(* The statement now and the one at the first page.                        *)
RowsNow   == RowsUpTo(PageWallet, Len(ledger))
RowsFirst == RowsUpTo(PageWallet, before)

(* The inductive invariant of paging.                                      *)
PagingInv ==
    /\ pages \in Seq(Seq(EntryRow)) /\ IsFiniteSet(Lines) /\ before \in 0..Len(ledger)
    /\ Refused => pages = <<>>
    /\ status = 404 => Refused
    /\ ~Refused =>
          /\ Cut(RowsNow, Shown, Limit * Len(pages))
          /\ Repeats(RowsNow, RowsFirst, Shown, Cardinality(Lines), Limit * Len(pages))
          /\ pages # <<>> => Covers(RowsFirst, Shown)
          /\ Ended => Complete(RowsNow, Shown)

(* Before the first page there is nothing to compare.                      *)
LEMMA NoPages ==
    ASSUME pages = <<>>
    PROVE  Lines = {} /\ Shown = {} /\ Limit * Len(pages) = 0 /\ pages \in Seq(Seq(EntryRow))
<1>1. DOMAIN pages = {} /\ Len(pages) = 0 /\ pages \in Seq(Seq(EntryRow))
  OBVIOUS
<1>2. Limit \in Nat
  BY HistoryAssumption
<1>3. Limit * Len(pages) = 0
  BY <1>1, <1>2
<1> QED
  BY <1>1, <1>3 DEF Lines, Shown

(* A client that has seen nothing has missed and repeated nothing.         *)
LEMMA NothingShown ==
    ASSUME NEW R, NEW m, IsFiniteSet(R)
    PROVE  /\ Cut(R, {}, m) /\ Repeats(R, R, {}, 0, m)
<1>1. Pushed(R, {}, m) = {} /\ R \ R = {}
  BY DEF Pushed
<1>2. Cardinality({}) = 0
  BY FS_EmptySet
<1>3. (0 - 0) + 0 <= 0
  OBVIOUS
<1> QED
  BY <1>1, <1>2, <1>3 DEF Cut, Repeats

(* The initial state satisfies the invariant.                              *)
LEMMA PagingInit == Init /\ HistoryInit => PagingInv
<1> SUFFICES ASSUME Init, HistoryInit PROVE PagingInv
  OBVIOUS
<1>1. ledger = <<>> /\ pages = <<>> /\ status = 0 /\ before = 0
  BY DEF Init, HistoryInit
<1>2. Lines = {} /\ Shown = {} /\ pages \in Seq(Seq(EntryRow))
  BY <1>1, NoPages
<1>3. Len(ledger) = 0 /\ before \in 0..Len(ledger)
  BY <1>1
<1>4. RowsNow = {} /\ RowsFirst = {}
  BY <1>1, <1>3 DEF RowsNow, RowsFirst, RowsUpTo
<1>5. IsFiniteSet({}) /\ Cardinality({}) = 0
  BY FS_EmptySet
<1>6. Cut({}, {}, Limit * Len(pages)) /\ Repeats({}, {}, {}, 0, Limit * Len(pages))
  BY <1>5, NothingShown
<1>7. ~Ended
  BY <1>1 DEF Ended
<1> QED
  BY <1>1, <1>2, <1>3, <1>4, <1>5, <1>6, <1>7 DEF PagingInv

(* The statement at the first page is part of the one now.                 *)
LEMMA FirstIsPart ==
    ASSUME TypeOK, before \in 0..Len(ledger)
    PROVE  RowsFirst \subseteq RowsNow
<1>1. Len(ledger) \in Nat
  BY DEF TypeOK
<1>2. \A i \in 1..before : i \in 1..Len(ledger)
  BY <1>1
<1> QED
  BY <1>2 DEF RowsFirst, RowsNow, RowsUpTo

(* The next offset and the number of lines received.                       *)
LEMMA SizesAreNats ==
    ASSUME PagingInv
    PROVE  Limit * Len(pages) \in Nat /\ Cardinality(Lines) \in Nat
<1>1. Limit \in Nat /\ Len(pages) \in Nat /\ IsFiniteSet(Lines)
  BY HistoryAssumption DEF PagingInv
<1>2. Cardinality(Lines) \in Nat
  BY <1>1, FS_CardinalityType
<1> QED
  BY <1>1, <1>2

(* Traffic between two pages keeps the invariant.                          *)
LEMMA TrafficKeepsPaging ==
    ASSUME LedgerInv, KeysInv, HistoryInCommitOrder, LedgerInv', HistoryInCommitOrder',
           PagingInv, NEW c \in Calls, Commit(c), UNCHANGED pageVars
    PROVE  PagingInv'
<1>1. /\ pages' = pages /\ status' = status /\ before' = before /\ reader' = reader
      /\ TypeOK /\ TypeOK'
  BY DEF pageVars, LedgerInv
<1>2. /\ Lines' = Lines /\ Shown' = Shown /\ (Ended' <=> Ended) /\ (Refused' <=> Refused)
  BY <1>1 DEF Lines, Shown, Ended, Refused, WalletError
<1>3. before' \in 0..Len(ledger')
  <2>1. Len(ledger) \in Nat /\ Len(ledger') = Len(ledger) + 2
    BY CommitAppends
  <2> QED
    BY <1>1, <2>1 DEF PagingInv
<1>4. RowsFirst' = RowsFirst
  <2>1. PICK n \in 0..Len(ledger) : n = before
    BY DEF PagingInv
  <2>2. RowsUpTo(PageWallet, n)' = RowsUpTo(PageWallet, n)
    BY CommitKeepsOlder
  <2> QED
    BY <1>1, <2>1, <2>2 DEF RowsFirst, RowsUpTo
<1>5. ASSUME ~Refused
      PROVE  /\ Cut(RowsNow', Shown, Limit * Len(pages))
             /\ Repeats(RowsNow', RowsFirst, Shown, Cardinality(Lines), Limit * Len(pages))
             /\ Complete(RowsNow, Shown) => Complete(RowsNow', Shown)
  <2>1. PageWallet \in Wallets
    BY <1>5 DEF Refused, WalletError
  <2>2. PICK N : /\ RowsNow' = RowsNow \cup N
                 /\ \A x \in RowsNow : \A z \in N : x.seq < z.seq
    BY <2>1, CommitGrows DEF RowsNow
  <2>3. Numbered(RowsIn(ledger, PageWallet)) /\ Numbered(RowsIn(ledger', PageWallet))
    <3>1. ledger \in Seq(EntryRow) /\ ledger' \in Seq(EntryRow)
      BY <1>1 DEF TypeOK
    <3>2. Numbered(RowsIn(ledger, PageWallet))
      BY <2>1, <3>1, RowsAreNumbered DEF HistoryInCommitOrder
    <3>3. Numbered(RowsIn(ledger', PageWallet))
      BY <2>1, <3>1, RowsAreNumbered DEF HistoryInCommitOrder
    <3> QED
      BY <3>2, <3>3
  <2>4. RowsFirst \subseteq RowsNow
    BY <1>1, FirstIsPart DEF PagingInv
  <2>5. /\ Cut(RowsNow, Shown, Limit * Len(pages))
        /\ Repeats(RowsNow, RowsFirst, Shown, Cardinality(Lines), Limit * Len(pages))
    BY <1>5 DEF PagingInv
  <2>6. Limit * Len(pages) \in Nat /\ Cardinality(Lines) \in Nat
    BY SizesAreNats
  <2>7. Numbered(RowsNow) /\ Numbered(RowsNow \cup N)
    <3>1. RowsNow = RowsIn(ledger, PageWallet) /\ RowsNow' = RowsIn(ledger', PageWallet)
      BY DEF RowsNow, RowsUpTo, RowsIn
    <3> QED
      BY <2>2, <2>3, <3>1
  <2> QED
    BY <2>2, <2>4, <2>5, <2>6, <2>7, TrafficKeepsPages
<1> QED
  BY <1>1, <1>2, <1>3, <1>4, <1>5 DEF PagingInv

(* So does a request for the next page.                                    *)
LEMMA RequestKeepsPaging ==
    ASSUME LedgerInv, HistoryInCommitOrder, PagingInv, list_transactions
    PROVE  PagingInv'
<1>1. /\ ledger' = ledger /\ reader' = reader /\ TypeOK /\ Len(ledger) \in Nat
      /\ RowsNow' = RowsNow /\ (Refused' <=> Refused)
      /\ before' = IF pages = <<>> THEN Len(ledger) ELSE before
  BY DEF list_transactions, vars, committed, LedgerInv, TypeOK,
         RowsNow, RowsUpTo, Refused, WalletError
<1>2. before' \in 0..Len(ledger')
  BY <1>1 DEF PagingInv
<1>3. CASE Refused
  <2>1. pages' = pages /\ pages = <<>> /\ status' = 404
    BY <1>3 DEF list_transactions, Refused, PagingInv
  <2>2. Lines' = Lines
    BY <2>1 DEF Lines
  <2> QED
    BY <1>1, <1>2, <1>3, <2>1, <2>2 DEF PagingInv
<1>4. CASE ~Refused
  <2> DEFINE m == Limit * Len(pages)
             p == get_entries_for_wallet(PageWallet, m)
             P == Page(RowsNow, m)
  <2>1. pages' = Append(pages, p) /\ status' = 200
    BY <1>4 DEF list_transactions, Refused
  <2>2. PageWallet \in Wallets
    BY <1>4 DEF Refused, WalletError
  <2>3. Numbered(RowsNow)
    <3>1. Numbered(RowsIn(ledger, PageWallet))
      BY <1>1, <2>2, RowsAreNumbered DEF TypeOK, HistoryInCommitOrder
    <3> QED
      BY <3>1 DEF RowsNow, RowsUpTo, RowsIn
  <2>4. m \in Nat /\ Cardinality(Lines) \in Nat
    BY SizesAreNats
  <2>5. p = Rows(NewestFirst(RowsNow), m + 1, m + Limit)
    BY DEF get_entries_for_wallet, Statement, NewestFirst, RowsNow
  <2> HIDE DEF m, p, P
  <2>6. /\ p \in Seq(RowsNow) /\ ToSet(p) = P
        /\ IsFiniteSet(P) /\ Cardinality(P) = Len(p)
        /\ Len(p) < Limit => \A x \in RowsNow : Offset(RowsNow, x) < m + Limit
        /\ m = 0 => \A x \in RowsNow : \E y \in P : x.seq <= y.seq
    BY <2>3, <2>4, <2>5, PageCut DEF P
  <2>7. RowsNow \subseteq EntryRow
    BY <1>1 DEF TypeOK, RowsNow, RowsUpTo
  <2>8. p \in Seq(EntryRow)
    <3> HIDE DEF EntryRow
    <3> QED
      BY <2>6, <2>7
  <2>9. /\ pages' \in Seq(Seq(EntryRow)) /\ Len(pages') = Len(pages) + 1 /\ pages' # <<>>
        /\ Last(pages') = p /\ Shown' = Shown \cup P
        /\ IsFiniteSet(Lines') /\ Cardinality(Lines') = Cardinality(Lines) + Cardinality(P)
    <3>1. pages \in Seq(Seq(EntryRow)) /\ IsFiniteSet(Lines)
      BY DEF PagingInv
    <3> QED
      BY <2>1, <2>6, <2>8, <3>1, PageAppended
  <2>10. Limit * Len(pages') = m + Limit
    <3>1. Limit \in Nat /\ Len(pages) \in Nat
      BY HistoryAssumption DEF PagingInv
    <3>2. Limit * (Len(pages) + 1) = Limit * Len(pages) + Limit
      BY <3>1
    <3> QED
      BY <2>9, <3>2 DEF m
  <2>11. /\ Cut(RowsNow, Shown, m)
         /\ Repeats(RowsNow, RowsFirst', Shown, Cardinality(Lines), m)
         /\ Covers(RowsFirst', Shown \cup P)
    <3>1. CASE pages = <<>>
      <4>1. Lines = {} /\ Shown = {} /\ m = 0
        BY <3>1, NoPages DEF m
      <4>2. RowsFirst' = RowsNow
        BY <1>1, <3>1 DEF RowsFirst, RowsNow, RowsUpTo
      <4>3. Cardinality({}) = 0
        BY FS_EmptySet
      <4>4. Cut(RowsNow, {}, m) /\ Repeats(RowsNow, RowsNow, {}, 0, m)
        BY <2>3, NothingShown DEF Numbered
      <4> QED
        BY <2>6, <4>1, <4>2, <4>3, <4>4 DEF Covers
    <3>2. CASE pages # <<>>
      <4>1. RowsFirst' = RowsFirst
        BY <1>1, <3>2 DEF RowsFirst, RowsUpTo
      <4> QED
        BY <1>4, <3>2, <4>1 DEF PagingInv, Covers, m
    <3> QED
      BY <3>1, <3>2
  <2>12. /\ Cut(RowsNow, Shown \cup P, m + Limit)
         /\ Repeats(RowsNow, RowsFirst', Shown \cup P,
                    Cardinality(Lines) + Cardinality(P), m + Limit)
    BY <2>3, <2>4, <2>6, <2>11, NextPageKeepsPages DEF P
  <2>13. Ended' => Complete(RowsNow, Shown \cup P)
    <3> SUFFICES ASSUME Ended' PROVE Complete(RowsNow, Shown \cup P)
      OBVIOUS
    <3>1. Len(p) < Limit
      BY <2>1, <2>9 DEF Ended
    <3> QED
      BY <2>6, <2>12, <3>1 DEF Complete, Cut
  <2> QED
    BY <1>1, <1>2, <1>4, <2>1, <2>9, <2>10, <2>11, <2>12, <2>13 DEF PagingInv
<1> QED
  BY <1>3, <1>4

(* Pages that leave nothing out are the statement at one moment.           *)
LEMMA CompleteIsAMoment ==
    ASSUME TypeOK, HistoryInCommitOrder, PageWallet \in Wallets, before \in 0..Len(ledger),
           NEW Sh, Sh \subseteq RowsNow, Complete(RowsNow, Sh), Covers(RowsFirst, Sh)
    PROVE  \E n \in before..Len(ledger) : Sh = RowsUpTo(PageWallet, n)
<1> DEFINE l == Len(ledger)
           T == {i \in 1..l : ledger[i].account = PageWallet /\ ledger[i] \in Sh}
<1>0. l \in Nat /\ before \in Nat /\ before <= l /\ \A i \in 1..l : ledger[i].seq \in Nat
  <2>1. l \in Nat /\ \A i \in 1..l : ledger[i] \in EntryRow
    BY DEF TypeOK
  <2>2. \A i \in 1..l : ledger[i].seq \in Nat
    BY <2>1 DEF EntryRow
  <2> QED
    BY <2>1, <2>2
<1>1. \A x \in Sh : \E i \in T : x = ledger[i]
  BY DEF RowsNow, RowsUpTo
<1>2. \A i \in 1..l : ledger[i].account = PageWallet => ledger[i] \in RowsNow
  BY DEF RowsNow, RowsUpTo
<1>3. RowsFirst \subseteq Sh
  <2>1. RowsFirst \subseteq RowsNow
    BY FirstIsPart
  <2> QED
    BY <2>1 DEF Complete, Covers
<1>4. CASE \A i \in T : i <= before
  <2>1. Sh \subseteq RowsFirst
    <3>1. \A i \in T : i \in 1..before
      BY <1>0, <1>4
    <3> QED
      BY <1>1, <3>1 DEF RowsFirst, RowsUpTo
  <2>2. before \in before..l
    BY <1>0
  <2>3. Sh = RowsUpTo(PageWallet, before)
    BY <1>3, <2>1 DEF RowsFirst
  <2> QED
    BY <2>2, <2>3
<1>5. CASE \E i \in T : ~(i <= before)
  <2>1. PICK n \in T : \A i \in T : i <= n
    <3>1. T \subseteq Nat /\ T # {} /\ l + 1 \in Nat /\ \A i \in T : i < l + 1
      BY <1>0, <1>5
    <3> HIDE DEF T
    <3> QED
      BY <3>1, LargestElement
  <2>2. n \in before..l /\ n \in 1..l
    BY <1>0, <1>5, <2>1
  <2>3. Sh \subseteq RowsUpTo(PageWallet, n)
    <3>1. \A i \in T : i \in 1..n
      BY <1>0, <2>1
    <3> QED
      BY <1>1, <3>1 DEF RowsUpTo
  <2>4. ASSUME NEW x \in RowsUpTo(PageWallet, n) PROVE x \in Sh
    <3>1. PICK i \in 1..n : x = ledger[i] /\ ledger[i].account = PageWallet
      BY DEF RowsUpTo
    <3>2. i \in 1..l /\ (i < n \/ i = n)
      BY <1>0, <2>2
    <3>3. x.seq <= ledger[n].seq
      BY <1>0, <2>1, <2>2, <3>1, <3>2 DEF HistoryInCommitOrder
    <3> QED
      BY <1>2, <2>1, <3>1, <3>2, <3>3 DEF Complete
  <2>5. Sh = RowsUpTo(PageWallet, n)
    BY <2>3, <2>4
  <2> QED
    BY <2>2, <2>5
<1> QED
  BY <1>4, <1>5

(* What the invariant says of the pages received.                          *)
LEMMA PagingImplies ==
    ASSUME LedgerInv, HistoryInCommitOrder, PagingInv
    PROVE  PagesAreAStatement
<1>1. TypeOK /\ before \in 0..Len(ledger)
  BY DEF LedgerInv, PagingInv
<1>2. IsFiniteSet(RowsNow)
  <2>1. IsFiniteSet(RowsIn(ledger, PageWallet))
    BY <1>1, RowsFinite DEF TypeOK
  <2> QED
    BY <2>1 DEF RowsNow, RowsUpTo, RowsIn
<1>3. IsFiniteSet(RowsNow \ RowsFirst) /\ Cardinality(RowsNow \ RowsFirst) \in Nat
  BY <1>2, FS_Difference, FS_CardinalityType
<1>4. CASE Refused
  <2>1. pages = <<>> /\ Lines = {} /\ Shown = {}
    BY <1>4, NoPages DEF PagingInv
  <2>2. Ended => status = 404
    BY <2>1 DEF Ended
  <2>3. Cardinality({}) = 0
    BY FS_EmptySet
  <2>4. 0 - 0 <= Cardinality(RowsNow \ RowsFirst)
    BY <1>3
  <2> QED
    BY <2>1, <2>2, <2>3, <2>4 DEF PagesAreAStatement, RowsNow, RowsFirst
<1>5. CASE ~Refused
  <2>1. PageWallet \in Wallets /\ status # 404
    BY <1>5 DEF Refused, WalletError, PagingInv
  <2>2. Shown \subseteq RowsNow
    BY <1>5 DEF PagingInv, Cut
  <2>3. Ended => \E n \in before..Len(ledger) : Shown = RowsUpTo(PageWallet, n)
    <3> SUFFICES ASSUME Ended PROVE \E n \in before..Len(ledger) : Shown = RowsUpTo(PageWallet, n)
      OBVIOUS
    <3>1. Complete(RowsNow, Shown) /\ Covers(RowsFirst, Shown)
      BY <1>5, <2>1 DEF PagingInv, Ended
    <3> QED
      BY <1>1, <2>1, <2>2, <3>1, CompleteIsAMoment
  <2>4. Cardinality(Lines) - Cardinality(Shown) <= Cardinality(RowsNow \ RowsFirst)
    <3> DEFINE P == Pushed(RowsNow, Shown, Limit * Len(pages))
    <3>1. (Cardinality(Lines) - Cardinality(Shown)) + Cardinality(P)
            <= Cardinality(RowsNow \ RowsFirst)
      BY <1>5 DEF PagingInv, Repeats
    <3>2. P \in SUBSET RowsNow /\ Shown \in SUBSET RowsNow
      BY <2>2 DEF Pushed
    <3>3. IsFiniteSet(P) /\ IsFiniteSet(Shown)
      BY <1>2, <3>2, FS_Subset
    <3> HIDE DEF P
    <3>4. Cardinality(P) \in Nat /\ Cardinality(Shown) \in Nat /\ Cardinality(Lines) \in Nat
      BY <3>3, FS_CardinalityType, SizesAreNats
    <3> QED
      BY <1>3, <3>1, <3>4
  <2> QED
    BY <2>1, <2>3, <2>4 DEF PagesAreAStatement, RowsNow, RowsFirst
<1> QED
  BY <1>4, <1>5

(* Whatever commits while a client pages, and whatever the page size, the  *)
(* pages of GET /wallets/{id}/transactions together are the statement as   *)
(* it stood at one moment; a row is shown twice only because a newer one   *)
(* pushed it there.                                                        *)
THEOREM PagesFormAStatement == HistorySpec => []PagesAreAStatement
<1>1. HistorySpec => Spec
  <2>1. [HistoryNext]_<<vars, pageVars>> => [Next]_vars
    BY DEF HistoryNext, list_transactions
  <2> QED
    BY <2>1, PTL DEF HistorySpec, Spec
<1>2. Init /\ HistoryInit => PagingInv
  BY PagingInit
<1>3. /\ (LedgerInv /\ KeysInv) /\ RowsInv /\ PagingInv /\ [HistoryNext]_<<vars, pageVars>>
      /\ (LedgerInv /\ KeysInv)' /\ RowsInv'
      => PagingInv'
  <2> SUFFICES ASSUME LedgerInv, KeysInv, RowsInv, PagingInv, [HistoryNext]_<<vars, pageVars>>,
                      LedgerInv', RowsInv'
               PROVE  PagingInv'
    OBVIOUS
  <2>1. HistoryInCommitOrder /\ HistoryInCommitOrder'
    BY DEF RowsInv
  <2>2. CASE list_transactions
    BY <2>1, <2>2, RequestKeepsPaging
  <2>3. CASE UNCHANGED <<ledger, pageVars>>
    BY <2>3 DEF PagingInv, pageVars, Refused, WalletError, Lines, Shown, Ended,
                RowsNow, RowsFirst, RowsUpTo
  <2>4. ASSUME NEW c \in Calls, Step(c) \/ Fault(c), UNCHANGED pageVars
        PROVE  PagingInv'
    <3>1. CASE Commit(c)
      BY <2>1, <2>4, <3>1, TrafficKeepsPaging
    <3>2. CASE ~Commit(c)
      <4>1. ledger' = ledger
        BY <2>4, <3>2, OthersUncommitting DEF Uncommitting
      <4> QED
        BY <2>3, <2>4, <4>1
    <3> QED
      BY <3>1, <3>2
  <2>5. CASE UNCHANGED <<vars, pageVars>>
    BY <2>3, <2>5 DEF vars, committed
  <2> QED
    BY <2>2, <2>4, <2>5 DEF HistoryNext, Next
<1>4. (LedgerInv /\ KeysInv) /\ RowsInv /\ PagingInv => PagesAreAStatement
  BY PagingImplies DEF RowsInv
<1> QED
  BY <1>1, <1>2, <1>3, <1>4, KeysInvariant, RowsInvariant, PTL DEF HistorySpec
=============================================================================
