-------------------------- MODULE LedgerKeysProofs --------------------------
(***************************************************************************)
(* Idempotency keys, answers and the atomic bank, for any number of        *)
(* concurrent handlers.  The argument: a key is claimed by the INSERT of   *)
(* the transaction row, which waits for every uncommitted rival and fails  *)
(* on every committed one, so between that INSERT and the COMMIT nobody    *)
(* else can spend it; and where a handler stands says whether its          *)
(* transaction is there and what its client has been told.                 *)
(***************************************************************************)
EXTENDS LedgerServiceProofs

(* Where a handler stands says whether its transaction is committed, that  *)
(* its client has not been answered yet, and whether its key is looked up. *)
PlaceTellsOutcome ==
    \A c \in Calls :
       /\ c \in txns => pc[c] \in {"refresh", "done", "crashed"}
       /\ pc[c] = "refresh" => c \in txns
       /\ pc[c] # "done" => answer[c] = NoAnswer
       /\ pc[c] \in {"check", "replay"} => LooksUp(c)

(* Only what the bank allows gets as far as the INSERTs.                   *)
OnlyAllowedWrites == \A c \in Calls : InFlight(c) \/ c \in txns => B!Allowed(req[c])

(* Stored balances, and those about to be stored, pass CHECK and BIGINT.   *)
BalancesInRange ==
    \A w \in Wallets :
       /\ balance[w] \in 0..MaxBigInt
       /\ \A c \in Calls : pc[c] = "commit" => copy[c][w] \in 0..MaxBigInt

(* The inductive invariant behind KeysSpentOnce and AnswersTruthful.       *)
KeysInv ==
    /\ PlaceTellsOutcome /\ OnlyAllowedWrites /\ BalancesInRange
    /\ KeysSpentOnce /\ AnswersTruthful

(* What a handler that has its answer may tell its client.                 *)
Truthful(c, a) ==
    /\ a.status = 200 =>
          LET t == a.transaction_id IN
          /\ t \in txns
          /\ \/ t = c /\ B!Allowed(req[c])
             \/ c \notin txns /\ LooksUp(c) /\ Key(t) = Key(c)
    /\ a.status \notin {200, 500} => c \notin txns

(* The initial state satisfies the invariant.                              *)
LEMMA KeysInit == Init => KeysInv
<1> SUFFICES ASSUME Init PROVE KeysInv
  OBVIOUS
<1>1. txns = {} /\ \A c \in Calls : pc[c] = "idle" /\ answer[c] = NoAnswer
  BY DEF Init
<1>2. PlaceTellsOutcome /\ OnlyAllowedWrites /\ AnswersTruthful
  BY <1>1 DEF PlaceTellsOutcome, OnlyAllowedWrites, AnswersTruthful, InFlight
<1>3. KeysSpentOnce
  BY <1>1 DEF KeysSpentOnce, InFlight
<1>4. BalancesInRange
  <2>1. \A w \in Wallets : balance[w] = Opening[w] /\ Opening[w] \in 0..MaxBigInt
    BY WalletsAssumption DEF Init
  <2> QED
    BY <1>1, <2>1 DEF BalancesInRange
<1> QED
  BY <1>2, <1>3, <1>4 DEF KeysInv

(* A handler that ends with a true answer, or with none because it died.   *)
LEMMA CloseKeepsKeys ==
    ASSUME LedgerInv, KeysInv, NEW c \in Calls, NEW a, NEW at \in {"done", "crashed"},
           Close(c, a, at),
           at = "done" => Truthful(c, a),
           at = "crashed" => a = NoAnswer
    PROVE  KeysInv'
<1>1. /\ pc' = [pc EXCEPT ![c] = at] /\ answer' = [answer EXCEPT ![c] = a]
      /\ copy' = [copy EXCEPT ![c] = NoCopy]
      /\ UNCHANGED <<req, balance, ledger, txns, outbox>>
  BY DEF Close, committed
<1>2. /\ pc'[c] = at /\ answer'[c] = a
      /\ \A d \in Calls \ {c} : pc'[d] = pc[d] /\ answer'[d] = answer[d] /\ copy'[d] = copy[d]
  BY <1>1 DEF LedgerInv, TypeOK
<1>3. PlaceTellsOutcome'
  BY <1>1, <1>2 DEF KeysInv, PlaceTellsOutcome, LooksUp, Key
<1>4. OnlyAllowedWrites'
  BY <1>1, <1>2 DEF KeysInv, OnlyAllowedWrites, InFlight
<1>5. BalancesInRange'
  BY <1>1, <1>2 DEF KeysInv, BalancesInRange
<1>6. KeysSpentOnce'
  BY <1>1, <1>2 DEF KeysInv, KeysSpentOnce, InFlight, Keyed, Key
<1>7. AnswersTruthful'
  BY <1>1, <1>2 DEF KeysInv, AnswersTruthful, Truthful, LooksUp, Key
<1> QED
  BY <1>3, <1>4, <1>5, <1>6, <1>7 DEF KeysInv

(* A step of c before its COMMIT that answers nobody.                      *)
LEMMA QuietKeepsKeys ==
    ASSUME LedgerInv, KeysInv, NEW c \in Calls,
           UNCHANGED <<answer, req, balance, txns>>,
           c \notin txns, pc[c] # "done", pc'[c] \notin {"refresh", "done"},
           \A d \in Calls \ {c} : pc'[d] = pc[d] /\ copy'[d] = copy[d],
           InFlight(c)' => /\ B!Allowed(req[c])
                           /\ InFlight(c) \/ (~KeyInFlight(c) /\ SameKey(c) = {}),
           pc'[c] = "commit" => \A w \in Wallets : copy'[c][w] \in 0..MaxBigInt,
           pc'[c] \in {"check", "replay"} => LooksUp(c)
    PROVE  KeysInv'
<1>1. PlaceTellsOutcome'
  BY DEF KeysInv, PlaceTellsOutcome, LooksUp, Key
<1>2. OnlyAllowedWrites'
  BY DEF KeysInv, OnlyAllowedWrites, InFlight
<1>3. BalancesInRange'
  BY DEF KeysInv, BalancesInRange
<1>4. KeysSpentOnce'
  <2> SUFFICES ASSUME NEW x \in Calls, NEW y \in Calls, x # y,
                      x \in txns \/ InFlight(x)', y \in txns \/ InFlight(y)',
                      Keyed(x), Key(x) = Key(y)
               PROVE  FALSE
    BY DEF KeysSpentOnce, Keyed, Key
  <2>1. \A d \in Calls \ {c} : InFlight(d)' <=> InFlight(d)
    BY DEF InFlight
  <2>2. Keyed(y)
    BY DEF Keyed
  <2>3. CASE x # c /\ y # c
    BY <2>1, <2>3 DEF KeysInv, KeysSpentOnce
  <2>4. CASE InFlight(c)
    BY <2>1, <2>4 DEF KeysInv, KeysSpentOnce
  <2>5. CASE x = c /\ ~InFlight(c)
    BY <2>1, <2>2, <2>5 DEF KeyInFlight, SameKey
  <2>6. CASE y = c /\ ~InFlight(c)
    BY <2>1, <2>2, <2>6 DEF KeyInFlight, SameKey
  <2> QED
    BY <2>3, <2>4, <2>5, <2>6
<1>5. AnswersTruthful'
  BY DEF KeysInv, AnswersTruthful, LooksUp, Key
<1> QED
  BY <1>1, <1>2, <1>3, <1>4, <1>5 DEF KeysInv

(* The checks on the locked rows are the bank's conditions.                *)
LEMMA ChecksAllow ==
    ASSUME LedgerInv, NEW c \in Calls, Error(c) = "none", ~SelfTransfer(req[c])
    PROVE  B!Allowed(req[c])
<1>1. req[c] \in RequestType
  BY RequestShape DEF LedgerInv
<1>2. CASE req[c].op = "deposit"
  BY <1>2 DEF Error, DepositError, WalletError, CurrencyError, B!Allowed
<1>3. CASE req[c].op = "transfer"
  BY <1>3 DEF Error, TransferError, WalletError, CurrencyError, B!Allowed, SelfTransfer
<1>4. CASE req[c].op = "withdraw"
  BY <1>4 DEF Error, WithdrawError, WalletError, CurrencyError, B!Allowed
<1> QED
  BY <1>1, <1>2, <1>3, <1>4 DEF RequestType, Operation

(* No refusal looks like a success.                                        *)
LEMMA FailuresAreNot200 ==
    \A e \in {"WalletNotFound", "WalletAccessDenied", "RecipientNotFound", "CurrencyMismatch",
              "SameWalletTransfer", "InsufficientFunds", "Unhandled"} :
       /\ Failed(e).status # 200 /\ Failed(e).transaction_id = NoCall
       /\ e = "Unhandled" => Failed(e).status = 500
  BY DEF Failed, NoAnswer, HttpStatus

(* Every step of a handler before its COMMIT, and the others one by one.   *)
LEMMA StepKeepsKeys ==
    ASSUME LedgerInv, KeysInv, NEW c \in Calls, Step(c) \/ Fault(c)
    PROVE  KeysInv'
<1>0. TypeOK /\ pc \in [Calls -> PC] /\ PlaceTellsOutcome
  BY DEF LedgerInv, TypeOK, KeysInv
<1>1. CASE Arrive(c)
  <2>1. /\ c \notin txns /\ pc'[c] \in {"check", "lock"}
        /\ pc'[c] = "check" => LooksUp(c)
        /\ \A d \in Calls \ {c} : pc'[d] = pc[d]
    BY <1>0, <1>1 DEF Arrive, PlaceTellsOutcome
  <2> QED
    BY <1>1, <2>1, QuietKeepsKeys DEF Arrive, committed, InFlight
<1>2. CASE CheckKey(c)
  <2>1. /\ c \notin txns /\ pc'[c] \in {"replay", "lock"} /\ LooksUp(c)
        /\ \A d \in Calls \ {c} : pc'[d] = pc[d]
    BY <1>0, <1>2 DEF CheckKey, PlaceTellsOutcome
  <2> QED
    BY <1>2, <2>1, QuietKeepsKeys DEF CheckKey, committed, InFlight
<1>3. CASE LockRow(c)
  <2>1. c \notin txns /\ pc' = pc /\ pc[c] = "lock" /\ \A d \in Calls \ {c} : copy'[d] = copy[d]
    BY <1>0, <1>3 DEF LockRow, PlaceTellsOutcome, TypeOK
  <2> QED
    BY <1>3, <2>1, QuietKeepsKeys DEF LockRow, committed, InFlight
<1>4. CASE SkipMissingRow(c)
  <2>1. c \notin txns /\ pc' = pc /\ pc[c] = "lock" /\ copy' = copy
    BY <1>0, <1>4 DEF SkipMissingRow, PlaceTellsOutcome
  <2> QED
    BY <1>4, <2>1, QuietKeepsKeys DEF SkipMissingRow, committed, InFlight
<1>5. CASE OpenTransaction(c)
  <2>1. /\ c \notin txns /\ pc[c] = "lock" /\ pc'[c] = "write" /\ copy' = copy
        /\ \A d \in Calls \ {c} : pc'[d] = pc[d]
    BY <1>0, <1>5 DEF OpenTransaction, PlaceTellsOutcome
  <2>2. B!Allowed(req[c])
    BY <1>5, <2>1, ChecksAllow DEF OpenTransaction, LedgerInv, SessionsConsistent
  <2> QED
    BY <1>5, <2>1, <2>2, QuietKeepsKeys DEF OpenTransaction, committed
<1>6. CASE WriteRows(c)
  <2>1. /\ c \notin txns /\ pc[c] = "write" /\ InFlight(c) /\ pc'[c] = "commit"
        /\ copy'[c] = NewBalances(c) /\ ~OutOfRange(c)
        /\ \A d \in Calls \ {c} : pc'[d] = pc[d] /\ copy'[d] = copy[d]
    BY <1>0, <1>6 DEF WriteRows, PlaceTellsOutcome, TypeOK, InFlight
  <2>2. B!Allowed(req[c])
    BY <2>1 DEF KeysInv, OnlyAllowedWrites
  <2>3. \A w \in Wallets : copy'[c][w] \in 0..MaxBigInt
    BY <2>1 DEF OutOfRange
  <2> QED
    BY <1>6, <2>1, <2>2, <2>3, QuietKeepsKeys DEF WriteRows, committed
<1>7. CASE RejectSelfTransfer(c)
  <2>1. Truthful(c, Failed("SameWalletTransfer"))
    BY <1>0, <1>7, FailuresAreNot200 DEF RejectSelfTransfer, Truthful, PlaceTellsOutcome
  <2> QED
    BY <1>7, <2>1, CloseKeepsKeys DEF RejectSelfTransfer
<1>8. CASE Replay(c)
  <2>1. pc[c] = "replay" /\ c \notin txns /\ LooksUp(c)
    BY <1>0, <1>8 DEF Replay, PlaceTellsOutcome
  <2>2. PICK t \in SameKey(c) :
          Close(c, IF req[c].wallet \in Wallets THEN Ok(t, balance[req[c].wallet])
                                                ELSE Failed("Unhandled"), "done")
    BY <1>8 DEF Replay
  <2>3. t \in txns /\ Key(t) = Key(c)
    BY DEF SameKey
  <2>4. Truthful(c, Ok(t, balance[req[c].wallet])) /\ Truthful(c, Failed("Unhandled"))
    BY <2>1, <2>3, FailuresAreNot200 DEF Truthful, Ok
  <2> QED
    BY <2>2, <2>4, CloseKeepsKeys
<1>9. CASE Reject(c)
  <2>1. Truthful(c, Failed(Error(c)))
    BY <1>0, <1>9, ErrorNames, FailuresAreNot200 DEF Reject, Truthful, PlaceTellsOutcome
  <2> QED
    BY <1>9, <2>1, CloseKeepsKeys DEF Reject
<1>10. CASE KeyConflict(c)
  <2>1. Truthful(c, Failed("Unhandled"))
    BY <1>0, <1>10, FailuresAreNot200 DEF KeyConflict, Truthful, PlaceTellsOutcome
  <2> QED
    BY <1>10, <2>1, CloseKeepsKeys DEF KeyConflict
<1>11. CASE WriteOutOfRange(c)
  <2>1. Truthful(c, Failed("Unhandled"))
    BY <1>0, <1>11, FailuresAreNot200 DEF WriteOutOfRange, Truthful, PlaceTellsOutcome
  <2> QED
    BY <1>11, <2>1, CloseKeepsKeys DEF WriteOutOfRange
<1>12. CASE Commit(c)
  <2>1. /\ pc[c] = "commit" /\ InFlight(c) /\ c \notin txns /\ answer[c] = NoAnswer
        /\ pc'[c] = "refresh" /\ txns' = txns \cup {c} /\ UNCHANGED <<answer, req, copy>>
        /\ \A d \in Calls \ {c} : pc'[d] = pc[d]
    BY <1>0, <1>12 DEF Commit, PlaceTellsOutcome, InFlight
  <2>2. PlaceTellsOutcome' /\ OnlyAllowedWrites'
    BY <2>1 DEF KeysInv, PlaceTellsOutcome, OnlyAllowedWrites, InFlight, LooksUp, Key
  <2>3. BalancesInRange'
    BY <1>12, <2>1 DEF KeysInv, BalancesInRange, Commit
  <2>4. KeysSpentOnce'
    BY <2>1 DEF KeysInv, KeysSpentOnce, InFlight, Keyed, Key
  <2>5. AnswersTruthful'
    BY <2>1 DEF KeysInv, AnswersTruthful, LooksUp, Key
  <2> QED
    BY <2>2, <2>3, <2>4, <2>5 DEF KeysInv
<1>13. CASE Refresh(c)
  <2>1. Truthful(c, Ok(c, balance[req[c].wallet]))
    BY <1>0, <1>13 DEF Refresh, Truthful, Ok, PlaceTellsOutcome, KeysInv, OnlyAllowedWrites
  <2> QED
    BY <1>13, <2>1, CloseKeepsKeys DEF Refresh
<1>14. CASE Crash(c)
  BY <1>14, CloseKeepsKeys DEF Crash
<1>15. CASE LoseConnection(c)
  <2>1. Truthful(c, Failed("Unhandled"))
    BY FailuresAreNot200 DEF Truthful
  <2> QED
    BY <1>15, <2>1, CloseKeepsKeys DEF LoseConnection
<1> QED
  BY <1>1, <1>2, <1>3, <1>4, <1>5, <1>6, <1>7, <1>8, <1>9, <1>10, <1>11, <1>12, <1>13,
     <1>14, <1>15 DEF Step, Fault

(* Keys, answers and ranges stay right in every reachable state.           *)
THEOREM KeysInvariant == Spec => [](LedgerInv /\ KeysInv)
<1>1. Init => LedgerInv /\ KeysInv
  BY InitEstablishes, KeysInit
<1>2. ASSUME LedgerInv, KeysInv, [Next]_vars PROVE (LedgerInv /\ KeysInv)'
  <2>1. LedgerInv'
    BY <1>2, NextKeeps
  <2>2. CASE UNCHANGED vars
    BY <1>2, <2>1, <2>2 DEF vars, session, committed, KeysInv, PlaceTellsOutcome,
       OnlyAllowedWrites, BalancesInRange, KeysSpentOnce, AnswersTruthful, InFlight, Keyed, Key, LooksUp
  <2>3. CASE Next
    BY <1>2, <2>1, <2>3, StepKeepsKeys DEF Next
  <2> QED
    BY <1>2, <2>2, <2>3
<1>3. LedgerInv /\ KeysInv /\ [Next]_vars => (LedgerInv /\ KeysInv)'
  BY <1>2
<1> QED
  BY <1>1, <1>3, PTL DEF Spec

(* However many requests race with the same Idempotency-Key, at most one   *)
(* of them has a transaction, committed or about to be.                    *)
THEOREM KeysAreSpentOnce == Spec => []KeysSpentOnce
<1>1. KeysInv => KeysSpentOnce
  BY DEF KeysInv
<1> QED
  BY <1>1, KeysInvariant, PTL

(* A 200 names a committed transaction, the call's own, which the owner    *)
(* asked for, or the one that used its non-empty key first; and a call     *)
(* that was refused (404, 409, 422) moved no money.                        *)
THEOREM AnswersAreTruthful == Spec => []AnswersTruthful
<1>1. KeysInv => AnswersTruthful
  BY DEF KeysInv
<1> QED
  BY <1>1, KeysInvariant, PTL

(* The transaction each client has been told of, as the bank sees it.      *)
Told == [c \in Calls |-> answer[c].transaction_id]

(* A handler that closes without a success tells nobody anything.          *)
LEMMA SilentClose ==
    ASSUME LedgerInv, KeysInv, NEW c \in Calls, NEW a, NEW at, Close(c, a, at),
           pc[c] # "done", a.transaction_id = NoCall
    PROVE  UNCHANGED B!bankVars
<1>1. answer' = [answer EXCEPT ![c] = a] /\ UNCHANGED <<req, balance, txns>>
  BY DEF Close, committed
<1>2. answer[c].transaction_id = NoCall
  BY DEF KeysInv, PlaceTellsOutcome, NoAnswer
<1>3. Told' = Told
  BY <1>1, <1>2 DEF Told, LedgerInv, TypeOK
<1> QED
  BY <1>1, <1>3 DEF B!bankVars, Told

(* A handler that closes with a success tells its client of a transaction  *)
(* the bank has posted.                                                    *)
LEMMA TellingClose ==
    ASSUME LedgerInv, KeysInv, NEW c \in Calls, NEW t \in txns, NEW b, NEW at,
           Close(c, Ok(t, b), at), pc[c] # "done",
           t = c \/ (c \notin txns /\ t \in SameKey(c))
    PROVE  B!Tell(c)
<1>1. answer' = [answer EXCEPT ![c] = Ok(t, b)] /\ UNCHANGED <<req, balance, txns>>
  BY DEF Close, committed
<1>2. answer[c].transaction_id = NoCall /\ Ok(t, b).transaction_id = t
  BY DEF KeysInv, PlaceTellsOutcome, NoAnswer, Ok
<1>3. Told' = [Told EXCEPT ![c] = t] /\ Told[c] = NoCall
  BY <1>1, <1>2 DEF Told, LedgerInv, TypeOK
<1>4. t = c \/ (c \notin txns /\ B!SharesKey(c, t))
  BY DEF SameKey, Keyed, Key, B!SharesKey, B!KeyOf
<1> QED
  BY <1>1, <1>3, <1>4 DEF B!Tell, Told

(* A COMMIT is the posting of the whole request in one step.               *)
LEMMA CommitPosts ==
    ASSUME LedgerInv, KeysInv, NEW c \in Calls, Commit(c), KeysInv'
    PROVE  B!Post(c)
<1>1. pc[c] = "commit" /\ InFlight(c) /\ UNCHANGED <<req, answer>> /\ txns' = txns \cup {c}
  BY DEF Commit, InFlight
<1>2. c \notin txns /\ B!Allowed(req[c])
  BY <1>1 DEF KeysInv, PlaceTellsOutcome, OnlyAllowedWrites
<1>3. \A t \in txns : ~B!SharesKey(c, t)
  <2> TAKE t \in txns
  <2>1. t \in Calls /\ t # c
    BY <1>2 DEF LedgerInv, TypeOK
  <2>2. ~(Keyed(c) /\ Key(c) = Key(t))
    BY <1>1, <2>1 DEF KeysInv, KeysSpentOnce
  <2> QED
    BY <2>2 DEF Keyed, Key, B!SharesKey, B!KeyOf
<1>4. balance' = [w \in Wallets |-> balance[w] + B!Delta(req[c], w)]
  <2>1. \A w \in Wallets : balance'[w] = balance[w] + B!Delta(req[c], w)
    BY CommitMoves
  <2>2. balance' = [w \in Wallets |-> balance'[w]]
    BY DEF Commit
  <2> QED
    BY <2>1, <2>2
<1>5. \A w \in Wallets : balance'[w] \in 0..MaxBigInt
  BY DEF KeysInv, BalancesInRange
<1> QED
  BY <1>1, <1>2, <1>3, <1>4, <1>5 DEF B!Post

(* Every step of a handler is a step of the bank or none.                  *)
LEMMA StepSimulates ==
    ASSUME LedgerInv, KeysInv, KeysInv', NEW c \in Calls, Step(c) \/ Fault(c)
    PROVE  B!Post(c) \/ B!Tell(c) \/ UNCHANGED B!bankVars
<1>0. TypeOK /\ PlaceTellsOutcome
  BY DEF LedgerInv, KeysInv
<1>1. CASE Arrive(c) \/ CheckKey(c) \/ LockRow(c) \/ SkipMissingRow(c) \/ OpenTransaction(c)
           \/ WriteRows(c)
  <2>1. UNCHANGED <<req, balance, txns, answer>>
    BY <1>1 DEF Arrive, CheckKey, LockRow, SkipMissingRow, OpenTransaction, WriteRows, committed
  <2> QED
    BY <2>1 DEF B!bankVars
<1>2. CASE RejectSelfTransfer(c) \/ Reject(c) \/ KeyConflict(c) \/ WriteOutOfRange(c)
           \/ LoseConnection(c)
  <2>1. PICK e \in {"WalletNotFound", "WalletAccessDenied", "RecipientNotFound",
                    "CurrencyMismatch", "SameWalletTransfer", "InsufficientFunds", "Unhandled"} :
          pc[c] # "done" /\ Close(c, Failed(e), "done")
    BY <1>0, <1>2, ErrorNames DEF RejectSelfTransfer, Reject, KeyConflict, WriteOutOfRange,
                                     LoseConnection
  <2> QED
    BY <2>1, FailuresAreNot200, SilentClose
<1>3. CASE Replay(c)
  <2>1. pc[c] = "replay" /\ c \notin txns
    BY <1>0, <1>3 DEF Replay, PlaceTellsOutcome
  <2>2. PICK t \in SameKey(c) :
          Close(c, IF req[c].wallet \in Wallets THEN Ok(t, balance[req[c].wallet])
                                                ELSE Failed("Unhandled"), "done")
    BY <1>3 DEF Replay
  <2>3. t \in txns
    BY DEF SameKey
  <2>4. CASE req[c].wallet \in Wallets
    BY <2>1, <2>2, <2>3, <2>4, TellingClose
  <2>5. CASE req[c].wallet \notin Wallets
    BY <2>1, <2>2, <2>5, FailuresAreNot200, SilentClose
  <2> QED
    BY <2>4, <2>5
<1>4. CASE Commit(c)
  BY <1>4, CommitPosts
<1>5. CASE Refresh(c)
  <2>1. c \in txns /\ pc[c] # "done" /\ Close(c, Ok(c, balance[req[c].wallet]), "done")
    BY <1>0, <1>5 DEF Refresh, PlaceTellsOutcome
  <2> QED
    BY <2>1, TellingClose
<1>6. CASE Crash(c)
  <2>1. pc[c] # "done" /\ Close(c, NoAnswer, "crashed") /\ NoAnswer.transaction_id = NoCall
    BY <1>6 DEF Crash, NoAnswer
  <2> QED
    BY <2>1, SilentClose
<1> QED
  BY <1>1, <1>2, <1>3, <1>4, <1>5, <1>6 DEF Step, Fault

(* The concurrent handlers, with their sessions, row locks, unique index   *)
(* and crashes, together behave like the atomic bank.                      *)
THEOREM RefinesBank == Spec => ImplementsBank
<1>1. Init => B!BankInit
  <2> SUFFICES ASSUME Init PROVE B!BankInit
    OBVIOUS
  <2>1. [c \in Calls |-> answer[c].transaction_id] = [c \in Calls |-> NoCall]
    BY DEF Init, NoAnswer
  <2> QED
    BY <2>1 DEF Init, B!BankInit
<1>2. (LedgerInv /\ KeysInv) /\ (LedgerInv /\ KeysInv)' /\ [Next]_vars => [B!BankNext]_B!bankVars
  <2> SUFFICES ASSUME LedgerInv, KeysInv, KeysInv', [Next]_vars
               PROVE  [B!BankNext]_B!bankVars
    OBVIOUS
  <2>1. CASE UNCHANGED vars
    BY <2>1 DEF vars, session, committed, B!bankVars
  <2>2. CASE Next
    BY <2>2, StepSimulates DEF Next, B!BankNext
  <2> QED
    BY <2>1, <2>2
<1> QED
  BY <1>1, <1>2, KeysInvariant, PTL DEF Spec, ImplementsBank, B!BankSpec
-----------------------------------------------------------------------------
(* A lock is held by a handler that was granted it and has not ended.      *)
LocksAreGranted ==
    \A c \in Calls, w \in Wallets :
       lockedBy[w] = c => (pc[c] = "lock" \/ InFlight(c)) /\ w \in Granted(c)

(* Rows are asked for in ascending order.                                  *)
LockOrder ==
    \A c \in Calls : pc[c] \in {"check", "lock"} =>
       /\ todo[c] \subseteq RowsToLock(req[c])
       /\ \A w \in RowsToLock(req[c]) \ todo[c], v \in todo[c] : w < v

(* Some id is above every locked row: only finitely many handlers have     *)
(* started.                                                                *)
LocksBounded == \E n \in Nat : \A w \in Wallets : lockedBy[w] # NoCall => w < n

(* The inductive invariant behind NoDeadlock.                              *)
LocksInv == LocksAreGranted /\ LockOrder /\ LocksBounded

(* The row a handler asks for next is the smallest it still needs.         *)
LEMMA NextRowIsLeast ==
    ASSUME LedgerInv, NEW c \in Calls, todo[c] # {}
    PROVE  NextRow(c) \in todo[c] /\ NextRow(c) \in Nat /\ \A v \in todo[c] : NextRow(c) <= v
<1>1. todo[c] \subseteq Nat
  BY WalletsAssumption DEF LedgerInv, TypeOK
<1>2. \E w \in todo[c] : \A v \in todo[c] : w <= v
  BY <1>1, LeastElement
<1>3. NextRow(c) \in todo[c] /\ \A v \in todo[c] : NextRow(c) <= v
  BY <1>2 DEF NextRow
<1> QED
  BY <1>1, <1>3

(* A step of c that locks nothing new and keeps what it holds, or lets it  *)
(* all go.                                                                 *)
LEMMA UnlockingKeeps ==
    ASSUME LedgerInv, LocksInv, NEW c \in Calls, UNCHANGED req,
           \A d \in Calls \ {c} : pc'[d] = pc[d] /\ todo'[d] = todo[d],
           \/ lockedBy' = Released(c)
           \/ /\ lockedBy' = lockedBy
              /\ pc'[c] = "lock" \/ InFlight(c)' \/ \A w \in Wallets : lockedBy[w] # c
              /\ Granted(c) \subseteq Granted(c)',
           pc'[c] \in {"check", "lock"} =>
              /\ todo'[c] \subseteq RowsToLock(req[c])
              /\ \A w \in RowsToLock(req[c]) \ todo'[c], v \in todo'[c] : w < v
    PROVE  LocksInv'
<1>1. \A w \in Wallets : /\ lockedBy'[w] # NoCall => lockedBy'[w] = lockedBy[w]
                         /\ lockedBy'[w] = lockedBy[w] \/ lockedBy'[w] = NoCall
  BY DEF Released
<1>2. LockOrder'
  BY DEF LocksInv, LockOrder
<1>3. LocksBounded'
  BY <1>1 DEF LocksInv, LocksBounded
<1>4. LocksAreGranted'
  <2> SUFFICES ASSUME NEW d \in Calls, NEW w \in Wallets, lockedBy'[w] = d
               PROVE  (pc'[d] = "lock" \/ InFlight(d)') /\ w \in Granted(d)'
    BY DEF LocksAreGranted
  <2>1. lockedBy[w] = d
    BY <1>1, RequestsAssumption
  <2>2. (pc[d] = "lock" \/ InFlight(d)) /\ w \in Granted(d)
    BY <2>1 DEF LocksInv, LocksAreGranted
  <2>3. CASE d # c
    BY <2>2, <2>3 DEF InFlight, Granted
  <2>4. CASE d = c
    <3>1. lockedBy' # Released(c)
      BY <2>4, RequestsAssumption DEF Released
    <3> QED
      BY <2>1, <2>2, <2>4, <3>1
  <2> QED
    BY <2>3, <2>4
<1> QED
  BY <1>2, <1>3, <1>4 DEF LocksInv

(* The next lock is above those its handler holds.                         *)
LEMMA LockingKeeps ==
    ASSUME LedgerInv, LocksInv, NEW c \in Calls, LockRow(c)
    PROVE  LocksInv'
<1> DEFINE r == NextRow(c)
<1>1. /\ pc[c] = "lock" /\ todo[c] # {} /\ r \in Wallets /\ lockedBy[r] = NoCall
      /\ lockedBy' = [lockedBy EXCEPT ![r] = c] /\ todo' = [todo EXCEPT ![c] = @ \ {r}]
      /\ UNCHANGED <<pc, req>>
  BY DEF LockRow
<1>2. r \in todo[c] /\ r \in Nat /\ \A v \in todo[c] : r <= v
  BY <1>1, NextRowIsLeast
<1> HIDE DEF r
<1>3. /\ todo'[c] = todo[c] \ {r} /\ \A d \in Calls \ {c} : todo'[d] = todo[d]
      /\ todo[c] \subseteq Nat /\ lockedBy'[r] = c
      /\ \A w \in Wallets \ {r} : lockedBy'[w] = lockedBy[w]
  BY <1>1, WalletsAssumption DEF LedgerInv, TypeOK
<1>4. todo[c] \subseteq RowsToLock(req[c]) /\ \A w \in RowsToLock(req[c]) \ todo[c], v \in todo[c] : w < v
  BY <1>1 DEF LocksInv, LockOrder
<1>5. LockOrder'
  <2>1. \A w \in RowsToLock(req[c]) \ todo'[c], v \in todo'[c] : w < v
    BY <1>2, <1>3, <1>4
  <2> QED
    BY <1>1, <1>3, <1>4, <2>1 DEF LocksInv, LockOrder
<1>6. LocksBounded'
  <2>1. PICK n \in Nat : \A w \in Wallets : lockedBy[w] # NoCall => w < n
    BY DEF LocksInv, LocksBounded
  <2> DEFINE m == IF r < n THEN n ELSE r + 1
  <2>2. m \in Nat /\ n <= m /\ r < m
    BY <1>2
  <2>3. \A w \in Wallets : w \in Nat
    BY WalletsAssumption
  <2> HIDE DEF m
  <2>4. \A w \in Wallets : lockedBy'[w] # NoCall => w < m
    BY <1>3, <2>1, <2>2, <2>3
  <2> QED
    BY <2>2, <2>4 DEF LocksBounded
<1>7. LocksAreGranted'
  <2> SUFFICES ASSUME NEW d \in Calls, NEW w \in Wallets, lockedBy'[w] = d
               PROVE  (pc[d] = "lock" \/ InFlight(d)) /\ w \in Granted(d)'
    BY <1>1 DEF LocksAreGranted, InFlight
  <2>1. CASE w = r
    BY <1>1, <1>2, <1>3, <1>4, <2>1 DEF Granted
  <2>2. CASE w # r
    <3>1. (pc[d] = "lock" \/ InFlight(d)) /\ w \in Granted(d)
      BY <1>3, <2>2 DEF LocksInv, LocksAreGranted
    <3> QED
      BY <1>1, <1>3, <3>1 DEF Granted
  <2> QED
    BY <2>1, <2>2
<1> QED
  BY <1>5, <1>6, <1>7 DEF LocksInv

(* Every step of every handler preserves the order of the locks.           *)
LEMMA StepKeepsLocks ==
    ASSUME LedgerInv, LocksInv, NEW c \in Calls, Step(c) \/ Fault(c)
    PROVE  LocksInv'
<1>0. TypeOK
  BY DEF LedgerInv
<1>1. ASSUME NEW a, NEW at \in {"done", "crashed"}, Close(c, a, at)
      PROVE  LocksInv'
  <2>1. pc'[c] = at /\ \A d \in Calls \ {c} : pc'[d] = pc[d] /\ todo'[d] = todo[d]
    BY <1>0, <1>1 DEF Close, TypeOK
  <2> QED
    BY <1>1, <2>1, UnlockingKeeps DEF Close
<1>2. CASE Arrive(c)
  <2>1. \A w \in Wallets : lockedBy[w] # c
    BY <1>2 DEF Arrive, LocksInv, LocksAreGranted, InFlight
  <2>2. /\ todo'[c] = RowsToLock(req[c])
        /\ \A d \in Calls \ {c} : pc'[d] = pc[d] /\ todo'[d] = todo[d]
    BY <1>0, <1>2 DEF Arrive, TypeOK
  <2>3. lockedBy' = Released(c)
    BY <1>0, <1>2, <2>1 DEF Arrive, Released, TypeOK
  <2> QED
    BY <1>2, <2>2, <2>3, UnlockingKeeps DEF Arrive
<1>3. CASE CheckKey(c)
  <2>1. \A w \in Wallets : lockedBy[w] # c
    BY <1>3 DEF CheckKey, LocksInv, LocksAreGranted, InFlight
  <2>2. todo' = todo /\ \A d \in Calls \ {c} : pc'[d] = pc[d]
    BY <1>0, <1>3 DEF CheckKey, TypeOK
  <2>3. /\ todo[c] \subseteq RowsToLock(req[c])
        /\ \A w \in RowsToLock(req[c]) \ todo[c], v \in todo[c] : w < v
    BY <1>3 DEF CheckKey, LocksInv, LockOrder
  <2> QED
    BY <1>3, <2>1, <2>2, <2>3, UnlockingKeeps DEF CheckKey, Granted
<1>4. CASE LockRow(c)
  BY <1>4, LockingKeeps
<1>5. CASE SkipMissingRow(c)
  <2> DEFINE r == NextRow(c)
  <2>1. /\ pc[c] = "lock" /\ todo[c] # {} /\ r \notin Wallets
        /\ todo' = [todo EXCEPT ![c] = @ \ {r}] /\ UNCHANGED <<pc, req, lockedBy>>
    BY <1>5 DEF SkipMissingRow
  <2>2. r \in todo[c] /\ r \in Nat /\ \A v \in todo[c] : r <= v
    BY <2>1, NextRowIsLeast
  <2> HIDE DEF r
  <2>3. /\ todo'[c] = todo[c] \ {r} /\ \A d \in Calls \ {c} : todo'[d] = todo[d]
        /\ todo[c] \subseteq Nat
    BY <1>0, <2>1, WalletsAssumption DEF TypeOK
  <2>4. /\ todo[c] \subseteq RowsToLock(req[c])
        /\ \A w \in RowsToLock(req[c]) \ todo[c], v \in todo[c] : w < v
    BY <2>1 DEF LocksInv, LockOrder
  <2>5. \A w \in RowsToLock(req[c]) \ todo'[c], v \in todo'[c] : w < v
    BY <2>2, <2>3, <2>4
  <2>6. Granted(c) \subseteq Granted(c)'
    BY <2>1, <2>3 DEF Granted
  <2> QED
    BY <2>1, <2>3, <2>4, <2>5, <2>6, UnlockingKeeps
<1>6. CASE OpenTransaction(c) \/ WriteRows(c)
  <2>1. /\ InFlight(c)' /\ UNCHANGED <<todo, req, lockedBy>>
        /\ pc'[c] \notin {"check", "lock"} /\ \A d \in Calls \ {c} : pc'[d] = pc[d]
    BY <1>0, <1>6 DEF OpenTransaction, WriteRows, TypeOK, InFlight
  <2> QED
    BY <2>1, UnlockingKeeps DEF Granted
<1>7. CASE Commit(c)
  <2>1. /\ pc'[c] = "refresh" /\ UNCHANGED <<todo, req>> /\ lockedBy' = Released(c)
        /\ \A d \in Calls \ {c} : pc'[d] = pc[d]
    BY <1>0, <1>7 DEF Commit, TypeOK
  <2> QED
    BY <2>1, UnlockingKeeps
<1>8. CASE RejectSelfTransfer(c) \/ Replay(c) \/ Reject(c) \/ KeyConflict(c)
           \/ WriteOutOfRange(c) \/ Refresh(c) \/ Fault(c)
  BY <1>1, <1>8 DEF RejectSelfTransfer, Replay, Reject, KeyConflict, WriteOutOfRange,
                    Refresh, Fault, Crash, LoseConnection
<1> QED
  BY <1>2, <1>3, <1>4, <1>5, <1>6, <1>7, <1>8 DEF Step

(* Locks are granted in ascending order in every reachable state.          *)
THEOREM LocksInvariant == Spec => []LocksInv
<1>1. Init => LocksInv
  <2> SUFFICES ASSUME Init PROVE LocksInv
    OBVIOUS
  <2>1. \A w \in Wallets : lockedBy[w] = NoCall
    BY DEF Init
  <2>2. \A c \in Calls : pc[c] = "idle"
    BY DEF Init
  <2>3. LocksBounded
    BY <2>1 DEF LocksBounded
  <2> QED
    BY <2>1, <2>2, <2>3, RequestsAssumption DEF LocksInv, LocksAreGranted, LockOrder
<1>2. LedgerInv /\ LocksInv /\ [Next]_vars => LocksInv'
  <2> SUFFICES ASSUME LedgerInv, LocksInv, [Next]_vars PROVE LocksInv'
    OBVIOUS
  <2>1. CASE UNCHANGED vars
    BY <2>1 DEF vars, session, LocksInv, LocksAreGranted, LockOrder, LocksBounded, Granted, InFlight
  <2>2. CASE Next
    BY <2>2, StepKeepsLocks DEF Next
  <2> QED
    BY <2>1, <2>2
<1> QED
  BY <1>1, <1>2, LedgerInvariant, PTL DEF Spec

(* A bounded non-empty set of naturals has a largest element.              *)
LEMMA LargestElement ==
    ASSUME NEW T, T \subseteq Nat, T # {}, NEW n \in Nat, \A x \in T : x < n
    PROVE  \E x \in T : \A y \in T : y <= x
<1> DEFINE D == {n - x : x \in T}
<1>1. \A x \in T : n - x \in Nat
  OBVIOUS
<1>2. PICK d \in D : \A e \in D : d <= e
  <2>1. D \subseteq Nat /\ D # {}
    BY <1>1
  <2> HIDE DEF D
  <2> QED
    BY <2>1, LeastElement
<1>3. PICK x \in T : d = n - x
  BY <1>2
<1>4. \A y \in T : d <= n - y
  BY <1>2
<1> QED
  BY <1>3, <1>4

(* Whoever is waited for on a row still needs only larger rows, and        *)
(* whoever is waited for on a key needs no more rows: no circle.           *)
LEMMA OrderPreventsDeadlock ==
    ASSUME LedgerInv, LocksInv
    PROVE  NoDeadlock
<1> SUFFICES ASSUME NEW S \in SUBSET Calls, S # {},
                    \A c \in S : \E d \in S : WaitsFor(c, d)
             PROVE  FALSE
  BY DEF NoDeadlock
<1>1. \A c \in S : pc[c] = "lock" /\ ~InFlight(c) /\ c \in Calls
  BY DEF WaitsFor, InFlight
<1>2. ASSUME NEW c \in S
      PROVE  \E d \in S : /\ todo[c] # {} /\ NextRow(c) \in Wallets
                          /\ lockedBy[NextRow(c)] = d
  BY <1>1 DEF WaitsFor
<1> DEFINE W == {NextRow(c) : c \in S}
<1>3. PICK n \in Nat : \A w \in Wallets : lockedBy[w] # NoCall => w < n
  BY DEF LocksInv, LocksBounded
<1>4. W \subseteq Nat /\ W # {} /\ \A w \in W : w < n
  <2>1. \A c \in S : lockedBy[NextRow(c)] # NoCall /\ NextRow(c) \in Wallets
    BY <1>1, <1>2, RequestsAssumption
  <2> QED
    BY <1>3, <2>1, WalletsAssumption
<1>5. PICK c \in S : \A d \in S : NextRow(d) <= NextRow(c)
  <2>1. PICK x \in W : \A y \in W : y <= x
    <3> HIDE DEF W
    <3> QED
      BY <1>4, LargestElement
  <2> QED
    BY <2>1
<1>6. PICK d \in S : NextRow(c) \in Wallets /\ lockedBy[NextRow(c)] = d
  BY <1>2
<1>7. NextRow(c) \in RowsToLock(req[d]) \ todo[d]
  BY <1>1, <1>6 DEF LocksInv, LocksAreGranted, Granted
<1>8. NextRow(d) \in todo[d] /\ NextRow(d) \in Nat
  BY <1>1, <1>2, NextRowIsLeast
<1>9. NextRow(c) < NextRow(d)
  BY <1>1, <1>7, <1>8 DEF LocksInv, LockOrder
<1>10. NextRow(d) <= NextRow(c) /\ NextRow(c) \in Nat
  BY <1>5, <1>6, WalletsAssumption
<1> QED
  BY <1>8, <1>9, <1>10

(* However many handlers run, no group of them waits for each other, over  *)
(* row locks and the unique index of the key together.                     *)
THEOREM DeadlockFree == Spec => []NoDeadlock
<1>1. LedgerInv /\ LocksInv => NoDeadlock
  BY OrderPreventsDeadlock
<1> QED
  BY <1>1, LedgerInvariant, LocksInvariant, PTL
=============================================================================
