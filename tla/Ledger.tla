------------------------------- MODULE Ledger -------------------------------
(***************************************************************************)
(* The append-only double-entry ledger as a data structure: the rows of    *)
(* ledger_entries and the balance that reconciliation recomputes from      *)
(* them.  A row points at exactly one side, a wallet or the named system   *)
(* account, so one field `account' stands for the columns wallet_id and    *)
(* system_account.                                                         *)
(***************************************************************************)
EXTENDS Integers, Sequences

CONSTANT Opening   \* account -> what the rows older than the model sum to

EntryType == {"CREDIT", "DEBIT"}

(* Money direction lives only in entry_type; amount is always positive.    *)
SignedAmount(e) == IF e.entry_type = "CREDIT" THEN e.amount ELSE -e.amount

Contribution(e, a) == IF e.account = a THEN SignedAmount(e) ELSE 0

(* RunningBalance(l, a)[i] is account a's balance after the first i rows.  *)
RunningBalance(l, a) ==
    LET run[i \in 0..Len(l)] ==
          IF i = 0 THEN Opening[a] ELSE run[i-1] + Contribution(l[i], a)
    IN  run

(* SUM(credits) - SUM(debits) for one account.                             *)
LedgerBalance(l, a) == RunningBalance(l, a)[Len(l)]
=============================================================================
