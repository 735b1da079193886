--------------------------- MODULE Reconciliation ---------------------------
(***************************************************************************)
(* The reconciliation job running beside the money path.  check() takes    *)
(* two SELECTs in one READ COMMITTED transaction: first the ledger sums,   *)
(* then the wallet rows.  Each sees what is committed when it runs.        *)
(***************************************************************************)
EXTENDS LedgerService

VARIABLES
    job,       \* "start", "summed" or "reported"
    sums,      \* _ledger_balances(): wallet -> SUM(credits) - SUM(debits)
    rowsSeen,  \* ledger rows committed when each of the two reads ran
    report     \* wallet -> [cached_balance, ledger_balance], drifted ones only

jobVars == <<job, sums, rowsSeen, report>>

(* Mutation: both entry types count as credits.                            *)
BugLedgerBalances == [w \in Wallets |-> LedgerBalance([i \in DOMAIN ledger |->
                        [ledger[i] EXCEPT !.entry_type = "CREDIT"]], w)]

(* SELECT wallet_id, SUM(signed amount) ... GROUP BY wallet_id.            *)
_ledger_balances == [w \in Wallets |-> LedgerBalance(ledger, w)]

ReadLedger ==
    /\ job = "start"
    /\ sums' = _ledger_balances
    /\ rowsSeen' = [rowsSeen EXCEPT !.ledger = Len(ledger)]
    /\ job' = "summed"
    /\ UNCHANGED <<report, vars>>

(* SELECT wallets, then the comparison.                                    *)
ReadWallets ==
    /\ job = "summed"
    /\ report' = [w \in {v \in Wallets : balance[v] # sums[v]} |->
                    [cached_balance |-> balance[w], ledger_balance |-> sums[w]]]
    /\ rowsSeen' = [rowsSeen EXCEPT !.wallets = Len(ledger)]
    /\ job' = "reported"
    /\ UNCHANGED <<sums, vars>>

(* One run of the job, in one session.                                     *)
Job == ReadLedger \/ ReadWallets

JobInit ==
    /\ job = "start"
    /\ sums = [w \in Wallets |-> 0]
    /\ rowsSeen = [ledger |-> 0, wallets |-> 0]
    /\ report = [w \in {} |-> 0]

(* The job beside the money path.                                          *)
JobNext == Job \/ (Next /\ UNCHANGED jobVars)
JobSpec == Init /\ JobInit /\ [][JobNext]_<<vars, jobVars>>
-----------------------------------------------------------------------------
(* The drift it reports for a wallet is the money that moved between its   *)
(* two reads, no more and no less; in particular a quiet database          *)
(* reconciles.                                                             *)
DriftIsRecentTraffic ==
    job = "reported" =>
       \A w \in Wallets :
          LET statement == RunningBalance(ledger, w)
              moved == statement[rowsSeen.wallets] - statement[rowsSeen.ledger]
          IN  IF w \in DOMAIN report
              THEN moved # 0 /\ report[w].cached_balance - report[w].ledger_balance = moved
              ELSE moved = 0
=============================================================================
