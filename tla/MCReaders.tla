----------------------------- MODULE MCReaders ------------------------------
(* Three money operations beside one run of the reconciliation job and one *)
(* client that pages through the statement of wallet 1.                    *)
EXTENDS Reconciliation, History, TLC

CONSTANTS c1, c2, c3, u1, u2

MCWallets   == 1..2
MCOwner     == <<u1, u2>>
MCCurrency  == <<"INR", "INR">>
MCUpper     == [t \in {"INR"} |-> t]
MCOpening   == [a \in MCWallets \cup {Funding} |-> IF a = Funding THEN -3 ELSE a]
Symmetry    == Permutations(Calls)

Ask(op, user, from, to, amount) ==
    [op |-> op, user |-> user, wallet |-> from, to |-> to,
     amount |-> amount, currency |-> "INR", key |-> NoKey]
MCRequests ==
    { Ask("deposit", u1, 1, 1, 1), Ask("withdraw", u1, 1, 1, 1), Ask("transfer", u2, 2, 1, 2) }

ReadersInit == Init /\ JobInit /\ HistoryInit
ReadersNext ==
    \/ JobNext /\ UNCHANGED pageVars
    \/ list_transactions /\ UNCHANGED jobVars
ReadersSpec == ReadersInit /\ [][ReadersNext]_<<vars, jobVars, pageVars>>
=============================================================================
