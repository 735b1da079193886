------------------------------ MODULE MCLedger ------------------------------
(***************************************************************************)
(* Small instances of LedgerService.  Wallets 1 and 2 are in one currency  *)
(* and belong to different users, wallet 3 is in another one, and id 4     *)
(* names no wallet.  The requests meet every check of the handlers, share  *)
(* an idempotency key, the empty one too, across operations and bodies,    *)
(* and can fill a column (MCMaxBigInt) or empty a wallet.                  *)
(***************************************************************************)
EXTENDS LedgerService, TLC

CONSTANTS c1, c2, c3, u1, u2, k1, k2

MCWalletIds == 1..4
MCWallets   == 1..3
MCOwner     == <<u1, u2, u2>>
MCCurrency  == <<"INR", "INR", "USD">>
MCCurrencyText == {"inr", "INR", "USD"}
MCUpper     == [t \in MCCurrencyText |-> IF t = "inr" THEN "INR" ELSE t]
MCMaxBigInt == 4
MCOpening   == [a \in MCWallets \cup {Funding} |->
                  CASE a = 1 -> 2 [] a = 2 -> 1 [] a = 3 -> 1 [] OTHER -> -4]

Symmetry == Permutations(Calls)

Ask(op, user, from, to, amount, currency, key) ==
    [op |-> op, user |-> user, wallet |-> from, to |-> to,
     amount |-> amount, currency |-> currency, key |-> key]
Deposit(user, w, amount)          == Ask("deposit", user, w, w, amount, "INR", NoKey)
Withdraw(user, w, amount, key)    == Ask("withdraw", user, w, w, amount, "inr", key)
Transfer(user, a, b, amount, key) == Ask("transfer", user, a, b, amount, "INR", key)

(* Requests that pass the checks on identity and currency.                 *)
MoneyRequests ==
    { Deposit(u1, 1, 1), Deposit(u1, 1, 3),
      Withdraw(u1, 1, 2, k1), Withdraw(u2, 2, 1, NoKey),
      Transfer(u1, 1, 2, 1, k1), Transfer(u2, 2, 1, 1, k2),
      Transfer(u1, 1, 2, 2, NoKey),
      Withdraw(u2, 2, 1, EmptyKey), Transfer(u1, 1, 2, 1, EmptyKey) }

(* Requests that a check may refuse.                                       *)
RefusedRequests ==
    { Deposit(u2, 1, 1), Deposit(u2, 3, 1), Deposit(u1, 4, 1),
      Withdraw(u2, 1, 1, k1), Withdraw(u1, 4, 1, k1), Withdraw(u2, 3, 1, NoKey),
      Transfer(u1, 1, 1, 1, k1), Transfer(u1, 2, 1, 1, NoKey), Transfer(u1, 1, 4, 1, k1),
      Transfer(u1, 4, 1, 1, NoKey), Transfer(u2, 2, 3, 1, NoKey), Transfer(u2, 3, 2, 1, k2) }

AllRequests == MoneyRequests \cup RefusedRequests

(* One of each kind, among them opposite transfers that share a key, a     *)
(* withdrawal that competes for the money, and a header without a value.   *)
VariedRequests ==
    { Deposit(u1, 1, 3), Deposit(u2, 1, 1), Withdraw(u1, 1, 2, k1),
      Transfer(u1, 1, 2, 1, k1), Transfer(u2, 2, 1, 1, k1), Transfer(u2, 2, 3, 1, NoKey),
      Transfer(u1, 1, 2, 2, EmptyKey) }

(* One client's request and its retry.                                     *)
RetriedRequests == { Transfer(u1, 1, 2, 1, k1) }
=============================================================================
