----------------------------- MODULE MCAccounts -----------------------------
(* Two registrations of one address, typed in two ways, and logins and     *)
(* wallet creations that race behind them.                                 *)
EXTENDS Accounts

CONSTANTS c1, c2, c3, c4, c5

MCEmails == {"a@x", "a@X"}
MCNormal == [e \in MCEmails |-> "a@x"]
MCPasswords == {"p1", "p2"}
MCCurrencyText == {"inr", "INR", "too long"}
MCUpper == [t \in MCCurrencyText |-> IF t = "inr" THEN "INR" ELSE t]

Register(e, p) == [op |-> "register", email |-> e, password |-> p]
Login(e, p)    == [op |-> "login", email |-> e, password |-> p]
Wallet(t)      == [op |-> "create_wallet", currency |-> t]
Me             == [op |-> "read_me"]

MCRequests ==
    {Register(e, p) : e \in MCEmails, p \in MCPasswords}
    \cup {Login(e, p) : e \in MCEmails, p \in MCPasswords}
    \cup {Wallet(t) : t \in MCCurrencyText} \cup {Me}

MCScripts ==
    {f \in [Calls -> MCRequests] :
       /\ f[c1] \in {Register("a@X", "p1")}
       /\ f[c2] \in {Register("a@x", "p2"), Register("a@X", "p1")}
       /\ f[c3] \in {Login("a@x", "p1"), Login("a@X", "p1"), Login("a@x", "p2")}
       /\ f[c4] \in {Wallet("inr"), Wallet("too long"), Me}
       /\ f[c5] \in {Wallet("inr"), Wallet("INR")}}
=============================================================================
