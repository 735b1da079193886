------------------------------ MODULE MCCache -------------------------------
(* Two wallets of two users; three readers, one of them a stranger to the  *)
(* wallet it asks for; a transfer over both wallets and a deposit.         *)
EXTENDS BalanceCache

CONSTANTS u1, u2, r1, r2, r3, x1, x2

MCWallets == 1..2
MCOwner   == <<u1, u2>>
MCReadOf  == [r \in {r1, r2, r3} |->
                [user |-> IF r = r3 THEN u2 ELSE u1, wallet |-> 1]]
MCNamed   == [x \in {x1, x2} |-> IF x = x1 THEN 2 ELSE 1]
MCTouches == [x \in {x1, x2} |-> IF x = x1 THEN {1, 2} ELSE {1}]
=============================================================================
