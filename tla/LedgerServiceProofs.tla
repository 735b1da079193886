------------------------ MODULE LedgerServiceProofs -------------------------
(***************************************************************************)
(* Theorems about LedgerService for any number of concurrent handlers,     *)
(* wallets, requests and amounts.  The argument: a row lock is held from   *)
(* the read of a balance to the commit that replaces it, so the copy a     *)
(* handler works on is never stale, and the two ledger rows it appends     *)
(* move the recomputed balances by just what it adds to the cached ones.   *)
(* The first part shows what a new row does to the balances computed from  *)
(* a ledger of any length.  RunningBalance is a recursive function; that   *)
(* it exists and obeys its equation is shown with the least counterexample *)
(* in place of an induction schema.                                        *)
(***************************************************************************)
EXTENDS LedgerService, WellFoundedInduction, TLAPS

(* p holds account a's balance after each of the first n rows of l.        *)
IsRunning(p, l, a, n) ==
    p = [i \in 0..n |-> IF i = 0 THEN Opening[a] ELSE p[i-1] + Contribution(l[i], a)]

(* A non-empty set of naturals has a least element.                        *)
LEMMA LeastElement ==
    ASSUME NEW T, T \subseteq Nat, T # {}
    PROVE  \E x \in T : \A y \in T : x <= y
<1> DEFINE R == OpToRel(<, Nat)
<1>1. IsWellFoundedOn(R, Nat)
  BY NatLessThanWellFounded
<1>2. PICK x \in T : \A y \in T : ~(<<y, x>> \in R)
  <2> HIDE DEF R
  <2> QED
    BY <1>1, WFMin, Zenon
<1>3. \A y \in T : <<y, x>> \in Nat \X Nat
  BY <1>2
<1>4. \A y \in T : ~(y < x)
  BY <1>2, <1>3 DEF OpToRel
<1> QED
  BY <1>4

(* The lines of the table, one by one.                                     *)
LEMMA RunningSteps ==
    ASSUME NEW n \in Nat, NEW l, NEW a, NEW p, IsRunning(p, l, a, n)
    PROVE  /\ p[0] = Opening[a]
           /\ \A i \in 1..n : p[i] = p[i-1] + Contribution(l[i], a)
<1>1. p[0] = Opening[a]
  BY DEF IsRunning
<1>2. ASSUME NEW i \in 1..n
      PROVE  p[i] = p[i-1] + Contribution(l[i], a)
  BY DEF IsRunning
<1> QED
  BY <1>1, <1>2

(* The table of running balances exists for every prefix.                  *)
LEMMA RunningExists ==
    ASSUME NEW l, Len(l) \in Nat, NEW a
    PROVE  \A n \in 0..Len(l) : \E p : IsRunning(p, l, a, n)
<1> DEFINE Has(n) == \E p : IsRunning(p, l, a, n)
           Bad == {n \in 0..Len(l) : ~Has(n)}
<1>1. Has(0)
  <2> DEFINE p == [i \in 0..0 |-> Opening[a]]
  <2>1. IsRunning(p, l, a, 0)
    BY DEF IsRunning
  <2> QED
    BY <2>1
<1>2. ASSUME NEW n \in 0..Len(l), n # Len(l), Has(n)
      PROVE  Has(n + 1)
  <2> PICK p : IsRunning(p, l, a, n)
    BY <1>2
  <2> DEFINE q == [i \in 0..(n+1) |-> IF i <= n THEN p[i] ELSE p[n] + Contribution(l[n+1], a)]
  <2>1. p[0] = Opening[a] /\ \A i \in 1..n : p[i] = p[i-1] + Contribution(l[i], a)
    BY RunningSteps
  <2>2. \A i \in 0..(n+1) :
          q[i] = IF i = 0 THEN Opening[a] ELSE q[i-1] + Contribution(l[i], a)
    <3> TAKE i \in 0..(n+1)
    <3>1. CASE i = 0
      BY <2>1, <3>1
    <3>2. CASE i \in 1..n
      <4>1. q[i] = p[i] /\ q[i-1] = p[i-1]
        BY <3>2
      <4> QED
        BY <2>1, <3>2, <4>1
    <3>3. CASE i = n + 1
      <4>1. q[i] = p[n] + Contribution(l[n+1], a) /\ q[i-1] = p[n]
        BY <3>3
      <4> QED
        BY <3>3, <4>1
    <3> QED
      BY <3>1, <3>2, <3>3
  <2>3. IsRunning(q, l, a, n + 1)
    BY <2>2 DEF IsRunning
  <2> QED
    BY <2>3
<1>3. Bad = {}
  <2> SUFFICES ASSUME Bad # {} PROVE FALSE
    OBVIOUS
  <2>1. Bad \subseteq Nat /\ \A n \in Bad : n \in 0..Len(l) /\ ~Has(n)
    OBVIOUS
  <2>2. \A n \in 0..Len(l) : n \notin Bad => Has(n)
    OBVIOUS
  <2> HIDE DEF Has, Bad
  <2>3. PICK m \in Bad : \A y \in Bad : m <= y
    BY <2>1, LeastElement, Zenon
  <2>4. m # 0 /\ m \in 0..Len(l) /\ ~Has(m)
    BY <1>1, <2>1
  <2>5. m - 1 \in 0..Len(l) /\ m - 1 # Len(l) /\ (m - 1) + 1 = m
    BY <2>4
  <2>6. m - 1 \notin Bad
    BY <2>3, <2>5, <2>4
  <2>7. Has(m - 1)
    BY <2>2, <2>5, <2>6
  <2>8. Has((m - 1) + 1)
    BY <1>2, <2>5, <2>7
  <2> QED
    BY <2>8, <2>5, <2>4
<1> QED
  BY <1>3

(* Two tables of the same rows agree.                                      *)
LEMMA RunningUnique ==
    ASSUME NEW n \in Nat, NEW m \in 0..n, NEW l, NEW k, NEW a, NEW p, NEW q,
           IsRunning(p, l, a, n), IsRunning(q, k, a, m),
           \A i \in 1..m : l[i] = k[i]
    PROVE  \A i \in 0..m : p[i] = q[i]
<1> DEFINE Bad == {i \in 0..m : p[i] # q[i]}
<1> SUFFICES ASSUME Bad # {} PROVE FALSE
  OBVIOUS
<1>1. Bad \subseteq Nat /\ \A i \in Bad : i \in 0..m /\ p[i] # q[i]
  OBVIOUS
<1>2. \A i \in 0..m : i \notin Bad => p[i] = q[i]
  OBVIOUS
<1> HIDE DEF Bad
<1>3. PICK i \in Bad : \A y \in Bad : i <= y
  BY <1>1, LeastElement, Zenon
<1>4. i \in 0..m /\ i \in 0..n /\ p[i] # q[i]
  BY <1>1, <1>3
<1>5. p[0] = Opening[a] /\ q[0] = Opening[a]
  BY DEF IsRunning
<1>6. i # 0
  BY <1>4, <1>5
<1>7. p[i] = p[i-1] + Contribution(l[i], a) /\ q[i] = q[i-1] + Contribution(k[i], a)
  BY <1>4, <1>6 DEF IsRunning
<1>8. i - 1 \in 0..m /\ i - 1 \notin Bad
  BY <1>3, <1>4, <1>6
<1> QED
  BY <1>2, <1>4, <1>6, <1>7, <1>8

(* RunningBalance obeys the equation that defines it.                      *)
LEMMA RunningIs ==
    ASSUME NEW l, Len(l) \in Nat, NEW a
    PROVE  IsRunning(RunningBalance(l, a), l, a, Len(l))
<1>1. \E p : IsRunning(p, l, a, Len(l))
  BY RunningExists
<1>2. RunningBalance(l, a) = CHOOSE p : IsRunning(p, l, a, Len(l))
  BY DEF RunningBalance, IsRunning
<1> QED
  BY <1>1, <1>2

(* A new row leaves the earlier lines of every statement as they were.     *)
LEMMA RunningPrefix ==
    ASSUME NEW S, NEW l \in Seq(S), NEW e \in S, NEW a, NEW i \in 0..Len(l)
    PROVE  RunningBalance(Append(l, e), a)[i] = RunningBalance(l, a)[i]
<1> DEFINE k == Append(l, e)
<1>1. Len(l) \in Nat /\ Len(k) \in Nat /\ Len(k) = Len(l) + 1 /\ Len(l) \in 0..Len(k)
  OBVIOUS
<1>2. \A j \in 1..Len(l) : k[j] = l[j]
  OBVIOUS
<1> HIDE DEF k
<1>3. IsRunning(RunningBalance(k, a), k, a, Len(k)) /\ IsRunning(RunningBalance(l, a), l, a, Len(l))
  BY <1>1, RunningIs
<1>4. \A j \in 0..Len(l) : RunningBalance(k, a)[j] = RunningBalance(l, a)[j]
  BY <1>1, <1>2, <1>3, RunningUnique
<1> QED
  BY <1>4 DEF k

(* A new row moves the balance of its own account by its signed amount and *)
(* no other balance.                                                       *)
THEOREM AppendMovesBalance ==
    ASSUME NEW S, NEW l \in Seq(S), NEW e \in S, NEW a
    PROVE  LedgerBalance(Append(l, e), a) = LedgerBalance(l, a) + Contribution(e, a)
<1> DEFINE k == Append(l, e)  n == Len(l)
<1>1. n \in Nat /\ Len(k) = n + 1 /\ k[n + 1] = e /\ n \in 0..Len(l)
  OBVIOUS
<1>2. RunningBalance(k, a)[n] = RunningBalance(l, a)[n]
  BY <1>1, RunningPrefix
<1> HIDE DEF k
<1>3. IsRunning(RunningBalance(k, a), k, a, n + 1)
  BY <1>1, RunningIs
<1>4. RunningBalance(k, a)[n + 1] = RunningBalance(k, a)[n] + Contribution(k[n + 1], a)
  BY <1>1, <1>3 DEF IsRunning
<1>5. LedgerBalance(k, a) = LedgerBalance(l, a) + Contribution(e, a)
  BY <1>1, <1>2, <1>4 DEF LedgerBalance
<1> QED
  BY <1>5 DEF k

(* Before the first row every account stands at its opening balance.       *)
LEMMA EmptyLedger ==
    ASSUME NEW a
    PROVE  LedgerBalance(<<>>, a) = Opening[a]
<1>1. Len(<<>>) = 0
  OBVIOUS
<1>2. IsRunning(RunningBalance(<<>>, a), <<>>, a, 0)
  BY <1>1, RunningIs
<1> QED
  BY <1>1, <1>2 DEF IsRunning, LedgerBalance
-----------------------------------------------------------------------------
USE WalletsAssumption, RequestsAssumption

(* A request names one of the three operations, with a positive amount.    *)
LEMMA RequestShape ==
    ASSUME TypeOK, NEW c \in Calls
    PROVE  req[c] \in RequestType
  BY DEF TypeOK

(* Balances and copies of them are integers.                               *)
LEMMA BalancesAreInts ==
    ASSUME TypeOK, NEW w \in Wallets
    PROVE  balance[w] \in Int /\ \A c \in Calls : copy[c][w] \in Int
<1>1. \A x \in BigInt : x \in Int
  BY DEF BigInt
<1>2. balance[w] \in BigInt /\ \A c \in Calls : copy[c][w] \in BigInt
  BY DEF TypeOK
<1> QED
  BY <1>1, <1>2

(* The two rows of a transaction move a wallet by what its request says.   *)
LEMMA LegsAddUp ==
    ASSUME TypeOK, NEW c \in Calls, ~SelfTransfer(req[c]), NEW w \in Wallets
    PROVE  /\ Contribution(Entry(c, 1), w) \in Int
           /\ Contribution(Entry(c, 2), w) \in Int
           /\ Contribution(Entry(c, 1), w) + Contribution(Entry(c, 2), w) = B!Delta(req[c], w)
<1>1. req[c] \in RequestType
  BY RequestShape
<1>2. w # Funding
  OBVIOUS
<1>3. CASE req[c].op = "deposit"
  BY <1>1, <1>2, <1>3 DEF RequestType, Contribution, SignedAmount, Entry, Legs, DepositLegs, B!Delta
<1>4. CASE req[c].op = "transfer"
  BY <1>1, <1>2, <1>4 DEF RequestType, Contribution, SignedAmount, Entry, Legs, TransferLegs,
                          B!Delta, SelfTransfer
<1>5. CASE req[c].op = "withdraw"
  BY <1>1, <1>2, <1>5 DEF RequestType, Contribution, SignedAmount, Entry, Legs, WithdrawLegs,
                          B!Delta
<1> QED
  BY <1>1, <1>3, <1>4, <1>5 DEF RequestType, Operation

(* The balances a handler assigns differ from those it read by the same.   *)
LEMMA NewBalancesMove ==
    ASSUME TypeOK, NEW c \in Calls, ~SelfTransfer(req[c]), RowsToLock(req[c]) \subseteq Wallets
    PROVE  /\ DOMAIN NewBalances(c) = Wallets
           /\ \A w \in Wallets : NewBalances(c)[w] = copy[c][w] + B!Delta(req[c], w)
<1>1. req[c] \in RequestType
  BY RequestShape
<1>2. copy[c] \in [Wallets -> BigInt] /\ req[c].wallet \in Wallets
  BY DEF TypeOK, RowsToLock
<1>2a. BigInt \subseteq Int
  BY DEF BigInt
<1>3. CASE req[c].op = "deposit"
  BY <1>1, <1>2, <1>2a, <1>3 DEF RequestType, NewBalances, B!Delta
<1>4. CASE req[c].op = "transfer"
  <2>1. req[c].to \in Wallets /\ req[c].to # req[c].wallet
    BY <1>4 DEF RowsToLock, SelfTransfer
  <2> QED
    BY <1>1, <1>2, <1>2a, <1>4, <2>1 DEF RequestType, NewBalances, B!Delta
<1>5. CASE req[c].op = "withdraw"
  BY <1>1, <1>2, <1>2a, <1>5 DEF RequestType, NewBalances, B!Delta
<1> QED
  BY <1>1, <1>3, <1>4, <1>5 DEF RequestType, Operation

(* A request only moves the rows it locks.                                 *)
LEMMA DeltaOutside ==
    ASSUME TypeOK, NEW c \in Calls, NEW w \in Wallets
    PROVE  /\ B!Delta(req[c], w) \in Int
           /\ w \notin RowsToLock(req[c]) => B!Delta(req[c], w) = 0
  BY RequestShape DEF RequestType, RowsToLock, B!Delta

(* The initial state satisfies the invariant.                              *)
LEMMA InitEstablishes == Init => LedgerInv
<1> SUFFICES ASSUME Init PROVE LedgerInv
  OBVIOUS
<1>1. 0 \in BigInt /\ \A w \in Wallets : Opening[w] \in BigInt
  BY DEF BigInt
<1>2. TypeOK
  <2>1. NoCopy \in [Wallets -> BigInt] /\ NoAnswer \in AnswerRow
    BY <1>1 DEF NoCopy, NoAnswer, AnswerRow
  <2>2. ledger \in Seq(EntryRow)
    BY DEF Init
  <2> QED
    BY <1>1, <2>1, <2>2 DEF Init, TypeOK, PC
<1>3. SessionsConsistent /\ LocksProtectCopies
  BY DEF Init, SessionsConsistent, LocksProtectCopies, InFlight
<1>4. BalanceMatchesLedger
  BY EmptyLedger DEF Init, BalanceMatchesLedger
<1> QED
  BY <1>2, <1>3, <1>4 DEF LedgerInv

(* A handler that ends without committing disturbs no other one.           *)
LEMMA CloseKeeps ==
    ASSUME LedgerInv, NEW c \in Calls, NEW a \in AnswerRow, NEW at \in {"done", "crashed"},
           Close(c, a, at), nextSeq' \in Nat
    PROVE  LedgerInv'
<1>1. TypeOK'
  <2>1. NoCopy \in [Wallets -> BigInt]
    BY DEF NoCopy, BigInt
  <2>2. lockedBy' \in [Wallets -> Calls \cup {NoCall}]
    BY DEF LedgerInv, TypeOK, Close, Released
  <2> QED
    BY <2>1, <2>2 DEF LedgerInv, TypeOK, Close, committed, PC
<1>2. \A d \in Calls \ {c} : pc'[d] = pc[d] /\ todo'[d] = todo[d] /\ copy'[d] = copy[d]
  BY DEF LedgerInv, TypeOK, Close
<1>3. pc'[c] \in {"done", "crashed"} /\ req' = req /\ balance' = balance /\ ledger' = ledger
  BY DEF LedgerInv, TypeOK, Close, committed
<1>4. SessionsConsistent'
  BY <1>2, <1>3 DEF LedgerInv, SessionsConsistent, InFlight
<1>5. LocksProtectCopies'
  <2> SUFFICES ASSUME NEW d \in Calls, pc'[d] = "lock" \/ InFlight(d)', NEW w \in Granted(d)'
               PROVE  /\ lockedBy'[w] = d
                      /\ copy'[d][w] = balance'[w] + IF pc'[d] = "commit"
                                                       THEN B!Delta(req'[d], w) ELSE 0
    BY DEF LocksProtectCopies
  <2>1. d # c
    BY <1>3 DEF InFlight
  <2>2. pc[d] = "lock" \/ InFlight(d)
    BY <1>2, <2>1 DEF InFlight
  <2>3. w \in Granted(d) /\ w \in Wallets
    BY <1>2, <1>3, <2>1 DEF Granted
  <2>4. lockedBy[w] = d /\ copy[d][w] = balance[w] + IF pc[d] = "commit"
                                                       THEN B!Delta(req[d], w) ELSE 0
    BY <2>2, <2>3 DEF LedgerInv, LocksProtectCopies
  <2>5. lockedBy'[w] = d
    BY <2>1, <2>3, <2>4 DEF Close, Released
  <2> QED
    BY <1>2, <1>3, <2>1, <2>4, <2>5
<1>6. BalanceMatchesLedger'
  BY <1>3 DEF LedgerInv, BalanceMatchesLedger
<1> QED
  BY <1>1, <1>4, <1>5, <1>6 DEF LedgerInv

(* The answers a handler may give have the right shape.                    *)
LEMMA AnswerShapes ==
    ASSUME TypeOK
    PROVE  /\ NoAnswer \in AnswerRow
           /\ \A e \in {"WalletNotFound", "WalletAccessDenied", "RecipientNotFound",
                        "CurrencyMismatch", "SameWalletTransfer", "InsufficientFunds",
                        "Unhandled"} : Failed(e) \in AnswerRow
           /\ \A t \in Calls : \A w \in Wallets : Ok(t, balance[w]) \in AnswerRow
<1>1. 0 \in BigInt
  BY DEF BigInt
<1>2. NoAnswer \in AnswerRow
  BY <1>1 DEF NoAnswer, AnswerRow
<1>3. ASSUME NEW e \in {"WalletNotFound", "WalletAccessDenied", "RecipientNotFound",
                        "CurrencyMismatch", "SameWalletTransfer", "InsufficientFunds",
                        "Unhandled"}
      PROVE  Failed(e) \in AnswerRow
  BY <1>1 DEF Failed, NoAnswer, AnswerRow, HttpStatus
<1>4. ASSUME NEW t \in Calls, NEW w \in Wallets
      PROVE  Ok(t, balance[w]) \in AnswerRow
  BY DEF TypeOK, Ok, AnswerRow
<1> QED
  BY <1>2, <1>3, <1>4

(* Every refusal is one of the exceptions the routes know.                 *)
LEMMA ErrorNames ==
    ASSUME TypeOK, NEW c \in Calls
    PROVE  Error(c) \in {"none", "WalletNotFound", "WalletAccessDenied", "RecipientNotFound",
                         "CurrencyMismatch", "InsufficientFunds"}
<1>1. req[c].op \in Operation
  BY RequestShape DEF RequestType
<1>2. WalletError(req[c]) \in {"none", "WalletNotFound", "WalletAccessDenied"}
  BY DEF WalletError
<1>3. CurrencyError(req[c]) \in {"none", "CurrencyMismatch"}
  BY DEF CurrencyError
<1>4. FundsError(c) \in {"none", "InsufficientFunds"}
  BY DEF FundsError
<1> QED
  BY <1>1, <1>2, <1>3, <1>4 DEF Operation, Error, DepositError, WithdrawError, TransferError

(* Once its checks have passed, every row a handler needs exists.          *)
LEMMA ChecksFindRows ==
    ASSUME TypeOK, NEW c \in Calls, Error(c) = "none"
    PROVE  RowsToLock(req[c]) \subseteq Wallets
<1>1. req[c].op \in Operation
  BY RequestShape DEF RequestType
<1>2. WalletError(req[c]) = "none"
  BY <1>1 DEF Operation, Error, DepositError, WithdrawError, TransferError
<1>3. req[c].wallet \in Wallets
  BY <1>2 DEF WalletError
<1>4. CASE req[c].op = "transfer"
  <2>1. req[c].to \in Wallets
    BY <1>2, <1>4 DEF Error, TransferError
  <2> QED
    BY <1>3, <1>4, <2>1 DEF RowsToLock
<1>5. CASE req[c].op # "transfer"
  BY <1>3, <1>5 DEF RowsToLock
<1> QED
  BY <1>4, <1>5

(* A step of c that leaves the committed rows, the locks and the requests  *)
(* alone need only answer for c.                                           *)
LEMMA LocalStep ==
    ASSUME LedgerInv, TypeOK', NEW c \in Calls,
           UNCHANGED <<balance, ledger, req>>,
           \A d \in Calls \ {c} : pc'[d] = pc[d] /\ todo'[d] = todo[d] /\ copy'[d] = copy[d],
           \A w \in Wallets : lockedBy[w] \in Calls \ {c} => lockedBy'[w] = lockedBy[w],
           pc'[c] = "check" => todo'[c] = RowsToLock(req[c]),
           pc'[c] \in {"check", "lock", "write", "commit"} => ~SelfTransfer(req[c]),
           InFlight(c)' => todo'[c] = {},
           pc'[c] \in {"write", "commit", "refresh"} => RowsToLock(req[c]) \subseteq Wallets,
           pc'[c] = "lock" \/ InFlight(c)' =>
              \A w \in (RowsToLock(req[c]) \ todo'[c]) \cap Wallets :
                 /\ lockedBy'[w] = c
                 /\ copy'[c][w] = balance[w] + IF pc'[c] = "commit"
                                                 THEN B!Delta(req[c], w) ELSE 0
    PROVE  LedgerInv'
<1>1. SessionsConsistent'
  BY DEF LedgerInv, SessionsConsistent, InFlight
<1>2. LocksProtectCopies'
  <2> SUFFICES ASSUME NEW d \in Calls, pc'[d] = "lock" \/ InFlight(d)', NEW w \in Granted(d)'
               PROVE  /\ lockedBy'[w] = d
                      /\ copy'[d][w] = balance'[w] + IF pc'[d] = "commit"
                                                       THEN B!Delta(req'[d], w) ELSE 0
    BY DEF LocksProtectCopies
  <2>1. CASE d = c
    BY <2>1 DEF Granted
  <2>2. CASE d # c
    <3>1. pc[d] = "lock" \/ InFlight(d)
      BY <2>2 DEF InFlight
    <3>2. w \in Granted(d) /\ w \in Wallets
      BY <2>2 DEF Granted
    <3>3. lockedBy[w] = d /\ copy[d][w] = balance[w] + IF pc[d] = "commit"
                                                         THEN B!Delta(req[d], w) ELSE 0
      BY <3>1, <3>2 DEF LedgerInv, LocksProtectCopies
    <3> QED
      BY <2>2, <3>2, <3>3
  <2> QED
    BY <2>1, <2>2
<1>3. BalanceMatchesLedger'
  BY DEF LedgerInv, BalanceMatchesLedger
<1> QED
  BY <1>1, <1>2, <1>3 DEF LedgerInv

(* A handler that starts, with nothing locked yet.                         *)
LEMMA ArriveKeeps ==
    ASSUME LedgerInv, NEW c \in Calls, Arrive(c) PROVE LedgerInv'
<1>1. TypeOK'
  <2>1. RowsToLock(req[c]) \subseteq WalletIds
    BY RequestShape DEF LedgerInv, RequestType, RowsToLock
  <2> QED
    BY <2>1 DEF LedgerInv, TypeOK, Arrive, committed, PC
<1>2. pc'[c] \in {"check", "lock"} /\ todo'[c] = RowsToLock(req[c])
  BY DEF LedgerInv, TypeOK, Arrive
<1> QED
  BY <1>1, <1>2, LocalStep DEF LedgerInv, TypeOK, Arrive, committed, InFlight

(* The lookup of the idempotency key changes only the handler's place.     *)
LEMMA CheckKeyKeeps ==
    ASSUME LedgerInv, NEW c \in Calls, CheckKey(c) PROVE LedgerInv'
<1>1. TypeOK'
  BY DEF LedgerInv, TypeOK, CheckKey, committed, PC
<1>2. pc'[c] \in {"replay", "lock"} /\ todo'[c] = RowsToLock(req[c]) /\ ~SelfTransfer(req[c])
  BY DEF LedgerInv, TypeOK, SessionsConsistent, CheckKey
<1> QED
  BY <1>1, <1>2, LocalStep DEF LedgerInv, TypeOK, CheckKey, committed, InFlight

(* SELECT ... FOR UPDATE: the copy taken is the committed balance.         *)
LEMMA LockRowKeeps ==
    ASSUME LedgerInv, NEW c \in Calls, LockRow(c) PROVE LedgerInv'
<1> DEFINE w == NextRow(c)
<1>1. /\ w \in Wallets /\ lockedBy[w] = NoCall
      /\ lockedBy' = [lockedBy EXCEPT ![w] = c]
      /\ copy' = [copy EXCEPT ![c][w] = balance[w]]
      /\ todo' = [todo EXCEPT ![c] = @ \ {w}]
      /\ pc[c] = "lock" /\ pc' = pc
      /\ UNCHANGED <<firstSeq, answer, req, balance, ledger, txns, outbox, nextSeq>>
  BY DEF LockRow, committed
<1> HIDE DEF w
<1>2. TypeOK'
  BY <1>1 DEF LedgerInv, TypeOK
<1>3. \A d \in Calls \ {c} : todo'[d] = todo[d] /\ copy'[d] = copy[d]
  BY <1>1 DEF LedgerInv, TypeOK
<1>4. \A v \in Wallets : lockedBy[v] \in Calls \ {c} => lockedBy'[v] = lockedBy[v]
  BY <1>1 DEF LedgerInv, TypeOK
<1>5. ~SelfTransfer(req[c])
  BY <1>1 DEF LedgerInv, SessionsConsistent
<1>6. ASSUME NEW v \in (RowsToLock(req[c]) \ todo'[c]) \cap Wallets
      PROVE  lockedBy'[v] = c /\ copy'[c][v] = balance[v] + 0
  <2>1. balance[v] \in Int
    BY BalancesAreInts DEF LedgerInv
  <2>2. CASE v = w
    BY <1>1, <2>1, <2>2 DEF LedgerInv, TypeOK
  <2>3. CASE v # w
    <3>1. v \in Granted(c)
      BY <1>1, <2>3 DEF Granted, LedgerInv, TypeOK
    <3>2. lockedBy[v] = c /\ copy[c][v] = balance[v] + 0
      BY <1>1, <3>1 DEF LedgerInv, LocksProtectCopies
    <3> QED
      BY <1>1, <2>3, <3>2 DEF LedgerInv, TypeOK
  <2> QED
    BY <2>2, <2>3
<1> QED
  BY <1>1, <1>2, <1>3, <1>4, <1>5, <1>6, LocalStep DEF InFlight

(* An id without a row adds nothing to what the handler was granted.       *)
LEMMA SkipMissingRowKeeps ==
    ASSUME LedgerInv, NEW c \in Calls, SkipMissingRow(c) PROVE LedgerInv'
<1> DEFINE w == NextRow(c)
<1>1. /\ w \notin Wallets
      /\ todo' = [todo EXCEPT ![c] = @ \ {w}]
      /\ pc[c] = "lock"
      /\ UNCHANGED <<pc, copy, lockedBy, firstSeq, answer, req, balance, ledger, txns, outbox, nextSeq>>
  BY DEF SkipMissingRow, committed
<1> HIDE DEF w
<1>2. TypeOK'
  BY <1>1 DEF LedgerInv, TypeOK
<1>3. \A d \in Calls \ {c} : todo'[d] = todo[d]
  BY <1>1 DEF LedgerInv, TypeOK
<1>4. ~SelfTransfer(req[c])
  BY <1>1 DEF LedgerInv, SessionsConsistent
<1>5. (RowsToLock(req[c]) \ todo'[c]) \cap Wallets = Granted(c)
  BY <1>1 DEF Granted, LedgerInv, TypeOK
<1>6. \A v \in Granted(c) : lockedBy[v] = c /\ copy[c][v] = balance[v] + 0
  BY <1>1 DEF LedgerInv, LocksProtectCopies
<1> QED
  BY <1>1, <1>2, <1>3, <1>4, <1>5, <1>6, LocalStep DEF InFlight

(* The INSERT of the header: every check on the locked rows has passed.    *)
LEMMA OpenTransactionKeeps ==
    ASSUME LedgerInv, NEW c \in Calls, OpenTransaction(c) PROVE LedgerInv'
<1>1. TypeOK'
  BY DEF LedgerInv, TypeOK, OpenTransaction, committed, PC
<1>2. pc[c] = "lock" /\ pc'[c] = "write" /\ todo'[c] = {} /\ todo[c] = {}
  BY DEF LedgerInv, TypeOK, OpenTransaction
<1>3. ~SelfTransfer(req[c])
  BY <1>2 DEF LedgerInv, SessionsConsistent
<1>4. RowsToLock(req[c]) \subseteq Wallets
  BY ChecksFindRows DEF LedgerInv, OpenTransaction
<1>5. \A v \in Granted(c) : lockedBy[v] = c /\ copy[c][v] = balance[v] + 0
  BY <1>2 DEF LedgerInv, LocksProtectCopies
<1> QED
  BY <1>1, <1>2, <1>3, <1>4, <1>5, LocalStep
     DEF LedgerInv, TypeOK, OpenTransaction, committed, InFlight, Granted

(* The new balances differ from the rows by the money about to move.       *)
LEMMA WriteRowsKeeps ==
    ASSUME LedgerInv, NEW c \in Calls, WriteRows(c) PROVE LedgerInv'
<1>1. /\ pc[c] = "write" /\ ~OutOfRange(c)
      /\ pc' = [pc EXCEPT ![c] = "commit"]
      /\ copy' = [copy EXCEPT ![c] = NewBalances(c)]
      /\ firstSeq' = [firstSeq EXCEPT ![c] = nextSeq]
      /\ nextSeq' = nextSeq + 2
      /\ UNCHANGED <<todo, answer, req, lockedBy, balance, ledger, txns, outbox>>
  BY DEF WriteRows, committed
<1>2. ~SelfTransfer(req[c]) /\ RowsToLock(req[c]) \subseteq Wallets /\ todo[c] = {}
  BY <1>1 DEF LedgerInv, SessionsConsistent, InFlight
<1>3. /\ DOMAIN NewBalances(c) = Wallets
      /\ \A w \in Wallets : NewBalances(c)[w] = copy[c][w] + B!Delta(req[c], w)
  BY <1>2, NewBalancesMove DEF LedgerInv
<1>4. NewBalances(c) \in [Wallets -> BigInt]
  <2>1. \A w \in Wallets : NewBalances(c)[w] \in BigInt
    BY <1>1 DEF OutOfRange, BigInt
  <2>2. NewBalances(c) = [w \in Wallets |-> NewBalances(c)[w]]
    BY <1>3, RequestShape DEF NewBalances, LedgerInv, RequestType, Operation
  <2> QED
    BY <2>1, <2>2
<1>5. TypeOK'
  BY <1>1, <1>4 DEF LedgerInv, TypeOK, PC
<1>6. \A v \in Granted(c) : lockedBy[v] = c /\ copy[c][v] = balance[v] + 0
  BY <1>1 DEF LedgerInv, LocksProtectCopies, InFlight
<1>7. ASSUME NEW v \in Granted(c)
      PROVE  lockedBy'[v] = c /\ copy'[c][v] = balance[v] + B!Delta(req[c], v)
  <2>1. v \in Wallets /\ balance[v] \in Int
    BY BalancesAreInts DEF Granted, LedgerInv
  <2>2. copy'[c][v] = NewBalances(c)[v]
    BY <1>1 DEF LedgerInv, TypeOK
  <2>3. lockedBy[v] = c /\ copy[c][v] = balance[v] + 0
    BY <1>6
  <2>4. copy[c][v] = balance[v]
    BY <2>1, <2>3
  <2> QED
    BY <1>1, <1>3, <2>1, <2>2, <2>3, <2>4
<1>8. pc'[c] = "commit" /\ \A d \in Calls \ {c} : pc'[d] = pc[d] /\ copy'[d] = copy[d]
  BY <1>1 DEF LedgerInv, TypeOK
<1> QED
  BY <1>1, <1>2, <1>5, <1>7, <1>8, LocalStep DEF InFlight, Granted

(* A commit moves every cached balance by what its request says.           *)
LEMMA CommitMoves ==
    ASSUME LedgerInv, NEW c \in Calls, Commit(c), NEW w \in Wallets
    PROVE  balance'[w] = balance[w] + B!Delta(req[c], w)
<1>1. TypeOK /\ pc[c] = "commit" /\ todo[c] = {} /\ InFlight(c)
  BY DEF LedgerInv, Commit, SessionsConsistent, InFlight
<1>2. balance'[w] = IF w \in RowsToLock(req[c]) THEN copy[c][w] ELSE balance[w]
  BY DEF Commit
<1>3. balance[w] \in Int /\ B!Delta(req[c], w) \in Int
  BY <1>1, BalancesAreInts, DeltaOutside
<1>4. CASE w \in RowsToLock(req[c])
  <2>1. w \in Granted(c)
    BY <1>1, <1>4 DEF Granted
  <2>2. copy[c][w] = balance[w] + B!Delta(req[c], w)
    BY <1>1, <2>1 DEF LedgerInv, LocksProtectCopies
  <2> QED
    BY <1>2, <1>4, <2>2
<1>5. CASE w \notin RowsToLock(req[c])
  BY <1>1, <1>2, <1>3, <1>5, DeltaOutside
<1> QED
  BY <1>4, <1>5

(* The rows a commit appends are well formed.                              *)
LEMMA EntriesAreRows ==
    ASSUME TypeOK, NEW c \in Calls, RowsToLock(req[c]) \subseteq Wallets
    PROVE  Entry(c, 1) \in EntryRow /\ Entry(c, 2) \in EntryRow /\ Event(c) \in EventRow
<1>1. req[c] \in RequestType /\ req[c].wallet \in Wallets
  BY RequestShape DEF RowsToLock
<1>2. firstSeq[c] + 1 - 1 \in Nat /\ firstSeq[c] + 2 - 1 \in Nat
  BY DEF TypeOK
<1>3. CASE req[c].op = "deposit"
  BY <1>1, <1>2, <1>3 DEF RequestType, Operation, Entry, EntryRow, Event, EventRow, EntryType,
                          Legs, DepositLegs, Accounts
<1>4. CASE req[c].op = "transfer"
  <2>1. req[c].to \in Wallets
    BY <1>4 DEF RowsToLock
  <2> QED
    BY <1>1, <1>2, <1>4, <2>1 DEF RequestType, Operation, Entry, EntryRow, Event, EventRow,
                                  EntryType, Legs, TransferLegs, Accounts
<1>5. CASE req[c].op = "withdraw"
  BY <1>1, <1>2, <1>5 DEF RequestType, Operation, Entry, EntryRow, Event, EventRow, EntryType,
                          Legs, WithdrawLegs, Accounts
<1> QED
  BY <1>1, <1>3, <1>4, <1>5 DEF RequestType, Operation

(* COMMIT: cached balances and ledger rows move together, and no other     *)
(* handler had a copy of a row that moved.                                 *)
LEMMA CommitKeeps ==
    ASSUME LedgerInv, NEW c \in Calls, Commit(c) PROVE LedgerInv'
<1>1. /\ pc[c] = "commit" /\ InFlight(c) /\ TypeOK
      /\ pc' = [pc EXCEPT ![c] = "refresh"]
      /\ ledger' = Append(Append(ledger, Entry(c, 1)), Entry(c, 2))
      /\ lockedBy' = Released(c)
      /\ txns' = txns \cup {c} /\ outbox' = outbox \cup {Event(c)}
      /\ UNCHANGED <<todo, copy, firstSeq, answer, req, nextSeq>>
  BY DEF Commit, LedgerInv, InFlight
<1>2. ~SelfTransfer(req[c]) /\ RowsToLock(req[c]) \subseteq Wallets /\ todo[c] = {}
  BY <1>1 DEF LedgerInv, SessionsConsistent
<1>3. Entry(c, 1) \in EntryRow /\ Entry(c, 2) \in EntryRow /\ Event(c) \in EventRow
  BY <1>1, <1>2, EntriesAreRows
<1>4. TypeOK'
  <2>1. lockedBy' \in [Wallets -> Calls \cup {NoCall}]
    BY <1>1 DEF Released, TypeOK
  <2>2. balance' \in [Wallets -> BigInt]
    BY <1>1 DEF Commit, TypeOK
  <2>3. ledger' \in Seq(EntryRow)
    BY <1>1, <1>3 DEF TypeOK
  <2> QED
    BY <1>1, <1>3, <2>1, <2>2, <2>3 DEF TypeOK, PC
<1>5. pc'[c] = "refresh" /\ \A d \in Calls \ {c} : pc'[d] = pc[d]
  BY <1>1 DEF TypeOK
<1>6. SessionsConsistent'
  BY <1>1, <1>2, <1>5 DEF LedgerInv, SessionsConsistent, InFlight
<1>7. LocksProtectCopies'
  <2> SUFFICES ASSUME NEW d \in Calls, pc'[d] = "lock" \/ InFlight(d)', NEW w \in Granted(d)'
               PROVE  /\ lockedBy'[w] = d
                      /\ copy'[d][w] = balance'[w] + IF pc'[d] = "commit"
                                                       THEN B!Delta(req'[d], w) ELSE 0
    BY DEF LocksProtectCopies
  <2>1. d # c
    BY <1>5 DEF InFlight
  <2>2. pc[d] = "lock" \/ InFlight(d)
    BY <1>5, <2>1 DEF InFlight
  <2>3. w \in Granted(d) /\ w \in Wallets
    BY <1>1 DEF Granted
  <2>4. lockedBy[w] = d /\ copy[d][w] = balance[w] + IF pc[d] = "commit"
                                                       THEN B!Delta(req[d], w) ELSE 0
    BY <2>2, <2>3 DEF LedgerInv, LocksProtectCopies
  <2>5. w \notin RowsToLock(req[c])
    <3>1. w \in RowsToLock(req[c]) => w \in Granted(c)
      BY <1>2, <2>3 DEF Granted
    <3>2. w \in Granted(c) => lockedBy[w] = c
      BY <1>1 DEF LedgerInv, LocksProtectCopies
    <3> QED
      BY <2>1, <2>4, <3>1, <3>2
  <2>6. balance'[w] = balance[w]
    BY <2>3, <2>5 DEF Commit
  <2>7. lockedBy'[w] = d
    BY <1>1, <2>1, <2>3, <2>4 DEF Released
  <2> QED
    BY <1>1, <1>5, <2>1, <2>4, <2>6, <2>7
<1>8. BalanceMatchesLedger'
  <2> SUFFICES ASSUME NEW w \in Wallets
               PROVE  balance'[w] = LedgerBalance(ledger', w)
    BY DEF BalanceMatchesLedger
  <2>1. ledger \in Seq(EntryRow) /\ Append(ledger, Entry(c, 1)) \in Seq(EntryRow)
    BY <1>1, <1>3 DEF TypeOK
  <2>2. LedgerBalance(ledger', w)
          = LedgerBalance(Append(ledger, Entry(c, 1)), w) + Contribution(Entry(c, 2), w)
    BY <1>1, <1>3, <2>1, AppendMovesBalance
  <2>3. LedgerBalance(Append(ledger, Entry(c, 1)), w)
          = LedgerBalance(ledger, w) + Contribution(Entry(c, 1), w)
    BY <1>3, <2>1, AppendMovesBalance
  <2>4. /\ Contribution(Entry(c, 1), w) \in Int /\ Contribution(Entry(c, 2), w) \in Int
        /\ Contribution(Entry(c, 1), w) + Contribution(Entry(c, 2), w) = B!Delta(req[c], w)
    BY <1>1, <1>2, LegsAddUp
  <2>5. balance[w] = LedgerBalance(ledger, w) /\ balance[w] \in Int
    BY <1>1, BalancesAreInts DEF LedgerInv, BalanceMatchesLedger
  <2>6. balance'[w] = balance[w] + B!Delta(req[c], w)
    BY CommitMoves
  <2> HIDE DEF LedgerInv
  <2> QED
    BY <2>2, <2>3, <2>4, <2>5, <2>6
<1> QED
  BY <1>4, <1>6, <1>7, <1>8 DEF LedgerInv

(* Every step of every handler preserves the invariant.                    *)
LEMMA NextKeeps == LedgerInv /\ [Next]_vars => LedgerInv'
<1> SUFFICES ASSUME LedgerInv, [Next]_vars PROVE LedgerInv'
  OBVIOUS
<1>1. CASE UNCHANGED vars
  BY <1>1 DEF vars, session, committed, LedgerInv, TypeOK, SessionsConsistent,
              LocksProtectCopies, BalanceMatchesLedger, Granted, InFlight
<1>2. ASSUME NEW c \in Calls, Step(c) \/ Fault(c) PROVE LedgerInv'
  <2>0. TypeOK /\ nextSeq \in Nat
    BY DEF LedgerInv, TypeOK
  <2>1. CASE Arrive(c)
    BY <2>1, ArriveKeeps
  <2>2. CASE RejectSelfTransfer(c)
    BY <2>0, <2>2, AnswerShapes, CloseKeeps DEF RejectSelfTransfer
  <2>3. CASE CheckKey(c)
    BY <2>3, CheckKeyKeeps
  <2>4. CASE Replay(c)
    <3>1. PICK t \in SameKey(c) :
            Close(c, IF req[c].wallet \in Wallets THEN Ok(t, balance[req[c].wallet])
                                                  ELSE Failed("Unhandled"), "done")
      BY <2>4 DEF Replay
    <3>2. t \in Calls
      BY <2>0 DEF SameKey, TypeOK
    <3> DEFINE a == IF req[c].wallet \in Wallets THEN Ok(t, balance[req[c].wallet])
                                                 ELSE Failed("Unhandled")
    <3>3. a \in AnswerRow
      BY <2>0, <3>2, AnswerShapes
    <3>4. nextSeq' \in Nat
      BY <2>0, <2>4 DEF Replay
    <3> QED
      BY <3>1, <3>3, <3>4, CloseKeeps
  <2>5. CASE LockRow(c)
    BY <2>5, LockRowKeeps
  <2>6. CASE SkipMissingRow(c)
    BY <2>6, SkipMissingRowKeeps
  <2>7. CASE Reject(c)
    <3>1. Failed(Error(c)) \in AnswerRow
      BY <2>0, <2>7, ErrorNames, AnswerShapes DEF Reject
    <3> QED
      BY <2>0, <2>7, <3>1, CloseKeeps DEF Reject
  <2>8. CASE OpenTransaction(c)
    BY <2>8, OpenTransactionKeeps
  <2>9. CASE KeyConflict(c)
    BY <2>0, <2>9, AnswerShapes, CloseKeeps DEF KeyConflict
  <2>10. CASE WriteRows(c)
    BY <2>10, WriteRowsKeeps
  <2>11. CASE WriteOutOfRange(c)
    BY <2>0, <2>11, AnswerShapes, CloseKeeps DEF WriteOutOfRange
  <2>12. CASE Commit(c)
    BY <2>12, CommitKeeps
  <2>13. CASE Refresh(c)
    <3>1. req[c].wallet \in Wallets
      BY <2>13 DEF Refresh, LedgerInv, SessionsConsistent, RowsToLock
    <3> QED
      BY <2>0, <2>13, <3>1, AnswerShapes, CloseKeeps DEF Refresh
  <2>14. CASE Crash(c)
    BY <2>0, <2>14, AnswerShapes, CloseKeeps DEF Crash
  <2>15. CASE LoseConnection(c)
    BY <2>0, <2>15, AnswerShapes, CloseKeeps DEF LoseConnection
  <2> QED
    BY <1>2, <2>1, <2>2, <2>3, <2>4, <2>5, <2>6, <2>7, <2>8, <2>9, <2>10, <2>11, <2>12,
       <2>13, <2>14, <2>15 DEF Step, Fault
<1> QED
  BY <1>1, <1>2 DEF Next

(* The inductive invariant holds in every reachable state.                 *)
THEOREM LedgerInvariant == Spec => []LedgerInv
<1>1. Init => LedgerInv
  BY InitEstablishes
<1>2. LedgerInv /\ [Next]_vars => LedgerInv'
  BY NextKeeps
<1> QED
  BY <1>1, <1>2, PTL DEF Spec

(* Every stored value has its column's type; balances never overflow.      *)
THEOREM TypeCorrect == Spec => []TypeOK
<1>1. LedgerInv => TypeOK
  BY DEF LedgerInv
<1> QED
  BY <1>1, LedgerInvariant, PTL

(* The cached balance of every wallet is the sum of its ledger rows, with  *)
(* any number of concurrent deposits, transfers and withdrawals.           *)
THEOREM BalancesAreLedgerSums == Spec => []BalanceMatchesLedger
<1>1. LedgerInv => BalanceMatchesLedger
  BY DEF LedgerInv
<1> QED
  BY <1>1, LedgerInvariant, PTL

(* A handler's copies of the rows it locked are never stale.               *)
THEOREM CopiesStayFresh == Spec => []LocksProtectCopies
<1>1. LedgerInv => LocksProtectCopies
  BY DEF LedgerInv
<1> QED
  BY <1>1, LedgerInvariant, PTL
=============================================================================
