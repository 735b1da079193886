--------------------------- MODULE AccountsProofs ---------------------------
(***************************************************************************)
(* Theorems about Accounts for any number of concurrent registrations,     *)
(* logins and wallet creations.  The argument: the key of a request no     *)
(* longer changes once it looks for it, the INSERT waits for uncommitted   *)
(* rivals and fails on committed ones, and a request that found no row     *)
(* with its key can only fail on a row committed after it looked.          *)
(***************************************************************************)
EXTENDS Accounts, TLAPS

USE AccountsAssumption

(* Where a handler stands says what it has done and that its client waits. *)
PlaceTellsOutcome ==
    \A c \in Calls :
       /\ c \in rows => pc[c] \in {"respond", "done", "crashed"}
       /\ pc[c] = "respond" => c \in rows
       /\ pc[c] # "done" => answer[c] = NoAnswer
       /\ pc[c] \in {"check", "insert", "commit", "respond"} =>
             Op(c) \in Creating /\ (Op(c) = "create_wallet" => owner[c] \in Users)

(* Who is about to INSERT found no row with its key.                       *)
CheckedFree ==
    \A c \in Calls : pc[c] = "insert" =>
       \A d \in atCheck[c] : ~(Op(d) = Op(c) /\ Key(d) = Key(c))

(* The inductive invariant of the module.                                  *)
AccountsInv ==
    /\ TypeOK /\ rows \subseteq Calls
    /\ PlaceTellsOutcome /\ CheckedFree
    /\ OneRowPerKey /\ AnswersTruthful /\ ServerErrorNeedsRace

(* A user is never mistaken for a wallet.                                  *)
LEMMA KeysTellTables ==
    ASSUME NEW c, NEW d, Op(c) \in Creating, Op(d) \in Creating, Op(c) # Op(d)
    PROVE  Key(c) # Key(d)
  BY DEF Creating, Key

(* Only creating requests have rows.                                       *)
LEMMA RowsAreCreated ==
    ASSUME TypeOK, NEW c \in rows
    PROVE  Op(c) \in Creating
  BY DEF TypeOK, Users, Wallets, Creating

(* The initial state satisfies the invariant.                              *)
LEMMA AccountsInit == Init => AccountsInv
<1> SUFFICES ASSUME Init PROVE AccountsInv
  OBVIOUS
<1>1. rows = {} /\ \A c \in Calls : pc[c] = "idle" /\ answer[c] = NoAnswer
  BY DEF Init
<1>2. TypeOK
  <2>1. NoAnswer \in [status : {0, 200, 201, 401, 409, 500}, sub : Calls \cup {BadToken}]
    BY DEF NoAnswer
  <2> QED
    BY <2>1 DEF Init, TypeOK, Users, Wallets
<1>3. PlaceTellsOutcome /\ CheckedFree /\ AnswersTruthful
  BY <1>1 DEF PlaceTellsOutcome, CheckedFree, AnswersTruthful
<1>4. OneRowPerKey
  BY <1>1 DEF OneRowPerKey, InFlight
<1>5. ServerErrorNeedsRace
  BY <1>1 DEF ServerErrorNeedsRace, NoAnswer
<1> QED
  BY <1>1, <1>2, <1>3, <1>4, <1>5 DEF AccountsInv

(* The shape of a response.                                                *)
AnswerRow == [status : {0, 200, 201, 401, 409, 500}, sub : Calls \cup {BadToken}]

(* A step that commits nothing and leaves every key alone.                 *)
LEMMA NoCommitKeeps ==
    ASSUME AccountsInv, NEW c \in Calls,
           UNCHANGED <<req, owner, rows>>,
           pc' \in [Calls -> {"idle", "check", "insert", "commit", "respond", "done", "crashed"}],
           answer' \in [Calls -> AnswerRow],
           atCheck' \in [Calls -> SUBSET rows],
           \A d \in Calls \ {c} : /\ pc'[d] = pc[d] /\ answer'[d] = answer[d]
                                  /\ atCheck'[d] = atCheck[d],
           c \in rows => pc'[c] \in {"respond", "done", "crashed"},
           pc'[c] = "respond" => c \in rows,
           pc'[c] # "done" => answer'[c] = NoAnswer,
           pc'[c] \in {"check", "insert", "commit", "respond"} =>
              Op(c) \in Creating /\ (Op(c) = "create_wallet" => owner[c] \in Users),
           pc'[c] = "insert" => \A d \in atCheck'[c] : ~(Op(d) = Op(c) /\ Key(d) = Key(c)),
           pc'[c] = "commit" => /\ Taken(c) = {}
                                /\ \A d \in Calls \ {c} : InFlight(d) => Key(d) # Key(c),
           pc'[c] = "done" /\ Op(c) \in Creating =>
              /\ answer'[c].status = 201 <=> c \in rows
              /\ answer'[c].status = 409 => Taken(c) # {},
           answer'[c].status = 500 /\ Fits(c) => Taken(c) \ atCheck'[c] # {}
    PROVE  AccountsInv'
<1>1. TypeOK' /\ rows' \subseteq Calls
  BY DEF AccountsInv, TypeOK, AnswerRow, Users, Wallets, Op
<1>2. \A x, y : Key(x)' = Key(x) /\ Op(x)' = Op(x) /\ Taken(x)' = Taken(x) /\ Fits(x)' = Fits(x)
  BY DEF Key, Op, Taken, Fits
<1>3. Users' = Users
  BY DEF Users, Op
<1>4. PlaceTellsOutcome'
  BY <1>2, <1>3 DEF AccountsInv, PlaceTellsOutcome
<1>5. CheckedFree'
  BY <1>2 DEF AccountsInv, CheckedFree
<1>6. OneRowPerKey'
  <2>1. ASSUME NEW d \in Calls \ {c}, pc'[c] = "commit", d \in rows \/ InFlight(d)
        PROVE  Key(c) # Key(d)
    <3>1. CASE InFlight(d)
      BY <2>1, <3>1
    <3>2. CASE d \in rows /\ Op(d) = Op(c)
      BY <2>1, <3>2 DEF Taken
    <3>3. CASE d \in rows /\ Op(d) # Op(c)
      BY <2>1, <3>3, KeysTellTables, RowsAreCreated DEF AccountsInv
    <3> QED
      BY <2>1, <3>1, <3>2, <3>3
  <2> SUFFICES ASSUME NEW x \in Calls, NEW y \in Calls, x # y,
                      x \in rows \/ InFlight(x)', y \in rows \/ InFlight(y)'
               PROVE  Key(x) # Key(y)
    BY <1>2 DEF OneRowPerKey
  <2>2. \A d \in Calls \ {c} : InFlight(d)' <=> InFlight(d)
    BY DEF InFlight
  <2>3. InFlight(c)' <=> pc'[c] = "commit"
    BY DEF InFlight
  <2>4. CASE (x = c \/ y = c) /\ pc'[c] = "commit"
    BY <2>1, <2>2, <2>4
  <2>5. CASE (x # c /\ y # c) \/ pc'[c] # "commit"
    BY <2>2, <2>3, <2>5 DEF AccountsInv, OneRowPerKey
  <2> QED
    BY <2>4, <2>5
<1>7. AnswersTruthful'
  BY <1>2 DEF AccountsInv, AnswersTruthful
<1>8. ServerErrorNeedsRace'
  BY <1>2 DEF AccountsInv, ServerErrorNeedsRace
<1> QED
  BY <1>1, <1>4, <1>5, <1>6, <1>7, <1>8 DEF AccountsInv

(* A response to c, with no row and no look-up of its own changed.         *)
LEMMA RespondKeeps ==
    ASSUME AccountsInv, NEW c \in Calls,
           NEW status \in {200, 201, 401, 409, 500}, NEW sub \in Calls \cup {BadToken},
           Respond(c, status, sub), UNCHANGED <<req, owner, rows>>,
           atCheck' \in [Calls -> SUBSET rows],
           \A d \in Calls \ {c} : atCheck'[d] = atCheck[d],
           Op(c) \in Creating => (status = 201 <=> c \in rows),
           status = 409 => Taken(c) # {},
           status = 500 /\ Fits(c) => Taken(c) \ atCheck'[c] # {}
    PROVE  AccountsInv'
<1>1. /\ pc' = [pc EXCEPT ![c] = "done"]
      /\ answer' = [answer EXCEPT ![c] = [status |-> status, sub |-> sub]]
  BY DEF Respond
<1>2. [status |-> status, sub |-> sub] \in AnswerRow
  BY DEF AnswerRow
<1>3. /\ pc' \in [Calls -> {"idle", "check", "insert", "commit", "respond", "done", "crashed"}]
      /\ answer' \in [Calls -> AnswerRow]
      /\ pc'[c] = "done" /\ answer'[c].status = status
      /\ \A d \in Calls \ {c} : pc'[d] = pc[d] /\ answer'[d] = answer[d]
  BY <1>1, <1>2 DEF AccountsInv, TypeOK, AnswerRow
<1> QED
  BY <1>3, NoCommitKeeps

(* A step of c that answers nobody.                                        *)
LEMMA GoOnKeeps ==
    ASSUME AccountsInv, NEW c \in Calls,
           NEW at \in {"check", "insert", "commit", "respond", "crashed"},
           pc[c] # "done", pc' = [pc EXCEPT ![c] = at], UNCHANGED <<req, owner, rows, answer>>,
           atCheck' \in [Calls -> SUBSET rows],
           \A d \in Calls \ {c} : atCheck'[d] = atCheck[d],
           c \in rows => at \in {"respond", "crashed"},
           at = "respond" => c \in rows,
           at # "crashed" =>
              Op(c) \in Creating /\ (Op(c) = "create_wallet" => owner[c] \in Users),
           at = "insert" => \A d \in atCheck'[c] : ~(Op(d) = Op(c) /\ Key(d) = Key(c)),
           at = "commit" => /\ Taken(c) = {}
                            /\ \A d \in Calls \ {c} : InFlight(d) => Key(d) # Key(c)
    PROVE  AccountsInv'
<1>1. /\ pc' \in [Calls -> {"idle", "check", "insert", "commit", "respond", "done", "crashed"}]
      /\ pc'[c] = at /\ \A d \in Calls \ {c} : pc'[d] = pc[d]
  BY DEF AccountsInv, TypeOK
<1>2. answer[c] = NoAnswer /\ answer[c].status = 0 /\ answer' \in [Calls -> AnswerRow]
  BY DEF AccountsInv, TypeOK, PlaceTellsOutcome, NoAnswer, AnswerRow
<1> QED
  BY <1>1, <1>2, NoCommitKeeps

(* The token of a create_wallet request fixes the owner, before the        *)
(* request has looked for its key.                                         *)
LEMMA OwnerKeeps ==
    ASSUME AccountsInv, NEW c \in Calls, NEW sub \in Users,
           pc[c] = "idle", Op(c) = "create_wallet",
           owner' = [owner EXCEPT ![c] = sub], pc' = [pc EXCEPT ![c] = "check"],
           UNCHANGED <<req, answer, rows, atCheck>>
    PROVE  AccountsInv'
<1>1. c \notin rows /\ answer[c] = NoAnswer /\ answer[c].status = 0 /\ ~InFlight(c) /\ sub \in Calls
  BY DEF AccountsInv, PlaceTellsOutcome, InFlight, NoAnswer, Users
<1>2. /\ pc'[c] = "check" /\ owner'[c] = sub
      /\ \A d \in Calls \ {c} : pc'[d] = pc[d] /\ owner'[d] = owner[d]
  BY DEF AccountsInv, TypeOK
<1>3. \A x : Op(x)' = Op(x) /\ Fits(x)' = Fits(x)
  BY DEF Op, Fits
<1>4. Users' = Users /\ Wallets' = Wallets /\ Users \subseteq Calls /\ Wallets \subseteq Calls \ {c}
  BY <1>1 DEF Users, Wallets, Op, AccountsInv
<1>5. TypeOK'
  <2>1. owner' \in [Calls -> Calls \cup {BadToken}]
    BY <1>1 DEF AccountsInv, TypeOK
  <2>2. \A w \in Wallets : owner'[w] \in Users
    BY <1>2, <1>4 DEF AccountsInv, TypeOK
  <2>3. pc' \in [Calls -> {"idle", "check", "insert", "commit", "respond", "done", "crashed"}]
    BY DEF AccountsInv, TypeOK
  <2> QED
    BY <1>4, <2>1, <2>2, <2>3 DEF AccountsInv, TypeOK
<1>6. \A d \in Calls \ {c} : Key(d)' = Key(d)
  BY <1>2 DEF Key, Op
<1>7. \A d \in Calls \ {c} : Taken(d)' = Taken(d)
  BY <1>1, <1>3, <1>6 DEF Taken, AccountsInv
<1>8. PlaceTellsOutcome'
  BY <1>1, <1>2, <1>3, <1>4 DEF AccountsInv, PlaceTellsOutcome, Creating
<1>9. CheckedFree'
  <2> SUFFICES ASSUME NEW x \in Calls, pc'[x] = "insert", NEW d \in atCheck[x]
               PROVE  ~(Op(d)' = Op(x)' /\ Key(d)' = Key(x)')
    BY DEF CheckedFree
  <2>1. x # c /\ pc[x] = "insert" /\ d \in rows /\ d \in Calls \ {c}
    BY <1>1, <1>2 DEF AccountsInv, TypeOK
  <2> QED
    BY <1>3, <1>6, <2>1 DEF AccountsInv, CheckedFree
<1>10. OneRowPerKey'
  <2>1. \A d \in Calls : d \in rows \/ InFlight(d)' => d # c /\ (d \in rows \/ InFlight(d))
    BY <1>1, <1>2 DEF InFlight
  <2> QED
    BY <1>6, <2>1 DEF AccountsInv, OneRowPerKey
<1>11. AnswersTruthful' /\ ServerErrorNeedsRace'
  BY <1>1, <1>2, <1>3, <1>7 DEF AccountsInv, AnswersTruthful, ServerErrorNeedsRace
<1> QED
  BY <1>5, <1>8, <1>9, <1>10, <1>11 DEF AccountsInv

(* COMMIT: the row whose key was claimed by the INSERT.                    *)
LEMMA CommitKeeps ==
    ASSUME AccountsInv, NEW c \in Calls, Commit(c)
    PROVE  AccountsInv'
<1>1. /\ pc[c] = "commit" /\ rows' = rows \cup {c} /\ pc' = [pc EXCEPT ![c] = "respond"]
      /\ UNCHANGED <<req, owner, answer, atCheck>>
  BY DEF Commit
<1>2. pc'[c] = "respond" /\ \A d \in Calls \ {c} : pc'[d] = pc[d]
  BY <1>1 DEF AccountsInv, TypeOK
<1>3. /\ InFlight(c) /\ c \notin rows /\ answer[c] = NoAnswer /\ Op(c) \in Creating
      /\ Op(c) = "create_wallet" => owner[c] \in Users
  BY <1>1 DEF AccountsInv, PlaceTellsOutcome, InFlight
<1>4. \A x : Op(x)' = Op(x) /\ Fits(x)' = Fits(x) /\ Key(x)' = Key(x) /\ Taken(x) \subseteq Taken(x)'
  BY <1>1 DEF Op, Fits, Key, Taken
<1>5. Users \subseteq Users'
  BY <1>1 DEF Users, Op
<1>6. TypeOK' /\ rows' \subseteq Calls
  <2>1. rows' = Users' \cup Wallets'
    BY <1>1, <1>3 DEF AccountsInv, TypeOK, Users, Wallets, Op, Creating
  <2>2. ASSUME NEW w \in Wallets' PROVE owner[w] \in Users'
    <3>1. CASE w = c
      BY <1>3, <1>4, <1>5, <2>2, <3>1 DEF Wallets
    <3>2. CASE w # c
      <4>1. w \in Wallets
        BY <1>1, <1>4, <2>2, <3>2 DEF Wallets
      <4> QED
        BY <1>5, <4>1 DEF AccountsInv, TypeOK
    <3> QED
      BY <3>1, <3>2
  <2>3. atCheck' \in [Calls -> SUBSET rows']
    BY <1>1 DEF AccountsInv, TypeOK
  <2> QED
    BY <1>1, <2>1, <2>2, <2>3 DEF AccountsInv, TypeOK
<1>7. PlaceTellsOutcome'
  BY <1>1, <1>2, <1>3, <1>4, <1>5 DEF AccountsInv, PlaceTellsOutcome
<1>8. CheckedFree'
  BY <1>1, <1>2, <1>4 DEF AccountsInv, CheckedFree
<1>9. OneRowPerKey'
  <2>1. \A d \in Calls : d \in rows' \/ InFlight(d)' => d \in rows \/ InFlight(d)
    BY <1>1, <1>2, <1>3 DEF InFlight
  <2> QED
    BY <1>4, <2>1 DEF AccountsInv, OneRowPerKey
<1>10. AnswersTruthful' /\ ServerErrorNeedsRace'
  BY <1>1, <1>2, <1>4 DEF AccountsInv, AnswersTruthful, ServerErrorNeedsRace
<1> QED
  BY <1>6, <1>7, <1>8, <1>9, <1>10 DEF AccountsInv

(* A login changes nothing but its own answer.                             *)
LEMMA LoginKeeps ==
    ASSUME AccountsInv, NEW c \in Calls, login(c)
    PROVE  AccountsInv'
<1>1. /\ Op(c) = "login" /\ UNCHANGED <<req, owner, rows, atCheck>>
      /\ \/ \E u \in Authenticated(c) : Respond(c, 200, u)
         \/ Respond(c, 401, BadToken)
  BY DEF login, Fail
<1>2. Authenticated(c) \subseteq Calls
  BY DEF Authenticated, Users, AccountsInv
<1>3. Op(c) \notin Creating /\ atCheck' \in [Calls -> SUBSET rows]
  BY <1>1 DEF Creating, AccountsInv, TypeOK
<1> QED
  BY <1>1, <1>2, <1>3, RespondKeeps

(* A request with a token is refused, answered, or goes on as its owner.   *)
LEMMA TokenKeeps ==
    ASSUME AccountsInv, NEW c \in Calls, get_current_user(c)
    PROVE  AccountsInv'
<1>1. /\ pc[c] = "idle" /\ UNCHANGED <<req, rows, atCheck>>
      /\ c \notin rows /\ atCheck' \in [Calls -> SUBSET rows]
  BY DEF get_current_user, AccountsInv, PlaceTellsOutcome, TypeOK
<1>2. PICK sub \in Issued \cup {BadToken} :
          \/ Respond(c, 401, BadToken) /\ UNCHANGED owner
          \/ /\ Known(sub) /\ Op(c) = "create_wallet"
             /\ owner' = [owner EXCEPT ![c] = sub]
             /\ pc' = [pc EXCEPT ![c] = "check"]
             /\ UNCHANGED answer
          \/ Known(sub) /\ Op(c) = "read_me" /\ Respond(c, 200, sub) /\ UNCHANGED owner
  BY DEF get_current_user, Fail
<1>3. Known(sub) => sub \in Users /\ sub \in Calls
  BY DEF Known, Users, AccountsInv
<1>4. CASE Respond(c, 401, BadToken) /\ UNCHANGED owner
  BY <1>1, <1>4, RespondKeeps
<1>5. CASE /\ Known(sub) /\ Op(c) = "create_wallet"
           /\ owner' = [owner EXCEPT ![c] = sub]
           /\ pc' = [pc EXCEPT ![c] = "check"]
           /\ UNCHANGED answer
  BY <1>1, <1>3, <1>5, OwnerKeeps
<1>6. CASE Known(sub) /\ Op(c) = "read_me" /\ Respond(c, 200, sub) /\ UNCHANGED owner
  <2>1. Op(c) \notin Creating
    BY <1>6 DEF Creating
  <2> QED
    BY <1>1, <1>3, <1>6, <2>1, RespondKeeps
<1> QED
  BY <1>2, <1>4, <1>5, <1>6

(* The look-up: a 409 with a row to show for it, or on to the INSERT.      *)
LEMMA CheckKeeps ==
    ASSUME AccountsInv, NEW c \in Calls, Check(c)
    PROVE  AccountsInv'
<1>1. /\ atCheck' = [atCheck EXCEPT ![c] = rows] /\ UNCHANGED <<req, owner, rows>>
      /\ pc[c] = "check" \/ (pc[c] = "idle" /\ Op(c) = "register")
  BY DEF Check
<1>2. /\ atCheck' \in [Calls -> SUBSET rows] /\ atCheck'[c] = rows
      /\ \A d \in Calls \ {c} : atCheck'[d] = atCheck[d]
  BY <1>1 DEF AccountsInv, TypeOK
<1>3. /\ c \notin rows /\ Op(c) \in Creating
      /\ Op(c) = "create_wallet" => owner[c] \in Users
  BY <1>1 DEF AccountsInv, PlaceTellsOutcome, Creating
<1>4. CASE Taken(c) # {} /\ Respond(c, 409, BadToken)
  BY <1>1, <1>2, <1>3, <1>4, RespondKeeps
<1>5. CASE Taken(c) = {} /\ pc' = [pc EXCEPT ![c] = "insert"] /\ UNCHANGED answer
  <2>1. \A d \in atCheck'[c] : ~(Op(d) = Op(c) /\ Key(d) = Key(c))
    BY <1>2, <1>5 DEF Taken
  <2> QED
    BY <1>1, <1>2, <1>3, <1>5, <2>1, GoOnKeeps
<1> QED
  BY <1>4, <1>5 DEF Check, Existing, Fail

(* The INSERT claims a key nobody holds.                                   *)
LEMMA InsertKeeps ==
    ASSUME AccountsInv, NEW c \in Calls, Insert(c)
    PROVE  AccountsInv'
<1>1. /\ pc[c] = "insert" /\ pc' = [pc EXCEPT ![c] = "commit"]
      /\ UNCHANGED <<req, owner, answer, rows, atCheck>>
      /\ Taken(c) = {} /\ \A d \in Calls \ {c} : InFlight(d) => Key(d) # Key(c)
  BY DEF Insert
<1>2. /\ c \notin rows /\ Op(c) \in Creating /\ (Op(c) = "create_wallet" => owner[c] \in Users)
      /\ atCheck' \in [Calls -> SUBSET rows]
  BY <1>1 DEF AccountsInv, PlaceTellsOutcome, TypeOK
<1> QED
  BY <1>1, <1>2, GoOnKeeps

(* A refused INSERT: the rival committed after the look-up.                *)
LEMMA InsertFailsKeeps ==
    ASSUME AccountsInv, NEW c \in Calls, InsertFails(c)
    PROVE  AccountsInv'
<1>1. /\ pc[c] = "insert" /\ Respond(c, 500, BadToken) /\ (~Fits(c) \/ Taken(c) # {})
      /\ UNCHANGED <<req, owner, rows, atCheck>>
  BY DEF InsertFails, Fail
<1>2. c \notin rows /\ atCheck' \in [Calls -> SUBSET rows]
  BY <1>1 DEF AccountsInv, PlaceTellsOutcome, TypeOK
<1>3. \A d \in Taken(c) : d \notin atCheck[c]
  BY <1>1 DEF AccountsInv, CheckedFree, Taken
<1>4. Fits(c) => Taken(c) \ atCheck'[c] # {}
  BY <1>1, <1>3
<1> QED
  BY <1>1, <1>2, <1>4, RespondKeeps

(* A created row is answered for, or its answer is lost with the process.  *)
LEMMA EndKeeps ==
    ASSUME AccountsInv, NEW c \in Calls, Created(c) \/ Crash(c)
    PROVE  AccountsInv'
<1>1. UNCHANGED <<req, owner, rows, atCheck>> /\ atCheck' \in [Calls -> SUBSET rows]
  BY DEF Created, Crash, AccountsInv, TypeOK
<1>2. CASE Created(c)
  <2>1. Respond(c, 201, BadToken) /\ c \in rows
    BY <1>2 DEF Created, Fail, AccountsInv, PlaceTellsOutcome
  <2> QED
    BY <1>1, <2>1, RespondKeeps
<1>3. CASE Crash(c)
  <2>1. pc[c] # "done" /\ pc' = [pc EXCEPT ![c] = "crashed"] /\ UNCHANGED answer
    BY <1>3 DEF Crash
  <2> QED
    BY <1>1, <2>1, GoOnKeeps
<1> QED
  BY <1>2, <1>3

(* The invariant holds however the requests interleave.                    *)
THEOREM AccountsInvariant == Spec => []AccountsInv
<1>1. Init => AccountsInv
  BY AccountsInit
<1>2. AccountsInv /\ [Next]_vars => AccountsInv'
  <2> SUFFICES ASSUME AccountsInv, [Next]_vars PROVE AccountsInv'
    OBVIOUS
  <2>1. CASE UNCHANGED vars
    <3>1. UNCHANGED <<pc, req, owner, answer, rows, atCheck>>
      BY <2>1 DEF vars
    <3>2. \A x : /\ Op(x)' = Op(x) /\ Key(x)' = Key(x) /\ Taken(x)' = Taken(x)
                 /\ Fits(x)' = Fits(x) /\ InFlight(x)' = InFlight(x)
      BY <3>1 DEF Op, Key, Taken, Fits, InFlight
    <3>3. Users' = Users /\ Wallets' = Wallets
      BY <3>1 DEF Users, Wallets, Op
    <3> QED
      BY <3>1, <3>2, <3>3 DEF AccountsInv, TypeOK, PlaceTellsOutcome, CheckedFree,
         OneRowPerKey, AnswersTruthful, ServerErrorNeedsRace
  <2>2. ASSUME NEW c \in Calls, Step(c) \/ Crash(c) PROVE AccountsInv'
    BY <2>2, LoginKeeps, TokenKeeps, CheckKeeps, InsertKeeps, InsertFailsKeeps, CommitKeeps,
       EndKeeps DEF Step
  <2> QED
    BY <2>1, <2>2 DEF Next
<1> QED
  BY <1>1, <1>2, PTL DEF Spec

(* Sessions, answers and tables keep their shape, and every wallet belongs *)
(* to a committed user.                                                    *)
THEOREM AccountsAreTyped == Spec => []TypeOK
<1>1. AccountsInv => TypeOK
  BY DEF AccountsInv
<1> QED
  BY <1>1, AccountsInvariant, PTL

(* No interleaving of look-up and INSERT gives an address two users, or a  *)
(* user two wallets in one currency.                                       *)
THEOREM KeysAreUnique == Spec => []OneRowPerKey
<1>1. AccountsInv => OneRowPerKey
  BY DEF AccountsInv
<1> QED
  BY <1>1, AccountsInvariant, PTL

(* 201 is answered for a committed row and no other; 409 for a taken key.  *)
THEOREM CreationAnswersAreTruthful == Spec => []AnswersTruthful
<1>1. AccountsInv => AnswersTruthful
  BY DEF AccountsInv
<1> QED
  BY <1>1, AccountsInvariant, PTL

(* A 500 for a duplicate needs a rival that committed between the look-up  *)
(* and the INSERT.                                                         *)
THEOREM ServerErrorsAreRaces == Spec => []ServerErrorNeedsRace
<1>1. AccountsInv => ServerErrorNeedsRace
  BY DEF AccountsInv
<1> QED
  BY <1>1, AccountsInvariant, PTL

(* Whoever was told 201 for a registration logs in with the address that   *)
(* answer shows and the password it was made with.                         *)
THEOREM ConfirmedUsersLogIn == Spec => RegisteredCanLogIn
<1> DEFINE LogsIn == \A c, u \in Calls :
         /\ Op(u) = "register" /\ answer[u].status = 201
         /\ Op(c) = "login" /\ pc[c] = "idle" /\ pc'[c] = "done"
         /\ req[c].email = Normal[req[u].email] /\ req[c].password = req[u].password
         => answer'[c].status = 200
<1>1. AccountsInv /\ [Next]_vars => [LogsIn]_vars
  <2> SUFFICES ASSUME AccountsInv, Next,
                      NEW c \in Calls, NEW u \in Calls,
                      Op(u) = "register", answer[u].status = 201,
                      Op(c) = "login", pc[c] = "idle", pc'[c] = "done",
                      req[c].email = Normal[req[u].email], req[c].password = req[u].password
               PROVE  answer'[c].status = 200
    BY DEF LogsIn
  <2>1. PICK d \in Calls : Step(d) \/ Crash(d)
    BY DEF Next
  <2>2. d = c
    <3>1. \A x : pc' = [pc EXCEPT ![d] = x] => (d # c => pc'[c] = pc[c])
      BY DEF AccountsInv, TypeOK
    <3> QED
      BY <2>1, <3>1 DEF Step, login, get_current_user, Check, Insert, InsertFails, Commit,
         Created, Crash, Fail, Respond
  <2>3. login(c)
    BY <2>1, <2>2 DEF Step, get_current_user, Check, Insert, InsertFails, Commit, Created, Crash
  <2>4. u \in rows
    BY DEF AccountsInv, PlaceTellsOutcome, AnswersTruthful, NoAnswer, Creating
  <2>5. u \in Authenticated(c)
    BY <2>4 DEF Authenticated, Users, Key
  <2>6. PICK v \in Authenticated(c) : Respond(c, 200, v)
    BY <2>3, <2>5 DEF login
  <2> QED
    BY <2>6 DEF Respond, AccountsInv, TypeOK
<1> QED
  BY <1>1, AccountsInvariant, PTL DEF Spec, RegisteredCanLogIn
=============================================================================
