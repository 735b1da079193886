------------------------------ MODULE Accounts ------------------------------
(***************************************************************************)
(* Users, logins and wallets: UserService.register and .authenticate,      *)
(* get_current_user and WalletService.create_wallet, each request in its   *)
(* own session under READ COMMITTED.  Both creating handlers look for a    *)
(* row with their key first and INSERT later; between the two another      *)
(* request may do the same, and only the unique index decides.             *)
(*                                                                         *)
(* A request creates at most one row, so the call names the row; the key   *)
(* of a row is what its unique index is over.  A token is known by its     *)
(* subject, the id of a user.                                              *)
(***************************************************************************)
EXTENDS FiniteSets

CONSTANTS
    Calls,        \* the HTTP requests being handled
    Requests,     \* what a client may ask for
    Scripts,      \* which call asks for what: functions from Calls to Requests
    Emails,       \* what a client may type as an e-mail address
    Normal,       \* EmailStr on them: the domain in lower case
    Passwords,
    CurrencyText, \* what a client may type as a currency
    Upper,        \* str.upper() on them
    Storable,     \* upper-case currencies that fit VARCHAR(3)
    BadToken      \* a token that is expired, forged or names no UUID

VARIABLES
    pc,      \* where each call stands in its handler
    req,     \* the request each call handles
    owner,   \* current_user.id of a create_wallet call
    answer,  \* the HTTP response: status and, after a login, the token's subject
    rows,    \* users and wallets, committed
    atCheck  \* rows committed when the call looked for its key

vars == <<pc, req, owner, answer, rows, atCheck>>

Creating == {"register", "create_wallet"}
RequestType ==
    [op : {"register", "login"}, email : Emails, password : Passwords]
    \cup [op : {"create_wallet"}, currency : CurrencyText] \cup [op : {"read_me"}]

ASSUME AccountsAssumption ==
    /\ Requests \subseteq RequestType
    /\ Scripts \subseteq [Calls -> Requests]
    /\ Normal \in [Emails -> Emails] /\ \A e \in Emails : Normal[Normal[e]] = Normal[e]
    /\ BadToken \notin Calls
-----------------------------------------------------------------------------
Op(c)    == req[c].op
Users    == {c \in rows : Op(c) = "register"}
Wallets  == {c \in rows : Op(c) = "create_wallet"}
NoAnswer == [status |-> 0, sub |-> BadToken]

(* The unique indexes: users.email, and wallets (user_id, currency).       *)
Key(c) == IF Op(c) = "register" THEN <<"users", Normal[req[c].email]>>
          ELSE <<"wallets", owner[c], Upper[req[c].currency]>>

(* Committed rows that hold c's key.                                       *)
Taken(c) == {d \in rows : Op(d) = Op(c) /\ Key(d) = Key(c)}

(* Mutation: the currency is looked up as it was typed.                    *)
BugExisting(c) ==
    IF Op(c) = "register" THEN Taken(c)
    ELSE {d \in Wallets : Key(d) = <<"wallets", owner[c], req[c].currency>>}

(* get_by_email, get_by_user_and_currency: what is committed now.          *)
Existing(c) == Taken(c)

(* authenticate: the user with the address as typed, if the password fits. *)
Authenticated(c) ==
    {u \in Users : Key(u) = <<"users", req[c].email>> /\ req[u].password = req[c].password}

(* Subjects of the tokens clients hold.                                    *)
Issued == {answer[c].sub : c \in {d \in Calls : Op(d) = "login" /\ answer[d].status = 200}}

(* Mutation: PostgreSQL never notices that a client died.                  *)
BugInFlight(c) == Op(c) \in Creating /\ pc[c] \in {"commit", "crashed"} /\ c \notin rows

(* The row is in the unique index and not yet committed.                   *)
InFlight(c) == pc[c] = "commit"

Respond(c, status, sub) ==
    /\ answer' = [answer EXCEPT ![c] = [status |-> status, sub |-> sub]]
    /\ pc' = [pc EXCEPT ![c] = "done"]
Fail(c, status) == Respond(c, status, BadToken)
-----------------------------------------------------------------------------
Init ==
    /\ pc = [c \in Calls |-> "idle"]
    /\ req \in Scripts
    /\ owner = [c \in Calls |-> BadToken]
    /\ answer = [c \in Calls |-> NoAnswer]
    /\ rows = {}
    /\ atCheck = [c \in Calls |-> {}]

login(c) ==
    /\ pc[c] = "idle" /\ Op(c) = "login"
    /\ \/ \E u \in Authenticated(c) : Respond(c, 200, u)
       \/ Authenticated(c) = {} /\ Fail(c, 401)
    /\ UNCHANGED <<req, owner, rows, atCheck>>

(* Mutation: a token is taken at its word.                                 *)
BugKnown(sub) == TRUE

(* The token decodes, and get_by_id finds its subject.                     *)
Known(sub) == sub # BadToken /\ sub \in Users

(* The request presents a token it was given, or a bad one.                *)
get_current_user(c) ==
    /\ pc[c] = "idle" /\ Op(c) \in {"create_wallet", "read_me"}
    /\ \E sub \in Issued \cup {BadToken} :
          \/ ~Known(sub) /\ Fail(c, 401) /\ UNCHANGED owner
          \/ /\ Known(sub) /\ Op(c) = "create_wallet"
             /\ owner' = [owner EXCEPT ![c] = sub]
             /\ pc' = [pc EXCEPT ![c] = "check"]
             /\ UNCHANGED answer
          \/ Known(sub) /\ Op(c) = "read_me" /\ Respond(c, 200, sub) /\ UNCHANGED owner
    /\ UNCHANGED <<req, rows, atCheck>>

(* Is the key taken?  If not, the handler goes on to hash and to INSERT.   *)
Check(c) ==
    /\ pc[c] = "check" \/ (pc[c] = "idle" /\ Op(c) = "register")
    /\ IF Existing(c) # {} THEN Fail(c, 409)
       ELSE pc' = [pc EXCEPT ![c] = "insert"] /\ UNCHANGED answer
    /\ atCheck' = [atCheck EXCEPT ![c] = rows]
    /\ UNCHANGED <<req, owner, rows>>

(* Mutation: the index on the key is not unique.                           *)
BugInsert(c) ==
    /\ pc[c] = "insert"
    /\ pc' = [pc EXCEPT ![c] = "commit"]
    /\ UNCHANGED <<req, owner, answer, rows, atCheck>>

Fits(c) == Op(c) = "create_wallet" => Upper[req[c].currency] \in Storable

(* create: the INSERT is flushed at once and waits for an uncommitted row  *)
(* with the same key.                                                      *)
Insert(c) ==
    /\ pc[c] = "insert"
    /\ Fits(c) /\ Taken(c) = {}
    /\ \A d \in Calls \ {c} : InFlight(d) => Key(d) # Key(c)
    /\ pc' = [pc EXCEPT ![c] = "commit"]
    /\ UNCHANGED <<req, owner, answer, rows, atCheck>>

(* Mutation: the error is taken for success.                               *)
BugInsertFails(c) ==
    /\ pc[c] = "insert"
    /\ ~Fits(c) \/ Taken(c) # {}
    /\ Fail(c, 201)
    /\ UNCHANGED <<req, owner, rows, atCheck>>

(* The index or the column refuses the row.  The error leaves create,      *)
(* which no try block surrounds: a 500, and the session is rolled back.    *)
InsertFails(c) ==
    /\ pc[c] = "insert"
    /\ ~Fits(c) \/ Taken(c) # {}
    /\ Fail(c, 500)
    /\ UNCHANGED <<req, owner, rows, atCheck>>

(* Mutation: the row is flushed and never committed.                       *)
BugCommit(c) ==
    /\ pc[c] = "commit"
    /\ pc' = [pc EXCEPT ![c] = "respond"]
    /\ UNCHANGED <<req, owner, answer, rows, atCheck>>

Commit(c) ==
    /\ pc[c] = "commit"
    /\ rows' = rows \cup {c}
    /\ pc' = [pc EXCEPT ![c] = "respond"]
    /\ UNCHANGED <<req, owner, answer, atCheck>>

(* db.refresh and the 201 with the row.                                    *)
Created(c) ==
    /\ pc[c] = "respond"
    /\ Fail(c, 201)
    /\ UNCHANGED <<req, owner, rows, atCheck>>

(* The process dies: no response, and nothing uncommitted stays.  A lost   *)
(* connection, which would be answered by a 500, is not modelled here.     *)
Crash(c) ==
    /\ pc[c] \in {"check", "insert", "commit", "respond"}
    /\ pc' = [pc EXCEPT ![c] = "crashed"]
    /\ UNCHANGED <<req, owner, answer, rows, atCheck>>

Step(c) ==
    \/ login(c) \/ get_current_user(c)
    \/ Check(c) \/ Insert(c) \/ InsertFails(c) \/ Commit(c) \/ Created(c)

Next == \E c \in Calls : Step(c) \/ Crash(c)

Spec == Init /\ [][Next]_vars

(* A started handler keeps running.                                        *)
FairSpec == Spec /\ \A c \in Calls : WF_vars(Step(c))
-----------------------------------------------------------------------------
(* Sessions, answers and the two tables keep their shape; only creating    *)
(* requests leave rows, and a wallet's owner is a committed user.          *)
TypeOK ==
    /\ pc \in [Calls -> {"idle", "check", "insert", "commit", "respond", "done", "crashed"}]
    /\ req \in Scripts
    /\ owner \in [Calls -> Calls \cup {BadToken}]
    /\ answer \in [Calls -> [status : {0, 200, 201, 401, 409, 500}, sub : Calls \cup {BadToken}]]
    /\ rows = Users \cup Wallets
    /\ \A w \in Wallets : owner[w] \in Users
    /\ atCheck \in [Calls -> SUBSET rows]

(* However registrations and wallet creations interleave, an address has   *)
(* one user and a user one wallet per currency.                            *)
OneRowPerKey ==
    \A c, d \in Calls :
       /\ c # d
       /\ c \in rows \/ InFlight(c)
       /\ d \in rows \/ InFlight(d)
       => Key(c) # Key(d)

(* What the client is told is what happened: 201 and only then the row of  *)
(* this request is there (or its response was lost), and 409 means that    *)
(* another request's row has the key.                                      *)
AnswersTruthful ==
    \A c \in Calls : pc[c] = "done" /\ Op(c) \in Creating =>
       /\ answer[c].status = 201 <=> c \in rows
       /\ answer[c].status = 409 => Taken(c) # {}

(* The unhandled 500 of a duplicate is the price of a race: some rival     *)
(* committed between this request's look-up and its INSERT.  A duplicate   *)
(* of an older row, however it is spelled, gets the 409.                   *)
ServerErrorNeedsRace ==
    \A c \in Calls : answer[c].status = 500 /\ Fits(c) => Taken(c) \ atCheck[c] # {}

(* A login that fails with the address the registration answered with and  *)
(* its password came before that registration was confirmed.               *)
RegisteredCanLogIn ==
    [][\A c, u \in Calls :
         /\ Op(u) = "register" /\ answer[u].status = 201
         /\ Op(c) = "login" /\ pc[c] = "idle" /\ pc'[c] = "done"
         /\ req[c].email = Normal[req[u].email] /\ req[c].password = req[u].password
         => answer'[c].status = 200]_vars

(* Every request is answered (or its process died): a wait for another     *)
(* session's uncommitted row ends.                                         *)
EveryCallAnswered ==
    \A c \in Calls : pc[c] = "idle" ~> pc[c] \in {"done", "crashed"}
=============================================================================
