----------------------------- MODULE Migrations -----------------------------
(***************************************************************************)
(* The Alembic revisions and the runs that apply them.  env.py puts all    *)
(* the steps of a run in one transaction: it reads alembic_version, runs   *)
(* the statements of each step and moves the version row after each.       *)
(* PostgreSQL makes that atomic, and a statement waits while another run   *)
(* has touched the same table.  The migration Job restarts what failed, so *)
(* runs overlap, with each other and with rows written by the application. *)
(***************************************************************************)
EXTENDS Integers, Sequences, SequencesExt

CONSTANTS
    Jobs,      \* processes that run alembic
    DownTo,    \* revisions a downgrade is asked for; upgrades go to the head
    MaxRuns,   \* bound on the runs started
    MaxCrashes

Tables == {"users", "wallets", "transactions", "ledger_entries",
           "outbox_events", "transaction_stats", "processed_events"}

(* Foreign keys.                                                           *)
Refs == [t \in Tables |->
    CASE t = "wallets"        -> {"users"}
      [] t = "ledger_entries" -> {"transactions", "wallets"}
      [] OTHER                -> {}]

Statement(op, t, parts, fills) ==
    [op |-> op, table |-> t, parts |-> parts, fills |-> fills]

create_table(t, parts) == Statement("create_table", t, parts, TRUE)
drop_table(t)          == Statement("drop_table", t, {}, TRUE)
create_index(t, i)     == Statement("add", t, {i}, TRUE)
drop_index(t, i)       == Statement("drop", t, {i}, TRUE)
add_column(t, c)       == Statement("add", t, {c}, TRUE)
drop_column(t, c)      == Statement("drop", t, {c}, TRUE)

(* A NOT NULL column without a default cannot be added to a table that has *)
(* rows.                                                                   *)
AddRequired(t, c)      == Statement("add", t, {c}, FALSE)

Revision(up, down) == [upgrade |-> up, downgrade |-> down]

bb91eeb72b09 == Revision(<<>>, <<>>)

u03aeff243be4 == Revision(
    << create_table("users", {"id", "name", "email", "password_hash", "created_at"}),
       create_index("users", "ix_users_email") >>,
    << drop_index("users", "ix_users_email"), drop_table("users") >>)

ace04db20b32 == Revision(
    << create_table("wallets", {"id", "user_id", "currency", "available_balance",
          "locked_balance", "created_at", "updated_at", "ck_wallet_available_nonneg",
          "ck_wallet_locked_nonneg", "uq_wallet_user_currency"}),
       create_index("wallets", "ix_wallets_user_id") >>,
    << drop_index("wallets", "ix_wallets_user_id"), drop_table("wallets") >>)

c3f9a1d72b40 == Revision(
    << create_table("transactions", {"id", "type", "status", "currency", "created_at"}),
       create_table("ledger_entries", {"id", "transaction_id", "entry_type", "amount",
          "currency", "wallet_id", "system_account", "created_at",
          "ck_ledger_amount_positive", "ck_ledger_exactly_one_side"}),
       create_index("ledger_entries", "ix_ledger_entries_transaction_id"),
       create_index("ledger_entries", "ix_ledger_entries_wallet_id") >>,
    << drop_index("ledger_entries", "ix_ledger_entries_wallet_id"),
       drop_index("ledger_entries", "ix_ledger_entries_transaction_id"),
       drop_table("ledger_entries"), drop_table("transactions") >>)

a7b8c9d0e1f2 == Revision(
    << add_column("transactions", "idempotency_key"),
       create_index("transactions", "ix_transactions_idempotency_key") >>,
    << drop_index("transactions", "ix_transactions_idempotency_key"),
       drop_column("transactions", "idempotency_key") >>)

b8c9d0e1f2a3 == Revision(
    << create_table("outbox_events", {"id", "aggregate_type", "aggregate_id",
          "event_type", "payload", "created_at", "published_at"}),
       create_index("outbox_events", "ix_outbox_events_aggregate_id"),
       create_index("outbox_events", "ix_outbox_unpublished") >>,
    << drop_index("outbox_events", "ix_outbox_unpublished"),
       drop_index("outbox_events", "ix_outbox_events_aggregate_id"),
       drop_table("outbox_events") >>)

d0e1f2a3b4c5 == Revision(
    << create_table("transaction_stats", {"currency", "type", "count", "total_amount",
          "updated_at"}),
       create_table("processed_events", {"consumer", "transaction_id", "processed_at"}) >>,
    << drop_table("processed_events"), drop_table("transaction_stats") >>)

(* Mutation: seq is not an identity column.                                *)
BugE1f2 == Revision(
    << AddRequired("ledger_entries", "seq"),
       create_index("ledger_entries", "ix_ledger_entries_seq") >>,
    << drop_index("ledger_entries", "ix_ledger_entries_seq"),
       drop_column("ledger_entries", "seq") >>)

(* The identity numbers the rows that are there.                           *)
e1f2a3b4c5d6 == Revision(
    << add_column("ledger_entries", "seq"),
       create_index("ledger_entries", "ix_ledger_entries_seq") >>,
    << drop_index("ledger_entries", "ix_ledger_entries_seq"),
       drop_column("ledger_entries", "seq") >>)

(* The chain of down_revisions.                                            *)
Chain  == << bb91eeb72b09, u03aeff243be4, ace04db20b32, c3f9a1d72b40,
             a7b8c9d0e1f2, b8c9d0e1f2a3, d0e1f2a3b4c5, e1f2a3b4c5d6 >>
Newest == Len(Chain)

(* What a statement leaves of the parts of its table.                      *)
Effect(parts, s) ==
    CASE s.op \in {"create_table", "add"} -> parts \cup s.parts
      [] s.op = "drop"                    -> parts \ s.parts
      [] s.op = "drop_table"              -> {}

Empty == [t \in Tables |-> {}]

(* The schema that the upgrades up to revision n make: none drops a thing. *)
SchemaAt(n) ==
    LET stmts == UNION {ToSet(Chain[k].upgrade) : k \in 1..n}
    IN  [t \in Tables |-> UNION {s.parts : s \in {r \in stmts : r.table = t}}]

(* What the classes of app/db/models declare.                              *)
User == {"id", "name", "email", "password_hash", "created_at", "ix_users_email"}
Wallet == {"id", "user_id", "currency", "available_balance", "locked_balance", "created_at",
    "updated_at", "uq_wallet_user_currency", "ck_wallet_available_nonneg",
    "ck_wallet_locked_nonneg", "ix_wallets_user_id"}
Transaction == {"id", "type", "status", "currency", "idempotency_key", "created_at",
    "ix_transactions_idempotency_key"}
LedgerEntry == {"id", "seq", "transaction_id", "entry_type", "amount", "currency",
    "wallet_id", "system_account", "created_at", "ck_ledger_amount_positive",
    "ck_ledger_exactly_one_side", "ix_ledger_entries_seq",
    "ix_ledger_entries_transaction_id", "ix_ledger_entries_wallet_id"}
OutboxEvent == {"id", "aggregate_type", "aggregate_id", "event_type", "payload",
    "created_at", "published_at", "ix_outbox_events_aggregate_id", "ix_outbox_unpublished"}
TransactionStat == {"currency", "type", "count", "total_amount", "updated_at"}
ProcessedEvent == {"consumer", "transaction_id", "processed_at"}

Models == [t \in Tables |->
    CASE t = "users"             -> User
      [] t = "wallets"           -> Wallet
      [] t = "transactions"      -> Transaction
      [] t = "ledger_entries"    -> LedgerEntry
      [] t = "outbox_events"     -> OutboxEvent
      [] t = "transaction_stats" -> TransactionStat
      [] t = "processed_events"  -> ProcessedEvent]
-----------------------------------------------------------------------------
ASSUME MigrationsAssumption ==
    DownTo \subseteq 0..(Newest - 1) /\ MaxRuns \in Nat /\ MaxCrashes \in Nat

VARIABLES
    schema,     \* table -> its columns, indexes and constraints, committed
    heads,      \* the rows of alembic_version, committed
    rows,       \* the tables a revision alters that hold rows
    run,        \* job -> its run: state, target, revision read, revision reached, statements left
    mine,       \* job -> the tables its transaction has touched, as it left them
    stamped,    \* jobs whose transaction has moved the version row
    overlapped, \* jobs during whose run another run committed
    runs, crashes

vars == <<schema, heads, rows, run, mine, stamped, overlapped, runs, crashes>>

Idle(how) == [state |-> how, target |-> 0, read |-> 0, at |-> 0, todo |-> <<>>]

Running(j) == run[j].state = "running"

(* The revision after r on the way to the target, and its statements.      *)
Step(r, target)  == IF r < target THEN r + 1 ELSE r - 1
Todo(r, target)  == IF r < target THEN Chain[r + 1].upgrade
                    ELSE IF r > target THEN Chain[r].downgrade ELSE <<>>

Init ==
    /\ schema = Empty /\ heads = {} /\ rows = {}
    /\ run = [j \in Jobs |-> Idle("never")]
    /\ mine = [j \in Jobs |-> <<>>]
    /\ stamped = {} /\ overlapped = {} /\ runs = 0 /\ crashes = 0

(* Mutation: the connection is not given back.                             *)
BugEnds(j, how) ==
    /\ run' = [run EXCEPT ![j] = Idle(how)]
    /\ UNCHANGED <<mine, stamped>>

(* The transaction is over and its locks with it.                          *)
Ends(j, how) ==
    /\ run' = [run EXCEPT ![j] = Idle(how)]
    /\ mine' = [mine EXCEPT ![j] = <<>>]
    /\ stamped' = stamped \ {j}

RollsBack(j, how) == Ends(j, how) /\ UNCHANGED <<schema, heads, rows, overlapped, runs>>

(* get_current_heads.                                                      *)
Current == IF heads = {} THEN 0 ELSE CHOOSE n \in heads : TRUE

(* alembic upgrade head, or alembic downgrade: the version is read and the *)
(* steps planned.  There is nothing to do at the target; a revision above  *)
(* the current one is no target for a downgrade.                           *)
Begin(j, target) ==
    /\ ~Running(j)
    /\ runs < MaxRuns /\ runs' = runs + 1
    /\ target = Newest \/ target < Current
    /\ target # Current
    /\ run' = [run EXCEPT ![j] = [state |-> "running", target |-> target, read |-> Current,
                                  at |-> Current, todo |-> Todo(Current, target)]]
    /\ overlapped' = overlapped \ {j}
    /\ UNCHANGED <<schema, heads, rows, mine, stamped, crashes>>

(* The schema as j's transaction sees it.                                  *)
View(j) == [t \in Tables |-> IF t \in DOMAIN mine[j] THEN mine[j][t] ELSE schema[t]]

Touched(s) ==
    {s.table} \cup (IF s.op \in {"create_table", "drop_table"} THEN Refs[s.table] ELSE {})

(* PostgreSQL's own conditions on a statement.                             *)
Accepted(S, s) ==
    \/ s.op = "create_table" /\ S[s.table] = {} /\ \A t \in Refs[s.table] : S[t] # {}
    \/ s.op = "drop_table" /\ S[s.table] # {}
                           /\ \A t \in Tables : s.table \in Refs[t] => S[t] = {}
    \/ s.op = "add" /\ S[s.table] # {} /\ s.parts \cap S[s.table] = {}
                    /\ (s.fills \/ s.table \notin rows)
    \/ s.op = "drop" /\ s.parts \subseteq S[s.table]

(* The runs that j's next statement, or its move of the version, waits for. *)
WaitsFor(j) ==
    IF ~Running(j) THEN {}
    ELSE IF run[j].todo # <<>>
    THEN {k \in Jobs \ {j} : Touched(Head(run[j].todo)) \cap DOMAIN mine[k] # {}}
    ELSE stamped \ {j}

Execute(j) ==
    /\ Running(j) /\ run[j].todo # <<>>
    /\ WaitsFor(j) = {}
    /\ LET s == Head(run[j].todo) IN
       IF Accepted(View(j), s)
       THEN /\ mine' = [mine EXCEPT ![j] = [t \in DOMAIN @ \cup Touched(s) |->
                            IF t = s.table THEN Effect(View(j)[t], s) ELSE View(j)[t]]]
            /\ run' = [run EXCEPT ![j].todo = Tail(@)]
            /\ UNCHANGED <<schema, heads, rows, stamped, overlapped, runs, crashes>>
       ELSE RollsBack(j, "failed") /\ UNCHANGED crashes

(* Mutation: the UPDATE of alembic_version has no WHERE clause.            *)
BugMatches(j) == TRUE

(* The version row is where the run expects it: an INSERT from the base    *)
(* needs its key free, an UPDATE or DELETE must match one row.             *)
Matches(j) ==
    \/ j \in stamped
    \/ IF run[j].read = 0 THEN 1 \notin heads ELSE run[j].read \in heads

StepEnds(j) == Running(j) /\ run[j].todo = <<>> /\ run[j].at # run[j].target

(* The end of a step moves the version row.                                *)
Stamp(j) ==
    /\ StepEnds(j)
    /\ WaitsFor(j) = {}
    /\ IF Matches(j)
       THEN /\ LET at == Step(run[j].at, run[j].target) IN
               run' = [run EXCEPT ![j].at = at, ![j].todo = Todo(at, run[j].target)]
            /\ stamped' = stamped \cup {j}
            /\ UNCHANGED <<schema, heads, rows, mine, overlapped, runs, crashes>>
       ELSE RollsBack(j, "failed") /\ UNCHANGED crashes

Commit(j) ==
    /\ Running(j) /\ run[j].todo = <<>> /\ run[j].at = run[j].target
    /\ schema' = View(j)
    /\ heads' = (heads \ {run[j].read}) \cup ({run[j].at} \ {0})
    /\ rows' = {t \in rows : schema'[t] # {}}
    /\ Ends(j, "done")
    /\ overlapped' = overlapped \cup {k \in Jobs \ {j} : Running(k)}
    /\ UNCHANGED <<runs, crashes>>

(* The deadlock detector ends one of the runs that wait in a circle.       *)
Circle(j) == \E S \in SUBSET Jobs : j \in S /\ \A k \in S : WaitsFor(k) \cap S # {}
Deadlock(j) == Circle(j) /\ RollsBack(j, "deadlock") /\ UNCHANGED crashes

(* The pod is killed; the database rolls its transaction back.             *)
Crash(j) ==
    /\ Running(j)
    /\ crashes < MaxCrashes /\ crashes' = crashes + 1
    /\ RollsBack(j, "killed")

(* The application inserts a row: it waits for a run that has the table.   *)
Write(t) ==
    /\ schema[t] # {} /\ t \notin rows
    /\ \A j \in Jobs : t \notin DOMAIN mine[j]
    /\ rows' = rows \cup {t}
    /\ UNCHANGED <<schema, heads, run, mine, stamped, overlapped, runs, crashes>>

RunStep(j) == Execute(j) \/ Stamp(j) \/ Commit(j) \/ Deadlock(j)

Next ==
    \/ \E j \in Jobs : \/ RunStep(j) \/ Crash(j)
                       \/ \E target \in DownTo \cup {Newest} : Begin(j, target)
    \/ \E t \in {"transactions", "ledger_entries"} : Write(t)

Spec == Init /\ [][Next]_vars

(* The database goes on executing the statements of a run.                 *)
FairSpec == Spec /\ \A j \in Jobs : WF_vars(RunStep(j))
-----------------------------------------------------------------------------
(* Whichever runs overlap, fail or are killed, the committed version is    *)
(* one revision and the committed schema is the one its upgrades make: a   *)
(* downgrade undoes its upgrade, and a run that planned its steps from a   *)
(* version that has moved never commits.  At the head revision that is     *)
(* exactly the columns, indexes and constraints the models declare.        *)
VersionMatchesSchema ==
    /\ heads \subseteq {Current}
    /\ schema = SchemaAt(Current)
    /\ Current = Newest => schema = Models

(* A run fails only when another one committed while it ran: no statement  *)
(* of the chain is refused because of its order or of the rows there are.  *)
FailsOnlyByOverlap == \A j \in Jobs : run[j].state = "failed" => j \in overlapped

(* Every run comes to an end, also when two wait for each other.           *)
EveryRunEnds == \A j \in Jobs : Running(j) ~> ~Running(j)
=============================================================================
