# Verification of the distributed wallet ledger

TLA+ models of the wallet platform in `src/app`, TLC configurations that check
them on small instances, and TLAPS proofs of every safety property that these
checks pass, for every instance.

## 1. The system

| Part | State it keeps | Operations | Talks to |
|---|---|---|---|
| Money path: `services/ledger_service.py`, `repositories/{wallet,transaction,ledger,outbox}_repo.py`, `api/routes/wallets.py` | tables `wallets` (cached balance), `transactions` (unique idempotency key), `ledger_entries` (append-only, identity `seq`), `outbox_events`; one session per request | `deposit`, `transfer`, `withdraw` | PostgreSQL (READ COMMITTED, row locks), the balance cache |
| Outbox publisher: `events/publisher.py` | `published_at`; the Kafka producer's local queue; `_delivery_errors` | `publish_batch` in `run_forever` | outbox table, Kafka |
| Analytics consumer: `events/run_analytics_consumer.py`, `services/analytics_service.py`, `repositories/{stats,processed_event}_repo.py` | `processed_events`, `transaction_stats`, consumer offsets | poll, `handle_event`, offset commit | Kafka group, PostgreSQL |
| Notification consumer: `events/consumer.py` | `seen` (in memory), consumer offsets | poll, `handle_event`, offset commit | Kafka group |
| Reconciliation: `services/reconciliation_service.py`, `jobs/run_reconciliation.py` | none | `check` | reads ledger and wallets while money moves |
| Balance cache: `cache/redis_cache.py`, `get_balance` in `api/routes/wallets.py` | Redis keys with a time to live | `get`, `set`, `invalidate` | readers and money routes |
| Accounts: `services/{user,wallet}_service.py`, `repositories/{user,wallet}_repo.py`, `api/deps.py`, `api/routes/{auth,users,wallets}.py`, `core/security.py` | tables `users` (unique e-mail), `wallets` (unique user and currency); tokens held by clients | `register`, `login`, `get_current_user`, `create_wallet`, `read_me` | PostgreSQL |
| Transaction history: `list_transactions`, `get_entries_for_wallet` | none | one page of ledger rows | reads the ledger while money moves |
| Migrations: `alembic/env.py`, `alembic/versions/*` | the schema, `alembic_version` | `upgrade`, `downgrade` of eight revisions | PostgreSQL DDL locks, the tables' rows |
| Snapshot job, DAGs, observability, manifests | see section 8 | | |

The hard behaviours are: request handlers that interleave between their SQL
statements and block on row locks and on a unique index; clients that retry
with an idempotency key while the first attempt is still running; processes
that die between a commit and the response, between an acknowledged send and
its mark, between handling a message and committing its offset; a producer
whose flush may time out; consumer groups that move partitions while a message
is being handled; a cache that is filled and emptied without any lock; look-ups
followed by an INSERT that only a unique index keeps apart; pages and sums read
by several statements while rows are added; and migration runs that overlap.

What makes each part correct:

* *Money path*: a cached balance is the sum of its ledger rows; no wallet is
  ever overdrawn; each transaction has two legs that cancel, within one
  currency; a key is spent once; exactly one event per transaction; clients are
  told the truth; nobody deadlocks.
* *Publisher*: a row marked published is in Kafka; every event gets there.
* *Consumers*: offsets never run ahead of handling; the rollup counts every
  event once; everybody is notified.
* *Reconciliation*: beside a money path that keeps balances and ledger equal, the
  only drift it reports is the money that moved between its two reads.
* *Accounts*: one user per address, one wallet per user and currency; answers
  say what happened; who is registered can log in.
* *History*: the pages a client collects are a statement, whatever commits
  meanwhile.
* *Migrations*: the recorded version describes the schema, and the head is what
  the models declare.
* *Cache*: nobody sees a stranger's balance; stale values do not outlive their
  time to live.

## 2. Modules

| Module | Models | Kind |
|---|---|---|
| `Ledger` | ledger rows, signed amounts, running balance | operators |
| `LedgerService` | the three money operations as interleaved handlers | state machine |
| `Bank` | what the money path promises: atomic posting | abstract specification |
| `OutboxPublisher` | the publisher worker(s) and librdkafka's queue | state machine |
| `ConsumerGroup` | Kafka's logs, assignment, positions, offsets (external) | shared by the two consumers |
| `AnalyticsConsumer`, `NotificationConsumer` | the two consumer groups | state machines |
| `EventPipeline` | `OutboxPublisher` composed with `NotificationConsumer` around one topic | composition |
| `Accounts` | registration, login, tokens and wallet creation | state machine |
| `Reconciliation`, `History` | the job, and a client that pages, beside `LedgerService` | composed in `MCReaders` |
| `Migrations` | the revisions and the runs that apply them | state machine |
| `BalanceCache` | cache-aside reads and the money routes' invalidation | state machine |
| `MCLedger`, `MCAccounts`, `MCPublisher`, `MCAnalytics`, `MCPipeline`, `MCReaders`, `MCCache` | small instances for TLC | |
| `LedgerServiceProofs`, `LedgerKeysProofs`, `LedgerRowsProofs`, `AccountsProofs`, `PipelineProofs`, `AnalyticsProofs`, `MigrationsProofs`, `CacheProofs` | theorems and proofs | |

Operators whose name starts with `Bug` are mutations: each is the form a
definition would take after a plausible programming error, kept next to the
definition, and each property is shown to fail under one of them.

### LedgerService

A *call* is one HTTP request; it makes at most one row in `transactions`, so
the call also names that row. `pc[c]` follows the handler; one step is one
point at which the database lets sessions interact:

| Action | Code |
|---|---|
| `Arrive`, `RejectSelfTransfer` | entry of the handler, `SameWalletTransferError` |
| `CheckKey`, `Replay` | `get_by_idempotency_key`, then the unlocked `get_by_id` of the replay |
| `LockRow`, `SkipMissingRow` | each `SELECT ... FOR UPDATE`, in ascending id order for a transfer |
| `Reject` | the checks on the locked rows, in the order each handler makes them |
| `OpenTransaction`, `KeyConflict` | the INSERT that `create` flushes; it waits for an uncommitted row with the same key and fails on a committed one |
| `WriteRows`, `WriteOutOfRange` | ledger rows (drawing `seq`), balances, status and outbox row, all flushed; a balance beyond BIGINT or the CHECK fails |
| `Commit` | everything becomes visible at once, locks are released |
| `Refresh` | `db.refresh(wallet)` in a new transaction, and the response |
| `Crash` | the process dies anywhere: no response, PostgreSQL rolls back what is not committed |
| `LoseConnection` | the session loses its database connection: no handler catches the error, so a 500; from `Refresh` on the money has moved |

`balance`, `ledger`, `txns`, `outbox` are committed state; `copy[c]` holds the
`Wallet` objects of a session. UUIDs are naturals because only their order
matters. `txns` holds committed transactions only: status PENDING is never
visible to anybody else. `locked_balance` is never written by the code and is
left out. An absent `Idempotency-Key` is `NoKey`, stored as NULL and in no index;
an empty one is `EmptyKey`, which `if idempotency_key:` does not look up
(`LooksUp`) and which `create` stores under the unique index like any other.
`str.upper()` on a requested currency is the function `Upper`.
`Opening` lets wallets begin with money, as the sum of rows older than the
model. The two legs of a call draw consecutive sequence numbers in one step; in
PostgreSQL another session may draw one in between, which changes no order
within a wallet because the wallet's row is locked meanwhile.

### OutboxPublisher

`queue[w]` is the producer's local queue, `reports[w]` an error report not yet
served. Delivery reports are served inside `flush` only, so `_delivery_errors`
is exactly what the flush of this batch finds. An event is a number, its
`created_at`; events commit in any order. `OldestFirst` is the `ORDER BY`: the
sequence of the rows that ascends. `FlushTimeout` is `flush` returning
with messages left, which the code does not notice; the history variable
`timedOut` remembers that it happened. A failed `produce`, delivery, commit or
a crash counts as a fault, bounded by `MaxFaults`. The bound also limits how often
`produce` finds the queue full (`QueueFull`), which in the code is each time:
unbounded, every retry would add copies to the log. One worker runs from the
beginning; `Start` is the second one of a rolling update.

### Consumers

`ConsumerGroup` is Kafka as `events/producer.py` configures it: manual commits,
earliest offset, one owner per partition, a former owner that may still be
handling a message and whose offset commit is refused. `consumer.commit(msg)` is
asynchronous, so `Committed` also has the outcome that the request is lost and
the loop goes on as if it had not been. The publisher's
at-least-once output is "any event, any number of times, in its own partition".
`AnalyticsConsumer` splits `handle_event` at each statement: the lookup, the
flushed INSERT into `processed_events` (blocking on the primary key), the read
of the stats row, its flushed write (blocking on the row), the commit. An
exception anywhere is swallowed by the loop, which commits the offset. The
history variable `clashed` names the stats rows that two sessions have had open
at the same time.

`EventPipeline` replaces "any event, any number of times" by the publisher
itself: `topic`, written by `OutboxPublisher`, is the `log` of
`NotificationConsumer`. A step is a step of one side and leaves the other's
variables alone; the topic is all they share.

### Accounts

A call is one request of one of four kinds and makes at most one row, so it
names the row. `Check` is the look-up, `Insert` the INSERT that `create`
flushes: it waits while another session has an uncommitted row with the same
key and fails (`InsertFails`) on a committed one, outside any `try`, so with
a 500; `Commit`, and `Created` for the refresh and the 201. The `except
IntegrityError` around `commit` never has anything to catch, because the index
is checked at the flush. `Normal` is what `EmailStr` does to an address (domain
in lower case), applied on registration and not on login; `Upper` is
`str.upper()`, `Storable` the texts that fit `VARCHAR(3)`. A token is its
subject; an expired, forged or malformed one is `BadToken`. The only fault is the
death of the process: a database connection lost after the commit
(`user_service.py:35`, `wallet_service.py:38`), a 500 for a row that exists, is
outside this model (`LedgerService` has it for the money path).

### Migrations

The schema is a function from tables to their columns, indexes and named
constraints. A revision is two sequences of statements, copied in their order.
A run reads the version, executes the statements step by step in its own
transaction (`mine[j]`: the tables it has touched, as it left them, which are
also its locks), moves the version row after each step, and commits everything
at once. Alembic's UPDATE of the version row must match the row it expects
(`Matches`); from the base it is an INSERT, which does not conflict with a row
that has moved on to another revision in the meantime - there the CREATE TABLE
that follows refuses. `Write` lets the application put rows into the two tables
that later revisions alter. Runs that wait in a circle are ended by
PostgreSQL's deadlock detector.

### Reconciliation, History and BalanceCache

`Reconciliation` extends `LedgerService` with the job's two reads (`JobSpec` is
the job beside the money path), `History` with a client that asks for page
after page (one SELECT each) until one is short (`HistorySpec`); `MCReaders`
puts both beside the same money path. When to stop is the client's choice
(`Ended`, external). In `BalanceCache` a balance is the number of writes committed
to the wallet, since only "older or newer" matters. A `Payload` is what the route
stores in Redis: the id, the owner's `user_id` and the balance; on a hit the
cached `user_id` decides. `confirmed`, `atStart` and `raced` are history variables
for the properties; `raced` names the wallets for which a reader stored an older
balance after the DELETE of a newer one.

## 3. Properties and runs

All runs use `CHECK_DEADLOCK FALSE`: requests end, and workers with nothing to
do wait; blocked handlers are covered by `NoDeadlock` and `EveryCallAnswered`.

| Run | Instance | Shows |
|---|---|---|
| `ledger_safety` | 3 calls, 21 request kinds, 3 wallets + 1 missing id, 2 currencies, BIGINT maximum 4, symmetry over calls | `TypeOK`, `LocksProtectCopies`, `BalanceMatchesLedger`, `NoOverdraft`, `DoubleEntry`, `KeysSpentOnce`, `OutboxMatchesLedger`, `AnswersTruthful`, `ReadYourWrites`, `HistoryInCommitOrder`, `NoDeadlock` |
| `ledger_bank` | 3 calls, 7 kinds, fair | `ImplementsBank` (refinement of `Bank`), `EveryCallAnswered` |
| `accounts` | 5 calls: 2 registrations, a login, 2 wallet creations or `read_me`; 2 spellings, 2 passwords, fair | `TypeOK`, `OneRowPerKey`, `AnswersTruthful`, `ServerErrorNeedsRace`, `RegisteredCanLogIn`, `EveryCallAnswered` |
| `publisher` | 2 workers, 3 events, batch 2, queue of 2, 1 fault, timeouts, fair | `TypeOK`, `PublishedIsLogged`, `SentOnceWithoutFaults`, `EveryEventShipped` |
| `analytics` | 2 members, 2 partitions, 3 events of one bucket, 3 messages, 2 moves, 1 failure, fair | `TypeOK`, `NeverDoubleCounted`, `ExactUnlessClashed`, `ClashNeedsTwoPartitions`, `SkippedOnlyByFailures`, `CountedUnlessFailed` |
| `pipeline` | 1 publisher, 2 members, 1 partition, 2 events, 1 fault, 2 moves, fair | `NotifiedBeforeCommitted`, `RepeatsNeedAMove`, `EveryCommitNotified` |
| `readers` | 3 calls, 3 kinds, 1 job, 1 client with pages of 1 | `DriftIsRecentTraffic`, `PagesAreAStatement` |
| `migrations` | 2 jobs, 4 runs from an empty database, any downgrade target, 1 killed pod, fair | `VersionMatchesSchema`, `FailsOnlyByOverlap`, `EveryRunEnds` |
| `cache` | 3 readers, 2 writers, 2 wallets, 1 outage, fair | `OwnersOnly`, `FreshUnlessRaced`, `StalenessHeals` |

Three runs refute what a comment or the README says:

| Run | Statement | What happens |
|---|---|---|
| `ledger_retry` | `LoserReturnsWinner`: "Roll back ours and return the winner's txn" (`ledger_service.py:232`) | the duplicate key is refused by the flush in `create`, outside the `try`; the loser gets a 500. No money moves twice. |
| `publisher_loss` | `NoEventLost`: "Delivery is at-least-once" (`publisher.py:4`) | a timed-out flush is followed by `mark_published`; what was still queued is then given up by the producer (before or after the mark) or lost with the process |
| `analytics_lost_update` | `RollupExact`: "rollups stay exactly-once" (`README.md:85`) | two members that read the same stats row lose an increment: three events are recorded, the row counts two |

Further promises hold only with the exception that a passing property names:

* `AnswersTruthful`: a 404, 409 or 422 means that no money moved, a 500 does not:
  it is also the answer when the connection is lost after the server committed
  (`ledger_service.py:142-143`, `244-245`, `324-325`). A replay checks nothing
  about its caller: it names the transaction of whoever used the key, next to the
  balance of the wallet in the URL, although `wallets.py:145` and `180` promise
  the same 404 for a missing and a foreign wallet.
* `KeysSpentOnce` includes the empty key. It is never looked up, so the second
  request with an empty header, from anybody, is not replayed but ends in a 500.
* `SkippedOnlyByFailures`: an offset passes an uncounted event when its handler
  raised, because the loop of `run_analytics_consumer.py` logs the exception and
  commits (line 38 calls it "at-least-once").
* `DriftIsRecentTraffic`: the reconciliation report names a healthy wallet when
  money moved between the job's two reads; its docstring says "Any drift means
  a bug".
* `FreshUnlessRaced`: a reader that loaded before a write may store the old
  balance after the write's invalidation, and a later read shows it until the
  time to live ends.
* `ServerErrorNeedsRace`: of two registrations (or wallet creations) that race,
  the loser gets a 500, not the 409 its `except` block was written for. A
  duplicate of a row that was there at the look-up gets the 409.
* `RegisteredCanLogIn` is about the address as the registration answered it; an
  address typed with capitals in its domain is stored in lower case, and the
  login as typed then fails.
* `PagesAreAStatement`: the pages are not the statement as of the first page. A
  row may repeat, and rows added while the client pages may or may not show, but
  together the pages are what the statement was at some moment in between.

The publisher's and the consumers' properties draw the line of each promise. An
event is lost only when a timed-out flush and a fault meet (`EveryEventShipped`,
`EveryCommitNotified`); a timeout alone only delays it. The rollup is exact while
no two members have a row open at once (`ExactUnlessClashed`), and the first time
that happens to a row takes two partitions (`ClashNeedsTwoPartitions`): a
partition that changes hands in a rolling update, as the deployment with one
replica does, serialises the members through `processed_events`, unless a handler
failed. Once a row has clashed this is no longer so: a session whose INSERT of the
stats row was refused passes its message over, the owner goes on to the next one,
and a former owner that still waits for the passed event takes it up beside it.
The model has this behaviour with three members, one more than the run, and the
proofs cover it. `NeverDoubleCounted` holds always.

## 4. Bounds

* *Three calls* give a holder, a waiter and a third party that commits in
  between, and a key shared by two while a third competes for money. Wallets
  begin with 2, 1 and 1 units and the column maximum is 4, so that withdrawals
  empty a wallet and deposits overflow one.
* *Three events, batches of two* make a batch that leaves a row behind; a queue
  of two or three can be filled by a retry.
* *Pages of one row* make a client read several pages, so that commits fall
  between any two.
* *Four runs* of alembic take an empty database to the head, down to any
  revision, and let two runs overlap from there.
* *Five calls* in `accounts` let two registrations race, and two wallet
  creations of the user who logged in after one of them.
* *Two members and two moves* in `analytics` are an owner and a former owner of a
  partition, and a partition that comes back to where it was; the proofs are for
  any number. *One partition* in `pipeline` puts both events behind one offset.
* *MaxLog* (3 messages), *MaxMoves*, *MaxFailures*, *MaxFaults* and *MaxOutages*
  bound repeats, restarts and rebalances, database errors, producer faults and
  Redis errors. Three messages are three events, or repeats of fewer.
* Symmetry over calls is used in `ledger_safety` and `readers`, which have no
  liveness property.

## 5. Fairness

Handlers and loops are weakly fair: a thread that can take its next step does
so, and PostgreSQL serves a waiting lock request once the lock is free. Crashes
are never required and every handler may crash. Weak fairness is enough for
locks because each call ends: a lock is not taken back for ever by others.
The producer's `Deliver` is weakly fair (brokers acknowledge what keeps being
sent), while failures are bounded. `Expire` is weakly fair: Redis enforces the
time to live given to `setex`. A migration run is weakly fair: the database goes
on with its statements. No client is assumed to retry.

## 6. Proofs

Every theorem holds for all sets of calls, requests, users, wallets, events,
workers, members, partitions and migration jobs that satisfy the named assumptions of the
modules. Those are the ones of the schema and of validation: wallet ids are
ordered (as naturals), existing wallets have an owner and an opening balance in
the column's range, the funding account is no wallet, amounts are positive,
normalising an address twice changes nothing more, an event has one partition,
a page has at least one row, a downgrade goes to one of the revisions, and the
bounds are naturals. TLC evaluates them in every run.

### The ledger (`LedgerServiceProofs`)

The first part proves what `Ledger` computes. `RunningBalance` is a recursive
function; that such a function exists on every prefix, is unique, obeys its
equation and ignores later rows is proved by taking a least counterexample
(`LeastElement`, from well-foundedness of the naturals). The result is
`AppendMovesBalance`: a new row moves its account's balance by its signed
amount and leaves every other one.

The second part proves `TypeCorrect`, `CopiesStayFresh`
(`LocksProtectCopies`) and `BalancesAreLedgerSums` (`BalanceMatchesLedger`) from

    LedgerInv == TypeOK /\ SessionsConsistent /\ LocksProtectCopies /\ BalanceMatchesLedger

`BalanceMatchesLedger` alone is not inductive: a commit overwrites balances by
the session's copies, so one has to know that a copy differs from the row by
exactly the money the ledger rows carry (`LocksProtectCopies`), which is true
because the row lock is still held; and that needs to know which rows a handler
at each `pc` has been granted and that they exist (`SessionsConsistent`). There
is a lemma per action; `CommitKeeps` is the heart: by `CommitMoves` the balances
move by `Delta`, by `LegsAddUp` and `AppendMovesBalance` so do the ledger sums,
and no other handler has a copy of a row that moved, because nobody else can
hold its lock.

### Keys, answers, the bank and deadlock (`LedgerKeysProofs`)

    KeysInv == PlaceTellsOutcome /\ OnlyAllowedWrites /\ BalancesInRange
               /\ KeysSpentOnce /\ AnswersTruthful

* `KeysAreSpentOnce`, `AnswersAreTruthful`, for every key, the empty one included,
  and with connections lost anywhere. A handler may answer only what its
  place in the code entitles it to (`PlaceTellsOutcome`): before the commit its
  transaction does not exist, after it the call is in `txns` for good. The INSERT
  waits for an uncommitted rival and fails on a committed one, so the key of a
  call that gets past it is nobody else's.
* `RefinesBank`: `Spec => ImplementsBank`. Every step but `Commit` and the
  successful answers leaves the bank alone. For `Commit` one needs that what was
  checked on the locked copies is what the bank checks on the rows
  (`OnlyAllowedWrites`, and `LocksProtectCopies` from above) and that the CHECK
  and the BIGINT range were tested on the very balances that are stored
  (`BalancesInRange`).
* `DeadlockFree`: `Spec => []NoDeadlock`, from a second invariant,

      LocksInv == LocksAreGranted /\ LockOrder /\ LocksBounded

  A handler that holds a row has been granted it, and every row it still asks for
  has a larger id. In a group whose members all wait for members of the group,
  one that waits for the key waits for a handler that is past its locks and waits
  for nobody; so all wait for rows, and the holder of the row with the largest
  id asked for would wait for a larger one. There is a largest because only
  finitely many rows are locked at any time (`LocksBounded`), although the sets
  of calls and wallets need not be finite.

### Rows (`LedgerRowsProofs`)

    RowsInv == RowsHaveTransactions /\ SequenceFresh /\ HistoryInCommitOrder
               /\ DoubleEntry /\ OutboxMatchesLedger /\ NoOverdraft /\ ReadYourWrites

`NothingOverdrawn`, `LedgerIsDoubleEntry`, `OutboxTellsLedger`,
`HistoryIsOrdered` and `ClientsReadTheirWrites` follow. `HistoryInCommitOrder`
is why `SequenceFresh` is there: `seq` is drawn before the commit, so a number
drawn and not yet committed must be newer than every row of the wallets its
session has locked; it is, because the lock was taken before the number was
drawn and keeps others from adding rows. `NoOverdraft` is about every line of a
statement: a new line is the balance that the commit stores, which
`BalancesInRange` bounds.

`DriftIsTraffic`: `JobSpec => []DriftIsRecentTraffic`. What the job has read is
a line of each statement (`ReadsAreLines`), and lines of a statement do not
change when rows are appended; the sums come from one line and the cached
balances from a later one.

`PagesFormAStatement`: `HistorySpec => []PagesAreAStatement`, for any page size.
The argument is about *offsets*: the offset of a row is the number of newer rows
of its wallet (`Offset`), `HistoryInCommitOrder` makes offsets distinct, and
`PageCut` shows that the page at offset m is the set of rows whose offset is in
m .. m + limit - 1. A commit only adds newer rows, so it raises every offset by
the same number. The property itself is not inductive, since it speaks of the
last page; `PagingInv` says what holds while the client is still reading, with
m the offset it will ask for next:

* `Cut`: a row older than a shown one and at an offset below m has been shown;
* `Covers`: nothing that was there at the first page is newer than all of the
  pages;
* `Repeats`: rows shown twice and shown rows that are at offset m or beyond
  (`Pushed`, which the next pages will show again) are together no more than the
  rows that came since the first page;
* `Complete`: after a short page, no row older than a shown one is missing.

Commits move rows from "shown" to `Pushed`, at most one for each row they add,
because offsets are distinct (`TrafficKeepsPages`); a page moves them from
`Pushed` to repeats (`NextPageKeepsPages`). When the client is done, the moment
is that of the newest row shown, or of the first page when that is later
(`CompleteIsAMoment`).

### Accounts (`AccountsProofs`)

    AccountsInv == TypeOK /\ rows \subseteq Calls /\ PlaceTellsOutcome /\ CheckedFree
                   /\ OneRowPerKey /\ AnswersTruthful /\ ServerErrorNeedsRace

`AccountsAreTyped`, `KeysAreUnique`, `CreationAnswersAreTruthful` and
`ServerErrorsAreRaces` are its consequences, and the action property
`ConfirmedUsersLogIn` (`Spec => RegisteredCanLogIn`) is proved from it step by
step. `CheckedFree` says that whoever is about to INSERT saw no row with its
key; the row an INSERT fails on was therefore committed after the look-up.

### Publisher and pipeline (`PipelineProofs`)

The sequence lemmas say which elements an appended, concatenated or filtered
queue has. `OldestFirstSorts` shows that a finite set of rows has an ascending
order (each row goes to the place given by the number of rows that are not
younger), so that the `CHOOSE` in `OldestFirst` finds it; `FetchedRows` derives
what a batch is.

* `PublishedRowsAreLogged`, `PublisherIsTyped`, from
  `PublisherInv == TypeOK /\ InPlace /\ BatchIsSent /\ PublishedIsLogged`: between
  `produce` and the mark, each row of the batch is queued or in the log unless an
  error is reported.
* `LoneWorkersSendOnce`, from `OnceInv`: everything a lone worker without faults
  has sent is published or in the batch it is waiting for. A second worker may
  come or the only one may be killed; the clauses on `Up` say that from then on
  the premise does not hold again.
* `OffsetsFollowNotifications` and `RepeatsArePaidFor`, for `PipelineSpec`, from
  `DeliveryInv == GroupShape /\ InHand /\ Handled /\ Budget`. Whatever is below the
  fetch position was notified, but for the message that the owner is about to
  handle (`Handled`); a member that lost the partition cannot commit. `Budget`
  counts the notifications there were and those that could still happen before
  the next move (`Could`): handling moves one from the second to the first, and a
  move adds at most one member that could.

### Analytics (`AnalyticsProofs`)

    AnalyticsInv == TypeOK /\ GroupInStep /\ HoldersDiffer /\ ReadsArePast /\ FiniteRecords
                    /\ NeverDoubleCounted /\ ExactUnlessClashed /\ SkippedPaid

* `NothingCountedTwice`: a session works on an event that nobody else works on
  and that is not recorded (`HoldersDiffer`, the primary key), and its copy of
  the stats row says no more than what is recorded by now (`ReadsArePast`),
  however old it is. The amounts are summed as the number of their units, so that
  the sum over one more event is the cardinality of a disjoint union.
* `RollupIsExactUnlessClashed`: the copy is the row itself as long as nobody else
  has had it open.
* `FailuresPayForSkips`: `SkippedPaid` counts, beside the events that offsets have
  passed over (`CommittedIsBehind`), those that a loop has let go of or is about to.
* `FirstClashNeedsTwoPartitions`: offsets may trail far behind when commits are
  lost, so what counts is not what is committed but what is `Behind`: the places
  of a partition that its owner has fetched and let go of, or that lie before a
  message in anybody's hands. A place gets behind only when a loop ends its
  message, so `Skipped` counts the events `Behind` that were not recorded, and the
  earlier one of two in hand is recorded, clashed or paid for by a failure.

### Migrations (`MigrationsProofs`)

    Inv == RunsInv /\ LocksInv /\ JobsInv

`VersionAlwaysMatchesSchema` and `RunsFailOnlyByOverlap`, for any number of jobs,
runs, downgrades and crashes. The first half of the module is about the eight
revisions alone. `Contents` lists the schema after each one and `SchemaIs` shows
that it is what the upgrades make; `Trip1` to `Trip8` show that PostgreSQL accepts
the statements of each upgrade one after the other, whatever rows there are, and
that the downgrade undoes them in reverse; `ModelsAreTheHead` compares the last
schema with the models.

The second half is about runs. `Job` says of every running one:

* a run during which no other has committed is `OnCourse`: it planned from the
  committed version, and what it sees, with the statements it has left, leads to
  the revision it is heading for. Hence no statement of it is refused;
* a run that was overtaken may still commit, when its UPDATE of the version row
  matches because the version has come back to what it read. `Completes` is why
  that is right: the run holds the tables it has touched, so nobody else has
  changed them, and the statements left will make of each table what the whole
  step makes of it as it is now. Once it has moved the version row it is
  `OnCourse` again, and nobody else can move the row (`LocksInv`);
* a run planned from the empty database INSERTs its row whatever the version is
  by then. It is `Doomed`: it cannot create `users`, which is there from the
  second revision on, and has touched nothing.

TLC has checked `Inv` on the instance of the run `migrations`, and `PagingInv`
on that of `readers`.

### Cache (`CacheProofs`)

    CacheInv == CacheShape /\ BalanceIsLatest /\ LoadedIsFresh /\ NotAnswered
                /\ CacheIsGenuine /\ CacheIsFresh /\ OwnersOnly /\ FreshUnlessRaced

`BalancesAreShownToOwners` and `ReadsAreFreshUnlessRaced`. Every payload that is
loaded or cached was made from the row of the wallet it is filed under
(`CacheIsGenuine`): its id and `user_id` are that row's and its balance one the
wallet has had. Hence a hit, which asks nobody but the payload, shows a wallet to
its owner only. A cached balance is
at least the confirmed one (`CacheIsFresh`) because a money route deletes the
key before it answers; the only way to put an older value back is a store by a
reader that loaded before, which is what `raced` records.

## 7. Only model-checked

* Liveness under fairness: `EveryCallAnswered` (twice), `EveryEventShipped`,
  `CountedUnlessFailed`, `EveryCommitNotified`, `EveryRunEnds`,
  `StalenessHeals`. The prover does not reason about `ENABLED`.
* The three refuted statements of section 3, by their nature.

## 8. Not modelled

* Password hashing and the signature and expiry of tokens: library computations
  without state of their own. What the code decides by them is modelled.
* Pydantic validation: requests in the models are those that pass it.
* Alembic's offline mode: it prints SQL and changes nothing.
* The analytics snapshot job (it reads the rollup once and logs it), Airflow
  DAGs, logging, metrics, health checks, containers and manifests: no state of
  the domain. What the manifests say of replicas, restarts and rolling updates
  is what the models let processes do.

## 9. What is left

All parts of section 1 with state of their own are modelled, and every invariant
and action property that a passing run checks is also a theorem. The liveness
properties stay with TLC (section 7). The next step would be the balance cache
composed with `LedgerService` instead of abstract writes.
