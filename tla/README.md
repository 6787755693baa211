# Finance manager: specification and proofs

TLA+ models of the capacity API of this repository (programs with a USD
capacity, reservations of that capacity against invoices, releases, treasury
reconciliations), of its decimal money, of the transactional outbox that
publishes its events, of the Kafka consumer and the bulk reconciliation messages
it handles, of the user accounts, and of the driver that validates a running
stack from outside, with the TLC configurations that check them and the TLAPS
proofs about them. Paths below are relative to `src/src/app/modules` unless they
start with `docs`, `scripts` or `README.md`, which are those of the repository.

## The system

| Component | State | Operations | Interacts with |
|---|---|---|---|
| Programs (`domain/programs`) | `programs`: total capacity and treasury version | create, delete, rename, capacity summary, `findByIdForUpdate`, `applyReconciliation` | row lock taken by reservations, releases, reconciliations |
| Invoices (`domain/invoices`) | `invoices.status` OPEN, RESERVED, REPAID | create, `findByIdForUpdate`, `markReserved`, `markRepaid` | reservations and releases |
| Reservations (`domain/reservations`) | `reservations` (ACTIVE, RELEASED, converted USD) | create, `sumActiveByProgram`, `markReleased` | program and invoice locks, FX service, outbox |
| Releases (`domain/releases`) | `releases` | release, idempotent | program, reservation and invoice locks, outbox |
| Reconciliations (`domain/reconciliations`) | `reconciliations` (audit), `reconciliation_events` (inbox) | bulk message, one entry's transaction | Kafka consumer, program lock, outbox |
| Outbox (`database/outbox`) | `outbox_events` | write in the domain transaction, poll, publish, mark | Kafka producer |
| Kafka consumer (`broker-kafka/consumer`) | committed offsets, dead-letter topic | retry, dead-letter, commit; single and batch | reconciliations |
| Money and FX (`domain/shared/money`) | none | decimal arithmetic on strings, quote from Frankfurter | reservations |
| Auth and users (`auth`, `domain/users`) | `users`, `refresh_tokens` | register, login, refresh; update, delete | HTTP guards, foreign keys of the documents a user creates |
| HTTP, configuration | none, environment | map errors to status codes, wire modules | all |
| Compose stack (`compose.yaml`) | broker and application up or down, FX address, migrations applied | start, stop, restart, recreate, migrate | all; commands of the driver |
| Local validation (`scripts/local-validation`) | scenario results, remembered versions and capacities, baseline of existing rows | run scenarios in order: requests, Kafka messages, commands, polls, checks | HTTP API, treasury topic, Compose, tables by read-only SQL |

Capacity is never stored: reserved is the sum of a program's ACTIVE
reservations, available is total minus reserved. What makes this correct is
therefore in the interleaving of transactions: READ COMMITTED
statements, `SELECT ... FOR UPDATE` in the order program, reservation, invoice,
reads made before a transaction, a few unique keys, and events that must be
committed with the change they announce. `PROJECT.json` lists the hazards, each
at its line, with the properties that cover it.

What makes each component correct, in one sentence: no reservation exceeds the
capacity that is current when it commits; an invoice is financed once and a
reservation is released once, whoever retries; capacity follows the newest
treasury snapshot whatever order, repetition or disagreement the messages come
in; the workers never deadlock and every command is answered; each committed
change has exactly one event, which reaches Kafka after the commit, after the
earlier events of its program, and, in the end, at all; no message is passed
over and redelivery changes nothing; strings of decimals decide what exact
arithmetic decides; an address belongs to one account, and a session is replaced
or kept, never just lost; the validation fails only for a cause, passes only if
the stack is as it says, and ends unless one of its commands hangs.

## Modules

| Module | Models |
|---|---|
| `RowSum` | `SUM(...)` over table rows, as a recursive function |
| `CapacityTables` | the committed tables and the writes one COMMIT makes visible; the properties of the tables |
| `CapacityLedger` | the abstract specification: each command runs alone, in one step |
| `CapacityService` | the code: request handlers interleaving at every statement, row locks, aborts |
| `OutboxPublisher` | writers of outbox rows, `OutboxPublisherService`, Kafka, crash and restart |
| `KafkaConsumer` | `KafkaConsumerRunnerService` on one partition, with kafkajs and the consumer group around it |
| `BulkReconciliation` | `KafkaConsumer` composed with `reconcileBulk`'s loop over a message's entries and with `CapacityTables` |
| `DecimalMath` | `decimal-math.ts`: the arithmetic on strings |
| `CapacityMoney` | the strings of a program, an invoice and reservations, with conversions and NUMERIC columns |
| `UserAccounts` | `UsersService` and `AuthService` on `users` and `refresh_tokens`, statement by statement |
| `ValidatedStack` | the Compose stack as the validation meets it: requests, treasury topic, outbox, containers, and what may go wrong |
| `ValidationScenarios` | the scenarios of `scripts/local-validation` as data: for each, the steps its body awaits |
| `LocalValidation` | `ScenarioRunner` and `main`, taking those scenarios through the stack |
| `PlanDiscipline` | the scenarios' own rule, read off `Plan`: a check of a program comes behind a marker that is behind its messages, and some mandatory scenarios look at how the stack is left |
| `RowSumProofs`, `CapacityServiceProofs` | sums over rows; theorems about the capacity service, its tables and the ledger it implements |
| `OutboxPublisherProofs`, `KafkaConsumerProofs`, `UserAccountsProofs` | theorems about the module each is named after |
| `BulkReconciliationProofs` | theorems about the bulk messages, on top of an instance of `KafkaConsumerProofs` |
| `LocalValidationProofs` | theorems about the driver and the stack, for any plan of well-formed scenarios, and about its checks and its verdict, for a plan that keeps to `PlanDiscipline` |
| `CapacityMoneyProofs` | theorems about the strings: `DecimalMath` as functions on numbers, then `CapacityMoney` |
| `MC*` | small instances for TLC |

### CapacityService

A worker is one request handler or the consumer working on one treasury entry.
`pc[w]` is the statement it executes next; an action is that statement and the
code up to the next, including what a throw does. `local[w]` is what the
handler's variables hold. The correspondence:

| Command | Statements, in order | Code |
|---|---|---|
| reserve | `FindInvoice`, `ConvertToUsd`, `LockProgram`, `LockInvoice`, `SumActive`, `InsertReservation` | `reservations.service.ts` 41-174 |
| release | `FindReservation`, `LockProgram`, `LockReservation`, `LockInvoice`, `InsertRelease` | `releases.service.ts` 40-184 |
| reconcile | `FindInboxEvent`, `LockProgram`, `ApplyEntry`, `FindExisting` | `reconciliations.service.ts` 100-305 |
| summary | `FindProgram`, `SumForSummary` | `programs.service.ts` 63-70, 106-121 |

`CreateProgram`, `DeleteProgram` and `CreateInvoice` are single statements.
`Abort` ends any command before its COMMIT: a lost connection, a statement
timeout, a crash of the process; PostgreSQL rolls the transaction back either way.
A COMMIT that is applied may lose its answer: Kysely throws, and the caller gets
the same 500 with the rows written (`Commit`). Writes and
COMMIT are one action, because no write of these transactions waits for a row
that the transaction has not locked, apart from the unique keys: there the
second inserter waits for the first, then fails, which is the outcome modelled.

Locks are a holder per row. A `SELECT ... FOR UPDATE` is enabled while the row
is free, and returns the row as committed at that moment, which is what READ
COMMITTED re-evaluates after a wait. The `LIVE`, `ABSENT`, `DELETED` states of
a program stand for its row's presence. Foreign keys are on both sides: a program
with rows that refer to it is not deleted, and a row whose program is gone is not
inserted. Releases and outbox rows have an `id` of their own, as in the code, so
that a second INSERT of the same release or event is a second row (`NextId`);
nothing else is done with the number. Amounts are integers: NUMERIC(19,4)
values have one scale, so addition and comparison are those of integers.
`Quotes[i]` is the set of USD amounts an invoice may convert to, so an FX rate
may differ between two requests; `CapacityMoney` shows that the strings of the
code give the same answers.

Two defences protect an invoice, its row lock with the recheck and the partial
unique index on ACTIVE reservations. Both are modelled. Dropping only one of
them violates nothing, which is why no mutant does that.

`CapacityLedger` is what callers may rely on: a command takes its whole effect in
one step or none, a refusal or an answer says which, and an error says neither
(`Fail` without the effect, `Perform` with it). Asking again is then safe: what a
first request wrote, the second finds (`ReleasedExactlyOnce`,
`OutboxMatchesTables`, the "Duplicate" and "AlreadyReleased" answers), or is
refused, as a repeated reservation is. Its reply set leaves out "already
exists", "reservation not active", "invoice not releasable", "version changed"
and "inbox without audit": the code has these branches and `ImplementsLedger`
shows that none is reachable. The summary makes no promise of an instant: the
code reads the program and the sum in two statements.

### OutboxPublisher

Row n has the n-th `created_at`. A writer takes its stamp (`TakeCreatedAt`)
before it waits for locks, and commits or rolls back later (`EndTransaction`),
so rows appear in another order than they are sorted by. `Poll` takes the
`batchSize` oldest unpublished rows; the loop then handles each one by
`IncrementAttempts`, `Append`, `Acknowledge`, `MarkPublished`, or `Skip` when its
key failed in this poll. `Fail` is any of the three calls throwing, with the
effect having happened or not. `Stop` is `onModuleDestroy`, `Exit` the end of
the process, at any point, and `Restart` its next start. `earlier[n]` is a
history variable: the rows already committed when n's stamp was taken.

Assumed: one instance (the class comment says so), distinct `created_at`
stamps for rows that follow each other, a message key on every row (all three
writers set the program id), and a request that failed is not appended later
(the producer is idempotent).
Order is tracked per key over all topics together, which is stronger than
Kafka's order per partition.

### KafkaConsumer

`kind` is the registration's: `single` for `@ConsumeOneMessage`, which the
reconciliation handler uses, `batch` for `@ConsumeBatch`. Both loops share the
attempts and the dead letter; they differ in where the offset is committed and
in what a failed dead letter does. `position` is where kafkajs reads on: it
moves when `eachMessage` returns, or on `resolveOffset`, whether or not an
offset was committed, and falls back to the committed offset on a start or a
rebalance. A commit is refused once the group has rebalanced (`stale`); it may
also be applied and its answer lost. A handler call returns or throws as it
likes, so that nothing depends on which messages are poison. What kafkajs and
the broker do is not in the repository; it is modelled as the runner uses it,
and marked external. `BlankKeys` are messages whose key is there but blank: the
producer refuses a dead letter with such a key, and the batch it is in, before
it sends anything (`Refused`). One consumer instance is assumed: a second one that takes
the partition over while a handler still runs is not modelled.

### BulkReconciliation

The runner is `KafkaConsumer` with a single-message handler, taken over by
INSTANCE; its `step = "invoke"` is filled with the loop of `reconcileBulk`. `next`
is the entry worked on, `failures` the indices collected so far. `EntryReturns`
is an entry processed now or found in the inbox, `EntryThrows` a missing program
or any failing statement, with `CommitEntry` done if only the answer to COMMIT
was lost. `CallEnds` returns, or throws the report of failures, or throws at
once for a message that `mapBulkReconciliationMessage` rejects. One entry is one
step here because `CapacityService` shows that its transaction acts as one step
among other commands. `OtherMember` is another instance of the group, which
after a rebalance may work on the same messages while this one still runs; what
that instance commits to Kafka is not modelled.

### DecimalMath and CapacityMoney

A decimal string is a record of two digit sequences, before and behind the
point, so that leading zeros, missing decimals and different scales are there,
and the characters are not. `digits` and `scale` are the BigInt and the number
of decimals that `toDigitsWithScale` returns. `RangeError` is the throw of
`subtractDecimal`. A NUMERIC(19, s) column rounds what is written to it and
reads back s decimals: PostgreSQL's behaviour, marked external. `CreateInvoice`
stores a conversion of the amount that was sent; `Reserve` converts again, from
the amount as the invoice's column returns it. `DecidesInUnits` is what entitles
`CapacityService` to use integers. A rate below 10^-6 is excluded by
`MoneyAssumption`: JavaScript prints such a number with an exponent.

### UserAccounts

| Command | Statements, in order | Code |
|---|---|---|
| register | `FindByEmail`, `InsertUser`, `InsertToken` | `users.service.ts` 22-47, `auth.service.ts` 47-52, 120-135 |
| login | `FindIdentity`, `InsertToken` | `auth.service.ts` 54-80 |
| refresh | `FindActiveToken`, `FindOwner`, `Rotate` | `auth.service.ts` 82-118 |
| update | `FindByEmail` if an address is given, `UpdateUser` | `users.service.ts` 62-84 |
| delete | `DeleteUser` | `users.service.ts` 86-93 |

Each statement is its own transaction, except `Rotate`, which revokes and
inserts in one. The unique index on the address, the cascade from users to
tokens and the refusal to delete a user whom documents refer to are in the
statements they act on. Addresses are model strings with `Normal` for
`trim().toLowerCase()`. A JWT stands for its row; signing, bcrypt and sha256 are
external. Any write may be applied and its answer lost (`Done`), so that the client
gets a 500 for a rotation that was done: it holds a revoked token then and has to
log in again. `RotationAtomic` says that a rotation is never half done, not that
each failed one can be repeated. A registration that stored the user and not the
token leaves the account, and the repeated one is refused, with a reason that is
true; no property speaks against that. A rotation does not check that the token is still active, and the
model does not either: two refreshes of one token may both succeed.
`taken[w]` is a history variable: while w's request ran, another account had the
address it asks for.

### ValidatedStack, ValidationScenarios and LocalValidation

`ValidationScenarios` holds the code of `scenarios/*.ts` as sequences of steps,
`Plan` their order in `local-validation.ts`. A step is one thing the body awaits:

| Step | Code |
|---|---|
| `Ask` | a request and the status expected of it |
| `Race`, `Collect` | the requests of a `Promise.all`, or single ones, whose statuses a later check compares |
| `Check` | a read through the API, SQL, Kafka or `docker compose`, and the assertion on it |
| `Await` | a poll of `wait.ts`, until its fact holds or its deadline passes |
| `PublishTo`, `Flush` | a treasury message; `ReconciliationFlusher`'s sentinel and the poll for it |
| `Run`, `Do("migrate")` | a command of `docker compose`, or `migrate.js`, with its exit code looked at or not |
| `ReadVersion`, `Track`, `Do("remember")`, `Do("baseline")` | what the driver keeps for later steps |

`try`, `finally` and `after` are positions in a body's steps, for the two
scenarios that break the stack and mend it again. `LocalValidation` takes the
steps one by one; `Throw` goes on at `finally`, or ends the scenario. `StartScenario`
skips a scenario whose dependencies have not passed, `BlockMain` is the gate
behind `health-readiness` and `baseline-snapshot`, `Verdict` the result and with
it the exit code.

`ValidatedStack` uses the writes of `CapacityTables`, with a request or a
treasury entry as one step, as `CapacityLedger` promises of the interleaved code;
its outbox and consumer promise what `OutboxPublisher` and `KafkaConsumer` show.
Between any two steps of the driver, the consumer may handle entries and commit
offsets, the publisher publish, the application come up. A message that an
earlier, aborted run left behind may be there at the start, as may any state of
the containers.

A command may also never come back (`CommandHangs`): `runCommand` resolves when its
child's pipes are closed, and the timeout kills the child only, not what the child
started (`docker` its plugin, `npm` a shell and jest). The run then has no report
and no exit code, `final = "HUNG"`, at whatever step that awaits a command,
polls whose probe is one included. The baseline keeps the ten oldest programs;
the model, without their ages, any `SnapshotLimit` of them.

The probe's Kafka producer is not idempotent and retries, so a treasury message
may be appended twice with one success told. `Publish` appends it once: the second
copy comes behind the first in the same partition, and the inbox skips each of its
entries (`InboxMatchesAudit`, `RedeliveryHarmless`). `ChecksSeeDelivered` is
therefore about the first copies.

What goes wrong is counted in `disturbances`: a request refused or its answer
lost, a command that fails with or without its effect or hangs, a message that ends in
the dead letter topic, a crash of the application, a rate that moves between an
invoice and its reservation, a poll whose deadline passes too early. Otherwise
a deadline passes only when the stack is `Quiet`, since each is far longer than
what it waits for. `startedIn`, `reached` and `baseline.backlog` are history
variables: how the stack was when the scenario began, the most entries a
message had handled before a crash, whether an old message was still under way.

Of two requests in a race the one named first is taken first: they differ only
in the invoice's name. A conversion that fails may be any status of 400 or
above to the driver; the code answers 502.

## Runs

| Run | Question | Instance |
|---|---|---|
| `service` | do the locks keep every read current, without deadlock, and implement the ledger | 2 workers, 1 program, 2 invoices of 1 or 2 units, total 2, 3 entries |
| `two_programs` | may an invoice be financed through two programs; is every command answered | 2 workers, 2 programs, 1 invoice |
| `summary_underflow` | finding: a summary fails although nothing is oversubscribed | 2 workers, 1 program |
| `outbox` | are events lost, invented or reordered, and is every one published | 3 rows, 2 keys, one refused, batch of 2 |
| `outbox_starvation` | finding: a refused key starves the others | as `outbox` |
| `consumer` | what may an offset pass, and is the partition ever blocked | 3 messages, the last with a blank key, chunks of 2, 2 attempts, both kinds |
| `consumer_gap` | finding: a commit passes an unprocessed message | single |
| `bulk` | is every entry of a handled message recorded, and redelivery harmless | 3 messages: two programs, an older snapshot, a malformed one |
| `money` | do strings decide as integers do | 3 totals, 5 amounts, 4 rates, 2 reservations |
| `money_snapshot` | finding: a stored rate does not give its amount | as `money` |
| `users` | does an address stay one account's, are refusals true, is rotation atomic | 2 handlers, 2 accounts, 3 tokens |
| `validation` | does a run look too early, fail without a cause, or pass wrongly, and does it end unless a command hangs | all scenarios, 1 iteration, 1 round, 1 program of an earlier run, 1 disturbance |

Why the bounds are enough to be interesting. Two workers are the least that
interleave, and every hazard listed is between two transactions on the same
rows; they also overtake each other at a lock. Two
units of capacity and two invoices let two reservations fit, exactly fit, or
exceed. Two entries of one version in two batches with different totals, one
lower than what may be reserved, and a newer one cover stale, repeated,
disagreeing, late and shrinking snapshots. `MaxReservations` (rows of the table)
only limits how many reservations are requested. Three outbox rows with a batch
of two leave a row behind any batch, and let the refused key have none, one or
all of the places in it. Three messages in chunks of two are one full and one
short chunk, and leave a message behind any failure. The money amounts and rates
include zero, ties of the rounding, more decimals than the column, carries
through all digits and exact fits. Two accounts and two handlers are the least
that compete for an address (one client types it with a capital letter), and
three tokens let two refreshes of one token both rotate it. In `validation` one
iteration and one round are enough because later ones use other names; the one
disturbance (`MaxDisturbances`) may come during the scenarios of `DisturbedIn`,
which are one of each shape: the start, the baseline, a wait for treasury
messages behind a sentinel, the two with a `finally`, and the restart; crashes
come in `CrashIn`, those where the code starts or restarts the application, and
the baseline. With these bounds the run is 460 steps deep. Symmetry is used on
workers only, in runs without liveness.

Fairness. In `two_programs`, handlers keep running (weak fairness of the other
statements, since Node.js always resumes a resolved promise) and a lock
statement is strongly fair: PostgreSQL queues waiters of a row first come,
first served. In `outbox`, the timer fires, each call returns or
throws and the loop moves on (weak); for a key Kafka accepts, a call made
again and again does not fail each time (strong); and crashes are any finite
number (`StaysUp`). Nothing is assumed of the refused key. In `consumer`, calls
return or throw, kafkajs fetches, rejoins and is started (weak); a dead letter
and its commit, tried again and again, do not fail each time (strong); crashes,
stops and rebalances are finite (`StaysMember`). Nothing is assumed of the
handler, nor of a dead letter that the producer refuses for its key. In `validation`, the driver or the stack goes on while either can
(weak): the driver is one promise after another, and a poll ends at its deadline
as long as its probes return. That a command returns is not assumed: one that
hangs ends the run as `HUNG`, and `RunEndsOrHangs` says that nothing else keeps a
run from its report.

## Findings

* `UnderflowMeansOversubscribed` (`decimal-math.ts`): `GET /programs/:id` reads
  the program and its reserved sum in two statements. When a raised total and a
  reservation commit in between, the subtraction throws and the request answers
  500, for a program that was never oversubscribed.
* `KeysProgressIndependently` (`outbox-publisher.service.ts`): when a refused
  key has `batchSize` old rows, each poll reads just these, and other keys'
  events wait for ever. `PublishedUnlessCrowdedOut` is what does hold.
* `CommitContiguous` (`docs/specs/ARCHITECTURE.md`): after a message's retries
  and its dead letter have failed, the single handler returns, kafkajs goes on,
  and the next commit passes the message, which is lost. The batch handler
  breaks off instead. `PassedMessagesDone` says exactly what may be passed.
* `SnapshotExact` (`0005_create_invoices_table.ts`): the rate is stored with six
  decimals, the converted amount was computed with all of them, so a stored
  conversion with a small rate does not give its own amount.

Others that no run checks. `docs/specs/BUSINESS.md:151` asks that available
capacity never becomes negative; a newer snapshot may replace the total with one
below the reserved sum, and `CapacityLedger` allows it. What holds, and is
proved, is that no reservation does it (`ReserveNeverOversubscribes`). And the
offset commit is inside the retried block, so when it fails on the last attempt
a message that was processed is dead-lettered. `docs/specs/INFRASTRUCTURE.md:217`
says that poison messages must not block a partition forever. A dead letter keeps
a key that is present but blank (`kafka-consumer-runner.service.ts:333`) and the
producer refuses blank keys (`broker-kafka.service.ts:69`), so a batch with such a
message, whose handler keeps throwing, is fetched again for ever. No handler of
this repository takes batches; the single handler gives the message up.
`PartitionNeverBlocked` has the exception (`MayBeRefused`), and is violated
without it. About the validation:

* `README.md:114` says that a reservation uses the invoice's own FX snapshot;
  `ReservationsService.create` converts again (`reservations.service.ts:56`). The
  live FX scenario (`scenarios/fx.ts:99`) asserts that both carry the same
  amount, so it fails when the rate moves in between; in the model that is a
  disturbance.
* `README.md:224` says that the exit code is non-zero if any mandatory scenario
  does not pass; it also is when an optional one fails (`local-validation.ts:350`).
  The mutant `VerdictOfMandatory` shows why it should: the optional FX scenario
  may leave the stack with the wrong provider.
* `scripts/local-validation/support/wait.ts:5` promises "never an unbounded wait",
  and `compose.ts:91` bounded polling. Both look at their deadline between two
  probes only, and a probe through `docker compose` does not resolve while a
  process that outlives the killed child holds its pipes (`shell.ts:39-63`).
  `CommandHangs` has this; without the exception `RunEndsOrHangs` is violated.
* `local-validation.ts:44` says that runs can be repeated without cleanup. The
  baseline is taken while a message of an aborted run may be unconsumed, and the
  comparison with it then fails: `baseline.backlog` in `FailureHasCause`.
* `scenarios/fx.ts` ignores the exit code of the command that restores the
  provider, and takes an empty output of `printenv` for its absence. Both have to
  fail for the run to go on with the wrong provider, so one disturbance does not
  show it. `scenarios/final-checks.ts:114` finds no secrets in logs it could not
  read.

## Proofs

All theorems hold for any sets of workers, programs, invoices, entries and any
amounts, under the named assumptions of the modules (`TablesAssumption`,
`WorkersAssumption`, `OutboxAssumption`, `ConsumerAssumption`,
`AccountsAssumption`, `BulkAssumption`, `MoneyAssumption`, `StackAssumption`,
`ScenariosAssumption`, `ValidationAssumption`, `PlanAssumption`,
`DisciplineAssumption`, `EndAssumption`): the parameters
are natural numbers, entries name programs, messages are sequences of entries,
normalizing an address twice is normalizing it once, amounts are decimal strings
and rates are zero or at least 10^-6, and the plan's scenarios depend on earlier
ones, use names of the instance, have their `finally` behind their `try` and keep
to `PlanDiscipline`, and earlier runs left finitely many programs. TLC evaluates
them in the runs.

`CapacityServiceProofs`: `TypeInv` adds to `TypeOK` which command a worker at
each statement serves; without it `ProgramOf(w)` has no type. `LocksOK` says who
holds which row at which statement, and that a worker elsewhere holds none.

The module's second part is about what is read under those locks: `ReadsOK(w)`
says that it still holds. It is not inductive alone: that another worker's commit
leaves w's program row, invoice and reservation alone follows from `LocksOK`,
since a committing worker holds the lock of each row it changes. Their
conjunction `ServiceInv` is inductive (`ServiceInvariant`). From it:

* `NoStaleReads`: `LockedReadsCurrent`.
* `NeverOversubscribes`: a step that raises a program's sum is
  `InsertReservation`, which adds `local.usd` to it (`SumRowsUpdate` of
  `RowSumProofs`, by induction on the rows), and the invariant says that fits.
  A release lowers the sum and a snapshot leaves it alone.
* `NoDeadlock`: a worker waits only for a row later in the order program,
  reservation, invoice than all it holds, so in a group that waits for itself
  someone would wait for a row of a worker that holds none.

The last part is about the tables and the ledger. `TablesInv`, the conjunction of
the table properties, is inductive together with `ServiceInv` (`TablesInvariant`).
Each commit needs what the locked reads said: that an invoice read as OPEN has no ACTIVE reservation,
that the program is live, that an entry's version is newer than the locked
row's. The properties need each other as well. A program may be deleted only
when nothing refers to it, and `ReferencedProgramsLive`, an invariant of the proof only, says that the
snapshots of a deleted program cannot reappear; a reservation that is ACTIVE has
no release because of `ReleasedExactlyOnce`, and its invoice is RESERVED because
of `LifecycleConsistent`. From it follow `FinancedOnce`, `ReleasedOnce`,
`RecordedOnce`, `OneEventPerChange`, `NewestSnapshotWins`, and
the action property `CapacityMovesForward`.

`ImplementsTheLedger` is the refinement: `Spec => Ledger!LedgerSpec`, with each
request decided in the step that commits or refuses it. Its invariant
`LedgerInv` adds `PastOK(w)`, what w read before its transaction and still relies
on: an entry recorded then is recorded now, an invoice found then is there now,
the converted price is one of the invoice's `Quotes`. The proof has one lemma
per group of actions: the statements that only move on stutter
(`GotoStutters`), a refusal is one the ledger may give (`AnswerRefuses`), a
commit is the ledger's commit (`ReserveServes`, `ReleaseServes`,
`ReconcileServes`, `SummaryServes`), and the answers the ledger leaves out
contradict the invariant.

`OutboxPublisherProofs`: `PublisherInv` ties the loop's position to the current
row, and says that an older event of a row's key is published, still in the
batch, or has blocked the key. The batch is closed downwards
(`BatchDownClosed`, by cardinality), so a poll establishes it. It gives
`NoEventLostOrInvented` and `EventsOrderedPerKey`.

`CapacityMoneyProofs` first makes the functions of `DecimalMath` usable. The
prover does not know that a function defined by recursion exists: `RecursionOnNat`
shows it, for a step given as a function, and `Pow10`, `BigIntOf` and `DigitsOf`
are instances. By induction on digits, `BigIntOf` of an appended digit is ten
times the number plus the digit (`BigIntAppend`), leading zeros count for nothing,
and the digits of a number read back as that number (`DigitsReadBack`). So does
every formatted number, with its scale (`FormatReadsBack`): strings and pairs of
an integer and a scale are the same thing, and the rest is arithmetic.
`HalfUpIsNearest` is the rounding, the nearest integer and a tie upwards, for
every even divisor, which all powers of ten behind a point are; `RoundingKeepsFit`,
a price that fits before the rounding fits after it; `ConversionIsNearest` composes
product, rounding and column into what a conversion stores. `MoneyInv` then says
that `total` and the reserved rows have four decimals and the invoice is the
stored conversion of what was sent; a string with four decimals is its integer
(`MoneyIsUnits`). From it `MoneyTypes`, `InvoicesPricedOnce`, `SummaryExact` (the
throw is exactly a negative difference), `ComparisonAgreesWithSubtraction` (two
functions that align their operands each in its own way order them alike; the
service compares only strings with four decimals) and
`StringsDecideAsUnits`, on which the integers of `CapacityService` rest.

`KafkaConsumerProofs`: `ConsumerInv` says what a call works on at each step
(`CallOK`: the chunk is an interval of fetched messages that starts at the
position, by `ChunkIsInterval`) and that the committed offset is at most one
message ahead of the position (`CommitOK`), which happens when a single
message's commit was made and its answer lost. From it `NothingPassedOver` and
`CommitsOnlyForward`, for both kinds of handler, any chunk size and any blank
keys.

`BulkReconciliationProofs`: `RunsAsConsumer` is a refinement, each step of the
bulk system is a step of its runner or leaves the runner alone. The runner's
parameters satisfy `ConsumerAssumption`, so `KafkaConsumerProofs` is instantiated
and its invariant reused rather than proved again. `BulkInv` adds to it
`RecordedNewest`, an entry in the audit and the inbox has its program at that
version or newer, and cannot lose the program, since the audit row refers to it;
and `LoopOK`, what the loop has behind it is recorded or among its failures. When
the call returns there are no failures, which gives `HandledMeansRecorded`; that
other members, requests and retries only add to the inbox keeps it. From it
`HandledAreRecorded`, `EveryEntryTried` and `RedeliveryChangesNothing`, and,
together with the runner's `PassedMessagesDone`, `PassedAreAccounted`: what a
committed offset of the treasury topic says about the tables.

`UserAccountsProofs`: an address names one account because what is stored is
normalized and unique (`StoredOK`); the unique index alone compares strings.
`StatementOK(w)` and `AnswerOK(w)` say what a handler at each statement was
asked, and that `taken[w]` is set as soon as another account has its address.
The tables and the handlers are separate lemmas (`TablesKept`, `HandlersKept`), so
that each statement is proved once and the other handlers are covered by
`UndisturbedKept`. From it `AccountTypes`, `OneAccountPerAddress`,
`RefusalsHaveReasons` and `RotatedAtOnce`.

`LocalValidationProofs`: `StackOK` and `PlaceOK` are inductive together
(`ValidationInvariant`). A request, a command or the stack's own work keeps the
rows, containers and positions in the topic (`RequestKeepsStack`,
`CommandKeepsStack`, `StackKeepsStack`); a scenario's step only moves the driver on
or to its `finally` (`StepsMove`). That `Plan` is a sequence with `Main` in it
is proved from its definition (`PlanIsSequence`). From it `ValidationTypes`;
`ResultsKept`, a result stands; and `DependenciesCome`, a scenario runs and passes
only when what it depends on has passed, which needs both that results stand and
that a scenario in hand has none yet.

`ChecksAreNotEarly` needs something of the plan. `DisciplineAssumption` says it
of the text alone, without a state: a check of a program, and its tracking, come
behind a marker for each message that was sent on it, in the message's partition,
in the same scenario or in one that this one needs (`SeesDelivered`). A marker is
a flush with its poll, or a single snapshot whose version is above all that were
sent since the last read, with the poll for just that version (`Newest`); and a
version is only read again when the newest one sent was waited for
(`ReadInTime`). With the sentinel's message under its own key, the assumption is
false, and TLC says so. The invariant `DeliveryInv` then has, of the state:
versions under way are within those sent since the last read (`VersionsWithin`),
a version that was waited for has been reached (`VersionsReached`), the flusher's
own number is the highest (`VersionsFlushed`), and a message that is not a
leftover has a step of the plan behind it (`MessagesSent`). With these a marker is,
when it is sent, newer than all else on its program and the last of its partition
(`MarkerIsSent`), and stays so until it was handled (`StirringKeepsMarker`): the
program cannot reach that version by another message, which is why one poll of one
program says that a partition is empty (`MarkerSeen`). What is still owed has
therefore no marker behind it that was seen, or its scenario failed (`OwedOK`),
and no scenario that needs a failed one gets as far as its checks. It holds with
any number of crashes, dead letters, lost answers and late messages, which leave
`Stirs`, what the stack may do to the topic, as it is.

`PassIsKept` says what a run that ends with PASS leaves. A look at the stack tells
how it was then; that it still is so at the end needs three things. One is of the
plan's text, `EndAssumption`: there are mandatory scenarios that start the stack and
that look at the tracked programs, the broker and the outbox, behind the last step
that could undo what they see; an override of the provider is followed, in its own
scenario, by the command that takes it back, the wait for the application and the
look at its environment; and every message has its marker by the end of its
scenario. One is of the driver: while nothing has failed and no mandatory scenario
was left out (`AllWell`), the driver comes past a step only by completing it
(`CameMoves`), so each look it came past (`Came`) found its fact (`LookHolds`). The
last is of the stack: a step that is no request changes rows only by an entry that no
handler had seen (`TablesMove`), for which the invariant has to relate the inbox to
what was reached in the message in hand (`HandledOK`); and after the markers there
are no such entries but an earlier run's (`OwnDelivered`, `SeenDelivered`). The
inductive invariant `PassInv` adds these to `DeliveryInv`: the broker runs
(`BrokerOK`); the provider's address is another one only if more than one thing went
wrong (`FxOK`, which counts what each step of taking it back must have missed); the
baseline was taken before any program of the run existed (`BornOK`), rows are not
fewer than then, and the programs in it are as they were unless a message was under way
(`BaselineOK`); what earlier runs left is in its program's partition, and gone where a
marker was seen (`LeftoverOK`); and what is unpublished (`OutboxOK`) or tracked
(`TrackedKept`) is what it should be.

`PassMeansKept` is weaker than `PassMeansHealthy` in two places, both real: two
things that go wrong can leave the provider's override in place (see Findings), and
a message of an aborted run in a partition that no mandatory scenario waits for
(`Unseen`) may be handled, and its event unpublished, when the report is written.
`PassIsHealthy` proves `PassMeansHealthy` itself where neither can be, for
`MaxDisturbances <= 1` and `Unseen = {}`, which are the values of the run
`validation`.

Only model-checked:

* Liveness: `CommandsAnswered`, `PublishedUnlessCrowdedOut`,
  `PartitionNeverBlocked` and `RunEndsOrHangs` need fairness and ENABLED, which are
  outside the prover's reach.
* `FailureHasCause` is about one fixed program, the steps of `Plan`: that each
  request is answered as expected depends on all steps before it, so an inductive
  invariant would have to say for every line of the plan what the tables are like
  there; TLC executes the plan instead.

## Not modelled

* What JWT, bcrypt and sha256 compute, and the guards' own code: the validation
  model has what they decide, a request without a valid access token is refused.
  That an access token lives 15 minutes, which a long run could outlast.
* The FX provider's HTTP errors and response checks, which are one outcome, a
  request that fails; rates below 10^-6.
* Handler discovery, message parsing (a parse error is an attempt that throws)
  and backoff delays of the consumer; the connection handling of the producer.
* Renaming a program, list endpoints and other reads that change nothing.
* The FOR KEY SHARE locks that foreign keys take on parent rows: on rows the
  transaction has locked already, or on users, which these commands never lock.
* `reservation_events` and `release_events`, which no code writes; the int4 that
  holds a treasury version.
* Of the validation: redaction, the report's text, git and volume metadata, the
  log scan's patterns; a consumer group without an offset, which starts at the
  end of the topic; outages of PostgreSQL; more than one disturbance in a run.
* Of the migrations: their statements one by one, and `down`. Their constraints
  are in the tables' actions, and whether they have run is in the stack's state.
* HTTP validation, logging and configuration, which have no state of their own.

## Plan

Written in the order of the modules table: the capacity service first, then the
outbox, the consumer, money, the bulk messages, the accounts and the local
validation. Next:

1. `KafkaConsumer`: two instances of the group at once, so that a partition is
   taken over while a handler still runs.
2. `LocalValidation`: the plan's names as functions of its iterations and rounds,
   so that `DisciplineAssumption` becomes a theorem about `Plan`.
