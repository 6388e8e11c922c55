# Verification of LightweightProject

TLA+ models of the server in `src/server/src`, checked with TLC and proved with
TLAPS. Paths below are relative to `src/server/src`.

The server is a NestJS application with accounts (a local password and the
identity providers Google, GitHub and Yandex), JWT sessions, e-mail
confirmations through RabbitMQ, a nightly job that anonymises deleted accounts,
and a history of account events. It runs as two processes over one PostgreSQL,
one Redis and one RabbitMQ: the API (`main.ts`) and the e-mail consumer
(`microservice.rmq.ts`). **Both load `AppModule`**, so the nightly job runs in
both.

## 1. Inventory

| Component | State | Operations | Talks to |
|---|---|---|---|
| Authentication (`auth/`) | `users`, `authentications` (one row per user and provider, `metadata.local` = e-mail verification + password, `refreshToken`) | sign up, verify e-mail, sign in/out, refresh, reset password, reactivate, restore, sign in through a provider | tokens, events, e-mail queue |
| Users (`users/`) | `users.isDeactivated`, `deletedAt`, `anonymizedAt` | deactivate, delete, anonymise | authentication, blacklist |
| E-mail queue (`services/rmq/`, `microservice.rmq.ts`) | main, retry and dead queue, `x-retry-count` per message, unacknowledged deliveries | emit, deliver, ack, republish with delay, dead-letter, reject | e-mail sending |
| E-mail sending (`services/rmq/rmq.email.service.ts`) | writes `metadata.local` and `events` in its own transaction | four mails with links | SMTP, events |
| Nightly anonymisation (`services/cron/`) | the batch it read | find 25 users deleted 30 days ago, anonymise each, commit, repeat | users |
| Tokens and blacklist (`tokens/`, `services/redis/`, `auth/strategies/jwt.strategy.ts`) | Redis keys with a time to live | generate, verify, blacklist | Redis |
| Account history (`events/`) | `events` | one row per event, written by an `EventEmitter2` handler nobody awaits | the emitter's transaction |
| Configuration, controllers, admin panel, health, utilities, entities | - | - | - |

What is hard in each of them, and what makes it correct:

* **Handlers read first and open a transaction later.** `signIn`, the three
  confirmations, the password reset and `deactivate`/`delete` evaluate their
  guards on rows read outside the transaction; between the read and the write
  they await a password hash or a connection. Correct means: one session per
  user, nobody in a closed account, a link used once, a verified address that
  stays verified - in every interleaving.
* **Read-modify-write of JSON.** `metadata.local` is written back as a whole
  from the snapshot (`auth.service.ts:584`, `rmq.email.service.ts:125`).
* **`manager.save` of a stale entity.** TypeORM loads the row again and writes
  every column in which the entity in memory differs: the nightly job can write
  an old `deletedAt` back (`users.service.ts:291`).
* **At-least-once delivery.** A message may be handled twice, a handler may
  outlive its channel, sending the mail is not transactional, the process may
  die between republishing and acknowledging. Correct means: nothing is lost
  silently, nothing is given up before its retries are used, every duplicate
  mail has a cause, the queues drain.
* **Two processes run the nightly job** on the same rows with no lock at the
  read. Correct means: whoever is deleted long enough is anonymised in the end,
  nobody else is, and an anonymised account stays closed.
* **Time.** Message expiry at the head of the retry queue, blacklist entries
  that expire, a refresh racing a sign-out. Correct means: no message waits
  longer than the longest delay, a refresh does not prolong a session.
* **Emit inside a transaction.** `localSignUp` sends its message before COMMIT:
  the consumer may look for rows that are not there yet, or never will be.
* **An event handler that is not awaited** uses the request's transaction after
  it may have ended. Correct means: the history tells of committed transactions
  only, and the nightly job gets the address out of all of it.
* **Locks and pools.** Transactions lock `users` and `authentications` in
  different orders, and `localSignUp` asks for a second connection while it
  holds one. Correct means: every transaction ends.

Each of these is in `PROJECT.json` under `hazards`, at its line, with the
properties that cover it or the reason none does.

## 2. Modules

| Module | What it is |
|---|---|
| `RmqRetry` | the e-mail queue: RabbitMQ's three queues, the consumer, `RmqRetryService` |
| `MailDelivery` | what that queue promises: at-least-once delivery with giving up |
| `MCRmqRetry` | model values for TLC |
| `RmqRetryProofs` | proofs about `RmqRetry` |
| `SumLemmas` | sums over finite sets: the facts about `MapThenSumSet` the proofs need |
| `MailDeliveryProofs` | `RmqRetry` implements `MailDelivery`; its duplicates are paid for |
| `RetryBackoff` | the same queue with its order, its delays and the transaction that emits |
| `MCRetryBackoff` | model values for TLC |
| `RetryBackoffProofs` | proofs about `RetryBackoff`: order, delays, refinement of `RmqRetry` |
| `QueueCountProofs` | its queues agree with the counts; what it inherits from `RmqRetry` |
| `Accounts` | the life of an account: requests, mails, the nightly job over `users` and `authentications` |
| `MCAccounts` | model values for TLC |
| `AccountsProofs` | proofs about `Accounts` |
| `Transactions` | the same transactions against row locks, connection pools and the account history |
| `MCTransactions` | model values for TLC |
| `TransactionsProofs` | proofs about `Transactions` |
| `Tokens` | access tokens, the refresh token and the Redis blacklist against a clock |
| `MCTokens` | model values for TLC |
| `TokensProofs` | proofs about `Tokens` |

`RetryBackoff` extends `RmqRetry`, which implements `MailDelivery`. `Accounts`
looks at what transactions read and write: those that set a session take their
rows one by one, the others are one step. `Transactions` opens all of them up
and looks at locks, connections and history rows.
`Accounts!Abort` stands for what `Transactions` shows can happen to a request:
a deadlock, a failure, a rollback.

`PROJECT.json` maps every definition to the lines it stands for.

### RmqRetry

`at[stage][copy]` counts the copies of a message, a copy being a message with
the `x-retry-count` it carries. `handling`, `mailed`, `failed` and `forwarded`
are the points of `eventsHandler` between which the process can die or a
statement can throw: the handler runs, `sendMail` has resolved, it threw,
`sendToQueue` is done and `channel.ack` is not. `aux` says whether the retry and
dead queues exist: `setupRmqTopology` asserts them at boot only, on a
connection of its own; the Nest listener that reconnects asserts the main queue
alone. `orphan` counts handlers that go on after their channel is gone.

Faults are a lost connection, a restart of the consumer process and a restart of
the broker, which with `RABBITMQ_DURABLE=false` takes queues and messages away.
`InternalError` is the `nack` without requeue. Fairness: the broker delivers to
a free consumer, handlers end, timers expire, the process goes on to its next
statement; no fault is fair. These are the guarantees of an event loop and of a
broker that is up.

Left out here: the order of messages and the delays (`RetryBackoff`), and
message contents.

### RetryBackoff

Every action is an action of `RmqRetry` with a guard on the order or the clock,
and the queues as sequences beside their counts: `mainQ` and `retryQ`, where
each copy has been for `waited` seconds. `ExpireHead` looks at the head alone,
as RabbitMQ does with per-message expiration; a copy behind it waits, whatever
its own delay. `Tick` is a second, and none passes over a head that is due.
Unacknowledged deliveries come back to the front, in any order.

`Emit` is a sign-up inside its transaction (`outcome` = open) or a handler that
emits after COMMIT. Until `CommitEmitter` the consumer's lookup fails, after
`RollBackEmitter` it fails for ever. `age`, `inTime` and `glitch` are ghosts:
how old a message is (up to the sum of all delays), whether its rows were
committed before that, and whether its last run failed although they were.
What `microservice.rmq.ts:40` says of a message ("When job's ttl is out, send to
default exchange") holds of the head only; `WaitBounded` is what holds of all.

### MailDelivery

Three phases per message (new, owed, closed), the mails sent and the messages
given up. A message is closed only if it was mailed or given up, and an owed
message is closed in the end. `RmqRetry` maps onto it with `phase` and
`givenUp`. TLC checks `DeliverySpec`: the steps, and that what is owed is closed
in the end. The steps alone (`DeliverySteps`) are proved for every instance on a
broker that keeps queues and messages.

### Accounts

A handler is two actions. `Begin...` is its read: the guards of the code,
evaluated on what it reads, and the part of the snapshot it uses later, kept in
`req[r]`. `Commit...` is its transaction, with every write it makes: for
`localEmailVerification` that is the metadata from the snapshot, the refresh
token on the local authentication, `null` on the others. Anything may happen in
between. `Abort` stands for every failure, deadlocks and unique violations
included. `signIn` inside `idPAuthentication` is a second pair: `CommitIdp`
leaves a sign-in request behind.

Sign-in, verification, reactivation and restoration set a session with two
UPDATEs, the token on one authentication and `null` on the others. They are
steps: `UpdateOwn` locks the first row, `UpdateOthers` starts the second
statement on the rows it sees, `LockOther` takes each of these when it is free,
and `SetSession` is part of the COMMIT, where the writes appear. Two sign-ins of
one user, local and through a provider, take the rows in opposite orders; each
may wait for the other, and then one of them aborts. A transaction that writes
authentications with one statement (deactivation, deletion, sign-out, password
reset, the job's batch) is one step, possible while nobody holds the rows
(`Free`). What a transaction writes to `users` appears at its COMMIT too.

TypeORM's behaviour is modelled, because the properties depend on it:

* `find...` without `withDeleted` does not see soft-deleted rows, in joins
  either (`Found`, `BeginVerify`);
* columns that are not selected are `undefined` (`BeginIdp` has no `deletedAt`);
* `manager.save` compares with a fresh row and writes the differences
  (`JobSave`, `Written`, `JobCommit`);
* `update` with a JSON column replaces it (`CommitReset`, `CommitMail`).

`sendEmailVerification` has three steps of its own (`ReadForMail`, `SendMail`,
`CommitMail`), as the mail is out before the metadata it read is written back
and committed; from the update to COMMIT it holds the row lock (`Free`).
Links carry no purpose: the tokens in verification, reactivation and restoration
mails have the same payload and secret, so `links` is one set. A reset link is
signed with the password hash it found, hence `resetLinks`.

Time is one event: `Age`, thirty days after a deletion, when requests have long
ended and links and access tokens have expired. Other expiry is left out: a link
may be used at any time before, which allows more behaviours. An account is one
e-mail address; a new sign-up with the address of an anonymised account makes
a new row, which is another account.

### Transactions

A slot runs one transaction of one kind. `SignUpSteps`, `SignInSteps` and so on
are its statements in the order of the code: `own`, `others` and `all` are
UPDATEs of `authentications`, `users` one of `users`, `refer` an INSERT with a
foreign key to `users`, `events` the UPDATE of the history, `lookup` a query on
a second connection, `reload` one on its own, `log` an emitted event and `mail`
the awaited `sendMail`. A statement locks its rows one after the other in no
fixed order (`Ask`, `Grant`), in PostgreSQL's modes: FOR KEY SHARE for a foreign
key, FOR NO KEY UPDATE, and FOR UPDATE where a unique column changes: a user
name, or the address when the job replaces it (`Modes`). The job of the other
process, which saves a row that is anonymised already, may change no unique
column, and then takes the weaker lock; the model has both. Locks are kept to
the end.

The history row of a request goes through `log`: emitted, its INSERT queued
behind the statements of the same connection and waiting for the foreign key's
lock, written, and with COMMIT in `history`. Nobody awaits it: where nothing is
awaited after the event, COMMIT may overtake it, and the INSERT then runs in no
transaction (`InsertLate`) or nowhere. If a deadlock ends the transaction in the
INSERT, only the event's handler is told: the request goes on in an aborted
transaction, and its COMMIT is a quiet ROLLBACK (`silent`).

`Used` counts the connections of each process against `PoolSize`. `Cycle` is a
minimal set of transactions that wait for each other, `Victim` the one that
PostgreSQL ends. The nightly job takes a batch in the order of the ids, and may
run in both processes; as it keeps users in its batch that were restored since
it read them, any request may run beside it on the same user. That allows
somewhat more than the code: a request on a user who is still deleted would
mostly be refused before its transaction.

Left out: waits for unique indexes, PostgreSQL's queue behind a tuple lock,
lookups before a transaction, a sign-in through a provider that creates the
user, the branch of `idPAuthentication` that is never taken (`IdpRestores`), and
the connection a late INSERT uses.

### Tokens

One authentication of one user against time. A JWT counts in seconds, Redis
and `Date` in milliseconds: `now` counts ticks, `Ticks` to a second, so that
`Ttl` rounds as `addToBlacklist` does. `exp` holds the expiry of each access
token, `refresh` that of the token in the row, `redis` the expiry of each key.
A key has the two forms the code uses, `<jwti>` (`isBlacklisted`) and
`blacklist:jwti:<jwti>` (`addToBlacklist`).

`refreshAccessToken` is a read (`BeginRefresh`) and an answer (`FinishRefresh`,
`RefuseRefresh`); `signOut` stores the entry (`Blacklist`) or throws because
SETEX refuses zero (`SignOutThrows`), then clears the row (`ClearRefresh`).
Between reading the clock and what it is read for - the verification of the
refresh token and the making of the access token, the time to live and the
SETEX - up to `Lag` ticks pass, less than a second (`Recent`). `CloseProfile` is
deactivation and deletion, whose two writes are in two stores;
`CloseProfileFails` is the COMMIT that fails after Redis has answered. A sign-in
is one step: its races are the subject of `Accounts`, and here only what it
leaves behind matters. `since` and `started` are ghosts that say which sign-in
an access token goes back to, `orphans` counts the access tokens made since the
session ended.

## 3. Runs

| Run | Question | Instance | Result |
|---|---|---|---|
| `RetryBackoff` | what can a fault between any two steps do to a message, and when is it given up? | 1 message that a fault may duplicate, 2 retries, 2 deliveries in hand, 1 fault, durable | passes |
| `RmqRetryLiveness` | does the retry loop end, and does the queue deliver what it owes? | 2 messages, 1 retry, 1 delivery in hand, 1 fault, durable | passes |
| `RmqRetryNonDurable` | and with the shipped `.env.public`? | 1 message, non-durable | **violated** |
| `AccountsRaces` | what can two requests, row by row, and repeated mails do to sessions and verified addresses? | 1 account, local + 1 provider, 2 requests | passes |
| `AccountsNightly` | the job in two processes beside a request and a mail: who is admitted, who is anonymised, what is undone? | 1 account, local, 1 request, mails sent once, 2 jobs, 2 password hashes | passes |
| `AccountsDoubleReset` | is a reset link used once with two requests? | 1 account, 2 requests | **violated** |
| `AccountsRestoreAtMidnight` | a restoration while the job runs? | 1 account, 1 request, 1 job | **violated** |
| `AccountsIdpRestore` | does signing in through a provider restore? | 1 account, 1 provider, 1 request | **violated** |
| `TokensClock` | do the clocks fit: entry and token, access and refresh token? | 3 access tokens, 2 requests, 2 ticks a second, 4 seconds, half a second between clock and act | passes |
| `TokensBlacklist` | is a signed-out token refused? | 1 access token, 1 request | **violated** |
| `Transactions` | which transactions deadlock, do all end, is the history true? | 2 transactions of any kind, 2 users, local + 1 provider, pools of 2 | passes |
| `TransactionsHistory` | does anonymisation leave an address in the history? | 2 transactions, 1 user | **violated** |

TLC's deadlock check is off: every message may be settled, every request and
transaction ended and the clock at its bound, and then nothing has to happen.
`EveryTransactionEnds` is what speaks of the deadlocks of the system.

**Bounds.** One account suffices: no guard or write relates two accounts, save
the nightly batch, which fails and commits as a whole; a second account only
multiplies the states. The proofs are for any number. Two
requests show every race of a read with one commit; a third adds no new pair,
and the job and the mail handler are further actors. One provider beside the
local one is enough to disagree about the session. `MaxPasswords = 3` lets a
sign-up, a reset and the repeated use of a link happen, 2 a sign-up and a reset
(`AccountsNightly`); it is 1 in `AccountsRaces`, as resets do not touch sessions.
`AccountsNightly` has no provider: two jobs, a request and the verification mail
are four actors on one row already; in it one request is in flight at a time and
mails are sent once. Metadata is written back late by confirmations, resets and
mails. `AccountsRaces` has two requests, a provider and mails that are sent
again, so late confirmations meet redelivered mails; `AccountsNightly` has late
resets and the job. The theorems (`VerifiedStaysVerified`,
`AnonymisedStaysClosed`) have all of them together, any number of requests,
providers and jobs, and mails sent any number of times.
`MaxAborts = 1` lets the job fail and be repeated. In `RmqRetryLiveness` one
retry has all branches (republish and dead-letter), two messages share the
prefetch window, and one fault may strike at every point. `RetryBackoff` has two
retries, so that delays differ (2 and 3 seconds with `BaseDelay = 1`), and one
message, whose requeued original and copy, after a crash between republish and
acknowledgement, overtake each other in the retry queue. In `Transactions` two
transactions of any two of its thirteen kinds make every deadlock of two and
use up a pool of two; two users let a batch go on from one to the next. Three
transactions on one user were checked as well, without liveness and not as part
of the runs. What TLC cannot reach, a deadlock of more, `PatientNeverDeadlock`
covers.
In `TokensClock` an access token lives 2 seconds, a refresh token 3 and time
ends after 4 (`MaxTime` = 8 ticks); `Lag` is one tick. An access token expires
while its session lasts, and the last refresh is made in the session's last
second, with the clock moving on before its token is made; that token's expiry,
which `SessionHorizon` bounds, is set then. Two ticks a second make both
roundings, of a whole and of a half second. Three tokens are a sign-in and two
refreshes, or two sign-ins.

**Fairness of `Accounts!FairSpec`.** `JobFind`, `JobSave` and `CommitMail` are
statements that return; `Age` is time. `EndTransaction`: a transaction that holds
row locks ends, with COMMIT or, if only because PostgreSQL finds it in a
deadlock, without. `JobCommit` is strongly fair: it waits
for row locks, and PostgreSQL queues lock requests in order. Aborts are
bounded by `MaxAborts`: a job that fails every night anonymises nobody.

**Fairness of `Transactions!FairSpec`.** Weak fairness of each slot's progress:
a statement returns once its locks are free, a mail is sent or times out, a free
connection is given to who waits, PostgreSQL looks for deadlocks
(`deadlock_timeout`). No failure is fair. A slot runs one transaction, so that a
lock is not taken from a waiting transaction for ever by new ones, which
PostgreSQL's lock queues do not allow either.

### What the violated runs show

* `FailedIsStored` (`microservice.rmq.ts:31`): after a broker restart with
  `RABBITMQ_DURABLE=false` nobody asserts the retry and dead queues again; the
  default exchange drops what is sent there and the original is acknowledged.
* `OneAttemptPerLink` (`auth.service.ts:571`): two confirmations with one link
  read the same password hash, and both change the password.
* `OnlyLongDeleted` (`users.service.ts:291`): the job reads users without a
  lock; one who is restored before the write is anonymised.
* `IdpRestores` (`auth.service.ts:857`): the restore branch looks at a column
  that is not selected; the deleted user is then not found and the transaction
  rolled back.
* `SignedOutIsRefused` (`tokens.service.ts:97`): the guard asks Redis for a key
  nobody writes; a token works until it expires, signed out or not.
* `AnonymisedLeavesNoAddress` (`users.service.ts:301`): a confirmation or a mail
  beside the job inserts its history row after the job has replaced the address
  in the others; no later night looks at an anonymised user again.

### What the passing runs show

* Queue: nothing vanishes (`NoSilentLoss`), nothing is dead-lettered before
  `MaxRetries + 1` failures (`DeadOnlyAfterBudget`), and without a requeue or a
  failed commit a message is mailed once (`MailsPaidFor`). A copy behind others
  in the retry queue waits for the longest delay at most (`WaitBounded`), and a
  message is given up only after all its delays (`GivenUpLate`): a sign-up whose
  COMMIT comes before that is mailed, unless its last run failed for another
  reason (`CommittedInTimeIsMailed`).
* Accounts: a user has one session (`SingleSession`), although it is set by two
  UPDATEs and two sign-ins take their rows in opposite orders; a deleted account has one only if the request that made it had read the account before the deletion
  (`DeletedStaysOut`) - such a request does get in, which is the exact extent
  of the race; the same of a deactivated account (`DeactivatedStaysOut`), but
  for two confirmations that do not look at `isDeactivated`
  (`auth.service.ts:244`, `:722`) and are named in the property - leave either
  out and TLC shows the sign-in; every long-deleted user is anonymised or restored
  (`EventuallyAnonymised`); what each request relies on between its read and
  its write stays true (`RequestsFounded`).
* Tokens: the comment of `addToBlacklist` ("Calculate time to live (TTL) in
  milliseconds for the token in Redis") is about a number of whole seconds; the
  entry would end less than a second before its token, and outlive it by no more
  than SETEX comes late (`EntryFits`; when no second is left it cannot be
  written, and the sign-out fails before the refresh token is cleared); refreshing with expired access tokens
  does not prolong a session (`SessionHorizon`); after its end, each refresh in
  flight makes one more access token at most (`RefreshStops`).
* The job: an anonymised account that is closed is opened again only by what had
  read it before (`AnonymisedIsClosed`). A request that had read it, and a
  restoration that overtakes the job, do open it: they are named in the property
  and excepted.
* A verified address stays verified (`VerifiedStays`) although confirmations and
  resets write back metadata they read earlier. `sendEmailVerification` can undo
  a verification: its read precedes the row lock, so when a link is out already
  (the message is handled again, or another mail's link was used) it may write
  unverified metadata over a confirmed address. The property names this case
  (`again`), and says that no other writer and no first mail can.
* Transactions: the history tells of committed transactions only
  (`HistoryIsTrue`); the job clears every row that is there when it commits
  (`JobClearsHistory`); a request is told of success and rolled back only beside
  a job (`SilentOnlyBesideJob`); every deadlock has a transaction in it that
  locks an authentication, or logs, before it locks the user
  (`DeadlockNeedsHaste`) - deactivation, deletion, the job and mails without
  metadata never deadlock among themselves; every transaction ends, unless
  sign-ups of new users hold all connections of the API's pool, each waiting for
  another one for its lookup (`EveryTransactionEnds`, `auth.service.ts:139`;
  that state is reachable and stays).

## 4. Proofs

TLAPS checks these for every value of the constants that satisfies
`RmqAssumption`, `BackoffAssumption`, `AccountsAssumption`,
`TransactionsAssumption` and `TokensAssumption` (counts and lifetimes are natural
numbers, most of them positive, `local` is no identity provider, request and
transaction slots are finitely many, and, as the provers know nothing of powers,
that 2^n doubles with n and grows).

* `RmqRetryProofs!TypeCorrect`. Counts stay natural: every decrement is guarded.
* `RmqRetryProofs!DeadLetterBudget`. The invariant is `FailuresCounted`: a copy
  has at least as many failed runs behind it as its stage and count say. Requeueing
  keeps the count, republishing adds one to both.
* `RmqRetryProofs!NoMessageLost`, on durable queues. `LossInv` adds to
  `NoSilentLoss` that the retry and dead queues exist (else a failed copy is
  dropped) and that a delivery in stage `mailed` has a mail to show (else `Ack`
  could drop the last copy).
* `MailDeliveryProofs!QueueImplementsDelivery`, on durable queues and persistent
  messages. The mapping reads `phase` off `published` and `Held`: has the broker
  any copy of the message outside the dead queue. Most steps keep `Held`, as they
  move a copy (`MoveCounts`), and map to a stutter, to `Mail` or to `GiveUp`. What
  must be shown is that the last copy leaves for a reason: `DeliveryInv` has
  `LossInv` for that, and `Known` - only emitted messages have copies or orphaned
  handlers - so that a late mail is never one of a new message.
* `MailDeliveryProofs!DuplicatesArePaidFor`. `MailsPaidFor` compares a mail
  counter with a sum over copies and is not inductive. `Afforded` is: mails sent,
  plus what the copies may still send, less what is paid (`Unpaid`, an integer per
  copy), is at most one. `SendMail` moves one from the second term to the first;
  a requeue, or a COMMIT that fails, adds a copy that may send and pays for it; a
  republished copy takes the place of its original. The sums are `MapThenSumSet`;
  `SumLemmas` proves what is needed of it - type, one or two summands changed,
  monotony - by well-founded induction on finite sets.
* `RetryBackoffProofs!TimedImplementsQueue`: a step of the queue with order and
  delays is a step of `RmqRetry` or none, so the theorems above hold of it.
* `RetryBackoffProofs!HeadOfLineBound`. A copy may wait behind a head with a
  longer delay; the invariant is that the retry queue is `Ordered` by waiting
  time, so that the head, which leaves when its own delay is over, has waited
  longest.
* `RetryBackoffProofs!GivingUpTakesAllDelays`, `CommitInTimeIsEnough`. `CopiesAged`
  says that a copy is as old as the delays of its retries, the one in the retry
  queue by what it has waited; `LastFailures` that a failure of the last retry of
  a message committed in time was no failed lookup, as age had reached the
  budget when it ran.
* `QueueCountProofs!QueuesMatchCounts`: each copy occurs in `mainQ` and `retryQ` as
  often as `at` counts it. The lemmas are about occurrences in a sequence
  after an append, a removed head and a concatenation; requeueing puts the
  unacknowledged deliveries in front in any order that has the right
  occurrences. `TimedImplementsDelivery` composes the refinements.
* `AccountsProofs!AccountsTypeCorrect`, `DeletedStayOut`, `DeactivatedStayOut`,
  `WhatWasReadHolds`. The invariants among them are not inductive: a commit
  writes what an earlier read justified. The strengthening is `RequestsFounded`:
  a request that will set a session found the row it writes, and the account is
  open - not deleted and, for a sign-in, not deactivated - unless the request is
  marked stale. Rows of `authentications` are never deleted, so the first part
  survives; whatever closes an account (`CommitDelete`, `CommitDeactivate`,
  `JobCommit` writing stale columns back) marks the requests on it stale, so the
  second does too. `FoundedKept`, `FoundedStart` and `FoundedOutdated` are the
  three ways a step can treat the requests, `KeptSessions`, `SetSessions` and
  `ClearedSessions` the three ways it can treat sessions; every action is one of
  each. `DeactivatedStayOut` is an action property: a step that lets somebody
  into a deactivated account (`LetIn`) ends a request that is excused.
* `AccountsProofs!OneSession`. The two UPDATEs of a sign-in see different moments,
  and the rows they skip may get a token before COMMIT. The invariant is `Locks`.
  `HoldsWell`: a transaction keeps the row it gives the token, and once its second
  UPDATE has started it holds or will come to every row that has a token.
  `Apart`: no row is held twice, and of two second UPDATEs one comes to the row
  that the other holds, and must wait; so of two sign-ins the later COMMIT has
  cleared what the earlier one set. Any number of requests and providers, locks
  granted in any order, deadlocks included.
* `AccountsProofs!VerifiedStaysVerified`. Metadata is written back late in three
  places; the invariant `LinkInv` says when each is harmless. `NoRow`: without the
  local row there is nothing to verify, reset or mail. `ForLink`: a confirmation
  needs a link that is out, and a reset in flight read verified metadata.
  `Linked`: whoever is verified got a link; when links have expired, no
  confirmation is in flight. `MailBehind`: metadata that was verified between a
  mail's read and its COMMIT was verified through an earlier link (`again`), and
  while the mail's transaction holds the row nobody else writes it.
* `AccountsProofs!AnonymisedStaysClosed`. `AllOpen`: who is in flight on an
  anonymised, deleted account is stale or read it verified; `BatchOld`: what a job
  writes back as `deletedAt` is never "not deleted". On a closed account without
  either nothing is in flight that could open it, and the writer left, the mail's
  COMMIT, writes back the empty metadata it read.
* `TokensProofs!TokensTypeCorrect`, `SessionsEnd`, `EntriesFit`. The invariant
  adds `RefreshFounded` to the three: a refresh in flight carries an expiry that
  is `RefreshTtl` after the sign-in its token will be counted to, without which
  `FinishRefresh` could issue anything. With the clock moving on between a check
  and its use, the token is made up to `Lag` ticks later, which is a second of the
  calendar at most (`NextSecond`, `RecentTicks`). `EntriesFit` rests on lemmas about
  rounding down (`Floor`, `StoredFits`), for any number of ticks in a second.
* `TokensProofs!SigningOutStopsRefreshes`: the orphans and the refreshes in
  flight are together no more than the requests, as a refresh in flight that
  becomes an access token is one less in flight.
* `TransactionsProofs!TransactionsTypeCorrect`, `TrueHistory`,
  `HistoryIsCleared`, `SilenceNeedsJob`. The invariant speaks of each slot
  (`Slot`) and of pairs. `HistoryIsTrue` needs that no row of an open
  transaction is counted: an INSERT that arrives after its transaction's end
  finds it committed (`Logging`). For `JobClearsHistory` a request's row
  and the job's UPDATE are ordered by the lock on the user: an INSERT holds its
  share lock to the end (`Logging`), the job holds the strongest lock on each
  user it has come to whom nobody had anonymised (`Covering`, `JobLocks`), and the
  two conflict (`Compatible`), so a row of such a user is committed and visible
  to its UPDATE, or will be inserted afterwards (`Cleaning`). On a user whom the
  other process has anonymised, the job may hold the weaker lock; rows of his that
  are missing then came after that anonymisation (`WrittenAfter`). For `SilentOnlyBesideJob`, a
  transaction waits in its history INSERT only for the strongest lock; whoever
  else takes that one locks nothing afterwards (`Stronger`), so the cycle has a
  job in it.

* `TransactionsProofs!PatientNeverDeadlock`. A row has a `Height`: a user below
  his authentications, both below the next user. Whoever is not Hasty holds
  nothing above what it asks for (`AskedAbove`; the invariant is `Ladders`: the
  rows it holds are of its user or, in the job, of users it is done with; it
  comes to a user with nothing of his locked; and closing a profile or
  anonymising locks the user before the authentications). In a cycle each member
  is in the way of another (`EachBlocks`, from the cycle being minimal). Take the
  member that asks for the lowest row: somebody asks for what it holds, so for a
  row no higher, so for the same height; both then ask for authentications of
  one user, and both hold that user's row for update, which `Compatible` excludes
  (`PatientCycle`) - for cycles of any length.

Model-checked only: liveness and what rests on fairness, which is outside
TLAPS's reach (`EventuallySettled`, `Drains`, `EventuallyAnonymised`,
`EveryTransactionEnds`, and the liveness in `DeliverySpec`); and the six
properties that are violated, which are statements about single behaviours.
Every invariant and action property of the passing runs is the subject of a
theorem. The library's induction theorems take an operator as a parameter, which the
provers cannot instantiate; where a proof needs induction (sums, a least
element) it goes by the least member of a set of counterexamples instead
(`WFMin`).

## 5. Plan

1. `RmqRetry`, `MailDelivery`, `Accounts` with their proofs (done).
2. `Tokens`: time, the Redis blacklist, refresh against sign-out (done).
3. `RetryBackoff`: order, delays, the transaction that emits (done).
4. `Transactions`: row locks, pools and the account history (done).
5. User names: sign-ups that are pending, against the unique index. Today
   `Abort` of a verification stands for the unique violation.
6. Proofs: the safety half of `RmqRetry` => `MailDelivery`, the duplicates,
   the queues and their counts, deadlocks of any length, late metadata (done).
7. `NoSilentLoss` of the queue with transactions on brokers that lose some of
   their contents.

## 6. Not modelled

Admin panel (AdminJS over the same tables, its own login), health checks
(reads), controllers (one service call each, a cookie), hashing, encryption and
cookies (stateless calls), templates and texts of the mails, Keycloak sign-in
(commented out in the source), uploads of avatars. User names, and with them the
sign-up whose name is taken while it is pending (`auth.service.ts:139`): see the
plan. Bootstrapping (`main.ts`, modules) and the validation of DTOs: they decide
which requests exist, not what these do.
