# StarNexus in TLA+

StarNexus is an LLM gateway: a Go server that accepts requests in the formats of
several providers, chooses an upstream channel, relays the request and charges the
user's wallet or subscription and the API token. With it come web applications; the
largest with a state of its own is the image playground. This directory holds TLA+ models of
the parts that are hardest to get right by testing, with TLC runs on small instances and
TLAPS proofs for all instances: on the server the **durable billing of asynchronous
tasks** and the **billing sessions of synchronous requests**, in the browser the **image tasks, agent rounds and conversations of the
playground**, which survive reloads, late answers, calls that hang and refused writes.

A task (a video, an image batch) is paid before it is submitted and its price is
corrected when it ends, minutes or hours later, on another node, after any number of
crashes and retries. What must hold is simple to say: the user pays exactly once, for
exactly the tasks that succeeded, and everything else is given back.

## 1. Inventory

| Part | State | Operations | What makes it correct |
|---|---|---|---|
| Durable billing (`model/durable_billing.go`, `service/durable_billing.go`, `service/task_billing_durable.go`) | `billing_transactions` rows: state, reserved and final quota, target status, version, lease, attempts; balances of user, token, subscription | reserve, adjust, bind to a task, refund, intent at the terminal transition, stale sweep, claim, apply, release | money moves once per row whatever is retried; the outcome is that of the task; abandoned reservations come back |
| Billing outbox (`service/task_billing_durable.go`, `RecordTaskBillingLogIdempotent` in `model/log.go`) | `billing_outbox` events, log receipts | claim, invalidate caches, write the log, link it, mark | one log per event, nothing marked before it is done, everything delivered in the end |
| Task submission (`controller/relay.go` `RelayTask`, `relay/relay_task.go`, `service/billing_session.go`) | the session in memory | pre-consume, hold, insert, refund | whoever gives up a submission leaves a row somebody else can finish |
| Task polling (`service/task_polling.go`, `model/task.go`) | `tasks` rows | poll, sweep, realtime fetch, recovery; status compare-and-swap | one terminal transition per task, billed by its winner |
| Synchronous billing (`service/billing_session.go`, `funding_source.go`, `quota.go`) | session flags, balances | pre-consume, reserve, settle, asynchronous refund | a session that ended has taken what it owes from source and token; nothing is given back twice |
| Subscriptions (`model/subscription.go`) | amounts used, period ends, pre-consume records | order completion, pre-consume, refund, reset, expiry | a reset loses no concurrent consumption; records are idempotent |
| Top-up, redemption, check-in, rebates (`model/topup.go`, `redemption.go`, `checkin.go`, `user_affiliate.go`) | order states | create, webhook completion, expiry, redeem | a credit is given once per order however often a webhook repeats |
| Quota caches and batch updates (`model/user_cache.go`, `token_cache.go`, `utils.go`) | Redis copies, pending deltas | read-through, increment, flush | no delta lost or applied twice |
| Upstream account pool (`service/upstream_account_*.go`) | slots and leases, sticky sessions, cool-downs | acquire, renew, release, route, report a result | slots never exceed the limit and come back after a crash |
| Channel selection and relay retry (`service/channel_select.go`, `channel_affinity.go`, `controller/relay.go`) | channel cache, attempts of a request | choose, retry, disable | bounded retries, one settlement per request |
| Websocket and continuation, rate limits, node routing | connection state, windows, bindings | | see the plan |
| Playground image tasks (`web/gpt-image-playground/src/store.ts`, `lib/db.ts`) | task list in memory and in IndexedDB, watchdogs, recovery timers | submit, execute, recover, remove, clear, load | a task ends once and stays ended, somebody is always there to end it, the stored list follows the shown one |
| Playground conversations (same files) | the list in memory, IndexedDB and, before migration, localStorage; flags of the flush | edit, delete, clear, load and migrate, flush | no change is lost or overwritten by an older one |
| Playground agent rounds (`store.ts`, `lib/agentApi.ts`) | rounds, their abort controllers, executions, image tasks | submit, regenerate, turns, batches, stop, delete | what is shown as running can be stopped and ends; generated images stay |
| Playground image library | images and thumbnails shared by tasks, drafts and conversations | store, collect, import, export | no image that is still shown is collected |

The rest (adaptors, moderation, pricing arithmetic, login, settings, statistics, file
storage, user interfaces) is listed in `PROJECT.json` with the reason it is left out.

**Interaction.** The submission creates a row and its session; `InsertTaskWithBilling`
hands the row over to the task; the poller that wins the task's terminal transition
queues the row's outcome in the same transaction; workers (a coordinator on every node,
once a second, and requests and pollers inline) claim due rows and apply them; the
transaction that applies a row inserts outbox events; passes over the outbox deliver
them. Rows, tasks and events live in one database; everything else is memory of a
process that can die.

The playground is one page with one store (zustand). JavaScript runs one callback at a
time, so its interleavings are those of continuations after an `await`: of requests, of
IndexedDB transactions, of timers, and of the user. An agent round creates image tasks in
the same list as the gallery; removing them rewrites stored responses; `initStore` loads
conversations and then tasks. A reload ends everything but IndexedDB and localStorage.

**What is hard.** Workers of several nodes act on the same row or event with candidates
that may be old; leases expire under live workers; a commit may succeed and report an
error; rows are read without a lock and written later by id; a request and the stale
sweep race for a reservation; one failing statement is taken for the answer "no". In the
playground, state is read before an await and written after it, puts are not awaited, a
stopped execution lives on until its next check and may meet its successor, and a page can
go away between any two of these steps.
`PROJECT.json` lists these hazards at their lines, with the properties about them.

## 2. Modules

| Module | Content |
|---|---|
| `DurableBilling` | rows, balances, tasks, request goroutines, workers, clock, faults |
| `MCDurableBilling` | values for TLC |
| `DurableBillingProofs` | inductive invariants and theorems |
| `SumLemmas` | sums over finite sets, for the balances |
| `BillingLedger` | what billing promises: hold, adjust, start, finish, charge once or give back |
| `BillingLedgerProofs` | `DurableBilling` implements it |
| `BillingOutbox` | events, caches, logs and receipts, delivering passes, faults |
| `BillingOutboxProofs` | inductive invariant and theorems of the outbox |
| `SyncBilling` | synchronous sessions on the wallet and on a subscription, its reset, its cancellation, faults |
| `SyncBillingProofs` | inductive invariant and theorems of the sessions |
| `ImageTasks`, `MCImageTasks` | image tasks of the playground over memory and IndexedDB, and values for TLC |
| `ImageTasksProofs` | inductive invariant and theorems of the image tasks |
| `ConversationStore` | agent conversations over memory, IndexedDB and localStorage |
| `ConversationStoreProofs` | inductive invariant and theorems of the store |
| `AgentRounds` | rounds, executions, controllers and their image tasks |
| `AgentRoundsProofs` | inductive invariant and theorems of the rounds |

### DurableBilling

`BusinessKey` is unique, so the row, the task and the goroutine of a submission are
indexed by one set `Requests`. The variables `state` to `aged` are the columns of a row.
`session` is `session.preConsumedQuota`, `want` is `result.Quota`.

*Balances.* `charged[r]` and `tokenCharged[r]` are the net amounts row r's transactions
took from its funding source and from the token; a balance column is the capacity minus
their sum (`Available`, `TokenRemain`). The guarded UPDATEs of `AdjustUserQuotaTx` and
`AdjustTokenQuotaTx` are the guards `CanFund` and `CanToken`.

*Atomicity.* A statement or a transaction is one step, except where the code reads a row
without a lock and writes it in a later statement: `adjustDurableReservation`
(`HoldRead`, `HoldCommit`) and `applyDurableTaskBilling` (`ApplyRead`, `ApplyCommit`).
What others commit in between is seen by the WHERE clauses of the later statements
(READ COMMITTED). A worker keeps what it read in `view` and its candidate in `job`.

*One candidate at a time.* A pass is modelled as one candidate (`Pick`, `Claim`,
`ApplyRead`, `ApplyCommit`, or `Release` after an error). The candidates of a pass do not
depend on each other and a candidate may be arbitrarily old when it is claimed, so a
pass over a batch is a sequence of such passes.

*Terminal transitions.* `TaskIntent` is `CreateTaskBillingIntent` after winning the status
compare-and-swap on the status its caller has read; losing it changes nothing and is no step.
Pollers and sweepers read unfinished tasks only (`TaskSucceeds`, `TaskFails`). The code refuses rows
in other states; `LiveTaskIsReserved` shows that a running polled task never meets that refusal.

*Realtime fetches.* The channels of `supportsRealtimeTaskFetch` let a user fetch a task in any
status. Their requests are the constant `Realtime`; all others are `Polled`. A fetch reads the
task into `copy` (`FetchTask`), asks the upstream, and hands both to `ApplyTaskResult`: an end the
copy has not seen goes through `TaskIntent`, from SUCCESS or FAILURE too (`FetchChangesEnd`);
any other answer is saved as a whole row if the status is still the copy's, and billed without a
look at the billing row (`FetchSaves`): a repeated end settles or refunds again, an unfinished answer
revives an ended task, and an old `billing_state` and quota come back. `FetchSavesUntracked` is
a new end whose COUNT failed, `FetchDropped` a fetch that changes nothing. Bound: one fetch of a task
is in flight at a time, `MaxFetches` in all. A fetched task can be charged, refunded and revived
past its row without any fault (finding 2), so the properties of a row and its task are about
`Polled`, beside any number of fetches of other tasks; `NoOverdraft`, `OrphanRefunded` and
`PendingResolved` are about all.

*Faults.* Each kind is enabled by the constant `Faults` and all together are bounded by
`MaxFaults`: `crash` (a process dies at any point of a request or of a pass), `slow` (a
lease expires, or a back-off ends, under a live worker), `dberr` (a statement or
transaction fails and is rolled back), `ack` (a commit succeeds and reports an error),
`count` (the COUNT of `taskHasDurableBilling` fails before the terminal transition, and
fails again or works after it), `recount` (it fails only when it is repeated after the
transition), `slow_request` (a live request outlasts the one-hour grace period of the sweep),
`delete` (the user, the subscription or the token is deleted). A guarded UPDATE that finds its row
deleted fails, a refund too (`CanFund`, `CanToken`), so that such a refund ends in
`action_required`; the direct adjustments skip what is deleted (`LegacyMove`).

*The failing COUNT.* `taskHasDurableBilling` reports an error as "no", so a durable task is
then handled as one without a row: the sweepers skip its refund (`TaskEndsUntracked`), the
pollers settle or refund it directly (`TaskSettlesUntracked`, `TaskRefundsUntracked`), a
sweeper refunds what it has just queued (`TaskRefundsTwice`), and `updateVideoTasks` refunds
a transition it lost (`LostRaceRefund`). The direct adjustments (`LegacySettle`, `LegacyRefund`) are
one step each and do not fail halfway. They look at no balance but the subscription's; `unguarded`
sums up what they charged on top.

*Time* is abstract: `leased`, `backoff` and `aged` say whether a deadline is ahead.

### BillingLedger

The abstract specification knows four things of a request: its phase (`none`, `held`,
`charged`, `returned`), what its customer has paid, the job and the job's price. A
reservation may be adjusted while no job runs; a job that is over has a price, zero unless it
succeeded; and in one atomic step the payment becomes that price (`Charge`) or nothing
(`GiveBack`). `DurableBilling` implements it with `phase` read off the outbox (the cache
event is inserted by the transaction that applies a row, so it marks the moment of
payment, even when the row itself misses it, finding 1), `paid` the funding ledger, `job`
the status of the task and `price` the final quota of a success. The token's balance is
charged in the same transactions and is left to `LedgerMatchesRow`.

### BillingOutbox

An event goes `none`, `pending`, `delivering`, `delivered`. The effects are the two cache
invalidations (Redis enabled) and the log with its receipt, one step each; the receipt's
unique event id is `CanInsert`. The result is written by id only (`MarkDelivered`,
`MarkPending`), whoever holds the lease by then, and an error of that write is ignored
(`MarkLost`). The number of attempts only lengthens the back-off and is left out. Each cache event
is about a token of its own, which its user may delete at any time (`DeleteToken`):
`InvalidateTokenCacheByID` does not find it then, at any attempt (`TokenMissing`).

### SyncBilling

A session is `NewBillingSession`, `preConsume` (token, then funding source, with the token
rolled back and the other source tried after a refusal) and then exactly one of `Settle` and
`Refund`: the handler's outcome decides in `controller/relay.go`, and no caller makes both calls.
`stage` says between which two statements the session stands; each statement or transaction
is one step. `fund` and `tok` are the net amounts the session moved. Whether wallet and
token have enough is a nondeterministic choice, since everything else the user does moves
them; the code reads them before it decrements them, and no overdraft property is claimed.
`lost` marks the faults the code can only log: a failed rollback, a refund or token settlement
that is given up, a step that took money and went unacknowledged, a crash.

The subscription row has its `used` amount, its `status`, and `reset` and `period`, which stand for
`next_reset_time` against the clock. A request has one pre-consume record, which makes its
refund idempotent. The reset task is three steps (`ResetList`, `ResetRead`, `ResetSave`):
its `FOR UPDATE` is asked for with an option that GORM v2 ignores, and its save writes every
column. The transactions of pre-consumption, settlement and refund take the row's lock
(`clause.Locking`) and are one step each.

### ImageTasks

A step is what happens between two awaits. `mem` is the list the user sees, `db` the
object store, `writes` the requests made of it and not yet committed; IndexedDB executes
them in order. A task is its status, whether the id of its remote job is recorded, and
whether it is marked recoverable. `exec` is where `executeTask` stands, `recovery` where
`recoverFalTask` or `recoverCustomTask` does, `watchdog` and `timers` the timer maps. The
four kinds differ in who guards them: one request has the watchdog, concurrent requests have
none, fal and custom jobs are queued remotely and taken up again. `page` and `stored` are
`initStore` (its task part). `removing` is a removal suspended in
`scrubAgentOutputPayloadsForDeletedTasks`, with the list it will write. `AgentTasks` are
ended tasks of agent rounds: what running ones do is in `AgentRounds`. `orphans` are the tasks whose
profile or provider is missing from the settings: the user may remove it and set it up again at any time
(`ChangeProfile`), and a recovery without it only sets its timer again (`TimerFires`).

Faults: `reload`, `conn` (a broken connection to a queued job), `stall` (a call that never
returns: the timeout of an OpenAI request is cleared at its headers, that of a custom provider once
the job is queued, and the fal client has none, neither in an execution nor in a recovery),
`quota` (the first put of a task is refused). Only a single OpenAI request has a watchdog
against that; the others hang (`Hangs`) until they are removed or the page is reloaded, which takes a
queued job up again. `spoiled` records the tasks the code is known to strand: after a refused first put,
a reload before fal.ai's request id is stored, a stale removal list (finding 4), or a
clear while the page loads. The properties are about all others.

### ConversationStore

The three copies of the list are functions from ids to versions (`updatedAt`; 0 when
absent). `writes` are the transactions under way, each replacing the whole store; they
commit in order. The code compares arrays by identity, and `array` keeps what that comparison
would say. `pending` and `ready` are the two persistence flags, `queued` and `flushing`
those of the single-flight flush; `read`, `legacy` and `migrated` are variables of
`initStore`. `SetConversations` is an assignment together with what zustand's persist and
the subscriber do in the same step. Versions stand for `Date.now()`: two edits of one conversation are
taken to have different times. The clearing transaction does not fail, and other tabs are
left out.

### AgentRounds

`exec` is one run of `submitAgentMessage` or `regenerateAgentAssistantMessage` with
`executeAgentRound`: where it stands, its round, whether its signal is aborted, how many
times the model asked for more. `controllers` is `agentRoundControllers`, which a second
execution of the round overwrites. A task remembers, besides what the code stores, which
execution created it; the code marks tasks by round only. One conversation is enough: the maps and the
marking are keyed by conversation and round. The budget of tool calls is `MaxToolCalls`.
`loading` says that `initStore` has not yet normalised the conversations: it takes a
running round for an interrupted one. `ToolCallsKnown` is what the tasks show of the budget; the code
also counts calls without a task, so `Decided` may end the loop earlier.

`callAgentResponsesApi` returns the promise of the stream without awaiting it, and so clears its
timeout at the headers: the stream may fall silent (`Stall`), after which only a stop ends the
execution (`StallStopped`, the stop cancels the reader). Requests without a stream keep their
timeout, and so do those of a batch, whose stream is awaited inside the `try`. A reload may lose
the unawaited write of a round or task that just ended, which then comes back as interrupted.

## 3. Runs

| Run | Instance | Shows |
|---|---|---|
| `workers` | 2 requests (one from the playground), 2 workers, 2 sources with scarce funds, 2 faults: crash, lost lease, database error, lost acknowledgement | exactly-once charging and counting, outcome and mirror agree with the task, finality, no overdraft of wallet, subscription or token, refinement of `BillingLedger` |
| `live` | 1 request, fetched once, scarce funds, 2 workers, 2 attempts, 2 faults of any kind but `slow_request`, fairness | no overdraft beyond unguarded surcharges, abandoned reservations are refunded and queued outcomes applied, or handed to an operator |
| `refetched` | violation, no faults | finding 2 |
| `late_release` | violation | finding 1 |
| `slow_request` | violation | finding 3 |
| `outbox` | a cache and a log event, 2 passes, 3 faults, the token deleted at any time, fairness | one log per event, delivered means done, every event ends up delivered but that of a deleted token |
| `sessions` | 2 sessions (one from the playground), prices 0 and 2, a total of 3, one period end, 2 faults | a session that ended took what it owes, nothing is given back twice, the total holds |
| `stale_reset` | violation | finding 5 |
| `image_tasks` | one task of any of the 4 kinds, one ended agent task, changes of the profile, 2 faults, fairness | tasks end unless a call hangs or the profile is missing, stay ended, are never stranded nor run twice; the store follows the list |
| `image_cleanup` | violation | finding 4 |
| `conversations` | 2 conversations, 2 versions, 1 reload, 1 refused transaction, fairness | no change lost by loading, migrating or flushing; no older version comes back |
| `agent_rounds` | 2 rounds, 2 executions, 2 tasks, 1 further turn, 1 reload, streams that stall, fairness | what runs can be stopped, and ends unless its stream is silent; images stay |

**Properties.** Of polled tasks, `LedgerMatchesRow`: funding source and token carry the reservation until
the outcome is applied, then the final quota of a success and nothing otherwise.
`UsageMatchesCharge`: the usage counters grow once, by what was charged, exactly when a
log event exists. `OutcomeMatchesTask`: nothing is given back while a task may deliver for
it, nothing is kept without a success. `LiveTaskIsReserved`: a running task is backed by an
untouched reservation. `TaskMirrorsRow`: `billing_state` and `quota` of the task follow the
row, and the situation `repairPendingTaskBillingIntents` searches for never occurs.
`FinalIsFinal`: no step leaves a final state or moves money for an applied row.
`ImplementsLedger`: all this as a refinement. Of all tasks, `NoOverdraft`: the subscription is
never overdrawn, wallet and token by no more than what direct settlements charged without a guard
(which is nothing if there are no fetches and no failing COUNT). `OrphanRefunded` and
`PendingResolved`: an abandoned reservation is given back and a queued outcome applied, or the row is
`action_required` after its last attempt. For the outbox `OneLogPerEvent` and `DeliveredMeansDone` say what
their names say, and `EventuallyDelivered` that only the event of a deleted token may be retried
for ever, with the user's cache entry dropped all the same.

For synchronous sessions, `LedgerAtEnd`: whatever was taken, rolled back, taken from the other
source, settled or refunded, an ended session leaves exactly its price, its reservation (when the
settlement was refused) or nothing, on source and token alike. `NeverOverRefunded` holds through
every fault, retries of a refund that was committed unnoticed included, and `WithinTotal` through
competing sessions and resets.

In the playground, `UnsettledHasRunner` and `OneRunner` say that an unfinished image task
has exactly one of execution, timer and recovery; `SettledStays` that a late answer changes
nothing; `StoredMatchesMemory` that unawaited puts leave the store equal to the list;
`EventuallySettled` that every task ends, unless its call hangs without a timeout or its recovery has no profile to ask with. `AtRestStored`: the flush misses no change.
`LegacyKept`: the migration can be interrupted anywhere. `StoredNeverOlder` and
`LoadKeepsChanges`: neither the database nor the list goes back to an older version.
`EventuallyMigrated`: in the end the database has the list and localStorage nothing of it. `RunningCanBeStopped`:
the controller of a running round belongs to a live execution of it that was not stopped.
`RunningTaskHasExecution`: no card spins without an execution that will end it.
`LateEndKeepsController`: a stopped execution that ends after its round was started again leaves
the controller of its successor. `StoppedMakesNoCall` and `DoneStays`: a stop ends the turns and keeps the
images, the latter while the page is open. `EventuallyIdle`: in the end nothing runs but executions whose
stream is silent, and their rounds can be stopped.

**Bounds.** Rows interact only through balances, so one row is enough for the races of
workers, and two for the balances. Two workers give every overlap of a late worker with
its successor; a third would need a second lost lease. Two faults allow a lost lease
together with a lost acknowledgement or a crash; the theorems of section 5 are about any number.
Workers differ in nothing and are symmetric in `workers`. `MaxAttempts` is 3 or 2 instead of
20, so that both a retry and the give-up happen; in `live` it is no more than `MaxFaults`, so that a
refund can use up its attempts. One
fetch is enough for a task to be billed again by it, or revived, before or after its row is applied; that
the tasks of other requests do not notice is a matter of the proofs (section 5). Quotas up to 2 make a final price lower than,
equal to or higher than the reservation, and capacities of 1 to 3 make it fit or not.
Deadlock checking is off: a finished request, its row settled, has nothing left to do.

Sessions meet only in the subscription row: two compete for its total, and one period end lets
a reset come between consumption and refund, where the clamp at zero is needed. Two
refund attempts instead of three let two faults exhaust them. A session that ended does nothing
more, so these runs may stop too.

Image tasks interact only through the list a removal or `initStore` writes back, for which
the agent task is the second party; two faults allow a lost connection followed by a
reload. Two conversations let one be deleted while the other is edited; two versions beyond
the stored one would only repeat an edit. Two executions give every overlap of a stopped
one with its successor, on one round or on two; two tasks let a batch half fail; one
deletion may meet either of them. The playground runs may stop as well: a page on which everything has ended is quiet.

**Fairness.** A request goroutine runs on unless its process dies. The coordinator runs
every second on every node, and a pass visits due rows in the order of their ids, so each
due row is reached although others come and go: strong fairness of picking a row, and of
the sweep. A worker inside a pass continues (weak fairness), the clock moves (weak
fairness of the deadlines). Faults are finite: under endless database errors nothing can
be promised. The end of a task is not assumed: a task may run for ever.

In the playground continuations run and IndexedDB answers (weak fairness of each). A call that
did not stall comes to an end; where the code sets no timeout, or clears it too early, it may
stall (`Stall`, `RecoveryStalls`), and then nothing is assumed to end it. Timers fire. Nobody has to
press stop, remove a task or restore a profile: the user, the faults and the turns the model
asks for get no fairness.

Every property is paired in `PROJECT.json` with a mutation of the model that breaks it;
the mutated forms stand next to the originals, marked `MUTANT`.

## 4. Findings

1. **A late release.** `ReleaseBillingTransaction` matches any applying row of the id, not
   the version of the worker, and the last UPDATE of `applyDurableTaskBilling` ignores how
   many rows it hit. A worker that lost its lease and then fails puts its successor's row
   back to pending; the successor commits the money and the events, not the row. The
   unique event ids then stop every further application (so nothing is charged twice,
   `LedgerMatchesRow` holds), the row is retried until it is `action_required`, and the
   "durable source of truth" is wrong about a charge that was made.
2. **A failed task fetched again.** `ApplyTaskResult` is "the single terminal-state transition path for
   background polling and user-triggered realtime fetches", "preventing both skipped and duplicated
   adjustments". Its durable branch asks for a change of status. A task that has failed and is fetched
   again with other data is saved and refunded directly, while the refund its first end queued is still to be
   applied: without any fault it is given back twice (what TLC shows). The same path settles and
   logs a repeated SUCCESS again, charges it without looking at the balance, restores an old
   `billing_state`, and revives a failed task over a refunded row; a SUCCESS that turns into a FAILURE
   queues the refund of a settled row. This is why the row properties are about polled tasks.

   *A failed COUNT* breaks the same promise without a second fetch (in `DurableBillingRefetch.cfg`,
   `Realtime = {}`, `MaxFaults = 1` and `Faults = {"count"}` or `{"recount"}`), since
   `taskHasDurableBilling` reports an error as "not durable". A sweeper then ends the task without an
   intent and, when it asks again afterwards, skips the legacy refund as well: the reservation is
   never given back. If only the COUNT after the queued refund fails, the sweeper refunds the task
   directly, the queued refund is applied later, and the reservation is given back twice.
3. **A slow request.** With `RELAY_TIMEOUT` at its default 0 a submission may still run
   when its reservation is an hour old. The sweep may queue the refund between the read
   and the write of `adjustDurableReservation`, whose UPDATE names the row by id only: the
   ledger and the row differ afterwards.

4. **A stale clean-up.** `removeMultipleTasks` reads the list, awaits the rewriting of
   stored agent responses and then writes the list it read. A task that failed meanwhile is
   running again, and nobody runs it; one submitted meanwhile is gone until the next reload. The test
   "keeps failed tasks created after the cleanup snapshot" has no response to rewrite.

5. **A stale reset.** `AdminInvalidateUserSubscription` "marks a user subscription as cancelled
   and ends it immediately". `ResetDueSubscriptions` reads a due row, without the lock it asks
   for, and saves all columns of what it read: a cancellation in between is undone. A
   consumption of the new period in between is forgotten in the same way.

## 5. Proofs

`DurableBillingProofs` proves, for any sets of requests and workers, any quotas and
capacities and any number of faults and attempts, from the ASSUMEs of `DurableBilling`:

| Theorem | Statement |
|---|---|
| `TypeCorrect` | `Spec => []TypeOK` |
| `IndInvariant` | `Survivable => (Spec => []IndInv)` |
| `LedgerCorrect` | `Survivable => (Spec => []LedgerMatchesRow)` |
| `UsageCorrect` | `Survivable => (Spec => []UsageMatchesCharge)` |
| `OutcomeCorrect` | `Survivable => (Spec => []OutcomeMatchesTask)` |
| `LiveTaskCorrect` | `Survivable => (Spec => []LiveTaskIsReserved)` |
| `MirrorCorrect` | `Survivable => (Spec => []TaskMirrorsRow)` |
| `FinalCorrect` | `Survivable => (Spec => FinalIsFinal)` |
| `NoOverdraftCorrect` | `Spec => []NoOverdraft` |

`Survivable` says: no `slow_request`, `count` or `recount` among the faults. Each of the three lets money
move past the row (findings 2 and 3); crashes, lost leases, database errors, lost acknowledgements and
deletions are all allowed, in any number, and so are any realtime fetches. What is proved under it is about
`Polled`, since fetches move money past the row of the task they fetch (finding 2). `TypeCorrect` and
`NoOverdraftCorrect` assume nothing and are about all requests.

*The invariant.* `LedgerMatchesRow` is not inductive: it says nothing of what a worker is
about to write. `IndInv` adds to the types
`RowInv` (which columns a row of each state can have, and when it is bound),
`TaskInv` (the task against the row), `QueueInv` (which outcome a queued row carries),
`MoneyInv` (ledger, usage and events against the row) and
`WorkerInv` (a worker in a pass has a queued row, its `view` still equals the row's
columns, and the state it would release to is the one the row's target calls for). The heart of
the argument is that the columns a worker reads are frozen from the moment the row is
queued, and that the outbox insert in the same transaction lets only one application
through. Versions and leases play no part in safety, only in progress: mutual
exclusion of the workers is not needed, and the invariant does not claim it.

*The argument.* Most actions touch only one part. Lemmas show what a step that leaves the
outcome columns alone preserves, and one lemma per action shows what that action does;
`FinalCorrect` follows from the same case split on a pair of states.

*The balances.* `NoOverdraft` is about sums over all requests, and its proof stands apart
from the other one. `FundsInv` says that the sum of what the rows of a source took is within its
capacity plus their surcharges (without any for the subscription), that the same holds for the token, that a request which has not begun has taken
nothing, and that no worker has its row. Every transaction that moves money changes one row's amount under a guarded UPDATE, so
the new sum is the old one plus the change the guard checked (`GuardedMove`), and giving money
back only lowers it; a direct settlement raises the sum and `unguarded` by the same amount. This needs
neither `IndInv` nor `Survivable`: a request that outlasts the grace period, a failing COUNT or a
repeated fetch confuses the row, not the bound. `SumLemmas` has what the proof needs of
sums: that the fold which defines them obeys the usual equations for adding or removing an
element and for changing one summand. The induction over finite sets is made without
an induction theorem, by a minimal counterexample: among the subsets for which no sum exists, one
has the least cardinality.

`BillingLedgerProofs` proves `LedgerRefinement`: under the same assumption
`Spec => ImplementsLedger`. Every step of `DurableBilling` is a step of the ledger or leaves
it unchanged; the case that needs the invariant is `ApplyCommit`, where what the worker read must
be the row's reservation and target, and the outbox must not yet have the event.

`BillingOutboxProofs` proves `TypeOK` (`OutboxTypes`), `OneLogPerEvent` (`OneLogCorrect`) and
`DeliveredMeansDone` (`DeliveredCorrect`) for any events, passes and faults. The
strengthening records what a pass knows from where it stands: past the first invalidation
the user's entry is gone, a pass that may link has a receipt, one that may mark has all
effects.

`SyncBillingProofs` proves `TypeOK` (`SyncTypes`), `LedgerAtEnd` (`LedgerCorrect`),
`NeverOverRefunded` (`NoOverRefund`) and `WithinTotal` (`TotalCorrect`) for any sessions, prices,
total, periods and faults. `LedgerAtEnd` speaks of ended sessions only; `IndInv` says for every
stage what the session holds of its source and of its token, that the balances carry at
least that much whatever went wrong, and exactly that much unless the session is `lost`, and
ties the pre-consume record to the stage. The settlement needs most care: the token carries the
old amount while the source has the new one.

`ImageTasksProofs` proves `TypeOK` (`TypeCorrect`), `OneRunner`, `UnsettledHasRunner`,
`StoredMatchesMemory` and `SettledStays` (each with `Correct` at the end of its name) for any
tasks of any kinds, any submissions, removals and faults, from the ASSUMEs of `ImageTasks`.
`OneRunner` holds of all tasks; the others are about those that are not `spoiled`. `IndInv` adds:
`InsertInv` (a first put in the queue belongs to a submission that waits for it, once),
`ClearInv` (a clearing request has its `clearData` waiting, and what `initStore` read before it is
spoiled), `RemovalInv`, `Loading` (what `initStore` has read and not yet shown is nowhere else on the
page: nobody works on it and it is in no list), `Fresh` (an id that was not generated yet is known
nowhere), `GoodRecs` (in memory, store, queue and what was read alike, only queued jobs have a remote
id and only failed ones with an id are recoverable), `Runner` (who will end a task, and in which
status they find it) and `Store`.

`Store` is what makes `StoredMatchesMemory` inductive. `Ends(q, d, t, r)` says that a store
`d` holds `r` for `t` once the requests `q` are through: none of them concerns `t` and the store has
`r`, or the last one that does puts `r`. Appending a put, appending or completing requests about
other tasks, and completing the oldest request each have a lemma (`EndsPut`, `EndsOthers`,
`EndsTail`), so that no action needs to know the whole queue. A task's record in memory, and
what `initStore` will show, is always what the store ends with, unless a clearing is under way.
`SettledStays` follows from the same case split: whoever may still write a record finds it
running or recoverable (`Runner`), or looks at the status first.

`ConversationStoreProofs` proves `TypeOK`, `AtRestStored`, `LegacyKept`, `StoredNeverOlder`
and `LoadKeepsChanges` for any conversations, edits, reloads and refusals. `StoreInv` adds
`InFlight` (at most one transaction of each writer, each with its owner waiting; a flush
only once persistence is on, `initStore`'s write only before), `Fresh` (a flush that is taken
for current holds the list; the database does when nobody is at work) and `Ordered` (for a
conversation the user did not delete: memory is at least as new as every transaction, every
transaction as the database, and one durable copy is as new as what localStorage had). The
argument rests on `initStore`'s write and the flushes never being under way together, so that
only the clearing can share the queue, after which nothing is claimed.

`AgentRoundsProofs` proves `TypeOK`, `RunningCanBeStopped`, `RunningTaskHasExecution`,
`StoppedMakesNoCall`, `DoneStays` and `LateEndKeepsController` (`ReleaseCorrect`) for any numbers of rounds,
executions, tasks and turns.
`AgentInv` adds to the two invariants that a live execution knows its round
(`LiveHasRound`) and that a batch item only runs while its execution makes the batch
(`BatchOpen`): `Finish` marks the built-in tasks of the round and leaves batch items alone,
so that without `BatchOpen` it could strand one. The late end of a stopped execution does
no harm because `Release` only drops its own controller, and every end marks at least the
execution's own tasks.

**Only model-checked.** The liveness properties (`OrphanRefunded`, `PendingResolved`,
`EventuallyDelivered`, `EventuallySettled`, `EventuallyMigrated`, `EventuallyIdle`), since fairness
and ENABLED are outside the prover's reach. Every invariant and every action property of
the passing runs is proved. The properties of the findings (`RowIsSourceOfTruth`,
`NoneSkippedNorDuplicated`, `CleanupKeepsFailed`, `CancelledIsFinal`) do not hold; that `LedgerMatchesRow`
is one of them in `slow_request` is why `Survivable` is assumed.

## 6. Not modelled in these modules

`settleDurableRequestBilling` (no asynchronous path calls it), the coordinator's start-up
and the operator listing, `repairPendingTaskBillingIntents` (never enabled for polled tasks, by
`MirrorCorrect`; a fetch that restores an old `billing_state` meets rows that are no longer reserved), a Redis that is switched off, the wording of logs and errors, the
arithmetic of prices (a price is any member of `Quotas`), the user's choice of preferences
beyond the order of the sources, the split of a subscription into several, and the
write-behind of direct quota adjustments. `DurableBilling` leaves out the subscription's periodic
reset and its clamp at zero, which `SyncBilling` has. Of the status of a task it keeps whether it is
unfinished: PENDING_SETTLEMENT counts as such, and `TryRecoverFailedVideoTask`, which claims a task as
RETRYING and then saves it as submitted or as it was, is one step, without billing (part of `FetchSaves`).

Of synchronous billing: `Reserve` (no caller outside tests), the violation fee, batched quota
writes and quota caches; of subscriptions: orders, expiry, deletion and changes of group.

Of the playground: the image files and thumbnails with their collection, import and export
(`importData` merges conversations and tasks of a file into both lists), the loss at a reload of other
unawaited writes than those of an end (a new card, a removal) in `AgentRounds`,
favourites and other edits of a finished task, titles, the building of requests and the
parsing of streams, several tabs sharing one IndexedDB, and a second `initStore` on the
same page. The other web applications (`web/default`, `web/classic`) and the Electron shell
are by far most of the repository's TypeScript: forms, tables and rendering over the
server's answers, with no protocol of their own to check. The remaining Go components are listed in
`PROJECT.json` with their reasons.

## 7. Plan

1. `TaskPolling`: pollers and sweepers over copies of a task without a billing row, the status
   compare-and-swap, the legacy billing after it (the refund that ignores `won` in
   `updateVideoTasks`), the SUBMITTED, RETRYING, SUBMITTED cycle of `TryRecoverFailedVideoTask`.
2. `ImageLibrary`: collection of images against submissions, drafts and conversations.
3. `Subscription`: orders completed twice under the lock that is not taken, expiry, deletion
   and group changes.
4. `TopUp`: orders under repeated and reordered webhooks, redemption, rebates.
5. `UpstreamAccountLease`: slots with leases, crash of a holder, late release; then
   routing with affinity and transient cool-downs.
6. Channel selection with the retry loop; rate and concurrency limits; quota caches.

Theorems to add: one terminal transition and one charge per task for 1; the slot limit for 5.
