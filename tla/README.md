# AurAlphaAPI: a TLA+ model of the order path and its background work

The API places real orders on behalf of users and of automations, through
brokers that may accept an order and lose the answer. It is a Node process with
a MySQL database: no code runs in parallel inside the process, but every `await`
lets other requests, other processes and the broker act, and almost every write
is "read an entity, wait, save the whole entity". This directory models the
parts where that matters, checks them with TLC on small instances and proves
their safety with TLAPS for all values of the constants.

Paths below are relative to the repository (`src/api/...`, `src/database/...`).

## 1. Inventory

| Part | State it keeps | Operations | Talks to | What is hard |
| --- | --- | --- | --- | --- |
| Order submission (`BrokerOrdersFacadeService.createFuturesOrder`, `OrderSubmissionRequestRepository`) | one `order_submission_requests` row per (user, idempotency key) | register, restart, mark submitting / completed / failed, replay | broker adapters, pre-trade and risk services, paper orders | concurrent retries of one key, unversioned saves, lost answers, crashes between the broker's acceptance and the save |
| Submission reconciliation (same service) | the same rows, `scheduler_orders_snapshots` | look up, targeted sync, mark matched / missing | orders sync | saves a copy read long before |
| Live automatic failover (`SuggestedTradesService.attemptLiveAutoBrokerRoutes`) | `suggested_trade_executions` row, with `routeAttempts` | gate, queue, submit, classify, reconcile, next route, review | order submission, broker listings | judging whether a failed call left an order; failed saves; stale trade objects |
| E-mail and WhatsApp outboxes (`EmailDeliveryRepository`, `EmailDeliveryWorker`, `Whatsapp...`) | delivery rows | queue, claim, send, mark, release, retry, clean up | SMTP / WhatsApp transport, several worker processes | unconditional marks, stale claims, shutdown in the middle of a batch |
| Suggested-trade review, linking and sync (`SuggestedTradesService`, `SuggestedTradeExecutionSyncService`) | trade status, execution state | accept, reject, place, link, sync of orders / positions / paper orders | order submission, snapshots, run lock | updates out of order; run lock without owner |
| Automation runs (`AutomationExecutionService`, `BacktestRecoveryService`) | runs, counters | start, generate, place, recover | suggested trades | limits read before orders are placed |
| Activity export (`ActivityExportProcessorService`) | export rows, files | start, complete, fail, recover stale | storage | slow job recovered under its feet |
| Scheduler commands (`SchedulerService`, `SchedulerCommandRepository`) | command rows, run locks | queue, claim, finish | external schedulers | claim without condition |
| Paper orders (`PaperOrderExecutionService`, `PaperOrderRepository`) | `paper_orders` rows with the simulation in their payload, a chain of calls in each process | create, simulate a batch or one order, close at market, cancel, link | candles and prices, suggested trades | saves of whole rows by callers the chain does not cover; batches that could pass orders over |
| Sessions (`AuthService`, `RefreshTokenRepository`) | refresh tokens, login counters | rotate, revoke, count | | concurrent rotation |
| Risk, pre-trade, kill switch | policies, switch | evaluate, assert | order path | verdict used after an `await` |
| Protection guardrail, canary monitor | protection fields | inspect, repair | brokers | acts on stale snapshots |
| Snapshot syncs, broker adapters, read models, CRUD | listings | fetch and store | brokers | little protocol of their own |

`PROJECT.json` lists the same parts with their status, and the hazards of the
code, each at its line with the properties that guard it.

What makes the parts correct:

* *Submission.* One key: one draft, at most one order, and a caller who was told
  "created" finds that order later. A reply never names an order that does not
  exist. A reconciler never pairs one order's verdict with another's id.
* *Failover.* At most one order over all routes; no call past a route in doubt;
  the record shows the execution before the broker can; a finished run has
  flagged every order; a linked order exists.
* *Suggested trade.* The record keeps naming its order; a trade its user was told
  is dismissed stays so; the record shows no end and no fill that did not happen.
* *Automation.* Runs work one at a time; their orders stay within the limits of
  the policy; a pause holds; the next slot can be used.
* *Schedulers.* One batch at a time under a lock that is not left behind; a
  paused scheduler is idle; a queued run has somebody to run it.
* *Paper orders.* Status and simulation tell one story; a cancel and a link hold; a
  position is closed once; every order that can move is looked at.
* *Export.* A download gets a whole file; Ready lasts; a queued export ends.
* *Outbox.* At most one message; "Sent" is true and final; the attempt account
  covers every transport call; no two workers hold one row; everything queued is
  settled.

## 2. Modules

| Module | Role |
| --- | --- |
| `OrderSubmission` | the row of one key, any number of attempts and reconcilers, the broker |
| `OrderPromise` | abstract: what a key promises its callers; implemented by `OrderSubmission` |
| `LiveAutoFailover` | one automatic execution over its ranked routes, the broker |
| `TradeExecution` | one suggested trade: review, placement, linking, refresh from snapshots |
| `AutomationRuns` | one automation: schedule, runs, limits, pauses, edits and repairs |
| `SchedulerLoop` | the background loop of one scheduler key in every process, and its lock |
| `SchedulerCommands` | one user's scheduler: configuration, commands, runs, repairs |
| `Schedulers` | the two side by side |
| `PaperOrders` | paper orders, the calls that simulate and close them, users who cancel and link |
| `ActivityExports` | one export: its row, its file, processors, downloads, maintenance |
| `DeliveryQueue` | the outbox, its workers and its administrator |
| `...Proofs` | the theorems about a module, with their inductive invariants |
| `MC...` | the instances that TLC checks |

How they belong together: a run in `AutomationRuns` tries one suggestion after
another; what happens to one of them, over all its routes, is
`LiveAutoFailover`; each call in there is one attempt in `OrderSubmission`; and
what becomes of the trade and its record afterwards, next to users and
refreshes, is `TradeExecution`, whose refreshes are the batches of
`SchedulerLoop`. The batches of the paper loop are calls in `PaperOrders`; how one
paper order looks to the record of its trade is in `TradeExecution`. Each level
keeps of the one below only what it can observe: an order made, none made, or an
answer that does not tell.

Operators named `Mut...` stand just before a definition and are faulty variants
of it. No specification uses them: substituted for the definition they must make
a property fail, which shows that the property depends on the code.

### OrderSubmission

`row` is the database row of one key. Rows of other keys cannot interfere
(unique index on user and key), so one is enough. `copy[a]` is the entity that
attempt `a` holds in memory between awaits; `rcopy` that of a reconciler. The
handler is cut at its awaits:

| Action | Code |
| --- | --- |
| `Find`, `Create` | `beginCreateOrderSubmission`, `reconcileOrderSubmissionRequest` (conflict, replay, in progress) |
| `Restart` | `markInProgress` |
| `Check` | pre-trade check, risk policy, `markBrokerSubmitting` |
| `Send`, `CreatePaper` | `createOrder` of the adapter, `createPaperOrder` |
| `BrokerDecides`, `Answered`, `CallError` | the broker; the answer; `normalizeCreateOrderError` |
| `Complete`, `Fail` | `markCompleted` and return; the outer catch and `markFailed` |
| `Crash` | the process dies, at any step |
| `ReconcileRead`, `ReconcileLookup`, `ReconcileFinish` | `reconcileOrderSubmissionAttempt(s)` and the sync-triggered match |
| `SnapshotSync` | the orders sync |

A save that throws may or may not have been committed. The changed entity stays
in memory either way: `markFailed` after a failed `markCompleted` keeps the
broker id. Time is a bounded clock; what matters is the stale window of a row
and the age at which an unseen order counts as missing.

`hazard` is a history variable. The protocol is read-then-save, so it cannot
promise one order per key outright. The three ways a restart goes unguarded are
named: `stale` (the restarted attempt may still be working), `raced` (the row is
no longer what was read), `ambiguous` (the failed attempt's order exists or may
still appear). `OneOrderUnlessHazard` says that there is no fourth.

`OrderPromise` says the same without rows, copies, windows or reconcilers: calls,
orders and what callers were told. The mapping takes `inFlight`, `placed` and
`reply` for them, and the promise is off as soon as `hazard` is not empty.
`KeepsPromise` is that every behaviour of `OrderSubmission` is one of it.

### LiveAutoFailover

The run is one sequential process with `pc` naming its awaits; the broker
accepts, rejects and fills whenever it likes, also after the caller has timed
out. `exec` is the database record and `attempts` the array in memory.
`original` is the record as the trade object of the *outer* function knows it:
the loop shares that object until its first reload, and from then on the outer
catch works with an old one. `Keyed` are routes whose adapter sends and lists the
client order id (Delta Exchange); only there can a lost order be recognised by
reconciliation. `foreign` are look-alike positions. `enabled` covers shadow mode.

`hazard` records `misreported` (a call classified as "no order" whose order
exists or may), `unseen` (reconciliation saw nothing of such an order) and `db`
(a save threw).

The checks before the first gate and the limits are one nondeterministic
refusal here; the limits are the subject of `AutomationRuns`, and whoever else
works on the trade that of `TradeExecution`.

### TradeExecution

`status` and `exec` are the rows of `suggested_trades` and
`suggested_trade_executions`. `saveSuggestedTradeExecution` writes the whole row,
so every actor carries a copy (`ucopy`, `lcopy`, `auto`, `rcopy`) from its read to
its last save. An order is named by the request that places it; `truth` is what
has become of it at the broker or in the paper simulation, `snap` and `position`
what the snapshots say. A paper order is its own row: `sim` is the simulation's
word in its payload, next to the status in `truth`, and `pcopy` the row in the
hands of whoever simulates or cancels it.

| Action | Code |
| --- | --- |
| `UserRead`, `UserGate`, `UserSave`, `UserAccepted` | `updateSuggestedTradeStatus` between its awaits |
| `AutoRead` ... `AutoRecord`, `AutoLinked` | `attemptAutoLiveExecutionForAutomation`, pre-trade gate, `acceptLiveAutoTradeForRoute`, the two saves before the call, `persistSuccessfulLiveAutoRoute` |
| `Place`, `LinkRead`, `LinkGate`, `Link` | `createFuturesOrder` and the link it tries afterwards, `linkSuggestedTradeOrder` |
| `Fill`, `Cancelled`, `ClosePosition` | the broker |
| `PaperRead`, `PaperSave`, `PaperStep` | a simulation of the paper order, or a cancel, across its read and its save, or at once |
| `StoreOrder`, `SeePosition`, `ForeignPosition` | the syncs, which may store a listing fetched at any earlier moment |
| `RefreshRead` ... `RefreshSave` | `refreshExecutionOutcomes` with its merges, for an orders update, a positions update or a sweep |
| `RefreshSkip` | an orders update that finds no snapshot of the order and goes on to the next trade |
| `Expire` | `maybeExpireLiveLimitEntryOrder` |

`hazard` names what breaks the properties: `lost` (a save over a record that has
changed since it was read), `overtaken` (a save of a status, or a link, on a
trade that is no longer what it was taken to be), `relinked` (the link of an order
of the other kind, or of one without an id), `inherited` (a link to a record that
shows a fill of something else), `unlisted` (an order cancelled at the broker that was stored as closed because `foreign` (a
look-alike position, open or closed, found by symbol and side or by the id that an
earlier refresh has linked), `expiry` (a cancel that finds the order filled and
counts as a cancel), `overwritten` (a paper order saved from a copy that is no
longer the row) and `voided` (a paper order cancelled after its fill:
`cancelPaperOrder` looks at no status).

A refresh saves the copy it has read when anything in the record's JSON differs.
The record has fields that are not modelled (prices, notes, times seen), so
`RefreshSave` may save a copy that is equal in all the fields that are.

A positions refresh takes somebody else's open position for the order's when the
order is not filled, and records its fill and its id. When that position closes, the
next refresh finds it by the id, and `mergePositionOutcome` closes the record
although the order is still open. `EndIsTrue` therefore exempts `foreign` from what it
says of closed records, and from nothing else: no position makes a record cancelled or
expired.

What the answer of a placed order says may reach the record or not: an answer
without a status leaves what was shown before, and one of an order filled at once
shows it as closed. So an answer without an id, of an order filled at once, makes
a record that names nothing and shows "closed"; the next order may be linked to
it, and is shown as closed before it is filled (`linkSuggestedTradeOrder` keeps
`orderStatus` unless the new answer has one). It takes two live orders for one
trade, more than `trade_execution` has; the proof of `FillIsTrue` needed the
hazard `inherited`, and the one named before, a link that drops an order, did not
cover it. `resolvePaperExecutionState` puts the simulation before the
status, so the record of a paper order that was cancelled after a simulation goes on
to show the simulation's state.

### AutomationRuns

`row` and `slot` are the `automation_runs` rows, unique by slot; `status` and
`nextRun` the automation's. A start is one transaction that holds the
automation's row; nothing else does. For each suggestion a run counts what was
accepted today (`CountDay`), what is open (`CountOpen`), and later places an order
(`CallBroker`), with the failover's classifications as outcomes. `Edits` are
`updateAutomation`, `Repairs` are `repairAutomationRun`, `reconcileActiveRun` and
the start-up repair: both read the row and write it back later. A repair judges a
run by its age, so it may end one that lives (`cleared`). A run that fails on an
error of the configuration also stops the automation, in a step of its own
(`FailAutomation`).

`exec[t]` is what the counts make of a record's state: `linked` counts as open,
`ended` as accepted only, `failed` as neither. `Refresh` and `Sweep` stand for
what `TradeExecution` has in detail: a refresh may find an order that is open to be
unknown (no snapshot), expired (the cancel met a fill) or closed (another's
position), and a sweep that read a record while it was submitting may give it up
after the run has linked the order. Both take an order out of a count while the
broker still has it, and `LimitsHold` says which limits that costs.

Hazards: `early` (a manual run took a slot that was not due), `overwrote` (a row
was written back that had changed), `lost` (an order made behind a call that
counts as failed, or by a process that died), `misread` (a refresh ended the record
of an open order), `swept` (a sweep failed the record of a linked one).

### SchedulerLoop, SchedulerCommands, Schedulers

`SchedulerLoop` is `SuggestedTradeExecutionSyncService`, and with the same code
around another batch `PaperOrdersSchedulerService`: `runBatchOnce` between its
awaits, in any number of processes, with the timer's batch and a requested one.
A lock value is the time left of it. Mishaps: `outlived` (a batch worked longer
than `lockTtlMs`), `rewritten` (`updateByKey` put back a lock that had changed),
`cleared` (a repair cleared a live lock), `abandoned` (a release that never came, or
`tryAcquireRunLock`, which stands before the `try`, took the lock and threw).

`SchedulerCommands` has the requests of `OrdersSchedulerService` and its siblings
(run, replay, stop, restart, pause, resume, configure) and the repairs of
`RuntimeDiagnosticsService`, each cut at its statements. The process that carries
the commands out is in another repository; it takes Pending commands and makes
what it can of them, in any order. `Cancels` is what also cancels Queued runs: in
this code a pause does and a stop does not, so the run has `{"pause"}`. Slips:
`late` (a run queued behind the pause that came between its check and its rows),
`stopped`, `unowned`, `cut` (see `QueuedRunHasCommand`), `rewritten`.

The two parts share no variable. `MCSchedulers` explores each with the other at
rest, since their product shows nothing more.

### ActivityExports

`file` is what is at the path of one export and `handle` what each writer or
download has open there; opening the path for writing empties the file, and an
unlinked file stays with those who hold it. A download asks for the row
(`AskDownload`), looks whether the path exists (`CheckFile`), rebuilds the file if it
does not (`Rebuild`, `RebuildFile`, `RebuildReady`), and only then does
`response.download` open the path (`SendFile`) and read it to its end (`FileSent`).
Between the check and the sending maintenance may unlink the file and another download
may begin to build it again. Only the claim is conditional on
the status; `markExportReady`, `markExportFailed` and the repairs are not.
Hazards: `overlap` (two writers of the path), `early` (a download opens a file that
another is building, or another begins to build the one it is sending), `half` (a
rebuild broke off and its file stays), `requeued` (a repair or
recovery while somebody works or after the end), `unread` (the read-back inside
`markExportReady` throws after the update), `dropped` and `ended` (a failure no
catch handles, a process that ends).

### PaperOrders

`row` is the table, `line` its executable rows in the order of `updated_at`, from
which a batch takes the first `Limit`. `copies[c]` are the rows that call `c` has
read and not yet dealt with, `ucopy[u]` the row of a cancel or a link.

| Action | Code |
| --- | --- |
| `Enter`, `Leaves` | `withSimulationLock`: the chain of promises in each process, and its `finally` |
| `Read` | the batch of `simulateActivePaperOrders` or `simulateUserPaperOrders`, an order by its id, the read of `closePaperOrderAtMarket` |
| `SimulateOrder`, `CloseAtMarket` | `simulateSingleOrder` with its save, the close with its save |
| `Throw`, `Crash` | a call that throws leaves the rest of its batch; a process that dies drops its chain |
| `Create`, `UserRead`, `Cancel`, `Attach` | `createPaperOrder`, `cancelPaperOrder`, `attachSuggestedTrade` |
| `Market` | a new candle or price of a symbol |

Prices are left out: `seen` says that a row holds the latest observation of its
symbol, and what a new one does to it is any of what `simulateSingleOrder` may
find. A row that was looked at without news is not saved and keeps its place in
the line, as in the code; `Still` are the orders whose symbol has neither candle
nor price, which stay at the head of it for ever. `writer` and `outdated` are
history: who saved a row last, and which rows were saved from a copy older than
the save of another. `WordHolds` and `OneClose` exempt those; the chain must keep
the calls of one process from ever being among them.

### DeliveryQueue

Rows are numbered in `createdAt` order. `cand[w]` are the candidates of the
worker's SELECT not yet claimed, `batch[w]` the rows it believes to be its own.
`Claim` is the conditional UPDATE of one row; `MarkSent`, `MarkFailed` and
`Release` are unconditional about ownership, as in the code. `old` is the only
trace of time: rows whose `updated_at` is older than `staleMinutes`. `markSent` is
inside the worker's `try`. It may throw without an effect (`unmarked`), or after the
row has become Sent (`denied`): the same worker then marks the row Failed, and the
message is due once more, without anybody having taken the row over. `markFailed` may
also throw either way, which ends the batch. `Stop` is
`stop()`, after which rows still in the batch are released; `Crash` drops them.
The administrator retries, prunes, and cleans up by filter in two statements.

The WhatsApp outbox runs the same statements without the administrator, so it has
fewer behaviours. `WhatsappNotificationsService` skips a notification whose
recipient or provider is not set up, or whose dedupe key has a row: a skip is a
`QueueDelivery` that is not taken. Two notifiers that both miss the row meet the
unique index on the key and one save throws, so the row of a suggestion is
inserted once, as `QueueDelivery(d)` is taken once for each `d`.

## 3. Runs

| Run | Instance | What it shows |
| --- | --- | --- |
| `submission` | 3 attempts, 1 live and 1 paper draft, 1 reconciler, clock to 2, both windows 1 tick | `OneDraftPerKey`, `OneOrderUnlessHazard`, `SuccessIsDurable`, `MatchedIsSeen`, and the refinement `KeepsPromise` |
| `fresh_attempts` | the same | `OneFreshAttempt` is violated: two attempts work on one key inside the stale window |
| `failover` | up to 3 routes, route 2 keyed | `OneOrderUnlessMisjudged`, `TrackedBeforeExposure`, `ExposureIsFlagged`, `ClaimIsReal`, `NoCallPastDoubt`, `Terminates` |
| `confirmed_order` | the same | `OneConfirmedOrder` is violated: an adapter throws after acceptance |
| `route_history` | the same | `FailedRoutesStayVisible` is violated: the outer catch saves its stale record |
| `trade_execution` | an automatic, a live and a paper order, 1 user, 1 refresh, 1 kind of hazard | `TypeOK`, `RecordKeepsOrder`, `DismissalHolds`, `EndIsTrue`, `FillIsTrue` |
| `automation_runs` | 2 runs, 3 suggestions, 1 repair, 1 edit, 2 orders a run and a day, 1 open, time to 2, 1 hazard | `OneRun`, `LimitsHold`, `NextSlotIsFree`, `PauseHolds` |
| `schedulers` | 2 processes, up to 3 batches, locks of 2 ticks; 3 requests; 1 mishap or slip | `OneBatch`, `LockHasHolder`, `PausedIsIdle`, `QueuedRunHasCommand` |
| `activity_exports` | 2 processors, 2 downloads, 1 kind of hazard, fairness | `TypeOK`, `DownloadIsWhole`, `ReadyIsFinal`, `ExportEnds` |
| `delivery` | 2 rows, 2 workers, batches of 2, 2 attempts, 1 stop or crash | `OneMailUnlessHazard`, `ClaimsAreDisjoint`, `SentIsTrue`, `AttemptsPayForTries`, `SentIsFinal` |
| `delivery_live` | 1 row, 2 workers, 1 stop or crash, 1 retry, fairness | `QueuedIsSettled` |
| `paper_orders` | 1 process, its batch and 1 request, 1 user, 3 orders in batches of 2, 1 error or crash, fairness | `TypeOK`, `StoriesAgree`, `OneClose`, `WordHolds`, `OrdersAreSeen` |

`ReplyIsTrue` and the type invariants of `OrderSubmission`, `LiveAutoFailover`,
`AutomationRuns`, `DeliveryQueue` and `Schedulers` are in no run: they are proved for
all constants.

Why the bounds are enough. Three attempts are the least with which one can
restart a row that a second has read and a third completes; every pair of
attempts can race, and a third can profit. Two ticks let a row go stale once and
be restarted within a fresh window. With three routes there is a first, a middle
and a last one, a keyed one with unkeyed neighbours, and a run over one or two
routes (`last` is chosen in `Init`). Two workers and two rows give overlapping
batches in order and a takeover in the middle of one. Two attempts tell the last
attempt from the one before. The counters `MaxClock`, `MaxStops` and
`MaxRetries` are bounds of the model, not of the code; the theorems hold for
every value of them.

In the other runs `Bound`, in the MC module, cuts off states past a given number
of *kinds* of hazard. A property that allows for hazards h1 or h2 says nothing
once one of them has happened, so what matters are the states without any of
those it names; one kind lets every other hazard happen first, as often as it
likes. `trade_execution` has every pair of actors at work on one record: the
automation's order, or a paper order, through its whole life next to a refresh,
and next to a user until more is known of it than that it is open; and orders of
different kinds side by side as long as none of them is known to be more than
open, two of them with the user at rest. `automation_runs` has two runs because a third
adds a row that has ended and nothing else, and three suggestions, one more than a run
or a day may have and two more than may be open. Either the row of the automation is
worked on, by an edit or a repair at a time, and the runs have nothing to place
(`Scheduling`), or they place orders and nobody works on the row (`Trading`): the
orders are nothing to `OneRun`, `NextSlotIsFree` and `PauseHolds`, and the edits are
nothing to the counts. What `LimitsHold` says after a repair (`cleared`) is proved and
not explored. In `schedulers` three batches are the holder of a lock, one that
outlived it and one that comes; three requests are two that race and a repair. In
`activity_exports` two processors and two downloads give every pair of writers
and a reader beside them; two downloads meet while nothing has gone wrong, and a
state in which their meeting is what goes wrong is the last of its path. In `paper_orders` two calls are a batch and one that waits
behind it or holds the chain before it. Of three orders one is asked for by
requests, one is in batches only, and one is `Still`: with batches of two, the
other two compete for the one place that is left. `Touched` bounds what requests
ask for, `MaxFailures` the errors and crashes. A second process would add saves
from outdated copies and nothing else, and those the user's request makes too.

Attempts, workers, runs, suggestions, processes and requests are symmetric where
a run has no liveness property. `CHECK_DEADLOCK FALSE` because finished requests and
runs, a deleted export and an idle outbox legitimately stop.

Fairness. `LiveAutoFailover!FairSpec`: weak fairness of the run, since every
await ends (`env.http.requestTimeoutMs`; a database call returns or throws).
Nothing is assumed of the broker. `DeliveryQueue!FairSpec`: weak fairness of
every worker (a supervised polling loop, restarted after a stop or a crash), weak
fairness of the passing of time for a row being sent, and strong fairness of
`Claim`, which says that the database does not fail *every* claim there is.
`ActivityExports!FairSpec`: weak fairness of each processor's steps, statements
that succeed or throw one after the other; it does not oblige a process to start,
a repair to come, or the clock to pass a threshold. Nothing obliges
administrators or users. `PaperOrders!FairSpec`: weak fairness of the calls, whose
awaits return or throw, of the background batch's next start, and of the market of
every symbol that has one.

### Disagreements found

* `fresh_attempts`: `markInProgress` (`OrderSubmissionRequestRepository.ts:264`)
  saves the entity without checking that the row is still as it was read. Two
  retries of a failed or stale row restart it one after the other and both go on
  to the broker, although the service tells callers to "Wait for the current
  attempt to finish before retrying" (`BrokerOrdersFacadeService.ts:1372`).
* `confirmed_order`: the live-auto failover document forbids a second confirmed
  order and any failover after a confirmed creation. The Delta adapter (SL/TP
  failure after acceptance) and the Mudrex adapter (leverage mismatch after
  acceptance) throw errors that are classified as "no order", and the loop calls
  the next broker.
* `route_history`: the document asks that every failed route stay visible. After
  a failed save the outer catch overwrites the record with one from before the
  loop's first reload.

## 4. Proofs

All theorems are of the form `Spec => []P` or `Spec => [][A]_vars`, for any sets
of attempts, drafts and reconcilers, any number of routes, rows and workers, any
windows and bounds, under the assumption stated in each module
(`SubmissionAssumption`, `FailoverAssumption`, `DeliveryAssumption`,
`LimitAssumption`, `ExportAssumption`, `PaperAssumption`, `LoopAssumption`,
`CommandAssumption`, `TradeAssumption` and `NullAssumption`: constants are numbers,
suggestions are finitely many, kinds of actors and of orders do not overlap, or null
is not one of the things it stands in for). `PromiseIsKept` is a refinement,
`Spec => Promise!Spec`.

`OrderSubmissionProofs`
* `TypeInv`: types, plus `Holding`: an attempt past its registration, and a
  reconciler past its read, holds an entity, and then a row exists.
* `DraftInv` gives `RepliesAreTrue` and `KeyHasOneDraft`: the row and *every copy
  of it anywhere in memory* carry one draft and a truthful response. It has to
  speak of the copies because any of them may become the row again.
* `SeenInv` gives `MatchesAreSeen`: the same idea for the verdict and the id.
* `SingleInv` gives `OneOrder` and `SuccessLasts`: without a hazard at most one
  attempt owns the row, any order or undecided call is its own, a restart that is
  about to happen found a stale or failed row, and a reconciler holds a completed
  copy, under which no attempt is left but one whose completion failed.
* `PromiseIsKept`: every step is one of `OrderPromise` or none, from `SingleInv` and
  `FreshInv` (an attempt that has not called yet has neither call nor order, and
  one that has answered its caller is over).

`LiveAutoFailoverProofs`
* `AttemptInv`: every route before the current one is settled in memory and, from
  the save on, in the record; this gives `CallsAfterSettlement` (`NoCallPastDoubt`).
* `RecordInv`: the record (and the outer copy) is tracked as soon as an order may
  exist and never names an order that does not: `ClaimsAreReal`, `ExposureIsTracked`.
* `ExposureInv`: unless misjudged, only the current route is exposed, and only
  from the call on: `OneOrder`.
* `FlagInv`: what memory and record say of an exposed route at each step up to
  the return: `EndsFlagged`.

`DeliveryQueueProofs`
* `ClaimInv` (`ClaimsSound`): without a takeover each row held by a worker is held
  by one, and is being sent unless it was deleted: `DisjointClaims`.
* `SentInv`: a worker about to write "Sent" has sent: `SentMeansGone`.
* `MailInv` and `PayInv`: what is known of mailed messages and of paid attempts for
  held rows and for rows at rest: `OneMail`, `TriesArePaid`. `SentStays` needs that nobody but
  a robbed worker, or one whose own mark was denied, is about to write over a Sent row.

`AutomationRunsProofs`
* `RunInv`: a run at work that no repair ended has an active row, so that no other
  starts beside it: `RunsAreAlone`.
* `SaidInv`: the status is the operator's last word unless a row was written back:
  `PausesHold`.
* `SlotInv`: used slots are past, the next run is after them, and what an edit or a
  repair will write is no older than what it has read: `SlotsAreFree`.
* Counting: between a count and the order it allows there is one order under way,
  for which the count left room (`RunRoomStep`, `DayRoomStep`, `OpenRoomStep`), by
  cardinalities of the sets of trades: `LimitsAreKept`. Without `lost` every order of the
  broker has an owner and a record; without `swept` the record of every order that the
  broker did not fail counts for its day; without `misread` that of every open one counts
  as open.

`ActivityExportsProofs`
* `RowInv`: downloads, expiry and maintenance come after Ready; until a row is put back
  in use one worker has the export at most, and before it is Ready: `ReadyLasts`.
* `FileInv` adds the path: without a shared path one writer is attached to it and the
  file is `partial` meanwhile; a worker that is about to mark has closed a whole one;
  what is Ready is half written only while somebody writes: `DownloadsAreWhole`. A download
  between its check and its sending needs no claim of its own: whatever is at the path
  when it opens it is whole, missing, or in the hands of a writer, which is `early`. It
  needs `RowInv` to know that workers and downloads do not meet there.

`PaperOrdersProofs`
* `ChainInv`: who has read orders is first in the chain of its process.
* `CopyInv`: status and simulation agree in every row *and every copy*, since any copy
  may become the row: `StoriesAlwaysAgree`.
* `OwnInv`: a copy that no longer says what its row says was left behind by somebody
  else's save, because nobody else of the process has had the chain since: `ClosesOnce`,
  `UsersWordHolds`.

* `LineInv` gives `TypeCorrect`: the line holds every executable row once, whoever
  takes a row out of it or puts it at the end, and a chain only calls of its process.

`SchedulersProofs` (the two parts share no variable, so each has its own invariant, which
the other leaves alone)
* `LoopInv`: a batch at work holds the lock it took, unless that was outlived, put back
  or cleared, so that nobody else finds it free (`BatchesStayApart`); and a lock that is
  set has a batch behind it that will release it, unless it was put back or abandoned
  (`LocksAreHeld`).
* `CommandInv`: `PauseInv` follows a pause, without late requests and rewritten rows: it
  disables the scheduler, then no command waits, then no run does, and only then it says
  paused. `WishInv` says that what a request saves agrees with what it is for: a pause
  saves a disabled scheduler, and only repairs synchronise the configuration. Both give
  `PausesHold`. Every step that takes a command away is checked against the run it was
  for: `QueuedRunsHaveCommands`.

`TradeExecutionProofs` speaks of `Known`, the record and every copy of it that somebody
may still save.
* `Base` gives `TypeCorrect`: types, and what `Known` names was placed. Without the second
  a refresh could take a status from an order that does not exist.
* `UserCopies`, `OrderCopies`, `RefreshCopies` say what one step can add to `Known`: the
  record of a link, the result of a refresh, nothing else. `TruthKept` says what it can
  make of an order: never unplaced, ended for good, but for paper orders saved from old
  copies or cancelled late. With both, an invariant of all copies has to be shown for the
  new one only.
* `LinkInv` (a link in progress has a copy that `assertOrderLinkAllowed` let through):
  `RecordsKeepOrders`.
* `TransitionInv` (a status request has a copy that allows its wish) and `OpenInv` (a trade
  nobody accepted has no order): `DismissalsHold`.
* `RecordsInv`: what the snapshots (`SnapInv`), the simulation (`SimInv`) and all copies say
  of an end or a fill is true of the order they name: `EndsAreTrue`, `FillsAreTrue`. What
  they say of a closed order is claimed only while no position was taken for another's,
  what they say of a cancelled or expired one in any case.

Only model-checked: `Terminates`, `QueuedIsSettled`, `ExportEnds` and `OrdersAreSeen`
(liveness needs ENABLED, which the prover does not handle), and the three violated
claims, each by its counterexample. Every other property of a run is a theorem.

## 5. Abstractions

* `save` is one atomic overwrite. TypeORM reads the row again and updates the
  columns that differ, in two statements; a write that falls between them is not
  modelled.
* Orders are named by the attempt, the route or the request that caused them;
  prices, quantities, messages and protection plans are left out, and with them
  partial fills and protection orders.
* Which error of the broker is classified how is a choice; that an adapter can
  throw after acceptance, and with which class, is read from the adapters.
* A save that fails leaves the record as it was in `LiveAutoFailover`,
  `TradeExecution` and `PaperOrders`. One that is carried out and reported as failed is
  modelled in `OrderSubmission`, for the marks of `DeliveryQueue` and `ActivityExports`,
  and for the lock of `SchedulerLoop`.
* Logging, alerts and activity entries swallow their errors
  (`OperationalEventService`) and are left out.
* A delivery whose worker dies during its last attempt stays `Sending` with all
  its attempts used. No statement of the code picks it up; `QueuedIsSettled`
  counts it as settled by its attempts.
* `TradeExecution`: of the automation's routes only the one that succeeds; records
  from before the executions table, kept in the trade's meta, and automatic paper
  execution are left out; so is an order that its broker reports as FAILED.
* `AutomationRuns`: schedules with fixed times; edits that keep the status. An order
  counts as open until its position is closed. Left out: the time-zone change of
  the settings, hard deletion, runs kept by the backtest runner, the
  duplicate-asset check, automatic paper execution. A pause does not stop a run
  under way, in the model as in the code.
* `SchedulerCommands`: purges and exports of the logs change nothing that is
  modelled.
* `PaperOrders`: a save takes the observation that is current, although the code
  loaded it shortly before; rows saved in the same millisecond are in the order of
  their saves; in the batch of one user only that user's rows count, and here all
  rows have one owner. Orders that nothing is known of must be fewer than a batch
  (`PaperAssumption`): were they enough to fill it, the code would look at nothing
  else.
* `ActivityExports`: exports from before files were kept, which hold their content
  in the row, are left out. A download reads all of its file at once or over time; how
  much of it has been sent when the file changes is not told apart.

## 6. Not modelled

* *Paper order prices.* At which candle or price an order fills, stops or closes,
  and with what profit, is arithmetic; `PaperOrders` takes any outcome that
  `simulateSingleOrder` has.
* *Risk policies, pre-trade checks, guardrail, canary monitor.* Numeric rules over
  snapshots. Where they decide whether an order goes on, the models take either
  verdict. That the kill switch is asserted long before the broker is called is a
  listed hazard without a property: the code promises nothing about the time
  between.
* *Sessions, settings, watchlists, connections, alerts, other CRUD.* One row per
  request, no protocol between actors beyond the database's own.
* *Strategy lab, templates, backtests, read models.* Queries, imports and numeric
  evaluation; the recovery of backtest runs (`BacktestRecoveryService`) judges rows
  by their age, as the repairs in `AutomationRuns` do, and is not modelled apart.
* *The scheduler worker.* In another repository; modelled from what its rows allow.
* *Scripts.* `scripts/` holds tests, which were read as evidence of what the code
  means, and deployment and maintenance tools; none is a part of the running system.
