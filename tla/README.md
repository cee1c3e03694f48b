# Ananya: a verification project for its stock-keeping core

TLA+ models of the parts of Ananya (a self-hosted ERP, a TypeScript monorepo)
whose correctness depends on how concurrent requests interleave, the TLC runs
that check them on small instances, and TLAPS proofs of the facts that hold for
every instance.

1. [The system](#1-the-system): how it runs, its components
2. [The models](#2-the-models): which module models what
3. [The runs](#3-the-runs): what is checked, within which bounds
4. [The proofs](#4-the-proofs): what is proved, and how
5. [Where the code and its documentation part](#5-where-the-code-and-its-documentation-part)
6. [What is not modelled](#6-what-is-not-modelled)
7. [The plan](#7-the-plan)

## 1. The system

### 1.1 How it runs

`apps/web` is a Next.js user interface. `apps/api` is a NestJS API: controllers,
services, drizzle repositories over PostgreSQL, and a worker process.
`packages/*` hold the domain aggregates the services use (inventory, warehouse,
procurement, manufacturing, projects, mrp, sales, crm, finance, service,
database, core, shared). `apps/ml` is a Python service for predictions.

Each HTTP request is an async function of a service. Node runs one function at
a time but switches at every `await`, and several API and worker processes may
share one database, so **every statement sent to the database is a point where
another request may run**. Most stock-keeping services open no database
transaction: each repository statement commits on its own, and a request that
dies half way leaves the statements it has already made. Repositories save a
whole aggregate (a header upsert and a replacement of the lines), so two
requests that loaded the same aggregate overwrite each other. None of these
aggregates carries a version.

The same pattern recurs in almost every document of the system:

    load a copy → decide on the copy → post to the ledger, line by line
                → save the copy → rebuild the projections

and so do its hazards: two requests decide on copies of one document; a request
dies between a posting and the save; a reader sees a document whose lines are
half replaced; a check reads what is no longer true when its result is used.

### 1.2 Components

| Component | State | Operations | What is hard | What makes it correct |
|---|---|---|---|---|
| **Inventory ledger and projections** (`packages/inventory/src/{ledger,projection}`) | `inventory_transactions`, `inventory_projections` | create, rebuild; deletions arrive through foreign keys | one snapshot, many later saves; failed saves are swallowed; `ON DELETE SET NULL` | a row is a balance the ledger had; a rebuild left alone is exact; deletions keep the meaning of what remains |
| **Warehouse transfers** | `warehouse_transfers`, lines | create, update, add line, submit, dispatch, receive, cancel, delete | posts line by line, then saves the status | stock leaves once and arrives once; finished is finished |
| **Reservations** | `inventory_reservations`, lines | create, update, fulfill, release, cancel, delete | check, then insert | nothing is promised twice |
| **Cycle counts, stock adjustments** | `cycle_counts`, `stock_adjustments`, lines | create, update, assign, start, record, approve, cancel, delete; adjust, approve, cancel | approving one document creates and approves another; posting precedes the check of the status | a variance is posted once, and only for an approved count |
| **Mail queue** (`apps/api/src/mail`) | `email_outbox` | enqueue, process (requeue, claim, send, record) | overlapping timers, crashes between sending and recording, a staleness window | one holder at a time; SENT means delivered; everything settles |
| **Purchase orders, goods receipts** | `purchase_orders`, `goods_receipts`, lines | create, update, add line, submit, approve, issue, cancel, delete; create, add line, post | quantities are checked on a copy, line by line; the order is saved whole after the postings | the order claims no more than the ledger got; checked receipts never overfill it |
| **Supplier returns** | `supplier_returns`, lines | create, update, add and remove lines, approve, dispatch, complete, cancel, revise | status goes back to DRAFT; cancelling restores; completing is a chain of rounds that load again | what is out is what was dispatched and not restored |
| **Stock counts** | `stock_counts`, lines | create, assign, add line, submit, approve, post, cancel | posts line by line, then saves | posted once, and then final |
| **Production orders, material consumptions, finished goods** | `production_orders`, `material_consumptions`, `finished_goods_receipts`, lines | update, release, start, record output and scrap, pause, resume, complete, close, cancel; post | two documents add to one order; posts and rebuilds before the save | no goods without their materials; the order counts what was posted |
| **Inventory alerts** | `inventory_alerts` | evaluate: by a timer, after rebuilds and reservations, by hand | evaluations overlap, each on its own reading; a partial unique index | announced once for each opening; in the end the alert that is called for is open |
| **Backups** (runs and retention) | `backup_job_runs`, `backup_artifacts`, the storage | tick, request, retry, recover, retain | an advisory lock that belongs to a session of a pool; heartbeats; statements fail between storage and tables | the newest backups can be restored; no run stays RUNNING |
| Fulfilment, customer returns, sales orders | documents | ship, complete, restock | two documents saved in a posting loop | shipped once |
| Payments, invoices | documents | post, apply, cancel | the invoice is saved before the payment | applied once |
| Component consolidation | records, row locks | preview, consolidate, replay | locks, fingerprints, adapters in one transaction | all or nothing, once |
| Spatial layout | layouts, revisions | create, update, publish, archive | optimistic revision check in a transaction | no lost update |

The components in bold are modelled. `PROJECT.json` lists the others of the
repository too, each with the reason it is left out.

How they interact: every document service calls
`InventoryTransactionsService.create` once per line and
`InventoryProjectionsService.rebuild` afterwards, which evaluates the alerts.
`CycleCountsService.approve` calls `StockAdjustmentsService.create` and
`approve`. Posting a goods receipt saves the purchase order; posting a finished
goods receipt saves the production order. Reservations read the projections and
evaluate the alerts, which enqueue mail. Everything meets in the database; there
are no messages between processes.

## 2. The models

| Module | Models | Uses |
|---|---|---|
| `LedgerArithmetic` | when a transaction is accepted, and how a ledger adds up to a quantity | – |
| `InventoryLedger` | ledger, projections, and the requests on them | `LedgerArithmetic` |
| `WarehouseTransfer` | one transfer | – |
| `Reservations` | reservations over projections that change | – |
| `CycleCount` | one cycle count, the stock adjustments | `LedgerArithmetic` |
| `GoodsReceiving` | one purchase order and the receipts against it | – |
| `PostingDocument` | one supplier return, stock count, material consumption or finished goods receipt | – |
| `ProductionOrders` | one production order and what adds to it | – |
| `MailQueue` | the outbox and the calls that drain it | `MailDelivery` |
| `MailDelivery` | what the outbox promises: the abstract specification `MailQueue` implements | – |
| `InventoryAlerts` | the alerts of one component and the runs that evaluate them | – |
| `BackupRuns` | the runs of one backup job and its artifacts | – |
| `AvailabilityProofs` | theorems | `Reservations`, `InventoryAlerts` |
| `BackgroundProofs` | theorems | `MailQueue`, `BackupRuns` |
| the other `…Proofs` | theorems | the module they are named for |
| `MC…` | values of the constants, symmetry | the module they are named for |

All modules with state share one shape. A *request* (a *call* in `MailQueue`, a
*run* in `InventoryAlerts`, a *worker* in `BackupRuns`) is a process: `pc[r]`
(`stage` in `InventoryAlerts` and `BackupRuns`) is its next statement, `work[r]`, `copy[r]` or `batch[r]` its local variables, and
a step is one database statement together with the code up to the next `await`.
A request that is refused, throws or loses its process is `Abort` (`Die`,
`Fail`, `Throw`, `Crash`), which is enabled at every statement; so a refusal by
an early return, a constraint or a guard needs no action of its own unless it
writes something.

`history` (`tally` in `MailQueue`, `opened` and `notices` in `InventoryAlerts`)
is not state of the program. It records what a property needs to know of the
past, and no guard of a model looks at it except the bounds. Its flags say under
which circumstances a property is claimed:

- `stale`: some request wrote or posted on the strength of a copy that another
  request had overtaken. The code has nothing that prevents this. The
  properties under `~stale` say that this is *all* that can go wrong: reads and
  writes may otherwise interleave, documents be seen half written, statements
  fail.
- `cut`: some request ended after a part of its statements. Properties about
  exact counts need `~cut`, because postings and the save are not atomic; the
  properties that must survive crashes (`ClaimsArePosted`, `ApprovedIsReconciled`,
  `ReceivedIsPosted`, `EffectIsPosted`, `EffectIsFinal`, and the first half of
  `MaterialsMatchGoods`) do without it.
- `unchecked` (`GoodsReceiving`): a receipt was accepted whose quantities were
  not compared with the order, or in which two lines are for one order line,
  each compared with all that remains.
- `unbooked` (`ProductionOrders`): an order was counted up, or set, by something
  else than what was posted for it: `complete()` sets the quantity to what was
  planned whatever is made, and nothing is posted for an order without a location.
- `slow` (`MailQueue`): a row passed the staleness window in the hands of a call
  that was still alive.

A property under a flag does not catch the hazard that raises the flag: it says
that nothing else goes wrong. Which hazards are so excepted is said for each in
`PROJECT.json` ("hazards"):

| What happens | Excepted from | Shown, or bounded, by |
|---|---|---|
| rebuilds overlap, or a save in one fails | `UndisturbedRebuildIsExact` | `MCInventoryLedger_CaughtUpProjectionIsExact.cfg`; `ProjectionIsSomePastBalance` holds also then |
| two requests act on one transfer, one of them on an overtaken copy | `BooksFollowDocument`, `TerminalIsFinal` | `MCWarehouseTransfer_CompletedIsImmutable.cfg` |
| a request on a transfer dies and is repeated | `BooksFollowDocument` | `ClaimsArePosted` holds also then: no line is passed over, though lines may be posted twice |
| two requests count the same units, or a count reads a reservation half saved | `NewPromisesAreBacked`, and the second half of `CountMissesNothing` | `MCReservations_PromisedOnce.cfg`; the first half of `CountMissesNothing` bounds what such a count misses |
| a reservation is restored by the copy of a request that was overtaken | `DoneStaysDone` | – |
| a count that is not up for review is approved: its adjustment is posted, then the request throws | `CountPostedOnce` (cut) | `MCCycleCount_OnlyReviewedCountsPost.cfg` |
| two requests resolve one adjustment; approving is repeated after a crash | `AdjustmentPostedOnce`, `CountPostedOnce`, `ResolutionsStand` | `ApprovedIsReconciled` holds of the repetition |
| two receipts are posted side by side, a receipt is not saved, or not compared | `BooksFollowOrder`; of what was not compared also `OrderNeverOverfilled` | `ReceivedIsPosted` holds also then |
| a return is cancelled twice, or cancelled and completed; a posting is repeated | `EffectIsFinal`, `LedgerFollowsDocument` | `EffectIsPosted` holds of the repetition |
| a run is booked and not saved; two documents add to one order at once | `BooksFollowProduction` | `MaterialsMatchGoods` holds also then |
| a row ages in the hands of a call that lives | `OneHolder`, `DeliveredOncePerAnswer` | the run `mail_NotSentTwice`; `StatusIsEarned` holds also then |

### 2.1 LedgerArithmetic

`Accepted` is `InventoryTransaction.create`, `Effect` and `OnHand` are
`CalculateInventoryProjection.execute`, `TouchedByLedger` is how a rebuild
collects its pairs, `Detached` what `ON DELETE SET NULL` leaves of a
transaction. A transaction keeps type, quantity and locations; unit, reference
and actor do not influence a quantity. Quantities are integers, as the columns
of `inventory_transactions` and `inventory_projections` are.

### 2.2 InventoryLedger

| Action | Code |
|---|---|
| `BeginCreate`, `InsertTransaction` | `InventoryTransactionsService.create`: lifecycle check, then insert |
| `BeginRebuild` | `findMany()` and the grouping: one snapshot |
| `NextPair`, `FindRow`, `WriteRow` | the loop, and the select and the insert or update of `save()` |
| `SwallowFailure` | the `catch` in the loop |
| `EndRebuild` | the rebuild returns |
| `DeleteComponent`, `BeginDeleteLocation`, `RemoveLocation` | the deletions, with what the foreign keys do |
| `Retire` | consolidation commits |
| `Abort` | any request throws or dies |

### 2.3 WarehouseTransfer

`Create`; `LoadHeader`, `LoadLines` (findOne, two selects); one action per
operation deciding on the copy (`Update`, `AddLine`, `Submit`, `Dispatch`,
`Receive`, `CancelDispatched`, `Cancel`, `Delete`); `Post`, `PostingDone` (the
posting loop); `SaveHeader`, `EraseLines`, `InsertLine`, `EndSave` (the
statements of `save()`); `DeleteRow`. `posted` counts the ledger rows of each
line by type and location. Every line moves one unit.

### 2.4 Reservations

`Create`, `LoadHeader`, `LoadLines`, `Update`, `Fulfill`, `Release`, `Cancel`,
`Delete` start and decide. `ReadOnHand`, `ReadMatching`, `CountHeader`,
`CountLines`, `PassLine`, `ChecksDone` are `getAvailableQuantity` for one line
after the other, one select at a time. `SaveHeader` … `DeleteRow` save.
`MoveStock` is the environment: the projection of a pair changes.
`fulfilledQuantity` is left out because no operation changes it from zero. A sum
of quantities (`Sum`) is the number of units the lines stand for, the
cardinality of a set: a sum that proofs can be about. For each request that
counts, `history.seen` and `history.steady` keep the stock it read and the
reservations that were active then and that nobody has written since.

### 2.5 CycleCount

The count's operations act on a copy as transfers do. `Approve` makes the list
of `Discrepancies` and starts `GenerateNumber`, `InsertAdjustment`,
`InsertAdjustmentLine` (create the adjustment), `FindAdjustment`,
`FindAdjustmentLines`, `ApproveAdjustment`, `Post`, `SaveAdjustment` (load and
approve it), and `Settle` (approve the count). The same actions serve callers
who create, approve or cancel adjustments. A line of a count is its variance.

`BookedForCounts` is what the postings have changed, by the `Effect` of
`LedgerArithmetic`: an `Adjustment` adds at whichever location it names, so a
shortage, posted from its location, raises the quantity on hand as a surplus
does (section 5). `CountPostedOnce` therefore speaks of the *size* of the
variance; that its sign is lost is what `PostingsMoveStockByDifference` shows.

### 2.6 MailQueue and MailDelivery

`Begin` is `requeueStaleSending`, `Claim` the transaction with `FOR UPDATE SKIP
LOCKED`, `Send` the transport, `Record` the update that follows, `Skip` what
happens when mail is disabled, `Die` a call that stops. Time is two flags of a
row: `aged` (older than the staleness window) and `due` (its next attempt has
come); `Age` and `FallDue` may happen at any moment, so every timing of the
real clock is among the behaviours. The transport may take a message and fail
to say so.

`MailDelivery` is the promise without rows, calls, claims or clocks: a message
is PENDING until it is settled once; it is attempted while it is PENDING, and
again after the server took it only if nobody was told or lived to record it.
`ImplementsDelivery` is the refinement: QUEUED and SENDING are both PENDING
(`Shown`), the tally gives the counts, and `slow` is the abstract `overrun`,
from which on only the meaning of SENT and FAILED is kept.

### 2.7 GoodsReceiving

A request loads the order (`LoadOrder`, `LoadOrderLines`) and, when it works on
a stored receipt, that receipt before (`StartOnReceipt`, `LoadReceiptLines`);
decides (`Create`, `Update`, `AddLine`, `Submit`, `Approve`, `Issue`, `Cancel`,
`Delete` of `PurchaseOrdersService`; `CreateReceipt`, `AddReceiptLine`,
`PostReceipt` of `GoodsReceiptsService`); posts line by line and adds up on its
copy of the order (`Post`); saves the order (`SaveOrder`, `SaveOrderLine`) and
then the receipt (`SaveReceipt`, `SaveReceiptLine`). `FitsRemaining` is the
check of `create()`: each line against all that remains on the copy.
`posted` counts the ledger rows of each receipt line, `stock` adds them up for
each order line, as receipt lines may repeat one. `OtherLines` are lines of
other orders: `create()` compares a receipt line with nothing when the order has
not the line it names (`goods-receipts.service.ts:48`), its stock is posted,
`recordReceipt` changes only the status, and the foreign key takes the row. What
receipts of *other* orders post is not part of `stock`, which is what the ledger
got from the receipts of this one.

### 2.8 PostingDocument

Four services share one shape and differ in *when* they allow *what*: `Rules` is
a table of operation, statuses from, status to, and what is posted, one for each
kind, and `Follow` applies a rule to a copy. `LoadHeader`, `LoadLines`, `AddLine`,
`RemoveLine`, `Delete`, `Post`, `SaveHeader`, `SaveLine`, `EraseLine`,
`EraseLines`, `EraseHeader` are the statements around it. `EraseElsewhere` is a
request on *another* supplier return: `removeLine` checks the status of the
return in its URL and deletes the line by the line's id alone
(`supplier-returns.service.ts:107-116`), so it may take a line from this return
in any status. `history.erased` keeps the lines that went so while the return
was in effect: their stock stays issued, as a cancellation posts for the lines
there are. `Complete` and
`ReloadHeader` make the chain of `SupplierReturnsService.complete`, which
approves and dispatches what is not yet, loading the return again each time. A
line posts one unit, nothing, or, in a stock count, is refused: its `binId` is a
row of `warehouse_bins`, where the ledger's foreign key wants a location.

### 2.9 ProductionOrders

One action for each operation of `ProductionOrdersService` decides and lists
what it will post (`Then`); `Post` posts one item, `Save` saves the row.
`LoadReceipt`, `Receive`, `SaveReceipt`, `LoadOrder`, `Return` are
`FinishedGoodsService.post`, which adds to the order by way of
`addCompletedQuantity`. `EnterReceipt` stands for a receipt entered by others. A
unit takes one of each material of the bill.

### 2.10 InventoryAlerts

A run is `Start` (reads the reorder point), `ReadStock` (twice, in either
order), `ReadAlerts`, `ReadScope`, `CloseOutOfScope`, `ReadCandidates`, then
`Recover`, `Refresh` or `Open` with `CloseOther`, and `Notify`. The partial unique
index makes `Open` a step that changes nothing when an alert of the type is open
(`onConflictDoNothing`), and a run announces only what its own statement
changed. `Project`, `DropProjection`, `Reserve`, `SetThreshold`, `Rescope` are
the environment; `Fail` is a run cut off. Names that `Reservations` also has are
qualified (`stage`, `projected`, `AlertSpec`, `AlertTypeOK`), as one module of
proofs extends both.

### 2.11 BackupRuns

`Tick` (recovers runs whose worker is gone), `TickUnheard` (recovers also runs
whose worker lives and could not write its heartbeats), `SelectRetries`,
`TakeRetry`, `SelectJob`, `TakeJob` are the scheduler's tick, `Request` a run by
hand. `CreateRun`,
`LoadRun`, `BeginAttempt`, `InsertArtifact`, `StoreArchive`, `CompleteArtifact`,
`FailArtifact`, `LinkArtifact`, `Succeed`, `Reschedule` are an attempt;
`BeginRetention`, `Prune`, `PruneFails`, `CommitRetention` the retention by count
(a failure that the `catch` around each artifact swallows leaves the run a
success; once a statement has failed, PostgreSQL refuses the rest of the
transaction and rolls it back, while the storage goes on deleting);
`Throw`, `ScheduleRetry`, `FailRun`, `GiveUp`, `Leave` what happens to one that
fails; `Crash` stops the process with all its workers. The advisory lock counts
how often one session holds it: `own` says whether the pool happened to give the
statement that session, and `CloseSession` drops it. Here too the names that
`MailQueue` has are qualified (`stage`, `ComeDue`, `BackupSpec`, `BackupTypeOK`).

## 3. The runs

| Run | Bounds | States | Shows |
|---|---|---|---|
| `ledger_rebuild` | 2 requests, 1 component, 2 locations, a receipt and a transfer, 2 recorded | 145 thousand | `TypeOK`, `ProjectionIsSomePastBalance`, `UndisturbedRebuildIsExact`, `SurvivingHistoryKeepsItsMeaning` |
| `transfer_lifecycle` | 2 requests, 2 lines, 2 locations, 4 requests started, 2 postings of a kind | 1.2 million | `TypeOK`, `BooksFollowDocument`, `ClaimsArePosted`, `TerminalIsFinal` |
| `reservation_promises` | 2 requests, 3 reservations, 3 lines on 2 pairs, stock that comes and goes, 3 requests started | 1.2 million | `TypeOK`, `CountMissesNothing`, `NewPromisesAreBacked`, `DoneStaysDone` |
| `cycle_count` | 2 requests, 2 lines, 2 adjustments, 3 requests started, variances -1, 0 and 2, the count new or in any unapproved state | 2.5 million | `TypeOK`, `AdjustmentPostedOnce`, `CountPostedOnce`, `ApprovedIsReconciled`, `ResolutionsStand` |
| `goods_receiving` | 2 requests, 2 order lines (2 and 1 ordered), 1 line of another order, 2 receipts, 4 receipt lines, 2 requests started; the order new or in a state that finished requests reach | 1.7 million | `TypeOK`, `ReceivedIsPosted`, `OrderNeverOverfilled`, `BooksFollowOrder` |
| `posting_documents` | 2 requests, the 4 kinds, 3 lines of which one posts nothing, 3 requests started, on this document or another | 1.7 million | `TypeOK`, `LedgerFollowsDocument`, `EffectIsPosted`, `EffectIsFinal` |
| `production_orders` | 2 requests, 2 materials, 1 finished goods receipt, 2 planned, runs of 1 and 3, scraps of 0 and 1, 3 requests started | 673 thousand | `TypeOK`, `MaterialsMatchGoods`, `BooksFollowProduction` |
| `inventory_alerts` | 2 runs of which 1 is scheduled, stock 0 or 2 or no row, 0 or 1 reserved, reorder point 0 or 1, 2 changes or failures | 241 thousand | `AlertTypeOK`, `AnnouncedOnce`, `AlertsConverge` |
| `backup_runs` | 2 workers, 2 runs of which 1 waits for its retry, 1 earlier backup, 3 artifacts, 1 retry, 1 backup kept, 1 failure, crash or loss of heartbeats | 479 thousand | `BackupTypeOK`, `NewestAreRestorable`, `RunningEnds` |
| `mail_queue` | 2 messages, 2 calls, 2 attempts, 1 loss, mail on or off | 376 thousand | `TypeOK`, `OneHolder`, `DeliveredOncePerAnswer`, `StatusIsEarned`, `ImplementsDelivery` |
| `mail_liveness` | 1 message, 2 calls, 3 attempts, 2 losses | 52 thousand | `EventuallySettled` |
| `mail_NotSentTwice` | 2 messages, 2 calls | – | a violation, see section 5 |

**Why the bounds are enough.** Every hazard of these components is between two
requests: one overtakes, is overtaken, or reads in the middle of the other's
statements; two are therefore the least that can go wrong, and a third request
that *follows* is there wherever `MaxStarts` is 3 or 4 (`MaxStarts` counts
requests started over the whole behaviour, not at once). A transfer needs four
for create, submit, dispatch and receive or cancel; in the other documents two
or three are enough because the document may start in any state that finished
requests leave. Two lines are the least of which one can be posted, inserted or
counted without the other.

- `reservation_promises`: two lines are on one pair and the third on another, so
  that what is counted for the wrong pair shows; the stock of the shared pair is
  0 or 1, its boundary; with three reservations, a count meets one at rest while
  another is being saved.
- `ledger_rebuild`: a transfer after a receipt makes the two locations depend on
  each other, and two recorded transactions give the prefixes a stale snapshot
  can be; lengths beyond that are the proofs' business.
- `cycle_count`: a count enters with one line short and the other right, and a
  recorded count finds each short, right or in surplus of two, so that sign and
  size can be told apart.
- `goods_receiving`: three receipt lines let one order line be met by two of
  them, of one receipt or of two, and the other by one; 2 and 1 ordered make one
  line complete while the other is partial, and make an excess possible. The
  fourth is for a line of another order.
- `posting_documents`: a supplier return can be dispatched, cancelled and
  revised, or completed in one chain; the line that posts nothing tells a line
  passed over by mistake from one passed over by rule.
- `production_orders`: 2 planned against runs of 1 and 3 gives orders that are
  short, complete and overfilled.
- `inventory_alerts`: the quantities and reorder points are the least that call
  for each type of alert and for none; two changes are an alert opened and one
  closed or replaced while a run holds an old reading.
- `backup_runs`: the run that waits and a new one are the two that can overlap
  on one job; three artifacts are an old backup, the one that replaces it and
  one more under way.
- `mail_queue`: two messages make a batch whose second row waits while the first
  is sent; two attempts are the least with a retry.

Bounds appear only as guards on the actions that start something or count
(`MaxLedger`, `MaxStarts`, `MaxPostings`, `MaxAdjustments`, `MaxLosses`,
`MaxEvents`, `MaxArtifacts`, `MaxTrouble`), never as a constraint on states.
Deadlock is checked where the system cannot stop (`ledger_rebuild`,
`inventory_alerts`, the mail runs) and not where the bound on requests or on
artifacts ends the behaviour. Symmetry is used in runs without liveness only.

**Properties worth a word.**

- `ProjectionIsSomePastBalance`: overlapping rebuilds mix rows of different
  snapshots, but no *row* is ever a quantity that was not true once.
- `UndisturbedRebuildIsExact`: what the services rely on when they call
  `rebuild()` after posting; its conditions (no other rebuild, no insertion, no
  lost connection meanwhile) are exactly what the code does not ensure.
- `CountPostedOnce` weighs each posting by what the projection makes of it, and
  not by what the adjustment says of itself.
- `BooksFollowOrder` says when an order is FULFILLED with receipt lines that are
  another order's among those that came in: one of them completes an order
  without lines.
- `LedgerFollowsDocument` holds with lines deleted by requests on other returns:
  those, and no others, stay posted without a document.
- `BooksFollowDocument`, `BooksFollowOrder`, `BooksFollowProduction`,
  `LedgerFollowsDocument`, `CountPostedOnce`, `AdjustmentPostedOnce`: the ledger
  and the documents, tables no constraint relates, agree at rest.
- `CountMissesNothing` holds whatever others do during a count, which takes two
  statements for each reservation it finds: what it can miss is only what
  somebody has written since it read the stock.
- `NewPromisesAreBacked`: a line that is stored for the first time is covered by
  stock, although the check looks at one reservation after the other and may
  add up a state that never existed. It excepts requests with two lines of one
  pair, see section 5.
- `ReceivedIsPosted` holds whatever requests overtake each other: a forgotten
  receipt makes the order claim too little, never too much. `OrderNeverOverfilled`
  holds although the comparison is with a copy, because the copy that was
  compared is the copy that is saved; the *ledger* may get more than was ordered.
- `MaterialsMatchGoods` holds without any condition, because all materials of a
  run precede its goods.
- `AlertsConverge` is about what is called for: an alert of the other type may
  stay open beside it, see section 5. Of a component with neither stock nor
  reservation nothing is said, as no evaluation looks at it.
- `NewestAreRestorable` holds although the advisory lock does not exclude a
  second run of the job.
- `StatusIsEarned` holds without any condition, also when calls overwrite each
  other's rows, because `attempts` is written from the claimed copy and so is
  never ahead of the truth.
- `EventuallySettled` holds although overlapping calls reset each other's rows
  and attempts: a message is settled *for good*.

**Fairness** is assumed where liveness is checked.

- `mail_liveness`: weak fairness of `Begin` (the scheduler is a `setInterval`),
  of the statements of a call that runs (nothing in the loop waits for anything
  but the database and the transport, which has connection, greeting and socket
  timeouts), and of `Age` and `FallDue` (clocks advance). It promises nothing of
  `Enqueue`, of which answer the server gives, or of crashes, whose number
  `MaxLosses` bounds: with crashes for ever nothing would be settled.
- `inventory_alerts`: weak fairness of the statements of a run that has started,
  and of starting the scheduled ones (`inventory-alert.scheduler.ts` sets an
  interval). Runs by hand and after requests are promised by nobody.
- `backup_runs`: weak fairness of the statements of each worker, and of *some*
  tick (`backups.scheduler.ts` sets an interval of 30 seconds): a tick is what
  recovers a run whose worker is gone. Failures and crashes are bounded by
  `MaxTrouble`.

## 4. The proofs

All theorems are of the unbounded modules: any number of requests, messages,
calls, lines and locations, and ledgers of any length. Every safety property of
every passing run is stated by one.

Three ideas recur, under the same names where the modules allow it.

- *Knowledge* (`Knows`, `Known`, `KnowInv`): a request that no other has
  overtaken holds in its copy what the tables hold, or what it has just
  changed. A step that writes leaves no other request current; one that does
  not write disturbs nobody's knowledge.
- *Doom* (`Doomed`): an exact count at rest is not inductive, because two
  requests may both have begun to write and the count is then already wrong.
  But of two that have begun, the second to save is stale, or one of them is
  cut off; so either the behaviour is `Doomed` to raise a flag, or at most one
  request is busy, and it has not been overtaken. `BalanceInv` speaks of the
  undoomed states only: at rest the tables agree, and while a request is busy
  they agree once what it still has to post and save is added. At rest nobody
  is busy and the property follows.
- *Ownership* (`OwnInv`, `Owns`): an id is given to one document and carried
  only by the requests that work on it.

**InventoryLedgerProofs.** Two theorems are about the arithmetic.
`OnHandIsIncremental`: appending a transaction changes the quantity on hand by
its effect, so the recomputation of the whole ledger and the incremental update
(which the package also contains) agree. `TransferConservesStock`: an accepted
transfer takes from one location what it gives to another. The sum is a
recursive function; that it is defined and has integer values is derived from
the well-ordering of the naturals (`LeastNatural`: a least counterexample would
have a predecessor), because the induction theorems of the library take an
operator as parameter.

`LedgerInv` is the inductive invariant of the rebuild:

- `TypeOK`;
- `WorkInv`, `RowInv`: the variables of a request belong to the statement it is
  at, and rows exist only for components and locations that do;
- `SnapshotInv`: a snapshot is, for every component that still exists, a prefix
  of the ledger up to what deletions have cleared since; this is what makes a
  late save a *past* balance. Without it the saved row could be anything;
- `ProjectionIsSomePastBalance` itself;
- `AloneInv`: for a rebuild that nothing has disturbed, the snapshot *is* the
  ledger, and every pair is either still to be done, in hand, or exact.

From it: `TypeCorrect`, `RowsArePastBalances`, `UndisturbedRebuilds`, and the
action property `HistoryKeepsItsMeaning`.

**WarehouseTransferProofs.** `TransferInv`: `TypeOK`; `CopyInv` and `HeaderInv`
(a header is one its operations can leave, in the tables and in copies);
`StartInv`; and `ClaimInv`, the heart: what a header says was moved is in the
books (`Backed`), and a current request *knows* the tables; nobody's knowledge
is disturbed by postings, because the books only grow. From it: `TypeCorrect`,
`ClaimedMovesArePosted`, and the action property `FinishedTransfersStay`.
`BalanceInv` adds the exact half: the books agree with the header and lines
(`Agrees`), and for a busy request (`Halfway`) with its copy, except that the
lines it has yet to post are still where the stored header has them. From both:
`BooksMatchDocument`.

**AvailabilityProofs**, reservations. `PromiseInv`: shapes; `OwnInv`, and
`HeldInv` (what is stored or was loaded has been stored); `KnowInv` and
`WatchInv`. `KnowInv` follows the count through its selects: with the reservations `S` already
subtracted, a current request has in hand what is left of the stock by them
(`Left`), and each line it has passed fits beside all that the *other*
reservations hold (`Fits`). That the sum so reached is the sum over all of them
needs the lemmas on `Sum`: it is additive over disjoint sets of lines, which
`OwnInv` provides. `WatchInv` follows the same selects of a request that *is*
disturbed, with an inequality and for the reservations it watches
(`history.steady`): every write takes the written reservation from them, and
leaves what the others hold as it was. From all of it: `TypeCorrect`,
`CountsMissNothing`, and the action properties `PromisesAreBacked` and `DoneStays`.

The same module, alerts. `Accounted` counts the runs that are about to announce
(`Pending`): a run joins them only with the statement that changed a row, so
notices and pending announcements together are at most the openings, or
closings. From it: `AlertTypesCorrect`, `AnnouncementsAreUnique`.

**CycleCountProofs.** `CountInv` is made of

- `CopyInv`: what a request's copy holds at each statement, whose adjustment it
  makes or resolves (`Makes`, `Resolves`; an adjustment has one maker), and that
  a request which creates the count is alone with it;
- `KnowledgeInv`, of the count and of the adjustment a request works on;
- `ReconInv`: an approved count, or a copy about to be saved as one, names an
  adjustment that is approved and has every line that differed posted (`Books`);
- `PostedInv`: unless doomed, what is posted of an adjustment is what its status
  says, or the lines the one request that posts it has passed;
- `BalanceInv`: the same one level up: the adjustments of the count are what
  its status says, or what the one busy request has made of it (`Progress`).

`CountInvariant` is that it holds throughout. From it: `TypeCorrect`,
`ApprovalReconciles`, `AdjustmentsPostedOnce`, `CountsPostedOnce`, and the
action property `ResolutionsLast`.

**GoodsReceivingProofs.** Only a posting adds to a quantity, and it adds to the
ledger as well; every other step leaves quantities it found in a row or in a
copy, or 0. So `ClaimInv` bounds the rows *and all copies* by the ledger, and
`FillInv` bounds them by what was ordered, together with the lines a request has
yet to post (`Fits`). `ReceivedIsPosted` alone is not inductive, because a copy
that is saved may be any that was ever loaded. From them: `TypeCorrect`,
`ReceivedGoodsArePosted`, `CheckedReceiptsFit`. The exact half needs in
addition `RowInv` (which rows refer to which), `StartInv`, `OwnInv` (a receipt
line is of one receipt) and `KnowInv`; `BalanceInv` then says what the tables
hold when the busy request has saved all (`Outcome`), two tables that it writes
one after the other, or that it has posted a line for which the order has no row
and cannot end well (`Stray`). From it: `BooksMatchOrder`.

**PostingDocumentProofs.** `DocumentInv` has the shape of `TransferInv`
(`Booked`, `Knows`), for a table of rules instead of one document. Of the table
the proof needs a few facts, checked rule by rule: none leaves a final status;
one that leads to a status in effect posts, or starts from such a status; and a
posting puts the document in effect or undoes that (`Turns`), so the lines not
yet posted stand as the old status says and the others as the new one. From it:
`TypeCorrect`, `EffectsArePosted`, the action property `EffectsAreFinal`, and
with `BalanceInv` `LedgerMatchesDocument`. A line that another return's request
deletes leaves no request current (`ElsewhereHistory`), so it disturbs
nobody's knowledge; the balance moves it from the lines of the document to those
erased (`Gone`, `ElsewhereBalances`). For that `FreshInv` says that an erased
id is given to no line again and is in no copy that is current.

**ProductionOrdersProofs.** What the steps do is summarised once (`StepEffects`:
`Starts`, `Decides`, `Saves`, `Posts`, ...), and two invariants are proved over
the summary.

- `MatchInv`: a list of postings never has the goods before a material of them
  (`Ordered`, which relies on a bill that names a material once), so a request
  is ahead with each material by what it has yet to receive (`Lead`), and the
  ledger by the sum of that over all requests, or by more after a cut. The sum
  is again the cardinality of a set (`Total`, `TotalChange`), of which the proof
  carries along that it is finite. `MaterialsMatchGoods` is not inductive by
  itself: it says nothing of a request between two of its postings.
- `BooksInv`: `KnowInv`; `FiniteInv`; and `BalanceInv`: unless `Doomed`, the copy
  about to be saved, or else the order, agrees with the ledger, but for the
  postings to come and for receipts that are in one place and not yet in the
  other (`Unsaved`, `Uncounted`).

From them: `TypeCorrect`, `MaterialsAreMatched`, `BooksAreKept`.

**BackgroundProofs**, the mail queue. `QueueInv` is the inductive invariant:

- `TypeInv`, with the attempts of claimed rows below `MaxAttempts`, which needs
  `AnswerInv` (an answer is to a message that the call still holds) and that a
  queued row has attempts left;
- `EarnedInv`: the attempts a row or a claim records are at most what was
  really tried, and refusals account for the attempts of a row that is not
  settled. `StatusIsEarned` alone is not inductive: `FAILED` is decided from the
  claimed copy, so the copy must be accounted for too;
- `HoldInv`: unless a row aged in living hands, its holders are at most one and
  it is `SENDING`;
- `DeliveryInv`: under the same condition a message is delivered at most once
  more than its answers were lost, and a message that was delivered more often
  than answers were lost is on record: its row is `SENT`, or a call that got the
  transport's acceptance is about to write it.

From it: `TypeCorrect`, `HoldersAreUnique`, `DeliveriesAreAccounted`,
`StatusesAreEarned`, and `DeliveryIsImplemented`: the initial states map to
initial states of `MailDelivery`, and every step maps to a step of it or to a
stutter (`PromiseStep`). The simulation needs one fact more, `LostInv`: what is
on record as lost was delivered, and what a call is about to record as sent was
delivered once more; without it a call that dies could lose a delivery there
never was.

The same module, backups. `BackupInv`: an artifact under way belongs to one
worker until it is linked to the job (`Owns`, `Exclusive`), so what is linked is
complete and stored; retention takes an archive only while enough newer ones are
linked (`Spare`), and one worker at a time has retention's transaction. What is
missing from the storage keeps that many newer ones (`SpareRemains`), also when
retention fails between the storage and the tables. From it:
`BackupTypesCorrect`, `NewestStayRestorable`.

**Assumptions:** only those the modules declare, each evaluated by the runs.

- Values that stand for "no row" are not rows: `NoLocationAssumption`,
  `NoTransferAssumption`, `NoRowAssumption`, `NoCountAssumption`,
  `NoOrderAssumption` (of receiving and of production), `NoDocumentAssumption`.
- Quantities are what the services accept: `MaxAttempts`, `Limit`, `KeepCount`
  and quantities ordered, received and reserved are positive; what production
  runs make is positive, what is planned or scrapped a natural number
  (`QuantityAssumption`); the inputs of the ledger are transactions; the
  variances of a count include 0, which says that a line agrees.
- The lines that reservations may ever have are finitely many
  (`LinesAssumption`), as cardinality stands for sums. Of requests nothing is
  assumed.
- A bill lists a material once (`BillAssumption`): `bill-of-materials.ts:107`
  refuses a second line for a component.
- `RetryLimit` and the bounds are natural numbers; a receipt id exists
  (`ReceiptsAssumption`); some run of the alerts is scheduled
  (`SchedulerAssumption`); kinds are the four of `KindsAssumption`.

**Only model-checked:** liveness (`EventuallySettled`, `AlertsConverge`,
`RunningEnds`), which is beyond the prover, as is anything about `ENABLED`. All
the rest that the passing runs check is proved. That *violations* are possible
(section 5) is of course shown by TLC's behaviours only.

## 5. Where the code and its documentation part

Each of these is a configuration `MC…_<property>.cfg` kept beside the models;
TLC prints the behaviour. `mail_NotSentTwice` is a run of `PROJECT.json`; the
others are there to be reproduced.

| Property (module) | The documentation says | The behaviour |
|---|---|---|
| `NotSentTwice` (`MailQueue`) | `mail.service.ts:191` "cannot send the same row twice" | the staleness window runs from the claim of the batch; its last rows are requeued and sent by another call, with no failure anywhere |
| `CaughtUpProjectionIsExact` (`InventoryLedger`) | RFC-0004:145 "Projection updates must faithfully represent the Inventory Ledger." | a rebuild with an older snapshot saves after a newer one has finished; the row stays stale though no rebuild is under way |
| `CompletedIsImmutable` (`WarehouseTransfer`) | RFC-0024:101 "Completed or cancelled transfers are **immutable**." | a request that loaded the transfer earlier saves its copy over the finished one |
| `PromisedOnce` (`Reservations`) | RFC-0008:17 "inventory cannot be promised to multiple consumers simultaneously" | two requests count before either saves |
| `OnlyReviewedCountsPost` (`CycleCount`) | `cycle-count.ts:233`, the guard of `CycleCount.approve` | the guard is reached after the adjustment has been posted: approving a DRAFT count moves stock and then fails, at each attempt |
| `PostingsMoveStockByDifference` (`CycleCount`) | `stock-adjustments.service.ts:100` "Stock removal -> source location" | an `Adjustment` counts positively at whichever location it names, so a removal adds |
| `ReceivedOrdersAreOpen` (`GoodsReceiving`) | RFC-0011:116 "must reference an active, non-fulfilled, non-cancelled `PurchaseOrder`" | neither `create()` nor `postReceipt()` looks at the status: a cancelled order receives, and becomes PARTIALLY_RECEIVED or FULFILLED |
| `CompletedReceiptsAreOfOneOrder` (`GoodsReceiving`) | RFC-0011:91 "Validates GR lines against PO lines." | a line that the order does not have is compared with nothing and posted, and the row is accepted if any order has the line; one request completes the receipt |
| `DispatchedReturnsKeepTheirLines` (`PostingDocument`) | `supplier-returns.service.ts:110` "Cannot modify lines of non-DRAFT return." | the status checked is that of the return in the URL, the line deleted that of any return |
| `ClosedIsFinal` (`ProductionOrders`) | RFC-0017:111 "A closed or cancelled production order cannot be edited or re-opened." | `resume()` asks nothing, and `complete()` refuses only COMPLETED |
| `OnlyTheWantedStaysOpen` (`InventoryAlerts`) | `inventory-alert.scheduler.ts:14` "alert state converges without human action" | two overlapping runs with different readings open one alert each; a later run finds the one it wants and closes nothing |
| `OneRunAtATime` (`BackupRuns`) | `BACKUP_AND_RESTORE.md:24` "If a run is already executing, concurrent runs are skipped" | the lock belongs to a session of the pool, and a session may lock again what it holds (`backups.service.ts:1211`) |
| `CrashedRunsAreReclaimed` (`BackupRuns`) | `BACKUP_AND_RESTORE.md:155` crashed runs are reclaimed by the next tick | recovery looks for RUNNING only (`backups.service.ts:1279`); from its second attempt on a run is RETRYING |

Met while modelling and not stated as a property:

- Reservations: two lines of one pair in one request both pass the check
  (`NewPromisesAreBacked` excepts them); `fulfill()` posts no transaction
  (RFC-0008:170); expiry is never enforced (RFC-0008:182); an update may leave
  a reservation without lines.
- Transfers: an update may make source and destination equal (RFC-0024:99); a
  transfer that was only submitted can be received (RFC-0024:108), with the
  model's `Receive` doing the same.
- Ledger: deleting a location clears columns of recorded transactions
  (RFC-0068:58) and deleting a component deletes its ledger (RFC-0003:200);
  undoing an import deletes ledger rows; the lifecycle check of `create()` and
  its insert are separate statements, against the comment at
  `inventory-transactions.service.ts:22`.
- Cycle counts: fractional variances are refused by the integer columns of
  `stock_adjustment_lines`, after the header was inserted.
- Goods receipts: the ledger is posted before the receipt's number is inserted,
  so a clash of numbers leaves stock without a receipt; adding a line on a stale
  copy sets a COMPLETED receipt back to DRAFT, and it can be posted again;
  updating a DRAFT purchase order never deletes lines that were dropped.
- Stock counts: a line names a bin where the ledger wants a location, so a count
  with a variance cannot be posted; a negative variance is a negative quantity,
  which the ledger refuses (RFC-0022:100 asks only that counted quantities be
  non-negative).
- Production orders: `complete()` sets the completed quantity to the planned one
  whatever was produced, and asks for no posted receipt (RFC-0017:110);
  quantities may be fractions and the columns are integers.
- Alerts: a run that dies after it opened an alert leaves it unannounced for
  ever, as no later run inserts it.
- Backups: retries of a paused job are run; a run that is to be retried beyond
  its limit stays RETRY_SCHEDULED; `restore()` checks that the plan is PREVIEWED
  before it takes its lock.
- Customer returns: restocking posts an `Adjustment` without a location, which
  the ledger refuses.
- Document numbers are `count() + 1` under a unique index: after a deletion the
  next number is one in use.

## 6. What is not modelled

Within the modelled components:

- ledger rows written past the ledger's own service: imports insert and undo
  them, consolidation moves them to another component. The properties of
  `InventoryLedger` are about the operations it has;
- numbers of documents (a clash makes `create()` fail, which `Abort` covers),
  dates, notes, prices, batches and serial numbers, names of counters;
- the rebuild after a posting and the evaluation of alerts after it
  (`InventoryLedger` and `InventoryAlerts` have them; they are not composed with
  the documents). One cannot disturb the other's tables;
- the trace rows of production, which nothing reads to decide;
- whether the stock suffices for a return, which only refuses and so is one of
  the reasons to `Abort`;
- recipients and quiet hours of alerts, and the mail itself; several components,
  which share no row;
- the two statements of deleting a component, its check and the delete, which
  are one step: a consolidation in between inserts a row of
  `consolidation_sources`, whose key restricts the delete, so that what can be
  deleted was usable when it was checked;
- of backups: restore, retention by age, upload, download, the editing of jobs,
  and how long anything takes (a run whose worker is gone is expired at once, one
  whose worker lives when its heartbeats are lost);
- isolation of single statements: each is atomic, as PostgreSQL makes it.

Of the system: the components of section 1.2 that are not in bold, planned
below; and those only listed in `PROJECT.json`, which are record keeping (one
row per operation: CRM, tasks, service, settings), read only (reporting,
search), outside the process (document storage), text analysis and prediction,
access control, or presentation. They are most of the repository's lines; what
they lack is behaviour that interleaving or failure could break.

## 7. The plan

Models, in this order, each with its runs and mutants:

1. `Fulfilment` with sales orders, and customer returns: two documents saved in
   a posting loop.
2. Payments against invoices: applied before they are saved.
3. `Consolidation`: locks and the replay check; imports as actions of
   `InventoryLedger`.
4. Restore of backups: the check before the lock, and a restart in the middle.
5. Spatial layouts: the revision check inside its transaction.
6. An abstract promise common to all posting documents, a document that is
   decided once and whose lines are posted once, implemented by transfers,
   receipts and `PostingDocument` as long as nothing is stale or cut, as
   `MailQueue` implements `MailDelivery`.

Proofs: each safety property of these models with the model itself, from an
inductive invariant of the same kind (`Knows`, `Doomed`, what is balanced at
rest); then the refinement of item 6, for which the `…BalanceInv` of transfers,
receipts and `PostingDocument` already say what the mapping needs.
