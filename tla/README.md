# Verification of the Annix backend: stock, job cards, access, persistence

TLA+ modules, TLC runs and TLAPS proofs kept beside the Annix backend
(`annix-backend/src`, NestJS over MongoDB). The subject is the part of the
program where several people, background jobs and processes change the same
documents or the same memory: FIFO stock, receipts, allocations, stock takes,
the workflow of job cards, bills of quantities and their reviews, the ids every
collection is given, the caches of resolved access, and the pool of browsers
that renders PDF files.

Paths below are relative to `src/annix-backend/src/` unless they start with
`src/`.

## Reading order

1. `FifoStock.tla`, then `StockLedger.tla`, which says what it promises.
2. `ReceiptBridge.tla`, which extends `FifoStock`; then `FifoStockProofs.tla`,
   which holds what is proved of both.
3. `JobAllocation.tla`, `StockTake.tla`: components of their own.
4. `MongoSequence.tla`, below all of them.
5. `JobCardWorkflow.tla`, `RbacAccess.tla`, `PuppeteerPool.tla`, `BoqReview.tla`: each
   on its own.

Every module `M` has an `MCM` with the small instances; each `.cfg` is one run.
Every `M` from 3 on has its theorems in `MProofs`: read the definition of its
inductive invariant first, then the theorems at the end, then the lemma of the
action that interests you.

## 1. Inventory

| Component | State | Operations | What is hard | Correct when |
|---|---|---|---|---|
| FIFO stock (`stock-management/services/{fifo-batch,issuance,issuable-product}.service.ts`) | purchase batches, consumption rows, cached `IssuableProduct.quantity`, issuance sessions | create batch, issue a session (one MongoDB transaction), undo a session, adjust or edit a product | read and save of whole documents around a transaction; retries of `withTransaction`; reads that bypass the session | batches and consumption rows balance, FIFO order, a session is atomic, the cache follows |
| Receipts (`supplier-invoice-fifo-bridge`, `fifo-bootstrap`, `stock-control/services/{delivery,invoice-extraction}.service.ts`) | delivery notes, invoices, the batches they brought in | link a note, approve an invoice, re-cost, delete a note, bootstrap | the same goods announced twice, in either order; no transaction anywhere; copies saved late | goods enter once, cost follows the invoice, only deletion writes off |
| Job allocations (`stock-control/services/{job-card-allocation,stock-allocation,movement}.service.ts`) | stock item quantity, allocations, movements (audit trail) | allocate, approve, reject, undo, deallocate, issue, photo, manual movement | checks on copies read outside the transaction | never below zero, every change recorded, trail and status agree, allowance kept |
| Stock takes (`stock-management/services/{stock-take,stock-take-cron}.service.ts`) | sessions, lines | create, capture, count, submit, approve, reject, post, monthly job | whole-document saves of stale sessions; the job beside people | stages in order, one capture |
| Ids (`lib/persistence/mongo-crud-repository.ts`, `annix-orbit/identity`, `src/annix-backend/scripts`) | counters, ids in use | create, save, remove, reseed, import, seed, raise | counters missing, behind or restored; several collections on one counter | no id given twice, retries are enough |
| Transactions (`lib/persistence/transaction-runner.ts`) | the session of one transaction | run | conflict, retry, loss | all or nothing |
| Returns, holds, wastage (`stock-management/services/{returns,stock-hold}.service.ts`) | return sessions, wastage bins, holds | create, confirm, reject, empty | confirmations repeated or overlapping | a return enters stock once |
| Legacy inventory (`stock-control/services/{inventory,delivery,import}.service.ts`) | stock items | edit, photo, deliver, delete | whole-document saves beside `$inc` | as for allocations |
| Job card workflow (`stock-control/services/{job-card-workflow,background-step,qa-process,job-card-version}.service.ts`) | stage of a card, approvals, background completions, review decisions | approve, reject, amend, save, complete, skip, review, reset | a compare-and-set beside whole-card saves; resets of several writes | no stage passed without its approval and steps, steps in order |
| Access (`rbac/`) | grants, roles, permission links; a cache on every machine; an epoch | assign, update, revoke, delete, set permissions, resolve, poll | caches of several machines, lost bumps, answers stored late | a stale answer has a known reason and goes away, grants stay sound |
| Browser pool (`shared/services/puppeteer-pool.service.ts`) | queue, slots, one Chrome process, a pending launch | render, close when idle, shut down | one field shared by tasks at different awaits; Chrome fails at any moment | slots counted right, no process lost, every task ends |
| Idempotency, throttling (`shared/`) | stored answers, hits per window | replay, count | two requests with one key at once | one effect per key |
| Rate limiters (`lib/*-rate-limiter.ts`) | time stamps in memory | acquire | waits between the read and the update of a bucket | the limit per minute and day |
| BOQs and reviews (`boq/`, `workflow/`) | a BOQ, its lines and totals, its reviews | add, change, remove, edit, quote; submit, start, assign, decide | totals computed and stored apart; BOQ and review saved whole, one after the other | the total is the sum, BOQ and review agree, approval freezes |
| Rubber lining (`rubber-lining/`) | orders, rolls, certificates, tax invoices | portal operations | re-approval, numbering | a document counts once |
| Orbit, Sentinel, Rep, RFQ, Nix, auth, licensing, messaging, ... | see `PROJECT.json` | | mostly one document at a time, or an external service | |
| Reference data and calculators | tables | look-up | none (stateless) | their tables are right |
| Front end, packages, voice filter, tooling | | | outside the backend | |

How they interact: deliveries and invoices (stock-control) call the bridge
(stock-management), which creates batches and adjusts products through the
services of FIFO stock; issuance sessions consume those batches; stock takes
read the cached quantities; every document of every collection is given its id
by the sequence of `MongoCrudRepository`. Job cards are the consumers of
allocations, but their stages do not gate them, so that the two are modelled
apart; access is asked for by the guards of every endpoint. Allocations work on the older
`stock_items`, which the bridge links to products. All components share
MongoDB and nothing else: there are no locks in the program, only
`session.withTransaction`, `$inc` with a guard, one compare-and-set (the stage
of a job card), and read-then-save. Only the caches and the browser pool live in
memory.

## 2. Modules and the code

### FifoStock

One variable per kind of document: `batch` (`sm_stock_purchase_batch`),
`consumed` and `rowCosts` (consumption rows, summed per batch), `quantity`
(the cache of `IssuableProduct`), `sessions`. The transaction of
`createSession` has its own workspace (`tx*`, `view`, `drawn`, `viewQuantity`,
`wrote`), because MongoDB shows it a snapshot and shows its writes to others at
commit only; `touched` collects what others wrote since, so that `Commit` is
refused on a conflict. The first write of each session takes an id from the
shared counters document inside the transaction; a second session conflicts
there and starts over, so one open transaction is enough.

Each `Begin`, `ReadProduct`, `Draw`, `SaveProduct`, `Commit` is one awaited
step of `createSession` and `consumeFifoInTransaction`. `Abort` may come at any
moment (conflict, lost connection, crash). Requests outside transactions
(`adjustQuantity`, product edits, `undoSession`, receipts) are jobs of
`Workers`: read, await, save what was read; `Lose` ends one anywhere.

What the code does and the model keeps: `findByIdForCompany` in the
transaction is not given the session, so it reads committed data;
`undoSession` puts nothing back into batches; a manual batch does not touch the
cache. Left out: how a row is split over products (paint by pro-rata m², kits),
who issued it, and reports. Negative row quantities, which no DTO excludes, are
not modelled.

### StockLedger

The promise: batches arrive; a session is issued in one step, in full, oldest
batch first, or not at all. `ImplementsLedger` maps `FifoStock` to it: what a
batch has left, and the rows of committed sessions. A session may draw from the
batches of an earlier moment (its snapshot), which is why `Issue` ranges over a
prefix of the batches.

### ReceiptBridge (extends FifoStock)

`origin` and `reconciled` are the source and invoice fields of a batch; `note`,
`invoice`, `priced` the documents that announce goods; `call` what a bridge
request is doing and the copies it holds. None of these requests is a
transaction: each action is one database call, linking a note included (the
note, the completed invoices that name it, their lines, its batches, the new
batch). Notes and invoices have one line (lines are processed one after another,
independently). `NotesOf` are the notes an invoice names, by `deliveryNoteId` or
`linkedDeliveryNoteIds`: approving it re-costs the batches of all of them, and
it covers all of them, but it is deleted with the first only. A line is marked
priced only when its stock item is found, and received in any case: `Orphans`
are the invoices whose item may be gone. A line whose price clarification was
skipped is left out (`Unclear`: the invoices of which it may be): such an
approval goes straight to the end. `cutShort` is a
history variable: batches whose re-costing failed half way. `lost` is another:
what a request that died owed (a change of the cache, the goods of a priced
invoice, the cover of a note), and what a line that could not be marked leaves
open; `Watched` names what is recorded, and is empty where overlaps are explored,
to keep the instance small.
`BridgeNext` leaves manual batches, product edits and session undo to
`FifoStock`, so as to keep the instance small.

There are two specifications. In `BridgeSpec` requests overlap as they like. In
`SerialSpec` one person waits for each request, and each session, to end or to
die before the next: the code takes no lock, and what it says of goods, of
prices and of the cache it can say of this case only. A request has copies
exactly at the awaits where the code holds them, which is how `BridgeTypeOK`
types it.

### JobAllocation

`stock` is one stock item, `alloc` its allocations to one job card,
`movements` the audit trail, `request` what each worker has read. The
transaction of an operation is one step, since its first write is the guarded
`$inc` of the item and a conflict makes it start over; what was read before it
is not read again, and is saved whole. `Kept` is what such a save leaves: the
dates of an approval, a rejection or an issue stay when the copy has none.
`stale` (allocations an outdated copy was saved over) and `overtaken`
(allocations stored after another had come to count since their check) are
history variables; neither looks at quantities.

### StockTake

`takes`, `lines` and `request` as above. A save puts the status of the copy back
and keeps the dates that are stored (`Kept`): `snapshotAt`, once set, stays.
`CaptureSnapshot` is one step: it reads the session inside its transaction. The
monthly job reads, creates and captures in three; it visits companies that have
a session (`EarlierTakes`, or one of those modelled). `Trade` changes the
quantities of products at any time, as issues and receipts do. Variance
categories and photos are left out: the check for a missing photo refuses every
session that has a line (section 6), so that a session with lines is submitted
only by a request that looked for lines before the capture.

### MongoSequence

`counter` is one document of the counters collection (or `Missing`), `docs` the
ids in use in the collections that share it, `given` how often an id was given
(history, capped at 2). `create` is increment, then insert with retries on a
duplicate key, each of which first scans and reseeds; `save` of a new document
is increment, then upsert. `Import`, `StartRaise`, `ReadCounter` and `Raise` are
`scripts/migrate-orbit-identities.ts`, `SeedCounter` is
`scripts/seed-mongo-counters.ts`, run while no request is under way, and
`LoseCounter` the restore of a database without its counters. Left out: ids
minted inside a transaction, which come back with it, the core `user`
collection (which has a counter of its own), and string ids.

### JobCardWorkflow

`status` is `workflowStatus` as a number (0 draft, `LastStage + 1` file closed),
`approved` the stages with an approval record, `done` how each background step
was completed, `rejected` whether the latest review decision asks for repairs,
`coated` what the coating analysis says. `req` holds what a request has read: approval and rejection
move the card by compare-and-set, every other writer saves the card it read.
The stage before and the first phase of this one gate an approval; a step
follows the one before it of its colour. `Reset` is the list that
`resetReviewAfterRepairs` removes one by one (the data book steps are in
`Downstream`), `QaSteps` what `autoSkipInapplicableSteps` skips. History
variables: `crossed`, a save or amendment that crossed another request;
`withdrawn`, steps whose completion was removed and not made again; `overtaken`,
requests whose step is no longer in order because what it follows was removed
after they checked; `overlapped`, steps such a request completed, steps
completed between the removal of what they follow being decided and done, and
those a dead reset was still to remove. `Die` ends a request anywhere. Left out:
users and assignments, outcomes, edits of the configuration, legacy stage names,
and cards that are not ACTIVE.

### RbacAccess

`grant`, `roles`, `link` are the documents of one app; `cache`, `seen` what each
machine holds, `epoch` and `bumps` the document that is polled and the bumps on
their way to it. A request writes (`WriteGrant`), then evicts on its own machine
and sends a bump (`Announce`), or dies with its machine (`Restart`); a reader
reads the grant, then the role, then stores what it resolved. A revocation looks
the app up among the active ones its machine has read (`rbac.service.ts:492`):
`Revoked` found it and announces, `RevokedSilently` did not, evicts nothing and
tells nobody. `collided` and `removed` are history variables. A role's permissions are set by deleting the
links, announcing, and creating them one at a time, in that order.

### PuppeteerPool

Node runs one step between two awaits: `pc` is where each task is, the other
variables are the fields of the service and the Chrome processes it launched,
by number. `ProcessQueue` is the loop without an await, called by `Enqueue` and
by every `Settle`. `ChromeFails` lets any process die or hang, up to
`MaxFaults`. `overtaken` is a history variable: two tasks gave up one process.
`IdleTimerSet` is what `scheduleIdleClose` sees: it runs before the task is
counted out.

### BoqReview

`quantity` is the lines of one BOQ (0: not there), `boq` its status and one
total for the three, `reviews` its `ReviewWorkflow` documents. `req` holds what
a request does next and what it has read. `recalculateTotals` is two calls
(`SumLines`, `SetTotal`); `updateStatus` is two (`ReadBoq`, `SaveBoq`), after
the review is stored or, in `assignReviewer`, before (`SaveReview`). `Kept` is
what a save does with a field that was absent when the document was read:
nothing. A saved line or review comes back whole, `isActive` included. `misled`
and `follows`, and `behind` and `overtaken` of a request, are history: they name
the requests that stored something after what it rests on had changed. `Lose`
ends a request anywhere. Of the decisions, two are taken: the program tells
approval from the others and nothing else. Left out: removing a BOQ, line
numbers, drawings, reviewers, what the suppliers are sent, BOQs made from a
sourcing session, and audit records.

## 3. Runs

| Run | Question | States | Bounds |
|---|---|---|---|
| `fifo_concurrent` | Does FIFO stock hold together, and implement the ledger, whatever is interleaved? | 1.1 M | 2 products, 2 batches at 2 dates, 2 sessions, 1 request beside the transaction |
| `receipt_overlap` | What survives overlapping receipts? | 1.6 M | a note and its invoice, 2 requests, 2 batches, 1 session |
| `receipt_serial` | Are receipts right when each ends, or dies, before the next starts? | 3.0 M | 2 notes, 2 invoices (one names both notes and may lose its stock item, the line of the other may be skipped), 3 batches, 1 session |
| `alloc_concurrent` | What do overlapping allocation requests leave intact? | 2.3 M | 2 requests, 2 allocations, 3 movements, 2 in stock and allowed |
| `take_concurrent` | Can stale saves skip a stage or capture twice? | 1.9 M | 1 session, 2 requests, 2 products, quantities 0 and 1 |
| `seq_seeded` | Are ids unique from a counter in order? | 113 k | 2 collections, 3 processes, ids to 4 |
| `seq_drifting` | Do creates succeed when the counter is missing, behind, lost, raised? | 0.9 M | 1 collection, 2 processes, ids to 3, 2 retries |
| `workflow` | Does a card pass a stage, or a step come out of order, when requests overlap and die? | 2.1 M | 2 stages, 6 background steps, 2 requests |
| `rbac` | Is a stale answer explained, and does it go away? | 0.6 M | 2 machines, 1 user, 2 roles, 1 permission, 2 changes, 1 reader, 2 grants |
| `pool` | Are slots and processes accounted for, and do tasks end? | 0.2 M | 3 tasks on 2 slots, 2 faults, 1 retrying caller |
| `boq_review` | Do lines and total, BOQ and review agree, and what moves after approval? | 3.4 M | 1 BOQ, 1 line, 2 reviews, 2 decisions, 2 requests |
| `cache_drift` | A disagreement of section 6 | | |

What the properties say:

- `BatchesConserved`: what a batch has left and what its rows took is what was
  bought, and it is active exactly while something is left. `ViewConserved`:
  the same inside the open transaction. Both fail if the two collections that
  one turn of the loop writes ever drift apart.
- `FifoOrder`: a step that lowers a batch leaves every older batch of the
  product, among those the snapshot held, empty.
- `ImplementsLedger`: no partial session, no lost draw, no double draw is ever
  visible.
- `CostsFollowInvoice`: after re-costing, every row ever written from a batch
  has the invoiced cost. It depends on a conflict: the re-costing saves the
  batch before it reads the rows, so that a session that drew at the old cost
  is refused at commit or found among the rows.
- `ReceivedOnce`, `PricedIsReceived`, `OnlyVoidingWritesOff`,
  `CacheMatchesFifo`: receipts without overlap, each request free to die at any
  write. What a death leaves undone is named exactly: a change of the cache
  between two writes; goods between marking a line priced and receiving them;
  the cover of a note between goods and invoice. Goods enter twice only as the
  code has it: two invoices of one note are both approved, or the invoice that
  brought the goods in was deleted with another note it names; a line that could
  not be marked is recorded with what a death leaves undone (section 6). With
  overlap they do not hold, and nothing in the repository says they do, except
  for the cache.
- `ChangesAreRecorded`, `TrailMatchesStatus`, `AllowanceHeld`: the audit trail,
  the status and the allowance. Trail and status agree for an allocation no
  outdated copy was saved over, while others may be in any state. The allowance
  is kept whatever is saved over, by all allocations but those whose check was
  followed by another coming to count before they were stored.
- `StagesInOrder`: holds under every interleaving although each save may revert
  others, because a copy that is saved as approved was read as pending.
- `OneLinePerProduct`: a session is captured once, whoever retries, reopens it or
  saves over it a copy read before the capture: such a copy has no `snapshotAt`
  and so does not remove it.
- `PassedIsApproved`: approvals are recorded before the card moves and removed
  before it is sent back, so that a stage without one was never passed, unless a
  whole-card save or an amendment crossed another request. `StageGate`: nor were
  background steps left behind, or the first phase of the stage itself, except
  those whose completion was removed later and not made again.
- `BranchOrder`: a step a user completed still has the one it follows, through
  skips, reversals and resets of the review. Exempt is what was completed while
  a reset or a reversal was under way, and what a reset that died was still to
  remove. One after the other they keep the order, because the list of the reset
  holds every step that follows one of it (a list that forgets one breaks the
  property), and because nothing can be completed behind a skipped step before
  the quality check that skipped it. Steps of which the code does not look after
  the order are left out by name (`Ordered`): see section 6.
- `StaleHasReason`: a cached answer differs from the documents only if a bump is
  on its way, was missed or is about to be sent, or if it was stored late.
  `AgreesAtLast`: whatever the reason, it goes away. `GrantsSound`: a user has
  one grant, of an existing role, that nobody revoked, unless two requests about
  the user overlapped.
- `SlotsUsed`, `NoStrayBrowser`, `NoDeadPromise`, `EveryTaskSettles`: a slot per
  running task and nobody waiting beside a free one; no Chrome process lost
  unless two tasks gave the same one up; no later task sent to wait for a launch
  that failed; every task ends.
- `TotalIsSum`, `StatusAgrees`: with nothing half stored, the total is that of
  the lines and the BOQ has the status of the review moved last, unless the last
  to store it rested on a read that was no longer true, or a request died
  between its writes. `ApprovedIsFrozen`, `DecisionsStand`: what changes an
  approved BOQ by an edit, or a decision, or brings back a review that was set
  aside, is a request that another overtook. All four fail if any handler leaves
  out its check, its recalculation or its second write.
- `NoCollisions`, `RetriesSuffice`: ids; a `create` gives up only if other
  requests put a document in its way at every retry.

`fifo_concurrent`, `receipt_overlap`, `take_concurrent`, `workflow`, `rbac` and
`boq_review` are checked for deadlock. The other runs switch that off because they do stop:
stock is issued, ids, movements and tasks run out at their bounds.

Why the bounds are enough: the errors looked for need two actors and one
document, or two documents and one transaction. Two batches at two dates arrive
in either order; two sessions and amounts of 2 against rows of 1 and 2 give
partial draws, exact exhaustion, crossing into the next batch and running out;
two requests give every pair of overlapping read and save, with the commit of a
session in between. Three ids and two retries let a counter be behind by more
than one and still let retries run out. Symmetry is used over workers (and over
the two collections of a sequence), which no definition tells apart.

One card, one user and one Chrome process are enough because nothing in the
three modules relates two of them but the queue and the slots, of which there
are three and two. Two machines are the one that writes and one that must be
told. Six background steps are one of each sort (a branch of its own, the
check that skips, the certificates it skips, the review, the repairs that reset
it, the one that does not block), and two stages are the stage that is gated and the one that gates.

One line is enough for `BoqReview`: it is added, changed, removed and brought
back, by two requests, so that any two recalculations, and a recalculation and a
save, cross in either order; two reviews are the one that counts and the one set
aside.

Fairness is assumed in two modules only. In `PuppeteerPool`, each task that can
proceed does, and a launch settles: every browser call it awaits carries a
timeout, and Node runs a callback that is ready. Callers need not come, Chrome
need not fail. In `RbacAccess`, a reader that has started finishes, and a cached
answer runs out: `cached` compares its age with a fixed life. Nothing is assumed
of polls, bumps or requests: `AgreesAtLast` holds because of the life alone,
once requests have stopped changing the documents (each is made once), which is
what the comments of the cache say bounds the staleness. Nothing else is
promised by the program to happen: requests are best effort, background calls
log and forget their failures, and a transaction may conflict for ever.

## 4. Proofs

Every invariant and every action property of section 3 is proved with TLAPS, for
every value of the constants: of products, notes, users, requests, stages,
tasks, and of the bounds. The theorems assume what the modules assume of their
constants (`ASSUME`, weaker than what the instances use) and, where it is said
below, a hypothesis of their own. Where a count is kept, the set counted is
assumed finite (`Requests`, `Tasks`, `Steps`, `Products` of a stock take).

Each proof module has one shape: the inductive invariant `IInv`, a lemma that it
holds initially, one lemma per action (where many conjuncts are disturbed, one
per conjunct), a lemma for `[Next]_vars`, a temporal step. The properties are
seldom inductive: they speak of what is stored, and are kept because of what
requests under way have read, and how much of that is still true. That is what
the other conjuncts say.

`FifoStockProofs`, of `FifoStock`:

- `TypeCorrect`: `[]TypeOK`. In particular no quantity, remainder or snapshot
  value is ever negative.
- `StockConserved`, `ViewAgrees`: `BatchesConserved` and `ViewConserved`, with
  `IInv` the two and `TypeOK`. `BatchesConserved` is not inductive: `Commit`
  publishes the view, so that what the view holds of a batch nobody else has
  written is the committed batch less the rows the transaction inserted.
  `BalanceDrawn` carries it through one turn of the loop, `BalanceCommitted`
  shows that a commit without conflict turns it into `BatchesConserved`.
- `FifoOrderHolds`: `FifoOrder`, an action property. `OrderInv` adds: a batch
  drawn from is one the commit will write (`DrawnIsWritten`), has only empty
  ones before it in the view (`DrawnInOrder`), and nothing outside the
  transaction writes a batch that exists (`OnlyProductsTouched`).
- `SessionsAreAtomic`: `Spec => ImplementsLedger`, the refinement. `LedgerInv`
  adds that what is drawn of each product is what the rows so far ask for
  (`Filled`), that the rows are those of an order (`Ordered`) and that a batch
  of the view has the product and date of the committed one (`SameGoods`). Each
  step but `Commit` and the arrival of a batch stutters in the ledger; `Commit`
  is its `Issue` over the batches of the snapshot. Its totals are folds over
  sets, for which induction is out of reach: each law of `Total` (empty set, one
  more element, sum of two amounts, comparison) is proved by taking a smallest
  set for which it fails (`SmallestSet`, from `WFMin` of the library), and
  dropping an element. `JobAllocationProofs` does the same for the allowance.

`FifoStockProofs`, of `ReceiptBridge` with overlap (`BridgeSpec`):

- `BridgeTypesCorrect`: `[]BridgeTypeOK`. Steps of sessions and of the cache are
  steps of `FifoStock` and reuse its lemmas.
- `RowsAreInvoiced`: once a batch is reconciled, nobody is re-costing it and no
  re-costing of it died half way (`cutShort`), it
  and all its rows have costs that invoices naming its note state. No
  hypothesis. `CostsFollow`: under `OneCostPerNote` (invoices that name a common note
  agree on the cost of a product) that is `CostsFollowInvoice`; without, it is false
  (section 6). `BridgeInv` says of every copy that a request or the transaction
  holds how it differs from the batch (`CopiesRight`, `ViewRight`), and for each
  row that is not at the invoiced cost which request is yet to re-cost it
  (`RowsRight`): this is where the order "save the batch, then read its rows" is
  needed.

`FifoStockProofs`, of `ReceiptBridge` one request at a time (`SerialSpec`):

- `StockOnlyIssued`: `OnlyVoidingWritesOff`. `SerialInv` is `BridgeInv` and: one
  is busy, and its copies and the view are those of the database.
- `PricedGoodsArrive`: `PricedIsReceived`, for invoices whose deaths are
  recorded (`Invoices \subseteq Watched`; `Watched` is only what the history
  variable `lost` records).
- `GoodsEnterOnce`: `ReceivedOnce`, for recorded notes and invoices, however
  invoices name notes. `GoodsInv` adds what the request under way has read and
  checked (`Orderly`: that the invoices a link found are those completed, that
  no batch was left for the goods about to be bought, that the invoice was not
  deleted), that a batch bought in or matched has an invoice that is done with
  (`Taken`: marked and its goods no longer to come, or given up), and that goods
  bought by invoice have something that covers each note it names: a completed
  invoice, or the request that is about to complete it (`PurchasesCovered`),
  unless the invoice was deleted with another note (`Severed`).
- `CacheIsRight`: `CacheMatchesFifo`, for recorded products and under
  `OneRowPerProduct` (the rows of a session name distinct products; otherwise it
  is false, run `cache_drift`). `CacheInv` is an account: the cached quantity
  and what the request under way is yet to add make what the batches have left
  (`CacheAccounts`); while a session is open, its view of the cache is short by
  the rows saved (`RowsSaved`), and `LedgerInv` says that as much was drawn.

`JobAllocationProofs`: `TypeCorrect`; `TrailAgrees` (`TrailMatchesStatus`),
`AllowanceKept` (`AllowanceHeld`) and the action property `ChangesRecorded`
(`ChangesAreRecorded`). `Flow` says of each allocation no outdated copy was saved
over that its movements add up to what its document says it holds (undoing what
was never taken included, section 6). `RequestsOK` says that the copy a request
holds was found in the state its operation starts from, and that what it counted
when it checked the allowance leaves room for its quantity. No save changes
whether a document waits for a manager or once did (`Waited`): a decision sets a
date, which stays. So what counts against the allowance only grows by
`AllocateTake`, and there the count is that of the request, or the allocation is
overtaken.

`StockTakeProofs`: `TypeCorrect`, `StagesHold` (`StagesInOrder`), `LinesUnique`
(`OneLinePerProduct`). `RequestsAimed`: a copy about to be saved as approved was
read as submitted, one to be posted as approved, so that no stale save skips a
stage. `LinesCaptured`: a session with lines has its snapshot mark, because no
save removes it (`KeptInOrder`).

`MongoSequenceProofs`: from a counter present and not below any id
(`SeededSpec`), `SeededIdsUnique` (`NoCollisions`) and `SeededNeverOverwrites`:
no call is ever about to write under an id in use, so that `create` does not
need its retries and `save` never writes over another document. The invariant
adds `CounterAhead` (whatever was given is at most the counter) and
`HeldIdsAreFresh` (an id a request holds was given to no document and is held by
no other request, and nobody is reseeding). From any counter (`DriftingSpec`),
`TypeCorrect` and `RetriesAreEnough` (`RetriesSuffice`): `DriftInv` says that
each failed attempt is owed to a document of another request, except perhaps the
last, after which the request is about to try an id above all that the scan
found and that nobody has taken since (`Caused`).

`JobCardWorkflowProofs`: `TypeCorrect`, `ApprovalsPrecede` (`PassedIsApproved`),
`GateHolds` (`StageGate`), `OrderHolds` (`BranchOrder`). A request checks long
before it writes; `Staged` and `Checked` say what of its check still holds, or
which of `crossed`, `withdrawn`, `overtaken` accounts for what does not.
`OrderHolds` needs more, since a reset takes several steps: `Resets` (what
follows a step still to be removed is still to be removed too, or was completed
meanwhile), `Reversals` (the same of steps found to be skipped wrongly) and
`Skips` (only what the quality check skips is inapplicable, and only after it).
The one assumption on the configuration is that the quality check is neither
skipped nor reset.

`RbacAccessProofs`: `TypeCorrect`, `ReasonsNamed` (`StaleHasReason`),
`GrantsStaySound` (`GrantsSound`). `CacheFresh` and `LoadFresh`: when no request
is between a write and its announcement, no bump is on its way and the machine
has seen the epoch, what it stored, and what a reader on it has loaded so far,
is what the documents say. `StoredOK`: every grant ever created has one owner,
and a user about whom no requests overlapped has one at a time.

`PuppeteerPoolProofs`: `TypeCorrect`, `SlotsAccounted` (`SlotsUsed`),
`BrowsersKept` (`NoStrayBrowser`), `PromisesLive` (`NoDeadPromise`). `Counted`
relates queue and slots to the tasks; a queue that is not empty means full
slots; `Launched` ties each launch to the one task that made it and, while no
two tasks gave up one process, the live process to the promise.

`BoqReviewProofs`: `TypeCorrect`, `TotalRight` (`TotalIsSum`), `StatusRight`
(`StatusAgrees`), and the action properties `ApprovedStays` (`ApprovedIsFrozen`)
and `DecisionsFinal` (`DecisionsStand`). `Relied` says of each request under way
what it may still rely on of what it read (the status of the BOQ, the review,
the total), unless it is marked behind or overtaken; `RoomForReviews` counts
reviews being opened against the bound.

Only model-checked: the liveness properties `EveryTaskSettles` and
`AgreesAtLast` (liveness under fairness is out of the prover's reach, with
`ENABLED`), freedom from deadlock where a run checks it, and the run of section
6. TLC checks the theorems' properties too, on the instances of section 3, which
meet the hypotheses named here.

## 5. Plan

Done: modules 1 to 9 with their runs, and a theorem for each of their
invariants and action properties.

1. `FifoStock` with `StockLedger`. 2. `ReceiptBridge`. 3. `JobAllocation`.
4. `StockTake`. 5. `MongoSequence`. 6. `JobCardWorkflow`. 7. `RbacAccess`.
8. `PuppeteerPool`. 9. `BoqReview`.
10. `Returns`: return sessions, confirmation, wastage bins, holds; extends
   `FifoStock`. Property: a confirmed return enters stock once.
11. `RateLimiter`: buckets with waits between read and update; the limit under
    interleaving. `Idempotency`: two POSTs with one key.
12. Extensions: AU certificate numbers in `MongoSequence`; the legacy stock
    side of deliveries and `InventoryService` in `JobAllocation`.

Theorems next, beside those of the modules to come (which share a proof module
with the component they extend: `Returns` with `FifoStock`): without the bound of
one request at a time, what of `ReceivedOnce` and `CacheMatchesFifo` a request may
rely on that no other overtakes; the cost of a batch with several invoices of
one note, as far as the order of their approvals decides it.

## 6. Disagreements met

Kept as a run that TLC must find violated:

- `cache_drift`: a session with two rows of one product lowers the cached
  quantity by the second row only (`issuance.service.ts:82` reads outside the
  session).

Also met while modelling, and described here only:

- `lines.some(async ...)` tests a promise, which is always true, so that every
  session with lines is refused with "Some variance lines require a photo before
  submission" (`stock-take.service.ts:148`).
- `MongoCrudRepository.save` keeps a foreign key that the document already has
  and drops the relation it is given (`mongo-crud-repository.ts:141`): a review
  keeps its first reviewer although the endpoint is to "Assign a reviewer"
  (`workflow/workflow.controller.ts:112`), and a BOQ its first drawing.
- `startReview`, `approve` and the others do not look at `isActive`: a review
  that a later submission set aside can still be decided, and the BOQ takes its
  status. `submitForReview` and `submitForQuotation` look at no status: either
  takes an approval back.
- A BOQ approved while an edit or a recalculation is under way loses the
  approval, or gets an older total back (`boq.service.ts:192`, `:448`).
- Re-costing saves a batch read before a session drew from it, and undoes the
  draw (`supplier-invoice-fifo-bridge.service.ts:140`): the reconciliation
  report's "cache invariant" breaks.
- Two overlapping undo requests both give an allocation back, although the second
  is to be told it "has already been undone" (`job-card-allocation.service.ts:472`).
- Two first creates on a shared sequence without a counter get the same id
  (`mongo-crud-repository.ts:301`), against the test "no id collisions"
  (`annix-orbit/identity/repositories/orbit-identity-sequence.spec.ts:173`).
- An approval that dies between receiving goods and completing the invoice, or a
  deletion that dies between invoice and note, lets a second link of the note
  bring the goods in again; one that dies after a line is marked priced never
  receives it.
- Two invoices of one note, at different costs, approved by two people at once:
  each looks for batches nobody reconciled, finds the same one, and re-costs it
  on copies of its own (`supplier-invoice-fifo-bridge.service.ts:140`), so that
  the batch has the cost of one and its rows those of both. TLC finds it with
  one note, two invoices and two workers. Nothing in the code keeps such
  invoices apart; hence `OneCostPerNote` in section 4. One after the other, the
  second finds every batch of the note reconciled and brings in a batch of its
  own (`:123`), whatever the note announced: the first of the two cases that
  `ReceivedOnce` leaves open.
- A line whose stock item is gone is not marked priced (`invoice-extraction.service.ts:1035`,
  `:1068`) and is received all the same (`:1073`): with no batch of its notes left
  to match, every further approval of the invoice brings its goods in again.
- A line whose price clarification was skipped is not received (`:1024`), but
  its invoice is completed and covers the note, so that linking the note brings
  nothing in either (`delivery.service.ts:140`). In the same way an invoice that
  names several notes and found a batch of one covers the others.
- Deleting a note deletes the invoices whose `deliveryNoteId` it is
  (`supplier-invoice.repository.mongo.ts:174`), and leaves those that name it in
  `linkedDeliveryNoteIds`. The other notes of a deleted invoice are no longer
  covered, although the goods it brought in stay: linking them again brings them
  in once more, the second case of `ReceivedOnce`.
- A whole-card save (`job-card.service.ts:99`) or an amendment
  (`job-card-version.service.ts:112`) puts an old stage back over a move, in
  spite of the compare-and-set of `approveStep`; amendments keep the completed
  background steps.
- `primaryFrontierStepKeys` lists what is "genuinely awaiting THIS user RIGHT
  NOW" (`job-card-workflow.service.ts:726`), and includes stages whose first-phase
  steps are open and later steps of a branch, which the handlers refuse.
- `resetReviewAfterRepairs` removes a fixed list of steps
  (`qa-process.service.ts:228`), although steps, their branches and their order
  are configured: a step that a company puts behind one of the list, and that is
  not in it, stays complete when the repairs send the review back, and so does a
  quality check put behind a step it skips. Hence `Ordered`.
- `rejectPendingStep` looks for PENDING approvals, which nothing creates; the
  review and the repairs can be completed without any decision.
- `setRolePermissions` announces before it creates the new links
  (`rbac.service.ts:850`), so that nothing announces the links themselves, while
  `rbac-access-details-cache.ts:11` says "every RBAC mutation bumps a Mongo epoch";
  it refuses an unknown permission after the old links are gone; two that overlap
  leave the union of both. `revokeAccess` announces nothing, and does not even
  evict on its own machine, when the app is inactive or newer than the list its
  machine keeps (`rbac.service.ts:129`, `:493`), although `resolveAccessDetails`
  goes on answering for such an app: the revoked access is served until it runs
  out.
- `scheduleIdleClose` runs before the task is counted out
  (`puppeteer-pool.service.ts:140`, `:193`), never sees an idle pool, and so never
  closes the browser.
- `bootstrapCompany` gives a product a legacy batch for its whole cached
  quantity although receipts already created batches for part of it.
- `deallocate` accepts an allocation that waits for approval, and
  `undoAllocation` one that was rejected: stock is increased by what was never
  taken.
- Two overlapping allocations together exceed the allowance
  (`job-card-allocation.service.ts:250`).
- A manual OUT of more than there is empties the item and records the full
  quantity (`movement.service.ts:68`), against
  `src/annix-backend/docs/stock-control/SYSTEM-OVERVIEW.md:257`.
- A request that saves a stock take it read earlier puts an older status back
  (an approval is lost, a rejected session is found posted); `reject` takes any status although the endpoint says
  "pending"; `captureSnapshot` reopens a rejected session although the endpoint
  says "draft"; `post` writes no quantity although the endpoint says it updates
  them.
- The migration script may lower a live counter (it reads, then sets) although
  it says "never lower a live sequence".
- The undo of an allocation has no five-minute window
  (`stock-control/controllers/job-cards.controller.ts:903`).

## 7. Not modelled

Listed in `PROJECT.json` with the reason of each: user interface, AI
extraction, e-mail and accounting services (external), reference tables and
floating-point formulas (stateless), CRUD over single documents, and the
subsystems of the plan above.
