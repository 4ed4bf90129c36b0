----------------------------- MODULE FifoStock -----------------------------
(***************************************************************************)
(* FIFO stock of the stock-management module: purchase batches, their      *)
(* consumption by issuance sessions, and the cached on-hand quantity of    *)
(* each product.                                                           *)
(*                                                                         *)
(*   FifoBatchService       createBatch, consumeFifoInTransaction          *)
(*   IssuanceService        createSession (one MongoDB transaction),       *)
(*                          undoSession (plain saves)                      *)
(*   IssuableProductService adjustQuantity, update (read, then save the    *)
(*                          whole product document)                        *)
(*                                                                         *)
(* An issuance session runs inside session.withTransaction.  MongoDB gives *)
(* it a snapshot (view, viewQuantity) and makes its writes visible at      *)
(* commit, unless a document it wrote was written by somebody else since   *)
(* the snapshot (wrote, touched).  The first write of every session mints  *)
(* an id from the shared counters document, inside the transaction, so a   *)
(* second session conflicts at once and is retried: at most one            *)
(* transaction is open past its first write, and one workspace is enough.  *)
(* Everything else is a request of its own (job) that reads a document,    *)
(* awaits, and later saves the whole document it read.                     *)
(***************************************************************************)
EXTENDS Integers, Sequences, FiniteSets

CONSTANTS
    Products,       \* ids of issuable products
    Dates,          \* receivedAt values, as naturals
    Amounts,        \* quantities a batch is bought with, or an edit sets
    Costs,          \* unit costs
    Orders,         \* row lists an issuance request may carry
    Workers,        \* concurrent non-transactional requests
    MaxBatches,     \* bound on batches ever created
    MaxSessions     \* bound on issuance sessions ever committed

Row == [product : Products, qty : Nat \ {0}]

ASSUME DatesAssumption == Dates \subseteq Nat
ASSUME AmountsAssumption == Amounts \subseteq Nat \ {0}
ASSUME CostsAssumption == Costs \subseteq Nat
ASSUME OrdersAssumption == Orders \subseteq Seq(Row) \ {<< >>}
ASSUME BoundsAssumption == MaxBatches \in Nat /\ MaxSessions \in Nat

VARIABLES
    batchSeq,       \* number of batch ids minted so far
    batch,          \* sm_stock_purchase_batch documents, by id
    consumed,       \* per batch, total of its committed consumption rows
    rowCosts,       \* per batch, the unit cost on each of those rows
    quantity,       \* IssuableProduct.quantity, the cached on-hand
    sessions,       \* committed issuance sessions
    txPhase,        \* where the open transaction is; "idle" when none is
    txRows,         \* rows of the request being issued
    txRow,          \* index of the row being processed
    txNeed,         \* remainingToConsume of that row
    txRead,         \* product.quantity as that row read it
    view,           \* the transaction's snapshot of batch, with its writes
    drawn,          \* per batch, consumption rows the transaction inserted
    viewQuantity,   \* the transaction's snapshot of quantity, with its writes
    wrote,          \* documents the transaction wrote
    touched,        \* documents others wrote since its snapshot
    job             \* local state of each worker's request

stockVars == <<batchSeq, batch, consumed, rowCosts, quantity, sessions>>
txVars    == <<txPhase, txRows, txRow, txNeed, txRead, view, drawn,
               viewQuantity, wrote, touched>>
vars      == <<stockVars, txVars, job>>

BatchStatus == {"active", "exhausted", "written_off"}

Batch == [product : Products, receivedAt : Dates, purchased : Nat,
          remaining : Nat, cost : Costs, status : BatchStatus]

Session == [rows : Seq(Row), status : {"active", "undone"},
            undoneRows : SUBSET Nat]

\* A worker's request: what it is doing, the product or session it is about,
\* the quantity it read and the change it will make.
Job == [kind : {"adjust"}, product : Products, delta : Int]
         \cup [kind : {"adjusting"}, product : Products, delta : Int, copy : Nat]
         \cup [kind : {"editing"}, product : Products, copy : Nat]
         \cup [kind : {"undo"}, session : Nat, row : Nat]
         \cup [kind : {"idle"}]

Idle == [kind |-> "idle"]

\* Documents by collection and id.
BatchDoc(b) == <<"batch", b>>
ProductDoc(p) == <<"product", p>>

\* Variant of AtLeastZero: Math.max(0, ...) forgotten.
Unclamped(n) == n

AtLeastZero(n) == IF n < 0 THEN 0 ELSE n

Lesser(a, b) == IF a < b THEN a ELSE b

----------------------------------------------------------------------------
(* Initial state: products with no batches and nothing issued.             *)

Init ==
    /\ batchSeq = 0
    /\ batch = [b \in 1..0 |-> 0]
    /\ consumed = [b \in 1..0 |-> 0]
    /\ rowCosts = [b \in 1..0 |-> << >>]
    /\ quantity = [p \in Products |-> 0]
    /\ sessions = << >>
    /\ txPhase = "idle"
    /\ txRows = << >>
    /\ txRow = 0
    /\ txNeed = 0
    /\ txRead = 0
    /\ view = [b \in 1..0 |-> 0]
    /\ drawn = [b \in 1..0 |-> 0]
    /\ viewQuantity = [p \in Products |-> 0]
    /\ wrote = {}
    /\ touched = {}
    /\ job = [w \in Workers |-> Idle]

----------------------------------------------------------------------------
(* FifoBatchService.createBatch: a new active batch with everything        *)
(* remaining.  The transaction in flight, if any, does not see it.         *)

CreateBatch(p, date, amount, cost) ==
    /\ batchSeq < MaxBatches
    /\ amount > 0
    /\ batchSeq' = batchSeq + 1
    /\ batch' = [b \in 1..batchSeq + 1 |->
                   IF b = batchSeq + 1
                     THEN [product |-> p, receivedAt |-> date,
                           purchased |-> amount, remaining |-> amount,
                           cost |-> cost, status |-> "active"]
                     ELSE batch[b]]
    /\ consumed' = [b \in 1..batchSeq + 1 |->
                      IF b = batchSeq + 1 THEN 0 ELSE consumed[b]]
    /\ rowCosts' = [b \in 1..batchSeq + 1 |->
                      IF b = batchSeq + 1 THEN << >> ELSE rowCosts[b]]

\* POST /stock-management/fifo: the batch alone, the cache is not adjusted.
ManualBatch ==
    /\ \E p \in Products, date \in Dates, amount \in Amounts, cost \in Costs :
           CreateBatch(p, date, amount, cost)
    /\ UNCHANGED <<quantity, sessions, txVars, job>>

\* A receipt (supplier invoice or delivery line): createBatch, after which
\* the request goes on to adjustQuantity.
ReceiveBatch(w) ==
    /\ job[w] = Idle
    /\ \E p \in Products, date \in Dates, amount \in Amounts, cost \in Costs :
           /\ CreateBatch(p, date, amount, cost)
           /\ job' = [job EXCEPT ![w] =
                        [kind |-> "adjust", product |-> p, delta |-> amount]]
    /\ UNCHANGED <<quantity, sessions, txVars>>

----------------------------------------------------------------------------
(* Plain saves of a product document.                                      *)

\* A write outside the transaction: MongoDB will refuse the transaction's
\* own write of the same document.
SaveQuantity(p, n) ==
    /\ quantity' = [quantity EXCEPT ![p] = n]
    /\ touched' = IF txPhase = "idle" THEN touched ELSE touched \cup {ProductDoc(p)}
    /\ UNCHANGED <<batchSeq, batch, consumed, rowCosts, sessions, txPhase, txRows,
                   txRow, txNeed, txRead, view, drawn, viewQuantity, wrote>>

\* IssuableProductService.adjustQuantity: read ...
AdjustRead(w) ==
    /\ job[w].kind = "adjust"
    /\ job' = [job EXCEPT ![w] =
                 [kind |-> "adjusting", product |-> @.product,
                  delta |-> @.delta, copy |-> quantity[@.product]]]
    /\ UNCHANGED <<stockVars, txVars>>

\* ... then save what was read, plus the delta.
AdjustSave(w) ==
    /\ job[w].kind = "adjusting"
    /\ SaveQuantity(job[w].product, AtLeastZero(job[w].copy + job[w].delta))
    /\ job' = [job EXCEPT ![w] = Idle]

\* IssuableProductService.update and softDelete: read the product ...
EditRead(w) ==
    /\ job[w] = Idle
    /\ \E p \in Products :
           job' = [job EXCEPT ![w] =
                     [kind |-> "editing", product |-> p, copy |-> quantity[p]]]
    /\ UNCHANGED <<stockVars, txVars>>

\* ... and save all of it: with the quantity of the request, or, when the
\* request names none, with the quantity it read.
EditSave(w) ==
    /\ job[w].kind = "editing"
    /\ \E n \in Amounts \cup {0, job[w].copy} : SaveQuantity(job[w].product, n)
    /\ job' = [job EXCEPT ![w] = Idle]

----------------------------------------------------------------------------
(* IssuanceService.undoSession: the session document, then its rows one by *)
(* one; no batch, consumption or quantity is written.                      *)

UndoRead(w) ==
    /\ job[w] = Idle
    /\ \E s \in 1..Len(sessions) :
           /\ sessions[s].status # "undone"
           /\ job' = [job EXCEPT ![w] = [kind |-> "undo", session |-> s, row |-> 0]]
    /\ UNCHANGED <<stockVars, txVars>>

UndoSave(w) ==
    /\ job[w].kind = "undo"
    /\ LET s == job[w].session
           i == job[w].row
       IN  /\ sessions' = IF i = 0
                            THEN [sessions EXCEPT ![s].status = "undone"]
                            ELSE [sessions EXCEPT ![s].undoneRows = @ \cup {i}]
           /\ job' = [job EXCEPT ![w] =
                        IF i = Len(sessions[s].rows)
                          THEN Idle ELSE [@ EXCEPT !.row = i + 1]]
    /\ UNCHANGED <<batchSeq, batch, consumed, rowCosts, quantity, txVars>>

\* The process running a request dies, or one of its calls fails: what it has
\* not saved yet is never saved.
Lose(w) ==
    /\ job[w] # Idle
    /\ job' = [job EXCEPT ![w] = Idle]
    /\ UNCHANGED <<stockVars, txVars>>

----------------------------------------------------------------------------
(* IssuanceService.createSession, one transaction.                         *)

CloseTx ==
    /\ txPhase' = "idle"
    /\ txRows' = << >>
    /\ txRow' = 0
    /\ txNeed' = 0
    /\ txRead' = 0
    /\ view' = [b \in 1..0 |-> 0]
    /\ drawn' = [b \in 1..0 |-> 0]
    /\ viewQuantity' = [p \in Products |-> 0]
    /\ wrote' = {}
    /\ touched' = {}

Begin ==
    /\ txPhase = "idle"
    /\ Len(sessions) < MaxSessions
    /\ txRows' \in Orders
    /\ txPhase' = "row"
    /\ txRow' = 1
    /\ view' = batch
    /\ drawn' = [b \in 1..batchSeq |-> 0]
    /\ viewQuantity' = quantity
    /\ UNCHANGED <<stockVars, txNeed, txRead, wrote, touched, job>>

\* productRepo.findByIdForCompany does not pass the session: it returns the
\* committed document, not the transaction's own earlier write.
ReadProduct ==
    /\ txPhase = "row"
    /\ txRead' = quantity[txRows[txRow].product]
    /\ txNeed' = txRows[txRow].qty
    /\ txPhase' = "draw"
    /\ UNCHANGED <<stockVars, txRows, txRow, view, drawn, viewQuantity, wrote,
                   touched, job>>

\* The order findActiveForProductLocked sorts by: receivedAt, then _id.
Older(a, b) ==
    \/ view[a].receivedAt < view[b].receivedAt
    \/ view[a].receivedAt = view[b].receivedAt /\ a < b

Available(p) ==
    {b \in DOMAIN view : /\ view[b].product = p
                         /\ view[b].status = "active"
                         /\ view[b].remaining > 0}

\* Variant of Less: the status is left alone when the batch runs out.
LessStillActive(doc, take) ==
    [doc EXCEPT !.remaining = doc.remaining - take]

\* The batch document with take less in it.
Less(doc, take) ==
    [doc EXCEPT !.remaining = doc.remaining - take,
                !.status = IF doc.remaining - take <= 0 THEN "exhausted" ELSE doc.status]

\* Variant of Draw: batches come in no particular order.
DrawUnordered ==
    /\ txPhase = "draw"
    /\ txNeed > 0
    /\ \E b \in Available(txRows[txRow].product) :
           /\ LET take == Lesser(view[b].remaining, txNeed)
              IN  /\ view' = [view EXCEPT ![b] = Less(view[b], take)]
                  /\ drawn' = [drawn EXCEPT ![b] = @ + take]
                  /\ txNeed' = txNeed - take
           /\ wrote' = wrote \cup {BatchDoc(b)}
    /\ UNCHANGED <<stockVars, txPhase, txRows, txRow, txRead, viewQuantity,
                   touched, job>>

\* Variant of Draw: the consumption row records what is still needed, not
\* what the batch could give.
DrawRecordingNeed ==
    /\ txPhase = "draw"
    /\ txNeed > 0
    /\ \E b \in Available(txRows[txRow].product) :
           /\ \A c \in Available(txRows[txRow].product) \ {b} : Older(b, c)
           /\ LET take == Lesser(view[b].remaining, txNeed)
              IN  /\ view' = [view EXCEPT ![b] = Less(view[b], take)]
                  /\ drawn' = [drawn EXCEPT ![b] = @ + txNeed]
                  /\ txNeed' = txNeed - take
           /\ wrote' = wrote \cup {BatchDoc(b)}
    /\ UNCHANGED <<stockVars, txPhase, txRows, txRow, txRead, viewQuantity,
                   touched, job>>

\* One turn of the loop of consumeFifoInTransaction: a consumption row, and
\* the batch saved with what is left of it.
Draw ==
    /\ txPhase = "draw"
    /\ txNeed > 0
    /\ \E b \in Available(txRows[txRow].product) :
           /\ \A c \in Available(txRows[txRow].product) \ {b} : Older(b, c)
           /\ LET take == Lesser(view[b].remaining, txNeed)
              IN  /\ view' = [view EXCEPT ![b] = Less(view[b], take)]
                  /\ drawn' = [drawn EXCEPT ![b] = @ + take]
                  /\ txNeed' = txNeed - take
           /\ wrote' = wrote \cup {BatchDoc(b)}
    /\ UNCHANGED <<stockVars, txPhase, txRows, txRow, txRead, viewQuantity,
                   touched, job>>

\* Variant of OutOfStock: the shortage is not noticed and the row goes on.
OutOfStockUnnoticed ==
    /\ txPhase = "draw"
    /\ txNeed > 0
    /\ Available(txRows[txRow].product) = {}
    /\ txNeed' = 0
    /\ UNCHANGED <<stockVars, txPhase, txRows, txRow, txRead, view, drawn,
                   viewQuantity, wrote, touched, job>>

\* Not enough stock: the callback throws and the transaction is aborted.
OutOfStock ==
    /\ txPhase = "draw"
    /\ txNeed > 0
    /\ Available(txRows[txRow].product) = {}
    /\ CloseTx
    /\ UNCHANGED <<stockVars, job>>

\* Variant of SaveProduct: only the last row of a session lowers its product.
SaveLastProductOnly ==
    /\ txPhase = "draw"
    /\ txNeed = 0
    /\ LET row == txRows[txRow]
       IN  IF txRow = Len(txRows)
             THEN /\ viewQuantity' = [viewQuantity EXCEPT ![row.product] =
                                        AtLeastZero(txRead - row.qty)]
                  /\ wrote' = wrote \cup {ProductDoc(row.product)}
             ELSE UNCHANGED <<viewQuantity, wrote>>
    /\ IF txRow = Len(txRows)
         THEN txPhase' = "commit" /\ txRow' = txRow
         ELSE txPhase' = "row" /\ txRow' = txRow + 1
    /\ UNCHANGED <<stockVars, txRows, txNeed, txRead, view, drawn, touched, job>>

\* product.quantity = max(0, quantity read - quantity issued), saved whole.
SaveProduct ==
    /\ txPhase = "draw"
    /\ txNeed = 0
    /\ LET row == txRows[txRow]
       IN  /\ viewQuantity' = [viewQuantity EXCEPT ![row.product] =
                                 AtLeastZero(txRead - row.qty)]
           /\ wrote' = wrote \cup {ProductDoc(row.product)}
    /\ IF txRow = Len(txRows)
         THEN txPhase' = "commit" /\ txRow' = txRow
         ELSE txPhase' = "row" /\ txRow' = txRow + 1
    /\ UNCHANGED <<stockVars, txRows, txNeed, txRead, view, drawn, touched, job>>

Commit ==
    /\ txPhase = "commit"
    /\ wrote \cap touched = {}
    /\ batch' = [b \in 1..batchSeq |-> IF BatchDoc(b) \in wrote THEN view[b] ELSE batch[b]]
    /\ consumed' = [b \in 1..batchSeq |->
                      IF BatchDoc(b) \in wrote THEN consumed[b] + drawn[b]
                                             ELSE consumed[b]]
    /\ rowCosts' = [b \in 1..batchSeq |->
                      IF BatchDoc(b) \in wrote THEN Append(rowCosts[b], view[b].cost)
                                             ELSE rowCosts[b]]
    /\ quantity' = [p \in Products |->
                      IF ProductDoc(p) \in wrote THEN viewQuantity[p] ELSE quantity[p]]
    /\ sessions' = Append(sessions, [rows |-> txRows, status |-> "active",
                                     undoneRows |-> {}])
    /\ CloseTx
    /\ UNCHANGED <<batchSeq, job>>

\* A write conflict, a lost connection, a crash: nothing of the transaction
\* remains.  A retry by withTransaction is a new Begin.
Abort ==
    /\ txPhase # "idle"
    /\ CloseTx
    /\ UNCHANGED <<stockVars, job>>

----------------------------------------------------------------------------

TxStep == Begin \/ ReadProduct \/ Draw \/ OutOfStock \/ SaveProduct \/ Commit \/ Abort

JobStep(w) ==
    \/ ReceiveBatch(w)
    \/ AdjustRead(w)
    \/ AdjustSave(w)
    \/ EditRead(w)
    \/ EditSave(w)
    \/ UndoRead(w)
    \/ UndoSave(w)
    \/ Lose(w)

Next == ManualBatch \/ TxStep \/ \E w \in Workers : JobStep(w)

Spec == Init /\ [][Next]_vars

----------------------------------------------------------------------------
(* Properties.                                                             *)

StoreTypeOK ==
    /\ batchSeq \in Nat
    /\ batch \in [1..batchSeq -> Batch]
    /\ consumed \in [1..batchSeq -> Nat]
    /\ rowCosts \in [1..batchSeq -> Seq(Costs)]
    /\ quantity \in [Products -> Nat]
    /\ sessions \in Seq(Session)

\* The view holds the first n batches, those that existed at its snapshot.
ViewTypeOK ==
    \E n \in 0..batchSeq :
        /\ view \in [1..n -> Batch]
        /\ drawn \in [1..n -> Nat]
        /\ wrote \subseteq {BatchDoc(b) : b \in 1..n} \cup {ProductDoc(p) : p \in Products}

TxTypeOK ==
    /\ txPhase \in {"idle", "row", "draw", "commit"}
    /\ txRows \in Seq(Row)
    /\ txPhase # "idle" => txRow \in 1..Len(txRows)
    /\ txNeed \in Nat
    /\ txRead \in Nat
    /\ viewQuantity \in [Products -> Nat]
    /\ ViewTypeOK

TypeOK == StoreTypeOK /\ TxTypeOK /\ job \in [Workers -> Job]

\* Whatever sessions are issued, retried, aborted or lost in whatever order,
\* what is left in a batch and what its consumption rows took from it add up
\* to what was bought, and the batch is "active" exactly while something is
\* left (consumeFifoInTransaction writes the two collections separately).
BatchesConserved ==
    \A b \in 1..batchSeq :
        /\ batch[b].remaining + consumed[b] = batch[b].purchased
        /\ batch[b].status = "active" <=> batch[b].remaining > 0

\* While a transaction runs, what its view holds of a batch that nobody else
\* has written is the committed batch less what its own consumption rows took:
\* the two writes of one turn of the loop never drift apart, also when one row
\* after another draws from the same batch.
ViewConserved ==
    \A b \in DOMAIN view :
        BatchDoc(b) \notin touched =>
            /\ view[b].purchased = batch[b].purchased
            /\ view[b].remaining + drawn[b] = batch[b].remaining
            /\ view[b].status = "active" <=> view[b].remaining > 0

\* A session never takes from a batch while an older batch of the product
\* that its snapshot held is left with stock: when a step lowers a batch,
\* every older one is empty after the step.
FifoOrder ==
    [][\A b \in DOMAIN view :
         batch'[b].remaining < batch[b].remaining =>
           \A o \in DOMAIN view :
             view[o].product = view[b].product /\ Older(o, b)
               => batch'[o].remaining = 0]_vars

----------------------------------------------------------------------------
(* What of this is visible in the ledger: the committed batches and the     *)
(* rows of the sessions.                                                   *)

Entries == [b \in 1..batchSeq |-> [product |-> batch[b].product,
                                   receivedAt |-> batch[b].receivedAt,
                                   left |-> batch[b].remaining]]

Issues == [s \in 1..Len(sessions) |-> sessions[s].rows]

Ledger == INSTANCE StockLedger WITH entries <- Entries, issues <- Issues

\* Every session is issued atomically, in full and in FIFO order, or leaves no
\* trace, whatever it is interleaved with and wherever it stops: only the
\* commit of a transaction shows, and what it shows is one whole session
\* issued oldest batch first.
ImplementsLedger == Ledger!Spec

=============================================================================
