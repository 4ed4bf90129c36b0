--------------------------- MODULE ReceiptBridge ---------------------------
(***************************************************************************)
(* How goods enter FIFO stock: SupplierInvoiceFifoBridgeService, called    *)
(* when a delivery note is linked to stock, when a supplier invoice is     *)
(* approved and when a delivery note is deleted, and FifoBootstrapService, *)
(* which gives old stock its first batch.                                  *)
(*                                                                         *)
(* The same goods are announced twice, by a delivery note and by a supplier*)
(* invoice that may be linked to it; whichever comes second must not bring *)
(* them in again.  None of this runs in a transaction: every step below is *)
(* one awaited database call of a request (call), and what a request read  *)
(* is kept as a copy until it saves the whole document.  Sessions of       *)
(* FifoStock are issued meanwhile.                                         *)
(*                                                                         *)
(* A note and an invoice have one line each: lines are processed one after *)
(* the other, each as if it were alone.                                    *)
(***************************************************************************)
EXTENDS FifoStock

CONSTANTS
    Notes,              \* delivery notes
    Invoices,           \* supplier invoices
    Orphans,            \* invoices whose line's stock item may be deleted
    Unclear,            \* invoices whose line's price clarification may be skipped
    NoNote,             \* "linked to no delivery note"
    NoteLine,           \* per note: product, qty, date
    InvoiceLine,        \* per invoice: note, linked notes, product, qty, cost, date
    ProvisionalCost,    \* costPerUnit of the products, used until invoiced
    LegacyDate,         \* LEGACY_BATCH_RECEIVED_AT
    Watched             \* products, notes and invoices whose losses are recorded

ASSUME NotesAssumption ==
    /\ NoNote \notin Notes
    /\ NoteLine \in [Notes -> [product : Products, qty : Nat \ {0}, date : Dates]]
ASSUME InvoicesAssumption ==
    InvoiceLine \in [Invoices -> [note : Notes \cup {NoNote}, linked : SUBSET Notes,
                                  product : Products, qty : Nat \ {0}, cost : Costs,
                                  date : Dates]]
ASSUME BridgeAssumption ==
    /\ ProvisionalCost \in Costs /\ LegacyDate \in Dates
    /\ Orphans \subseteq Invoices /\ Unclear \subseteq Invoices
    /\ Watched \subseteq Products \cup Notes \cup Invoices

VARIABLES
    origin,         \* per batch, its sourceType and sourceRefId
    reconciled,     \* per batch, whether reconciledInvoiceId is set
    note,           \* per note, whether the document exists
    invoice,        \* per invoice, its status
    priced,         \* per invoice, priceUpdated of its line
    cutShort,       \* batches whose re-costing failed half way (history)
    lost,           \* what a request left undone (history): see Due, Uncovered, PriceItem
    call            \* local state of each worker's bridge request

bridgeVars == <<origin, reconciled, note, invoice, priced, cutShort, lost, call>>
allVars == <<vars, bridgeVars>>

Origin == [type : {"grn"}, ref : Notes] \cup [type : {"supplier_invoice"}, ref : Invoices]
            \cup [type : {"legacy"}, ref : {NoNote}]

\* A document a request holds: the batch and its reconciledInvoiceId.
Copy == [doc : Batch, reconciled : BOOLEAN]

NoCall == [kind |-> "none"]

Step(w, kind, at) == job[w] = Idle /\ call[w].kind = kind /\ call[w].at = at

GoTo(w, at) == call' = [call EXCEPT ![w].at = at]

Return(w) == call' = [call EXCEPT ![w] = NoCall]

\* The delivery notes an invoice is linked to: deliveryNoteId and
\* linkedDeliveryNoteIds.
NotesOf(i) == ({InvoiceLine[i].note} \cup InvoiceLine[i].linked) \ {NoNote}

\* Batches a note brought in, and the copies a request takes of some batches.
GrnBatches(n) == {b \in 1..batchSeq : origin[b] = [type |-> "grn", ref |-> n]}

Copies(B) == [b \in B |-> [doc |-> batch[b], reconciled |-> reconciled[b]]]

\* The next document a request works on: the oldest of those it holds.
Oldest(copies) ==
    CHOOSE b \in DOMAIN copies :
        \A c \in DOMAIN copies \ {b} :
            \/ copies[b].doc.receivedAt < copies[c].doc.receivedAt
            \/ copies[b].doc.receivedAt = copies[c].doc.receivedAt /\ b < c

Without(copies, b) == [c \in DOMAIN copies \ {b} |-> copies[c]]

\* createBatch with its source fields, followed by what becomes of the cache.
Receive(p, date, amount, cost, source) ==
    /\ CreateBatch(p, date, amount, cost)
    /\ origin' = Append(origin, source)
    /\ reconciled' = Append(reconciled, FALSE)
    /\ UNCHANGED <<quantity, sessions, txVars, note, invoice, priced, cutShort, lost>>

ThenAdjust(w, p, delta) ==
    job' = [job EXCEPT ![w] = [kind |-> "adjust", product |-> p, delta |-> delta]]

\* batchRepo.save of a whole document, outside the transaction in flight.
SaveBatch(b, copy) ==
    /\ batch' = [batch EXCEPT ![b] = copy.doc]
    /\ reconciled' = [reconciled EXCEPT ![b] = copy.reconciled]
    /\ touched' = IF txPhase = "idle" THEN touched ELSE touched \cup {BatchDoc(b)}
    /\ UNCHANGED <<batchSeq, consumed, rowCosts, quantity, sessions, txPhase, txRows,
                   txRow, txNeed, txRead, view, drawn, viewQuantity, wrote, job,
                   origin, note, invoice, priced, cutShort, lost>>

BridgeInit ==
    /\ Init
    /\ origin = << >>
    /\ reconciled = << >>
    /\ note = [n \in Notes |-> "open"]
    /\ invoice = [i \in Invoices |-> "pending"]
    /\ priced = [i \in Invoices |-> FALSE]
    /\ cutShort = {} /\ lost = {}
    /\ call = [w \in Workers |-> NoCall]

----------------------------------------------------------------------------
(* A delivery note is linked to stock: bridgeDeliveryReceiptToStock-       *)
(* Management, createBatchFromDeliveryLine.  Linking may be repeated.      *)

\* The note and its line are read ...
LinkDelivery(w) ==
    /\ job[w] = Idle /\ call[w] = NoCall
    /\ \E n \in Notes :
           /\ note[n] = "open"
           /\ call' = [call EXCEPT ![w] = [kind |-> "deliver", at |-> "invoices", note |-> n,
                                           invoices |-> {}]]
    /\ UNCHANGED <<vars, origin, reconciled, note, invoice, priced, cutShort, lost>>

\* ... then the completed invoices linked to it ...
FindInvoices(w) ==
    /\ Step(w, "deliver", "invoices")
    /\ call' = [call EXCEPT ![w].at = "lines",
                            ![w].invoices = {i \in Invoices : /\ invoice[i] = "completed"
                                                              /\ call[w].note \in NotesOf(i)}]
    /\ UNCHANGED <<vars, origin, reconciled, note, invoice, priced, cutShort, lost>>

\* ... then their lines: those of a deleted one are gone.
ReadLines(w) ==
    /\ Step(w, "deliver", "lines")
    /\ IF \E i \in call[w].invoices : /\ invoice[i] # "deleted"
                                      /\ InvoiceLine[i].product = NoteLine[call[w].note].product
         THEN Return(w) ELSE GoTo(w, "check")
    /\ UNCHANGED <<vars, origin, reconciled, note, invoice, priced, cutShort, lost>>

CheckDelivery(w) ==
    /\ Step(w, "deliver", "check")
    /\ LET n == call[w].note
       IN  IF \E b \in GrnBatches(n) : batch[b].product = NoteLine[n].product
             THEN Return(w) ELSE GoTo(w, "create")
    /\ UNCHANGED <<vars, origin, reconciled, note, invoice, priced, cutShort, lost>>

ReceiveDelivery(w) ==
    /\ Step(w, "deliver", "create")
    /\ LET n == call[w].note
           line == NoteLine[n]
       IN  /\ Receive(line.product, line.date, line.qty, ProvisionalCost,
                      [type |-> "grn", ref |-> n])
           /\ ThenAdjust(w, line.product, line.qty)
    /\ Return(w)

----------------------------------------------------------------------------
(* An invoice is approved: applyPriceUpdates, then, line by line,          *)
(* receiveOrReconcileInvoiceLine.  Nothing stops a second approval.        *)

\* The invoice and its lines are read; a line already priced is left out, and
\* so is one whose price clarification was skipped.
ApproveRead(w) ==
    /\ job[w] = Idle /\ call[w] = NoCall
    /\ \E i \in Invoices, at \in {"price", "complete"} :
           /\ invoice[i] # "deleted"
           /\ IF at = "price" THEN ~priced[i] ELSE priced[i] \/ i \in Unclear
           /\ call' = [call EXCEPT ![w] = [kind |-> "approve", at |-> at, invoice |-> i,
                                           copies |-> << >>, rows |-> << >>]]
    /\ UNCHANGED <<vars, origin, reconciled, note, invoice, priced, cutShort, lost>>

\* The line is marked priceUpdated before its goods are received, unless its
\* stock item is gone; its goods are received in any case.
PriceItem(w) ==
    LET i == call[w].invoice
    IN  /\ Step(w, "approve", "price")
        /\ \/ priced' = [priced EXCEPT ![i] = TRUE] /\ lost' = lost
           \/ i \in Orphans /\ priced' = priced /\ lost' = lost \cup (({i} \cup NotesOf(i)) \cap Watched)
        /\ GoTo(w, "find")
        /\ UNCHANGED <<vars, origin, reconciled, note, invoice, cutShort>>

\* Variant of FindBatches: every batch of the note is taken to be new goods.
FindNothing(w) ==
    /\ Step(w, "approve", "find")
    /\ GoTo(w, "purchase")
    /\ UNCHANGED <<vars, origin, reconciled, note, invoice, priced, cutShort, lost>>

\* Variant of FindBatches: a linked note is taken to have brought the goods.
FindTrusting(w) ==
    /\ Step(w, "approve", "find")
    /\ GoTo(w, IF NotesOf(call[w].invoice) = {} THEN "purchase" ELSE "complete")
    /\ UNCHANGED <<vars, origin, reconciled, note, invoice, priced, cutShort, lost>>

\* The batches of its notes, of this product, that no invoice was matched with.
FindBatches(w) ==
    /\ Step(w, "approve", "find")
    /\ LET i == call[w].invoice
           found == {b \in 1..batchSeq : /\ \E n \in NotesOf(i) : b \in GrnBatches(n)
                                         /\ batch[b].product = InvoiceLine[i].product
                                         /\ ~reconciled[b]}
       IN  call' = [call EXCEPT ![w].copies = Copies(found),
                                ![w].at = IF found = {} THEN "purchase" ELSE "recost"]
    /\ UNCHANGED <<vars, origin, reconciled, note, invoice, priced, cutShort, lost>>

\* reconcileBatchCost: the copy is saved with the invoiced cost ...
RecostBatch(w) ==
    /\ Step(w, "approve", "recost")
    /\ LET b == Oldest(call[w].copies)
           doc == call[w].copies[b].doc
       IN  SaveBatch(b, [doc |-> [doc EXCEPT !.cost = InvoiceLine[call[w].invoice].cost],
                         reconciled |-> TRUE])
    /\ GoTo(w, "rows")

\* ... its consumption rows are read ...
ReadRows(w) ==
    /\ Step(w, "approve", "rows")
    /\ call' = [call EXCEPT ![w].rows = [k \in DOMAIN rowCosts[Oldest(call[w].copies)] |-> k],
                            ![w].at = "row"]
    /\ UNCHANGED <<vars, origin, reconciled, note, invoice, priced, cutShort, lost>>

\* Variant of RecostRow: the last row is never reached.
RecostAllButLastRow(w) ==
    /\ Step(w, "approve", "row")
    /\ call[w].rows # << >>
    /\ rowCosts' = IF Len(call[w].rows) = 1 THEN rowCosts
                     ELSE [rowCosts EXCEPT ![Oldest(call[w].copies)][Head(call[w].rows)] =
                             InvoiceLine[call[w].invoice].cost]
    /\ call' = [call EXCEPT ![w].rows = Tail(call[w].rows)]
    /\ UNCHANGED <<batchSeq, batch, consumed, quantity, sessions, txVars, job,
                   origin, reconciled, note, invoice, priced, cutShort, lost>>

\* ... and saved at the new cost, one after the other.
RecostRow(w) ==
    /\ Step(w, "approve", "row")
    /\ call[w].rows # << >>
    /\ rowCosts' = [rowCosts EXCEPT ![Oldest(call[w].copies)][Head(call[w].rows)] =
                      InvoiceLine[call[w].invoice].cost]
    /\ call' = [call EXCEPT ![w].rows = Tail(call[w].rows)]
    /\ UNCHANGED <<batchSeq, batch, consumed, quantity, sessions, txVars, job,
                   origin, reconciled, note, invoice, priced, cutShort, lost>>

NextBatch(w) ==
    /\ Step(w, "approve", "row")
    /\ call[w].rows = << >>
    /\ LET left == Without(call[w].copies, Oldest(call[w].copies))
       IN  call' = [call EXCEPT ![w].copies = left,
                                ![w].at = IF DOMAIN left = {} THEN "complete" ELSE "recost"]
    /\ UNCHANGED <<vars, origin, reconciled, note, invoice, priced, cutShort, lost>>

\* createBatchFromInvoiceLine.
PurchaseBatch(w) ==
    /\ Step(w, "approve", "purchase")
    /\ LET i == call[w].invoice
           line == InvoiceLine[i]
       IN  /\ Receive(line.product, line.date, line.qty, line.cost,
                      [type |-> "supplier_invoice", ref |-> i])
           /\ ThenAdjust(w, line.product, line.qty)
    /\ GoTo(w, "complete")

\* The whole invoice document is saved, also when it was deleted meanwhile
\* (the save is an upsert).
CompleteInvoice(w) ==
    /\ Step(w, "approve", "complete")
    /\ invoice' = [invoice EXCEPT ![call[w].invoice] = "completed"]
    /\ Return(w)
    /\ UNCHANGED <<vars, origin, reconciled, note, priced, cutShort, lost>>

Recosting(w) ==
    IF call[w].kind = "approve" /\ call[w].at \in {"rows", "row"}
      THEN {Oldest(call[w].copies)} ELSE {}

\* What a request owes: a change of the cache, or the goods of an invoice whose
\* line is marked priced already.
Due(w) ==
    LET c == call[w]
    IN  (IF job[w] # Idle THEN {job[w].product} ELSE {})
          \cup (IF c.kind = "remove" /\ c.at = "save"
                  THEN {c.copies[Oldest(c.copies)].doc.product} ELSE {})
          \cup (IF c.kind = "approve" /\ c.at \in {"find", "recost", "purchase"}
                  THEN {c.invoice} ELSE {})

\* Notes whose goods are in stock, or may be, but not covered by an invoice.
Uncovered(w) ==
    LET c == call[w]
    IN  (IF c.kind = "approve" /\ c.at = "complete" THEN NotesOf(c.invoice) ELSE {})
          \cup (IF c.kind = "remove" /\ c.at = "note" THEN {c.note} ELSE {})

\* createBatchesFromInvoice catches whatever a line throws: the approval goes
\* on and the invoice is completed.
LineFails(w) ==
    /\ call[w].kind = "approve"
    /\ call[w].at \in {"find", "recost", "rows", "row", "purchase"} \/ job[w] # Idle
    /\ cutShort' = cutShort \cup Recosting(w)
    /\ lost' = lost \cup (Due(w) \cap Watched)
    /\ GoTo(w, "complete")
    /\ job' = [job EXCEPT ![w] = Idle]
    /\ UNCHANGED <<stockVars, txVars, origin, reconciled, note, invoice, priced>>

----------------------------------------------------------------------------
(* A delivery note is deleted: DeliveryService.remove, voidDeliveryBatches.*)

\* The invoices whose deliveryNoteId is the note go, those linked to it
\* otherwise stay.
RemoveInvoices(w) ==
    /\ job[w] = Idle /\ call[w] = NoCall
    /\ \E n \in Notes :
           /\ note[n] = "open"
           /\ invoice' = [i \in Invoices |->
                            IF InvoiceLine[i].note = n THEN "deleted" ELSE invoice[i]]
           /\ call' = [call EXCEPT ![w] =
                         [kind |-> "remove", at |-> "note", note |-> n, copies |-> << >>]]
    /\ UNCHANGED <<vars, origin, reconciled, note, priced, cutShort, lost>>

RemoveNote(w) ==
    /\ Step(w, "remove", "note")
    /\ note' = [note EXCEPT ![call[w].note] = "removed"]
    /\ GoTo(w, "find")
    /\ UNCHANGED <<vars, origin, reconciled, invoice, priced, cutShort, lost>>

VoidRead(w) ==
    /\ Step(w, "remove", "find")
    /\ LET found == {b \in GrnBatches(call[w].note) : batch[b].status = "active"}
       IN  call' = IF found = {}
                     THEN [call EXCEPT ![w] = NoCall]
                     ELSE [call EXCEPT ![w].copies = Copies(found), ![w].at = "adjust"]
    /\ UNCHANGED <<vars, origin, reconciled, note, invoice, priced, cutShort, lost>>

\* Variant of VoidAdjust: the cache is not told.
VoidSilently(w) ==
    /\ Step(w, "remove", "adjust")
    /\ GoTo(w, "save")
    /\ UNCHANGED <<vars, origin, reconciled, note, invoice, priced, cutShort, lost>>

\* The cache is lowered by what the copy says is left ...
VoidAdjust(w) ==
    /\ Step(w, "remove", "adjust")
    /\ LET doc == call[w].copies[Oldest(call[w].copies)].doc
       IN  IF doc.remaining > 0
             THEN ThenAdjust(w, doc.product, -doc.remaining) ELSE UNCHANGED job
    /\ GoTo(w, "save")
    /\ UNCHANGED <<stockVars, txVars, origin, reconciled, note, invoice, priced, cutShort, lost>>

\* Variant of VoidSave: the quantity is left on the written-off batch.
VoidKeepingRemaining(w) ==
    /\ Step(w, "remove", "save")
    /\ LET b == Oldest(call[w].copies)
           copy == call[w].copies[b]
           left == Without(call[w].copies, b)
       IN  /\ SaveBatch(b, [copy EXCEPT !.doc = [copy.doc EXCEPT !.status = "written_off"]])
           /\ call' = IF DOMAIN left = {}
                        THEN [call EXCEPT ![w] = NoCall]
                        ELSE [call EXCEPT ![w].copies = left, ![w].at = "adjust"]

\* ... and the copy is saved as written off.
VoidSave(w) ==
    /\ Step(w, "remove", "save")
    /\ LET b == Oldest(call[w].copies)
           copy == call[w].copies[b]
           left == Without(call[w].copies, b)
       IN  /\ SaveBatch(b, [copy EXCEPT !.doc = [copy.doc EXCEPT !.remaining = 0,
                                                                 !.status = "written_off"]])
           /\ call' = IF DOMAIN left = {}
                        THEN [call EXCEPT ![w] = NoCall]
                        ELSE [call EXCEPT ![w].copies = left, ![w].at = "adjust"]

----------------------------------------------------------------------------
(* FifoBootstrapService.bootstrapCompany, for one product.                 *)

\* One of which it read no quantity is passed over.
BootstrapRead(w) ==
    /\ job[w] = Idle /\ call[w] = NoCall
    /\ \E p \in Products :
           /\ quantity[p] > 0
           /\ call' = [call EXCEPT ![w] = [kind |-> "bootstrap", at |-> "check", product |-> p,
                                           copy |-> quantity[p]]]
    /\ UNCHANGED <<vars, origin, reconciled, note, invoice, priced, cutShort, lost>>

BootstrapCheck(w) ==
    /\ Step(w, "bootstrap", "check")
    /\ IF \E b \in 1..batchSeq : /\ origin[b].type = "legacy"
                                 /\ batch[b].product = call[w].product
         THEN Return(w) ELSE GoTo(w, "create")
    /\ UNCHANGED <<vars, origin, reconciled, note, invoice, priced, cutShort, lost>>

BootstrapCreate(w) ==
    /\ Step(w, "bootstrap", "create")
    /\ Receive(call[w].product, LegacyDate, call[w].copy, ProvisionalCost,
               [type |-> "legacy", ref |-> NoNote])
    /\ Return(w)
    /\ UNCHANGED job

----------------------------------------------------------------------------

\* The process dies: neither the call nor its adjustment is finished.
LoseCall(w) ==
    /\ call[w] # NoCall \/ job[w] # Idle
    /\ cutShort' = cutShort \cup Recosting(w)
    /\ lost' = lost \cup ((Due(w) \cup Uncovered(w)) \cap Watched)
    /\ Return(w)
    /\ job' = [job EXCEPT ![w] = Idle]
    /\ UNCHANGED <<stockVars, txVars, origin, reconciled, note, invoice, priced>>

Adjust(w) == (AdjustRead(w) \/ AdjustSave(w)) /\ UNCHANGED bridgeVars

Issue == TxStep /\ UNCHANGED bridgeVars

DeliveryStep(w) ==
    \/ LinkDelivery(w)
    \/ FindInvoices(w)
    \/ ReadLines(w)
    \/ CheckDelivery(w)
    \/ ReceiveDelivery(w)

ApprovalStep(w) ==
    \/ ApproveRead(w)
    \/ PriceItem(w)
    \/ FindBatches(w)
    \/ RecostBatch(w)
    \/ ReadRows(w)
    \/ RecostRow(w)
    \/ NextBatch(w)
    \/ PurchaseBatch(w)
    \/ CompleteInvoice(w)

RemovalStep(w) ==
    \/ RemoveInvoices(w)
    \/ RemoveNote(w)
    \/ VoidRead(w)
    \/ VoidAdjust(w)
    \/ VoidSave(w)

BootstrapStep(w) == BootstrapRead(w) \/ BootstrapCheck(w) \/ BootstrapCreate(w)

BridgeNext ==
    \/ Issue
    \/ \E w \in Workers : \/ Adjust(w)
                          \/ DeliveryStep(w)
                          \/ ApprovalStep(w)
                          \/ RemovalStep(w)
                          \/ BootstrapStep(w)
                          \/ LineFails(w)
                          \/ LoseCall(w)

BridgeSpec == BridgeInit /\ [][BridgeNext]_allVars

\* The requests of one person who waits for each to finish or to die: nothing
\* overlaps.
Busy(w) == job[w] # Idle \/ call[w] # NoCall

Alone(w) == txPhase = "idle" /\ \A v \in Workers \ {w} : ~Busy(v)

OneAtATime ==
    \/ (\A w \in Workers : ~Busy(w)) /\ Issue
    \/ \E w \in Workers :
          /\ Alone(w)
          /\ \/ Adjust(w)
             \/ DeliveryStep(w)
             \/ ApprovalStep(w)
             \/ RemovalStep(w)
             \/ LineFails(w)
             \/ LoseCall(w)

SerialSpec == BridgeInit /\ [][OneAtATime]_allVars

----------------------------------------------------------------------------
(* Properties.                                                             *)

Approval == {"price", "find", "recost", "rows", "row", "purchase", "complete"}
Removal == {"note", "find", "adjust", "save"}

\* What a request keeps between its awaits; B are the batches it has copies of.
Call(B) ==
    {NoCall}
      \cup [kind : {"deliver"}, at : {"invoices", "lines", "check", "create"}, note : Notes,
            invoices : SUBSET Invoices]
      \cup [kind : {"approve"}, at : Approval, invoice : Invoices, copies : [B -> Copy],
            rows : Seq(Nat)]
      \cup [kind : {"remove"}, at : Removal, note : Notes, copies : [B -> Copy]]
      \cup [kind : {"bootstrap"}, at : {"check", "create"}, product : Products, copy : Nat]

\* It has none before it looks for them and some while it saves them.
CallTypeOK(w) ==
    \E B \in SUBSET (1..batchSeq) :
        /\ call[w] \in Call(B)
        /\ \/ call[w].kind = "approve" /\ call[w].at \in {"recost", "rows", "row"}
           \/ call[w].kind = "remove" /\ call[w].at \in {"adjust", "save"}
           => B # {}

BridgeTypeOK ==
    /\ TypeOK
    /\ origin \in Seq(Origin) /\ Len(origin) = batchSeq
    /\ reconciled \in Seq(BOOLEAN) /\ Len(reconciled) = batchSeq
    /\ note \in [Notes -> {"open", "removed"}]
    /\ invoice \in [Invoices -> {"pending", "completed", "deleted"}]
    /\ priced \in [Invoices -> BOOLEAN]
    /\ cutShort \subseteq 1..batchSeq
    /\ lost \subseteq Watched
    /\ DOMAIN call = Workers /\ \A w \in Workers : CallTypeOK(w)

\* Once an invoice has been matched with a batch, everything ever issued from
\* that batch is valued at the invoiced cost: the rows written before, found
\* by ReadRows, and those of sessions that were under way while the batch was
\* re-costed, which hold the provisional cost in their snapshot.
CostsFollowInvoice ==
    \A b \in 1..batchSeq :
        /\ reconciled[b]
        /\ b \notin cutShort
        /\ \A w \in Workers : b \notin Recosting(w)
        => \A k \in DOMAIN rowCosts[b] : rowCosts[b][k] = batch[b].cost

\* The new system disagrees with itself (stock-reconciliation.service.ts)
\* when the cached quantity of a product is not what its active batches have
\* left: between requests the two are equal, unless one died owing a change.
CacheMatchesFifo ==
    (txPhase = "idle" /\ \A w \in Workers : ~Busy(w))
      => \A p \in Products \ lost :
           quantity[p] = Ledger!Total([b \in 1..batchSeq |-> batch[b].remaining],
                                      {b \in 1..batchSeq : /\ batch[b].product = p
                                                           /\ batch[b].status = "active"})

\* Goods announced by a delivery note and by an invoice linked to it enter stock
\* once, whichever of the two comes first, however often the note is linked
\* again or the invoice approved again, and wherever a request dies but between
\* receiving the goods of an invoice and completing it, or between deleting the
\* invoices of a note and the note (only completed invoices cover a note), and
\* but for lines that could not be marked.  They enter twice only as the code
\* has it: two invoices of the note are approved, or the one that brought them
\* in is deleted with another note it names.
ReceivedOnce ==
    /\ \A n \in Notes \ lost, b, c \in 1..batchSeq :
          LET p == batch[b].product
              Of(i) == n \in NotesOf(i) /\ InvoiceLine[i].product = p
              Brings(a) == \/ origin[a] = [type |-> "grn", ref |-> n]
                           \/ origin[a].type = "supplier_invoice" /\ n \in NotesOf(origin[a].ref)
          IN  b # c /\ Brings(b) /\ Brings(c) /\ batch[c].product = p
              => \/ \E i, j \in Invoices : i # j /\ Of(i) /\ Of(j) /\ priced[i] /\ priced[j]
                 \/ \E a \in {b, c} : /\ origin[a].type = "supplier_invoice"
                                      /\ invoice[origin[a].ref] = "deleted"
                                      /\ InvoiceLine[origin[a].ref].note # n
    /\ \A i \in Invoices \ lost, b, c \in 1..batchSeq :
          origin[b] = [type |-> "supplier_invoice", ref |-> i] /\ origin[c] = origin[b] => b = c

\* An invoice whose line is marked priced has had its goods received or a batch
\* of its notes matched, unless the approval died, or the line failed, before:
\* a later approval leaves the line out.
PricedIsReceived ==
    \A i \in Invoices \ lost :
        /\ priced[i]
        /\ \A w \in Workers : call[w].kind = "approve" => call[w].invoice # i
        => \E b \in 1..batchSeq :
              \/ origin[b] = [type |-> "supplier_invoice", ref |-> i]
              \/ /\ \E n \in NotesOf(i) : origin[b] = [type |-> "grn", ref |-> n]
                 /\ reconciled[b]

\* Stock leaves a batch by being issued, or with the whole of what is left
\* when its delivery note is deleted; nothing else changes what is left.
OnlyVoidingWritesOff ==
    \A b \in 1..batchSeq :
        IF batch[b].status = "written_off"
          THEN batch[b].remaining = 0
          ELSE batch[b].remaining + consumed[b] = batch[b].purchased

=============================================================================
