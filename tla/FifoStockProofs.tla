-------------------------- MODULE FifoStockProofs --------------------------
(* FifoStock, for every value of its constants: every reachable state is   *)
(* well typed and keeps batches and consumption rows in balance; no step   *)
(* takes from a batch before the older ones are empty; and each session is *)
(* issued atomically, as StockLedger says.                                 *)
(*                                                                         *)
(* ReceiptBridge, which extends FifoStock: every reachable state is well   *)
(* typed, and what is issued from a batch follows the invoiced cost.  Its  *)
(* steps of sessions and of the cache are steps of FifoStock, and its      *)
(* theorems rest on the lemmas of both.  When receipts come one at a time, *)
(* only voiding writes stock off, goods are received once, and received    *)
(* when their invoice has priced them, and the cached quantity of a        *)
(* product is what its batches have left.                                  *)
EXTENDS ReceiptBridge, TLAPS, SequenceTheorems, FiniteSetTheorems, WellFoundedInduction

USE DEF stockVars, txVars

\* BatchesConserved is not inductive alone: Commit publishes the view, so what
\* the view holds while the transaction runs is part of the invariant.
IInv == TypeOK /\ BatchesConserved /\ ViewConserved

LEMMA InitIInv == Init => IInv
  <1> SUFFICES ASSUME Init PROVE IInv
    OBVIOUS
  <1>1. StoreTypeOK
    BY DEF Init, StoreTypeOK
  <1>2. ViewTypeOK
    BY DEF Init, ViewTypeOK
  <1>3. TxTypeOK
    BY <1>2 DEF Init, TxTypeOK
  <1>4. job \in [Workers -> Job]
    BY DEF Init, Idle, Job
  <1>5. BatchesConserved /\ ViewConserved
    BY DEF Init, BatchesConserved, ViewConserved
  <1> QED
    BY <1>1, <1>3, <1>4, <1>5 DEF IInv, TypeOK

----------------------------------------------------------------------------
(* Type correctness, one lemma per kind of step.                           *)

\* A new batch extends the three per-batch functions by one well-typed entry.
LEMMA CreateBatchType ==
    ASSUME StoreTypeOK, NEW p \in Products, NEW date \in Dates, NEW amount \in Nat \ {0},
           NEW cost \in Costs, CreateBatch(p, date, amount, cost)
    PROVE  /\ batchSeq' \in Nat
           /\ batchSeq' = batchSeq + 1
           /\ batch' \in [1..batchSeq' -> Batch]
           /\ consumed' \in [1..batchSeq' -> Nat]
           /\ rowCosts' \in [1..batchSeq' -> Seq(Costs)]
  <1>1. batchSeq \in Nat /\ batchSeq' = batchSeq + 1
    BY DEF StoreTypeOK, CreateBatch
  <1>2. \A b \in 1..batchSeq' : b = batchSeq + 1 \/ b \in 1..batchSeq
    BY <1>1
  <1>3. [product |-> p, receivedAt |-> date, purchased |-> amount,
         remaining |-> amount, cost |-> cost, status |-> "active"] \in Batch
    BY DEF Batch, BatchStatus
  <1>4. batch' \in [1..batchSeq' -> Batch]
    BY <1>1, <1>2, <1>3 DEF StoreTypeOK, CreateBatch
  <1>5. consumed' \in [1..batchSeq' -> Nat]
    BY <1>1, <1>2 DEF StoreTypeOK, CreateBatch
  <1>6. rowCosts' \in [1..batchSeq' -> Seq(Costs)]
    BY <1>1, <1>2 DEF StoreTypeOK, CreateBatch
  <1> QED
    BY <1>1, <1>4, <1>5, <1>6

\* A step that leaves the transaction's workspace alone and only lets batchSeq
\* grow leaves the workspace well typed.
LEMMA TxVarsType ==
    ASSUME StoreTypeOK, TxTypeOK, batchSeq' \in Nat, batchSeq' >= batchSeq,
           UNCHANGED <<txPhase, txRows, txRow, txNeed, txRead, view, drawn,
                       viewQuantity, wrote>>
    PROVE  TxTypeOK'
  <1>1. PICK n \in 0..batchSeq :
           /\ view \in [1..n -> Batch]
           /\ drawn \in [1..n -> Nat]
           /\ wrote \subseteq {BatchDoc(b) : b \in 1..n} \cup {ProductDoc(p) : p \in Products}
    BY DEF TxTypeOK, ViewTypeOK
  <1>2. n \in 0..batchSeq'
    BY DEF StoreTypeOK
  <1>3. ViewTypeOK'
    BY <1>1, <1>2 DEF ViewTypeOK
  <1> QED
    BY <1>3 DEF TxTypeOK

\* An empty workspace is well typed.
LEMMA CloseTxType ==
    ASSUME StoreTypeOK, CloseTx, batchSeq' = batchSeq
    PROVE  TxTypeOK'
  <1>1. /\ view' \in [1..0 -> Batch]
        /\ drawn' \in [1..0 -> Nat]
        /\ wrote' = {}
    BY DEF CloseTx
  <1>2. 0 \in 0..batchSeq'
    BY DEF StoreTypeOK
  <1>3. ViewTypeOK'
    BY <1>1, <1>2 DEF ViewTypeOK
  <1> QED
    BY <1>3 DEF TxTypeOK, CloseTx

\* A plain save of a product's quantity keeps the types.
LEMMA SaveQuantityType ==
    ASSUME TypeOK, NEW p \in Products, NEW n \in Nat, SaveQuantity(p, n),
           job' \in [Workers -> Job]
    PROVE  TypeOK'
  <1>1. StoreTypeOK'
    BY DEF TypeOK, StoreTypeOK, SaveQuantity
  <1>2. TxTypeOK'
    BY TxVarsType DEF TypeOK, StoreTypeOK, SaveQuantity
  <1> QED
    BY <1>1, <1>2 DEF TypeOK

\* What a worker's request is, from its kind.
LEMMA JobKinds ==
    ASSUME NEW j \in Job
    PROVE  /\ j.kind = "adjust" => j.product \in Products /\ j.delta \in Int
           /\ j.kind = "adjusting" =>
                j.product \in Products /\ j.delta \in Int /\ j.copy \in Nat
           /\ j.kind = "editing" => j.product \in Products /\ j.copy \in Nat
           /\ j.kind = "undo" => j \in [kind : {"undo"}, session : Nat, row : Nat]
  BY DEF Job

\* The requests outside the transaction keep the types.
LEMMA JobStepType ==
    ASSUME TypeOK, NEW w \in Workers, JobStep(w)
    PROVE  TypeOK'
  <1> USE DEF TypeOK
  <1>1. job[w] \in Job
    OBVIOUS
  <1>2. \A j \in Job : [job EXCEPT ![w] = j] \in [Workers -> Job]
    OBVIOUS
  <1>3. Idle \in Job
    BY DEF Idle, Job
  <1>4. ASSUME UNCHANGED <<stockVars, txVars>>, job' \in [Workers -> Job]
        PROVE  TypeOK'
    <2>1. StoreTypeOK'
      BY <1>4 DEF StoreTypeOK
    <2>2. TxTypeOK'
      BY <1>4, TxVarsType DEF StoreTypeOK
    <2> QED
      BY <2>1, <2>2, <1>4
  <1>5. CASE ReceiveBatch(w)
    <2>1. PICK p \in Products, date \in Dates, amount \in Amounts, cost \in Costs :
             /\ CreateBatch(p, date, amount, cost)
             /\ job' = [job EXCEPT ![w] =
                          [kind |-> "adjust", product |-> p, delta |-> amount]]
      BY <1>5 DEF ReceiveBatch
    <2>2. [kind |-> "adjust", product |-> p, delta |-> amount] \in Job
      BY AmountsAssumption DEF Job
    <2>3. job' \in [Workers -> Job]
      BY <2>1, <2>2, <1>2
    <2>4. StoreTypeOK' /\ batchSeq' = batchSeq + 1
      BY <2>1, <1>5, CreateBatchType, AmountsAssumption DEF ReceiveBatch, StoreTypeOK
    <2>5. TxTypeOK'
      <3>1. batchSeq' \in Nat /\ batchSeq' >= batchSeq
        BY <2>4 DEF StoreTypeOK
      <3> QED
        BY <3>1, <1>5, TxVarsType DEF ReceiveBatch
    <2> QED
      BY <2>3, <2>4, <2>5
  <1>6. CASE AdjustRead(w)
    <2>1. quantity[job[w].product] \in Nat
      BY <1>6, <1>1, JobKinds DEF AdjustRead, StoreTypeOK
    <2>2. [kind |-> "adjusting", product |-> job[w].product,
           delta |-> job[w].delta, copy |-> quantity[job[w].product]] \in Job
      BY <1>6, <1>1, <2>1, JobKinds DEF AdjustRead, Job
    <2> QED
      BY <1>6, <2>2, <1>2, <1>4 DEF AdjustRead
  <1>7. CASE AdjustSave(w)
    <2>1. job[w].product \in Products /\ AtLeastZero(job[w].copy + job[w].delta) \in Nat
      BY <1>7, <1>1, JobKinds DEF AdjustSave, AtLeastZero
    <2>2. job' \in [Workers -> Job]
      BY <1>7, <1>2, <1>3 DEF AdjustSave
    <2> QED
      BY <1>7, <2>1, <2>2, SaveQuantityType DEF AdjustSave
  <1>8. CASE EditRead(w)
    <2>1. PICK p \in Products :
             job' = [job EXCEPT ![w] =
                       [kind |-> "editing", product |-> p, copy |-> quantity[p]]]
      BY <1>8 DEF EditRead
    <2>2. [kind |-> "editing", product |-> p, copy |-> quantity[p]] \in Job
      BY DEF Job, StoreTypeOK
    <2> QED
      BY <1>8, <2>1, <2>2, <1>2, <1>4 DEF EditRead
  <1>9. CASE EditSave(w)
    <2>1. job[w].product \in Products /\ job[w].copy \in Nat
      BY <1>9, <1>1, JobKinds DEF EditSave
    <2>2. PICK n \in Amounts \cup {0, job[w].copy} : SaveQuantity(job[w].product, n)
      BY <1>9 DEF EditSave
    <2>3. n \in Nat
      BY <2>1, AmountsAssumption
    <2>4. job' \in [Workers -> Job]
      BY <1>9, <1>2, <1>3 DEF EditSave
    <2> QED
      BY <2>1, <2>2, <2>3, <2>4, SaveQuantityType
  <1>10. CASE UndoRead(w)
    <2>1. PICK s \in 1..Len(sessions) :
             job' = [job EXCEPT ![w] = [kind |-> "undo", session |-> s, row |-> 0]]
      BY <1>10 DEF UndoRead
    <2>2. [kind |-> "undo", session |-> s, row |-> 0] \in Job
      BY DEF Job, StoreTypeOK
    <2> QED
      BY <1>10, <2>1, <2>2, <1>2, <1>4 DEF UndoRead
  <1>11. CASE UndoSave(w)
    <2> DEFINE s == job[w].session
               i == job[w].row
    <2>1. job[w] \in [kind : {"undo"}, session : Nat, row : Nat]
      BY <1>11, <1>1, JobKinds DEF UndoSave
    <2>2. [job[w] EXCEPT !.row = i + 1] \in Job
      BY <2>1 DEF Job
    <2>3. job' \in [Workers -> Job]
      BY <1>11, <2>2, <1>2, <1>3 DEF UndoSave
    <2>4. ASSUME NEW f \in Session, s \in 1..Len(sessions)
          PROVE  [sessions EXCEPT ![s] = f] \in Seq(Session)
      BY <2>4, ExceptSeq DEF StoreTypeOK
    <2>5. ASSUME NEW f, s \notin 1..Len(sessions)
          PROVE  [sessions EXCEPT ![s] = f] = sessions
      BY <2>5 DEF StoreTypeOK
    <2>6. sessions' \in Seq(Session)
      <3>1. CASE s \in 1..Len(sessions)
        <4>1. sessions[s] \in Session
          BY <3>1 DEF StoreTypeOK
        <4>2. /\ [sessions[s] EXCEPT !.status = "undone"] \in Session
              /\ [sessions[s] EXCEPT !.undoneRows = @ \cup {i}] \in Session
          BY <4>1, <2>1 DEF Session
        <4> QED
          BY <1>11, <4>2, <2>4, <3>1 DEF UndoSave
      <3>2. CASE s \notin 1..Len(sessions)
        BY <1>11, <2>5, <3>2 DEF UndoSave, StoreTypeOK
      <3> QED
        BY <3>1, <3>2
    <2>8. StoreTypeOK'
      BY <1>11, <2>6 DEF UndoSave, StoreTypeOK
    <2>9. TxTypeOK'
      BY <1>11, TxVarsType DEF UndoSave, StoreTypeOK
    <2> QED
      BY <2>3, <2>8, <2>9
  <1>12. CASE Lose(w)
    BY <1>12, <1>2, <1>3, <1>4 DEF Lose
  <1> QED
    BY <1>5, <1>6, <1>7, <1>8, <1>9, <1>10, <1>11, <1>12 DEF JobStep

\* The steps of the transaction keep the types.
LEMMA TxStepType ==
    ASSUME TypeOK, TxStep
    PROVE  TypeOK'
  <1> USE DEF TypeOK
  <1>1. PICK n \in 0..batchSeq :
           /\ view \in [1..n -> Batch]
           /\ drawn \in [1..n -> Nat]
           /\ wrote \subseteq {BatchDoc(b) : b \in 1..n} \cup {ProductDoc(p) : p \in Products}
    BY DEF TxTypeOK, ViewTypeOK
  <1>2. txPhase \in {"row", "draw"} =>
          txRows[txRow] \in [product : Products, qty : Nat \ {0}]
    <2> SUFFICES ASSUME txPhase \in {"row", "draw"}
                 PROVE  txRows[txRow] \in Row
      BY DEF Row
    <2>1. txRows \in Seq(Row) /\ txRow \in 1..Len(txRows)
      BY DEF TxTypeOK
    <2> QED
      BY <2>1, ElementOfSeq
  <1>3. CASE Begin
    <2>1. StoreTypeOK'
      BY <1>3 DEF Begin, StoreTypeOK
    <2>2. txRows' \in Seq(Row) /\ 1 \in 1..Len(txRows')
      <3>1. txRows' \in Seq(Row) /\ txRows' # << >>
        BY <1>3, OrdersAssumption DEF Begin
      <3> QED
        BY <3>1, EmptySeq
    <2>3. ViewTypeOK'
      <3>1. /\ view' \in [1..batchSeq -> Batch]
            /\ drawn' \in [1..batchSeq -> Nat]
            /\ batchSeq \in 0..batchSeq'
            /\ wrote' = wrote
        BY <1>3 DEF Begin, StoreTypeOK
      <3>2. 1..n \subseteq 1..batchSeq
        BY DEF StoreTypeOK
      <3> QED
        BY <3>1, <3>2, <1>1 DEF ViewTypeOK
    <2>4. TxTypeOK'
      BY <1>3, <2>2, <2>3 DEF Begin, TxTypeOK, StoreTypeOK
    <2> QED
      BY <2>1, <2>4, <1>3 DEF Begin
  <1>4. CASE ReadProduct
    <2>1. txRead' \in Nat /\ txNeed' \in Nat
      BY <1>4, <1>2 DEF ReadProduct, StoreTypeOK
    <2> QED
      BY <1>4, <2>1 DEF ReadProduct, StoreTypeOK, TxTypeOK, ViewTypeOK
  <1>5. CASE Draw
    <2>1. PICK b \in Available(txRows[txRow].product) :
             /\ LET take == Lesser(view[b].remaining, txNeed)
                IN  /\ view' = [view EXCEPT ![b] = Less(view[b], take)]
                    /\ drawn' = [drawn EXCEPT ![b] = @ + take]
                    /\ txNeed' = txNeed - take
             /\ wrote' = wrote \cup {BatchDoc(b)}
      BY <1>5 DEF Draw
    <2> DEFINE take == Lesser(view[b].remaining, txNeed)
    <2>2. b \in 1..n /\ view[b] \in Batch
      BY <1>1, <2>1 DEF Available
    <2>3. /\ take \in Nat
          /\ view[b].remaining - take \in Nat
          /\ txNeed - take \in Nat
      BY <2>2 DEF Lesser, TxTypeOK, Batch
    <2>4. Less(view[b], take) \in Batch
      BY <2>2, <2>3 DEF Less, Batch, BatchStatus
    <2>5. view' \in [1..n -> Batch]
      BY <1>1, <2>1, <2>2, <2>4
    <2>6. drawn' \in [1..n -> Nat]
      BY <1>1, <2>1, <2>2, <2>3
    <2>7. wrote' \subseteq {BatchDoc(c) : c \in 1..n} \cup {ProductDoc(p) : p \in Products}
      BY <1>1, <2>1, <2>2
    <2>8. ViewTypeOK'
      BY <2>5, <2>6, <2>7, <1>5 DEF Draw, ViewTypeOK
    <2>9. TxTypeOK'
      BY <2>1, <2>3, <2>8, <1>5 DEF Draw, TxTypeOK
    <2> QED
      BY <2>9, <1>5 DEF Draw, StoreTypeOK
  <1>6. CASE OutOfStock
    BY <1>6, CloseTxType DEF OutOfStock, StoreTypeOK
  <1>7. CASE SaveProduct
    <2>1. txRows[txRow].product \in Products /\ txRows[txRow].qty \in Nat
      BY <1>7, <1>2 DEF SaveProduct
    <2>2. viewQuantity' \in [Products -> Nat]
      BY <1>7, <2>1 DEF SaveProduct, TxTypeOK, AtLeastZero
    <2>3. wrote' \subseteq {BatchDoc(c) : c \in 1..n} \cup {ProductDoc(p) : p \in Products}
      BY <1>1, <1>7, <2>1 DEF SaveProduct
    <2>4. ViewTypeOK'
      BY <1>1, <1>7, <2>3 DEF SaveProduct, ViewTypeOK
    <2>5. txPhase' \in {"row", "commit"} /\ txRow' \in 1..Len(txRows')
      BY <1>7, LenProperties DEF SaveProduct, TxTypeOK
    <2>6. TxTypeOK'
      BY <1>7, <2>2, <2>4, <2>5 DEF SaveProduct, TxTypeOK
    <2> QED
      BY <1>7, <2>6 DEF SaveProduct, StoreTypeOK
  <1>8. CASE Commit
    <2>1. \A b \in 1..batchSeq : BatchDoc(b) \in wrote => b \in 1..n
      BY <1>1 DEF BatchDoc, ProductDoc
    <2>2. batch' \in [1..batchSeq -> Batch]
      BY <1>1, <1>8, <2>1 DEF Commit, StoreTypeOK
    <2>3. consumed' \in [1..batchSeq -> Nat]
      BY <1>1, <1>8, <2>1 DEF Commit, StoreTypeOK
    <2>4. rowCosts' \in [1..batchSeq -> Seq(Costs)]
      BY <1>1, <1>8, <2>1 DEF Commit, StoreTypeOK, Batch
    <2>5. quantity' \in [Products -> Nat]
      BY <1>8 DEF Commit, StoreTypeOK, TxTypeOK
    <2>6. sessions' \in Seq(Session)
      <3>1. [rows |-> txRows, status |-> "active", undoneRows |-> {}] \in Session
        BY DEF Session, TxTypeOK
      <3> QED
        BY <3>1, <1>8, AppendProperties DEF Commit, StoreTypeOK
    <2>7. StoreTypeOK'
      BY <1>8, <2>2, <2>3, <2>4, <2>5, <2>6 DEF Commit, StoreTypeOK
    <2> QED
      BY <1>8, <2>7, CloseTxType DEF Commit
  <1>9. CASE Abort
    BY <1>9, CloseTxType DEF Abort, StoreTypeOK
  <1> QED
    BY <1>3, <1>4, <1>5, <1>6, <1>7, <1>8, <1>9 DEF TxStep

\* Every step keeps the types.
LEMMA TypeStep == TypeOK /\ [Next]_vars => TypeOK'
  <1> SUFFICES ASSUME TypeOK, [Next]_vars PROVE TypeOK'
    OBVIOUS
  <1>1. CASE ManualBatch
    <2>1. PICK p \in Products, date \in Dates, amount \in Amounts, cost \in Costs :
             CreateBatch(p, date, amount, cost)
      BY <1>1 DEF ManualBatch
    <2>2. StoreTypeOK' /\ batchSeq' = batchSeq + 1
      BY <2>1, <1>1, CreateBatchType, AmountsAssumption DEF ManualBatch, TypeOK, StoreTypeOK
    <2>3. TxTypeOK'
      <3>1. batchSeq' \in Nat /\ batchSeq' >= batchSeq
        BY <2>2 DEF TypeOK, StoreTypeOK
      <3> QED
        BY <3>1, <1>1, TxVarsType DEF ManualBatch, TypeOK
    <2> QED
      BY <2>2, <2>3, <1>1 DEF ManualBatch, TypeOK
  <1>2. CASE TxStep
    BY <1>2, TxStepType
  <1>3. ASSUME NEW w \in Workers, JobStep(w) PROVE TypeOK'
    BY <1>3, JobStepType
  <1>4. CASE UNCHANGED vars
    <2>1. StoreTypeOK'
      BY <1>4 DEF vars, TypeOK, StoreTypeOK
    <2>2. TxTypeOK'
      BY <1>4, TxVarsType DEF vars, TypeOK, StoreTypeOK
    <2> QED
      BY <2>1, <2>2, <1>4 DEF vars, TypeOK
  <1> QED
    BY <1>1, <1>2, <1>3, <1>4 DEF Next

\* In every reachable state the stored documents, the transaction's workspace
\* and the requests in flight are well typed; no quantity is ever negative.
THEOREM TypeCorrect == Spec => []TypeOK
  <1>1. Init => TypeOK
    BY InitIInv DEF IInv
  <1> QED
    BY <1>1, TypeStep, PTL DEF Spec

----------------------------------------------------------------------------
(* Balance of batches and consumption rows.                                *)

Balanced == BatchesConserved /\ ViewConserved

\* Batch ids the view knows are ids of committed batches.
LEMMA ViewDomain ==
    ASSUME TypeOK
    PROVE  /\ batchSeq \in Nat
           /\ DOMAIN view \subseteq 1..batchSeq
           /\ \A b \in DOMAIN view : view[b] \in Batch /\ drawn[b] \in Nat
           /\ \A b \in 1..batchSeq : BatchDoc(b) \in wrote => b \in DOMAIN view
  <1>1. PICK n \in 0..batchSeq :
           /\ view \in [1..n -> Batch]
           /\ drawn \in [1..n -> Nat]
           /\ wrote \subseteq {BatchDoc(b) : b \in 1..n} \cup {ProductDoc(p) : p \in Products}
    BY DEF TypeOK, TxTypeOK, ViewTypeOK
  <1>2. batchSeq \in Nat
    BY DEF TypeOK, StoreTypeOK
  <1>3. \A b : BatchDoc(b) \in wrote => b \in 1..n
    BY <1>1 DEF BatchDoc, ProductDoc
  <1> QED
    BY <1>1, <1>2, <1>3

\* Nothing is out of balance after a step that leaves the batches, the
\* consumption rows and the view alone.
LEMMA BalanceKept ==
    ASSUME Balanced, UNCHANGED <<batchSeq, batch, consumed, view, drawn>>,
           touched \subseteq touched'
    PROVE  Balanced'
  BY DEF Balanced, BatchesConserved, ViewConserved

\* With the workspace empty there is no view to be out of balance.
LEMMA BalanceClosed ==
    ASSUME BatchesConserved', CloseTx
    PROVE  Balanced'
  BY DEF Balanced, ViewConserved, CloseTx

\* A new batch is in balance and is not in the view.
LEMMA BalanceCreated ==
    ASSUME TypeOK, Balanced, NEW p \in Products, NEW date \in Dates,
           NEW amount \in Nat \ {0}, NEW cost \in Costs,
           CreateBatch(p, date, amount, cost), UNCHANGED <<view, drawn, touched>>
    PROVE  Balanced'
  <1>1. batchSeq \in Nat /\ batchSeq' = batchSeq + 1
    BY ViewDomain DEF CreateBatch
  <1>2. \A b \in 1..batchSeq : batch'[b] = batch[b] /\ consumed'[b] = consumed[b]
    BY <1>1 DEF CreateBatch
  <1>3. BatchesConserved'
    <2> SUFFICES ASSUME NEW b \in 1..batchSeq'
                 PROVE  /\ batch'[b].remaining + consumed'[b] = batch'[b].purchased
                        /\ batch'[b].status = "active" <=> batch'[b].remaining > 0
      BY DEF BatchesConserved
    <2>1. CASE b \in 1..batchSeq
      BY <1>2, <2>1 DEF Balanced, BatchesConserved
    <2>2. CASE b = batchSeq + 1
      BY <1>1, <2>2 DEF CreateBatch
    <2> QED
      BY <1>1, <2>1, <2>2
  <1>4. ViewConserved'
    BY <1>2, ViewDomain DEF Balanced, ViewConserved
  <1> QED
    BY <1>3, <1>4 DEF Balanced

\* One turn of the consumption loop moves the same amount out of the view's
\* batch and into the consumption rows.
LEMMA BalanceDrawn ==
    ASSUME TypeOK, Balanced, Draw
    PROVE  Balanced'
  <1>1. PICK b \in Available(txRows[txRow].product) :
           LET take == Lesser(view[b].remaining, txNeed)
           IN  /\ view' = [view EXCEPT ![b] = Less(view[b], take)]
               /\ drawn' = [drawn EXCEPT ![b] = @ + take]
    BY DEF Draw
  <1> DEFINE take == Lesser(view[b].remaining, txNeed)
  <1>2. b \in DOMAIN view /\ view[b] \in Batch /\ drawn[b] \in Nat
    BY <1>1, ViewDomain DEF Available
  <1>3. b \in DOMAIN drawn
    BY <1>2 DEF TypeOK, TxTypeOK, ViewTypeOK
  <1>4. take \in Nat /\ take <= view[b].remaining /\ view[b].remaining \in Nat
    BY <1>2 DEF Lesser, TypeOK, TxTypeOK, Batch
  <1>5. /\ Less(view[b], take).purchased = view[b].purchased
        /\ Less(view[b], take).remaining = view[b].remaining - take
        /\ Less(view[b], take).status = IF view[b].remaining - take <= 0
                                          THEN "exhausted" ELSE view[b].status
    BY <1>2 DEF Less, Batch
  <1>6. BatchesConserved'
    BY DEF Balanced, BatchesConserved, Draw
  <1>7. ViewConserved'
    <2> SUFFICES ASSUME NEW c \in DOMAIN view, BatchDoc(c) \notin touched
                 PROVE  /\ view'[c].purchased = batch[c].purchased
                        /\ view'[c].remaining + drawn'[c] = batch[c].remaining
                        /\ view'[c].status = "active" <=> view'[c].remaining > 0
      BY <1>1 DEF ViewConserved, Draw
    <2>1. /\ view[c].purchased = batch[c].purchased
          /\ view[c].remaining + drawn[c] = batch[c].remaining
          /\ view[c].status = "active" <=> view[c].remaining > 0
      BY DEF Balanced, ViewConserved
    <2>2. CASE c = b
      <3>1. view'[c] = Less(view[b], take) /\ drawn'[c] = drawn[b] + take
        BY <1>1, <1>2, <1>3, <2>2
      <3>2. view[b].status = "active"
        BY <1>1 DEF Available
      <3> QED
        BY <3>1, <3>2, <1>2, <1>4, <1>5, <2>1, <2>2
    <2>3. CASE c # b
      BY <1>1, <2>1, <2>3
    <2> QED
      BY <2>2, <2>3
  <1> QED
    BY <1>6, <1>7 DEF Balanced

\* Commit publishes the view of the batches the transaction wrote, and with it
\* the consumption rows that balance it.
LEMMA BalanceCommitted ==
    ASSUME TypeOK, Balanced, Commit
    PROVE  Balanced'
  <1>1. BatchesConserved'
    <2> SUFFICES ASSUME NEW b \in 1..batchSeq
                 PROVE  /\ batch'[b].remaining + consumed'[b] = batch'[b].purchased
                        /\ batch'[b].status = "active" <=> batch'[b].remaining > 0
      BY DEF BatchesConserved, Commit
    <2>1. /\ batch[b].remaining + consumed[b] = batch[b].purchased
          /\ batch[b].status = "active" <=> batch[b].remaining > 0
          /\ consumed[b] \in Nat /\ batch[b] \in Batch
      BY DEF Balanced, BatchesConserved, TypeOK, StoreTypeOK
    <2>2. CASE BatchDoc(b) \in wrote
      <3>1. b \in DOMAIN view /\ BatchDoc(b) \notin touched
        BY <2>2, ViewDomain DEF Commit
      <3>2. batch'[b] = view[b] /\ consumed'[b] = consumed[b] + drawn[b]
        BY <2>2 DEF Commit
      <3>3. /\ view[b].purchased = batch[b].purchased
            /\ view[b].remaining + drawn[b] = batch[b].remaining
            /\ view[b].status = "active" <=> view[b].remaining > 0
            /\ view[b] \in Batch /\ drawn[b] \in Nat
        BY <3>1, ViewDomain DEF Balanced, ViewConserved
      <3> QED
        BY <2>1, <3>2, <3>3 DEF Batch
    <2>3. CASE BatchDoc(b) \notin wrote
      BY <2>1, <2>3 DEF Commit
    <2> QED
      BY <2>2, <2>3
  <1> QED
    BY <1>1, BalanceClosed DEF Commit

\* Every step keeps the balance.
LEMMA BalanceStep ==
    ASSUME IInv, [Next]_vars
    PROVE  Balanced'
  <1>1. TypeOK /\ Balanced
    BY DEF IInv, Balanced
  <1>2. ASSUME CloseTx, UNCHANGED stockVars PROVE Balanced'
    BY <1>1, <1>2, BalanceClosed DEF Balanced, BatchesConserved
  <1>3. CASE ManualBatch
    BY <1>1, <1>3, BalanceCreated, AmountsAssumption DEF ManualBatch
  <1>4. CASE TxStep
    <2>1. CASE Begin
      <3>1. BatchesConserved'
        BY <1>1, <2>1 DEF Begin, Balanced, BatchesConserved
      <3>2. /\ view' = batch /\ batch' = batch
            /\ drawn' = [b \in 1..batchSeq |-> 0]
            /\ DOMAIN batch = 1..batchSeq
        BY <1>1, <2>1 DEF Begin, TypeOK, StoreTypeOK
      <3>3. \A b \in 1..batchSeq :
               batch[b].remaining \in Nat /\ drawn'[b] = 0
        BY <1>1, <3>2 DEF TypeOK, StoreTypeOK, Batch
      <3>4. ViewConserved'
        BY <1>1, <3>2, <3>3 DEF ViewConserved, Balanced, BatchesConserved
      <3> QED
        BY <3>1, <3>4 DEF Balanced
    <2>2. CASE ReadProduct
      BY <1>1, <2>2, BalanceKept DEF ReadProduct
    <2>3. CASE Draw
      BY <1>1, <2>3, BalanceDrawn
    <2>4. CASE OutOfStock
      BY <2>4, <1>2 DEF OutOfStock
    <2>5. CASE SaveProduct
      BY <1>1, <2>5, BalanceKept DEF SaveProduct
    <2>6. CASE Commit
      BY <1>1, <2>6, BalanceCommitted
    <2>7. CASE Abort
      BY <2>7, <1>2 DEF Abort
    <2> QED
      BY <1>4, <2>1, <2>2, <2>3, <2>4, <2>5, <2>6, <2>7 DEF TxStep
  <1>5. ASSUME NEW w \in Workers, JobStep(w) PROVE Balanced'
    <2>1. CASE ReceiveBatch(w)
      BY <1>1, <2>1, BalanceCreated, AmountsAssumption DEF ReceiveBatch
    <2>2. CASE ~ReceiveBatch(w)
      BY <1>1, <1>5, <2>2, BalanceKept
         DEF JobStep, AdjustRead, AdjustSave, EditRead, EditSave, UndoRead,
             UndoSave, Lose, SaveQuantity
    <2> QED
      BY <2>1, <2>2
  <1>6. CASE UNCHANGED vars
    BY <1>1, <1>6, BalanceKept DEF vars
  <1> QED
    BY <1>3, <1>4, <1>5, <1>6 DEF Next

\* What is left in a batch plus its consumption rows is what was bought, in
\* every reachable state.
THEOREM StockConserved == Spec => []BatchesConserved
  <1>1. Init => IInv
    BY InitIInv
  <1>2. IInv /\ [Next]_vars => IInv'
    BY TypeStep, BalanceStep DEF IInv, Balanced
  <1>3. IInv => BatchesConserved
    BY DEF IInv
  <1> QED
    BY <1>1, <1>2, <1>3, PTL DEF Spec

\* While a transaction runs, its view of a batch is the committed batch less
\* what its own consumption rows took, in every reachable state.
THEOREM ViewAgrees == Spec => []ViewConserved
  <1>1. Init => IInv
    BY InitIInv
  <1>2. IInv /\ [Next]_vars => IInv'
    BY TypeStep, BalanceStep DEF IInv, Balanced
  <1>3. IInv => ViewConserved
    BY DEF IInv
  <1> QED
    BY <1>1, <1>2, <1>3, PTL DEF Spec

----------------------------------------------------------------------------
(* FIFO order.  A session is committed turns after it chose its batches, so *)
(* the order must hold of the workspace meanwhile: FifoOrder is about one   *)
(* step, OrderInv is what that step relies on.                              *)

\* Nobody but the transaction writes batches while it runs.
OnlyProductsTouched == \A b \in Nat : BatchDoc(b) \notin touched

\* A batch the transaction drew from is one it will write.
DrawnIsWritten == \A b \in DOMAIN view : drawn[b] > 0 => BatchDoc(b) \in wrote

\* A batch was drawn from only when every older one was empty, and it is still.
DrawnInOrder ==
    \A b, o \in DOMAIN view :
        drawn[b] > 0 /\ view[o].product = view[b].product /\ Older(o, b)
          => view[o].remaining = 0

OrderInv == OnlyProductsTouched /\ DrawnIsWritten /\ DrawnInOrder

\* A step that leaves the view, the rows drawn and the documents written alone
\* and touches no batch keeps the order.
LEMMA OrderKept ==
    ASSUME OrderInv, UNCHANGED <<view, drawn, wrote>>, OnlyProductsTouched'
    PROVE  OrderInv'
  BY DEF OrderInv, DrawnIsWritten, DrawnInOrder, Older

\* The order of an empty workspace.
LEMMA OrderClosed ==
    ASSUME CloseTx
    PROVE  OrderInv'
  BY DEF CloseTx, OrderInv, OnlyProductsTouched, DrawnIsWritten, DrawnInOrder

\* Saving a product touches no batch.
LEMMA OrderSaved ==
    ASSUME OrderInv, NEW p \in Products, NEW n, SaveQuantity(p, n)
    PROVE  OrderInv'
  <1>1. \A b : BatchDoc(b) # ProductDoc(p)
    BY DEF BatchDoc, ProductDoc
  <1>2. OnlyProductsTouched'
    BY <1>1 DEF OrderInv, OnlyProductsTouched, SaveQuantity
  <1> QED
    BY <1>2, OrderKept DEF SaveQuantity

\* One turn of the consumption loop draws from the oldest batch with stock, so
\* that every older one is empty, and it empties no claim made before.
LEMMA OrderDrawn ==
    ASSUME TypeOK, ViewConserved, OrderInv, Draw
    PROVE  OrderInv'
  <1>1. PICK b \in Available(txRows[txRow].product) :
           /\ \A c \in Available(txRows[txRow].product) \ {b} : Older(b, c)
           /\ LET take == Lesser(view[b].remaining, txNeed)
              IN  /\ view' = [view EXCEPT ![b] = Less(view[b], take)]
                  /\ drawn' = [drawn EXCEPT ![b] = @ + take]
           /\ wrote' = wrote \cup {BatchDoc(b)}
    BY DEF Draw
  <1> DEFINE take == Lesser(view[b].remaining, txNeed)
  <1>2. /\ b \in DOMAIN view /\ view[b].remaining > 0
        /\ view[b].product = txRows[txRow].product
    BY <1>1 DEF Available
  <1>3. /\ DOMAIN drawn = DOMAIN view
        /\ DOMAIN view \subseteq Nat
        /\ \A c \in DOMAIN view : view[c] \in Batch /\ drawn[c] \in Nat
    BY ViewDomain DEF TypeOK, TxTypeOK, ViewTypeOK
  <1>4. /\ \A c \in DOMAIN view \ {b} : view'[c] = view[c] /\ drawn'[c] = drawn[c]
        /\ view'[b] = Less(view[b], take)
        /\ DOMAIN view' = DOMAIN view
    BY <1>1, <1>2, <1>3
  <1>5. \A c \in DOMAIN view : /\ view'[c].product = view[c].product
                               /\ view'[c].receivedAt = view[c].receivedAt
    BY <1>3, <1>4 DEF Less, Batch
  <1>6. OnlyProductsTouched'
    BY DEF OrderInv, OnlyProductsTouched, Draw
  <1>7. DrawnIsWritten'
    BY <1>1, <1>4 DEF OrderInv, DrawnIsWritten
  <1>8. DrawnInOrder'
    <2> SUFFICES ASSUME NEW c \in DOMAIN view, NEW o \in DOMAIN view, drawn'[c] > 0,
                        view[o].product = view[c].product, Older(o, c)
                 PROVE  view'[o].remaining = 0
      BY <1>4, <1>5 DEF DrawnInOrder, Older
    <2>1. view[o].remaining = 0
      <3>1. CASE c = b
        <4>1. o \notin Available(txRows[txRow].product)
          <5> SUFFICES ASSUME o \in Available(txRows[txRow].product) PROVE FALSE
            OBVIOUS
          <5>1. /\ view[o].receivedAt \in Int /\ view[b].receivedAt \in Int
                /\ o \in Int /\ b \in Int
            <6>1. view[o] \in Batch /\ view[b] \in Batch
              BY <1>2, <1>3
            <6>2. view[o].receivedAt \in Dates /\ view[b].receivedAt \in Dates
              BY <6>1 DEF Batch
            <6>3. view[o].receivedAt \in Nat /\ view[b].receivedAt \in Nat
              BY <6>2, DatesAssumption
            <6>4. o \in Nat /\ b \in Nat
              BY <1>2, <1>3
            <6> QED
              BY <6>3, <6>4
          <5>2. o # b
            BY <3>1, <5>1 DEF Older
          <5>3. Older(b, o)
            BY <1>1, <5>2
          <5> QED
            BY <3>1, <5>1, <5>3 DEF Older
        <4>2. view[o].status # "active" \/ ~(view[o].remaining > 0)
          BY <4>1, <3>1, <1>2 DEF Available
        <4>3. view[o].status = "active" <=> view[o].remaining > 0
          BY <1>3 DEF OrderInv, OnlyProductsTouched, ViewConserved
        <4> QED
          BY <4>2, <4>3, <1>3 DEF Batch
      <3>2. CASE c # b
        BY <3>2, <1>4 DEF OrderInv, DrawnInOrder
      <3> QED
        BY <3>1, <3>2
    <2>2. o # b
      BY <2>1, <1>2
    <2> QED
      BY <2>1, <2>2, <1>4
  <1> QED
    BY <1>6, <1>7, <1>8 DEF OrderInv

LEMMA OrderStep ==
    ASSUME TypeOK, ViewConserved, OrderInv, [Next]_vars
    PROVE  OrderInv'
  <1>1. CASE ManualBatch
    BY <1>1, OrderKept DEF ManualBatch, OrderInv, OnlyProductsTouched
  <1>2. CASE Begin
    <2>1. /\ view' = batch /\ DOMAIN batch = 1..batchSeq
          /\ drawn' = [b \in 1..batchSeq |-> 0]
      BY <1>2 DEF Begin, TypeOK, StoreTypeOK
    <2>2. OnlyProductsTouched'
      BY <1>2 DEF Begin, OrderInv, OnlyProductsTouched
    <2> QED
      BY <2>1, <2>2 DEF OrderInv, DrawnIsWritten, DrawnInOrder
  <1>3. CASE ReadProduct
    BY <1>3, OrderKept DEF ReadProduct, OrderInv, OnlyProductsTouched
  <1>4. CASE Draw
    BY <1>4, OrderDrawn
  <1>5. CASE SaveProduct
    BY <1>5 DEF SaveProduct, OrderInv, OnlyProductsTouched, DrawnIsWritten, DrawnInOrder, Older
  <1>6. CASE OutOfStock \/ Commit \/ Abort
    BY <1>6, OrderClosed DEF OutOfStock, Commit, Abort
  <1>7. ASSUME NEW w \in Workers, JobStep(w) PROVE OrderInv'
    <2>1. job[w] \in Job
      BY DEF TypeOK
    <2>2. CASE AdjustSave(w)
      BY <2>1, <2>2, JobKinds, OrderSaved DEF AdjustSave
    <2>3. CASE EditSave(w)
      BY <2>1, <2>3, JobKinds, OrderSaved DEF EditSave
    <2>4. CASE ~AdjustSave(w) /\ ~EditSave(w)
      BY <1>7, <2>4, OrderKept
         DEF JobStep, ReceiveBatch, AdjustRead, EditRead, UndoRead, UndoSave, Lose,
             OrderInv, OnlyProductsTouched
    <2> QED
      BY <2>2, <2>3, <2>4
  <1>8. CASE UNCHANGED vars
    BY <1>8, OrderKept DEF vars, OrderInv, OnlyProductsTouched
  <1> QED
    BY <1>1, <1>2, <1>3, <1>4, <1>5, <1>6, <1>7, <1>8 DEF Next, TxStep

\* A step that lowers no batch is in order.
LEMMA OthersLowerNothing ==
    ASSUME TypeOK, [Next]_vars, ~Commit, NEW b \in DOMAIN view
    PROVE  batch'[b] = batch[b]
  <1>1. b \in 1..batchSeq /\ batchSeq \in Nat
    BY ViewDomain
  <1>2. ASSUME NEW p \in Products, NEW date \in Dates, NEW amount \in Amounts,
               NEW cost \in Costs, CreateBatch(p, date, amount, cost)
        PROVE  batch'[b] = batch[b]
    BY <1>1, <1>2 DEF CreateBatch
  <1>3. CASE ManualBatch
    BY <1>2, <1>3 DEF ManualBatch
  <1>4. ASSUME NEW w \in Workers, JobStep(w) PROVE batch'[b] = batch[b]
    BY <1>2, <1>4
       DEF JobStep, ReceiveBatch, AdjustRead, AdjustSave, EditRead, EditSave, UndoRead,
           UndoSave, Lose, SaveQuantity
  <1>5. CASE TxStep
    BY <1>5 DEF TxStep, Begin, ReadProduct, Draw, OutOfStock, SaveProduct, Abort
  <1>6. CASE UNCHANGED vars
    BY <1>6 DEF vars
  <1> QED
    BY <1>3, <1>4, <1>5, <1>6 DEF Next

\* The batches a commit lowers are lowered in the order of their age.
LEMMA CommitInOrder ==
    ASSUME TypeOK, ViewConserved, OrderInv, Commit,
           NEW b \in DOMAIN view, batch'[b].remaining < batch[b].remaining,
           NEW o \in DOMAIN view, view[o].product = view[b].product, Older(o, b)
    PROVE  batch'[o].remaining = 0
  <1>1. /\ b \in 1..batchSeq /\ o \in 1..batchSeq /\ batchSeq \in Nat
        /\ view[b] \in Batch /\ view[o] \in Batch
        /\ batch[b] \in Batch /\ drawn[b] \in Nat /\ drawn[o] \in Nat
    BY ViewDomain DEF TypeOK, StoreTypeOK
  <1>2. /\ view[b].remaining + drawn[b] = batch[b].remaining
        /\ view[o].remaining + drawn[o] = batch[o].remaining
    BY <1>1 DEF OrderInv, OnlyProductsTouched, ViewConserved
  <1>3. BatchDoc(b) \in wrote /\ batch'[b] = view[b]
    BY <1>1 DEF Commit, Batch
  <1>4. drawn[b] > 0
    BY <1>1, <1>2, <1>3 DEF Batch
  <1>5. view[o].remaining = 0
    BY <1>4 DEF OrderInv, DrawnInOrder
  <1>6. CASE BatchDoc(o) \in wrote
    BY <1>1, <1>5, <1>6 DEF Commit
  <1>7. CASE BatchDoc(o) \notin wrote
    <2>1. drawn[o] = 0
      BY <1>1, <1>7 DEF OrderInv, DrawnIsWritten
    <2> QED
      BY <1>1, <1>2, <1>5, <1>7, <2>1 DEF Commit
  <1> QED
    BY <1>6, <1>7

\* Stock leaves the batches oldest first: no step, of whatever request, lowers
\* a batch and leaves an older one of the product that its session saw with
\* stock.
THEOREM FifoOrderHolds == Spec => FifoOrder
  <1> DEFINE FInv == IInv /\ OrderInv
  <1>1. Init => FInv
    BY InitIInv DEF Init, OrderInv, OnlyProductsTouched, DrawnIsWritten, DrawnInOrder
  <1>2. FInv /\ [Next]_vars => FInv'
    BY TypeStep, BalanceStep, OrderStep DEF IInv, Balanced
  <1>3. FInv /\ [Next]_vars =>
          [\A b \in DOMAIN view :
             batch'[b].remaining < batch[b].remaining =>
               \A o \in DOMAIN view :
                 view[o].product = view[b].product /\ Older(o, b)
                   => batch'[o].remaining = 0]_vars
    <2> SUFFICES ASSUME FInv, [Next]_vars, NEW b \in DOMAIN view,
                        batch'[b].remaining < batch[b].remaining,
                        NEW o \in DOMAIN view, view[o].product = view[b].product,
                        Older(o, b)
                 PROVE  batch'[o].remaining = 0
      OBVIOUS
    <2>1. CASE Commit
      BY <2>1, CommitInOrder DEF IInv
    <2>2. CASE ~Commit
      <3>1. batch'[b] = batch[b] /\ batch[b] \in Batch
        BY <2>2, OthersLowerNothing, ViewDomain DEF IInv, TypeOK, StoreTypeOK
      <3> QED
        BY <3>1 DEF Batch
    <2> QED
      BY <2>1, <2>2
  <1> QED
    BY <1>1, <1>2, <1>3, PTL DEF Spec, FifoOrder

----------------------------------------------------------------------------
(* Adding up.  The ledger's Total is a fold, and what a fold is for every   *)
(* finite set is shown by looking at a smallest set for which it would not *)
(* be so.                                                                  *)

LEMMA SmallestSet ==
    ASSUME NEW S, IsFiniteSet(S), NEW C \in SUBSET SUBSET S, C # {}
    PROVE  \E T \in C : \A U \in C : U \subseteq T => U = T
  <1>1. IsWellFoundedOn(StrictSubsetOrdering(S), SUBSET S)
    BY FS_StrictSubsetOrderingWellFounded, FS_FiniteSubsetsOfFinite
  <1>2. PICK T \in C : \A U \in C : ~ (<<U, T>> \in StrictSubsetOrdering(S))
    BY <1>1, WFMin
  <1>3. \A U \in C : U \subseteq T /\ U # T => <<U, T>> \in StrictSubsetOrdering(S)
    BY DEF StrictSubsetOrdering
  <1>4. \A U \in C : U \subseteq T => U = T
    BY <1>2, <1>3
  <1> QED
    BY <1>4

\* The fold, as its definition has it: a function on the subsets.
Adds(f, amount, S) ==
    f = [s \in SUBSET S |->
           IF s = {} THEN 0 ELSE LET d == CHOOSE x \in s : TRUE IN amount[d] + f[s \ {d}]]

Adder(amount, S) == CHOOSE f : Adds(f, amount, S)

LEMMA TotalIs ==
    ASSUME NEW amount, NEW S
    PROVE  Ledger!Total(amount, S) = Adder(amount, S)[S]
  BY DEF Ledger!Total, Ledger!MapThenSumSet, Ledger!MapThenFoldSet, Adder, Adds

Settled(amount, T) ==
    /\ Adds(Adder(amount, T), amount, T)
    /\ \A U \in SUBSET T : Adder(amount, T)[U] = Ledger!Total(amount, U)

LEMMA AllSettled ==
    ASSUME NEW amount, NEW S, IsFiniteSet(S)
    PROVE  \A T \in SUBSET S : Settled(amount, T)
  <1> DEFINE C == {T \in SUBSET S : ~ Settled(amount, T)}
  <1> SUFFICES ASSUME C # {} PROVE FALSE
    OBVIOUS
  <1>1. PICK T \in C : \A U \in C : U \subseteq T => U = T
    <2>1. C \in SUBSET SUBSET S /\ C # {}
      OBVIOUS
    <2> HIDE DEF C
    <2> QED
      BY <2>1, SmallestSet
  <1>2. T \in SUBSET S /\ ~ Settled(amount, T)
    OBVIOUS
  <1>3. \A U \in SUBSET T : U # T => Settled(amount, U)
    BY <1>1
  <1> HIDE DEF C
  <1> DEFINE next(s) == LET d == CHOOSE x \in s : TRUE IN amount[d] + Ledger!Total(amount, s \ {d})
             g == [s \in SUBSET T |-> IF s = {} THEN 0 ELSE next(s)]
  <1>4. \A s : s # {} => (CHOOSE x \in s : TRUE) \in s
    OBVIOUS
  <1>5. ASSUME NEW U \in SUBSET T, U # T
        PROVE  Ledger!Total(amount, U) = g[U]
    <2>1. Settled(amount, U)
      BY <1>3, <1>5
    <2>2. Adder(amount, U)[U] =
             IF U = {} THEN 0
             ELSE LET d == CHOOSE x \in U : TRUE IN amount[d] + Adder(amount, U)[U \ {d}]
      BY <2>1 DEF Settled, Adds
    <2>3. \A d : Adder(amount, U)[U \ {d}] = Ledger!Total(amount, U \ {d})
      BY <2>1 DEF Settled
    <2> QED
      BY <2>2, <2>3, TotalIs
  <1>6. Adds(g, amount, T)
    <2>1. ASSUME NEW s \in SUBSET T, s # {}
          PROVE  LET d == CHOOSE x \in s : TRUE IN Ledger!Total(amount, s \ {d}) = g[s \ {d}]
      BY <1>4, <1>5, <2>1
    <2>2. \A s \in SUBSET T : g[s] = IF s = {} THEN 0 ELSE next(s)
      OBVIOUS
    <2>3. \A s \in SUBSET T : s # {} =>
             next(s) = LET d == CHOOSE x \in s : TRUE IN amount[d] + g[s \ {d}]
      BY <2>1
    <2>4. g = [s \in SUBSET T |-> g[s]]
      OBVIOUS
    <2> HIDE DEF g, next
    <2>5. \A s \in SUBSET T : g[s] =
             IF s = {} THEN 0 ELSE LET d == CHOOSE x \in s : TRUE IN amount[d] + g[s \ {d}]
      BY <2>2, <2>3
    <2> QED
      BY <2>4, <2>5 DEF Adds
  <1>7. Adds(Adder(amount, T), amount, T)
    BY <1>6 DEF Adder
  <1> DEFINE f == Adder(amount, T)
             D == {U \in SUBSET T : f[U] # Ledger!Total(amount, U)}
  <1>8. CASE D = {}
    BY <1>2, <1>7, <1>8 DEF Settled
  <1>9. CASE D # {}
    <2>1. IsFiniteSet(T) /\ D \in SUBSET SUBSET T
      BY <1>2, FS_Subset
    <2>2. PICK U \in D : \A V \in D : V \subseteq U => V = U
      <3> HIDE DEF D
      <3> QED
        BY <1>9, <2>1, SmallestSet
    <2>3. U \in SUBSET T /\ f[U] # Ledger!Total(amount, U)
      OBVIOUS
    <2>4. \A V \in SUBSET U : V # U => f[V] = Ledger!Total(amount, V)
      BY <2>2
    <2> HIDE DEF D
    <2>5. f[U] = IF U = {} THEN 0
                 ELSE LET d == CHOOSE x \in U : TRUE IN amount[d] + f[U \ {d}]
      BY <1>7, <2>3 DEF Adds
    <2>6. U # T
      BY <2>3, TotalIs
    <2>7. Ledger!Total(amount, U) = IF U = {} THEN 0 ELSE next(U)
      BY <1>5, <2>3, <2>6
    <2>8. U # {} => LET d == CHOOSE x \in U : TRUE IN f[U \ {d}] = Ledger!Total(amount, U \ {d})
      BY <1>4, <2>4
    <2> QED
      BY <2>3, <2>5, <2>7, <2>8
  <1> QED
    BY <1>8, <1>9

\* One summand less at a time, as CHOOSE would have it.
LEMMA TotalNext ==
    ASSUME NEW amount, NEW S, IsFiniteSet(S)
    PROVE  Ledger!Total(amount, S) =
              IF S = {} THEN 0
              ELSE LET d == CHOOSE x \in S : TRUE IN amount[d] + Ledger!Total(amount, S \ {d})
  <1>1. Settled(amount, S)
    BY AllSettled
  <1>2. Adder(amount, S)[S] =
           IF S = {} THEN 0
           ELSE LET d == CHOOSE x \in S : TRUE IN amount[d] + Adder(amount, S)[S \ {d}]
    BY <1>1 DEF Settled, Adds
  <1>3. \A d : Adder(amount, S)[S \ {d}] = Ledger!Total(amount, S \ {d})
    BY <1>1 DEF Settled
  <1> QED
    BY <1>2, <1>3, TotalIs

LEMMA TotalEmpty ==
    ASSUME NEW amount
    PROVE  Ledger!Total(amount, {}) = 0
  BY TotalNext, FS_EmptySet

Natural(amount, S) == \A d \in S : amount[d] \in Nat

LEMMA TotalNat ==
    ASSUME NEW amount, NEW S, IsFiniteSet(S), Natural(amount, S)
    PROVE  Ledger!Total(amount, S) \in Nat
  <1> DEFINE C == {T \in SUBSET S : Ledger!Total(amount, T) \notin Nat}
  <1> SUFFICES ASSUME C # {} PROVE FALSE
    OBVIOUS
  <1>1. PICK T \in C : \A U \in C : U \subseteq T => U = T
    <2>1. C \in SUBSET SUBSET S /\ C # {}
      OBVIOUS
    <2> HIDE DEF C
    <2> QED
      BY <2>1, SmallestSet
  <1>2. IsFiniteSet(T) /\ T \in SUBSET S /\ Ledger!Total(amount, T) \notin Nat
    BY FS_Subset
  <1>3. T # {}
    BY <1>2, TotalEmpty
  <1>4. PICK d \in T : Ledger!Total(amount, T) = amount[d] + Ledger!Total(amount, T \ {d})
    BY <1>2, <1>3, TotalNext
  <1>5. Ledger!Total(amount, T \ {d}) \in Nat
    BY <1>1
  <1> HIDE DEF C
  <1>6. amount[d] \in Nat
    BY <1>2 DEF Natural
  <1> QED
    BY <1>2, <1>4, <1>5, <1>6

\* Which summand is taken out makes no difference.
LEMMA TotalWithout ==
    ASSUME NEW amount, NEW S, IsFiniteSet(S), Natural(amount, S), NEW d \in S
    PROVE  Ledger!Total(amount, S) = amount[d] + Ledger!Total(amount, S \ {d})
  <1> DEFINE Holds(T) == \A e \in T : Ledger!Total(amount, T) = amount[e] + Ledger!Total(amount, T \ {e})
             C == {T \in SUBSET S : ~ Holds(T)}
  <1> SUFFICES ASSUME C # {} PROVE FALSE
    OBVIOUS
  <1>1. PICK T \in C : \A U \in C : U \subseteq T => U = T
    <2>1. C \in SUBSET SUBSET S /\ C # {}
      OBVIOUS
    <2> HIDE DEF C
    <2> QED
      BY <2>1, SmallestSet
  <1>2. T \in SUBSET S /\ ~ Holds(T)
    OBVIOUS
  <1>3. \A U \in SUBSET T : U # T => Holds(U)
    BY <1>1
  <1> HIDE DEF C
  <1>4. IsFiniteSet(T) /\ \A U \in SUBSET T : IsFiniteSet(U) /\ Ledger!Total(amount, U) \in Nat
    <2>1. \A U \in SUBSET S : IsFiniteSet(U)
      BY FS_Subset
    <2>2. \A U \in SUBSET S : Natural(amount, U)
      BY DEF Natural
    <2> QED
      BY <1>2, <2>1, <2>2, TotalNat
  <1>5. PICK e \in T : Ledger!Total(amount, T) # amount[e] + Ledger!Total(amount, T \ {e})
    BY <1>2
  <1>6. PICK c \in T : Ledger!Total(amount, T) = amount[c] + Ledger!Total(amount, T \ {c})
    BY <1>4, TotalNext
  <1>7. c # e
    BY <1>5, <1>6
  <1>8. Ledger!Total(amount, T \ {c}) = amount[e] + Ledger!Total(amount, (T \ {c}) \ {e})
    BY <1>3, <1>7
  <1>9. Ledger!Total(amount, T \ {e}) = amount[c] + Ledger!Total(amount, (T \ {e}) \ {c})
    BY <1>3, <1>7
  <1>10. (T \ {c}) \ {e} = (T \ {e}) \ {c}
    OBVIOUS
  <1>11. /\ amount[c] \in Nat /\ amount[e] \in Nat
         /\ Ledger!Total(amount, (T \ {e}) \ {c}) \in Nat
    BY <1>2, <1>4 DEF Natural
  <1> HIDE DEF Holds
  <1> QED
    BY <1>5, <1>6, <1>8, <1>9, <1>10, <1>11

LEMMA TotalWith ==
    ASSUME NEW amount, NEW S, IsFiniteSet(S), NEW d, d \notin S, Natural(amount, S \union {d})
    PROVE  Ledger!Total(amount, S \union {d}) = amount[d] + Ledger!Total(amount, S)
  <1>1. IsFiniteSet(S \union {d})
    BY FS_AddElement
  <1>2. (S \union {d}) \ {d} = S
    OBVIOUS
  <1> QED
    BY <1>1, <1>2, TotalWithout

Alike(amount, other, R) == \A d \in R : other[d] = amount[d]

\* Of documents some may be gone, as long as the other keep their quantity.
LEMMA TotalWithin ==
    ASSUME NEW amount, NEW other, NEW S, IsFiniteSet(S), Natural(amount, S), NEW R \in SUBSET S,
           Alike(amount, other, R)
    PROVE  Ledger!Total(other, R) <= Ledger!Total(amount, S) /\ (R = S => Ledger!Total(other, R) = Ledger!Total(amount, S))
  <1> DEFINE Holds(T) ==
                /\ Ledger!Total(other, T \intersect R) <= Ledger!Total(amount, T)
                /\ T \subseteq R => Ledger!Total(other, T) = Ledger!Total(amount, T)
             C == {T \in SUBSET S : ~ Holds(T)}
  <1>1. CASE C = {}
    <2>1. Holds(S) /\ S \intersect R = R
      BY <1>1
    <2> QED
      BY <2>1
  <1>2. CASE C # {}
    <2>1. PICK T \in C : \A U \in C : U \subseteq T => U = T
      <3>1. C \in SUBSET SUBSET S /\ C # {}
        BY <1>2
      <3> HIDE DEF C
      <3> QED
        BY <3>1, SmallestSet
    <2>2. T \in SUBSET S /\ ~ Holds(T)
      OBVIOUS
    <2>3. \A U \in SUBSET T : U # T => Holds(U)
      BY <2>1
    <2> HIDE DEF C
    <2>4. /\ IsFiniteSet(T) /\ IsFiniteSet(T \intersect R)
          /\ Natural(amount, T) /\ Natural(other, T \intersect R)
      <3>1. IsFiniteSet(T) /\ IsFiniteSet(T \intersect R)
        BY <2>2, FS_Subset
      <3> QED
        BY <2>2, <3>1 DEF Natural, Alike
    <2>5. T # {}
      <3> SUFFICES ASSUME T = {} PROVE FALSE
        OBVIOUS
      <3>1. Ledger!Total(other, T) = 0 /\ Ledger!Total(amount, T) = 0
        BY TotalEmpty
      <3>2. T \intersect R = T
        OBVIOUS
      <3>3. Ledger!Total(other, T \intersect R) = 0
        BY <3>1, <3>2
      <3> QED
        BY <2>2, <3>1, <3>3
    <2>6. PICK d \in T : TRUE
      BY <2>5
    <2>7. Ledger!Total(amount, T) = amount[d] + Ledger!Total(amount, T \ {d}) /\ amount[d] \in Nat
      BY <2>4, TotalWithout DEF Natural
    <2>8. Holds(T \ {d})
      BY <2>3
    <2>9. Ledger!Total(amount, T \ {d}) \in Nat /\ Ledger!Total(other, (T \ {d}) \intersect R) \in Nat
      <3>1. /\ IsFiniteSet(T \ {d}) /\ IsFiniteSet((T \ {d}) \intersect R)
            /\ Natural(amount, T \ {d}) /\ Natural(other, (T \ {d}) \intersect R)
        BY <2>4, FS_Subset DEF Natural
      <3> QED
        BY <3>1, TotalNat
    <2> DEFINE less == Ledger!Total(amount, T \ {d})
               lesser == Ledger!Total(other, (T \ {d}) \intersect R)
    <2>10. /\ less \in Nat /\ lesser \in Nat /\ lesser <= less
           /\ Ledger!Total(amount, T) = amount[d] + less
      BY <2>7, <2>8, <2>9
    <2>11. CASE d \in R
      <3>1. Ledger!Total(other, T \intersect R) =
               other[d] + Ledger!Total(other, (T \intersect R) \ {d})
        BY <2>4, <2>11, TotalWithout
      <3>2. (T \intersect R) \ {d} = (T \ {d}) \intersect R /\ other[d] = amount[d]
        BY <2>11 DEF Alike
      <3>3. Ledger!Total(other, T \intersect R) = amount[d] + lesser
        BY <3>1, <3>2
      <3>4. T \subseteq R => lesser = less /\ Ledger!Total(other, T) = Ledger!Total(other, T \intersect R)
        <4>1. T \subseteq R => T \intersect R = T /\ (T \ {d}) \intersect R = T \ {d} /\ T \ {d} \subseteq R
          OBVIOUS
        <4> QED
          BY <2>8, <4>1
      <3> HIDE DEF less, lesser
      <3>5. Ledger!Total(other, T \intersect R) <= Ledger!Total(amount, T)
        BY <2>7, <2>10, <3>3
      <3>6. T \subseteq R => Ledger!Total(other, T) = Ledger!Total(amount, T)
        BY <2>10, <3>3, <3>4
      <3> QED
        BY <2>2, <3>5, <3>6
    <2>12. CASE d \notin R
      <3>1. T \intersect R = (T \ {d}) \intersect R /\ ~ (T \subseteq R)
        BY <2>12
      <3>2. Ledger!Total(other, T \intersect R) = lesser
        BY <3>1
      <3> HIDE DEF less, lesser
      <3>3. Ledger!Total(other, T \intersect R) <= Ledger!Total(amount, T)
        BY <2>7, <2>10, <3>2
      <3> QED
        BY <2>2, <3>1, <3>3
    <2> QED
      BY <2>11, <2>12
  <1> QED
    BY <1>1, <1>2

\* Nothing adds up to nothing.
LEMMA TotalZero ==
    ASSUME NEW amount, NEW S, IsFiniteSet(S), \A d \in S : amount[d] = 0
    PROVE  Ledger!Total(amount, S) = 0
  <1> DEFINE C == {T \in SUBSET S : Ledger!Total(amount, T) # 0}
  <1> SUFFICES ASSUME C # {} PROVE FALSE
    OBVIOUS
  <1>1. PICK T \in C : \A U \in C : U \subseteq T => U = T
    <2>1. C \in SUBSET SUBSET S /\ C # {}
      OBVIOUS
    <2> HIDE DEF C
    <2> QED
      BY <2>1, SmallestSet
  <1>2. IsFiniteSet(T) /\ T \in SUBSET S /\ Ledger!Total(amount, T) # 0
    BY FS_Subset
  <1>3. T # {}
    BY <1>2, TotalEmpty
  <1>4. PICK d \in T : Ledger!Total(amount, T) = amount[d] + Ledger!Total(amount, T \ {d})
    BY <1>2, <1>3, TotalNext
  <1>5. Ledger!Total(amount, T \ {d}) = 0
    BY <1>1
  <1> HIDE DEF C
  <1>6. amount[d] = 0
    BY <1>2
  <1> QED
    BY <1>2, <1>4, <1>5, <1>6

----------------------------------------------------------------------------
(* FifoStock implements StockLedger.  A transaction shows when it commits,  *)
(* all of it at once: so the invariant follows what it has drawn and for    *)
(* which rows, and that the goods it sees are those of the store.           *)

AskedOf(rows, k, p) ==
    Ledger!Total([i \in DOMAIN rows |-> rows[i].qty], {i \in 1..k : rows[i].product = p})

DrawnOf(vw, dr, p) == Ledger!Total(dr, {b \in DOMAIN vw : vw[b].product = p})

\* The rows done so far are filled, and the row at hand but for what it needs.
Filled ==
    /\ txPhase = "row" =>
         \A p \in Products : AskedOf(txRows, txRow - 1, p) = DrawnOf(view, drawn, p)
    /\ txPhase = "draw" =>
         \A p \in Products : AskedOf(txRows, txRow, p) =
            DrawnOf(view, drawn, p) + IF txRows[txRow].product = p THEN txNeed ELSE 0
    /\ txPhase = "commit" =>
         \A p \in Products : AskedOf(txRows, txRow, p) = DrawnOf(view, drawn, p)

\* A batch stays what it is: product and date are never written.
SameGoods ==
    \A b \in DOMAIN view : /\ view[b].product = batch[b].product
                           /\ view[b].receivedAt = batch[b].receivedAt

Ordered ==
    /\ txPhase # "idle" => txRows \in Orders
    /\ txPhase = "commit" => txRow = Len(txRows)

LedgerInv == SameGoods /\ Ordered /\ Filled

\* What the rows of a request ask for, row by row.
LEMMA AskedNothing ==
    ASSUME NEW rows, NEW p
    PROVE  AskedOf(rows, 0, p) = 0
  <1>1. {i \in 1..0 : rows[i].product = p} = {}
    OBVIOUS
  <1> QED
    BY <1>1, TotalEmpty DEF AskedOf

LEMMA AskedNext ==
    ASSUME NEW rows \in Seq(Row), NEW k \in 1..Len(rows), NEW p
    PROVE  /\ AskedOf(rows, k - 1, p) \in Nat
           /\ AskedOf(rows, k, p) =
                AskedOf(rows, k - 1, p) + IF rows[k].product = p THEN rows[k].qty ELSE 0
  <1> DEFINE amount == [i \in DOMAIN rows |-> rows[i].qty]
             S == {i \in 1..(k - 1) : rows[i].product = p}
             T == {i \in 1..k : rows[i].product = p}
  <1>1. /\ DOMAIN rows = 1..Len(rows) /\ Len(rows) \in Nat /\ k \in Nat /\ k - 1 \in Nat
        /\ 1..k \subseteq DOMAIN rows /\ 1..(k - 1) \subseteq 1..k
        /\ \A i \in 1..k : i = k \/ i \in 1..(k - 1)
        /\ k \notin 1..(k - 1) /\ k \in 1..k
    BY LenProperties
  <1>2. \A i \in 1..k : amount[i] = rows[i].qty /\ amount[i] \in Nat
    <2>1. \A i \in 1..Len(rows) : rows[i] \in Row
      BY ElementOfSeq
    <2>2. \A i \in 1..k : rows[i] \in Row /\ amount[i] = rows[i].qty
      BY <1>1, <2>1
    <2> QED
      BY <2>2 DEF Row
  <1>3. IsFiniteSet(S) /\ S \subseteq 1..k /\ k \notin S
    <2>1. IsFiniteSet(1..(k - 1))
      BY <1>1, FS_Interval
    <2> QED
      BY <1>1, <2>1, FS_Subset
  <1>4. T = IF rows[k].product = p THEN S \union {k} ELSE S
    BY <1>1
  <1>5. AskedOf(rows, k - 1, p) = Ledger!Total(amount, S) /\ AskedOf(rows, k, p) = Ledger!Total(amount, T)
    BY DEF AskedOf
  <1> HIDE DEF amount, S, T
  <1>6. Natural(amount, S) /\ Natural(amount, S \union {k}) /\ Ledger!Total(amount, S) \in Nat
    <2>1. Natural(amount, S) /\ Natural(amount, S \union {k})
      BY <1>1, <1>2, <1>3 DEF Natural
    <2> QED
      BY <1>3, <2>1, TotalNat
  <1>7. Ledger!Total(amount, S \union {k}) = amount[k] + Ledger!Total(amount, S)
    BY <1>3, <1>6, TotalWith
  <1>8. amount[k] = rows[k].qty /\ amount[k] \in Nat
    BY <1>1, <1>2
  <1>9. CASE rows[k].product = p
    BY <1>4, <1>5, <1>6, <1>7, <1>8, <1>9
  <1>10. CASE rows[k].product # p
    BY <1>4, <1>5, <1>6, <1>10
  <1> QED
    BY <1>9, <1>10

LEMMA AskedAll ==
    ASSUME NEW rows \in Seq(Row), NEW p
    PROVE  Ledger!Asked(rows, p) = AskedOf(rows, Len(rows), p)
  <1>1. DOMAIN rows = 1..Len(rows)
    BY LenProperties
  <1>2. {i \in DOMAIN rows : rows[i].product = p} = {i \in 1..Len(rows) : rows[i].product = p}
    BY <1>1
  <1> QED
    BY <1>2 DEF Ledger!Asked, AskedOf

\* One turn of the loop: the batches stay what they are, one is drawn from.
OneMore(vw, vw2, dr, dr2, b, take) ==
    /\ DOMAIN vw2 = DOMAIN vw
    /\ \A c \in DOMAIN vw : vw2[c].product = vw[c].product
    /\ \A c \in DOMAIN vw \ {b} : dr2[c] = dr[c]
    /\ dr2[b] = dr[b] + take

MoreDrawn(vw, vw2, dr, dr2, b, take, p) ==
    /\ DrawnOf(vw, dr, p) \in Nat
    /\ DrawnOf(vw2, dr2, p) = DrawnOf(vw, dr, p) + IF vw[b].product = p THEN take ELSE 0

\* What a transaction has drawn, batch by batch.
LEMMA DrawnMore ==
    ASSUME NEW vw, NEW vw2, NEW dr, NEW dr2, NEW b \in DOMAIN vw, NEW take \in Nat, NEW p,
           IsFiniteSet(DOMAIN vw), Natural(dr, DOMAIN vw), Natural(dr2, DOMAIN vw),
           OneMore(vw, vw2, dr, dr2, b, take)
    PROVE  MoreDrawn(vw, vw2, dr, dr2, b, take, p)
  <1> DEFINE S == {c \in DOMAIN vw : vw[c].product = p}
             R == S \ {b}
  <1>1. {c \in DOMAIN vw2 : vw2[c].product = p} = S /\ dr2[b] = dr[b] + take
    BY DEF OneMore
  <1>2. DrawnOf(vw, dr, p) = Ledger!Total(dr, S) /\ DrawnOf(vw2, dr2, p) = Ledger!Total(dr2, S)
    BY <1>1 DEF DrawnOf
  <1>3. /\ IsFiniteSet(S) /\ IsFiniteSet(R) /\ S \subseteq DOMAIN vw /\ R \subseteq S
        /\ b \in S <=> vw[b].product = p
    <2>1. S \subseteq DOMAIN vw /\ R \subseteq DOMAIN vw /\ R \subseteq S
      OBVIOUS
    <2> QED
      BY <2>1, FS_Subset
  <1>4. /\ Natural(dr, S) /\ Natural(dr, R) /\ Natural(dr2, S)
        /\ Alike(dr, dr2, R)
        /\ dr[b] \in Nat
    BY <1>3 DEF Natural, Alike, OneMore
  <1>5. b \notin S => R = S
    OBVIOUS
  <1>6. b \in S => /\ Ledger!Total(dr, S) = dr[b] + Ledger!Total(dr, R)
                   /\ Ledger!Total(dr2, S) = dr2[b] + Ledger!Total(dr2, R)
    BY <1>3, <1>4, TotalWithout
  <1> HIDE DEF S, R
  <1>7. Ledger!Total(dr2, R) = Ledger!Total(dr, R)
    <2>1. R \in SUBSET R
      OBVIOUS
    <2> QED
      BY <1>3, <1>4, <2>1, TotalWithin
  <1>8. Ledger!Total(dr, S) \in Nat /\ Ledger!Total(dr, R) \in Nat
    BY <1>3, <1>4, TotalNat
  <1>9. CASE b \in S
    BY <1>1, <1>2, <1>3, <1>4, <1>6, <1>7, <1>8, <1>9 DEF MoreDrawn
  <1>10. CASE b \notin S
    BY <1>2, <1>3, <1>5, <1>7, <1>8, <1>10 DEF MoreDrawn
  <1> QED
    BY <1>9, <1>10

LEMMA DrawnNothing ==
    ASSUME NEW vw, NEW dr, NEW p, IsFiniteSet(DOMAIN vw), \A b \in DOMAIN vw : dr[b] = 0
    PROVE  DrawnOf(vw, dr, p) = 0
  <1> DEFINE S == {b \in DOMAIN vw : vw[b].product = p}
  <1>1. IsFiniteSet(S)
    BY FS_Subset
  <1>2. \A b \in S : dr[b] = 0
    OBVIOUS
  <1>3. DrawnOf(vw, dr, p) = Ledger!Total(dr, S)
    BY DEF DrawnOf
  <1> HIDE DEF S
  <1> QED
    BY <1>1, <1>2, <1>3, TotalZero

\* A step that leaves the workspace and the goods of the batches alone.
LEMMA LedgerInvKept ==
    ASSUME LedgerInv, UNCHANGED <<txPhase, txRows, txRow, txNeed, view, drawn>>,
           \A b \in DOMAIN view : batch'[b] = batch[b]
    PROVE  LedgerInv'
  BY DEF LedgerInv, SameGoods, Ordered, Filled

LEMMA LedgerInvClosed ==
    ASSUME CloseTx
    PROVE  LedgerInv'
  BY DEF CloseTx, LedgerInv, SameGoods, Ordered, Filled

\* The domain of the view is finite and its rows drawn are naturals.
LEMMA ViewFinite ==
    ASSUME TypeOK
    PROVE  IsFiniteSet(DOMAIN view) /\ Natural(drawn, DOMAIN view)
  <1>1. batchSeq \in Nat /\ DOMAIN view \subseteq 1..batchSeq
    BY ViewDomain
  <1>2. IsFiniteSet(1..batchSeq)
    BY <1>1, FS_Interval
  <1>3. IsFiniteSet(DOMAIN view)
    BY <1>1, <1>2, FS_Subset
  <1> QED
    BY <1>3, ViewDomain DEF Natural

LEMMA LedgerInvBegun ==
    ASSUME TypeOK, Begin
    PROVE  LedgerInv'
  <1>1. /\ view' = batch /\ batch' = batch /\ DOMAIN batch = 1..batchSeq /\ batchSeq \in Nat
        /\ drawn' = [b \in 1..batchSeq |-> 0]
        /\ txPhase' = "row" /\ txRow' = 1 /\ txRows' \in Orders
    BY DEF Begin, TypeOK, StoreTypeOK
  <1>2. SameGoods' /\ Ordered'
    BY <1>1 DEF SameGoods, Ordered
  <1>3. Filled'
    <2> SUFFICES ASSUME NEW p \in Products
                 PROVE  AskedOf(txRows', txRow' - 1, p) = DrawnOf(view', drawn', p)
      BY <1>1 DEF Filled
    <2>1. txRow' - 1 = 0 /\ AskedOf(txRows', 0, p) = 0
      BY <1>1, AskedNothing
    <2>2. IsFiniteSet(DOMAIN view') /\ \A b \in DOMAIN view' : drawn'[b] = 0
      BY <1>1, FS_Interval
    <2>3. DrawnOf(view', drawn', p) = 0
      BY <2>2, DrawnNothing
    <2> QED
      BY <2>1, <2>3
  <1> QED
    BY <1>2, <1>3 DEF LedgerInv

LEMMA LedgerInvRead ==
    ASSUME TypeOK, LedgerInv, ReadProduct
    PROVE  LedgerInv'
  <1>1. /\ txPhase = "row" /\ txPhase' = "draw" /\ txNeed' = txRows[txRow].qty
        /\ UNCHANGED <<batch, txRows, txRow, view, drawn>>
    BY DEF ReadProduct
  <1>2. txRows \in Seq(Row) /\ txRow \in 1..Len(txRows)
    BY <1>1 DEF TypeOK, TxTypeOK
  <1>3. SameGoods' /\ Ordered'
    BY <1>1 DEF LedgerInv, SameGoods, Ordered
  <1>4. Filled'
    <2> SUFFICES ASSUME NEW p \in Products
                 PROVE  AskedOf(txRows, txRow, p) = DrawnOf(view, drawn, p)
                           + IF txRows[txRow].product = p THEN txNeed' ELSE 0
      BY <1>1 DEF Filled
    <2>1. AskedOf(txRows, txRow - 1, p) = DrawnOf(view, drawn, p)
      BY <1>1 DEF LedgerInv, Filled
    <2>2. AskedOf(txRows, txRow, p) = AskedOf(txRows, txRow - 1, p)
             + IF txRows[txRow].product = p THEN txRows[txRow].qty ELSE 0
      BY <1>2, AskedNext
    <2> QED
      BY <1>1, <2>1, <2>2
  <1> QED
    BY <1>3, <1>4 DEF LedgerInv

LEMMA LedgerInvDrawn ==
    ASSUME TypeOK, LedgerInv, Draw
    PROVE  LedgerInv'
  <1>1. PICK b \in Available(txRows[txRow].product) :
           LET take == Lesser(view[b].remaining, txNeed)
           IN  /\ view' = [view EXCEPT ![b] = Less(view[b], take)]
               /\ drawn' = [drawn EXCEPT ![b] = @ + take]
               /\ txNeed' = txNeed - take
    BY DEF Draw
  <1> DEFINE take == Lesser(view[b].remaining, txNeed)
  <1>2. b \in DOMAIN view /\ view[b].product = txRows[txRow].product
    BY <1>1 DEF Available
  <1>3. /\ DOMAIN drawn = DOMAIN view
        /\ \A c \in DOMAIN view : view[c] \in Batch /\ drawn[c] \in Nat
    BY ViewDomain DEF TypeOK, TxTypeOK, ViewTypeOK
  <1>4. take \in Nat /\ txNeed \in Nat /\ txNeed - take \in Nat
    BY <1>2, <1>3 DEF Lesser, Batch, TypeOK, TxTypeOK
  <1>5. /\ DOMAIN view' = DOMAIN view
        /\ \A c \in DOMAIN view \ {b} : view'[c] = view[c] /\ drawn'[c] = drawn[c]
        /\ view'[b] = Less(view[b], take) /\ drawn'[b] = drawn[b] + take
    BY <1>1, <1>2, <1>3
  <1>6. \A c \in DOMAIN view : /\ view'[c].product = view[c].product
                               /\ view'[c].receivedAt = view[c].receivedAt
    BY <1>3, <1>5 DEF Less, Batch
  <1>7. /\ txPhase = "draw" /\ txNeed' = txNeed - take
        /\ UNCHANGED <<batch, txPhase, txRows, txRow>>
    BY <1>1 DEF Draw
  <1>8. SameGoods' /\ Ordered'
    BY <1>5, <1>6, <1>7 DEF LedgerInv, SameGoods, Ordered
  <1> HIDE DEF take
  <1>9. Filled'
    <2> SUFFICES ASSUME NEW p \in Products
                 PROVE  AskedOf(txRows, txRow, p) = DrawnOf(view', drawn', p)
                           + IF txRows[txRow].product = p THEN txNeed' ELSE 0
      BY <1>7 DEF Filled
    <2>1. AskedOf(txRows, txRow, p) = DrawnOf(view, drawn, p)
             + IF txRows[txRow].product = p THEN txNeed ELSE 0
      BY <1>7 DEF LedgerInv, Filled
    <2>2. IsFiniteSet(DOMAIN view) /\ Natural(drawn, DOMAIN view)
      BY ViewFinite
    <2>3. Natural(drawn', DOMAIN view)
      BY <1>2, <1>3, <1>4, <1>5 DEF Natural
    <2>4. OneMore(view, view', drawn, drawn', b, take)
      BY <1>5, <1>6 DEF OneMore
    <2>5. /\ DrawnOf(view, drawn, p) \in Nat
          /\ DrawnOf(view', drawn', p) =
                DrawnOf(view, drawn, p) + IF view[b].product = p THEN take ELSE 0
      <3>1. MoreDrawn(view, view', drawn, drawn', b, take, p)
        BY <1>2, <1>4, <2>2, <2>3, <2>4, DrawnMore
      <3> QED
        BY <3>1 DEF MoreDrawn
    <2>6. CASE txRows[txRow].product = p
      BY <1>2, <1>4, <1>7, <2>1, <2>5, <2>6
    <2>7. CASE txRows[txRow].product # p
      BY <1>2, <2>1, <2>5, <2>7
    <2> QED
      BY <2>6, <2>7
  <1> QED
    BY <1>8, <1>9 DEF LedgerInv

LEMMA LedgerInvSaved ==
    ASSUME TypeOK, LedgerInv, SaveProduct
    PROVE  LedgerInv'
  <1>1. /\ txPhase = "draw" /\ txNeed = 0
        /\ UNCHANGED <<batch, txRows, view, drawn>>
    BY DEF SaveProduct
  <1>2. IF txRow = Len(txRows)
          THEN txPhase' = "commit" /\ txRow' = txRow
          ELSE txPhase' = "row" /\ txRow' = txRow + 1
    BY DEF SaveProduct
  <1>3. txRow \in Nat
    BY <1>1 DEF TypeOK, TxTypeOK
  <1>4. SameGoods' /\ Ordered'
    BY <1>1, <1>2 DEF LedgerInv, SameGoods, Ordered
  <1>5. \A p \in Products : AskedOf(txRows, txRow, p) = DrawnOf(view, drawn, p)
    <2> SUFFICES ASSUME NEW p \in Products
                 PROVE  AskedOf(txRows, txRow, p) = DrawnOf(view, drawn, p)
      OBVIOUS
    <2>1. AskedOf(txRows, txRow, p) = DrawnOf(view, drawn, p)
             + IF txRows[txRow].product = p THEN txNeed ELSE 0
      BY <1>1 DEF LedgerInv, Filled
    <2>2. DrawnOf(view, drawn, p) \in Nat
      <3> DEFINE S == {b \in DOMAIN view : view[b].product = p}
      <3>1. IsFiniteSet(S) /\ Natural(drawn, S)
        BY ViewFinite, FS_Subset DEF Natural
      <3>2. DrawnOf(view, drawn, p) = Ledger!Total(drawn, S)
        BY DEF DrawnOf
      <3> HIDE DEF S
      <3> QED
        BY <3>1, <3>2, TotalNat
    <2> QED
      BY <1>1, <2>1, <2>2
  <1>6. Filled'
    <2>1. txRow' = txRow + 1 => txRow' - 1 = txRow
      BY <1>3
    <2> QED
      BY <1>1, <1>2, <1>5, <2>1 DEF Filled
  <1> QED
    BY <1>4, <1>6 DEF LedgerInv

LEMMA LedgerInvStep ==
    ASSUME TypeOK, LedgerInv, [Next]_vars
    PROVE  LedgerInv'
  <1>1. CASE Begin
    BY <1>1, LedgerInvBegun
  <1>2. CASE ReadProduct
    BY <1>2, LedgerInvRead
  <1>3. CASE Draw
    BY <1>3, LedgerInvDrawn
  <1>4. CASE SaveProduct
    BY <1>4, LedgerInvSaved
  <1>5. CASE OutOfStock \/ Commit \/ Abort
    BY <1>5, LedgerInvClosed DEF OutOfStock, Commit, Abort
  <1>6. CASE ManualBatch \/ (\E w \in Workers : JobStep(w)) \/ UNCHANGED vars
    <2>1. ~Commit => \A b \in DOMAIN view : batch'[b] = batch[b]
      BY OthersLowerNothing
    <2>2. CASE Commit
      BY <2>2, LedgerInvClosed DEF Commit
    <2>3. CASE ~Commit
      <3>1. UNCHANGED <<txPhase, txRows, txRow, txNeed, view, drawn>>
        BY <1>6 DEF ManualBatch, JobStep, ReceiveBatch, AdjustRead, AdjustSave, EditRead,
                    EditSave, UndoRead, UndoSave, Lose, SaveQuantity, vars
      <3> QED
        BY <2>1, <2>3, <3>1, LedgerInvKept
    <2> QED
      BY <2>2, <2>3
  <1> QED
    BY <1>1, <1>2, <1>3, <1>4, <1>5, <1>6 DEF Next, TxStep

----------------------------------------------------------------------------
(* What a step shows of the ledger.                                        *)

LEMMA SeqOf ==
    ASSUME NEW S, NEW n \in Nat, NEW f \in [1..n -> S]
    PROVE  f \in Seq(S) /\ Len(f) = n /\ DOMAIN f = 1..n
  <1>1. f \in Seq(S)
    BY SeqDef
  <1>2. DOMAIN f = 1..n /\ DOMAIN f = 1..Len(f) /\ Len(f) \in Nat
    BY <1>1, LenProperties
  <1> QED
    BY <1>1, <1>2

Numbers(S) == S \subseteq Nat

Topped(S) == \E x \in S : \A y \in S : x >= y

\* The smallest set without a largest number would have one.
LEMMA AllTopped ==
    ASSUME NEW S, Numbers(S), IsFiniteSet(S), S # {}
    PROVE  Topped(S)
  <1> DEFINE C == {T \in SUBSET S : T # {} /\ ~ Topped(T)}
  <1>1. C \in SUBSET SUBSET S /\ (~ Topped(S) => S \in C)
    OBVIOUS
  <1>2. \A T \in C : T \subseteq S /\ T # {} /\ ~ Topped(T)
    OBVIOUS
  <1>3. \A T : T \subseteq S /\ T # {} /\ T \notin C => Topped(T)
    OBVIOUS
  <1> HIDE DEF C
  <1>4. CASE C = {}
    BY <1>1, <1>4
  <1>5. CASE C # {}
    <2>1. \E T \in C : \A U \in C : U \subseteq T => U = T
      <3>1. C \in SUBSET SUBSET S /\ C # {}
        BY <1>1, <1>5
      <3> QED
        BY <3>1, SmallestSet
    <2>2. PICK T \in C : \A U \in C : U \subseteq T => U = T
      BY <2>1
    <2>3. PICK d \in T : TRUE
      BY <1>2
    <2>4. T \ {d} = {} \/ Topped(T \ {d})
      BY <1>2, <1>3, <2>2, <2>3
    <2>5. T \subseteq Nat /\ d \in Nat
      BY <1>2, <2>3 DEF Numbers
    <2>6. CASE T \ {d} = {}
      <3>1. \A y \in T : y = d
        BY <2>6
      <3>2. Topped(T)
        BY <2>3, <2>5, <3>1 DEF Topped
      <3> QED
        BY <1>2, <3>2
    <2>7. CASE Topped(T \ {d})
      <3>1. PICK m \in T \ {d} : \A y \in T \ {d} : m >= y
        BY <2>7 DEF Topped
      <3>2. m \in Nat /\ m \in T /\ \A y \in T : y = d \/ m >= y
        BY <2>5, <3>1
      <3>3. CASE m >= d
        <4>1. \A y \in T : m >= y
          BY <3>2, <3>3
        <4> QED
          BY <1>2, <3>2, <4>1 DEF Topped
      <3>4. CASE ~ (m >= d)
        <4>1. \A y \in T : d >= y
          BY <2>5, <3>2, <3>4
        <4> QED
          BY <1>2, <4>1 DEF Topped
      <3> QED
        BY <3>3, <3>4
    <2> QED
      BY <2>4, <2>6, <2>7
  <1> QED
    BY <1>4, <1>5

\* The largest of finitely many numbers.
LEMMA MaxBounds ==
    ASSUME NEW S, S \subseteq Nat, IsFiniteSet(S), S # {}
    PROVE  Ledger!Max(S) \in S /\ \A x \in S : Ledger!Max(S) >= x
  <1>1. Topped(S)
    BY AllTopped DEF Numbers
  <1> QED
    BY <1>1 DEF Topped, Ledger!Max

Entry == [product : Products, receivedAt : Dates, left : Nat]

LEMMA EntriesAre ==
    ASSUME TypeOK
    PROVE  /\ Entries \in Seq(Entry) /\ Len(Entries) = batchSeq /\ DOMAIN Entries = 1..batchSeq
           /\ batchSeq \in Nat
           /\ \A b \in 1..batchSeq : /\ Entries[b] \in Entry
                                     /\ Entries[b].product = batch[b].product
                                     /\ Entries[b].receivedAt = batch[b].receivedAt
                                     /\ Entries[b].left = batch[b].remaining
  <1>1. batchSeq \in Nat /\ \A b \in 1..batchSeq : batch[b] \in Batch
    BY DEF TypeOK, StoreTypeOK
  <1>2. \A b \in 1..batchSeq : /\ Entries[b] \in Entry
                               /\ Entries[b].product = batch[b].product
                               /\ Entries[b].receivedAt = batch[b].receivedAt
                               /\ Entries[b].left = batch[b].remaining
    BY <1>1 DEF Entries, Entry, Batch
  <1>3. Entries \in [1..batchSeq -> Entry]
    BY <1>2 DEF Entries
  <1> QED
    BY <1>1, <1>2, <1>3, SeqOf

LEMMA IssuesAre ==
    ASSUME TypeOK
    PROVE  /\ Issues \in Seq(Seq(Row)) /\ Len(Issues) = Len(sessions)
           /\ \A s \in 1..Len(sessions) : Issues[s] = sessions[s].rows
  <1>1. Len(sessions) \in Nat /\ \A s \in 1..Len(sessions) : sessions[s] \in Session
    BY LenProperties, ElementOfSeq DEF TypeOK, StoreTypeOK
  <1>2. Issues \in [1..Len(sessions) -> Seq(Row)]
    BY <1>1 DEF Issues, Session
  <1> QED
    BY <1>1, <1>2, SeqOf DEF Issues

\* The same of the state after a step.
LEMMA IssuesNext ==
    ASSUME TypeOK'
    PROVE  /\ Issues' \in Seq(Seq(Row)) /\ Len(Issues') = Len(sessions')
           /\ \A s \in 1..Len(sessions') : Issues'[s] = sessions'[s].rows
  <1>1. Len(sessions') \in Nat /\ \A s \in 1..Len(sessions') : sessions'[s] \in Session
    BY LenProperties, ElementOfSeq DEF TypeOK, StoreTypeOK
  <1>2. Issues' = [s \in 1..Len(sessions') |-> sessions'[s].rows]
    BY DEF Issues
  <1>3. Issues' \in [1..Len(sessions') -> Seq(Row)]
    BY <1>1, <1>2 DEF Session
  <1> QED
    BY <1>1, <1>2, <1>3, SeqOf

LEMMA SameLength ==
    ASSUME NEW m \in Nat, NEW n \in Nat, 1..m = 1..n
    PROVE  m = n
  <1>1. CASE m < n
    <2>1. n \in 1..n /\ n \notin 1..m
      BY <1>1
    <2> QED
      BY <2>1
  <1>2. CASE n < m
    <2>1. m \in 1..m /\ m \notin 1..n
      BY <1>2
    <2> QED
      BY <2>1
  <1> QED
    BY <1>1, <1>2

\* A new batch is a new entry.
LEMMA CreateShows ==
    ASSUME TypeOK, TypeOK', NEW p \in Products, NEW date \in Dates, NEW amount \in Amounts,
           NEW cost \in Costs, CreateBatch(p, date, amount, cost), UNCHANGED sessions
    PROVE  Ledger!Receive
  <1> DEFINE entry == [product |-> p, receivedAt |-> date, left |-> amount]
  <1>1. UNCHANGED Issues
    BY DEF Issues
  <1>2. entry \in Entry
    BY AmountsAssumption DEF Entry
  <1>3. /\ batchSeq \in Nat /\ batchSeq' = batchSeq + 1
        /\ \A b \in 1..batchSeq : batch'[b] = batch[b] /\ b \in 1..batchSeq' /\ b # batchSeq'
        /\ batch'[batchSeq'].product = p
        /\ batch'[batchSeq'].receivedAt = date
        /\ batch'[batchSeq'].remaining = amount
        /\ \A b \in 1..batchSeq' : b = batchSeq' \/ b \in 1..batchSeq
        /\ batchSeq' \in 1..batchSeq'
    BY DEF CreateBatch, TypeOK, StoreTypeOK
  <1>4. /\ Entries' = [b \in 1..batchSeq' |-> [product |-> batch'[b].product,
                                              receivedAt |-> batch'[b].receivedAt,
                                              left |-> batch'[b].remaining]]
    BY DEF Entries
  <1>5. \A b \in 1..batchSeq : Entries'[b] = Entries[b]
    BY <1>3, <1>4 DEF Entries
  <1>6. Entries'[batchSeq'] = entry
    BY <1>3, <1>4
  <1>7. Entries \in Seq(Entry) /\ Len(Entries) = batchSeq
    BY EntriesAre
  <1>8. Entries' \in Seq(Entry) /\ Len(Entries') = batchSeq'
    <2>1. \A b \in 1..batchSeq' : Entries'[b] \in Entry
      <3>1. \A b \in 1..batchSeq : Entries[b] \in Entry
        BY EntriesAre
      <3> QED
        BY <1>2, <1>3, <1>5, <1>6, <3>1
    <2>2. Entries' \in [1..batchSeq' -> Entry]
      BY <1>4, <2>1
    <2>3. batchSeq' \in Nat
      BY <1>3
    <2> QED
      BY <2>2, <2>3, SeqOf
  <1> HIDE DEF entry
  <1>9. Entries' = Append(Entries, entry)
    <2> DEFINE more == Append(Entries, entry)
    <2>1. /\ more \in Seq(Entry) /\ Len(more) = batchSeq'
          /\ \A b \in 1..batchSeq : more[b] = Entries[b]
          /\ more[batchSeq'] = entry
      BY <1>2, <1>3, <1>7, AppendProperties
    <2> HIDE DEF more
    <2>2. \A b \in 1..Len(Entries') : Entries'[b] = more[b]
      BY <1>3, <1>5, <1>6, <1>8, <2>1
    <2>3. Entries' = more
      BY <1>8, <2>1, <2>2, SeqEqual
    <2> QED
      BY <2>3 DEF more
  <1> QED
    BY <1>1, <1>9 DEF Ledger!Receive, entry

\* A commit shows a session issued: in full, from the batches its view held,
\* and from none with stock in an older one.
LEMMA CommitFills ==
    ASSUME TypeOK, ViewConserved, OrderInv, LedgerInv, txPhase = "commit",
           NEW n \in 0..batchSeq, DOMAIN view = 1..n
    PROVE  /\ Ledger!Fills(drawn, n, txRows)
           /\ \A b \in 1..n : drawn[b] \in Nat /\ drawn[b] <= Entries[b].left
  <1>1. /\ batchSeq \in Nat /\ 1..n \subseteq 1..batchSeq
        /\ \A b \in 1..n : /\ view[b] \in Batch /\ drawn[b] \in Nat
                           /\ batch[b] \in Batch
    BY ViewDomain DEF TypeOK, StoreTypeOK
  <1>2. \A b \in 1..n : /\ Entries[b].product = batch[b].product
                        /\ Entries[b].receivedAt = batch[b].receivedAt
                        /\ Entries[b].left = batch[b].remaining
    BY <1>1, EntriesAre
  <1>3. \A b \in 1..n : /\ view[b].remaining + drawn[b] = batch[b].remaining
                        /\ view[b].remaining \in Nat /\ batch[b].remaining \in Nat
    <2>1. \A b \in 1..n : BatchDoc(b) \notin touched
      BY <1>1 DEF OrderInv, OnlyProductsTouched
    <2> QED
      BY <1>1, <2>1 DEF ViewConserved, Batch
  <1>4. \A b \in 1..n : /\ view[b].product = batch[b].product
                        /\ view[b].receivedAt = batch[b].receivedAt
    BY DEF LedgerInv, SameGoods
  <1>5. ASSUME NEW p \in Products
        PROVE  Ledger!Asked(txRows, p) =
                 Ledger!Total(drawn, {b \in 1..n : Entries[b].product = p})
    <2>1. txRows \in Seq(Row) /\ txRow = Len(txRows)
      BY DEF TypeOK, TxTypeOK, LedgerInv, Ordered
    <2>2. AskedOf(txRows, txRow, p) = DrawnOf(view, drawn, p)
      BY DEF LedgerInv, Filled
    <2>3. Ledger!Asked(txRows, p) = AskedOf(txRows, txRow, p)
      BY <2>1, AskedAll
    <2>4. {b \in 1..n : Entries[b].product = p} = {b \in DOMAIN view : view[b].product = p}
      BY <1>2, <1>4
    <2> QED
      BY <2>2, <2>3, <2>4 DEF DrawnOf
  <1>6. ASSUME NEW a \in 1..n, NEW b \in 1..n, Entries[a].product = Entries[b].product,
               Ledger!Before(a, b), drawn[b] > 0
        PROVE  drawn[a] = Entries[a].left
    <2>1. view[a].product = view[b].product
      BY <1>2, <1>4, <1>6
    <2>2. Older(a, b)
      BY <1>2, <1>4, <1>6 DEF Ledger!Before, Older
    <2>3. view[a].remaining = 0
      BY <1>6, <2>1, <2>2 DEF OrderInv, DrawnInOrder
    <2> QED
      BY <1>1, <1>2, <1>3, <2>3
  <1>7. Ledger!Fills(drawn, n, txRows)
    BY <1>5, <1>6 DEF Ledger!Fills
  <1>8. \A b \in 1..n : drawn[b] \in Nat /\ drawn[b] <= Entries[b].left
    BY <1>1, <1>2, <1>3
  <1> QED
    BY <1>7, <1>8

LEMMA CommitLeaves ==
    ASSUME TypeOK, ViewConserved, OrderInv, LedgerInv, Commit,
           NEW n \in 0..batchSeq, DOMAIN view = 1..n
    PROVE  Entries' = [b \in DOMAIN Entries |->
                         IF b <= n THEN [Entries[b] EXCEPT !.left = @ - drawn[b]] ELSE Entries[b]]
  <1> DEFINE less == [b \in DOMAIN Entries |->
                        IF b <= n THEN [Entries[b] EXCEPT !.left = @ - drawn[b]] ELSE Entries[b]]
  <1>1. /\ batchSeq \in Nat /\ 1..n \subseteq 1..batchSeq /\ n \in Nat
        /\ batchSeq' = batchSeq /\ DOMAIN Entries = 1..batchSeq
        /\ \A b \in 1..batchSeq : batch[b] \in Batch
        /\ \A b \in 1..n : view[b] \in Batch /\ drawn[b] \in Nat
    <2>1. batchSeq' = batchSeq
      BY DEF Commit
    <2>2. batchSeq \in Nat /\ DOMAIN Entries = 1..batchSeq
      BY EntriesAre
    <2>3. \A b \in 1..batchSeq : batch[b] \in Batch
      BY DEF TypeOK, StoreTypeOK
    <2>4. \A b \in 1..n : view[b] \in Batch /\ drawn[b] \in Nat
      BY ViewDomain
    <2> QED
      BY <2>1, <2>2, <2>3, <2>4
  <1>2. Entries' = [b \in 1..batchSeq |-> [product |-> batch'[b].product,
                                           receivedAt |-> batch'[b].receivedAt,
                                           left |-> batch'[b].remaining]]
    BY <1>1 DEF Entries
  <1>3. ASSUME NEW b \in 1..batchSeq
        PROVE  Entries'[b] = less[b]
    <2>1. /\ Entries'[b] = [product |-> batch'[b].product,
                            receivedAt |-> batch'[b].receivedAt,
                            left |-> batch'[b].remaining]
          /\ Entries[b] = [product |-> batch[b].product,
                           receivedAt |-> batch[b].receivedAt,
                           left |-> batch[b].remaining]
      BY <1>2 DEF Entries
    <2>2. batch'[b] = IF BatchDoc(b) \in wrote THEN view[b] ELSE batch[b]
      BY DEF Commit
    <2>3. CASE b <= n
      <3>1. b \in 1..n /\ BatchDoc(b) \notin touched
        BY <1>1, <2>3 DEF OrderInv, OnlyProductsTouched
      <3>2. /\ view[b].remaining + drawn[b] = batch[b].remaining
            /\ view[b].product = batch[b].product
            /\ view[b].receivedAt = batch[b].receivedAt
            /\ view[b].remaining \in Nat /\ drawn[b] \in Nat /\ batch[b].remaining \in Nat
        BY <1>1, <3>1 DEF ViewConserved, LedgerInv, SameGoods, Batch
      <3>3. BatchDoc(b) \notin wrote => drawn[b] = 0
        BY <3>1, <3>2 DEF OrderInv, DrawnIsWritten
      <3>4. /\ batch'[b].product = batch[b].product
            /\ batch'[b].receivedAt = batch[b].receivedAt
            /\ batch'[b].remaining = batch[b].remaining - drawn[b]
        BY <2>2, <3>2, <3>3
      <3>5. less[b] = [Entries[b] EXCEPT !.left = @ - drawn[b]]
        BY <1>1, <2>3
      <3>6. less[b] = [product |-> batch[b].product,
                       receivedAt |-> batch[b].receivedAt,
                       left |-> batch[b].remaining - drawn[b]]
        BY <2>1, <3>5
      <3> QED
        BY <2>1, <3>4, <3>6
    <2>4. CASE ~ (b <= n)
      <3>1. BatchDoc(b) \notin wrote
        BY <1>1, <2>4, ViewDomain
      <3> QED
        BY <1>1, <2>1, <2>2, <2>4, <3>1
    <2> QED
      BY <2>3, <2>4
  <1>4. DOMAIN less = 1..batchSeq /\ less = [b \in 1..batchSeq |-> less[b]]
    BY <1>1
  <1>5. Entries' = [b \in 1..batchSeq |-> Entries'[b]]
    BY <1>2
  <1> HIDE DEF less
  <1>6. Entries' = less
    BY <1>3, <1>4, <1>5
  <1> QED
    BY <1>6 DEF less

LEMMA CommitShows ==
    ASSUME TypeOK, TypeOK', ViewConserved, OrderInv, LedgerInv, Commit
    PROVE  Ledger!Issue
  <1>1. PICK n \in 0..batchSeq : view \in [1..n -> Batch] /\ drawn \in [1..n -> Nat]
    BY DEF TypeOK, TxTypeOK, ViewTypeOK
  <1>2. /\ txPhase = "commit" /\ txRows \in Orders /\ DOMAIN view = 1..n
        /\ batchSeq \in Nat /\ n \in Nat
    BY <1>1 DEF Commit, LedgerInv, Ordered, TypeOK, StoreTypeOK
  <1>3. Issues' = Append(Issues, txRows)
    <2> DEFINE done == [rows |-> txRows, status |-> "active", undoneRows |-> {}]
    <2>1. /\ sessions \in Seq(Session) /\ done \in Session /\ txRows \in Seq(Row)
          /\ sessions' = Append(sessions, done) /\ done.rows = txRows
      BY DEF TypeOK, StoreTypeOK, TxTypeOK, Session, Commit
    <2> HIDE DEF done
    <2>2. /\ Len(sessions') = Len(sessions) + 1 /\ Len(sessions) \in Nat
          /\ \A s \in 1..Len(sessions) : sessions'[s] = sessions[s]
          /\ sessions'[Len(sessions) + 1] = done
      BY <2>1, AppendProperties, LenProperties
    <2> DEFINE more == Append(Issues, txRows)
    <2>3. /\ Issues \in Seq(Seq(Row)) /\ Len(Issues) = Len(sessions)
          /\ \A s \in 1..Len(sessions) : Issues[s] = sessions[s].rows
      BY IssuesAre
    <2>4. /\ more \in Seq(Seq(Row)) /\ Len(more) = Len(sessions) + 1
          /\ \A s \in 1..Len(sessions) : more[s] = Issues[s]
          /\ more[Len(sessions) + 1] = txRows
      BY <2>1, <2>3, AppendProperties
    <2> HIDE DEF more
    <2>5. /\ Issues' \in Seq(Seq(Row)) /\ Len(Issues') = Len(sessions')
          /\ \A s \in 1..Len(sessions') : Issues'[s] = sessions'[s].rows
      BY IssuesNext
    <2>6. \A s \in 1..Len(Issues') : Issues'[s] = more[s]
      <3> SUFFICES ASSUME NEW s \in 1..Len(Issues') PROVE Issues'[s] = more[s]
        OBVIOUS
      <3>1. s \in 1..Len(sessions) \/ s = Len(sessions) + 1
        BY <2>2, <2>5
      <3>2. Issues'[s] = sessions'[s].rows
        BY <2>5
      <3>3. CASE s \in 1..Len(sessions)
        BY <2>2, <2>3, <2>4, <3>2, <3>3
      <3>4. CASE s = Len(sessions) + 1
        BY <2>1, <2>2, <2>4, <3>2, <3>4
      <3> QED
        BY <3>1, <3>3, <3>4
    <2>7. Issues' = more
      BY <2>2, <2>4, <2>5, <2>6, SeqEqual
    <2> QED
      BY <2>7 DEF more
  <1>4. /\ Ledger!Fills(drawn, n, txRows)
        /\ \A b \in 1..n : drawn[b] \in Nat /\ drawn[b] <= Entries[b].left
    BY <1>2, CommitFills
  <1>5. Entries' = [b \in DOMAIN Entries |->
                      IF b <= n THEN [Entries[b] EXCEPT !.left = @ - drawn[b]] ELSE Entries[b]]
    BY <1>2, CommitLeaves
  <1> DEFINE lefts == {0} \union {Entries[b].left : b \in 1..n}
  <1>6. drawn \in [1..n -> 0..Ledger!Max(lefts)]
    <2>1. \A b \in 1..n : Entries[b].left \in Nat
      BY <1>2, EntriesAre DEF Entry
    <2>2. lefts \in SUBSET Nat /\ lefts # {} /\ \A b \in 1..n : Entries[b].left \in lefts
      BY <2>1
    <2>3. IsFiniteSet(lefts)
      <3> DEFINE ofBatch == {Entries[b].left : b \in 1..n}
                 left == [b \in 1..n |-> Entries[b].left]
      <3>1. IsFiniteSet(1..n)
        BY <1>2, FS_Interval
      <3>2. left \in Surjection(1..n, ofBatch)
        BY DEF Surjection
      <3>3. IsFiniteSet(ofBatch)
        <4> HIDE DEF ofBatch, left
        <4> QED
          BY <3>1, <3>2, FS_Surjection
      <3>4. IsFiniteSet(ofBatch \union {0})
        <4> HIDE DEF ofBatch
        <4> QED
          BY <3>3, FS_AddElement
      <3>5. lefts = ofBatch \union {0}
        OBVIOUS
      <3> QED
        BY <3>4, <3>5
    <2> HIDE DEF lefts
    <2>4. Ledger!Max(lefts) \in Nat /\ \A x \in lefts : Ledger!Max(lefts) >= x
      BY <2>2, <2>3, MaxBounds
    <2>5. \A b \in 1..n : drawn[b] \in 0..Ledger!Max(lefts)
      BY <1>4, <2>1, <2>2, <2>4
    <2> QED
      BY <1>1, <2>5
  <1>7. n \in 0..Len(Entries)
    BY EntriesAre
  <1> QED
    BY <1>2, <1>3, <1>4, <1>5, <1>6, <1>7 DEF Ledger!Issue

\* Undoing a session leaves its rows, and so the ledger, as they are: the goods
\* do not come back.
LEMMA UndoShowsNothing ==
    ASSUME TypeOK, TypeOK', NEW w \in Workers, UndoSave(w)
    PROVE  UNCHANGED <<Entries, Issues>>
  <1>1. UNCHANGED Entries
    BY DEF UndoSave, Entries
  <1>2. /\ Issues \in Seq(Seq(Row)) /\ Issues' \in Seq(Seq(Row))
        /\ Len(Issues) = Len(sessions) /\ Len(Issues') = Len(sessions')
        /\ \A s \in 1..Len(sessions) : Issues[s] = sessions[s].rows
        /\ \A s \in 1..Len(sessions') : Issues'[s] = sessions'[s].rows
    BY IssuesAre, IssuesNext
  <1>3. /\ sessions \in Seq(Session) /\ sessions' \in Seq(Session)
        /\ Len(sessions) \in Nat /\ Len(sessions') \in Nat
        /\ DOMAIN sessions = 1..Len(sessions) /\ DOMAIN sessions' = 1..Len(sessions')
    BY LenProperties DEF TypeOK, StoreTypeOK
  <1>4. DOMAIN sessions' = DOMAIN sessions
    BY DEF UndoSave
  <1>5. Len(sessions') = Len(sessions)
    <2>1. 1..Len(sessions') = 1..Len(sessions)
      BY <1>3, <1>4
    <2> QED
      BY <1>3, <2>1, SameLength
  <1>6. \A s \in 1..Len(sessions) : sessions[s] \in Session
    BY <1>3, ElementOfSeq
  <1>7. \A s \in 1..Len(sessions) : sessions'[s].rows = sessions[s].rows
    BY <1>3, <1>6 DEF UndoSave, Session
  <1>8. \A s \in 1..Len(Issues) : Issues'[s] = Issues[s]
    BY <1>2, <1>5, <1>7
  <1>9. Issues' = Issues
    BY <1>2, <1>5, <1>8, SeqEqual
  <1> QED
    BY <1>1, <1>9

\* What the ledger shows of a step: a batch received, a session issued, or
\* nothing at all.
LEMMA StepShows ==
    ASSUME TypeOK, TypeOK', ViewConserved, OrderInv, LedgerInv, [Next]_vars
    PROVE  [Ledger!Next]_<<Entries, Issues>>
  <1>1. CASE Commit
    BY <1>1, CommitShows DEF Ledger!Next
  <1>2. CASE ManualBatch
    BY <1>2, CreateShows DEF ManualBatch, Ledger!Next
  <1>3. ASSUME NEW w \in Workers, ReceiveBatch(w)
        PROVE  Ledger!Next
    BY <1>3, CreateShows DEF ReceiveBatch, Ledger!Next
  <1>4. ASSUME NEW w \in Workers, UndoSave(w)
        PROVE  UNCHANGED <<Entries, Issues>>
    BY <1>4, UndoShowsNothing
  <1>5. ASSUME UNCHANGED <<batchSeq, batch, sessions>>
        PROVE  UNCHANGED <<Entries, Issues>>
    BY <1>5 DEF Entries, Issues
  <1>6. ASSUME NEW w \in Workers,
               AdjustRead(w) \/ AdjustSave(w) \/ EditRead(w) \/ EditSave(w)
                 \/ UndoRead(w) \/ Lose(w)
        PROVE  UNCHANGED <<Entries, Issues>>
    BY <1>5, <1>6 DEF AdjustRead, AdjustSave, EditRead, EditSave, UndoRead, Lose,
                      SaveQuantity, stockVars
  <1>7. CASE Begin \/ ReadProduct \/ Draw \/ OutOfStock \/ SaveProduct \/ Abort
    BY <1>5, <1>7 DEF Begin, ReadProduct, Draw, OutOfStock, SaveProduct, Abort, stockVars
  <1>8. CASE UNCHANGED vars
    BY <1>5, <1>8 DEF vars, stockVars
  <1> HIDE DEF Entries, Issues
  <1> QED
    BY <1>1, <1>2, <1>3, <1>4, <1>6, <1>7, <1>8 DEF Next, TxStep, JobStep

\* createSession, with its snapshot, its loops over rows and batches, the saves
\* of other requests between its turns, its aborts and its retries, does what
\* StockLedger promises: a session is issued at one moment, in full, from the
\* oldest batches it could see, or not at all.
THEOREM SessionsAreAtomic == Spec => ImplementsLedger
  <1> DEFINE FInv == IInv /\ OrderInv /\ LedgerInv
             Shows == [Ledger!Next]_<<Entries, Issues>>
  <1>1. Init => FInv
    BY InitIInv DEF Init, OrderInv, OnlyProductsTouched, DrawnIsWritten, DrawnInOrder,
                    LedgerInv, SameGoods, Ordered, Filled
  <1>2. FInv /\ [Next]_vars => FInv'
    BY TypeStep, BalanceStep, OrderStep, LedgerInvStep DEF IInv, Balanced
  <1>3. Init => Ledger!Init
    <2> SUFFICES ASSUME Init PROVE Entries = << >> /\ Issues = << >>
      BY DEF Ledger!Init
    <2>1. TypeOK
      BY InitIInv DEF IInv
    <2>2. batchSeq = 0 /\ Len(sessions) = 0
      BY DEF Init
    <2> QED
      BY <2>1, <2>2, EntriesAre, IssuesAre, EmptySeq
  <1>4. FInv /\ FInv' /\ [Next]_vars => Shows
    BY StepShows DEF IInv
  <1> HIDE DEF FInv, Shows
  <1>5. Spec => [][Shows]_<<Entries, Issues>>
    BY <1>1, <1>2, <1>4, PTL DEF Spec
  <1> QED
    BY <1>3, <1>5, PTL DEF Spec, ImplementsLedger, Ledger!Spec, Shows

----------------------------------------------------------------------------
(* ReceiptBridge: types.                                                   *)

\* What a request keeps, when there are n batches.
CallOK(c, n) ==
    \E B \in SUBSET (1..n) :
        /\ c \in Call(B)
        /\ \/ c.kind = "approve" /\ c.at \in {"recost", "rows", "row"}
           \/ c.kind = "remove" /\ c.at \in {"adjust", "save"}
           => B # {}

CallsOK == DOMAIN call = Workers /\ \A w \in Workers : CallOK(call[w], batchSeq)

\* The documents of the bridge, but for those of FifoStock and the requests.
DocsOK ==
    /\ origin \in Seq(Origin) /\ Len(origin) = batchSeq
    /\ reconciled \in Seq(BOOLEAN) /\ Len(reconciled) = batchSeq
    /\ note \in [Notes -> {"open", "removed"}]
    /\ invoice \in [Invoices -> {"pending", "completed", "deleted"}]
    /\ priced \in [Invoices -> BOOLEAN]
    /\ cutShort \subseteq 1..batchSeq
    /\ lost \subseteq Watched

LEMMA BridgeTypes == BridgeTypeOK <=> TypeOK /\ DocsOK /\ CallsOK
  BY DEF BridgeTypeOK, DocsOK, CallsOK, CallTypeOK, CallOK

\* A delivery holds no copies of batches.
DeliverSet ==
    [kind : {"deliver"}, at : {"invoices", "lines", "check", "create"}, note : Notes,
     invoices : SUBSET Invoices]

LEMMA CallKinds ==
    ASSUME NEW B, NEW c \in Call(B)
    PROVE  /\ c.kind = "deliver" => c \in DeliverSet
           /\ c.kind = "approve" =>
                c \in [kind : {"approve"}, at : Approval, invoice : Invoices, copies : [B -> Copy],
                       rows : Seq(Nat)]
           /\ c.kind = "remove" =>
                c \in [kind : {"remove"}, at : Removal, note : Notes, copies : [B -> Copy]]
           /\ c.kind = "bootstrap" =>
                c \in [kind : {"bootstrap"}, at : {"check", "create"}, product : Products,
                       copy : Nat]
  BY DEF Call, NoCall, DeliverSet

\* One request, at most, goes on; batches may be added.
LEMMA CallsKept ==
    ASSUME CallsOK, batchSeq \in Nat, batchSeq' \in Nat, batchSeq' >= batchSeq,
           NEW w \in Workers, NEW c, CallOK(c, batchSeq'), call' = [call EXCEPT ![w] = c]
    PROVE  CallsOK'
  <1>1. 1..batchSeq \subseteq 1..batchSeq'
    OBVIOUS
  <1>2. \A d : CallOK(d, batchSeq) => CallOK(d, batchSeq')
    BY <1>1 DEF CallOK
  <1>3. DOMAIN call' = Workers /\ call'[w] = c
        /\ \A v \in Workers \ {w} : call'[v] = call[v]
    BY DEF CallsOK
  <1>4. \A v \in Workers : CallOK(call'[v], batchSeq')
    BY <1>2, <1>3 DEF CallsOK
  <1> QED
    BY <1>3, <1>4 DEF CallsOK

LEMMA NoCallOK ==
    ASSUME NEW n \in Nat
    PROVE  CallOK(NoCall, n)
  <1>1. NoCall \in Call({}) /\ NoCall.kind = "none"
    BY DEF NoCall, Call
  <1> QED
    BY <1>1 DEF CallOK

\* A request goes on to its next await: the batches it holds stay.
LEMMA GoOn ==
    ASSUME NEW c, NEW n \in Nat, CallOK(c, n), NEW at,
           \/ c.kind = "deliver" /\ at \in {"invoices", "lines", "check", "create"}
           \/ c.kind = "approve" /\ at \in {"price", "find", "purchase", "complete"}
           \/ c.kind = "approve" /\ c.at \in {"recost", "rows", "row"} /\ at \in {"rows", "row"}
           \/ c.kind = "remove" /\ at = "find"
           \/ c.kind = "remove" /\ c.at \in {"adjust", "save"} /\ at = "save"
           \/ c.kind = "bootstrap" /\ at \in {"check", "create"}
    PROVE  CallOK([c EXCEPT !.at = at], n)
  <1>1. PICK B \in SUBSET (1..n) :
          /\ c \in Call(B)
          /\ \/ c.kind = "approve" /\ c.at \in {"recost", "rows", "row"}
             \/ c.kind = "remove" /\ c.at \in {"adjust", "save"}
             => B # {}
    BY DEF CallOK
  <1> DEFINE d == [c EXCEPT !.at = at]
  <1>2. CASE c.kind = "deliver"
    <2>1. c \in DeliverSet
      BY <1>1, <1>2, CallKinds
    <2>2. d \in Call(B) /\ d.kind = "deliver"
      BY <1>2, <2>1 DEF Call, DeliverSet
    <2> QED
      BY <2>2 DEF CallOK
  <1>3. CASE c.kind = "approve"
    <2>1. c \in [kind : {"approve"}, at : Approval, invoice : Invoices, copies : [B -> Copy],
                 rows : Seq(Nat)]
      BY <1>1, <1>3, CallKinds
    <2>2. d \in Call(B) /\ d.kind = "approve" /\ d.at = at
      BY <1>3, <2>1 DEF Call, Approval
    <2>3. at \in {"recost", "rows", "row"} => B # {}
      BY <1>1, <1>3
    <2> HIDE DEF d
    <2>4. CallOK(d, n)
      BY <2>2, <2>3 DEF CallOK
    <2> QED
      BY <2>4 DEF d
  <1>4. CASE c.kind = "remove"
    <2>1. c \in [kind : {"remove"}, at : Removal, note : Notes, copies : [B -> Copy]]
      BY <1>1, <1>4, CallKinds
    <2>2. d \in Call(B) /\ d.kind = "remove" /\ d.at = at
      BY <1>4, <2>1 DEF Call, Removal
    <2>3. at \in {"adjust", "save"} => B # {}
      BY <1>1, <1>4
    <2> HIDE DEF d
    <2>4. CallOK(d, n)
      BY <2>2, <2>3 DEF CallOK
    <2> QED
      BY <2>4 DEF d
  <1>5. CASE c.kind = "bootstrap"
    <2>1. c \in [kind : {"bootstrap"}, at : {"check", "create"}, product : Products, copy : Nat]
      BY <1>1, <1>5, CallKinds
    <2>2. d \in Call(B) /\ d.kind = "bootstrap"
      BY <1>5, <2>1 DEF Call
    <2> QED
      BY <2>2 DEF CallOK
  <1> QED
    BY <1>2, <1>3, <1>4, <1>5

\* Of finitely many copies one is the oldest.
HasOldest(copies, S) ==
    \E b \in S : \A c \in S \ {b} :
        \/ copies[b].doc.receivedAt < copies[c].doc.receivedAt
        \/ copies[b].doc.receivedAt = copies[c].doc.receivedAt /\ b < c

Dated(copies, S) == \A b \in S : b \in Nat /\ copies[b].doc.receivedAt \in Nat

LEMMA OneIsOldest ==
    ASSUME NEW copies, NEW S, Dated(copies, S), IsFiniteSet(S), S # {}
    PROVE  HasOldest(copies, S)
  <1> DEFINE C == {T \in SUBSET S : T # {} /\ ~ HasOldest(copies, T)}
  <1>1. C \in SUBSET SUBSET S /\ (~ HasOldest(copies, S) => S \in C)
    OBVIOUS
  <1>2. \A T \in C : T \subseteq S /\ T # {} /\ ~ HasOldest(copies, T)
    OBVIOUS
  <1>3. \A T : T \subseteq S /\ T # {} /\ T \notin C => HasOldest(copies, T)
    OBVIOUS
  <1> HIDE DEF C
  <1>4. CASE C = {}
    BY <1>1, <1>4
  <1>5. CASE C # {}
    <2>1. \E T \in C : \A U \in C : U \subseteq T => U = T
      <3>1. C \in SUBSET SUBSET S /\ C # {}
        BY <1>1, <1>5
      <3> QED
        BY <3>1, SmallestSet
    <2>2. PICK T \in C : \A U \in C : U \subseteq T => U = T
      BY <2>1
    <2>3. PICK d \in T : TRUE
      BY <1>2
    <2>4. T \ {d} = {} \/ HasOldest(copies, T \ {d})
      BY <1>2, <1>3, <2>2, <2>3
    <2>5. \A b \in T : b \in Nat /\ copies[b].doc.receivedAt \in Nat
      BY <1>2 DEF Dated
    <2>6. CASE T \ {d} = {}
      <3>1. HasOldest(copies, T)
        BY <2>3, <2>6 DEF HasOldest
      <3> QED
        BY <1>2, <3>1
    <2>7. CASE HasOldest(copies, T \ {d})
      <3>1. PICK b \in T \ {d} : \A c \in (T \ {d}) \ {b} :
               \/ copies[b].doc.receivedAt < copies[c].doc.receivedAt
               \/ copies[b].doc.receivedAt = copies[c].doc.receivedAt /\ b < c
        BY <2>7 DEF HasOldest
      <3>2. CASE \/ copies[b].doc.receivedAt < copies[d].doc.receivedAt
                 \/ copies[b].doc.receivedAt = copies[d].doc.receivedAt /\ b < d
        <4>1. HasOldest(copies, T)
          BY <3>1, <3>2 DEF HasOldest
        <4> QED
          BY <1>2, <4>1
      <3>3. CASE \/ copies[d].doc.receivedAt < copies[b].doc.receivedAt
                 \/ copies[d].doc.receivedAt = copies[b].doc.receivedAt /\ d < b
        <4>1. \A c \in T \ {d} :
                 \/ copies[d].doc.receivedAt < copies[c].doc.receivedAt
                 \/ copies[d].doc.receivedAt = copies[c].doc.receivedAt /\ d < c
          <5> SUFFICES ASSUME NEW c \in T \ {d}
                       PROVE  \/ copies[d].doc.receivedAt < copies[c].doc.receivedAt
                              \/ copies[d].doc.receivedAt = copies[c].doc.receivedAt /\ d < c
            OBVIOUS
          <5>1. CASE c = b
            BY <3>3, <5>1
          <5>2. CASE c # b
            BY <2>3, <2>5, <3>1, <3>3, <5>2
          <5> QED
            BY <5>1, <5>2
        <4>2. HasOldest(copies, T)
          BY <2>3, <4>1 DEF HasOldest
        <4> QED
          BY <1>2, <4>2
      <3> QED
        BY <2>3, <2>5, <3>1, <3>2, <3>3
    <2> QED
      BY <2>4, <2>6, <2>7
  <1> QED
    BY <1>4, <1>5

LEMMA OldestHeld ==
    ASSUME NEW n \in Nat, NEW B \in SUBSET (1..n), B # {}, NEW copies \in [B -> Copy]
    PROVE  Oldest(copies) \in B
  <1>1. IsFiniteSet(B)
    <2>1. IsFiniteSet(1..n)
      BY FS_Interval
    <2> QED
      BY <2>1, FS_Subset
  <1>2. DOMAIN copies = B /\ Dated(copies, B)
    <2>1. \A b \in B : b \in Nat /\ copies[b] \in Copy
      OBVIOUS
    <2>2. \A x \in Copy : x.doc \in Batch
      BY DEF Copy
    <2>3. \A x \in Batch : x.receivedAt \in Nat
      BY DatesAssumption DEF Batch
    <2> QED
      BY <2>1, <2>2, <2>3 DEF Dated
  <1>3. HasOldest(copies, B)
    BY <1>1, <1>2, OneIsOldest
  <1>4. \E b \in DOMAIN copies : \A c \in DOMAIN copies \ {b} :
            \/ copies[b].doc.receivedAt < copies[c].doc.receivedAt
            \/ copies[b].doc.receivedAt = copies[c].doc.receivedAt /\ b < c
    BY <1>2, <1>3 DEF HasOldest
  <1> QED
    BY <1>2, <1>4 DEF Oldest

\* What a read returns is well typed.
LEMMA CopiesTyped ==
    ASSUME TypeOK, DocsOK, NEW B \in SUBSET (1..batchSeq)
    PROVE  Copies(B) \in [B -> Copy]
  <1>1. \A b \in 1..batchSeq : batch[b] \in Batch
    BY DEF TypeOK, StoreTypeOK
  <1>2. \A b \in 1..batchSeq : reconciled[b] \in BOOLEAN
    <2>1. \A b \in 1..Len(reconciled) : reconciled[b] \in BOOLEAN
      BY ElementOfSeq DEF DocsOK
    <2> QED
      BY <2>1 DEF DocsOK
  <1> QED
    BY <1>1, <1>2 DEF Copies, Copy

\* The two that name no batch: nothing bridge-side is disturbed but the calls.
LEMMA EmptyCopies == << >> \in [{} -> Copy]
  <1>1. << >> \in Seq(Copy) /\ Len(<< >>) = 0
    BY EmptySeq
  <1>2. \E n \in Nat : << >> \in [1..n -> Copy]
    BY <1>1, SeqDef
  <1>3. PICK n \in Nat : << >> \in [1..n -> Copy]
    BY <1>2
  <1>4. 1..n = {}
    BY <1>3
  <1> QED
    BY <1>3, <1>4

\* A step that leaves documents and transaction alone keeps their types.
LEMMA SameStock ==
    ASSUME TypeOK, UNCHANGED <<stockVars, txVars>>, job' \in [Workers -> Job]
    PROVE  TypeOK'
  <1>1. StoreTypeOK'
    BY DEF TypeOK, StoreTypeOK
  <1>2. TxTypeOK'
    <2>1. batchSeq' \in Nat /\ batchSeq' >= batchSeq
      BY DEF TypeOK, StoreTypeOK
    <2> QED
      BY <2>1, TxVarsType DEF TypeOK
  <1> QED
    BY <1>1, <1>2 DEF TypeOK

LEMMA ReceiveTypes ==
    ASSUME TypeOK, DocsOK, NEW p \in Products, NEW date \in Dates, NEW amount \in Nat,
           NEW cost \in Costs, NEW source \in Origin, Receive(p, date, amount, cost, source),
           job' \in [Workers -> Job]
    PROVE  TypeOK' /\ DocsOK' /\ batchSeq' = batchSeq + 1
  <1>1. amount \in Nat \ {0} /\ CreateBatch(p, date, amount, cost)
    BY DEF Receive, CreateBatch
  <1>2. StoreTypeOK' /\ batchSeq' = batchSeq + 1
    BY <1>1, CreateBatchType DEF Receive, TypeOK, StoreTypeOK
  <1>3. TxTypeOK'
    <2>1. batchSeq' \in Nat /\ batchSeq' >= batchSeq
      BY <1>2 DEF TypeOK, StoreTypeOK
    <2> QED
      BY <2>1, TxVarsType DEF Receive, TypeOK
  <1>4. DocsOK'
    <2>1. origin' \in Seq(Origin) /\ Len(origin') = batchSeq'
      BY <1>2, AppendProperties DEF DocsOK, Receive
    <2>2. reconciled' \in Seq(BOOLEAN) /\ Len(reconciled') = batchSeq'
      BY <1>2, AppendProperties DEF DocsOK, Receive
    <2>3. 1..batchSeq \subseteq 1..batchSeq'
      BY <1>2 DEF TypeOK, StoreTypeOK
    <2> QED
      BY <2>1, <2>2, <2>3 DEF DocsOK, Receive
  <1> QED
    BY <1>2, <1>3, <1>4 DEF TypeOK

LEMMA SaveBatchTypes ==
    ASSUME TypeOK, DocsOK, NEW b \in 1..batchSeq, NEW copy \in Copy, SaveBatch(b, copy)
    PROVE  TypeOK' /\ DocsOK' /\ batchSeq' = batchSeq
  <1>1. copy.doc \in Batch /\ copy.reconciled \in BOOLEAN
    BY DEF Copy
  <1>2. StoreTypeOK'
    BY <1>1 DEF TypeOK, StoreTypeOK, SaveBatch
  <1>3. TxTypeOK'
    <2>1. batchSeq' \in Nat /\ batchSeq' >= batchSeq
      BY DEF TypeOK, StoreTypeOK, SaveBatch
    <2> QED
      BY <2>1, TxVarsType DEF TypeOK, SaveBatch
  <1>4. reconciled' \in Seq(BOOLEAN) /\ Len(reconciled') = batchSeq
    BY <1>1, ExceptSeq DEF DocsOK, SaveBatch
  <1>5. DocsOK'
    BY <1>4 DEF DocsOK, SaveBatch
  <1> QED
    BY <1>2, <1>3, <1>5 DEF TypeOK, SaveBatch

\* A request for a change of the cache is one.
LEMMA AdjustIsJob ==
    ASSUME TypeOK, NEW w \in Workers, NEW p \in Products, NEW delta \in Int,
           ThenAdjust(w, p, delta)
    PROVE  job' \in [Workers -> Job]
  <1>1. [kind |-> "adjust", product |-> p, delta |-> delta] \in Job
    BY DEF Job
  <1> QED
    BY <1>1 DEF TypeOK, ThenAdjust

LEMMA IdleIsJob ==
    ASSUME TypeOK, NEW w \in Workers
    PROVE  [job EXCEPT ![w] = Idle] \in [Workers -> Job]
  <1>1. Idle \in Job
    BY DEF Idle, Job
  <1> QED
    BY <1>1 DEF TypeOK

----------------------------------------------------------------------------

\* A step of a request that writes none of FifoStock's documents.
LEMMA QuietStep ==
    ASSUME TypeOK, DocsOK, CallsOK, UNCHANGED <<stockVars, txVars>>, job' \in [Workers -> Job],
           DocsOK', NEW w \in Workers, NEW c, CallOK(c, batchSeq),
           call' = [call EXCEPT ![w] = c]
    PROVE  TypeOK' /\ DocsOK' /\ CallsOK'
  <1>1. TypeOK'
    BY SameStock
  <1>2. /\ batchSeq \in Nat /\ batchSeq' \in Nat /\ batchSeq' >= batchSeq
        /\ CallOK(c, batchSeq')
    BY DEF TypeOK, StoreTypeOK
  <1>3. CallsOK'
    BY <1>2, CallsKept
  <1> QED
    BY <1>1, <1>3

LEMMA DeliveryTypes ==
    ASSUME TypeOK, DocsOK, CallsOK, NEW w \in Workers, DeliveryStep(w)
    PROVE  TypeOK' /\ DocsOK' /\ CallsOK'
  <1>1. batchSeq \in Nat /\ job \in [Workers -> Job] /\ CallOK(call[w], batchSeq)
        /\ DOMAIN call = Workers
    BY DEF TypeOK, StoreTypeOK, CallsOK
  \* The request goes on, and has read what it reads.
  <1>2. ASSUME NEW c \in DeliverSet, call' = [call EXCEPT ![w] = c],
               UNCHANGED <<stockVars, txVars, job>>, DocsOK'
        PROVE  TypeOK' /\ DocsOK' /\ CallsOK'
    <2>1. c \in Call({}) /\ c.kind = "deliver"
      BY <1>2 DEF Call, DeliverSet
    <2>2. CallOK(c, batchSeq)
      BY <2>1 DEF CallOK
    <2> QED
      BY <1>1, <1>2, <2>2, QuietStep
  <1>3. CASE LinkDelivery(w)
    <2>1. PICK n \in Notes :
            call' = [call EXCEPT ![w] = [kind |-> "deliver", at |-> "invoices", note |-> n,
                                         invoices |-> {}]]
      BY <1>3 DEF LinkDelivery
    <2>2. [kind |-> "deliver", at |-> "invoices", note |-> n, invoices |-> {}] \in DeliverSet
      BY DEF DeliverSet
    <2>3. UNCHANGED <<stockVars, txVars, job>> /\ DocsOK'
      BY <1>3 DEF LinkDelivery, vars, DocsOK
    <2> QED
      BY <1>2, <2>1, <2>2, <2>3
  <1>5. CASE FindInvoices(w)
    <2>1. /\ call[w].kind = "deliver" /\ UNCHANGED <<stockVars, txVars, job>> /\ DocsOK'
      BY <1>5 DEF FindInvoices, vars, DocsOK, Step
    <2>2. PICK found \in SUBSET Invoices :
            call' = [call EXCEPT ![w].at = "lines", ![w].invoices = found]
      BY <1>5 DEF FindInvoices
    <2> DEFINE c == [call[w] EXCEPT !.at = "lines", !.invoices = found]
    <2>3. call[w] \in DeliverSet
      BY <1>1, <2>1, CallKinds DEF CallOK
    <2>4. c \in DeliverSet
      BY <2>3 DEF DeliverSet
    <2>5. call' = [call EXCEPT ![w] = c]
      BY <1>1, <2>2
    <2> HIDE DEF c
    <2> QED
      BY <1>2, <2>1, <2>4, <2>5
  <1>6. CASE ReadLines(w) \/ CheckDelivery(w)
    <2>1. call[w].kind = "deliver" /\ UNCHANGED <<stockVars, txVars, job>> /\ DocsOK'
      BY <1>6 DEF ReadLines, CheckDelivery, vars, DocsOK, Step
    <2>2. CASE call' = [call EXCEPT ![w] = NoCall]
      BY <1>1, <2>1, <2>2, QuietStep, NoCallOK
    <2>3. ASSUME NEW at \in {"check", "create"}, call' = [call EXCEPT ![w].at = at]
          PROVE  TypeOK' /\ DocsOK' /\ CallsOK'
      <3>1. CallOK([call[w] EXCEPT !.at = at], batchSeq)
        BY <1>1, <2>1, GoOn
      <3> QED
        BY <1>1, <2>1, <2>3, <3>1, QuietStep
    <2> QED
      BY <1>6, <2>2, <2>3 DEF ReadLines, CheckDelivery, Return, GoTo
  <1>4. CASE ReceiveDelivery(w)
    <2>1. call[w] \in DeliverSet
      BY <1>1, <1>4, CallKinds DEF CallOK, ReceiveDelivery, Step
    <2> DEFINE n == call[w].note
               line == NoteLine[n]
    <2>2. line \in [product : Products, qty : Nat \ {0}, date : Dates] /\ n \in Notes
      BY <2>1, NotesAssumption DEF DeliverSet
    <2>3. [type |-> "grn", ref |-> n] \in Origin
      BY <2>2 DEF Origin
    <2>4. Receive(line.product, line.date, line.qty, ProvisionalCost, [type |-> "grn", ref |-> n])
          /\ ThenAdjust(w, line.product, line.qty)
          /\ call' = [call EXCEPT ![w] = NoCall]
      BY <1>4 DEF ReceiveDelivery, Return
    <2>5. line.product \in Products /\ line.date \in Dates /\ line.qty \in Nat /\ line.qty \in Int
          /\ ProvisionalCost \in Costs
      BY <2>2, BridgeAssumption
    <2> HIDE DEF n, line
    <2>6. job' \in [Workers -> Job]
      BY <2>4, <2>5, AdjustIsJob
    <2>7. TypeOK' /\ DocsOK' /\ batchSeq' = batchSeq + 1
      BY <2>3, <2>4, <2>5, <2>6, ReceiveTypes
    <2>8. CallsOK'
      <3>1. batchSeq' \in Nat /\ batchSeq' >= batchSeq
        BY <1>1, <2>7
      <3>2. CallOK(NoCall, batchSeq')
        BY <3>1, NoCallOK
      <3> QED
        BY <1>1, <2>4, <3>1, <3>2, CallsKept
    <2> QED
      BY <2>7, <2>8
  <1> QED
    BY <1>3, <1>4, <1>5, <1>6 DEF DeliveryStep

\* An approval holds the batches B.
ApproveSet(B) ==
    [kind : {"approve"}, at : Approval, invoice : Invoices, copies : [B -> Copy],
     rows : Seq(Nat)]

LEMMA ApproveHolds ==
    ASSUME NEW c, NEW n \in Nat, CallOK(c, n), c.kind = "approve"
    PROVE  \E B \in SUBSET (1..n) :
             /\ c \in ApproveSet(B)
             /\ c.at \in {"recost", "rows", "row"} => B # {} /\ Oldest(c.copies) \in B
  <1>1. PICK B \in SUBSET (1..n) :
          c \in Call(B) /\ (c.at \in {"recost", "rows", "row"} => B # {})
    BY DEF CallOK
  <1>2. c \in ApproveSet(B)
    BY <1>1, CallKinds DEF ApproveSet
  <1>3. ASSUME c.at \in {"recost", "rows", "row"} PROVE Oldest(c.copies) \in B
    <2>1. B # {} /\ c.copies \in [B -> Copy]
      BY <1>1, <1>2, <1>3 DEF ApproveSet
    <2> QED
      BY <2>1, OldestHeld
  <1> QED
    BY <1>1, <1>2, <1>3

LEMMA ApproveIsOK ==
    ASSUME NEW n \in Nat, NEW B \in SUBSET (1..n), NEW c \in ApproveSet(B),
           c.at \in {"recost", "rows", "row"} => B # {}
    PROVE  CallOK(c, n)
  <1>1. c \in Call(B) /\ c.kind = "approve"
    BY DEF ApproveSet, Call
  <1> QED
    BY <1>1 DEF CallOK

LEMMA ApprovalTypes ==
    ASSUME TypeOK, DocsOK, CallsOK, NEW w \in Workers, ApprovalStep(w)
    PROVE  TypeOK' /\ DocsOK' /\ CallsOK'
  <1>1. batchSeq \in Nat /\ job \in [Workers -> Job] /\ CallOK(call[w], batchSeq)
        /\ DOMAIN call = Workers
    BY DEF TypeOK, StoreTypeOK, CallsOK
  <1>2. CASE ApproveRead(w)
    <2>1. PICK i \in Invoices, at \in {"complete", "price"} :
            call' = [call EXCEPT ![w] = [kind |-> "approve", at |-> at, invoice |-> i,
                                         copies |-> << >>, rows |-> << >>]]
      BY <1>2 DEF ApproveRead
    <2> DEFINE c == [kind |-> "approve", at |-> at, invoice |-> i, copies |-> << >>,
                     rows |-> << >>]
    <2>2. c \in ApproveSet({}) /\ c.at \notin {"recost", "rows", "row"}
      <3>1. << >> \in [{} -> Copy] /\ << >> \in Seq(Nat)
        BY EmptyCopies, EmptySeq
      <3> QED
        BY <3>1 DEF ApproveSet, Approval
    <2>3. call' = [call EXCEPT ![w] = c]
      BY <2>1
    <2> HIDE DEF c
    <2>4. CallOK(c, batchSeq)
      <3>1. {} \in SUBSET (1..batchSeq)
        OBVIOUS
      <3> QED
        BY <1>1, <2>2, <3>1, ApproveIsOK
    <2>5. UNCHANGED <<stockVars, txVars, job>> /\ DocsOK'
      BY <1>2 DEF ApproveRead, vars, DocsOK
    <2> QED
      BY <1>1, <2>3, <2>4, <2>5, QuietStep
  <1>3. CASE ~ApproveRead(w)
    <2>1. call[w].kind = "approve"
      BY <1>3 DEF ApprovalStep, PriceItem, FindBatches, RecostBatch, ReadRows, RecostRow,
                  NextBatch, PurchaseBatch, CompleteInvoice, Step
    <2>2. PICK B \in SUBSET (1..batchSeq) :
            /\ call[w] \in ApproveSet(B)
            /\ call[w].at \in {"recost", "rows", "row"} => B # {} /\ Oldest(call[w].copies) \in B
      BY <1>1, <2>1, ApproveHolds
    <2> DEFINE o == Oldest(call[w].copies)
               i == call[w].invoice
               line == InvoiceLine[i]
    <2>3. /\ i \in Invoices /\ line.product \in Products /\ line.date \in Dates
          /\ line.qty \in Nat /\ line.qty \in Int /\ line.cost \in Costs
      BY <2>2, InvoicesAssumption DEF ApproveSet
    <2> HIDE DEF i, line, o
    <2>4. CASE PriceItem(w)
      <3>1. UNCHANGED <<stockVars, txVars, job>> /\ call' = [call EXCEPT ![w].at = "find"]
        BY <2>4 DEF PriceItem, vars, GoTo
      <3>2. DocsOK'
        <4>1. lost' \subseteq Watched /\ priced' \in [Invoices -> BOOLEAN]
          BY <2>3, <2>4 DEF PriceItem, DocsOK
        <4> QED
          BY <2>4, <4>1 DEF PriceItem, vars, DocsOK
      <3>3. CallOK([call[w] EXCEPT !.at = "find"], batchSeq)
        BY <1>1, <2>1, GoOn
      <3> QED
        BY <1>1, <3>1, <3>2, <3>3, QuietStep
    <2>5. CASE FindBatches(w)
      <3>1. PICK found \in SUBSET (1..batchSeq) :
              call' = [call EXCEPT ![w].copies = Copies(found),
                                   ![w].at = IF found = {} THEN "purchase" ELSE "recost"]
        BY <2>5 DEF FindBatches
      <3> DEFINE c == [call[w] EXCEPT !.copies = Copies(found),
                                      !.at = IF found = {} THEN "purchase" ELSE "recost"]
      <3>2. c \in ApproveSet(found) /\ (c.at \in {"recost", "rows", "row"} => found # {})
        <4>1. Copies(found) \in [found -> Copy]
          BY CopiesTyped
        <4> QED
          BY <2>2, <4>1 DEF ApproveSet, Approval
      <3>3. call' = [call EXCEPT ![w] = c]
        BY <1>1, <3>1
      <3> HIDE DEF c
      <3>4. CallOK(c, batchSeq)
        BY <1>1, <3>2, ApproveIsOK
      <3>5. UNCHANGED <<stockVars, txVars, job>> /\ DocsOK'
        BY <2>5 DEF FindBatches, vars, DocsOK
      <3> QED
        BY <1>1, <3>3, <3>4, <3>5, QuietStep
    <2>6. CASE RecostBatch(w)
      <3>1. o \in B /\ call[w].copies[o] \in Copy /\ B # {} /\ call[w].at = "recost"
        BY <2>2, <2>6 DEF ApproveSet, RecostBatch, Step, o
      <3> DEFINE doc == call[w].copies[o].doc
                 copy == [doc |-> [doc EXCEPT !.cost = line.cost], reconciled |-> TRUE]
      <3>2. copy \in Copy
        <4>1. doc \in Batch
          BY <3>1 DEF Copy
        <4> QED
          BY <2>3, <4>1 DEF Copy, Batch
      <3>3. SaveBatch(o, copy) /\ call' = [call EXCEPT ![w].at = "rows"]
        BY <2>6 DEF RecostBatch, GoTo, o, line, i
      <3> HIDE DEF copy, doc
      <3>4. TypeOK' /\ DocsOK' /\ batchSeq' = batchSeq
        <4>1. o \in 1..batchSeq
          BY <3>1
        <4> QED
          BY <3>2, <3>3, <4>1, SaveBatchTypes
      <3>5. CallOK([call[w] EXCEPT !.at = "rows"], batchSeq')
        BY <1>1, <2>1, <3>1, <3>4, GoOn
      <3>6. CallsOK'
        <4>1. batchSeq' \in Nat /\ batchSeq' >= batchSeq
          BY <1>1, <3>4
        <4>2. call' = [call EXCEPT ![w] = [call[w] EXCEPT !.at = "rows"]]
          BY <3>3
        <4> QED
          BY <1>1, <3>5, <4>1, <4>2, CallsKept
      <3> QED
        BY <3>4, <3>6
    <2>7. CASE ReadRows(w)
      <3> DEFINE rows == [k \in DOMAIN rowCosts[o] |-> k]
                 c == [call[w] EXCEPT !.rows = rows, !.at = "row"]
      <3>1. o \in B /\ B # {}
        BY <2>2, <2>7 DEF ReadRows, Step, o
      <3>2. rows \in Seq(Nat)
        <4>1. rowCosts[o] \in Seq(Costs)
          BY <3>1 DEF TypeOK, StoreTypeOK
        <4>2. PICK m \in Nat : DOMAIN rowCosts[o] = 1..m
          BY <4>1, LenProperties
        <4>3. rows \in [1..m -> Nat]
          BY <4>2
        <4> HIDE DEF rows
        <4> QED
          BY <4>3, SeqOf
      <3> HIDE DEF rows
      <3>3. c \in ApproveSet(B)
        BY <2>2, <3>2 DEF ApproveSet, Approval
      <3>4. call' = [call EXCEPT ![w] = c]
        BY <1>1, <2>7 DEF ReadRows, o, rows
      <3> HIDE DEF c
      <3>5. CallOK(c, batchSeq)
        BY <1>1, <3>1, <3>3, ApproveIsOK
      <3>6. UNCHANGED <<stockVars, txVars, job>> /\ DocsOK'
        BY <2>7 DEF ReadRows, vars, DocsOK
      <3> QED
        BY <1>1, <3>4, <3>5, <3>6, QuietStep
    <2>8. CASE RecostRow(w)
      <3>1. /\ o \in B /\ B # {} /\ call[w].rows # << >> /\ call[w].rows \in Seq(Nat)
            /\ call[w].at = "row"
        BY <2>2, <2>8 DEF RecostRow, Step, o, ApproveSet
      <3> DEFINE c == [call[w] EXCEPT !.rows = Tail(call[w].rows)]
      <3>2. Tail(call[w].rows) \in Seq(Nat)
        BY <3>1, HeadTailProperties
      <3>3. c \in ApproveSet(B)
        BY <2>2, <3>2 DEF ApproveSet
      <3>4. call' = [call EXCEPT ![w] = c]
        BY <1>1, <2>8 DEF RecostRow
      <3> HIDE DEF c
      <3>5. CallOK(c, batchSeq)
        BY <1>1, <3>1, <3>3, ApproveIsOK
      <3>6. rowCosts' \in [1..batchSeq -> Seq(Costs)]
        <4>1. rowCosts' = [rowCosts EXCEPT ![o][Head(call[w].rows)] = line.cost]
          BY <2>8 DEF RecostRow, o, line, i
        <4>2. rowCosts \in [1..batchSeq -> Seq(Costs)] /\ o \in 1..batchSeq
          BY <3>1 DEF TypeOK, StoreTypeOK
        <4> DEFINE k == Head(call[w].rows)
                   old == rowCosts[o]
                   new == [old EXCEPT ![k] = line.cost]
        <4>3. old \in Seq(Costs)
          BY <4>2
        <4>4. rowCosts' = [rowCosts EXCEPT ![o] = new]
          BY <4>1
        <4> HIDE DEF k, old
        <4>5. new \in Seq(Costs)
          <5>1. CASE k \in 1..Len(old)
            BY <2>3, <4>3, <5>1, ExceptSeq
          <5>2. CASE k \notin 1..Len(old)
            <6>1. DOMAIN old = 1..Len(old) /\ old \in [1..Len(old) -> Costs]
              BY <4>3, LenProperties
            <6>2. new = old
              BY <5>2, <6>1
            <6> QED
              BY <4>3, <6>2
          <5> QED
            BY <5>1, <5>2
        <4> HIDE DEF new
        <4> QED
          BY <4>2, <4>4, <4>5
      <3>7. /\ UNCHANGED <<batchSeq, batch, consumed, quantity, sessions, txVars, job>>
            /\ DocsOK'
        BY <2>8 DEF RecostRow, DocsOK
      <3>8. StoreTypeOK'
        BY <3>6, <3>7 DEF TypeOK, StoreTypeOK
      <3>9. TxTypeOK'
        <4>1. batchSeq' \in Nat /\ batchSeq' >= batchSeq
          BY <1>1, <3>7
        <4> QED
          BY <3>7, <4>1, TxVarsType DEF TypeOK
      <3>10. CallsOK'
        <4>1. batchSeq' \in Nat /\ batchSeq' >= batchSeq /\ CallOK(c, batchSeq')
          BY <1>1, <3>5, <3>7
        <4> QED
          BY <1>1, <3>4, <4>1, CallsKept
      <3> QED
        BY <3>7, <3>8, <3>9, <3>10 DEF TypeOK
    <2>9. CASE NextBatch(w)
      <3> DEFINE left == Without(call[w].copies, o)
                 c == [call[w] EXCEPT !.copies = left,
                                      !.at = IF DOMAIN left = {} THEN "complete" ELSE "recost"]
      <3>1. call[w].copies \in [B -> Copy]
        BY <2>2 DEF ApproveSet
      <3>2. left \in [B \ {o} -> Copy]
        BY <3>1 DEF Without
      <3>3. call' = [call EXCEPT ![w] = c]
        BY <1>1, <2>9 DEF NextBatch, o
      <3> HIDE DEF left
      <3>4. c \in ApproveSet(B \ {o}) /\ (c.at \in {"recost", "rows", "row"} => B \ {o} # {})
        <4>1. DOMAIN left = B \ {o}
          BY <3>2
        <4> QED
          BY <2>2, <3>2, <4>1 DEF ApproveSet, Approval
      <3> HIDE DEF c
      <3>5. CallOK(c, batchSeq)
        <4>1. B \ {o} \in SUBSET (1..batchSeq)
          OBVIOUS
        <4> QED
          BY <1>1, <3>4, <4>1, ApproveIsOK
      <3>6. UNCHANGED <<stockVars, txVars, job>> /\ DocsOK'
        BY <2>9 DEF NextBatch, vars, DocsOK
      <3> QED
        BY <1>1, <3>3, <3>5, <3>6, QuietStep
    <2>10. CASE PurchaseBatch(w)
      <3>1. Receive(line.product, line.date, line.qty, line.cost,
                    [type |-> "supplier_invoice", ref |-> i])
            /\ ThenAdjust(w, line.product, line.qty)
            /\ call' = [call EXCEPT ![w].at = "complete"]
        BY <2>10 DEF PurchaseBatch, GoTo, line, i
      <3>2. [type |-> "supplier_invoice", ref |-> i] \in Origin
        BY <2>3 DEF Origin
      <3>3. job' \in [Workers -> Job]
        BY <2>3, <3>1, AdjustIsJob
      <3>4. TypeOK' /\ DocsOK' /\ batchSeq' = batchSeq + 1
        BY <2>3, <3>1, <3>2, <3>3, ReceiveTypes
      <3>5. CallsOK'
        <4>1. batchSeq' \in Nat /\ batchSeq' >= batchSeq
          BY <1>1, <3>4
        <4>2. CallOK([call[w] EXCEPT !.at = "complete"], batchSeq)
          BY <1>1, <2>1, GoOn
        <4>3. CallOK([call[w] EXCEPT !.at = "complete"], batchSeq')
          <5>1. 1..batchSeq \subseteq 1..batchSeq'
            BY <1>1, <4>1
          <5> QED
            BY <4>2, <5>1 DEF CallOK
        <4>4. call' = [call EXCEPT ![w] = [call[w] EXCEPT !.at = "complete"]]
          BY <3>1
        <4> QED
          BY <1>1, <4>1, <4>3, <4>4, CallsKept
      <3> QED
        BY <3>4, <3>5
    <2>11. CASE CompleteInvoice(w)
      <3>1. UNCHANGED <<stockVars, txVars, job>> /\ call' = [call EXCEPT ![w] = NoCall]
        BY <2>11 DEF CompleteInvoice, vars, Return
      <3>2. DocsOK'
        BY <2>3, <2>11 DEF CompleteInvoice, vars, DocsOK
      <3>3. CallOK(NoCall, batchSeq)
        BY <1>1, NoCallOK
      <3> QED
        BY <1>1, <3>1, <3>2, <3>3, QuietStep
    <2> QED
      BY <1>3, <2>4, <2>5, <2>6, <2>7, <2>8, <2>9, <2>10, <2>11 DEF ApprovalStep
  <1> QED
    BY <1>2, <1>3

RemoveSet(B) == [kind : {"remove"}, at : Removal, note : Notes, copies : [B -> Copy]]

LEMMA RemoveHolds ==
    ASSUME NEW c, NEW n \in Nat, CallOK(c, n), c.kind = "remove"
    PROVE  \E B \in SUBSET (1..n) :
             /\ c \in RemoveSet(B)
             /\ c.at \in {"adjust", "save"} => B # {} /\ Oldest(c.copies) \in B
  <1>1. PICK B \in SUBSET (1..n) :
          c \in Call(B) /\ (c.at \in {"adjust", "save"} => B # {})
    BY DEF CallOK
  <1>2. c \in RemoveSet(B)
    BY <1>1, CallKinds DEF RemoveSet
  <1>3. ASSUME c.at \in {"adjust", "save"} PROVE Oldest(c.copies) \in B
    <2>1. B # {} /\ c.copies \in [B -> Copy]
      BY <1>1, <1>2, <1>3 DEF RemoveSet
    <2> QED
      BY <2>1, OldestHeld
  <1> QED
    BY <1>1, <1>2, <1>3

LEMMA RemoveIsOK ==
    ASSUME NEW n \in Nat, NEW B \in SUBSET (1..n), NEW c \in RemoveSet(B),
           c.at \in {"adjust", "save"} => B # {}
    PROVE  CallOK(c, n)
  <1>1. c \in Call(B) /\ c.kind = "remove"
    BY DEF RemoveSet, Call
  <1> QED
    BY <1>1 DEF CallOK

LEMMA RemovalTypes ==
    ASSUME TypeOK, DocsOK, CallsOK, NEW w \in Workers, RemovalStep(w)
    PROVE  TypeOK' /\ DocsOK' /\ CallsOK'
  <1>1. batchSeq \in Nat /\ job \in [Workers -> Job] /\ CallOK(call[w], batchSeq)
        /\ DOMAIN call = Workers
    BY DEF TypeOK, StoreTypeOK, CallsOK
  <1>2. CASE RemoveInvoices(w)
    <2>1. PICK n \in Notes :
            call' = [call EXCEPT ![w] =
                       [kind |-> "remove", at |-> "note", note |-> n, copies |-> << >>]]
      BY <1>2 DEF RemoveInvoices
    <2> DEFINE c == [kind |-> "remove", at |-> "note", note |-> n, copies |-> << >>]
    <2>2. c \in RemoveSet({}) /\ c.at \notin {"adjust", "save"}
      BY EmptyCopies DEF RemoveSet, Removal
    <2>3. call' = [call EXCEPT ![w] = c]
      BY <2>1
    <2> HIDE DEF c
    <2>4. CallOK(c, batchSeq)
      <3>1. {} \in SUBSET (1..batchSeq)
        OBVIOUS
      <3> QED
        BY <1>1, <2>2, <3>1, RemoveIsOK
    <2>5. UNCHANGED <<stockVars, txVars, job>>
      BY <1>2 DEF RemoveInvoices, vars
    <2>6. DocsOK'
      BY <1>2 DEF RemoveInvoices, vars, DocsOK
    <2> QED
      BY <1>1, <2>3, <2>4, <2>5, <2>6, QuietStep
  <1>3. CASE ~RemoveInvoices(w)
    <2>1. call[w].kind = "remove"
      BY <1>3 DEF RemovalStep, RemoveNote, VoidRead, VoidAdjust, VoidSave, Step
    <2>2. PICK B \in SUBSET (1..batchSeq) :
            /\ call[w] \in RemoveSet(B)
            /\ call[w].at \in {"adjust", "save"} => B # {} /\ Oldest(call[w].copies) \in B
      BY <1>1, <2>1, RemoveHolds
    <2> DEFINE o == Oldest(call[w].copies)
    <2> HIDE DEF o
    <2>3. CASE RemoveNote(w)
      <3>1. UNCHANGED <<stockVars, txVars, job>> /\ call' = [call EXCEPT ![w].at = "find"]
        BY <2>3 DEF RemoveNote, vars, GoTo
      <3>2. DocsOK'
        BY <2>2, <2>3 DEF RemoveNote, vars, DocsOK, RemoveSet
      <3>3. CallOK([call[w] EXCEPT !.at = "find"], batchSeq)
        BY <1>1, <2>1, GoOn
      <3> QED
        BY <1>1, <3>1, <3>2, <3>3, QuietStep
    <2>4. CASE VoidRead(w)
      <3>1. UNCHANGED <<stockVars, txVars, job>> /\ DocsOK'
        BY <2>4 DEF VoidRead, vars, DocsOK
      <3>2. CASE call' = [call EXCEPT ![w] = NoCall]
        BY <1>1, <3>1, <3>2, QuietStep, NoCallOK
      <3>3. ASSUME NEW found \in SUBSET (1..batchSeq), found # {},
                   call' = [call EXCEPT ![w].copies = Copies(found), ![w].at = "adjust"]
            PROVE  TypeOK' /\ DocsOK' /\ CallsOK'
        <4> DEFINE c == [call[w] EXCEPT !.copies = Copies(found), !.at = "adjust"]
        <4>1. c \in RemoveSet(found)
          <5>1. Copies(found) \in [found -> Copy]
            BY CopiesTyped
          <5> QED
            BY <2>2, <5>1 DEF RemoveSet, Removal
        <4>2. call' = [call EXCEPT ![w] = c]
          BY <1>1, <3>3
        <4> HIDE DEF c
        <4>3. CallOK(c, batchSeq)
          BY <1>1, <3>3, <4>1, RemoveIsOK
        <4> QED
          BY <1>1, <3>1, <4>2, <4>3, QuietStep
      <3>4. GrnBatches(call[w].note) \subseteq 1..batchSeq
        BY DEF GrnBatches
      <3> QED
        BY <2>4, <3>2, <3>3, <3>4 DEF VoidRead
    <2>5. CASE VoidAdjust(w)
      <3>1. o \in B /\ call[w].copies[o] \in Copy /\ call[w].at = "adjust"
        BY <2>2, <2>5 DEF RemoveSet, VoidAdjust, Step, o
      <3> DEFINE doc == call[w].copies[o].doc
      <3>2. doc.product \in Products /\ doc.remaining \in Nat /\ -doc.remaining \in Int
        BY <3>1 DEF Copy, Batch
      <3>3. ThenAdjust(w, doc.product, -doc.remaining) \/ UNCHANGED job
        BY <2>5 DEF VoidAdjust, o
      <3> HIDE DEF doc
      <3>4. job' \in [Workers -> Job]
        BY <1>1, <3>2, <3>3, AdjustIsJob
      <3>5. UNCHANGED <<stockVars, txVars>> /\ DocsOK'
            /\ call' = [call EXCEPT ![w].at = "save"]
        BY <2>5 DEF VoidAdjust, DocsOK, GoTo
      <3>6. CallOK([call[w] EXCEPT !.at = "save"], batchSeq)
        BY <1>1, <2>1, <3>1, GoOn
      <3> QED
        BY <3>4, <3>5, <3>6, QuietStep
    <2>6. CASE VoidSave(w)
      <3>1. o \in B /\ call[w].copies[o] \in Copy /\ call[w].at = "save"
            /\ call[w].copies \in [B -> Copy]
        BY <2>2, <2>6 DEF RemoveSet, VoidSave, Step, o
      <3> DEFINE old == call[w].copies[o]
                 copy == [old EXCEPT !.doc = [old.doc EXCEPT !.remaining = 0,
                                                             !.status = "written_off"]]
                 left == Without(call[w].copies, o)
                 c == [call[w] EXCEPT !.copies = left, !.at = "adjust"]
      <3>2. copy \in Copy
        BY <3>1 DEF Copy, Batch, BatchStatus
      <3>3. SaveBatch(o, copy)
            /\ call' = IF DOMAIN left = {} THEN [call EXCEPT ![w] = NoCall]
                                           ELSE [call EXCEPT ![w] = c]
        BY <1>1, <2>6 DEF VoidSave, o
      <3>4. left \in [B \ {o} -> Copy]
        BY <3>1 DEF Without
      <3> HIDE DEF left
      <3>5. c \in RemoveSet(B \ {o}) /\ DOMAIN left = B \ {o}
        BY <2>2, <3>4 DEF RemoveSet, Removal
      <3> HIDE DEF c, copy
      <3>6. TypeOK' /\ DocsOK' /\ batchSeq' = batchSeq
        <4>1. o \in 1..batchSeq
          BY <3>1
        <4> QED
          BY <3>2, <3>3, <4>1, SaveBatchTypes
      <3>7. batchSeq' \in Nat /\ batchSeq' >= batchSeq
        BY <1>1, <3>6
      <3>8. CASE B \ {o} = {}
        <4>1. CallOK(NoCall, batchSeq') /\ call' = [call EXCEPT ![w] = NoCall]
          BY <3>3, <3>5, <3>7, <3>8, NoCallOK
        <4>2. CallsOK'
          BY <1>1, <3>7, <4>1, CallsKept
        <4> QED
          BY <3>6, <4>2
      <3>9. CASE B \ {o} # {}
        <4>1. B \ {o} \in SUBSET (1..batchSeq')
          BY <3>6
        <4>2. CallOK(c, batchSeq') /\ call' = [call EXCEPT ![w] = c]
          BY <3>3, <3>5, <3>7, <3>9, <4>1, RemoveIsOK
        <4>3. CallsOK'
          BY <1>1, <3>7, <4>2, CallsKept
        <4> QED
          BY <3>6, <4>3
      <3> QED
        BY <3>8, <3>9
    <2> QED
      BY <1>3, <2>3, <2>4, <2>5, <2>6 DEF RemovalStep
  <1> QED
    BY <1>2, <1>3

LEMMA BootstrapTypes ==
    ASSUME TypeOK, DocsOK, CallsOK, NEW w \in Workers, BootstrapStep(w)
    PROVE  TypeOK' /\ DocsOK' /\ CallsOK'
  <1>1. batchSeq \in Nat /\ job \in [Workers -> Job] /\ CallOK(call[w], batchSeq)
        /\ DOMAIN call = Workers
    BY DEF TypeOK, StoreTypeOK, CallsOK
  <1>2. CASE BootstrapRead(w)
    <2>1. PICK p \in Products :
            call' = [call EXCEPT ![w] = [kind |-> "bootstrap", at |-> "check", product |-> p,
                                         copy |-> quantity[p]]]
      BY <1>2 DEF BootstrapRead
    <2> DEFINE c == [kind |-> "bootstrap", at |-> "check", product |-> p, copy |-> quantity[p]]
    <2>2. c \in Call({}) /\ c.kind = "bootstrap"
      BY DEF Call, TypeOK, StoreTypeOK
    <2>3. call' = [call EXCEPT ![w] = c]
      BY <2>1
    <2> HIDE DEF c
    <2>4. CallOK(c, batchSeq)
      BY <2>2 DEF CallOK
    <2>5. UNCHANGED <<stockVars, txVars, job>> /\ DocsOK'
      BY <1>2 DEF BootstrapRead, vars, DocsOK
    <2> QED
      BY <1>1, <2>3, <2>4, <2>5, QuietStep
  <1>3. CASE BootstrapCheck(w)
    <2>1. call[w].kind = "bootstrap" /\ UNCHANGED <<stockVars, txVars, job>> /\ DocsOK'
      BY <1>3 DEF BootstrapCheck, vars, DocsOK, Step
    <2>2. CASE call' = [call EXCEPT ![w] = NoCall]
      BY <1>1, <2>1, <2>2, QuietStep, NoCallOK
    <2>3. CASE call' = [call EXCEPT ![w].at = "create"]
      <3>1. CallOK([call[w] EXCEPT !.at = "create"], batchSeq)
        BY <1>1, <2>1, GoOn
      <3> QED
        BY <1>1, <2>1, <2>3, <3>1, QuietStep
    <2> QED
      BY <1>3, <2>2, <2>3 DEF BootstrapCheck, Return, GoTo
  <1>4. CASE BootstrapCreate(w)
    <2>1. call[w] \in [kind : {"bootstrap"}, at : {"check", "create"}, product : Products,
                       copy : Nat]
      BY <1>1, <1>4, CallKinds DEF CallOK, BootstrapCreate, Step
    <2> DEFINE p == call[w].product
               left == call[w].copy
    <2>2. p \in Products /\ left \in Nat /\ LegacyDate \in Dates /\ ProvisionalCost \in Costs
      BY <2>1, BridgeAssumption
    <2>3. [type |-> "legacy", ref |-> NoNote] \in Origin
      BY DEF Origin
    <2>4. Receive(p, LegacyDate, left, ProvisionalCost, [type |-> "legacy", ref |-> NoNote])
          /\ call' = [call EXCEPT ![w] = NoCall] /\ UNCHANGED job
      BY <1>4 DEF BootstrapCreate, Return
    <2> HIDE DEF p, left
    <2>5. TypeOK' /\ DocsOK' /\ batchSeq' = batchSeq + 1
      BY <1>1, <2>2, <2>3, <2>4, ReceiveTypes
    <2>6. CallsOK'
      <3>1. batchSeq' \in Nat /\ batchSeq' >= batchSeq
        BY <1>1, <2>5
      <3>2. CallOK(NoCall, batchSeq')
        BY <3>1, NoCallOK
      <3> QED
        BY <1>1, <2>4, <3>1, <3>2, CallsKept
    <2> QED
      BY <2>5, <2>6
  <1> QED
    BY <1>2, <1>3, <1>4 DEF BootstrapStep

\* What is cut short is a batch.
LEMMA RecostingHeld ==
    ASSUME NEW w \in Workers, NEW n \in Nat, CallOK(call[w], n)
    PROVE  Recosting(w) \subseteq 1..n
  <1>1. CASE call[w].kind = "approve" /\ call[w].at \in {"rows", "row"}
    BY <1>1, ApproveHolds DEF Recosting
  <1>2. CASE ~(call[w].kind = "approve" /\ call[w].at \in {"rows", "row"})
    BY <1>2 DEF Recosting
  <1> QED
    BY <1>1, <1>2

\* A line that fails, a request that dies: it is noted what was left undone.
LEMMA FailureTypes ==
    ASSUME TypeOK, DocsOK, CallsOK, NEW w \in Workers, LineFails(w) \/ LoseCall(w)
    PROVE  TypeOK' /\ DocsOK' /\ CallsOK'
  <1>1. batchSeq \in Nat /\ job \in [Workers -> Job] /\ CallOK(call[w], batchSeq)
        /\ DOMAIN call = Workers
    BY DEF TypeOK, StoreTypeOK, CallsOK
  <1>2. UNCHANGED <<stockVars, txVars>> /\ job' = [job EXCEPT ![w] = Idle]
    BY DEF LineFails, LoseCall
  <1>3. job' \in [Workers -> Job]
    BY <1>2, IdleIsJob
  <1>4. DocsOK'
    <2>1. Recosting(w) \subseteq 1..batchSeq
      BY <1>1, RecostingHeld
    <2>2. cutShort' = cutShort \cup Recosting(w) /\ lost' \subseteq lost \cup Watched
      BY DEF LineFails, LoseCall
    <2>3. UNCHANGED <<batchSeq, origin, reconciled, note, invoice, priced>>
      BY DEF LineFails, LoseCall
    <2> QED
      BY <2>1, <2>2, <2>3 DEF DocsOK
  <1>5. CASE LineFails(w)
    <2>1. CallOK([call[w] EXCEPT !.at = "complete"], batchSeq)
      BY <1>1, <1>5, GoOn DEF LineFails
    <2>2. call' = [call EXCEPT ![w] = [call[w] EXCEPT !.at = "complete"]]
      BY <1>5 DEF LineFails, GoTo
    <2> QED
      BY <1>2, <1>3, <1>4, <2>1, <2>2, QuietStep
  <1>6. CASE LoseCall(w)
    <2>1. call' = [call EXCEPT ![w] = NoCall] /\ CallOK(NoCall, batchSeq)
      BY <1>1, <1>6, NoCallOK DEF LoseCall, Return
    <2> QED
      BY <1>2, <1>3, <1>4, <2>1, QuietStep
  <1> QED
    BY <1>5, <1>6

LEMMA BridgeTypeStep ==
    ASSUME TypeOK, DocsOK, CallsOK, [BridgeNext]_allVars
    PROVE  TypeOK' /\ DocsOK' /\ CallsOK'
  <1>1. ASSUME UNCHANGED bridgeVars, [Next]_vars, batchSeq' = batchSeq
        PROVE  TypeOK' /\ DocsOK' /\ CallsOK'
    <2>1. TypeOK'
      BY <1>1, TypeStep
    <2>2. DocsOK' /\ CallsOK'
      BY <1>1 DEF bridgeVars, DocsOK, CallsOK
    <2> QED
      BY <2>1, <2>2
  <1>2. CASE Issue
    <2>1. Next /\ UNCHANGED bridgeVars /\ batchSeq' = batchSeq
      BY <1>2 DEF Issue, Next, TxStep, Begin, ReadProduct, Draw, OutOfStock, SaveProduct,
                  Commit, Abort
    <2> QED
      BY <1>1, <2>1
  <1>3. ASSUME NEW w \in Workers, Adjust(w)
        PROVE  TypeOK' /\ DocsOK' /\ CallsOK'
    <2>1. Next /\ UNCHANGED bridgeVars /\ batchSeq' = batchSeq
      BY <1>3 DEF Adjust, Next, JobStep, AdjustRead, AdjustSave, SaveQuantity
    <2> QED
      BY <1>1, <2>1
  <1>4. ASSUME NEW w \in Workers,
               \/ DeliveryStep(w) \/ ApprovalStep(w) \/ RemovalStep(w) \/ BootstrapStep(w)
               \/ LineFails(w) \/ LoseCall(w)
        PROVE  TypeOK' /\ DocsOK' /\ CallsOK'
    BY <1>4, DeliveryTypes, ApprovalTypes, RemovalTypes, BootstrapTypes, FailureTypes
  <1>5. CASE UNCHANGED allVars
    <2>1. UNCHANGED vars /\ UNCHANGED bridgeVars /\ batchSeq' = batchSeq
      BY <1>5 DEF allVars, vars
    <2> QED
      BY <1>1, <2>1
  <1> QED
    BY <1>2, <1>3, <1>4, <1>5 DEF BridgeNext

LEMMA BridgeInitTypes == BridgeInit => TypeOK /\ DocsOK /\ CallsOK
  <1> SUFFICES ASSUME BridgeInit PROVE TypeOK /\ DocsOK /\ CallsOK
    OBVIOUS
  <1>1. TypeOK /\ batchSeq = 0
    BY InitIInv DEF BridgeInit, IInv, Init
  <1>2. DocsOK
    <2>1. << >> \in Seq(Origin) /\ << >> \in Seq(BOOLEAN) /\ Len(<< >>) = 0
      BY EmptySeq
    <2> QED
      BY <1>1, <2>1 DEF BridgeInit, DocsOK
  <1>3. CallsOK
    <2>1. CallOK(NoCall, batchSeq)
      BY <1>1, NoCallOK
    <2> QED
      BY <2>1 DEF BridgeInit, CallsOK
  <1> QED
    BY <1>1, <1>2, <1>3

\* Batches, notes, invoices and the copies that requests hold keep their
\* types, whatever is received, matched, removed, bootstrapped and issued at
\* once and wherever a request dies: supplier-invoice-fifo-bridge.service.ts.
THEOREM BridgeTypesCorrect == BridgeSpec => []BridgeTypeOK
  <1> DEFINE T == TypeOK /\ DocsOK /\ CallsOK
  <1>1. BridgeInit => T
    BY BridgeInitTypes
  <1>2. T /\ [BridgeNext]_allVars => T'
    BY BridgeTypeStep
  <1>3. T => BridgeTypeOK
    BY BridgeTypes
  <1> QED
    BY <1>1, <1>2, <1>3, PTL DEF BridgeSpec

----------------------------------------------------------------------------
(* Costs.  A batch may be saved from an old copy, by a removal, long after  *)
(* it was matched with an invoice, and copies say of themselves whether the *)
(* batch had been matched.  So the invariant follows, for every batch of    *)
(* which anything says that it was ever matched, where an old cost can      *)
(* still be: in a row that is about to be saved, or in a batch that nothing *)
(* more can be drawn from.                                                 *)

Linked(i, b) ==
    /\ \E n \in NotesOf(i) : origin[b] = [type |-> "grn", ref |-> n]
    /\ batch[b].product = InvoiceLine[i].product

\* What invoices say the goods of a batch cost.
Agreed(b) == {InvoiceLine[i].cost : i \in {j \in Invoices : Linked(j, b)}}

Holds(c) == IF c.kind \in {"approve", "remove"} THEN DOMAIN c.copies ELSE {}

Recosts(c) ==
    IF c.kind = "approve" /\ c.at \in {"rows", "row"} THEN {Oldest(c.copies)} ELSE {}

\* Row k of batch b will be saved at the new cost.
Pending(c, b, k) ==
    /\ b \in Recosts(c)
    /\ c.at = "row" => \E j \in DOMAIN c.rows : c.rows[j] = k

\* Something says that the batch was matched with an invoice.
Says(c, b) == b \in Recosts(c) \/ (b \in Holds(c) /\ c.copies[b].reconciled)

Known(b) == reconciled[b] \/ \E w \in Workers : Says(call[w], b)

CopyRight(c, b) ==
    /\ c.copies[b].doc.product = batch[b].product
    /\ c.copies[b].reconciled => c.copies[b].doc.cost \in Agreed(b)
    /\ c.kind = "approve" => Linked(c.invoice, b)

CopiesRight == \A w \in Workers : \A b \in Holds(call[w]) : CopyRight(call[w], b)

ViewRight ==
    /\ txPhase = "idle" => DOMAIN view = {}
    /\ \A b \in DOMAIN view :
          /\ view[b].product = batch[b].product
          /\ BatchDoc(b) \notin touched =>
                /\ view[b].cost = batch[b].cost
                /\ BatchDoc(b) \in wrote => batch[b].remaining > 0
                /\ BatchDoc(b) \notin wrote => view[b].remaining = batch[b].remaining

MatchedIsAgreed == \A b \in 1..batchSeq : reconciled[b] => batch[b].cost \in Agreed(b)

KnownIsAgreed ==
    \A b \in 1..batchSeq :
        Known(b) => batch[b].cost \in Agreed(b) \/ batch[b].remaining = 0

RowRight(b, k) ==
    \/ rowCosts[b][k] \in Agreed(b)
    \/ \E w \in Workers : Pending(call[w], b, k)

RowsRight ==
    \A b \in 1..batchSeq :
        Known(b) /\ b \notin cutShort => \A k \in DOMAIN rowCosts[b] : RowRight(b, k)

CostInv == CopiesRight /\ ViewRight /\ MatchedIsAgreed /\ KnownIsAgreed /\ RowsRight

LEMMA HeldBatches ==
    ASSUME NEW n \in Nat, NEW c, CallOK(c, n)
    PROVE  Holds(c) \subseteq 1..n /\ Recosts(c) \subseteq Holds(c)
  <1>1. CASE c.kind = "approve"
    <2>1. PICK B \in SUBSET (1..n) :
             /\ c \in ApproveSet(B)
             /\ c.at \in {"recost", "rows", "row"} => B # {} /\ Oldest(c.copies) \in B
      BY <1>1, ApproveHolds
    <2>2. DOMAIN c.copies = B
      BY <2>1 DEF ApproveSet
    <2> QED
      BY <1>1, <2>1, <2>2 DEF Holds, Recosts
  <1>2. CASE c.kind = "remove"
    <2>1. PICK B \in SUBSET (1..n) : c \in RemoveSet(B)
      BY <1>2, RemoveHolds
    <2>2. DOMAIN c.copies = B
      BY <2>1 DEF RemoveSet
    <2> QED
      BY <1>2, <2>1, <2>2 DEF Holds, Recosts
  <1>3. CASE c.kind \notin {"approve", "remove"}
    BY <1>3 DEF Holds, Recosts
  <1> QED
    BY <1>1, <1>2, <1>3

\* A step by which a request goes on, and that changes no batch there is.
Onward(w, c) ==
    /\ \A b \in Holds(c) : b \in 1..batchSeq /\ CopyRight(c, b)
    /\ \A b \in 1..batchSeq : Says(c, b) => Known(b)
    /\ Recosts(c) \subseteq Recosts(call[w])
    /\ \A b \in 1..batchSeq : \A k \in DOMAIN rowCosts[b] :
          b \notin cutShort' /\ Pending(call[w], b, k) => Pending(c, b, k)

SameBatches ==
    /\ \A b \in 1..batchSeq : /\ batch'[b] = batch[b]
                              /\ origin'[b] = origin[b]
                              /\ reconciled'[b] = reconciled[b]
                              /\ rowCosts'[b] = rowCosts[b]
    /\ \A b \in 1..batchSeq' : b \in 1..batchSeq \/ ~reconciled'[b]

LEMMA OnwardCosts ==
    ASSUME TypeOK, CallsOK, CostInv, NEW w \in Workers, NEW c, Onward(w, c), SameBatches,
           call' = [call EXCEPT ![w] = c], cutShort \subseteq cutShort',
           batchSeq' \in Nat, batchSeq' >= batchSeq,
           UNCHANGED <<txPhase, view, wrote, touched>>
    PROVE  CostInv'
  <1>1. /\ batchSeq \in Nat /\ DOMAIN view \subseteq 1..batchSeq
        /\ \A v \in Workers : Holds(call[v]) \subseteq 1..batchSeq
        /\ \A v \in Workers : Recosts(call[v]) \subseteq 1..batchSeq
    <2>1. batchSeq \in Nat /\ DOMAIN view \subseteq 1..batchSeq
      BY ViewDomain
    <2>2. \A v \in Workers : CallOK(call[v], batchSeq)
      BY DEF CallsOK
    <2>3. \A v \in Workers : Holds(call[v]) \subseteq 1..batchSeq
                             /\ Recosts(call[v]) \subseteq Holds(call[v])
      BY <2>1, <2>2, HeldBatches
    <2> QED
      BY <2>1, <2>3
  <1>2. /\ DOMAIN call' = Workers /\ call'[w] = c
        /\ \A v \in Workers : v # w => call'[v] = call[v]
    BY DEF CallsOK
  <1>3. /\ \A b \in 1..batchSeq : Agreed(b)' = Agreed(b)
        /\ \A b \in 1..batchSeq : \A i : Linked(i, b)' = Linked(i, b)
    BY DEF SameBatches, Agreed, Linked
  <1>4. Recosts(c) \subseteq 1..batchSeq /\ Holds(c) \subseteq 1..batchSeq
    BY <1>1 DEF Onward
  <1>5. \A b \in 1..batchSeq' : Known(b)' => b \in 1..batchSeq /\ Known(b)
    <2> SUFFICES ASSUME NEW b \in 1..batchSeq', Known(b)'
                 PROVE  b \in 1..batchSeq /\ Known(b)
      OBVIOUS
    <2>1. CASE reconciled'[b]
      BY <2>1 DEF SameBatches, Known
    <2>2. ASSUME NEW v \in Workers, Says(call'[v], b)
          PROVE  b \in 1..batchSeq /\ Known(b)
      <3>1. b \in 1..batchSeq
        BY <1>1, <1>2, <1>4, <2>2 DEF Says
      <3>2. CASE v = w
        BY <1>2, <2>2, <3>1, <3>2 DEF Onward
      <3>3. CASE v # w
        BY <1>2, <2>2, <3>1, <3>3 DEF Known
      <3> QED
        BY <3>1, <3>2, <3>3
    <2> QED
      BY <2>1, <2>2 DEF Known
  <1>6. CopiesRight'
    <2> SUFFICES ASSUME NEW v \in Workers, NEW b \in Holds(call[v])'
                 PROVE  CopyRight(call[v], b)'
      BY DEF CopiesRight
    <2>1. b \in Holds(call'[v])
      BY DEF Holds
    <2>2. b \in 1..batchSeq /\ CopyRight(call'[v], b)
      <3>1. CASE v = w
        BY <1>2, <2>1, <3>1 DEF Onward
      <3>2. CASE v # w
        BY <1>1, <1>2, <2>1, <3>2 DEF CostInv, CopiesRight
      <3> QED
        BY <3>1, <3>2
    <2> QED
      BY <1>3, <2>2 DEF CopyRight, SameBatches
  <1>7. ViewRight'
    <2>1. \A b \in DOMAIN view : batch'[b] = batch[b]
      BY <1>1 DEF SameBatches
    <2> QED
      BY <2>1 DEF CostInv, ViewRight
  <1>8. MatchedIsAgreed'
    BY <1>3 DEF CostInv, MatchedIsAgreed, SameBatches
  <1>9. KnownIsAgreed'
    BY <1>3, <1>5 DEF CostInv, KnownIsAgreed, SameBatches
  <1>10. RowsRight'
    <2> SUFFICES ASSUME NEW b \in 1..batchSeq', Known(b)', b \notin cutShort',
                        NEW k \in DOMAIN rowCosts'[b]
                 PROVE  RowRight(b, k)'
      BY DEF RowsRight
    <2>1. b \in 1..batchSeq /\ Known(b) /\ b \notin cutShort /\ rowCosts'[b] = rowCosts[b]
      BY <1>5 DEF SameBatches
    <2>2. RowRight(b, k)
      BY <2>1 DEF CostInv, RowsRight
    <2>3. CASE rowCosts[b][k] \in Agreed(b)
      BY <1>3, <2>1, <2>3 DEF RowRight
    <2>4. ASSUME NEW v \in Workers, Pending(call[v], b, k)
          PROVE  Pending(call'[v], b, k)
      BY <1>2, <2>1, <2>4 DEF Onward
    <2> QED
      BY <2>2, <2>3, <2>4 DEF RowRight
  <1> QED
    BY <1>6, <1>7, <1>8, <1>9, <1>10 DEF CostInv

LEMMA QuietCosts ==
    ASSUME TypeOK, CallsOK, CostInv, NEW w \in Workers, NEW c, Onward(w, c),
           UNCHANGED <<stockVars, txVars, origin, reconciled>>,
           call' = [call EXCEPT ![w] = c], cutShort \subseteq cutShort'
    PROVE  CostInv'
  <1>1. SameBatches
    BY DEF SameBatches
  <1>2. batchSeq' \in Nat /\ batchSeq' >= batchSeq
    BY DEF TypeOK, StoreTypeOK
  <1> QED
    BY <1>1, <1>2, OnwardCosts

\* A request that ends, or begins: it holds nothing.
LEMMA HoldsNothing ==
    ASSUME NEW w \in Workers, NEW c, Holds(c) = {}, Recosts(c) = {},
           Recosts(call[w]) \subseteq cutShort'
    PROVE  Onward(w, c)
  BY DEF Onward, Says, Pending

LEMMA NoCallHolds == Holds(NoCall) = {} /\ Recosts(NoCall) = {}
  BY DEF Holds, Recosts, NoCall

\* A request that goes on with the copies it has.
LEMMA HoldsTheSame ==
    ASSUME CallsOK, batchSeq \in Nat, CostInv, NEW w \in Workers, NEW c,
           Holds(c) \subseteq Holds(call[w]),
           \A b \in Holds(c) : c.copies[b] = call[w].copies[b],
           c.kind = call[w].kind, c.kind = "approve" => c.invoice = call[w].invoice,
           Recosts(c) = {}, Recosts(call[w]) \subseteq cutShort'
    PROVE  Onward(w, c)
  <1>1. \A b \in Holds(c) : b \in 1..batchSeq /\ CopyRight(c, b)
    <2>1. Holds(call[w]) \subseteq 1..batchSeq
      BY HeldBatches DEF CallsOK
    <2>2. \A b \in Holds(call[w]) : CopyRight(call[w], b)
      BY DEF CostInv, CopiesRight
    <2> QED
      BY <2>1, <2>2 DEF CopyRight
  <1>2. \A b \in 1..batchSeq : Says(c, b) => Known(b)
    BY DEF Says, Known
  <1> QED
    BY <1>1, <1>2 DEF Onward, Pending

\* A step to another await, where the request re-costs nothing.
LEMMA GoesOn ==
    ASSUME TypeOK, CallsOK, CostInv, NEW w \in Workers, NEW at, at \notin {"rows", "row"},
           call[w].kind # "none", GoTo(w, at), Recosts(call[w]) \subseteq cutShort'
    PROVE  /\ Onward(w, [call[w] EXCEPT !.at = at])
           /\ call' = [call EXCEPT ![w] = [call[w] EXCEPT !.at = at]]
  <1> DEFINE c == [call[w] EXCEPT !.at = at]
  <1>1. PICK B \in SUBSET (1..batchSeq) : call[w] \in Call(B)
    BY DEF CallsOK, CallOK
  <1>2. /\ c.kind = call[w].kind
        /\ c.kind \in {"approve", "remove"} => c.copies = call[w].copies
        /\ c.kind = "approve" => c.invoice = call[w].invoice /\ c.at = at
    <2>1. CASE call[w].kind = "deliver"
      <3>1. call[w] \in DeliverSet
        BY <1>1, <2>1, CallKinds
      <3> QED
        BY <3>1 DEF DeliverSet
    <2>2. CASE call[w].kind = "approve"
      <3>1. call[w] \in ApproveSet(B)
        BY <1>1, <2>2, CallKinds DEF ApproveSet
      <3> QED
        BY <3>1 DEF ApproveSet
    <2>3. CASE call[w].kind = "remove"
      <3>1. call[w] \in RemoveSet(B)
        BY <1>1, <2>3, CallKinds DEF RemoveSet
      <3> QED
        BY <3>1 DEF RemoveSet
    <2>4. CASE call[w].kind = "bootstrap"
      <3>1. call[w] \in [kind : {"bootstrap"}, at : {"check", "create"}, product : Products,
                         copy : Nat]
        BY <1>1, <2>4, CallKinds
      <3> QED
        BY <3>1
    <2>5. call[w].kind \in {"none", "deliver", "approve", "remove", "bootstrap"}
      BY <1>1 DEF Call, NoCall
    <2> QED
      BY <2>1, <2>2, <2>3, <2>4, <2>5
  <1> HIDE DEF c
  <1>3. Holds(c) = Holds(call[w]) /\ Recosts(c) = {}
        /\ \A b \in Holds(c) : c.copies[b] = call[w].copies[b]
    BY <1>2 DEF Holds, Recosts
  <1>4. batchSeq \in Nat
    BY DEF TypeOK, StoreTypeOK
  <1>5. Onward(w, c)
    BY <1>2, <1>3, <1>4, HoldsTheSame
  <1> QED
    BY <1>5 DEF c, GoTo

LEMMA AppendFalse ==
    ASSUME NEW s \in Seq(BOOLEAN)
    PROVE  /\ \A b \in 1..Len(s) : Append(s, FALSE)[b] = s[b]
           /\ Append(s, FALSE)[Len(s) + 1] = FALSE
  OBVIOUS

\* A batch received is not matched, and leaves the others as they are.
LEMMA ReceiveSame ==
    ASSUME TypeOK, DocsOK, NEW p, NEW date, NEW amount, NEW cost, NEW source,
           Receive(p, date, amount, cost, source)
    PROVE  /\ SameBatches /\ batchSeq' \in Nat /\ batchSeq' >= batchSeq
           /\ UNCHANGED <<txPhase, view, wrote, touched, cutShort>>
  <1>1. batchSeq \in Nat /\ batchSeq' = batchSeq + 1
    BY DEF TypeOK, StoreTypeOK, Receive, CreateBatch
  <1>2. \A b \in 1..batchSeq : batch'[b] = batch[b] /\ rowCosts'[b] = rowCosts[b]
    BY <1>1 DEF Receive, CreateBatch
  <1>3. /\ reconciled \in Seq(BOOLEAN) /\ Len(reconciled) = batchSeq
        /\ reconciled' = Append(reconciled, FALSE)
    BY DEF Receive, DocsOK
  <1>4. (\A b \in 1..batchSeq : reconciled'[b] = reconciled[b]) /\ reconciled'[batchSeq + 1] = FALSE
    <2>1. /\ \A b \in 1..Len(reconciled) : Append(reconciled, FALSE)[b] = reconciled[b]
          /\ Append(reconciled, FALSE)[Len(reconciled) + 1] = FALSE
      BY <1>3, AppendFalse
    <2> QED
      BY <1>3, <2>1
  <1>5. \A b \in 1..batchSeq : origin'[b] = origin[b]
    BY <1>1 DEF Receive, DocsOK
  <1>6. \A b \in 1..batchSeq' : b \in 1..batchSeq \/ b = batchSeq + 1
    BY <1>1
  <1>7. SameBatches
    BY <1>2, <1>4, <1>5, <1>6 DEF SameBatches
  <1> QED
    BY <1>1, <1>7 DEF Receive

LEMMA DeliveryCosts ==
    ASSUME TypeOK, DocsOK, CallsOK, CostInv, NEW w \in Workers, DeliveryStep(w)
    PROVE  CostInv'
  <1>1. batchSeq \in Nat /\ DOMAIN call = Workers /\ CallOK(call[w], batchSeq)
    BY DEF TypeOK, StoreTypeOK, CallsOK
  <1>2. CASE LinkDelivery(w)
    <2>1. PICK n \in Notes :
            call' = [call EXCEPT ![w] = [kind |-> "deliver", at |-> "invoices", note |-> n,
                                         invoices |-> {}]]
      BY <1>2 DEF LinkDelivery
    <2> DEFINE c == [kind |-> "deliver", at |-> "invoices", note |-> n, invoices |-> {}]
    <2>2. Holds(c) = {} /\ Recosts(c) = {} /\ Recosts(call[w]) = {}
      BY <1>2 DEF Holds, Recosts, LinkDelivery, NoCall
    <2>3. call' = [call EXCEPT ![w] = c]
      BY <2>1
    <2>4. UNCHANGED <<stockVars, txVars, origin, reconciled, cutShort>>
      BY <1>2 DEF LinkDelivery, vars
    <2> HIDE DEF c
    <2>5. Onward(w, c)
      BY <2>2, HoldsNothing
    <2> QED
      BY <2>3, <2>4, <2>5, QuietCosts
  <1>5. CASE FindInvoices(w)
    <2>1. /\ UNCHANGED <<stockVars, txVars, origin, reconciled, cutShort>>
          /\ call[w].kind = "deliver" /\ Recosts(call[w]) = {}
      BY <1>5 DEF FindInvoices, vars, Step, Recosts
    <2>2. PICK found : call' = [call EXCEPT ![w].at = "lines", ![w].invoices = found]
      BY <1>5 DEF FindInvoices
    <2> DEFINE c == [call[w] EXCEPT !.at = "lines", !.invoices = found]
    <2>3. call[w] \in DeliverSet
      BY <1>1, <2>1, CallKinds DEF CallOK
    <2>4. c.kind = "deliver"
      BY <2>1, <2>3 DEF DeliverSet
    <2>5. call' = [call EXCEPT ![w] = c]
      BY <1>1, <2>2
    <2> HIDE DEF c
    <2>6. Holds(c) = {} /\ Recosts(c) = {}
      BY <2>4 DEF Holds, Recosts
    <2>7. Onward(w, c)
      BY <2>1, <2>6, HoldsNothing
    <2> QED
      BY <2>1, <2>5, <2>7, QuietCosts
  <1>3. CASE ReadLines(w) \/ CheckDelivery(w)
    <2>1. /\ UNCHANGED <<stockVars, txVars, origin, reconciled, cutShort>>
          /\ call[w].kind = "deliver" /\ Recosts(call[w]) = {}
      BY <1>3 DEF ReadLines, CheckDelivery, vars, Step, Recosts
    <2>2. CASE Return(w)
      <3>1. Onward(w, NoCall)
        BY <2>1, NoCallHolds, HoldsNothing
      <3> QED
        BY <2>1, <2>2, <3>1, QuietCosts DEF Return
    <2>3. ASSUME NEW at \in {"check", "create"}, GoTo(w, at) PROVE CostInv'
      <3>1. /\ Onward(w, [call[w] EXCEPT !.at = at])
            /\ call' = [call EXCEPT ![w] = [call[w] EXCEPT !.at = at]]
        BY <2>1, <2>3, GoesOn
      <3> QED
        BY <2>1, <3>1, QuietCosts
    <2> QED
      BY <1>3, <2>2, <2>3 DEF ReadLines, CheckDelivery
  <1>4. CASE ReceiveDelivery(w)
    <2>1. /\ call' = [call EXCEPT ![w] = NoCall] /\ Recosts(call[w]) = {}
          /\ SameBatches /\ batchSeq' \in Nat /\ batchSeq' >= batchSeq
          /\ UNCHANGED <<txPhase, view, wrote, touched, cutShort>>
      BY <1>4, ReceiveSame DEF ReceiveDelivery, Return, Step, Recosts
    <2>2. Onward(w, NoCall)
      BY <2>1, NoCallHolds, HoldsNothing
    <2> QED
      BY <2>1, <2>2, OnwardCosts
  <1> QED
    BY <1>2, <1>3, <1>4, <1>5 DEF DeliveryStep

LEMMA BootstrapCosts ==
    ASSUME TypeOK, DocsOK, CallsOK, CostInv, NEW w \in Workers, BootstrapStep(w)
    PROVE  CostInv'
  <1>1. batchSeq \in Nat /\ DOMAIN call = Workers
    BY DEF TypeOK, StoreTypeOK, CallsOK
  <1>2. CASE BootstrapRead(w)
    <2>1. PICK p \in Products :
            call' = [call EXCEPT ![w] = [kind |-> "bootstrap", at |-> "check", product |-> p,
                                         copy |-> quantity[p]]]
      BY <1>2 DEF BootstrapRead
    <2> DEFINE c == [kind |-> "bootstrap", at |-> "check", product |-> p, copy |-> quantity[p]]
    <2>2. Holds(c) = {} /\ Recosts(c) = {} /\ Recosts(call[w]) = {}
      BY <1>2 DEF Holds, Recosts, BootstrapRead, NoCall
    <2>3. call' = [call EXCEPT ![w] = c]
      BY <2>1
    <2>4. UNCHANGED <<stockVars, txVars, origin, reconciled, cutShort>>
      BY <1>2 DEF BootstrapRead, vars
    <2> HIDE DEF c
    <2>5. Onward(w, c)
      BY <2>2, HoldsNothing
    <2> QED
      BY <2>3, <2>4, <2>5, QuietCosts
  <1>3. CASE BootstrapCheck(w)
    <2>1. /\ UNCHANGED <<stockVars, txVars, origin, reconciled, cutShort>>
          /\ call[w].kind = "bootstrap" /\ Recosts(call[w]) = {}
      BY <1>3 DEF BootstrapCheck, vars, Step, Recosts
    <2>2. CASE Return(w)
      <3>1. Onward(w, NoCall)
        BY <2>1, NoCallHolds, HoldsNothing
      <3> QED
        BY <2>1, <2>2, <3>1, QuietCosts DEF Return
    <2>3. CASE GoTo(w, "create")
      <3>1. /\ Onward(w, [call[w] EXCEPT !.at = "create"])
            /\ call' = [call EXCEPT ![w] = [call[w] EXCEPT !.at = "create"]]
        BY <2>1, <2>3, GoesOn
      <3> QED
        BY <2>1, <3>1, QuietCosts
    <2> QED
      BY <1>3, <2>2, <2>3 DEF BootstrapCheck
  <1>4. CASE BootstrapCreate(w)
    <2>1. /\ call' = [call EXCEPT ![w] = NoCall] /\ Recosts(call[w]) = {}
          /\ SameBatches /\ batchSeq' \in Nat /\ batchSeq' >= batchSeq
          /\ UNCHANGED <<txPhase, view, wrote, touched, cutShort>>
      BY <1>4, ReceiveSame DEF BootstrapCreate, Return, Step, Recosts
    <2>2. Onward(w, NoCall)
      BY <2>1, NoCallHolds, HoldsNothing
    <2> QED
      BY <2>1, <2>2, OnwardCosts
  <1> QED
    BY <1>2, <1>3, <1>4 DEF BootstrapStep

LEMMA FailureCosts ==
    ASSUME TypeOK, DocsOK, CallsOK, CostInv, NEW w \in Workers, LineFails(w) \/ LoseCall(w)
    PROVE  CostInv'
  <1>1. /\ UNCHANGED <<stockVars, txVars, origin, reconciled>>
        /\ cutShort \subseteq cutShort' /\ Recosts(call[w]) \subseteq cutShort'
    BY DEF LineFails, LoseCall, Recosts, Recosting
  <1>2. CASE LineFails(w)
    <2>1. call[w].kind = "approve" /\ GoTo(w, "complete")
      BY <1>2 DEF LineFails
    <2>2. /\ Onward(w, [call[w] EXCEPT !.at = "complete"])
          /\ call' = [call EXCEPT ![w] = [call[w] EXCEPT !.at = "complete"]]
      BY <1>1, <2>1, GoesOn
    <2> QED
      BY <1>1, <2>2, QuietCosts
  <1>3. CASE LoseCall(w)
    <2>1. Onward(w, NoCall)
      BY <1>1, NoCallHolds, HoldsNothing
    <2>2. call' = [call EXCEPT ![w] = NoCall]
      BY <1>3 DEF LoseCall, Return
    <2> QED
      BY <1>1, <2>1, <2>2, QuietCosts
  <1> QED
    BY <1>2, <1>3

\* Which invoices a batch is linked to depends on its product and origin.
LEMMA SameLinks ==
    ASSUME \A b \in 1..batchSeq : batch'[b].product = batch[b].product,
           UNCHANGED origin
    PROVE  /\ \A b \in 1..batchSeq : Agreed(b)' = Agreed(b)
           /\ \A b \in 1..batchSeq : \A i : Linked(i, b)' = Linked(i, b)
  <1>1. \A b \in 1..batchSeq : \A i : Linked(i, b)' <=> Linked(i, b)
    BY DEF Linked
  <1>2. \A b \in 1..batchSeq : Agreed(b)' = Agreed(b)
    BY DEF Agreed, Linked
  <1>3. \A b \in 1..batchSeq : \A i : Linked(i, b)' = Linked(i, b)
    BY <1>1 DEF Linked
  <1> QED
    BY <1>2, <1>3

\* A copy is saved: by an approval, at the cost of the invoice, or by a
\* removal, at whatever cost it was read with and with nothing left.
LEMMA SaveCosts ==
    ASSUME TypeOK, DocsOK, CallsOK, CostInv, NEW w \in Workers, NEW c,
           NEW o \in Holds(call[w]), NEW copy \in Copy, SaveBatch(o, copy),
           call' = [call EXCEPT ![w] = c], Recosts(call[w]) = {},
           Holds(c) \subseteq Holds(call[w]), c.kind = call[w].kind \/ Holds(c) = {},
           \A b \in Holds(c) : c.copies[b] = call[w].copies[b],
           c.kind = "approve" => c.invoice = call[w].invoice,
           copy.doc.product = batch[o].product,
           copy.reconciled => copy.doc.cost \in Agreed(o),
           copy.doc.cost \in Agreed(o) \/ copy.doc.remaining = 0,
           \/ Recosts(c) = {o} /\ c.at = "rows"
           \/ Recosts(c) = {} /\ (copy.reconciled => Known(o))
    PROVE  CostInv'
  <1>1. /\ batchSeq \in Nat /\ DOMAIN view \subseteq 1..batchSeq
        /\ \A v \in Workers : Holds(call[v]) \subseteq 1..batchSeq
        /\ o \in 1..batchSeq
    <2>1. batchSeq \in Nat /\ DOMAIN view \subseteq 1..batchSeq
      BY ViewDomain
    <2>2. \A v \in Workers : CallOK(call[v], batchSeq)
      BY DEF CallsOK
    <2> QED
      BY <2>1, <2>2, HeldBatches
  <1>2. /\ DOMAIN call' = Workers /\ call'[w] = c
        /\ \A v \in Workers : v # w => call'[v] = call[v]
    BY DEF CallsOK
  <1>3. /\ batchSeq' = batchSeq
        /\ batch' = [batch EXCEPT ![o] = copy.doc] /\ batch'[o] = copy.doc
        /\ \A b \in 1..batchSeq : b # o => batch'[b] = batch[b]
        /\ \A b \in 1..batchSeq : batch'[b].product = batch[b].product
    <2>1. batch' = [batch EXCEPT ![o] = copy.doc] /\ batchSeq' = batchSeq
      BY DEF SaveBatch
    <2>2. DOMAIN batch = 1..batchSeq
      BY DEF TypeOK, StoreTypeOK
    <2> QED
      BY <1>1, <2>1, <2>2
  <1>4. /\ reconciled'[o] = copy.reconciled
        /\ \A b \in 1..batchSeq : b # o => reconciled'[b] = reconciled[b]
    <2>1. reconciled' = [reconciled EXCEPT ![o] = copy.reconciled]
      BY DEF SaveBatch
    <2>2. DOMAIN reconciled = 1..batchSeq
      BY LenProperties DEF DocsOK
    <2> QED
      BY <1>1, <2>1, <2>2
  <1>5. UNCHANGED <<origin, rowCosts, txPhase, view, wrote, cutShort>>
    BY DEF SaveBatch
  <1>6. /\ \A b \in 1..batchSeq : Agreed(b)' = Agreed(b)
        /\ \A b \in 1..batchSeq : \A i : Linked(i, b)' = Linked(i, b)
    BY <1>3, <1>5, SameLinks
  <1>7. \A b \in 1..batchSeq : b # o /\ Known(b)' => Known(b)
    <2> SUFFICES ASSUME NEW b \in 1..batchSeq, b # o, Known(b)'
                 PROVE  Known(b)
      OBVIOUS
    <2>1. CASE reconciled'[b]
      BY <1>4, <2>1 DEF Known
    <2>2. ASSUME NEW v \in Workers, Says(call'[v], b)
          PROVE  Known(b)
      <3>1. Says(call[v], b)
        BY <1>2, <2>2 DEF Says
      <3> QED
        BY <3>1 DEF Known
    <2> QED
      BY <2>1, <2>2 DEF Known
  <1>8. Recosts(c) = {} /\ Known(o)' => Known(o)
    <2> SUFFICES ASSUME Recosts(c) = {}, Known(o)'
                 PROVE  Known(o)
      OBVIOUS
    <2>1. CASE reconciled'[o]
      BY <1>4, <2>1
    <2>2. ASSUME NEW v \in Workers, Says(call'[v], o)
          PROVE  Known(o)
      <3>1. Says(call[v], o)
        BY <1>2, <2>2 DEF Says
      <3> QED
        BY <3>1 DEF Known
    <2> QED
      BY <2>1, <2>2 DEF Known
  <1>9. CopiesRight'
    <2> SUFFICES ASSUME NEW v \in Workers, NEW b \in Holds(call[v])'
                 PROVE  CopyRight(call[v], b)'
      BY DEF CopiesRight
    <2>1. b \in Holds(call'[v])
      BY DEF Holds
    <2>2. b \in 1..batchSeq /\ CopyRight(call'[v], b)
      <3>1. CASE v = w
        <4>1. b \in Holds(call[w]) /\ CopyRight(call[w], b) /\ call'[v] = c
          BY <1>2, <2>1, <3>1 DEF CostInv, CopiesRight
        <4> QED
          BY <1>1, <2>1, <4>1 DEF CopyRight
      <3>2. CASE v # w
        BY <1>1, <1>2, <2>1, <3>2 DEF CostInv, CopiesRight
      <3> QED
        BY <3>1, <3>2
    <2> QED
      BY <1>3, <1>6, <2>2 DEF CopyRight
  <1>10. ViewRight'
    <2>1. CASE txPhase = "idle"
      BY <1>5, <2>1 DEF CostInv, ViewRight
    <2>2. CASE txPhase # "idle"
      <3>1. touched' = touched \cup {BatchDoc(o)}
        BY <2>2 DEF SaveBatch
      <3>2. \A b \in DOMAIN view : BatchDoc(b) \notin touched' =>
               BatchDoc(b) \notin touched /\ batch'[b] = batch[b]
        BY <1>1, <1>3, <3>1
      <3>3. \A b \in DOMAIN view : view[b].product = batch'[b].product
        BY <1>1, <1>3 DEF CostInv, ViewRight
      <3> QED
        BY <1>5, <2>2, <3>2, <3>3 DEF CostInv, ViewRight
    <2> QED
      BY <2>1, <2>2
  <1>11. MatchedIsAgreed'
    <2> SUFFICES ASSUME NEW b \in 1..batchSeq, reconciled'[b]
                 PROVE  batch'[b].cost \in Agreed(b)
      BY <1>3, <1>6 DEF MatchedIsAgreed
    <2>1. CASE b = o
      BY <1>3, <1>4, <2>1
    <2>2. CASE b # o
      BY <1>3, <1>4, <2>2 DEF CostInv, MatchedIsAgreed
    <2> QED
      BY <2>1, <2>2
  <1>12. KnownIsAgreed'
    <2> SUFFICES ASSUME NEW b \in 1..batchSeq, Known(b)'
                 PROVE  batch'[b].cost \in Agreed(b) \/ batch'[b].remaining = 0
      BY <1>3, <1>6 DEF KnownIsAgreed
    <2>1. CASE b = o
      BY <1>3, <2>1
    <2>2. CASE b # o
      BY <1>3, <1>7, <2>2 DEF CostInv, KnownIsAgreed
    <2> QED
      BY <2>1, <2>2
  <1>13. RowsRight'
    <2> SUFFICES ASSUME NEW b \in 1..batchSeq, Known(b)', b \notin cutShort,
                        NEW k \in DOMAIN rowCosts[b]
                 PROVE  RowRight(b, k)'
      BY <1>3, <1>5 DEF RowsRight
    <2>1. ASSUME Known(b) PROVE RowRight(b, k)'
      <3>1. RowRight(b, k)
        BY <2>1 DEF CostInv, RowsRight
      <3>2. CASE rowCosts[b][k] \in Agreed(b)
        BY <1>5, <1>6, <3>2 DEF RowRight
      <3>3. ASSUME NEW v \in Workers, Pending(call[v], b, k)
            PROVE  Pending(call'[v], b, k)
        <4>1. v # w
          BY <3>3 DEF Pending
        <4> QED
          BY <1>2, <3>3, <4>1
      <3> QED
        BY <3>1, <3>2, <3>3 DEF RowRight
    <2>2. CASE b # o
      BY <1>7, <2>1, <2>2
    <2>3. CASE b = o /\ Recosts(c) = {}
      BY <1>8, <2>1, <2>3
    <2>4. CASE b = o /\ Recosts(c) = {o} /\ c.at = "rows"
      <3>1. Pending(call'[w], b, k)
        BY <1>2, <2>4 DEF Pending
      <3> QED
        BY <3>1 DEF RowRight
    <2> QED
      BY <2>2, <2>3, <2>4
  <1> QED
    BY <1>9, <1>10, <1>11, <1>12, <1>13 DEF CostInv

LEMMA TailHas ==
    ASSUME NEW s \in Seq(Nat), s # << >>, NEW j \in DOMAIN s, j # 1
    PROVE  j - 1 \in DOMAIN Tail(s) /\ Tail(s)[j - 1] = s[j]
  <1>1. DOMAIN s = 1..Len(s) /\ Len(s) \in Nat
    OBVIOUS
  <1>2. Len(Tail(s)) = Len(s) - 1 /\ \A n \in 1..Len(Tail(s)) : Tail(s)[n] = s[n + 1]
    OBVIOUS
  <1>3. Tail(s) \in Seq(Nat)
    OBVIOUS
  <1>4. DOMAIN Tail(s) = 1..Len(Tail(s))
    BY <1>3
  <1>5. j - 1 \in 1..Len(Tail(s)) /\ (j - 1) + 1 = j
    BY <1>1, <1>2
  <1> QED
    BY <1>2, <1>4, <1>5

\* The rows of a batch are read, and one after the other saved.
LEMMA RowCosts ==
    ASSUME TypeOK, DocsOK, CallsOK, CostInv, NEW w \in Workers, RecostRow(w)
    PROVE  CostInv'
  <1>1. /\ batchSeq \in Nat /\ DOMAIN call = Workers /\ CallOK(call[w], batchSeq)
        /\ DOMAIN rowCosts = 1..batchSeq
    BY DEF TypeOK, StoreTypeOK, CallsOK
  <1>2. call[w].kind = "approve" /\ call[w].at = "row" /\ call[w].rows # << >>
    BY DEF RecostRow, Step
  <1>3. PICK B \in SUBSET (1..batchSeq) :
          call[w] \in ApproveSet(B) /\ B # {} /\ Oldest(call[w].copies) \in B
    BY <1>1, <1>2, ApproveHolds
  <1> DEFINE o == Oldest(call[w].copies)
             i == call[w].invoice
             rows == call[w].rows
             c == [call[w] EXCEPT !.rows = Tail(rows)]
  <1>4. /\ c.kind = "approve" /\ c.at = "row" /\ c.copies = call[w].copies /\ c.invoice = i
        /\ c.rows = Tail(rows)
        /\ rows \in Seq(Nat) /\ rows # << >> /\ DOMAIN call[w].copies = B
    BY <1>2, <1>3 DEF ApproveSet
  <1>5. /\ call' = [call EXCEPT ![w] = c]
        /\ rowCosts' = [rowCosts EXCEPT ![o][Head(rows)] = InvoiceLine[i].cost]
        /\ UNCHANGED <<batchSeq, batch, origin, reconciled, txPhase, view, wrote, touched,
                       cutShort>>
    BY DEF RecostRow
  <1>6. o \in 1..batchSeq /\ InvoiceLine[i].cost \in Agreed(o)
    <2>1. o \in Holds(call[w])
      BY <1>2, <1>3, <1>4 DEF Holds
    <2>2. CopyRight(call[w], o)
      BY <2>1 DEF CostInv, CopiesRight
    <2>3. i \in Invoices /\ Linked(i, o)
      BY <1>2, <1>3, <2>2 DEF CopyRight, ApproveSet
    <2> QED
      BY <1>3, <2>3 DEF Agreed
  <1>7. /\ Holds(c) = Holds(call[w]) /\ Recosts(c) = {o} /\ Recosts(call[w]) = {o}
        /\ \A b : Says(c, b) <=> Says(call[w], b)
        /\ \A b : CopyRight(c, b) <=> CopyRight(call[w], b)
    BY <1>2, <1>4 DEF Holds, Recosts, Says, CopyRight
  <1> HIDE DEF c
  <1>8. /\ call'[w] = c
        /\ \A v \in Workers : v # w => call'[v] = call[v]
    BY <1>1, <1>5
  <1>9. /\ \A b \in 1..batchSeq : Agreed(b)' = Agreed(b)
        /\ \A b \in 1..batchSeq : \A j : Linked(j, b)' = Linked(j, b)
    BY <1>5, SameLinks
  <1>10. \A b : Known(b)' => Known(b)
    BY <1>5, <1>7, <1>8 DEF Known
  <1>11. CopiesRight'
    <2> SUFFICES ASSUME NEW v \in Workers, NEW b \in Holds(call[v])'
                 PROVE  CopyRight(call[v], b)'
      BY DEF CopiesRight
    <2>1. b \in Holds(call'[v])
      BY DEF Holds
    <2>2. b \in Holds(call[v]) /\ (CopyRight(call'[v], b) <=> CopyRight(call[v], b))
      <3>1. CASE v = w
        BY <1>7, <1>8, <2>1, <3>1
      <3>2. CASE v # w
        BY <1>8, <2>1, <3>2
      <3> QED
        BY <3>1, <3>2
    <2>3. b \in 1..batchSeq /\ CopyRight(call'[v], b)
      <3>1. Holds(call[v]) \subseteq 1..batchSeq
        BY <1>1, HeldBatches DEF CallsOK
      <3> QED
        BY <2>2, <3>1 DEF CostInv, CopiesRight
    <2> QED
      BY <1>5, <1>9, <2>3 DEF CopyRight
  <1>12. ViewRight'
    BY <1>5 DEF CostInv, ViewRight
  <1>13. MatchedIsAgreed'
    BY <1>5, <1>9 DEF CostInv, MatchedIsAgreed
  <1>14. KnownIsAgreed'
    BY <1>5, <1>9, <1>10 DEF CostInv, KnownIsAgreed
  <1>15. RowsRight'
    <2> SUFFICES ASSUME NEW b \in 1..batchSeq, Known(b)', b \notin cutShort,
                        NEW k \in DOMAIN rowCosts'[b]
                 PROVE  RowRight(b, k)'
      BY <1>5 DEF RowsRight
    <2>1. /\ k \in DOMAIN rowCosts[b]
          /\ rowCosts'[b][k] = rowCosts[b][k] \/ (b = o /\ k = Head(rows)
                                                  /\ rowCosts'[b][k] = InvoiceLine[i].cost)
      <3> DEFINE new == [rowCosts[o] EXCEPT ![Head(rows)] = InvoiceLine[i].cost]
      <3>1. rowCosts' = [rowCosts EXCEPT ![o] = new]
        BY <1>5
      <3>2. DOMAIN new = DOMAIN rowCosts[o]
        OBVIOUS
      <3>3. \A j \in DOMAIN rowCosts[o] :
               new[j] = rowCosts[o][j] \/ (j = Head(rows) /\ new[j] = InvoiceLine[i].cost)
        OBVIOUS
      <3> HIDE DEF new
      <3>4. CASE b = o
        BY <1>1, <1>6, <3>1, <3>2, <3>3, <3>4
      <3>5. CASE b # o
        BY <1>1, <1>6, <3>1, <3>5
      <3> QED
        BY <3>4, <3>5
    <2>2. CASE b = o /\ k = Head(rows) /\ rowCosts'[b][k] = InvoiceLine[i].cost
      BY <1>6, <1>9, <2>2 DEF RowRight
    <2>3. CASE rowCosts'[b][k] = rowCosts[b][k] /\ ~(b = o /\ k = Head(rows))
      <3>1. RowRight(b, k)
        BY <1>10, <2>1 DEF CostInv, RowsRight
      <3>2. CASE rowCosts[b][k] \in Agreed(b)
        BY <1>9, <2>3, <3>2 DEF RowRight
      <3>3. ASSUME NEW v \in Workers, Pending(call[v], b, k)
            PROVE  Pending(call'[v], b, k)
        <4>1. CASE v = w
          <5>1. b = o /\ \E j \in DOMAIN rows : rows[j] = k
            BY <1>2, <1>7, <3>3, <4>1 DEF Pending
          <5>2. PICK j \in DOMAIN rows : rows[j] = k
            BY <5>1
          <5>3. j - 1 \in DOMAIN Tail(rows) /\ Tail(rows)[j - 1] = rows[j]
            <6>1. j # 1
              BY <1>4, <2>3, <5>1, <5>2
            <6> QED
              BY <1>4, <5>2, <6>1, TailHas
          <5> QED
            BY <1>4, <1>7, <1>8, <4>1, <5>1, <5>2, <5>3 DEF Pending
        <4>2. CASE v # w
          BY <1>8, <3>3, <4>2
        <4> QED
          BY <4>1, <4>2
      <3> QED
        BY <3>1, <3>2, <3>3 DEF RowRight
    <2>4. CASE rowCosts'[b][k] = rowCosts[b][k] /\ b = o /\ k = Head(rows)
      BY <1>1, <1>6, <1>5, <2>1, <2>2, <2>4
    <2> QED
      BY <2>1, <2>2, <2>3, <2>4
  <1> QED
    BY <1>11, <1>12, <1>13, <1>14, <1>15 DEF CostInv

\* The first and the last steps of an approval hold no batch.
LEMMA ApproveReadCosts ==
    ASSUME TypeOK, DocsOK, CallsOK, CostInv, NEW w \in Workers, ApproveRead(w)
    PROVE  CostInv'
  <1>1. PICK i \in Invoices, at \in {"complete", "price"} :
          call' = [call EXCEPT ![w] = [kind |-> "approve", at |-> at, invoice |-> i,
                                       copies |-> << >>, rows |-> << >>]]
    BY DEF ApproveRead
  <1> DEFINE c == [kind |-> "approve", at |-> at, invoice |-> i, copies |-> << >>,
                   rows |-> << >>]
  <1>2. Holds(c) = {} /\ Recosts(c) = {}
    <2>1. c.kind = "approve" /\ c.at \notin {"rows", "row"} /\ c.copies = << >>
      OBVIOUS
    <2>2. DOMAIN << >> = {}
      BY EmptyCopies
    <2> HIDE DEF c
    <2> QED
      BY <2>1, <2>2 DEF Holds, Recosts
  <1>3. Recosts(call[w]) = {} /\ call' = [call EXCEPT ![w] = c]
    <2>1. call[w] = NoCall
      BY DEF ApproveRead
    <2> QED
      BY <1>1, <2>1, NoCallHolds
  <1>4. UNCHANGED <<stockVars, txVars, origin, reconciled, cutShort>>
    BY DEF ApproveRead, vars
  <1> HIDE DEF c
  <1>5. Onward(w, c)
    BY <1>2, <1>3, HoldsNothing
  <1> QED
    BY <1>3, <1>4, <1>5, QuietCosts

\* What is found is linked to the invoice, and not matched yet.
LEMMA FindCosts ==
    ASSUME TypeOK, DocsOK, CallsOK, CostInv, NEW w \in Workers, FindBatches(w)
    PROVE  CostInv'
  <1>1. /\ batchSeq \in Nat /\ DOMAIN call = Workers /\ CallOK(call[w], batchSeq)
        /\ call[w].kind = "approve" /\ call[w].at = "find"
    BY DEF TypeOK, StoreTypeOK, CallsOK, FindBatches, Step
  <1>2. PICK B : call[w] \in ApproveSet(B)
    BY <1>1, ApproveHolds
  <1> DEFINE i == call[w].invoice
             found == {b \in 1..batchSeq : /\ \E n \in NotesOf(i) : b \in GrnBatches(n)
                                           /\ batch[b].product = InvoiceLine[i].product
                                           /\ ~reconciled[b]}
             c == [call[w] EXCEPT !.copies = Copies(found),
                                  !.at = IF found = {} THEN "purchase" ELSE "recost"]
  <1>3. call' = [call EXCEPT ![w] = c]
    BY <1>1 DEF FindBatches
  <1>4. /\ found \subseteq 1..batchSeq
        /\ \A b \in found : Linked(i, b) /\ ~reconciled[b]
    BY DEF GrnBatches, Linked
  <1> HIDE DEF found
  <1>5. /\ c.kind = "approve" /\ c.at \in {"purchase", "recost"} /\ c.copies = Copies(found)
        /\ c.invoice = i
    BY <1>2 DEF ApproveSet
  <1> HIDE DEF c
  <1>6. Holds(c) = found /\ Recosts(c) = {}
    BY <1>5 DEF Holds, Recosts, Copies
  <1>7. \A b \in found : /\ c.copies[b].doc = batch[b] /\ ~c.copies[b].reconciled
    BY <1>4, <1>5 DEF Copies
  <1>8. Recosts(call[w]) = {}
    BY <1>1 DEF Recosts
  <1>9. Onward(w, c)
    <2>1. \A b \in Holds(c) : b \in 1..batchSeq /\ CopyRight(c, b)
      BY <1>4, <1>5, <1>6, <1>7 DEF CopyRight
    <2>2. \A b \in 1..batchSeq : ~Says(c, b)
      BY <1>6, <1>7 DEF Says
    <2> QED
      BY <1>6, <1>8, <2>1, <2>2 DEF Onward, Pending
  <1>10. UNCHANGED <<stockVars, txVars, origin, reconciled, cutShort>>
    BY DEF FindBatches, vars
  <1> QED
    BY <1>3, <1>9, <1>10, QuietCosts

\* All its rows are to be saved at the new cost.
LEMMA ReadRowsCosts ==
    ASSUME TypeOK, DocsOK, CallsOK, CostInv, NEW w \in Workers, ReadRows(w)
    PROVE  CostInv'
  <1>1. /\ batchSeq \in Nat /\ DOMAIN call = Workers /\ CallOK(call[w], batchSeq)
        /\ call[w].kind = "approve" /\ call[w].at = "rows"
    BY DEF TypeOK, StoreTypeOK, CallsOK, ReadRows, Step
  <1>2. PICK B \in SUBSET (1..batchSeq) :
          call[w] \in ApproveSet(B) /\ Oldest(call[w].copies) \in B
    BY <1>1, ApproveHolds
  <1> DEFINE o == Oldest(call[w].copies)
             rows == [k \in DOMAIN rowCosts[o] |-> k]
             c == [call[w] EXCEPT !.rows = rows, !.at = "row"]
  <1>3. call' = [call EXCEPT ![w] = c]
    BY <1>1 DEF ReadRows
  <1>4. /\ c.kind = "approve" /\ c.at = "row" /\ c.copies = call[w].copies
        /\ c.invoice = call[w].invoice /\ c.rows = rows
    BY <1>2 DEF ApproveSet
  <1>5. DOMAIN rows = DOMAIN rowCosts[o] /\ \A k \in DOMAIN rows : rows[k] = k
    OBVIOUS
  <1> HIDE DEF c, rows
  <1>6. Holds(c) = Holds(call[w]) /\ Recosts(c) = {o} /\ Recosts(call[w]) = {o}
    BY <1>1, <1>4 DEF Holds, Recosts
  <1>7. Onward(w, c)
    <2>1. \A b \in Holds(c) : b \in 1..batchSeq /\ CopyRight(c, b)
      <3>1. Holds(call[w]) \subseteq 1..batchSeq
        BY <1>1, HeldBatches
      <3>2. \A b \in Holds(call[w]) : CopyRight(call[w], b)
        BY DEF CostInv, CopiesRight
      <3> QED
        BY <1>1, <1>4, <1>6, <3>1, <3>2 DEF CopyRight
    <2>2. \A b \in 1..batchSeq : Says(c, b) => Known(b)
      BY <1>4, <1>6 DEF Says, Known
    <2>3. \A b \in 1..batchSeq : \A k \in DOMAIN rowCosts[b] :
             Pending(call[w], b, k) => Pending(c, b, k)
      BY <1>4, <1>5, <1>6 DEF Pending
    <2> QED
      BY <1>6, <2>1, <2>2, <2>3 DEF Onward
  <1>8. UNCHANGED <<stockVars, txVars, origin, reconciled, cutShort>>
    BY DEF ReadRows, vars
  <1> QED
    BY <1>3, <1>7, <1>8, QuietCosts

\* All of them have been.
LEMMA NextBatchCosts ==
    ASSUME TypeOK, DocsOK, CallsOK, CostInv, NEW w \in Workers, NextBatch(w)
    PROVE  CostInv'
  <1>1. /\ batchSeq \in Nat /\ DOMAIN call = Workers /\ CallOK(call[w], batchSeq)
        /\ call[w].kind = "approve" /\ call[w].at = "row" /\ call[w].rows = << >>
    BY DEF TypeOK, StoreTypeOK, CallsOK, NextBatch, Step
  <1>2. PICK B \in SUBSET (1..batchSeq) :
          call[w] \in ApproveSet(B) /\ Oldest(call[w].copies) \in B
    BY <1>1, ApproveHolds
  <1> DEFINE o == Oldest(call[w].copies)
             left == Without(call[w].copies, o)
             c == [call[w] EXCEPT !.copies = left,
                                  !.at = IF DOMAIN left = {} THEN "complete" ELSE "recost"]
  <1>3. call' = [call EXCEPT ![w] = c]
    BY <1>1 DEF NextBatch
  <1>4. /\ DOMAIN left = DOMAIN call[w].copies \ {o}
        /\ \A b \in DOMAIN left : left[b] = call[w].copies[b]
    BY DEF Without
  <1> HIDE DEF left
  <1>5. /\ c.kind = "approve" /\ c.at \in {"complete", "recost"} /\ c.copies = left
        /\ c.invoice = call[w].invoice
    BY <1>2 DEF ApproveSet
  <1> HIDE DEF c
  <1>6. /\ Holds(c) \subseteq Holds(call[w]) /\ Recosts(c) = {}
        /\ \A b \in Holds(c) : c.copies[b] = call[w].copies[b]
    BY <1>1, <1>4, <1>5 DEF Holds, Recosts
  <1>7. Onward(w, c)
    <2>1. \A b \in Holds(c) : b \in 1..batchSeq /\ CopyRight(c, b)
      <3>1. Holds(call[w]) \subseteq 1..batchSeq
        BY <1>1, HeldBatches
      <3>2. \A b \in Holds(call[w]) : CopyRight(call[w], b)
        BY DEF CostInv, CopiesRight
      <3> QED
        BY <1>1, <1>5, <1>6, <3>1, <3>2 DEF CopyRight
    <2>2. \A b \in 1..batchSeq : Says(c, b) => Known(b)
      BY <1>6 DEF Says, Known
    <2>3. \A b, k : ~Pending(call[w], b, k)
      <3>1. DOMAIN << >> = {}
        BY EmptyCopies
      <3> QED
        BY <1>1, <3>1 DEF Pending
    <2> QED
      BY <1>6, <2>1, <2>2, <2>3 DEF Onward
  <1>8. UNCHANGED <<stockVars, txVars, origin, reconciled, cutShort>>
    BY DEF NextBatch, vars
  <1> QED
    BY <1>3, <1>7, <1>8, QuietCosts

\* The copy is saved at the cost of the invoice.
LEMMA RecostCosts ==
    ASSUME TypeOK, DocsOK, CallsOK, CostInv, NEW w \in Workers, RecostBatch(w)
    PROVE  CostInv'
  <1>1. /\ batchSeq \in Nat /\ DOMAIN call = Workers /\ CallOK(call[w], batchSeq)
        /\ call[w].kind = "approve" /\ call[w].at = "recost"
    BY DEF TypeOK, StoreTypeOK, CallsOK, RecostBatch, Step
  <1>2. PICK B \in SUBSET (1..batchSeq) :
          call[w] \in ApproveSet(B) /\ Oldest(call[w].copies) \in B
    BY <1>1, ApproveHolds
  <1> DEFINE o == Oldest(call[w].copies)
             i == call[w].invoice
             doc == call[w].copies[o].doc
             copy == [doc |-> [doc EXCEPT !.cost = InvoiceLine[i].cost], reconciled |-> TRUE]
             c == [call[w] EXCEPT !.at = "rows"]
  <1>3. SaveBatch(o, copy) /\ call' = [call EXCEPT ![w] = c]
    BY <1>1 DEF RecostBatch, GoTo
  <1>4. /\ i \in Invoices /\ o \in Holds(call[w]) /\ doc \in Batch
        /\ InvoiceLine[i].cost \in Costs
    BY <1>1, <1>2, InvoicesAssumption DEF ApproveSet, Holds, Copy
  <1>5. CopyRight(call[w], o)
    BY <1>4 DEF CostInv, CopiesRight
  <1>6. doc.product = batch[o].product /\ InvoiceLine[i].cost \in Agreed(o)
    BY <1>1, <1>4, <1>5 DEF CopyRight, Agreed
  <1>7. copy.doc.product = doc.product /\ copy.doc.cost = InvoiceLine[i].cost /\ copy \in Copy
    BY <1>4 DEF Copy, Batch
  <1>8. /\ c.kind = "approve" /\ c.at = "rows" /\ c.copies = call[w].copies /\ c.invoice = i
    BY <1>2 DEF ApproveSet
  <1> HIDE DEF c, copy, doc
  <1>9. Holds(c) = Holds(call[w]) /\ Recosts(c) = {o} /\ Recosts(call[w]) = {}
    BY <1>1, <1>8 DEF Holds, Recosts
  <1> HIDE DEF o
  <1> QED
    BY <1>1, <1>3, <1>4, <1>6, <1>7, <1>8, <1>9, SaveCosts

LEMMA ApprovalCosts ==
    ASSUME TypeOK, DocsOK, CallsOK, CostInv, NEW w \in Workers, ApprovalStep(w)
    PROVE  CostInv'
  <1>1. CASE PriceItem(w)
    <2>1. /\ call[w].kind = "approve" /\ Recosts(call[w]) = {} /\ GoTo(w, "find")
          /\ UNCHANGED <<stockVars, txVars, origin, reconciled, cutShort>>
      BY <1>1 DEF PriceItem, Step, Recosts, vars
    <2>2. /\ Onward(w, [call[w] EXCEPT !.at = "find"])
          /\ call' = [call EXCEPT ![w] = [call[w] EXCEPT !.at = "find"]]
      BY <2>1, GoesOn
    <2> QED
      BY <2>1, <2>2, QuietCosts
  <1>2. CASE PurchaseBatch(w)
    <2>1. /\ call[w].kind = "approve" /\ Recosts(call[w]) = {} /\ GoTo(w, "complete")
          /\ SameBatches /\ batchSeq' \in Nat /\ batchSeq' >= batchSeq
          /\ UNCHANGED <<txPhase, view, wrote, touched, cutShort>>
      BY <1>2, ReceiveSame DEF PurchaseBatch, Step, Recosts
    <2>2. /\ Onward(w, [call[w] EXCEPT !.at = "complete"])
          /\ call' = [call EXCEPT ![w] = [call[w] EXCEPT !.at = "complete"]]
      BY <2>1, GoesOn
    <2> QED
      BY <2>1, <2>2, OnwardCosts
  <1>3. CASE CompleteInvoice(w)
    <2>1. /\ Recosts(call[w]) = {} /\ call' = [call EXCEPT ![w] = NoCall]
          /\ UNCHANGED <<stockVars, txVars, origin, reconciled, cutShort>>
      BY <1>3 DEF CompleteInvoice, Step, Recosts, vars, Return
    <2>2. Onward(w, NoCall)
      BY <2>1, NoCallHolds, HoldsNothing
    <2> QED
      BY <2>1, <2>2, QuietCosts
  <1> QED
    BY <1>1, <1>2, <1>3, ApproveReadCosts, FindCosts, RecostCosts, ReadRowsCosts, RowCosts,
       NextBatchCosts DEF ApprovalStep

----------------------------------------------------------------------------
(* Costs, when a note is deleted: copies are saved with nothing left.      *)

LEMMA RemoveInvoicesCosts ==
    ASSUME TypeOK, DocsOK, CallsOK, CostInv, NEW w \in Workers, RemoveInvoices(w)
    PROVE  CostInv'
  <1>1. PICK n \in Notes :
          call' = [call EXCEPT ![w] =
                     [kind |-> "remove", at |-> "note", note |-> n, copies |-> << >>]]
    BY DEF RemoveInvoices
  <1> DEFINE c == [kind |-> "remove", at |-> "note", note |-> n, copies |-> << >>]
  <1>2. Holds(c) = {} /\ Recosts(c) = {}
    <2>1. c.kind = "remove" /\ c.copies = << >>
      OBVIOUS
    <2>2. DOMAIN << >> = {}
      BY EmptyCopies
    <2> HIDE DEF c
    <2> QED
      BY <2>1, <2>2 DEF Holds, Recosts
  <1>3. Recosts(call[w]) = {} /\ call' = [call EXCEPT ![w] = c]
    <2>1. call[w] = NoCall
      BY DEF RemoveInvoices
    <2> QED
      BY <1>1, <2>1, NoCallHolds
  <1>4. UNCHANGED <<stockVars, txVars, origin, reconciled, cutShort>>
    BY DEF RemoveInvoices, vars
  <1> HIDE DEF c
  <1>5. Onward(w, c)
    BY <1>2, <1>3, HoldsNothing
  <1> QED
    BY <1>3, <1>4, <1>5, QuietCosts

\* What is found says of itself whether it has been matched.
LEMMA VoidReadCosts ==
    ASSUME TypeOK, DocsOK, CallsOK, CostInv, NEW w \in Workers, VoidRead(w)
    PROVE  CostInv'
  <1>1. /\ batchSeq \in Nat /\ DOMAIN call = Workers /\ CallOK(call[w], batchSeq)
        /\ call[w].kind = "remove" /\ Recosts(call[w]) = {}
        /\ UNCHANGED <<stockVars, txVars, origin, reconciled, cutShort>>
    BY DEF TypeOK, StoreTypeOK, CallsOK, VoidRead, Step, Recosts, vars
  <1>2. PICK B : call[w] \in RemoveSet(B)
    BY <1>1, RemoveHolds
  <1>3. CASE call' = [call EXCEPT ![w] = NoCall]
    <2>1. Onward(w, NoCall)
      BY <1>1, NoCallHolds, HoldsNothing
    <2> QED
      BY <1>1, <1>3, <2>1, QuietCosts
  <1>4. ASSUME NEW found \in SUBSET (1..batchSeq),
               call' = [call EXCEPT ![w].copies = Copies(found), ![w].at = "adjust"]
        PROVE  CostInv'
    <2> DEFINE c == [call[w] EXCEPT !.copies = Copies(found), !.at = "adjust"]
    <2>1. c.kind = "remove" /\ c.copies = Copies(found)
      BY <1>2 DEF RemoveSet
    <2>2. call' = [call EXCEPT ![w] = c]
      BY <1>1, <1>4
    <2> HIDE DEF c
    <2>3. Holds(c) = found /\ Recosts(c) = {}
      BY <2>1 DEF Holds, Recosts, Copies
    <2>4. \A b \in found : c.copies[b].doc = batch[b] /\ c.copies[b].reconciled = reconciled[b]
      BY <2>1 DEF Copies
    <2>5. \A b \in Holds(c) : b \in 1..batchSeq /\ CopyRight(c, b)
      BY <2>1, <2>3, <2>4 DEF CopyRight, CostInv, MatchedIsAgreed
    <2>6. \A b \in 1..batchSeq : Says(c, b) => Known(b)
      BY <2>3, <2>4 DEF Says, Known
    <2>7. Onward(w, c)
      BY <1>1, <2>3, <2>5, <2>6 DEF Onward, Pending
    <2> QED
      BY <1>1, <2>2, <2>7, QuietCosts
  <1>5. GrnBatches(call[w].note) \subseteq 1..batchSeq
    BY DEF GrnBatches
  <1> QED
    BY <1>3, <1>4, <1>5 DEF VoidRead

LEMMA VoidSaveCosts ==
    ASSUME TypeOK, DocsOK, CallsOK, CostInv, NEW w \in Workers, VoidSave(w)
    PROVE  CostInv'
  <1>1. /\ batchSeq \in Nat /\ DOMAIN call = Workers /\ CallOK(call[w], batchSeq)
        /\ call[w].kind = "remove" /\ call[w].at = "save" /\ Recosts(call[w]) = {}
    BY DEF TypeOK, StoreTypeOK, CallsOK, VoidSave, Step, Recosts
  <1>2. PICK B \in SUBSET (1..batchSeq) :
          call[w] \in RemoveSet(B) /\ Oldest(call[w].copies) \in B
    BY <1>1, RemoveHolds
  <1> DEFINE o == Oldest(call[w].copies)
             old == call[w].copies[o]
             copy == [old EXCEPT !.doc = [old.doc EXCEPT !.remaining = 0,
                                                         !.status = "written_off"]]
             left == Without(call[w].copies, o)
             d == [call[w] EXCEPT !.copies = left, !.at = "adjust"]
             c == IF DOMAIN left = {} THEN NoCall ELSE d
  <1>3. SaveBatch(o, copy) /\ call' = [call EXCEPT ![w] = c]
    BY <1>1 DEF VoidSave
  <1>4. o \in Holds(call[w]) /\ old \in Copy /\ old.doc \in Batch
    BY <1>1, <1>2 DEF RemoveSet, Holds, Copy
  <1>5. copy \in Copy /\ copy.doc.product = old.doc.product /\ copy.doc.remaining = 0
        /\ copy.doc.cost = old.doc.cost /\ copy.reconciled = old.reconciled
    BY <1>4 DEF Copy, Batch, BatchStatus
  <1>6. CopyRight(call[w], o)
    BY <1>4 DEF CostInv, CopiesRight
  <1>7. /\ copy.doc.product = batch[o].product
        /\ copy.reconciled => copy.doc.cost \in Agreed(o)
    BY <1>5, <1>6 DEF CopyRight
  <1>8. /\ DOMAIN left \subseteq DOMAIN call[w].copies
        /\ \A b \in DOMAIN left : left[b] = call[w].copies[b]
    BY DEF Without
  <1>9. copy.reconciled => Known(o)
    BY <1>4, <1>5 DEF Known, Says
  <1> HIDE DEF left, copy
  <1>10. d.kind = "remove" /\ d.copies = left
    BY <1>2 DEF RemoveSet
  <1> HIDE DEF d
  <1>11. /\ Holds(c) \subseteq Holds(call[w]) /\ Recosts(c) = {}
         /\ \A b \in Holds(c) : c.copies[b] = call[w].copies[b]
         /\ c.kind = call[w].kind \/ Holds(c) = {}
         /\ c.kind # "approve"
    <2>1. CASE DOMAIN left = {}
      BY <2>1, NoCallHolds DEF NoCall
    <2>2. CASE DOMAIN left # {}
      BY <1>1, <1>8, <1>10, <2>2 DEF Holds, Recosts
    <2> QED
      BY <2>1, <2>2
  <1> HIDE DEF c, o, old
  <1> QED
    BY <1>1, <1>3, <1>4, <1>5, <1>7, <1>9, <1>11, SaveCosts

LEMMA RemovalCosts ==
    ASSUME TypeOK, DocsOK, CallsOK, CostInv, NEW w \in Workers, RemovalStep(w)
    PROVE  CostInv'
  <1>1. ASSUME NEW at, at \in {"find", "save"}, call[w].kind = "remove", GoTo(w, at),
               UNCHANGED <<stockVars, txVars, origin, reconciled, cutShort>>
        PROVE  CostInv'
    <2>1. Recosts(call[w]) = {}
      BY <1>1 DEF Recosts
    <2>2. /\ Onward(w, [call[w] EXCEPT !.at = at])
          /\ call' = [call EXCEPT ![w] = [call[w] EXCEPT !.at = at]]
      BY <1>1, <2>1, GoesOn
    <2> QED
      BY <1>1, <2>2, QuietCosts
  <1>2. CASE RemoveNote(w)
    BY <1>1, <1>2 DEF RemoveNote, Step, vars
  <1>3. CASE VoidAdjust(w)
    BY <1>1, <1>3 DEF VoidAdjust, Step
  <1> QED
    BY <1>2, <1>3, RemoveInvoicesCosts, VoidReadCosts, VoidSaveCosts DEF RemovalStep

----------------------------------------------------------------------------
(* Costs, while sessions are issued.                                       *)

\* Steps that leave batches and rows alone.
LEMMA SameCosts ==
    ASSUME CostInv, ViewRight', UNCHANGED <<batchSeq, batch, rowCosts, bridgeVars>>
    PROVE  CostInv'
  <1>1. UNCHANGED <<batchSeq, batch, rowCosts, origin, reconciled, call, cutShort>>
    BY DEF bridgeVars
  <1>6. \A i, b : Linked(i, b)' <=> Linked(i, b)
    BY <1>1 DEF Linked
  <1>7. \A b : Agreed(b)' = Agreed(b)
    BY <1>6 DEF Agreed
  <1>2. CopiesRight'
    BY <1>1, <1>6, <1>7 DEF CostInv, CopiesRight, CopyRight, Holds
  <1>3. MatchedIsAgreed'
    BY <1>1, <1>7 DEF CostInv, MatchedIsAgreed
  <1>4. KnownIsAgreed'
    BY <1>1 DEF CostInv, KnownIsAgreed, Linked, Agreed, Known, Says, Recosts, Holds
  <1>5. RowsRight'
    BY <1>1 DEF CostInv, RowsRight, RowRight, Linked, Agreed, Known, Says, Recosts, Holds, Pending
  <1> QED
    BY <1>2, <1>3, <1>4, <1>5 DEF CostInv

LEMMA ViewEmpty ==
    ASSUME CloseTx
    PROVE  ViewRight'
  BY DEF CloseTx, ViewRight

LEMMA ViewKept ==
    ASSUME ViewRight, UNCHANGED <<batch, view>>, touched \subseteq touched',
           txPhase' = "idle" => txPhase = "idle",
           \A b : BatchDoc(b) \in wrote' <=> BatchDoc(b) \in wrote
    PROVE  ViewRight'
  BY DEF ViewRight

LEMMA ViewBegun ==
    ASSUME TypeOK, ViewRight, Begin
    PROVE  ViewRight'
  <1>1. \A b \in 1..batchSeq : BatchDoc(b) \notin wrote
    BY ViewDomain DEF ViewRight, Begin
  <1>2. DOMAIN batch = 1..batchSeq
    BY DEF TypeOK, StoreTypeOK
  <1> QED
    BY <1>1, <1>2 DEF ViewRight, Begin, stockVars

LEMMA ViewDrawn ==
    ASSUME TypeOK, ViewRight, Draw
    PROVE  ViewRight'
  <1>1. PICK b \in Available(txRows[txRow].product) :
          /\ view' = [view EXCEPT ![b] = Less(view[b], Lesser(view[b].remaining, txNeed))]
          /\ wrote' = wrote \cup {BatchDoc(b)}
    BY DEF Draw
  <1>2. b \in DOMAIN view /\ view[b].remaining > 0 /\ view[b] \in Batch
    BY ViewDomain DEF Available
  <1>3. UNCHANGED <<txPhase, touched, batch>> /\ txPhase # "idle"
    BY DEF Draw
  <1> DEFINE doc == Less(view[b], Lesser(view[b].remaining, txNeed))
  <1>4. doc.product = view[b].product /\ doc.cost = view[b].cost
    BY <1>2 DEF Less, Batch
  <1>5. view' = [view EXCEPT ![b] = doc]
    BY <1>1
  <1> HIDE DEF doc
  <1>6. /\ DOMAIN view' = DOMAIN view
        /\ view'[b] = doc /\ \A c \in DOMAIN view : c # b => view'[c] = view[c]
    BY <1>2, <1>5
  <1>7. \A c : BatchDoc(c) \in wrote' <=> BatchDoc(c) \in wrote \/ c = b
    BY <1>1 DEF BatchDoc
  <1> SUFFICES ASSUME NEW c \in DOMAIN view
               PROVE  /\ view'[c].product = batch[c].product
                      /\ BatchDoc(c) \notin touched =>
                           /\ view'[c].cost = batch[c].cost
                           /\ BatchDoc(c) \in wrote' => batch[c].remaining > 0
                           /\ BatchDoc(c) \notin wrote' => view'[c].remaining = batch[c].remaining
    BY <1>3, <1>6 DEF ViewRight
  <1>8. CASE c = b
    BY <1>2, <1>4, <1>6, <1>7, <1>8 DEF ViewRight
  <1>9. CASE c # b
    BY <1>6, <1>7, <1>9 DEF ViewRight
  <1> QED
    BY <1>8, <1>9

LEMMA AppendLast ==
    ASSUME NEW s \in Seq(Costs), NEW c \in Costs, NEW k \in DOMAIN Append(s, c)
    PROVE  (k \in DOMAIN s /\ Append(s, c)[k] = s[k]) \/ Append(s, c)[k] = c
  OBVIOUS

\* What a session commits holds the cost its snapshot had: that of the batch,
\* which was not empty.
LEMMA CommitCosts ==
    ASSUME TypeOK, CallsOK, CostInv, Commit, UNCHANGED bridgeVars
    PROVE  CostInv'
  <1>1. /\ batchSeq \in Nat /\ \A b \in 1..batchSeq : rowCosts[b] \in Seq(Costs)
        /\ \A v \in Workers : Holds(call[v]) \subseteq 1..batchSeq
        /\ UNCHANGED <<batchSeq, origin, reconciled, call, cutShort>>
    BY HeldBatches DEF TypeOK, StoreTypeOK, Commit, CallsOK, bridgeVars
  <1>2. ASSUME NEW b \in 1..batchSeq, BatchDoc(b) \in wrote
        PROVE  /\ batch'[b] = view[b] /\ rowCosts'[b] = Append(rowCosts[b], batch[b].cost)
               /\ view[b].product = batch[b].product /\ view[b].cost = batch[b].cost
               /\ batch[b].remaining > 0 /\ batch[b].cost \in Costs
    <2>1. b \in DOMAIN view /\ view[b] \in Batch /\ BatchDoc(b) \notin touched
      BY <1>2, ViewDomain DEF Commit
    <2>2. /\ view[b].product = batch[b].product /\ view[b].cost = batch[b].cost
          /\ batch[b].remaining > 0
      BY <1>2, <2>1 DEF CostInv, ViewRight
    <2>3. batch'[b] = view[b] /\ rowCosts'[b] = Append(rowCosts[b], view[b].cost)
      BY <1>2 DEF Commit
    <2>4. batch[b].cost \in Costs
      BY DEF TypeOK, StoreTypeOK, Batch
    <2> QED
      BY <2>2, <2>3, <2>4
  <1>3. ASSUME NEW b \in 1..batchSeq, BatchDoc(b) \notin wrote
        PROVE  batch'[b] = batch[b] /\ rowCosts'[b] = rowCosts[b]
    BY <1>3 DEF Commit
  <1>4. \A b \in 1..batchSeq : /\ batch'[b].product = batch[b].product
                               /\ batch'[b].cost = batch[b].cost
                               /\ batch[b].remaining = 0 => batch'[b].remaining = 0
    BY <1>2, <1>3
  <1>5. /\ \A b \in 1..batchSeq : Agreed(b)' = Agreed(b)
        /\ \A b \in 1..batchSeq : \A i : Linked(i, b)' = Linked(i, b)
    BY <1>1, <1>4, SameLinks
  <1>6. CopiesRight'
    <2> SUFFICES ASSUME NEW v \in Workers, NEW b \in Holds(call[v])'
                 PROVE  CopyRight(call[v], b)'
      BY DEF CopiesRight
    <2>1. b \in Holds(call[v]) /\ b \in 1..batchSeq
      BY <1>1 DEF Holds
    <2>2. CopyRight(call[v], b)
      BY <2>1 DEF CostInv, CopiesRight
    <2> QED
      BY <1>1, <1>4, <1>5, <2>1, <2>2 DEF CopyRight
  <1>7. ViewRight'
    BY ViewEmpty DEF Commit
  <1>8. MatchedIsAgreed'
    BY <1>1, <1>4, <1>5 DEF CostInv, MatchedIsAgreed
  <1>9. \A b : Known(b)' => Known(b)
    BY <1>1 DEF Known
  <1>10. KnownIsAgreed'
    BY <1>1, <1>4, <1>5, <1>9 DEF CostInv, KnownIsAgreed
  <1>11. RowsRight'
    <2> SUFFICES ASSUME NEW b \in 1..batchSeq, Known(b)', b \notin cutShort,
                        NEW k \in DOMAIN rowCosts'[b]
                 PROVE  RowRight(b, k)'
      BY <1>1 DEF RowsRight
    <2>1. Known(b)
      BY <1>9
    <2>2. ASSUME k \in DOMAIN rowCosts[b], rowCosts'[b][k] = rowCosts[b][k]
          PROVE  RowRight(b, k)'
      <3>1. RowRight(b, k)
        BY <2>1, <2>2 DEF CostInv, RowsRight
      <3> QED
        BY <1>1, <1>5, <2>2, <3>1 DEF RowRight
    <2>3. CASE BatchDoc(b) \in wrote /\ rowCosts'[b][k] = batch[b].cost
      <3>1. batch[b].cost \in Agreed(b)
        BY <1>2, <2>1, <2>3 DEF CostInv, KnownIsAgreed
      <3> QED
        BY <1>5, <2>3, <3>1 DEF RowRight
    <2>4. CASE BatchDoc(b) \in wrote
      <3>1. rowCosts'[b] = Append(rowCosts[b], batch[b].cost) /\ batch[b].cost \in Costs
        BY <1>2, <2>4
      <3>2. (k \in DOMAIN rowCosts[b] /\ rowCosts'[b][k] = rowCosts[b][k])
               \/ rowCosts'[b][k] = batch[b].cost
        BY <1>1, <3>1, AppendLast
      <3> QED
        BY <2>2, <2>3, <2>4, <3>2
    <2>5. CASE BatchDoc(b) \notin wrote
      BY <1>3, <2>2, <2>5
    <2> QED
      BY <2>4, <2>5
  <1> QED
    BY <1>6, <1>7, <1>8, <1>10, <1>11 DEF CostInv

LEMMA IssueCosts ==
    ASSUME TypeOK, CallsOK, CostInv, Issue
    PROVE  CostInv'
  <1>1. UNCHANGED bridgeVars /\ TxStep /\ ViewRight
    BY DEF Issue, CostInv
  <1>2. CASE Commit
    BY <1>1, <1>2, CommitCosts
  <1>3. CASE ~Commit
    <2>1. UNCHANGED <<batchSeq, batch, rowCosts>>
      BY <1>1, <1>3 DEF TxStep, Begin, ReadProduct, Draw, OutOfStock, SaveProduct, Abort
    <2>2. ViewRight'
      <3>1. CASE ReadProduct
        BY <1>1, <3>1, ViewKept DEF ReadProduct
      <3>2. CASE SaveProduct
        <4>1. \A b : BatchDoc(b) \in wrote' <=> BatchDoc(b) \in wrote
          BY <3>2 DEF SaveProduct, BatchDoc, ProductDoc
        <4>2. UNCHANGED <<batch, view, touched>> /\ txPhase' # "idle"
          BY <3>2 DEF SaveProduct
        <4> QED
          BY <1>1, <4>1, <4>2, ViewKept
      <3> QED
        BY <1>1, <1>3, <3>1, <3>2, ViewBegun, ViewDrawn, ViewEmpty
        DEF TxStep, OutOfStock, Abort
    <2> QED
      BY <1>1, <2>1, <2>2, SameCosts
  <1> QED
    BY <1>2, <1>3

LEMMA CostStep ==
    ASSUME TypeOK, DocsOK, CallsOK, CostInv, [BridgeNext]_allVars
    PROVE  CostInv'
  <1>1. ASSUME UNCHANGED <<bridgeVars, batchSeq, batch, rowCosts, view, wrote, txPhase>>,
               touched \subseteq touched'
        PROVE  CostInv'
    <2>1. ViewRight'
      BY <1>1, ViewKept DEF CostInv
    <2> QED
      BY <1>1, <2>1, SameCosts
  <1>2. ASSUME NEW w \in Workers, Adjust(w)
        PROVE  CostInv'
    <2>1. /\ UNCHANGED <<bridgeVars, batchSeq, batch, rowCosts, view, wrote, txPhase>>
          /\ touched \subseteq touched'
      BY <1>2 DEF Adjust, AdjustRead, AdjustSave, SaveQuantity
    <2> QED
      BY <1>1, <2>1
  <1>3. CASE UNCHANGED allVars
    <2>1. UNCHANGED <<bridgeVars, batchSeq, batch, rowCosts, view, wrote, txPhase, touched>>
      BY <1>3 DEF allVars, vars
    <2> QED
      BY <1>1, <2>1
  <1> QED
    BY <1>2, <1>3, IssueCosts, DeliveryCosts, ApprovalCosts, RemovalCosts, BootstrapCosts,
       FailureCosts DEF BridgeNext

LEMMA CostInit == BridgeInit => CostInv
  <1> SUFFICES ASSUME BridgeInit PROVE CostInv
    OBVIOUS
  <1>1. batchSeq = 0 /\ DOMAIN view = {} /\ \A w \in Workers : call[w] = NoCall
    BY DEF BridgeInit, Init
  <1>2. 1..batchSeq = {} /\ \A w \in Workers : Holds(call[w]) = {}
    BY <1>1, NoCallHolds
  <1> QED
    BY <1>1, <1>2 DEF CostInv, CopiesRight, ViewRight, MatchedIsAgreed, KnownIsAgreed, RowsRight

BridgeInv == TypeOK /\ DocsOK /\ CallsOK /\ CostInv

LEMMA AlwaysBridgeInv == BridgeSpec => []BridgeInv
  <1>1. BridgeInit => BridgeInv
    BY BridgeInitTypes, CostInit DEF BridgeInv
  <1>2. BridgeInv /\ [BridgeNext]_allVars => BridgeInv'
    BY BridgeTypeStep, CostStep DEF BridgeInv
  <1> QED
    BY <1>1, <1>2, PTL DEF BridgeSpec

\* The rows of a batch that an invoice was matched with, but while it is being
\* re-costed or when that failed, are at a cost that an invoice linked to the
\* note of the batch states for its product, and so is the batch.
InvoicedCosts ==
    \A b \in 1..batchSeq :
        /\ reconciled[b]
        /\ b \notin cutShort
        /\ \A w \in Workers : b \notin Recosting(w)
        => /\ batch[b].cost \in Agreed(b)
           /\ \A k \in DOMAIN rowCosts[b] : rowCosts[b][k] \in Agreed(b)

LEMMA CostsInvoiced == BridgeInv => InvoicedCosts
  <1> SUFFICES ASSUME CostInv, NEW b \in 1..batchSeq, reconciled[b], b \notin cutShort,
                      \A w \in Workers : b \notin Recosting(w)
               PROVE  /\ batch[b].cost \in Agreed(b)
                      /\ \A k \in DOMAIN rowCosts[b] : rowCosts[b][k] \in Agreed(b)
    BY DEF BridgeInv, InvoicedCosts
  <1>1. \A w \in Workers : \A k : ~Pending(call[w], b, k)
    BY DEF Pending, Recosts, Recosting
  <1>2. batch[b].cost \in Agreed(b)
    BY DEF CostInv, MatchedIsAgreed
  <1> QED
    BY <1>1, <1>2 DEF CostInv, RowsRight, RowRight, Known

\* reconcileBatchCost in supplier-invoice-fifo-bridge.service.ts: what is issued
\* from a batch before, while and after it is re-costed ends up at a cost that
\* was invoiced, whatever else runs and wherever requests die.
THEOREM RowsAreInvoiced == BridgeSpec => []InvoicedCosts
  BY AlwaysBridgeInv, CostsInvoiced, PTL

\* Invoices that name a delivery note in common agree on what a product costs.
OneCostPerNote ==
    \A i, j \in Invoices :
        /\ NotesOf(i) \intersect NotesOf(j) # {}
        /\ InvoiceLine[i].product = InvoiceLine[j].product
        => InvoiceLine[i].cost = InvoiceLine[j].cost

\* Then the rows are at the cost of the batch itself.  Without it they need not
\* be: two approvals that find the same batch each re-cost it.
THEOREM CostsFollow ==
    ASSUME OneCostPerNote
    PROVE  BridgeSpec => []CostsFollowInvoice
  <1>1. BridgeInv => CostsFollowInvoice
    <2> SUFFICES ASSUME BridgeInv, NEW b \in 1..batchSeq, reconciled[b], b \notin cutShort,
                        \A w \in Workers : b \notin Recosting(w), NEW k \in DOMAIN rowCosts[b]
                 PROVE  rowCosts[b][k] = batch[b].cost
      BY DEF CostsFollowInvoice
    <2>1. batch[b].cost \in Agreed(b) /\ rowCosts[b][k] \in Agreed(b)
      BY CostsInvoiced DEF InvoicedCosts
    <2>2. PICK i \in Invoices, j \in Invoices :
             /\ Linked(i, b) /\ batch[b].cost = InvoiceLine[i].cost
             /\ Linked(j, b) /\ rowCosts[b][k] = InvoiceLine[j].cost
      BY <2>1 DEF Agreed
    <2>3. PICK m \in NotesOf(i), n \in NotesOf(j) :
             origin[b] = [type |-> "grn", ref |-> m] /\ origin[b] = [type |-> "grn", ref |-> n]
      BY <2>2 DEF Linked
    <2>4. m = n
      <3>1. origin[b].ref = m
        BY <2>3
      <3>2. origin[b].ref = n
        BY <2>3
      <3> QED
        BY <3>1, <3>2
    <2>5. InvoiceLine[i].product = InvoiceLine[j].product
      BY <2>2 DEF Linked
    <2> QED
      BY <2>2, <2>3, <2>4, <2>5 DEF OneCostPerNote
  <1> QED
    BY <1>1, AlwaysBridgeInv, PTL

----------------------------------------------------------------------------
(* Receipts one at a time.  BridgeInv holds of them as well.               *)

Works(w) == \/ Adjust(w) \/ DeliveryStep(w) \/ ApprovalStep(w) \/ RemovalStep(w)
            \/ LineFails(w) \/ LoseCall(w)

LEMMA SerialIsBridge == [OneAtATime]_allVars => [BridgeNext]_allVars
  BY DEF OneAtATime, BridgeNext

LEMMA SerialBridgeInv == SerialSpec => []BridgeInv
  <1>1. BridgeInit => BridgeInv
    BY BridgeInitTypes, CostInit DEF BridgeInv
  <1>2. BridgeInv /\ [OneAtATime]_allVars => BridgeInv'
    BY SerialIsBridge, BridgeTypeStep, CostStep DEF BridgeInv
  <1> QED
    BY <1>1, <1>2, PTL DEF SerialSpec

\* The others do nothing meanwhile.
Others(w) == \A v \in Workers : v # w => call'[v] = call[v] /\ job'[v] = job[v]

OneBusy ==
    /\ \A v, w \in Workers : Busy(v) /\ Busy(w) => v = w
    /\ txPhase # "idle" => \A w \in Workers : ~Busy(w)

Untouched == touched = {}

LEMMA WorkerStep ==
    ASSUME BridgeInv, NEW w \in Workers, Alone(w), Works(w)
    PROVE  Others(w) /\ txPhase = "idle" /\ UNCHANGED <<txPhase, touched, wrote, sessions>>
  <1>1. DOMAIN call = Workers /\ DOMAIN job = Workers /\ txPhase = "idle"
    BY DEF BridgeInv, CallsOK, TypeOK, Alone
  <1>2. CASE Adjust(w)
    BY <1>1, <1>2 DEF Adjust, AdjustRead, AdjustSave, SaveQuantity, bridgeVars, Others
  <1>3. CASE DeliveryStep(w)
    <2>1. CASE ReceiveDelivery(w)
      BY <1>1, <2>1 DEF ReceiveDelivery, Receive, CreateBatch, ThenAdjust, Return, Others
    <2>2. CASE LinkDelivery(w) \/ FindInvoices(w) \/ ReadLines(w) \/ CheckDelivery(w)
      BY <1>1, <2>2 DEF LinkDelivery, FindInvoices, ReadLines, CheckDelivery, Return, GoTo, vars,
                        Others
    <2> QED
      BY <1>3, <2>1, <2>2 DEF DeliveryStep
  <1>4. CASE ApprovalStep(w)
    <2>1. CASE RecostBatch(w)
      BY <1>1, <2>1 DEF RecostBatch, SaveBatch, GoTo, Others
    <2>2. CASE PurchaseBatch(w)
      BY <1>1, <2>2 DEF PurchaseBatch, Receive, CreateBatch, ThenAdjust, GoTo, Others
    <2>3. CASE RecostRow(w) \/ ReadRows(w) \/ NextBatch(w) \/ FindBatches(w)
      BY <1>1, <2>3 DEF RecostRow, ReadRows, NextBatch, FindBatches, vars, Others
    <2>4. CASE ApproveRead(w) \/ PriceItem(w) \/ CompleteInvoice(w)
      BY <1>1, <2>4 DEF ApproveRead, PriceItem, CompleteInvoice, GoTo, Return, vars, Others
    <2> QED
      BY <1>4, <2>1, <2>2, <2>3, <2>4 DEF ApprovalStep
  <1>5. CASE RemovalStep(w)
    <2>1. CASE VoidSave(w)
      BY <1>1, <2>1 DEF VoidSave, SaveBatch, Others
    <2>2. CASE VoidAdjust(w)
      BY <1>1, <2>2 DEF VoidAdjust, ThenAdjust, GoTo, Others
    <2>3. CASE RemoveInvoices(w) \/ RemoveNote(w) \/ VoidRead(w)
      BY <1>1, <2>3 DEF RemoveInvoices, RemoveNote, VoidRead, GoTo, vars, Others
    <2> QED
      BY <1>5, <2>1, <2>2, <2>3 DEF RemovalStep
  <1>6. CASE LineFails(w) \/ LoseCall(w)
    BY <1>1, <1>6 DEF LineFails, LoseCall, GoTo, Return, Others
  <1> QED
    BY <1>2, <1>3, <1>4, <1>5, <1>6 DEF Works

\* Where a request stands after a step: it has the same subject.
Goes(w, at, copies) ==
    /\ call'[w].kind = call[w].kind /\ call'[w].at = at
    /\ call[w].kind \in {"approve", "remove"} => call'[w].copies = copies
    /\ call[w].kind = "approve" => call'[w].invoice = call[w].invoice
    /\ call[w].kind \in {"deliver", "remove"} => call'[w].note = call[w].note

LEMMA GoToGoes ==
    ASSUME BridgeInv, NEW w \in Workers, call[w].kind # "none", NEW at, GoTo(w, at)
    PROVE  Goes(w, at, call[w].copies)
  <1>1. DOMAIN call = Workers
    BY DEF BridgeInv, CallsOK
  <1>2. PICK B \in SUBSET (1..batchSeq) : call[w] \in Call(B)
    BY DEF BridgeInv, CallsOK, CallOK
  <1>3. call'[w] = [call[w] EXCEPT !.at = at]
    BY <1>1 DEF GoTo
  <1>4. CASE call[w].kind = "deliver"
    <2>1. call[w] \in DeliverSet
      BY <1>2, <1>4, CallKinds
    <2> QED
      BY <1>3, <1>4, <2>1 DEF Goes, DeliverSet
  <1>5. CASE call[w].kind = "approve"
    <2>1. call[w] \in ApproveSet(B)
      BY <1>2, <1>5, CallKinds DEF ApproveSet
    <2> QED
      BY <1>3, <1>5, <2>1 DEF Goes, ApproveSet
  <1>6. CASE call[w].kind = "remove"
    <2>1. call[w] \in RemoveSet(B)
      BY <1>2, <1>6, CallKinds DEF RemoveSet
    <2> QED
      BY <1>3, <1>6, <2>1 DEF Goes, RemoveSet
  <1>7. CASE call[w].kind = "bootstrap"
    <2>1. call[w] \in [kind : {"bootstrap"}, at : {"check", "create"}, product : Products,
                       copy : Nat]
      BY <1>2, <1>7, CallKinds
    <2> QED
      BY <1>3, <1>7, <2>1 DEF Goes
  <1>8. call[w].kind \in {"none", "deliver", "approve", "remove", "bootstrap"}
    BY <1>2 DEF Call, NoCall
  <1> QED
    BY <1>4, <1>5, <1>6, <1>7, <1>8

LEMMA CopiesGoes ==
    ASSUME BridgeInv, NEW w \in Workers, call[w].kind \in {"approve", "remove"}, NEW at,
           NEW copies, call' = [call EXCEPT ![w].copies = copies, ![w].at = at]
    PROVE  Goes(w, at, copies)
  <1>1. DOMAIN call = Workers
    BY DEF BridgeInv, CallsOK
  <1>2. PICK B \in SUBSET (1..batchSeq) : call[w] \in Call(B)
    BY DEF BridgeInv, CallsOK, CallOK
  <1>3. call'[w] = [call[w] EXCEPT !.copies = copies, !.at = at]
    BY <1>1
  <1>5. CASE call[w].kind = "approve"
    <2>1. call[w] \in ApproveSet(B)
      BY <1>2, <1>5, CallKinds DEF ApproveSet
    <2> QED
      BY <1>3, <1>5, <2>1 DEF Goes, ApproveSet
  <1>6. CASE call[w].kind = "remove"
    <2>1. call[w] \in RemoveSet(B)
      BY <1>2, <1>6, CallKinds DEF RemoveSet
    <2> QED
      BY <1>3, <1>6, <2>1 DEF Goes, RemoveSet
  <1> QED
    BY <1>5, <1>6

LEMMA RowsGoes ==
    ASSUME BridgeInv, NEW w \in Workers, ReadRows(w) \/ RecostRow(w)
    PROVE  Goes(w, "row", call[w].copies) /\ call[w].kind = "approve" /\ call[w].at \in {"rows", "row"}
  <1>1. DOMAIN call = Workers /\ call[w].kind = "approve"
    BY DEF BridgeInv, CallsOK, ReadRows, RecostRow, Step
  <1>2. PICK B \in SUBSET (1..batchSeq) : call[w] \in Call(B)
    BY DEF BridgeInv, CallsOK, CallOK
  <1>3. call[w] \in ApproveSet(B)
    BY <1>1, <1>2, CallKinds DEF ApproveSet
  <1>4. CASE ReadRows(w)
    <2>1. PICK rows : call'[w] = [call[w] EXCEPT !.rows = rows, !.at = "row"]
      BY <1>1, <1>4 DEF ReadRows
    <2>2. call[w].at = "rows"
      BY <1>4 DEF ReadRows, Step
    <2> QED
      BY <1>1, <1>3, <2>1, <2>2 DEF Goes, ApproveSet
  <1>5. CASE RecostRow(w)
    <2>1. PICK rows : call'[w] = [call[w] EXCEPT !.rows = rows]
      BY <1>1, <1>5 DEF RecostRow
    <2>2. call[w].at = "row"
      BY <1>5 DEF RecostRow, Step
    <2> QED
      BY <1>1, <1>3, <2>1, <2>2 DEF Goes, ApproveSet
  <1> QED
    BY <1>4, <1>5

LEMMA Returns ==
    ASSUME BridgeInv, NEW w \in Workers, Return(w)
    PROVE  call'[w] = NoCall
  BY DEF BridgeInv, CallsOK, Return

\* The copies that a request still has to save.
Keeps(c) == IF c.kind = "approve" /\ c.at = "complete" THEN {} ELSE Holds(c) \ Recosts(c)

FreshCall(w) ==
    \A b \in Keeps(call[w]) :
        call[w].copies[b].doc = batch[b] /\ call[w].copies[b].reconciled = reconciled[b]

CopiesFresh == \A w \in Workers : FreshCall(w)

\* Nothing but the transaction writes while there is one.
ViewFresh ==
    txPhase # "idle" =>
        /\ DOMAIN view = 1..batchSeq
        /\ \A b \in 1..batchSeq :
              /\ view[b].product = batch[b].product
              /\ view[b].purchased = batch[b].purchased
              /\ view[b].remaining + drawn[b] = batch[b].remaining
              /\ view[b].status = "written_off" <=> batch[b].status = "written_off"
              /\ view[b].status = "active" <=> view[b].remaining > 0
              /\ BatchDoc(b) \notin wrote => drawn[b] = 0

StatusRight == \A b \in 1..batchSeq : batch[b].status = "active" <=> batch[b].remaining > 0

CoreInv == OneBusy /\ CopiesFresh /\ ViewFresh /\ StatusRight /\ OnlyVoidingWritesOff

LEMMA IdleKeeps == Keeps(NoCall) = {}
  BY NoCallHolds DEF Keeps

LEMMA WorkerCore ==
    ASSUME BridgeInv, CoreInv, NEW w \in Workers, Alone(w), Works(w), FreshCall(w)',
           StatusRight', OnlyVoidingWritesOff'
    PROVE  CoreInv'
  <1>1. Others(w) /\ txPhase' = "idle"
    BY WorkerStep
  <1>2. \A v \in Workers : v # w => call'[v] = NoCall /\ job'[v] = Idle
    BY <1>1 DEF Alone, Busy, Others
  <1>3. OneBusy'
    BY <1>1, <1>2 DEF OneBusy, Busy
  <1>4. \A v \in Workers : v # w => FreshCall(v)'
    BY <1>2, IdleKeeps DEF FreshCall
  <1>5. ViewFresh'
    BY <1>1 DEF ViewFresh
  <1> QED
    BY <1>3, <1>4, <1>5 DEF CoreInv, CopiesFresh

StockStill == UNCHANGED <<batchSeq, batch, consumed, reconciled>>

LEMMA StillRight ==
    ASSUME CoreInv, StockStill
    PROVE  StatusRight' /\ OnlyVoidingWritesOff'
  BY DEF CoreInv, StockStill, StatusRight, OnlyVoidingWritesOff

LEMMA StillFresh ==
    ASSUME CoreInv, StockStill, NEW w \in Workers, Keeps(call'[w]) \subseteq Keeps(call[w]),
           \A b \in Keeps(call'[w]) : call'[w].copies[b] = call[w].copies[b]
    PROVE  FreshCall(w)'
  <1>1. FreshCall(w)
    BY DEF CoreInv, CopiesFresh
  <1>2. \A b \in Keeps(call'[w]) :
          call'[w].copies[b].doc = batch'[b] /\ call'[w].copies[b].reconciled = reconciled'[b]
    BY <1>1 DEF FreshCall, StockStill
  <1>3. Keeps(call[w])' = Keeps(call'[w])
    BY DEF Keeps, Holds, Recosts
  <1> QED
    BY <1>2, <1>3 DEF FreshCall

LEMMA HoldsNoneFresh ==
    ASSUME NEW w \in Workers, Keeps(call'[w]) = {}
    PROVE  FreshCall(w)'
  <1>1. Keeps(call[w])' = {}
    BY DEF Keeps, Holds, Recosts
  <1> QED
    BY <1>1 DEF FreshCall

\* A step to another await with the copies there are.
LEMMA GoesFresh ==
    ASSUME CoreInv, StockStill, NEW w \in Workers, NEW at, Goes(w, at, call[w].copies),
           \/ call[w].kind # "approve"
           \/ call[w].kind = "approve" /\ at = "complete"
           \/ call[w].kind = "approve" /\ {call[w].at, at} \subseteq {"rows", "row"}
           \/ call[w].kind = "approve"
              /\ {call[w].at, at} \cap {"rows", "row", "complete"} = {}
    PROVE  FreshCall(w)'
  <1>1. CASE call[w].kind = "approve" /\ at = "complete"
    <2>1. Keeps(call'[w]) = {}
      BY <1>1 DEF Goes, Keeps
    <2> QED
      BY <2>1, HoldsNoneFresh
  <1>2. CASE call[w].kind = "approve" /\ at # "complete"
    <2>1. /\ call'[w].kind = "approve" /\ call'[w].at = at /\ call'[w].copies = call[w].copies
          /\ call[w].kind = "approve"
      BY <1>2 DEF Goes
    <2>2. CASE call[w].at \in {"rows", "row"} /\ at \in {"rows", "row"}
      <3>1. Keeps(call'[w]) = Keeps(call[w])
        BY <2>1, <2>2 DEF Keeps, Holds, Recosts
      <3> QED
        BY <2>1, <3>1, StillFresh
    <2>3. CASE call[w].at \notin {"rows", "row", "complete"} /\ at \notin {"rows", "row", "complete"}
      <3>1. Keeps(call'[w]) = Keeps(call[w])
        BY <2>1, <2>3 DEF Keeps, Holds, Recosts
      <3> QED
        BY <2>1, <3>1, StillFresh
    <2> QED
      BY <1>2, <2>2, <2>3
  <1>3. CASE call[w].kind = "remove"
    <2>1. Keeps(call'[w]) = Keeps(call[w]) /\ call'[w].copies = call[w].copies
      BY <1>3 DEF Goes, Keeps, Holds, Recosts
    <2> QED
      BY <2>1, StillFresh
  <1>4. CASE call[w].kind \notin {"approve", "remove"}
    <2>1. Keeps(call'[w]) = {}
      BY <1>4 DEF Goes, Keeps, Holds
    <2> QED
      BY <2>1, HoldsNoneFresh
  <1> QED
    BY <1>1, <1>2, <1>3, <1>4

LEMMA ReceiveRight ==
    ASSUME BridgeInv, CoreInv, NEW p, NEW date, NEW amount, NEW cost, NEW source,
           Receive(p, date, amount, cost, source), amount \in Nat
    PROVE  StatusRight' /\ OnlyVoidingWritesOff'
  <1>1. batchSeq \in Nat /\ batchSeq' = batchSeq + 1
    BY DEF BridgeInv, TypeOK, StoreTypeOK, Receive, CreateBatch
  <1>2. /\ \A b \in 1..batchSeq : batch'[b] = batch[b] /\ consumed'[b] = consumed[b]
        /\ LET n == batchSeq + 1
           IN  /\ batch'[n].status = "active" /\ batch'[n].remaining = amount
               /\ batch'[n].purchased = amount /\ consumed'[n] = 0 /\ amount > 0
    BY <1>1 DEF Receive, CreateBatch
  <1>3. \A b \in 1..batchSeq' : b \in 1..batchSeq \/ b = batchSeq + 1
    BY <1>1
  <1> QED
    BY <1>2, <1>3 DEF CoreInv, StatusRight, OnlyVoidingWritesOff

\* A batch is active while something is left, and balanced or written off.
LEMMA BatchStands ==
    ASSUME CoreInv, NEW b \in 1..batchSeq
    PROVE  /\ batch[b].status = "active" <=> batch[b].remaining > 0
           /\ IF batch[b].status = "written_off"
                THEN batch[b].remaining = 0
                ELSE batch[b].remaining + consumed[b] = batch[b].purchased
  BY DEF CoreInv, StatusRight, OnlyVoidingWritesOff

LEMMA SaveRight ==
    ASSUME BridgeInv, CoreInv, NEW o \in 1..batchSeq, NEW copy, SaveBatch(o, copy),
           copy.doc.status = "active" <=> copy.doc.remaining > 0,
           IF copy.doc.status = "written_off"
             THEN copy.doc.remaining = 0
             ELSE copy.doc.remaining + consumed[o] = copy.doc.purchased
    PROVE  StatusRight' /\ OnlyVoidingWritesOff'
  <1>1. /\ UNCHANGED <<batchSeq, consumed>>
        /\ batch'[o] = copy.doc
        /\ \A b \in 1..batchSeq : b # o => batch'[b] = batch[b]
    BY DEF BridgeInv, TypeOK, StoreTypeOK, SaveBatch
  <1> QED
    BY <1>1 DEF CoreInv, StatusRight, OnlyVoidingWritesOff

\* The documents a request works on are those it took last.
LEMMA FoundFresh ==
    ASSUME BridgeInv, CoreInv, StockStill, NEW w \in Workers, NEW found \in SUBSET (1..batchSeq),
           NEW at, Goes(w, at, Copies(found)), call[w].kind \in {"approve", "remove"},
           at \notin {"rows", "row"}
    PROVE  FreshCall(w)'
  <1>1. call'[w].copies = Copies(found) /\ call'[w].kind = call[w].kind /\ call'[w].at = at
    BY DEF Goes
  <1>2. Keeps(call'[w]) \subseteq found
    BY <1>1 DEF Keeps, Holds, Recosts, Copies
  <1>3. \A b \in found : /\ call'[w].copies[b].doc = batch[b]
                         /\ call'[w].copies[b].reconciled = reconciled[b]
    BY <1>1 DEF Copies
  <1>4. Keeps(call[w])' = Keeps(call'[w])
    BY DEF Keeps, Holds, Recosts
  <1> QED
    BY <1>2, <1>3, <1>4 DEF FreshCall, StockStill

\* ... but for the one it works on when that is done.
LEMMA WithoutFresh ==
    ASSUME BridgeInv, CoreInv, NEW w \in Workers, NEW at, NEW o,
           call[w].kind \in {"approve", "remove"}, at \notin {"rows", "row"},
           Goes(w, at, Without(call[w].copies, o)),
           call[w].kind = "approve" => Recosts(call[w]) = {o} /\ call[w].at # "complete",
           batchSeq' = batchSeq,
           \A b \in 1..batchSeq : b # o => batch'[b] = batch[b] /\ reconciled'[b] = reconciled[b]
    PROVE  FreshCall(w)'
  <1>1. /\ call'[w].copies = Without(call[w].copies, o) /\ call'[w].kind = call[w].kind
        /\ call'[w].at = at
    BY DEF Goes
  <1>2. /\ Keeps(call'[w]) \subseteq Keeps(call[w]) \ {o}
        /\ \A b \in Keeps(call'[w]) : call'[w].copies[b] = call[w].copies[b]
    <2>1. DOMAIN call'[w].copies = DOMAIN call[w].copies \ {o}
          /\ \A b \in DOMAIN call[w].copies \ {o} : call'[w].copies[b] = call[w].copies[b]
      BY <1>1 DEF Without
    <2>2. CASE call[w].kind = "approve"
      BY <1>1, <2>1, <2>2 DEF Keeps, Holds
    <2>3. CASE call[w].kind = "remove"
      BY <1>1, <2>1, <2>3 DEF Keeps, Holds, Recosts
    <2> QED
      BY <2>2, <2>3
  <1>3. Keeps(call[w]) \subseteq 1..batchSeq
    <2>1. Holds(call[w]) \subseteq 1..batchSeq
      BY HeldBatches DEF BridgeInv, TypeOK, StoreTypeOK, CallsOK
    <2> QED
      BY <2>1 DEF Keeps
  <1>4. FreshCall(w) /\ Keeps(call[w])' = Keeps(call'[w])
    BY DEF CoreInv, CopiesFresh, Keeps, Holds, Recosts
  <1> QED
    BY <1>2, <1>3, <1>4 DEF FreshCall

LEMMA FindGoes ==
    ASSUME BridgeInv, NEW w \in Workers, FindInvoices(w)
    PROVE  /\ call'[w].kind = "deliver" /\ call'[w].at = "lines"
           /\ call'[w].note = call[w].note
           /\ call'[w].invoices = {i \in Invoices : /\ invoice[i] = "completed"
                                                   /\ call[w].note \in NotesOf(i)}
  <1>1. DOMAIN call = Workers /\ call[w].kind = "deliver"
    BY DEF BridgeInv, CallsOK, FindInvoices, Step
  <1>2. PICK B \in SUBSET (1..batchSeq) : call[w] \in Call(B)
    BY DEF BridgeInv, CallsOK, CallOK
  <1>3. call[w] \in DeliverSet
    BY <1>1, <1>2, CallKinds
  <1>4. PICK found : found = {i \in Invoices : /\ invoice[i] = "completed"
                                              /\ call[w].note \in NotesOf(i)}
    OBVIOUS
  <1>5. call'[w] = [call[w] EXCEPT !.at = "lines", !.invoices = found]
    BY <1>1, <1>4 DEF FindInvoices
  <1> QED
    BY <1>3, <1>4, <1>5 DEF DeliverSet

LEMMA DeliveryCore ==
    ASSUME BridgeInv, CoreInv, NEW w \in Workers, Alone(w), DeliveryStep(w)
    PROVE  CoreInv'
  <1>1. Works(w) /\ DOMAIN call = Workers
    BY DEF Works, BridgeInv, CallsOK
  <1>2. CASE LinkDelivery(w)
    <2>1. StockStill
      BY <1>2 DEF LinkDelivery, vars, StockStill
    <2>2. Keeps(call'[w]) = {}
      BY <1>1, <1>2 DEF LinkDelivery, Keeps, Holds
    <2> QED
      BY <1>1, <2>1, <2>2, HoldsNoneFresh, StillRight, WorkerCore
  <1>5. CASE FindInvoices(w)
    <2>1. StockStill
      BY <1>5 DEF FindInvoices, vars, StockStill
    <2>2. call'[w].kind = "deliver"
      BY <1>5, FindGoes
    <2>3. Keeps(call'[w]) = {}
      BY <2>2 DEF Keeps, Holds
    <2> QED
      BY <1>1, <2>1, <2>3, HoldsNoneFresh, StillRight, WorkerCore
  <1>3. CASE ReadLines(w) \/ CheckDelivery(w)
    <2>1. StockStill
      BY <1>3 DEF ReadLines, CheckDelivery, vars, StockStill
    <2>2. FreshCall(w)'
      <3>1. CASE Return(w)
        BY <3>1, Returns, IdleKeeps, HoldsNoneFresh
      <3>2. ASSUME NEW at \in {"check", "create"}, GoTo(w, at) PROVE FreshCall(w)'
        <4>1. call[w].kind = "deliver"
          BY <1>3 DEF ReadLines, CheckDelivery, Step
        <4> QED
          BY <2>1, <3>2, <4>1, GoToGoes, GoesFresh
      <3> QED
        BY <1>3, <3>1, <3>2 DEF ReadLines, CheckDelivery
    <2> QED
      BY <1>1, <2>1, <2>2, StillRight, WorkerCore
  <1>4. CASE ReceiveDelivery(w)
    <2>1. call[w] \in DeliverSet
      <3>1. PICK B \in SUBSET (1..batchSeq) : call[w] \in Call(B)
        BY DEF BridgeInv, CallsOK, CallOK
      <3> QED
        BY <1>4, <3>1, CallKinds DEF ReceiveDelivery, Step
    <2> DEFINE n == call[w].note
               line == NoteLine[n]
    <2>2. line.qty \in Nat
      BY <2>1, NotesAssumption DEF DeliverSet
    <2>3. Receive(line.product, line.date, line.qty, ProvisionalCost, [type |-> "grn", ref |-> n])
          /\ Return(w)
      BY <1>4 DEF ReceiveDelivery
    <2> HIDE DEF n, line
    <2>4. StatusRight' /\ OnlyVoidingWritesOff'
      BY <2>2, <2>3, ReceiveRight
    <2>5. FreshCall(w)'
      BY <2>3, Returns, IdleKeeps, HoldsNoneFresh
    <2> QED
      BY <1>1, <2>4, <2>5, WorkerCore
  <1> QED
    BY <1>2, <1>3, <1>4, <1>5 DEF DeliveryStep

LEMMA ApprovalCore ==
    ASSUME BridgeInv, CoreInv, NEW w \in Workers, Alone(w), ApprovalStep(w)
    PROVE  CoreInv'
  <1>1. Works(w) /\ DOMAIN call = Workers /\ batchSeq \in Nat /\ CallOK(call[w], batchSeq)
    BY DEF Works, BridgeInv, CallsOK, TypeOK, StoreTypeOK
  <1>2. ASSUME StockStill, FreshCall(w)' PROVE CoreInv'
    BY <1>1, <1>2, StillRight, WorkerCore
  <1>3. CASE ApproveRead(w)
    <2>1. StockStill
      BY <1>3 DEF ApproveRead, vars, StockStill
    <2>2. PICK i \in Invoices, at \in {"complete", "price"} :
            call'[w] = [kind |-> "approve", at |-> at, invoice |-> i, copies |-> << >>,
                        rows |-> << >>]
      BY <1>1, <1>3 DEF ApproveRead
    <2>3. DOMAIN call'[w].copies = {}
      BY <2>2, EmptyCopies
    <2>4. Keeps(call'[w]) = {}
      BY <2>3 DEF Keeps, Holds
    <2> QED
      BY <1>2, <2>1, <2>4, HoldsNoneFresh
  <1>4. CASE PriceItem(w)
    <2>1. StockStill /\ GoTo(w, "find") /\ call[w].kind = "approve" /\ call[w].at = "price"
      BY <1>4 DEF PriceItem, vars, StockStill, Step
    <2>2. Goes(w, "find", call[w].copies)
      BY <2>1, GoToGoes
    <2> QED
      BY <1>2, <2>1, <2>2, GoesFresh
  <1>5. CASE FindBatches(w)
    <2>1. StockStill /\ call[w].kind = "approve"
      BY <1>5 DEF FindBatches, vars, StockStill, Step
    <2>2. PICK found \in SUBSET (1..batchSeq) :
            call' = [call EXCEPT ![w].copies = Copies(found),
                                 ![w].at = IF found = {} THEN "purchase" ELSE "recost"]
      BY <1>5 DEF FindBatches
    <2>3. Goes(w, IF found = {} THEN "purchase" ELSE "recost", Copies(found))
      BY <2>1, <2>2, CopiesGoes
    <2> QED
      BY <1>2, <2>1, <2>3, FoundFresh
  <1>6. CASE ReadRows(w) \/ RecostRow(w)
    <2>1. StockStill
      BY <1>6 DEF ReadRows, RecostRow, vars, StockStill
    <2> QED
      BY <1>2, <1>6, <2>1, RowsGoes, GoesFresh
  <1>7. CASE NextBatch(w)
    <2> DEFINE o == Oldest(call[w].copies)
               left == Without(call[w].copies, o)
               at == IF DOMAIN left = {} THEN "complete" ELSE "recost"
    <2>1. StockStill /\ call[w].kind = "approve" /\ call[w].at = "row" /\ Recosts(call[w]) = {o}
      BY <1>7 DEF NextBatch, vars, StockStill, Step, Recosts
    <2>2. call' = [call EXCEPT ![w].copies = left, ![w].at = at] /\ at \notin {"rows", "row"}
      BY <1>7 DEF NextBatch
    <2> HIDE DEF left, at
    <2>3. Goes(w, at, left)
      BY <2>1, <2>2, CopiesGoes
    <2>4. FreshCall(w)'
      <3>1. Goes(w, at, Without(call[w].copies, o))
        BY <2>3 DEF left
      <3>2. /\ call[w].kind \in {"approve", "remove"} /\ batchSeq' = batchSeq
            /\ call[w].kind = "approve" => Recosts(call[w]) = {o} /\ call[w].at # "complete"
            /\ at \notin {"rows", "row"}
        BY <2>1, <2>2 DEF StockStill
      <3>3. \A b \in 1..batchSeq : b # o => batch'[b] = batch[b] /\ reconciled'[b] = reconciled[b]
        BY <2>1 DEF StockStill
      <3> HIDE DEF o
      <3> QED
        BY <3>1, <3>2, <3>3, WithoutFresh
    <2> QED
      BY <1>2, <2>1, <2>4
  <1>8. CASE CompleteInvoice(w)
    <2>1. StockStill /\ Return(w)
      BY <1>8 DEF CompleteInvoice, vars, StockStill
    <2> QED
      BY <1>2, <2>1, Returns, IdleKeeps, HoldsNoneFresh
  <1>9. CASE PurchaseBatch(w)
    <2>1. call[w].kind = "approve" /\ GoTo(w, "complete")
      BY <1>9 DEF PurchaseBatch, Step
    <2>2. PICK B : call[w] \in ApproveSet(B)
      BY <1>1, <2>1, ApproveHolds
    <2> DEFINE i == call[w].invoice
               line == InvoiceLine[i]
    <2>3. line.qty \in Nat
      BY <2>2, InvoicesAssumption DEF ApproveSet
    <2>4. Receive(line.product, line.date, line.qty, line.cost,
                  [type |-> "supplier_invoice", ref |-> i])
      BY <1>9 DEF PurchaseBatch
    <2> HIDE DEF i, line
    <2>5. StatusRight' /\ OnlyVoidingWritesOff'
      BY <2>3, <2>4, ReceiveRight
    <2>6. Goes(w, "complete", call[w].copies)
      BY <2>1, GoToGoes
    <2>7. Keeps(call'[w]) = {}
      BY <2>1, <2>6 DEF Goes, Keeps
    <2> QED
      BY <1>1, <2>5, <2>7, HoldsNoneFresh, WorkerCore
  <1>10. CASE RecostBatch(w)
    <2>1. call[w].kind = "approve" /\ call[w].at = "recost"
      BY <1>10 DEF RecostBatch, Step
    <2>2. PICK B \in SUBSET (1..batchSeq) :
            call[w] \in ApproveSet(B) /\ Oldest(call[w].copies) \in B
      BY <1>1, <2>1, ApproveHolds
    <2> DEFINE o == Oldest(call[w].copies)
               cost == InvoiceLine[call[w].invoice].cost
               doc == call[w].copies[o].doc
               copy == [doc |-> [doc EXCEPT !.cost = cost], reconciled |-> TRUE]
    <2>3. SaveBatch(o, copy) /\ GoTo(w, "rows")
      BY <1>10 DEF RecostBatch
    <2>4. Goes(w, "rows", call[w].copies)
      BY <2>1, <2>3, GoToGoes
    <2>5. o \in Keeps(call[w]) /\ o \in 1..batchSeq /\ doc \in Batch
      BY <2>1, <2>2 DEF Keeps, Holds, Recosts, ApproveSet, Copy
    <2>6. doc = batch[o]
      BY <2>5 DEF CoreInv, CopiesFresh, FreshCall
    <2>7. /\ copy.doc.status = doc.status /\ copy.doc.remaining = doc.remaining
          /\ copy.doc.purchased = doc.purchased
      BY <2>5 DEF Batch
    <2> HIDE DEF copy, doc, cost
    <2>8. StatusRight' /\ OnlyVoidingWritesOff'
      <3>1. /\ doc.status = "active" <=> doc.remaining > 0
            /\ IF doc.status = "written_off" THEN doc.remaining = 0
                                             ELSE doc.remaining + consumed[o] = doc.purchased
        BY <2>5, <2>6, BatchStands
      <3> QED
        BY <2>3, <2>5, <2>7, <3>1, SaveRight
    <2>9. FreshCall(w)'
      <3>1. /\ call'[w].kind = "approve" /\ call'[w].at = "rows"
            /\ call'[w].copies = call[w].copies
        BY <2>1, <2>4 DEF Goes
      <3>2. Keeps(call'[w]) = Keeps(call[w]) \ {o}
        BY <2>1, <3>1 DEF Keeps, Holds, Recosts
      <3>3. \A b \in Keeps(call[w]) : b # o =>
              batch'[b] = batch[b] /\ reconciled'[b] = reconciled[b]
        <4>1. Keeps(call[w]) \subseteq 1..batchSeq /\ DOMAIN reconciled = 1..batchSeq
          BY <1>1, HeldBatches, LenProperties DEF Keeps, BridgeInv, DocsOK
        <4>2. DOMAIN batch = 1..batchSeq
          BY DEF BridgeInv, TypeOK, StoreTypeOK
        <4> QED
          BY <2>3, <2>5, <4>1, <4>2 DEF SaveBatch
      <3>4. FreshCall(w) /\ Keeps(call[w])' = Keeps(call'[w])
        BY DEF CoreInv, CopiesFresh, Keeps, Holds, Recosts
      <3> QED
        BY <3>1, <3>2, <3>3, <3>4 DEF FreshCall
    <2> QED
      BY <1>1, <2>8, <2>9, WorkerCore
  <1> QED
    BY <1>3, <1>4, <1>5, <1>6, <1>7, <1>8, <1>9, <1>10 DEF ApprovalStep

LEMMA RemovalCore ==
    ASSUME BridgeInv, CoreInv, NEW w \in Workers, Alone(w), RemovalStep(w)
    PROVE  CoreInv'
  <1>1. Works(w) /\ DOMAIN call = Workers /\ batchSeq \in Nat /\ CallOK(call[w], batchSeq)
    BY DEF Works, BridgeInv, CallsOK, TypeOK, StoreTypeOK
  <1>2. ASSUME StockStill, FreshCall(w)' PROVE CoreInv'
    BY <1>1, <1>2, StillRight, WorkerCore
  <1>3. CASE RemoveInvoices(w)
    <2>1. StockStill
      BY <1>3 DEF RemoveInvoices, vars, StockStill
    <2>2. PICK n \in Notes :
            call'[w] = [kind |-> "remove", at |-> "note", note |-> n, copies |-> << >>]
      BY <1>1, <1>3 DEF RemoveInvoices
    <2>3. DOMAIN call'[w].copies = {}
      BY <2>2, EmptyCopies
    <2>4. Keeps(call'[w]) = {}
      BY <2>3 DEF Keeps, Holds
    <2> QED
      BY <1>2, <2>1, <2>4, HoldsNoneFresh
  <1>4. CASE RemoveNote(w) \/ VoidAdjust(w)
    <2>1. PICK at \in {"find", "save"} : StockStill /\ GoTo(w, at) /\ call[w].kind = "remove"
      BY <1>4 DEF RemoveNote, VoidAdjust, vars, StockStill, Step
    <2>2. Goes(w, at, call[w].copies)
      BY <2>1, GoToGoes
    <2> QED
      BY <1>2, <2>1, <2>2, GoesFresh
  <1>5. CASE VoidRead(w)
    <2>1. StockStill /\ call[w].kind = "remove"
      BY <1>5 DEF VoidRead, vars, StockStill, Step
    <2> DEFINE found == {b \in GrnBatches(call[w].note) : batch[b].status = "active"}
    <2>2. found \in SUBSET (1..batchSeq)
      BY DEF GrnBatches
    <2>3. CASE found = {}
      <3>1. Return(w)
        BY <1>5, <2>3 DEF VoidRead, Return
      <3> QED
        BY <1>2, <2>1, <3>1, Returns, IdleKeeps, HoldsNoneFresh
    <2>4. CASE found # {}
      <3>1. call' = [call EXCEPT ![w].copies = Copies(found), ![w].at = "adjust"]
        BY <1>5, <2>4 DEF VoidRead
      <3> HIDE DEF found
      <3>2. Goes(w, "adjust", Copies(found))
        BY <2>1, <3>1, CopiesGoes
      <3> QED
        BY <1>2, <2>1, <2>2, <3>2, FoundFresh
    <2> QED
      BY <2>3, <2>4
  <1>6. CASE VoidSave(w)
    <2>1. call[w].kind = "remove" /\ call[w].at = "save"
      BY <1>6 DEF VoidSave, Step
    <2>2. PICK B \in SUBSET (1..batchSeq) :
            call[w] \in RemoveSet(B) /\ Oldest(call[w].copies) \in B
      BY <1>1, <2>1, RemoveHolds
    <2> DEFINE o == Oldest(call[w].copies)
               left == Without(call[w].copies, o)
               doc == call[w].copies[o].doc
               copy == [call[w].copies[o] EXCEPT !.doc = [doc EXCEPT !.remaining = 0,
                                                                     !.status = "written_off"]]
    <2>3. /\ SaveBatch(o, copy)
          /\ call' = IF DOMAIN left = {}
                       THEN [call EXCEPT ![w] = NoCall]
                       ELSE [call EXCEPT ![w].copies = left, ![w].at = "adjust"]
      BY <1>6 DEF VoidSave
    <2>4. o \in 1..batchSeq /\ call[w].copies[o] \in Copy
      BY <2>2 DEF RemoveSet
    <2>5. copy.doc.status = "written_off" /\ copy.doc.remaining = 0
      BY <2>4 DEF Copy, Batch
    <2>6. StatusRight' /\ OnlyVoidingWritesOff'
      <3> HIDE DEF o, copy
      <3> QED
        BY <2>3, <2>4, <2>5, SaveRight
    <2>7. FreshCall(w)'
      <3>1. CASE DOMAIN left = {}
        <4>1. Return(w)
          BY <2>3, <3>1 DEF Return
        <4> QED
          BY <4>1, Returns, IdleKeeps, HoldsNoneFresh
      <3>2. CASE DOMAIN left # {}
        <4>1. call' = [call EXCEPT ![w].copies = left, ![w].at = "adjust"]
          BY <2>3, <3>2
        <4> HIDE DEF left
        <4>2. Goes(w, "adjust", left)
          BY <2>1, <4>1, CopiesGoes
        <4>3. Goes(w, "adjust", Without(call[w].copies, o))
          BY <4>2 DEF left
        <4>4. DOMAIN batch = 1..batchSeq /\ DOMAIN reconciled = 1..batchSeq
          BY <1>1, LenProperties DEF BridgeInv, TypeOK, StoreTypeOK, DocsOK
        <4> HIDE DEF o, copy
        <4>5. batchSeq' = batchSeq /\ \A b \in 1..batchSeq : b # o =>
                batch'[b] = batch[b] /\ reconciled'[b] = reconciled[b]
          BY <2>3, <4>4 DEF SaveBatch
        <4>6. /\ call[w].kind \in {"approve", "remove"}
              /\ call[w].kind = "approve" => Recosts(call[w]) = {o} /\ call[w].at # "complete"
          BY <2>1
        <4> QED
          BY <4>3, <4>5, <4>6, WithoutFresh
      <3> QED
        BY <3>1, <3>2
    <2> QED
      BY <1>1, <2>6, <2>7, WorkerCore
  <1> QED
    BY <1>3, <1>4, <1>5, <1>6 DEF RemovalStep

LEMMA OtherCore ==
    ASSUME BridgeInv, CoreInv, NEW w \in Workers, Alone(w),
           Adjust(w) \/ LineFails(w) \/ LoseCall(w)
    PROVE  CoreInv'
  <1>1. Works(w) /\ DOMAIN call = Workers
    BY DEF Works, BridgeInv, CallsOK
  <1>2. ASSUME StockStill, FreshCall(w)' PROVE CoreInv'
    BY <1>1, <1>2, StillRight, WorkerCore
  <1>3. CASE Adjust(w)
    <2>1. StockStill /\ call' = call
      BY <1>3 DEF Adjust, AdjustRead, AdjustSave, SaveQuantity, bridgeVars, StockStill
    <2>2. Keeps(call'[w]) = Keeps(call[w]) /\ call'[w].copies = call[w].copies
      BY <2>1
    <2> QED
      BY <1>2, <2>1, <2>2, StillFresh
  <1>4. CASE LineFails(w)
    <2>1. StockStill /\ GoTo(w, "complete") /\ call[w].kind = "approve"
      BY <1>4 DEF LineFails, StockStill
    <2>2. Goes(w, "complete", call[w].copies)
      BY <2>1, GoToGoes
    <2> QED
      BY <1>2, <2>1, <2>2, GoesFresh
  <1>5. CASE LoseCall(w)
    <2>1. StockStill /\ Return(w)
      BY <1>5 DEF LoseCall, StockStill
    <2> QED
      BY <1>2, <2>1, Returns, IdleKeeps, HoldsNoneFresh
  <1> QED
    BY <1>3, <1>4, <1>5

\* One batch in the view of the transaction.
ViewStands(b, doc, take) ==
    /\ doc.product = batch[b].product
    /\ doc.purchased = batch[b].purchased
    /\ doc.remaining + take = batch[b].remaining
    /\ doc.status = "written_off" <=> batch[b].status = "written_off"
    /\ doc.status = "active" <=> doc.remaining > 0

LEMMA ViewFreshIs ==
    ViewFresh <=>
      (txPhase # "idle" =>
         /\ DOMAIN view = 1..batchSeq
         /\ \A b \in 1..batchSeq : /\ ViewStands(b, view[b], drawn[b])
                                   /\ BatchDoc(b) \notin wrote => drawn[b] = 0)
  BY DEF ViewFresh, ViewStands

LEMMA IssueCore ==
    ASSUME BridgeInv, CoreInv, \A w \in Workers : ~Busy(w), Issue
    PROVE  CoreInv'
  <1>1. TypeOK /\ UNCHANGED bridgeVars /\ TxStep
    BY DEF BridgeInv, Issue
  <1>2. UNCHANGED <<job, call, reconciled>>
    BY <1>1 DEF TxStep, Begin, ReadProduct, Draw, OutOfStock, SaveProduct, Commit, Abort,
                bridgeVars
  <1>3. OneBusy' /\ CopiesFresh'
    <2>1. OneBusy'
      BY <1>2 DEF OneBusy, Busy
    <2>2. \A w \in Workers : Keeps(call'[w]) = {}
      BY <1>2, IdleKeeps DEF Busy
    <2> QED
      BY <2>1, <2>2, HoldsNoneFresh DEF CopiesFresh
  <1>4. ASSUME UNCHANGED <<batchSeq, batch, consumed>>, ViewFresh'
        PROVE  CoreInv'
    BY <1>3, <1>4 DEF CoreInv, StatusRight, OnlyVoidingWritesOff
  <1>5. CASE Begin
    <2>1. /\ UNCHANGED <<batchSeq, batch, consumed>>
          /\ view' = batch /\ drawn' = [b \in 1..batchSeq |-> 0]
      BY <1>5 DEF Begin, stockVars
    <2>2. batch \in [1..batchSeq -> Batch]
      BY <1>1 DEF TypeOK, StoreTypeOK
    <2>3. \A b \in 1..batchSeq : batch[b].remaining \in Nat
      BY <2>2 DEF Batch
    <2>4. \A b \in 1..batchSeq : ViewStands(b, batch[b], 0)
      BY <2>3, BatchStands DEF ViewStands
    <2>5. ViewFresh'
      BY <2>1, <2>2, <2>4 DEF ViewFresh, ViewStands
    <2> QED
      BY <1>4, <2>1, <2>5
  <1>6. CASE ReadProduct
    <2>1. /\ UNCHANGED <<batchSeq, batch, consumed, view, drawn, wrote>>
          /\ txPhase # "idle"
      BY <1>6 DEF ReadProduct, stockVars
    <2> QED
      BY <1>4, <2>1 DEF CoreInv, ViewFresh
  <1>7. CASE Draw
    <2>1. PICK b \in Available(txRows[txRow].product) :
            LET take == Lesser(view[b].remaining, txNeed)
            IN  /\ view' = [view EXCEPT ![b] = Less(view[b], take)]
                /\ drawn' = [drawn EXCEPT ![b] = @ + take]
                /\ wrote' = wrote \cup {BatchDoc(b)}
      BY <1>7 DEF Draw
    <2>2. UNCHANGED <<batchSeq, batch, consumed>> /\ txPhase # "idle"
      BY <1>7 DEF Draw, stockVars
    <2>3. /\ DOMAIN view = 1..batchSeq
          /\ \A c \in 1..batchSeq : /\ ViewStands(c, view[c], drawn[c])
                                    /\ BatchDoc(c) \notin wrote => drawn[c] = 0
      BY <2>2, ViewFreshIs DEF CoreInv
    <2>4. /\ b \in 1..batchSeq /\ view[b].status = "active" /\ view[b] \in Batch
          /\ drawn[b] \in Nat /\ txNeed \in Nat /\ DOMAIN drawn = DOMAIN view
      BY <1>1, <2>3, ViewDomain DEF Available, TypeOK, TxTypeOK, ViewTypeOK
    <2> DEFINE take == Lesser(view[b].remaining, txNeed)
    <2>5. take \in Nat /\ take <= view[b].remaining /\ view[b].remaining \in Nat
      BY <2>4 DEF Lesser, Batch
    <2>6. /\ view'[b] = Less(view[b], take) /\ drawn'[b] = drawn[b] + take
          /\ DOMAIN view' = 1..batchSeq
          /\ \A c \in 1..batchSeq \ {b} : view'[c] = view[c] /\ drawn'[c] = drawn[c]
          /\ \A c : BatchDoc(c) \notin wrote' => BatchDoc(c) \notin wrote /\ c # b
      BY <2>1, <2>3, <2>4
    <2> HIDE DEF take
    <2>7. ViewStands(b, Less(view[b], take), drawn[b] + take)
      <3>1. ViewStands(b, view[b], drawn[b])
        BY <2>3, <2>4
      <3>2. /\ Less(view[b], take).product = view[b].product
            /\ Less(view[b], take).purchased = view[b].purchased
            /\ Less(view[b], take).remaining = view[b].remaining - take
            /\ Less(view[b], take).status =
                 IF view[b].remaining - take <= 0 THEN "exhausted" ELSE "active"
        BY <2>4 DEF Less, Batch
      <3> QED
        BY <2>4, <2>5, <3>1, <3>2 DEF ViewStands
    <2>8. \A c \in 1..batchSeq : /\ ViewStands(c, view'[c], drawn'[c])
                                 /\ BatchDoc(c) \notin wrote' => drawn'[c] = 0
      <3> TAKE c \in 1..batchSeq
      <3>1. CASE c = b
        BY <2>6, <2>7, <3>1
      <3>2. CASE c # b
        BY <2>3, <2>6, <3>2
      <3> QED
        BY <3>1, <3>2
    <2>9. ViewFresh'
      BY <2>2, <2>6, <2>8 DEF ViewFresh, ViewStands
    <2> QED
      BY <1>4, <2>2, <2>9
  <1>8. CASE SaveProduct
    <2>1. /\ UNCHANGED <<batchSeq, batch, consumed, view, drawn>>
          /\ txPhase # "idle" /\ wrote \subseteq wrote'
      BY <1>8 DEF SaveProduct, stockVars
    <2> QED
      BY <1>4, <2>1 DEF CoreInv, ViewFresh
  <1>9. CASE OutOfStock \/ Abort
    <2>1. UNCHANGED <<batchSeq, batch, consumed>> /\ txPhase' = "idle"
      BY <1>9 DEF OutOfStock, Abort, CloseTx, stockVars
    <2> QED
      BY <1>4, <2>1 DEF ViewFresh
  <1>10. CASE Commit
    <2>1. /\ txPhase # "idle" /\ txPhase' = "idle" /\ batchSeq' = batchSeq
          /\ \A b \in 1..batchSeq :
                \/ /\ BatchDoc(b) \in wrote
                   /\ batch'[b] = view[b] /\ consumed'[b] = consumed[b] + drawn[b]
                \/ /\ batch'[b] = batch[b] /\ consumed'[b] = consumed[b]
      BY <1>10 DEF Commit, CloseTx
    <2>2. /\ DOMAIN view = 1..batchSeq
          /\ \A b \in 1..batchSeq : ViewStands(b, view[b], drawn[b])
      BY <2>1, ViewFreshIs DEF CoreInv
    <2>3. \A b \in 1..batchSeq : /\ view[b].remaining \in Nat /\ drawn[b] \in Nat
                                 /\ consumed[b] \in Nat /\ batch[b].remaining \in Nat
      BY <1>1, <2>2, ViewDomain DEF TypeOK, StoreTypeOK, Batch
    <2>4. \A b \in 1..batchSeq :
            /\ batch'[b].status = "active" <=> batch'[b].remaining > 0
            /\ IF batch'[b].status = "written_off"
                 THEN batch'[b].remaining = 0
                 ELSE batch'[b].remaining + consumed'[b] = batch'[b].purchased
      <3> TAKE b \in 1..batchSeq
      <3>1. CASE batch'[b] = batch[b] /\ consumed'[b] = consumed[b]
        BY <3>1, BatchStands
      <3>2. CASE batch'[b] = view[b] /\ consumed'[b] = consumed[b] + drawn[b]
        <4>1. ViewStands(b, view[b], drawn[b])
          BY <2>2
        <4> QED
          BY <2>3, <3>2, <4>1, BatchStands DEF ViewStands
      <3> QED
        BY <2>1, <3>1, <3>2
    <2>5. StatusRight' /\ OnlyVoidingWritesOff' /\ ViewFresh'
      BY <2>1, <2>4 DEF StatusRight, OnlyVoidingWritesOff, ViewFresh
    <2> QED
      BY <1>3, <2>5 DEF CoreInv
  <1> QED
    BY <1>1, <1>5, <1>6, <1>7, <1>8, <1>9, <1>10 DEF TxStep

LEMMA CoreInit == BridgeInit => CoreInv
  <1>1. ASSUME BridgeInit PROVE CoreInv
    <2>1. /\ batchSeq = 0 /\ txPhase = "idle" /\ call = [w \in Workers |-> NoCall]
          /\ job = [w \in Workers |-> Idle]
      BY <1>1 DEF BridgeInit, Init
    <2>2. OneBusy /\ CopiesFresh
      BY <2>1, IdleKeeps DEF OneBusy, Busy, CopiesFresh, FreshCall
    <2>3. ViewFresh /\ StatusRight /\ OnlyVoidingWritesOff
      BY <2>1 DEF ViewFresh, StatusRight, OnlyVoidingWritesOff
    <2> QED
      BY <2>2, <2>3 DEF CoreInv
  <1> QED
    BY <1>1

LEMMA CoreStep ==
    ASSUME BridgeInv, CoreInv, [OneAtATime]_allVars
    PROVE  CoreInv'
  <1>1. CASE (\A w \in Workers : ~Busy(w)) /\ Issue
    BY <1>1, IssueCore
  <1>2. ASSUME NEW w \in Workers, Alone(w), Works(w) PROVE CoreInv'
    BY <1>2, DeliveryCore, ApprovalCore, RemovalCore, OtherCore DEF Works
  <1>3. CASE UNCHANGED allVars
    <2>1. UNCHANGED <<batchSeq, batch, consumed, txPhase, view, drawn, wrote, job, call, reconciled>>
      BY <1>3 DEF allVars, vars, bridgeVars
    <2>2. OneBusy' /\ ViewFresh' /\ StatusRight' /\ OnlyVoidingWritesOff'
      BY <2>1 DEF CoreInv, OneBusy, Busy, ViewFresh, StatusRight, OnlyVoidingWritesOff
    <2>3. StockStill
      BY <2>1 DEF StockStill
    <2>4. \A w \in Workers : FreshCall(w)'
      <3> TAKE w \in Workers
      <3>1. Keeps(call'[w]) = Keeps(call[w]) /\ call'[w].copies = call[w].copies
        BY <2>1
      <3> QED
        BY <2>3, <3>1, StillFresh
    <2> QED
      BY <2>2, <2>4 DEF CoreInv, CopiesFresh
  <1> QED
    BY <1>1, <1>2, <1>3 DEF OneAtATime, Works

SerialInv == BridgeInv /\ CoreInv

LEMMA AlwaysSerialInv == SerialSpec => []SerialInv
  <1>1. BridgeInit => SerialInv
    BY BridgeInitTypes, CostInit, CoreInit DEF BridgeInv, SerialInv
  <1>2. SerialInv /\ [OneAtATime]_allVars => SerialInv'
    BY SerialIsBridge, BridgeTypeStep, CostStep, CoreStep DEF BridgeInv, SerialInv
  <1> QED
    BY <1>1, <1>2, PTL DEF SerialSpec

\* Received one at a time, goods leave a batch only by being issued, or with
\* the whole of what is left when their delivery note is deleted.
THEOREM StockOnlyIssued == SerialSpec => []OnlyVoidingWritesOff
  <1>1. SerialInv => OnlyVoidingWritesOff
    BY DEF SerialInv, CoreInv
  <1> QED
    BY <1>1, AlwaysSerialInv, PTL

----------------------------------------------------------------------------
(* Goods are received once, and an invoice marked priced is received.      *)

\* Batches stay, and what is matched stays matched.
StockGrows ==
    \A b \in 1..batchSeq : /\ b \in 1..batchSeq'
                           /\ origin'[b] = origin[b]
                           /\ batch'[b].product = batch[b].product
                           /\ reconciled[b] => reconciled'[b]

NoneMatched == \A b \in 1..batchSeq : reconciled'[b] => reconciled[b]

LEMMA SameGrows ==
    ASSUME BridgeInv, UNCHANGED <<batchSeq, batch, origin, reconciled>>
    PROVE  StockGrows /\ batchSeq' = batchSeq /\ NoneMatched
  BY DEF BridgeInv, TypeOK, StoreTypeOK, StockGrows, NoneMatched

LEMMA SaveGrows ==
    ASSUME BridgeInv, NEW o \in 1..batchSeq, NEW copy, SaveBatch(o, copy),
           copy.doc.product = batch[o].product, reconciled[o] => copy.reconciled
    PROVE  /\ StockGrows /\ batchSeq' = batchSeq
           /\ \A b \in 1..batchSeq : reconciled'[b] => reconciled[b] \/ b = o
           /\ (copy.reconciled => reconciled[o]) => NoneMatched
           /\ copy.reconciled => reconciled'[o]
  <1>1. batchSeq \in Nat /\ DOMAIN batch = 1..batchSeq /\ DOMAIN reconciled = 1..batchSeq
    BY LenProperties DEF BridgeInv, TypeOK, StoreTypeOK, DocsOK
  <1>2. batch' = [batch EXCEPT ![o] = copy.doc]
        /\ reconciled' = [reconciled EXCEPT ![o] = copy.reconciled]
        /\ UNCHANGED <<batchSeq, origin>>
    BY DEF SaveBatch
  <1> QED
    BY <1>1, <1>2 DEF StockGrows, NoneMatched

Brings(source, p) ==
    /\ batchSeq' = batchSeq + 1
    /\ origin'[batchSeq'] = source
    /\ batch'[batchSeq'].product = p
    /\ ~reconciled'[batchSeq']

LEMMA ReceiveGrows ==
    ASSUME BridgeInv, NEW p, NEW date, NEW amount, NEW cost, NEW source \in Origin,
           Receive(p, date, amount, cost, source)
    PROVE  StockGrows /\ NoneMatched /\ Brings(source, p)
  <1>1. SameBatches /\ batchSeq' \in Nat /\ batchSeq' >= batchSeq
    BY ReceiveSame DEF BridgeInv
  <1>2. batchSeq \in Nat /\ origin \in Seq(Origin) /\ Len(origin) = batchSeq
        /\ reconciled \in Seq(BOOLEAN) /\ Len(reconciled) = batchSeq
    BY DEF BridgeInv, TypeOK, StoreTypeOK, DocsOK
  <1>3. batchSeq' = batchSeq + 1 /\ batch'[batchSeq + 1].product = p
    BY <1>2 DEF Receive, CreateBatch
  <1>4. origin'[batchSeq + 1] = source
    BY <1>2, AppendProperties DEF Receive
  <1>5. ~reconciled'[batchSeq + 1]
    BY <1>2, AppendFalse DEF Receive
  <1>6. \A b \in 1..batchSeq : b \in 1..batchSeq'
    BY <1>2, <1>3
  <1>7. StockGrows /\ NoneMatched
    BY <1>1, <1>6 DEF SameBatches, StockGrows, NoneMatched
  <1> QED
    BY <1>3, <1>4, <1>5, <1>7 DEF Brings

LEMMA DeliveryBrings ==
    ASSUME BridgeInv, NEW w \in Workers, ReceiveDelivery(w)
    PROVE  /\ StockGrows /\ NoneMatched
           /\ Brings([type |-> "grn", ref |-> call[w].note], NoteLine[call[w].note].product)
           /\ call[w].kind = "deliver" /\ call[w].at = "create" /\ call[w].note \in Notes
  <1>1. PICK B \in SUBSET (1..batchSeq) : call[w] \in Call(B)
    BY DEF BridgeInv, CallsOK, CallOK
  <1>2. call[w] \in DeliverSet
    BY <1>1, CallKinds DEF ReceiveDelivery, Step
  <1> DEFINE n == call[w].note
  <1>3. n \in Notes /\ [type |-> "grn", ref |-> n] \in Origin
    BY <1>2 DEF Origin, DeliverSet
  <1>4. Receive(NoteLine[n].product, NoteLine[n].date, NoteLine[n].qty, ProvisionalCost,
                [type |-> "grn", ref |-> n])
    BY DEF ReceiveDelivery
  <1>5. call[w].kind = "deliver" /\ call[w].at = "create"
    BY DEF ReceiveDelivery, Step
  <1> HIDE DEF n
  <1>6. StockGrows /\ NoneMatched /\ Brings([type |-> "grn", ref |-> n], NoteLine[n].product)
    BY <1>3, <1>4, ReceiveGrows
  <1> QED
    BY <1>3, <1>5, <1>6 DEF n

LEMMA PurchaseBrings ==
    ASSUME BridgeInv, NEW w \in Workers, PurchaseBatch(w)
    PROVE  /\ StockGrows /\ NoneMatched
           /\ Brings([type |-> "supplier_invoice", ref |-> call[w].invoice],
                     InvoiceLine[call[w].invoice].product)
           /\ call[w].kind = "approve" /\ call[w].at = "purchase" /\ call[w].invoice \in Invoices
  <1>1. batchSeq \in Nat /\ CallOK(call[w], batchSeq) /\ call[w].kind = "approve"
        /\ call[w].at = "purchase"
    BY DEF BridgeInv, CallsOK, TypeOK, StoreTypeOK, PurchaseBatch, Step
  <1>2. PICK B : call[w] \in ApproveSet(B)
    BY <1>1, ApproveHolds
  <1> DEFINE i == call[w].invoice
  <1>3. i \in Invoices /\ [type |-> "supplier_invoice", ref |-> i] \in Origin
    BY <1>2 DEF Origin, ApproveSet
  <1>4. Receive(InvoiceLine[i].product, InvoiceLine[i].date, InvoiceLine[i].qty,
                InvoiceLine[i].cost, [type |-> "supplier_invoice", ref |-> i])
    BY DEF PurchaseBatch
  <1> HIDE DEF i
  <1>6. StockGrows /\ NoneMatched
        /\ Brings([type |-> "supplier_invoice", ref |-> i], InvoiceLine[i].product)
    BY <1>3, <1>4, ReceiveGrows
  <1> QED
    BY <1>1, <1>3, <1>6 DEF i

LEMMA RecostMatches ==
    ASSUME BridgeInv, CoreInv, NEW w \in Workers, RecostBatch(w)
    PROVE  \E o \in 1..batchSeq :
             /\ StockGrows /\ batchSeq' = batchSeq
             /\ \A b \in 1..batchSeq : reconciled'[b] => reconciled[b] \/ b = o
             /\ reconciled'[o]
             /\ Linked(call[w].invoice, o)
             /\ call[w].invoice \in Invoices
  <1>1. /\ call[w].kind = "approve" /\ call[w].at = "recost"
        /\ batchSeq \in Nat /\ CallOK(call[w], batchSeq)
    BY DEF RecostBatch, Step, BridgeInv, CallsOK, TypeOK, StoreTypeOK
  <1>2. PICK B \in SUBSET (1..batchSeq) :
          call[w] \in ApproveSet(B) /\ Oldest(call[w].copies) \in B
    BY <1>1, ApproveHolds
  <1> DEFINE o == Oldest(call[w].copies)
             doc == call[w].copies[o].doc
             copy == [doc |-> [doc EXCEPT !.cost = InvoiceLine[call[w].invoice].cost],
                      reconciled |-> TRUE]
  <1>3. o \in Holds(call[w]) /\ o \in Keeps(call[w]) /\ o \in 1..batchSeq /\ doc \in Batch
    BY <1>1, <1>2 DEF Keeps, Holds, Recosts, ApproveSet, Copy
  <1>4. doc = batch[o]
    BY <1>3 DEF CoreInv, CopiesFresh, FreshCall
  <1>5. SaveBatch(o, copy)
    BY DEF RecostBatch
  <1>6. copy.doc.product = batch[o].product /\ copy.reconciled
    BY <1>3, <1>4 DEF Batch
  <1>7. Linked(call[w].invoice, o)
    BY <1>1, <1>3 DEF BridgeInv, CostInv, CopiesRight, CopyRight
  <1> HIDE DEF o, copy
  <1>8. StockGrows /\ batchSeq' = batchSeq /\ reconciled'[o]
        /\ \A b \in 1..batchSeq : reconciled'[b] => reconciled[b] \/ b = o
    BY <1>3, <1>5, <1>6, SaveGrows
  <1> QED
    BY <1>2, <1>3, <1>7, <1>8 DEF ApproveSet

LEMMA VoidGrows ==
    ASSUME BridgeInv, CoreInv, NEW w \in Workers, VoidSave(w)
    PROVE  StockGrows /\ batchSeq' = batchSeq /\ NoneMatched
  <1>1. /\ call[w].kind = "remove" /\ call[w].at = "save"
        /\ batchSeq \in Nat /\ CallOK(call[w], batchSeq)
    BY DEF VoidSave, Step, BridgeInv, CallsOK, TypeOK, StoreTypeOK
  <1>2. PICK B \in SUBSET (1..batchSeq) :
          call[w] \in RemoveSet(B) /\ Oldest(call[w].copies) \in B
    BY <1>1, RemoveHolds
  <1> DEFINE o == Oldest(call[w].copies)
             doc == call[w].copies[o].doc
             copy == [call[w].copies[o] EXCEPT !.doc = [doc EXCEPT !.remaining = 0,
                                                                   !.status = "written_off"]]
  <1>3. o \in Keeps(call[w]) /\ o \in 1..batchSeq /\ call[w].copies[o] \in Copy
    BY <1>1, <1>2 DEF Keeps, Holds, Recosts, RemoveSet
  <1>4. doc = batch[o] /\ call[w].copies[o].reconciled = reconciled[o]
    BY <1>3 DEF CoreInv, CopiesFresh, FreshCall
  <1>5. SaveBatch(o, copy)
    BY DEF VoidSave
  <1>6. copy.doc.product = batch[o].product /\ copy.reconciled = reconciled[o]
    BY <1>3, <1>4 DEF Batch, Copy
  <1> HIDE DEF o, copy
  <1> QED
    BY <1>3, <1>5, <1>6, SaveGrows

\* The other steps of a request leave the batches' sources alone.
LEMMA QuietGrows ==
    ASSUME BridgeInv, NEW w \in Workers, Works(w), ~ReceiveDelivery(w), ~PurchaseBatch(w),
           ~RecostBatch(w), ~VoidSave(w)
    PROVE  StockGrows /\ batchSeq' = batchSeq /\ NoneMatched
  <1>1. CASE Adjust(w)
    BY <1>1, SameGrows DEF Adjust, AdjustRead, AdjustSave, SaveQuantity, bridgeVars
  <1>2. CASE LinkDelivery(w) \/ FindInvoices(w) \/ ReadLines(w) \/ CheckDelivery(w)
    BY <1>2, SameGrows DEF LinkDelivery, FindInvoices, ReadLines, CheckDelivery, vars
  <1>3. CASE ApproveRead(w) \/ PriceItem(w) \/ FindBatches(w) \/ ReadRows(w)
    BY <1>3, SameGrows DEF ApproveRead, PriceItem, FindBatches, ReadRows, vars
  <1>4. CASE RecostRow(w) \/ NextBatch(w) \/ CompleteInvoice(w)
    BY <1>4, SameGrows DEF RecostRow, NextBatch, CompleteInvoice, vars
  <1>5. CASE RemoveInvoices(w) \/ RemoveNote(w) \/ VoidRead(w) \/ VoidAdjust(w)
    BY <1>5, SameGrows DEF RemoveInvoices, RemoveNote, VoidRead, VoidAdjust, vars
  <1>6. CASE LineFails(w) \/ LoseCall(w)
    BY <1>6, SameGrows DEF LineFails, LoseCall
  <1> QED
    BY <1>1, <1>2, <1>3, <1>4, <1>5, <1>6 DEF Works, DeliveryStep, ApprovalStep, RemovalStep

LEMMA IssueGrows ==
    ASSUME BridgeInv, CoreInv, Issue
    PROVE  StockGrows /\ batchSeq' = batchSeq /\ UNCHANGED bridgeVars
  <1>1. TypeOK /\ batchSeq \in Nat /\ UNCHANGED bridgeVars /\ TxStep
    BY DEF BridgeInv, Issue, TypeOK, StoreTypeOK
  <1>2. batchSeq' = batchSeq /\ \A b \in 1..batchSeq : batch'[b].product = batch[b].product
    <2>1. CASE Commit
      <3>1. txPhase # "idle" /\ batchSeq' = batchSeq
            /\ \A b \in 1..batchSeq : batch'[b] \in {batch[b], view[b]}
        BY <2>1 DEF Commit
      <3> QED
        BY <3>1 DEF CoreInv, ViewFresh
    <2>2. CASE ~Commit
      BY <1>1, <2>2 DEF TxStep, Begin, ReadProduct, Draw, OutOfStock, SaveProduct, Abort
    <2> QED
      BY <2>1, <2>2
  <1> QED
    BY <1>1, <1>2 DEF StockGrows, bridgeVars

\* Every worker step but PriceItem leaves the marks alone.
LEMMA MarksKept ==
    ASSUME BridgeInv, NEW w \in Workers, Works(w)
    PROVE  lost \subseteq lost' /\ (priced' = priced \/ PriceItem(w))
  <1>1. CASE Adjust(w)
    BY <1>1 DEF Adjust, bridgeVars
  <1>2. CASE DeliveryStep(w)
    BY <1>2 DEF DeliveryStep, LinkDelivery, FindInvoices, ReadLines, CheckDelivery,
                ReceiveDelivery, Receive
  <1>3. CASE ApproveRead(w) \/ PriceItem(w) \/ FindBatches(w) \/ ReadRows(w)
    BY <1>3 DEF ApproveRead, PriceItem, FindBatches, ReadRows
  <1>4. CASE RecostRow(w) \/ NextBatch(w) \/ CompleteInvoice(w)
    BY <1>4 DEF RecostRow, NextBatch, CompleteInvoice
  <1>5. CASE RecostBatch(w) \/ PurchaseBatch(w) \/ VoidSave(w)
    BY <1>5 DEF RecostBatch, PurchaseBatch, VoidSave, SaveBatch, Receive
  <1>6. CASE RemoveInvoices(w) \/ RemoveNote(w) \/ VoidRead(w) \/ VoidAdjust(w)
    BY <1>6 DEF RemoveInvoices, RemoveNote, VoidRead, VoidAdjust
  <1>7. CASE LineFails(w) \/ LoseCall(w)
    BY <1>7 DEF LineFails, LoseCall
  <1> QED
    BY <1>1, <1>2, <1>3, <1>4, <1>5, <1>6, <1>7 DEF Works, ApprovalStep, RemovalStep

Received(i) ==
    \E b \in 1..batchSeq :
        \/ origin[b] = [type |-> "supplier_invoice", ref |-> i]
        \/ /\ \E n \in NotesOf(i) : origin[b] = [type |-> "grn", ref |-> n]
           /\ reconciled[b]

\* The approval of an invoice still has its goods to receive.
Awaits(c, i) ==
    c.kind = "approve" /\ c.invoice = i /\ c.at \in {"find", "recost", "purchase"}

\* What is marked priced has been received or is about to be.
PricedFate ==
    \A i \in Invoices \ lost :
        priced[i] => Received(i) \/ \E w \in Workers : Awaits(call[w], i)

LEMMA ReceivedStays ==
    ASSUME BridgeInv, StockGrows, NEW i, Received(i)
    PROVE  Received(i)'
  BY DEF StockGrows, Received

Answers(w, i) == Awaits(call'[w], i) \/ Received(i)' \/ i \in lost'

LEMMA FateKept ==
    ASSUME BridgeInv, PricedFate, StockGrows, NEW w \in Workers, Others(w), lost \subseteq lost',
           priced' = priced, \A i \in Invoices : Awaits(call[w], i) => Answers(w, i)
    PROVE  PricedFate'
  <1> SUFFICES ASSUME NEW i \in Invoices \ lost', priced'[i]
               PROVE  Received(i)' \/ \E v \in Workers : Awaits(call'[v], i)
    BY DEF PricedFate, Awaits
  <1>1. Received(i) \/ \E v \in Workers : Awaits(call[v], i)
    BY DEF PricedFate
  <1>2. CASE Received(i)
    BY <1>2, ReceivedStays
  <1>3. ASSUME NEW v \in Workers, Awaits(call[v], i)
        PROVE  Received(i)' \/ Awaits(call'[v], i)
    <2>1. CASE v = w
      BY <1>3, <2>1 DEF Answers
    <2>2. CASE v # w
      BY <1>3, <2>2 DEF Others
    <2> QED
      BY <2>1, <2>2
  <1> QED
    BY <1>1, <1>2, <1>3

\* The steps of a request that awaits no goods of an invoice.
LEMMA AwaitsNothing ==
    ASSUME NEW w \in Workers,
           \/ DeliveryStep(w) \/ RemovalStep(w) \/ ApproveRead(w) \/ PriceItem(w)
           \/ ReadRows(w) \/ RecostRow(w) \/ NextBatch(w) \/ CompleteInvoice(w)
    PROVE  \A i : ~Awaits(call[w], i)
  <1>1. CASE DeliveryStep(w)
    BY <1>1 DEF DeliveryStep, LinkDelivery, FindInvoices, ReadLines, CheckDelivery,
                ReceiveDelivery, Step, NoCall, Awaits
  <1>2. CASE RemovalStep(w)
    BY <1>2 DEF RemovalStep, RemoveInvoices, RemoveNote, VoidRead, VoidAdjust, VoidSave, Step,
                NoCall, Awaits
  <1>3. CASE ApproveRead(w) \/ PriceItem(w) \/ ReadRows(w)
    BY <1>3 DEF ApproveRead, PriceItem, ReadRows, Step, NoCall, Awaits
  <1>4. CASE RecostRow(w) \/ NextBatch(w) \/ CompleteInvoice(w)
    BY <1>4 DEF RecostRow, NextBatch, CompleteInvoice, Step, Awaits
  <1> QED
    BY <1>1, <1>2, <1>3, <1>4

LEMMA WorkGrows ==
    ASSUME BridgeInv, CoreInv, NEW w \in Workers, Works(w)
    PROVE  StockGrows
  <1>1. CASE ReceiveDelivery(w)
    BY <1>1, DeliveryBrings
  <1>2. CASE PurchaseBatch(w)
    BY <1>2, PurchaseBrings
  <1>3. CASE RecostBatch(w)
    BY <1>3, RecostMatches
  <1>4. CASE VoidSave(w)
    BY <1>4, VoidGrows
  <1> QED
    BY <1>1, <1>2, <1>3, <1>4, QuietGrows

LEMMA WorkerFate ==
    ASSUME Invoices \subseteq Watched, BridgeInv, CoreInv, PricedFate, NEW w \in Workers,
           Alone(w), Works(w)
    PROVE  PricedFate'
  <1>1. Others(w) /\ StockGrows /\ lost \subseteq lost' /\ DOMAIN call = Workers
        /\ batchSeq \in Nat /\ CallOK(call[w], batchSeq)
    BY WorkerStep, WorkGrows, MarksKept DEF BridgeInv, CallsOK, TypeOK, StoreTypeOK
  <1>2. ASSUME priced' = priced, \A i \in Invoices : Awaits(call[w], i) => Answers(w, i)
        PROVE  PricedFate'
    BY <1>1, <1>2, FateKept
  <1>3. CASE PriceItem(w)
    <2>1. /\ call[w].kind = "approve" /\ GoTo(w, "find")
          /\ \/ priced' = [priced EXCEPT ![call[w].invoice] = TRUE]
             \/ priced' = priced
      BY <1>3 DEF PriceItem, Step
    <2>2. Goes(w, "find", call[w].copies)
      BY <2>1, GoToGoes
    <2>3. Awaits(call'[w], call[w].invoice)
      BY <2>1, <2>2 DEF Goes, Awaits
    <2>4. priced \in [Invoices -> BOOLEAN]
      BY DEF BridgeInv, DocsOK
    <2>5. CASE priced' = priced
      BY <1>2, <1>3, <2>5, AwaitsNothing
    <2>6. CASE priced' = [priced EXCEPT ![call[w].invoice] = TRUE]
      <3> SUFFICES ASSUME NEW i \in Invoices \ lost', priced'[i]
                   PROVE  Received(i)' \/ \E v \in Workers : Awaits(call'[v], i)
        BY DEF PricedFate, Awaits
      <3>1. CASE i = call[w].invoice
        BY <2>3, <3>1
      <3>2. CASE i # call[w].invoice
        <4>1. priced[i] /\ i \notin lost
          BY <1>1, <2>4, <2>6, <3>2
        <4>2. Received(i) \/ \E v \in Workers : Awaits(call[v], i)
          BY <4>1 DEF PricedFate
        <4>3. CASE Received(i)
          BY <1>1, <4>3, ReceivedStays
        <4>4. ASSUME NEW v \in Workers, Awaits(call[v], i) PROVE Awaits(call'[v], i)
          <5>1. v # w
            BY <1>3, <4>4, AwaitsNothing
          <5> QED
            BY <1>1, <4>4, <5>1 DEF Others
        <4> QED
          BY <4>2, <4>3, <4>4
      <3> QED
        BY <3>1, <3>2
    <2> QED
      BY <2>1, <2>5, <2>6
  <1>4. CASE \/ DeliveryStep(w) \/ RemovalStep(w) \/ ApproveRead(w)
             \/ ReadRows(w) \/ RecostRow(w) \/ NextBatch(w) \/ CompleteInvoice(w)
    <2>1. \A i : ~Awaits(call[w], i)
      BY <1>4, AwaitsNothing
    <2>2. priced' = priced \/ PriceItem(w)
      BY MarksKept
    <2> QED
      BY <1>2, <1>3, <2>1, <2>2
  <1>5. CASE Adjust(w)
    <2>1. call' = call /\ priced' = priced
      BY <1>5 DEF Adjust, bridgeVars
    <2> QED
      BY <1>2, <2>1 DEF Answers
  <1>6. CASE FindBatches(w)
    <2>1. call[w].kind = "approve" /\ priced' = priced
      BY <1>6 DEF FindBatches, Step
    <2>2. PICK found \in SUBSET (1..batchSeq) :
            call' = [call EXCEPT ![w].copies = Copies(found),
                                 ![w].at = IF found = {} THEN "purchase" ELSE "recost"]
      BY <1>6 DEF FindBatches
    <2>3. Goes(w, IF found = {} THEN "purchase" ELSE "recost", Copies(found))
      BY <2>1, <2>2, CopiesGoes
    <2>4. \A i \in Invoices : Awaits(call[w], i) => Answers(w, i)
      BY <2>1, <2>3 DEF Goes, Awaits, Answers
    <2> QED
      BY <1>2, <2>1, <2>4
  <1>7. CASE RecostBatch(w)
    <2>1. PICK o \in 1..batchSeq : /\ batchSeq' = batchSeq /\ StockGrows /\ reconciled'[o]
                                   /\ Linked(call[w].invoice, o)
      BY <1>7, RecostMatches
    <2>2. \A i \in Invoices : i = call[w].invoice => Received(i)'
      BY <2>1 DEF Linked, Received, StockGrows
    <2>3. priced' = priced
      BY <1>7 DEF RecostBatch, SaveBatch
    <2> QED
      BY <1>2, <2>2, <2>3 DEF Answers, Awaits
  <1>8. CASE PurchaseBatch(w)
    <2>1. Brings([type |-> "supplier_invoice", ref |-> call[w].invoice],
                 InvoiceLine[call[w].invoice].product)
      BY <1>8, PurchaseBrings
    <2>2. batchSeq' \in 1..batchSeq'
      BY <1>1, <2>1 DEF Brings
    <2>3. \A i \in Invoices : i = call[w].invoice => Received(i)'
      BY <2>1, <2>2 DEF Brings, Received
    <2>4. priced' = priced
      BY <1>8 DEF PurchaseBatch, Receive
    <2> QED
      BY <1>2, <2>3, <2>4 DEF Answers, Awaits
  <1>9. CASE LineFails(w) \/ LoseCall(w)
    <2>1. lost \cup (Due(w) \cap Watched) \subseteq lost' /\ priced' = priced
      BY <1>9 DEF LineFails, LoseCall
    <2>2. \A i \in Invoices : Awaits(call[w], i) => i \in Due(w)
      BY DEF Awaits, Due
    <2> QED
      BY <1>2, <2>1, <2>2 DEF Answers
  <1> QED
    BY <1>3, <1>4, <1>5, <1>6, <1>7, <1>8, <1>9 DEF Works, ApprovalStep

LEMMA SameFate ==
    ASSUME BridgeInv, PricedFate, StockGrows, UNCHANGED <<call, priced, lost>>
    PROVE  PricedFate'
  <1> SUFFICES ASSUME NEW i \in Invoices \ lost, priced[i]
               PROVE  Received(i)' \/ \E v \in Workers : Awaits(call[v], i)
    BY DEF PricedFate, Awaits
  <1> QED
    BY ReceivedStays DEF PricedFate

LEMMA FateStep ==
    ASSUME Invoices \subseteq Watched, SerialInv, PricedFate, [OneAtATime]_allVars
    PROVE  PricedFate'
  <1>1. BridgeInv /\ CoreInv
    BY DEF SerialInv
  <1>2. CASE Issue
    BY <1>1, <1>2, IssueGrows, SameFate DEF bridgeVars
  <1>3. ASSUME NEW w \in Workers, Alone(w), Works(w) PROVE PricedFate'
    BY <1>1, <1>3, WorkerFate
  <1>4. CASE UNCHANGED allVars
    <2>1. UNCHANGED <<batchSeq, batch, origin, reconciled, call, priced, lost>>
      BY <1>4 DEF allVars, vars, bridgeVars
    <2> QED
      BY <1>1, <2>1, SameGrows, SameFate
  <1> QED
    BY <1>2, <1>3, <1>4 DEF OneAtATime, Works

\* Received one at a time, the goods of an invoice whose line is marked priced
\* have come in, or the note's batch was matched, once its approval is over:
\* unless it died or the line failed, which is recorded of every invoice.
THEOREM PricedGoodsArrive ==
    ASSUME Invoices \subseteq Watched
    PROVE  SerialSpec => []PricedIsReceived
  <1>1. BridgeInit => PricedFate
    BY DEF BridgeInit, PricedFate
  <1>2. SerialInv /\ PricedFate /\ [OneAtATime]_allVars => PricedFate'
    BY FateStep
  <1>3. PricedFate => PricedIsReceived
    BY DEF PricedFate, PricedIsReceived, Received, Awaits
  <1> QED
    BY <1>1, <1>2, <1>3, AlwaysSerialInv, PTL DEF SerialSpec

\* Where the steps of an approval lead.
Approves(w, from, to) ==
    /\ call[w].kind = "approve" /\ call[w].at \in from
    /\ call'[w].kind = "approve" /\ call'[w].at \in to
    /\ call'[w].invoice = call[w].invoice

LEMMA ApprovalMoves ==
    ASSUME BridgeInv, NEW w \in Workers
    PROVE  /\ PriceItem(w) => Approves(w, {"price"}, {"find"})
           /\ FindBatches(w) => Approves(w, {"find"}, {"purchase", "recost"})
           /\ RecostBatch(w) => Approves(w, {"recost"}, {"rows"})
           /\ ReadRows(w) \/ RecostRow(w) => Approves(w, {"rows", "row"}, {"row"})
           /\ NextBatch(w) => Approves(w, {"row"}, {"recost", "complete"})
           /\ PurchaseBatch(w) => Approves(w, {"purchase"}, {"complete"})
           /\ LineFails(w) => Approves(w, {call[w].at}, {"complete"})
  <1>1. ASSUME PriceItem(w) PROVE Approves(w, {"price"}, {"find"})
    <2>1. call[w].kind = "approve" /\ call[w].at = "price" /\ GoTo(w, "find")
      BY <1>1 DEF PriceItem, Step
    <2>2. Goes(w, "find", call[w].copies)
      BY <2>1, GoToGoes
    <2> QED
      BY <2>1, <2>2 DEF Goes, Approves
  <1>2. ASSUME FindBatches(w) PROVE Approves(w, {"find"}, {"purchase", "recost"})
    <2>1. call[w].kind = "approve" /\ call[w].at = "find"
      BY <1>2 DEF FindBatches, Step
    <2>2. PICK copies : \E at \in {"purchase", "recost"} :
            call' = [call EXCEPT ![w].copies = copies, ![w].at = at]
      BY <1>2 DEF FindBatches
    <2>3. \E at \in {"purchase", "recost"} : Goes(w, at, copies)
      BY <2>1, <2>2, CopiesGoes
    <2> QED
      BY <2>1, <2>3 DEF Goes, Approves
  <1>3. ASSUME RecostBatch(w) PROVE Approves(w, {"recost"}, {"rows"})
    <2>1. call[w].kind = "approve" /\ call[w].at = "recost" /\ GoTo(w, "rows")
      BY <1>3 DEF RecostBatch, Step
    <2>2. Goes(w, "rows", call[w].copies)
      BY <2>1, GoToGoes
    <2> QED
      BY <2>1, <2>2 DEF Goes, Approves
  <1>4. ASSUME ReadRows(w) \/ RecostRow(w) PROVE Approves(w, {"rows", "row"}, {"row"})
    BY <1>4, RowsGoes DEF Goes, Approves
  <1>5. ASSUME NextBatch(w) PROVE Approves(w, {"row"}, {"recost", "complete"})
    <2>1. call[w].kind = "approve" /\ call[w].at = "row"
      BY <1>5 DEF NextBatch, Step
    <2>2. PICK left : \E at \in {"recost", "complete"} :
            call' = [call EXCEPT ![w].copies = left, ![w].at = at]
      BY <1>5 DEF NextBatch
    <2>3. \E at \in {"recost", "complete"} : Goes(w, at, left)
      BY <2>1, <2>2, CopiesGoes
    <2> QED
      BY <2>1, <2>3 DEF Goes, Approves
  <1>6. ASSUME PurchaseBatch(w) PROVE Approves(w, {"purchase"}, {"complete"})
    <2>1. call[w].kind = "approve" /\ call[w].at = "purchase" /\ GoTo(w, "complete")
      BY <1>6 DEF PurchaseBatch, Step
    <2>2. Goes(w, "complete", call[w].copies)
      BY <2>1, GoToGoes
    <2> QED
      BY <2>1, <2>2 DEF Goes, Approves
  <1>7. ASSUME LineFails(w) PROVE Approves(w, {call[w].at}, {"complete"})
    <2>1. call[w].kind = "approve" /\ GoTo(w, "complete")
      BY <1>7 DEF LineFails
    <2>2. Goes(w, "complete", call[w].copies)
      BY <2>1, GoToGoes
    <2> QED
      BY <2>1, <2>2 DEF Goes, Approves
  <1> QED
    BY <1>1, <1>2, <1>3, <1>4, <1>5, <1>6, <1>7

\* The steps after which a request is no approval.
LEMMA NoApproval ==
    ASSUME BridgeInv, NEW w \in Workers,
           DeliveryStep(w) \/ RemovalStep(w) \/ CompleteInvoice(w) \/ LoseCall(w)
    PROVE  /\ call'[w].kind # "approve"
           /\ call'[w].kind = "deliver" => DeliveryStep(w)
  <1>1. DOMAIN call = Workers
    BY DEF BridgeInv, CallsOK
  <1>2. ASSUME Return(w) PROVE call'[w].kind = "none"
    BY <1>2, Returns DEF NoCall
  <1>3. ASSUME NEW at, GoTo(w, at), call[w].kind \in {"deliver", "remove"}
        PROVE  call'[w].kind = call[w].kind
    BY <1>3, GoToGoes DEF Goes
  <1>4. CASE LinkDelivery(w)
    <2>1. call'[w].kind = "deliver"
      BY <1>1, <1>4 DEF LinkDelivery
    <2> QED
      BY <1>4, <2>1 DEF DeliveryStep
  <1>10. CASE FindInvoices(w)
    BY <1>10, FindGoes DEF DeliveryStep
  <1>5. CASE ReadLines(w) \/ CheckDelivery(w)
    <2>1. Return(w) \/ \E at \in {"check", "create"} : GoTo(w, at)
      BY <1>5 DEF ReadLines, CheckDelivery
    <2>2. call[w].kind = "deliver"
      BY <1>5 DEF ReadLines, CheckDelivery, Step
    <2>3. call'[w].kind \in {"none", "deliver"}
      BY <1>2, <1>3, <2>1, <2>2
    <2> QED
      BY <1>5, <2>3 DEF DeliveryStep
  <1>9. CASE RemoveInvoices(w)
    BY <1>1, <1>9 DEF RemoveInvoices
  <1>6. CASE RemoveNote(w) \/ VoidAdjust(w)
    <2>1. PICK at : GoTo(w, at) /\ call[w].kind = "remove"
      BY <1>6 DEF RemoveNote, VoidAdjust, Step
    <2>2. call'[w].kind = "remove"
      BY <1>3, <2>1
    <2> QED
      BY <2>2
  <1>7. CASE VoidRead(w) \/ VoidSave(w)
    <2>1. call[w].kind = "remove"
      BY <1>7 DEF VoidRead, VoidSave, Step
    <2>2. \/ call' = [call EXCEPT ![w] = NoCall]
          \/ \E copies : call' = [call EXCEPT ![w].copies = copies, ![w].at = "adjust"]
      BY <1>7 DEF VoidRead, VoidSave
    <2>3. CASE call' = [call EXCEPT ![w] = NoCall]
      BY <1>1, <2>3 DEF NoCall
    <2>4. ASSUME NEW copies, call' = [call EXCEPT ![w].copies = copies, ![w].at = "adjust"]
          PROVE  call'[w].kind = "remove"
      <3>1. Goes(w, "adjust", copies)
        BY <2>1, <2>4, CopiesGoes
      <3> QED
        BY <2>1, <3>1 DEF Goes
    <2> QED
      BY <2>2, <2>3, <2>4
  <1>8. CASE ReceiveDelivery(w) \/ CompleteInvoice(w) \/ LoseCall(w)
    BY <1>2, <1>8 DEF ReceiveDelivery, CompleteInvoice, LoseCall
  <1> QED
    BY <1>4, <1>5, <1>6, <1>7, <1>8, <1>9, <1>10 DEF DeliveryStep, RemovalStep

\* The goods of an invoice whose line is not priced, or was just priced, are
\* still to come.
Coming(c, i) ==
    c.kind = "approve" /\ c.invoice = i /\ c.at \in {"price", "find", "purchase"}

\* The line could not be marked: it and its notes are given up.
Given(i) == i \in lost /\ NotesOf(i) \subseteq lost

Marked(i) == priced[i] \/ Given(i)

Taken(i) == Given(i) \/ (priced[i] /\ \A w \in Workers : ~Coming(call[w], i))

LEMMA GivenStays ==
    ASSUME BridgeInv, NEW w \in Workers, Works(w), NEW i, Given(i)
    PROVE  Given(i)'
  BY MarksKept DEF Given

LEMMA PricedStays ==
    ASSUME BridgeInv, NEW w \in Workers, Works(w), NEW i \in Invoices, priced[i]
    PROVE  priced'[i]
  <1>1. priced \in [Invoices -> BOOLEAN]
    BY DEF BridgeInv, DocsOK
  <1>2. CASE PriceItem(w)
    <2>1. priced' = priced \/ priced' = [priced EXCEPT ![call[w].invoice] = TRUE]
      BY <1>2 DEF PriceItem
    <2> QED
      BY <1>1, <2>1
  <1> QED
    BY <1>2, MarksKept

\* The invoice and its lines were read.
LEMMA ReadsInvoice ==
    ASSUME BridgeInv, NEW w \in Workers, ApproveRead(w)
    PROVE  /\ call'[w].kind = "approve" /\ call'[w].at \in {"complete", "price"}
           /\ call'[w].invoice \in Invoices /\ invoice[call'[w].invoice] # "deleted"
           /\ call'[w].at = "price" => ~priced[call'[w].invoice]
  <1>1. DOMAIN call = Workers
    BY DEF BridgeInv, CallsOK
  <1>2. PICK j \in Invoices, at \in {"complete", "price"} :
          /\ invoice[j] # "deleted"
          /\ at = "price" => ~priced[j]
          /\ call' = [call EXCEPT ![w] = [kind |-> "approve", at |-> at, invoice |-> j,
                                         copies |-> << >>, rows |-> << >>]]
    BY DEF ApproveRead
  <1>3. call'[w] = [kind |-> "approve", at |-> at, invoice |-> j, copies |-> << >>,
                    rows |-> << >>]
    BY <1>1, <1>2
  <1>4. call'[w].kind = "approve" /\ call'[w].at = at /\ call'[w].invoice = j
    BY <1>3
  <1> QED
    BY <1>2, <1>4

LEMMA TakenStays ==
    ASSUME BridgeInv, NEW w \in Workers, Works(w), Others(w), NEW i \in Invoices, Taken(i)
    PROVE  Taken(i)'
  <1>1. CASE Given(i)
    <2>1. Given(i)'
      BY <1>1, GivenStays
    <2> QED
      BY <2>1 DEF Taken
  <1>2. CASE priced[i] /\ \A v \in Workers : ~Coming(call[v], i)
    <2>1. priced'[i]
      BY <1>2, PricedStays
    <2>2. ~Coming(call'[w], i)
      <3>1. CASE Adjust(w)
        BY <1>2, <3>1 DEF Adjust, bridgeVars, Coming
      <3>2. CASE DeliveryStep(w) \/ RemovalStep(w) \/ CompleteInvoice(w) \/ LoseCall(w)
        BY <3>2, NoApproval DEF Coming
      <3>3. CASE ApproveRead(w)
        BY <1>2, <3>3, ReadsInvoice DEF Coming
      <3>4. CASE PriceItem(w) \/ FindBatches(w)
        <4>1. Approves(w, {"price", "find"}, {"find", "purchase", "recost"})
          BY <3>4, ApprovalMoves DEF Approves
        <4>2. ~Coming(call[w], i)
          BY <1>2
        <4> QED
          BY <4>1, <4>2 DEF Approves, Coming
      <3>5. CASE \/ RecostBatch(w) \/ ReadRows(w) \/ RecostRow(w) \/ NextBatch(w)
                 \/ PurchaseBatch(w) \/ LineFails(w)
        <4>1. call'[w].at \in {"rows", "row", "recost", "complete"}
          BY <3>5, ApprovalMoves DEF Approves
        <4> QED
          BY <4>1 DEF Coming
      <3> QED
        BY <3>1, <3>2, <3>3, <3>4, <3>5 DEF Works, ApprovalStep
    <2>3. \A v \in Workers : ~Coming(call'[v], i)
      BY <1>2, <2>2 DEF Others
    <2> QED
      BY <2>1, <2>3 DEF Taken, Coming
  <1> QED
    BY <1>1, <1>2 DEF Taken

\* A request owes a change of the cache only at the end of its step.
OwesRight(w) ==
    job[w] # Idle =>
        /\ call[w].kind # "deliver"
        /\ call[w].kind = "approve" => call[w].at = "complete"
        /\ call[w].kind = "remove" => call[w].at = "save"

\* An approval marks its line first, or gives it up.
SaysPriced(w) ==
    call[w].kind = "approve" /\ call[w].at \notin {"price", "complete"}
        => Marked(call[w].invoice)

\* It is of an invoice that was not deleted.
Approvable(w) == call[w].kind = "approve" => invoice[call[w].invoice] # "deleted"

\* It buys goods in only when none of the note is left to match.
NoneLeft(w) ==
    call[w].kind = "approve" /\ call[w].at = "purchase" =>
        \A b \in 1..batchSeq : Linked(call[w].invoice, b) => reconciled[b]

LEMMA OwesStep ==
    ASSUME BridgeInv, NEW w \in Workers, Works(w), OwesRight(w)
    PROVE  OwesRight(w)'
  <1>1. DOMAIN job = Workers
    BY DEF BridgeInv, TypeOK
  <1>2. ASSUME job[w] = Idle, job' = job PROVE OwesRight(w)'
    BY <1>2 DEF OwesRight
  <1>3. CASE Adjust(w)
    <2>1. call' = call /\ job[w] # Idle
      BY <1>3 DEF Adjust, AdjustRead, AdjustSave, bridgeVars, Idle
    <2> QED
      BY <2>1 DEF OwesRight
  <1>4. CASE LinkDelivery(w) \/ FindInvoices(w) \/ ReadLines(w) \/ CheckDelivery(w)
    BY <1>2, <1>4 DEF LinkDelivery, FindInvoices, ReadLines, CheckDelivery, Step, vars
  <1>5. CASE ReceiveDelivery(w)
    <2>1. call'[w] = NoCall
      BY <1>5, Returns DEF ReceiveDelivery
    <2> QED
      BY <2>1 DEF OwesRight, NoCall
  <1>6. CASE ApproveRead(w) \/ PriceItem(w) \/ FindBatches(w) \/ ReadRows(w)
    BY <1>2, <1>6 DEF ApproveRead, PriceItem, FindBatches, ReadRows, Step, vars
  <1>7. CASE RecostRow(w) \/ NextBatch(w) \/ CompleteInvoice(w)
    BY <1>2, <1>7 DEF RecostRow, NextBatch, CompleteInvoice, Step, vars
  <1>8. CASE RecostBatch(w)
    BY <1>2, <1>8 DEF RecostBatch, SaveBatch, Step
  <1>9. CASE PurchaseBatch(w)
    BY <1>9, ApprovalMoves DEF Approves, OwesRight
  <1>10. CASE RemoveInvoices(w) \/ RemoveNote(w) \/ VoidRead(w)
    BY <1>2, <1>10 DEF RemoveInvoices, RemoveNote, VoidRead, Step, vars
  <1>11. CASE VoidAdjust(w)
    <2>1. call[w].kind = "remove" /\ GoTo(w, "save")
      BY <1>11 DEF VoidAdjust, Step
    <2>2. Goes(w, "save", call[w].copies)
      BY <2>1, GoToGoes
    <2> QED
      BY <2>1, <2>2 DEF Goes, OwesRight
  <1>12. CASE VoidSave(w)
    BY <1>2, <1>12 DEF VoidSave, SaveBatch, Step
  <1>13. CASE LineFails(w) \/ LoseCall(w)
    BY <1>1, <1>13 DEF LineFails, LoseCall, OwesRight
  <1> QED
    BY <1>3, <1>4, <1>5, <1>6, <1>7, <1>8, <1>9, <1>10, <1>11, <1>12, <1>13
       DEF Works, DeliveryStep, ApprovalStep, RemovalStep

\* The subject of an approval is an invoice.
LEMMA ApprovesInvoice ==
    ASSUME BridgeInv, NEW w \in Workers, call[w].kind = "approve"
    PROVE  call[w].invoice \in Invoices
  <1>1. batchSeq \in Nat /\ CallOK(call[w], batchSeq)
    BY DEF BridgeInv, CallsOK, TypeOK, StoreTypeOK
  <1>2. PICK B : call[w] \in ApproveSet(B)
    BY <1>1, ApproveHolds
  <1> QED
    BY <1>2 DEF ApproveSet

LEMMA SaysStep ==
    ASSUME Notes \union Invoices \subseteq Watched, BridgeInv, NEW w \in Workers, Works(w),
           SaysPriced(w)
    PROVE  SaysPriced(w)'
  <1>1. \A i \in Invoices : Marked(i) => Marked(i)'
    BY GivenStays, PricedStays DEF Marked
  <1>2. CASE Adjust(w)
    BY <1>2 DEF Adjust, bridgeVars, SaysPriced, Marked, Given
  <1>3. CASE DeliveryStep(w) \/ RemovalStep(w) \/ CompleteInvoice(w) \/ LoseCall(w)
    BY <1>3, NoApproval DEF SaysPriced
  <1>4. CASE ApproveRead(w)
    <2>1. call'[w].at \in {"price", "complete"}
      BY <1>4, ReadsInvoice
    <2> QED
      BY <2>1 DEF SaysPriced
  <1>5. CASE PriceItem(w)
    <2>1. Approves(w, {"price"}, {"find"})
      BY <1>5, ApprovalMoves
    <2>2. PICK i \in Invoices : i = call[w].invoice
      BY <2>1, ApprovesInvoice DEF Approves
    <2>3. NotesOf(i) \subseteq Notes
      BY <2>2, InvoicesAssumption DEF NotesOf
    <2>4. \/ priced' = [priced EXCEPT ![i] = TRUE]
          \/ lost' = lost \union (({i} \union NotesOf(i)) \intersect Watched)
      BY <1>5, <2>2 DEF PriceItem
    <2>5. priced \in [Invoices -> BOOLEAN]
      BY DEF BridgeInv, DocsOK
    <2>6. Marked(i)'
      BY <2>2, <2>3, <2>4, <2>5 DEF Marked, Given
    <2>7. call'[w].invoice = i
      BY <2>1, <2>2 DEF Approves
    <2> QED
      BY <2>6, <2>7 DEF SaysPriced, Marked, Given
  <1>6. CASE \/ FindBatches(w) \/ RecostBatch(w) \/ ReadRows(w) \/ RecostRow(w)
             \/ NextBatch(w) \/ PurchaseBatch(w)
    <2>1. Approves(w, {"find", "recost", "rows", "row", "purchase"},
                   {"purchase", "recost", "rows", "row", "complete"})
      BY <1>6, ApprovalMoves DEF Approves
    <2>2. Marked(call[w].invoice)
      BY <2>1 DEF Approves, SaysPriced
    <2>3. call[w].invoice \in Invoices
      BY <2>1, ApprovesInvoice DEF Approves
    <2>4. PICK i \in Invoices : i = call[w].invoice
      BY <2>3
    <2>5. Marked(i)' /\ call'[w].invoice = i
      BY <1>1, <2>1, <2>2, <2>4 DEF Approves
    <2> QED
      BY <2>5 DEF SaysPriced, Marked, Given
  <1>7. CASE LineFails(w)
    <2>1. Approves(w, {call[w].at}, {"complete"})
      BY <1>7, ApprovalMoves
    <2> QED
      BY <2>1 DEF Approves, SaysPriced
  <1> QED
    BY <1>2, <1>3, <1>4, <1>5, <1>6, <1>7 DEF Works, ApprovalStep

LEMMA ApprovableStep ==
    ASSUME BridgeInv, NEW w \in Workers, Works(w), Approvable(w)
    PROVE  Approvable(w)'
  <1>1. CASE Adjust(w)
    BY <1>1 DEF Adjust, bridgeVars, Approvable
  <1>2. CASE DeliveryStep(w) \/ RemovalStep(w) \/ CompleteInvoice(w) \/ LoseCall(w)
    BY <1>2, NoApproval DEF Approvable
  <1>3. CASE ApproveRead(w)
    <2>1. invoice[call'[w].invoice] # "deleted"
      BY <1>3, ReadsInvoice
    <2>2. invoice' = invoice
      BY <1>3 DEF ApproveRead
    <2> QED
      BY <2>1, <2>2 DEF Approvable
  <1>4. CASE \/ PriceItem(w) \/ FindBatches(w) \/ RecostBatch(w) \/ ReadRows(w) \/ RecostRow(w)
             \/ NextBatch(w) \/ PurchaseBatch(w) \/ LineFails(w)
    <2>1. call[w].kind = "approve" /\ call'[w].invoice = call[w].invoice
      BY <1>4, ApprovalMoves DEF Approves
    <2>2. invoice' = invoice
      BY <1>4 DEF PriceItem, FindBatches, RecostBatch, SaveBatch, ReadRows, RecostRow, NextBatch,
                  PurchaseBatch, Receive, LineFails
    <2> QED
      BY <2>1, <2>2 DEF Approvable
  <1> QED
    BY <1>1, <1>2, <1>3, <1>4 DEF Works, ApprovalStep

LEMMA NoneLeftStep ==
    ASSUME BridgeInv, CoreInv, NEW w \in Workers, Works(w), NoneLeft(w)
    PROVE  NoneLeft(w)'
  <1>1. DOMAIN call = Workers /\ batchSeq \in Nat
    BY DEF BridgeInv, CallsOK, TypeOK, StoreTypeOK
  <1>2. CASE Adjust(w)
    BY <1>2 DEF Adjust, AdjustRead, AdjustSave, SaveQuantity, bridgeVars, NoneLeft, Linked
  <1>3. CASE DeliveryStep(w) \/ RemovalStep(w) \/ CompleteInvoice(w) \/ LoseCall(w)
    BY <1>3, NoApproval DEF NoneLeft
  <1>4. CASE ApproveRead(w)
    <2>1. call'[w].at \in {"price", "complete"}
      BY <1>4, ReadsInvoice
    <2> QED
      BY <2>1 DEF NoneLeft
  <1>5. CASE FindBatches(w)
    <2> DEFINE i == call[w].invoice
               line == InvoiceLine[i]
               found == {b \in 1..batchSeq : /\ \E n \in NotesOf(i) : b \in GrnBatches(n)
                                             /\ batch[b].product = line.product
                                             /\ ~reconciled[b]}
    <2>1. call[w].kind = "approve"
          /\ call' = [call EXCEPT ![w].copies = Copies(found),
                                  ![w].at = IF found = {} THEN "purchase" ELSE "recost"]
      BY <1>5 DEF FindBatches, Step
    <2>2. Goes(w, IF found = {} THEN "purchase" ELSE "recost", Copies(found))
      <3> HIDE DEF found
      <3> QED
        BY <2>1, CopiesGoes
    <2>3. UNCHANGED <<batchSeq, batch, origin, reconciled>>
      BY <1>5 DEF FindBatches, vars
    <2>4. CASE found = {}
      <3>1. \A b \in 1..batchSeq : Linked(i, b) => reconciled[b]
        BY <2>4 DEF Linked, GrnBatches
      <3> HIDE DEF i, found
      <3>2. call'[w].invoice = i
        BY <2>1, <2>2 DEF Goes, i
      <3> QED
        BY <2>3, <3>1, <3>2 DEF NoneLeft, Linked
    <2>5. CASE found # {}
      <3> HIDE DEF found
      <3>1. call'[w].at = "recost"
        BY <2>2, <2>5 DEF Goes
      <3> QED
        BY <3>1 DEF NoneLeft
    <2> QED
      BY <2>4, <2>5
  <1>6. CASE \/ PriceItem(w) \/ RecostBatch(w) \/ ReadRows(w) \/ RecostRow(w) \/ NextBatch(w)
             \/ PurchaseBatch(w) \/ LineFails(w)
    <2>1. call'[w].at # "purchase"
      BY <1>6, ApprovalMoves DEF Approves
    <2> QED
      BY <2>1 DEF NoneLeft
  <1> QED
    BY <1>2, <1>3, <1>4, <1>5, <1>6 DEF Works, ApprovalStep

\* A batch has the product its note or invoice announced.
SourceRight(b) ==
    /\ origin[b].type = "grn" => batch[b].product = NoteLine[origin[b].ref].product
    /\ origin[b].type = "supplier_invoice" =>
          batch[b].product = InvoiceLine[origin[b].ref].product

\* It is matched, or bought in, for an invoice that is done with.
MatchTaken(b) == reconciled[b] => \E i \in Invoices : Linked(i, b) /\ Taken(i)

PurchaseTaken(b) == origin[b].type = "supplier_invoice" => Taken(origin[b].ref)

BatchesTaken == \A b \in 1..batchSeq : SourceRight(b) /\ MatchTaken(b) /\ PurchaseTaken(b)

LEMMA OriginIs ==
    ASSUME BridgeInv, NEW b \in 1..batchSeq
    PROVE  /\ origin[b] \in Origin
           /\ origin[b].type = "grn" =>
                origin[b] = [type |-> "grn", ref |-> origin[b].ref] /\ origin[b].ref \in Notes
           /\ origin[b].type = "supplier_invoice" =>
                /\ origin[b] = [type |-> "supplier_invoice", ref |-> origin[b].ref]
                /\ origin[b].ref \in Invoices
  <1>1. origin[b] \in Origin
    BY ElementOfSeq DEF BridgeInv, DocsOK
  <1> QED
    BY <1>1 DEF Origin

\* What a batch that was there before says is still so.
LEMMA OldTaken ==
    ASSUME BridgeInv, StockGrows, BatchesTaken, NEW b \in 1..batchSeq,
           \A i \in Invoices : Taken(i) => Taken(i)'
    PROVE  SourceRight(b)' /\ PurchaseTaken(b)' /\ (reconciled[b] => MatchTaken(b)')
  <1>1. SourceRight(b) /\ MatchTaken(b) /\ PurchaseTaken(b)
    BY DEF BatchesTaken
  <1>2. origin'[b] = origin[b] /\ batch'[b].product = batch[b].product
    BY DEF StockGrows
  <1>3. SourceRight(b)'
    BY <1>1, <1>2 DEF SourceRight
  <1>4. PurchaseTaken(b)'
    BY <1>1, <1>2, OriginIs DEF PurchaseTaken
  <1>5. ASSUME reconciled[b] PROVE MatchTaken(b)'
    <2>1. PICK i \in Invoices : Linked(i, b) /\ Taken(i)
      BY <1>1, <1>5 DEF MatchTaken
    <2>2. Linked(i, b)' /\ Taken(i)'
      BY <1>2, <2>1 DEF Linked
    <2> QED
      BY <2>2 DEF MatchTaken
  <1> QED
    BY <1>3, <1>4, <1>5

LEMMA OldStay ==
    ASSUME BridgeInv, StockGrows, BatchesTaken, batchSeq' = batchSeq, NoneMatched,
           \A i \in Invoices : Taken(i) => Taken(i)'
    PROVE  BatchesTaken'
  <1>1. \A b \in 1..batchSeq : SourceRight(b)' /\ PurchaseTaken(b)' /\ MatchTaken(b)'
    BY OldTaken DEF NoneMatched, MatchTaken
  <1> QED
    BY <1>1 DEF BatchesTaken

\* The invoice just matched or bought in is done with.
LEMMA NowTaken ==
    ASSUME BridgeInv, NEW w \in Workers, Alone(w), Works(w), SaysPriced(w),
           Approves(w, {"recost", "purchase"}, {"rows", "complete"}),
           NEW i, i = call[w].invoice
    PROVE  Taken(i)'
  <1>1. Marked(i)
    BY DEF SaysPriced, Approves
  <1>2. ~PriceItem(w)
    BY DEF PriceItem, Step, Approves
  <1>3. priced' = priced /\ Others(w)
    BY <1>2, MarksKept, WorkerStep
  <1>4. \A v \in Workers : v # w => call'[v] = NoCall
    BY <1>3 DEF Others, Alone, Busy
  <1>5. \A v \in Workers : ~Coming(call'[v], i)
    BY <1>4 DEF Coming, Approves, NoCall
  <1>6. CASE Given(i)
    <2>1. Given(i)'
      BY <1>6, GivenStays
    <2> QED
      BY <2>1 DEF Taken
  <1>7. CASE priced[i]
    BY <1>3, <1>5, <1>7 DEF Taken, Coming
  <1> QED
    BY <1>1, <1>6, <1>7 DEF Marked

LEMMA NewTaken ==
    ASSUME BridgeInv, StockGrows, BatchesTaken, \A i \in Invoices : Taken(i) => Taken(i)',
           NEW n, n = batchSeq', NEW source, NEW p, Brings(source, p), NoneMatched,
           source.type = "grn" => p = NoteLine[source.ref].product,
           source.type = "supplier_invoice" =>
              p = InvoiceLine[source.ref].product /\ Taken(source.ref)'
    PROVE  BatchesTaken'
  <1>1. batchSeq \in Nat
    BY DEF BridgeInv, TypeOK, StoreTypeOK
  <1>2. \A b \in 1..batchSeq : SourceRight(b)' /\ PurchaseTaken(b)' /\ MatchTaken(b)'
    BY OldTaken DEF NoneMatched, MatchTaken
  <1>3. origin'[n] = source /\ batch'[n].product = p /\ ~reconciled'[n]
    BY DEF Brings
  <1>4. SourceRight(n)' /\ MatchTaken(n)'
    BY <1>3 DEF SourceRight, MatchTaken
  <1>5. PurchaseTaken(n)'
    BY <1>3 DEF PurchaseTaken
  <1>6. \A b \in 1..batchSeq' : b \in 1..batchSeq \/ b = n
    BY <1>1 DEF Brings
  <1> QED
    BY <1>2, <1>4, <1>5, <1>6 DEF BatchesTaken

LEMMA TakenStep ==
    ASSUME BridgeInv, CoreInv, NEW w \in Workers, Alone(w), Works(w), SaysPriced(w), BatchesTaken
    PROVE  BatchesTaken'
  <1>1. \A i \in Invoices : Taken(i) => Taken(i)'
    BY WorkerStep, TakenStays
  <1>2. PICK n : n = batchSeq'
    OBVIOUS
  <1>3. CASE ReceiveDelivery(w)
    <2>1. PICK m : m = call[w].note
      OBVIOUS
    <2>2. StockGrows /\ NoneMatched /\ Brings([type |-> "grn", ref |-> m], NoteLine[m].product)
      BY <1>3, <2>1, DeliveryBrings
    <2> DEFINE source == [type |-> "grn", ref |-> m]
    <2>3. source.type = "grn" /\ source.ref = m
      OBVIOUS
    <2> HIDE DEF source
    <2>4. Brings(source, NoteLine[m].product)
      BY <2>2 DEF source
    <2> QED
      BY <1>1, <1>2, <2>2, <2>3, <2>4, NewTaken
  <1>4. CASE PurchaseBatch(w)
    <2>1. PICK i : i = call[w].invoice
      OBVIOUS
    <2>2. /\ StockGrows /\ NoneMatched
          /\ Brings([type |-> "supplier_invoice", ref |-> i], InvoiceLine[i].product)
      BY <1>4, <2>1, PurchaseBrings
    <2>3. Approves(w, {"recost", "purchase"}, {"rows", "complete"})
      BY <1>4, ApprovalMoves DEF Approves
    <2>4. Taken(i)'
      BY <2>1, <2>3, NowTaken
    <2> DEFINE source == [type |-> "supplier_invoice", ref |-> i]
    <2>5. source.type = "supplier_invoice" /\ source.ref = i
      OBVIOUS
    <2> HIDE DEF source
    <2>6. Brings(source, InvoiceLine[i].product)
      BY <2>2 DEF source
    <2>7. source.type = "supplier_invoice" =>
             InvoiceLine[i].product = InvoiceLine[source.ref].product /\ Taken(source.ref)'
      BY <2>4, <2>5
    <2>8. source.type = "grn" => InvoiceLine[i].product = NoteLine[source.ref].product
      BY <2>5
    <2> QED
      BY <1>1, <1>2, <2>2, <2>6, <2>7, <2>8, NewTaken
  <1>5. CASE RecostBatch(w)
    <2>1. PICK o \in 1..batchSeq :
             /\ StockGrows /\ batchSeq' = batchSeq
             /\ \A b \in 1..batchSeq : reconciled'[b] => reconciled[b] \/ b = o
             /\ Linked(call[w].invoice, o)
             /\ call[w].invoice \in Invoices
      BY <1>5, RecostMatches
    <2>2. PICK i \in Invoices : i = call[w].invoice
      BY <2>1
    <2>3. Approves(w, {"recost", "purchase"}, {"rows", "complete"})
      BY <1>5, ApprovalMoves DEF Approves
    <2>4. Taken(i)'
      BY <2>2, <2>3, NowTaken
    <2>5. Linked(i, o)'
      BY <2>1, <2>2 DEF Linked, StockGrows
    <2>6. MatchTaken(o)'
      BY <2>4, <2>5 DEF MatchTaken
    <2>7. \A b \in 1..batchSeq : SourceRight(b)' /\ PurchaseTaken(b)' /\ MatchTaken(b)'
      <3> TAKE b \in 1..batchSeq
      <3>1. SourceRight(b)' /\ PurchaseTaken(b)' /\ (reconciled[b] => MatchTaken(b)')
        BY <1>1, <2>1, OldTaken
      <3>2. CASE ~reconciled[b] /\ b # o
        BY <2>1, <3>1, <3>2 DEF MatchTaken
      <3> QED
        BY <2>6, <3>1, <3>2
    <2> QED
      BY <2>1, <2>7 DEF BatchesTaken
  <1>6. CASE VoidSave(w)
    BY <1>1, <1>6, VoidGrows, OldStay
  <1>7. CASE ~(ReceiveDelivery(w) \/ PurchaseBatch(w) \/ RecostBatch(w) \/ VoidSave(w))
    BY <1>1, <1>7, QuietGrows, OldStay
  <1> QED
    BY <1>3, <1>4, <1>5, <1>6, <1>7

\* The goods of a completed invoice are covered; so are those of an invoice
\* whose approval has them but for that, and of one whose note is being deleted.
Pends(c, i, n) ==
    \/ c.kind = "approve" /\ c.invoice = i /\ c.at = "complete"
    \/ c.kind = "remove" /\ c.note = n /\ c.at = "note"

\* An invoice deleted with one note does not cover the others.
Severed(i, n) == invoice[i] = "deleted" /\ InvoiceLine[i].note # n

Accounted(i, n) ==
    \/ invoice[i] = "completed" \/ Severed(i, n)
    \/ note[n] = "removed"
    \/ \E w \in Workers : Pends(call[w], i, n)

LEMMA AccountedStays ==
    ASSUME BridgeInv, NEW w \in Workers, Works(w), Others(w), NEW i \in Invoices, NEW n \in Notes,
           n \in NotesOf(i), n \in Watched \ lost', Accounted(i, n)
    PROVE  Accounted(i, n)'
  <1>1. /\ DOMAIN call = Workers
        /\ note \in [Notes -> {"open", "removed"}]
        /\ invoice \in [Invoices -> {"pending", "completed", "deleted"}]
    BY DEF BridgeInv, CallsOK, DocsOK
  <1>2. ASSUME \/ invoice'[i] = "completed" \/ note'[n] = "removed" \/ Severed(i, n)'
               \/ \E v \in Workers : Pends(call'[v], i, n)
        PROVE  Accounted(i, n)'
    BY <1>2 DEF Accounted, Pends
  <1>3. ASSUME NEW v \in Workers, v # w, Pends(call[v], i, n) PROVE Accounted(i, n)'
    <2>1. Pends(call'[v], i, n)
      BY <1>3 DEF Others
    <2> QED
      BY <1>2, <2>1
  <1>4. ASSUME UNCHANGED <<note, invoice>>, Pends(call[w], i, n) => Pends(call'[w], i, n)
        PROVE  Accounted(i, n)'
    BY <1>2, <1>3, <1>4 DEF Accounted, Severed
  <1>5. CASE Adjust(w)
    BY <1>4, <1>5 DEF Adjust, bridgeVars
  <1>6. CASE DeliveryStep(w)
    <2>1. ~Pends(call[w], i, n)
      BY <1>6 DEF DeliveryStep, LinkDelivery, FindInvoices, ReadLines, CheckDelivery,
                  ReceiveDelivery, Step, NoCall, Pends
    <2>2. UNCHANGED <<note, invoice>>
      BY <1>6 DEF DeliveryStep, LinkDelivery, FindInvoices, ReadLines, CheckDelivery,
                  ReceiveDelivery, Receive
    <2> QED
      BY <1>4, <2>1, <2>2
  <1>7. CASE ApproveRead(w) \/ PriceItem(w) \/ FindBatches(w) \/ RecostBatch(w)
    <2>1. ~Pends(call[w], i, n)
      BY <1>7 DEF ApproveRead, PriceItem, FindBatches, RecostBatch, Step, NoCall, Pends
    <2>2. UNCHANGED <<note, invoice>>
      BY <1>7 DEF ApproveRead, PriceItem, FindBatches, RecostBatch, SaveBatch
    <2> QED
      BY <1>4, <2>1, <2>2
  <1>8. CASE ReadRows(w) \/ RecostRow(w) \/ NextBatch(w) \/ PurchaseBatch(w)
    <2>1. ~Pends(call[w], i, n)
      BY <1>8 DEF ReadRows, RecostRow, NextBatch, PurchaseBatch, Step, Pends
    <2>2. UNCHANGED <<note, invoice>>
      BY <1>8 DEF ReadRows, RecostRow, NextBatch, PurchaseBatch, Receive
    <2> QED
      BY <1>4, <2>1, <2>2
  <1>9. CASE CompleteInvoice(w)
    <2>1. /\ note' = note /\ invoice' = [invoice EXCEPT ![call[w].invoice] = "completed"]
          /\ call[w].kind = "approve"
      BY <1>9 DEF CompleteInvoice, Step
    <2>2. Pends(call[w], i, n) \/ invoice[i] = "completed" => invoice'[i] = "completed"
      BY <1>1, <2>1 DEF Pends
    <2>3. Severed(i, n) => invoice'[i] = "completed" \/ Severed(i, n)'
      BY <1>1, <2>1 DEF Severed
    <2> QED
      BY <1>2, <1>3, <2>1, <2>2, <2>3 DEF Accounted
  <1>10. CASE RemoveInvoices(w)
    <2>1. PICK m \in Notes :
            /\ invoice' = [j \in Invoices |->
                             IF InvoiceLine[j].note = m THEN "deleted" ELSE invoice[j]]
            /\ call'[w] = [kind |-> "remove", at |-> "note", note |-> m, copies |-> << >>]
      BY <1>1, <1>10 DEF RemoveInvoices
    <2>2. note' = note /\ ~Pends(call[w], i, n)
      BY <1>10 DEF RemoveInvoices, NoCall, Pends
    <2>3. CASE m = n
      <3>1. Pends(call'[w], i, n)
        BY <2>1, <2>3 DEF Pends
      <3> QED
        BY <1>2, <3>1
    <2>4. CASE m # n
      <3>1. invoice'[i] = "completed" \/ Severed(i, n) \/ Severed(i, n)'
              \/ invoice[i] # "completed"
        BY <2>1, <2>4 DEF Severed
      <3>2. Severed(i, n) => Severed(i, n)'
        BY <2>1 DEF Severed
      <3> QED
        BY <1>2, <1>3, <2>2, <3>1, <3>2 DEF Accounted
    <2> QED
      BY <2>3, <2>4
  <1>11. CASE RemoveNote(w)
    <2>1. /\ invoice' = invoice /\ note' = [note EXCEPT ![call[w].note] = "removed"]
          /\ call[w].kind = "remove"
      BY <1>11 DEF RemoveNote, Step
    <2>2. Pends(call[w], i, n) \/ note[n] = "removed" => note'[n] = "removed"
      BY <1>1, <2>1 DEF Pends
    <2> QED
      BY <1>2, <1>3, <2>1, <2>2 DEF Accounted, Severed
  <1>12. CASE VoidRead(w) \/ VoidAdjust(w) \/ VoidSave(w)
    <2>1. ~Pends(call[w], i, n)
      BY <1>12 DEF VoidRead, VoidAdjust, VoidSave, Step, Pends
    <2>2. UNCHANGED <<note, invoice>>
      BY <1>12 DEF VoidRead, VoidAdjust, VoidSave, SaveBatch
    <2> QED
      BY <1>4, <2>1, <2>2
  <1>13. CASE LineFails(w)
    <2>1. Approves(w, {call[w].at}, {"complete"})
      BY <1>13, ApprovalMoves
    <2>2. UNCHANGED <<note, invoice>>
      BY <1>13 DEF LineFails
    <2>3. Pends(call[w], i, n) => Pends(call'[w], i, n)
      BY <2>1 DEF Approves, Pends
    <2> QED
      BY <1>4, <2>2, <2>3
  <1>14. CASE LoseCall(w)
    <2>1. lost' = lost \cup ((Due(w) \cup Uncovered(w)) \cap Watched) /\ UNCHANGED <<note, invoice>>
      BY <1>14 DEF LoseCall
    <2>2. Pends(call[w], i, n) => n \in Uncovered(w)
      BY DEF Pends, Uncovered
    <2> QED
      BY <1>4, <2>1, <2>2
  <1> QED
    BY <1>5, <1>6, <1>7, <1>8, <1>9, <1>10, <1>11, <1>12, <1>13, <1>14
       DEF Works, ApprovalStep, RemovalStep

\* The goods bought in for an invoice that names a note.
PurchasesCovered ==
    \A b \in 1..batchSeq : origin[b].type = "supplier_invoice" =>
        \A n \in Notes \ lost : n \in NotesOf(origin[b].ref) => Accounted(origin[b].ref, n)

LEMMA CoveredStep ==
    ASSUME Notes \subseteq Watched, BridgeInv, CoreInv, NEW w \in Workers, Alone(w), Works(w),
           PurchasesCovered
    PROVE  PurchasesCovered'
  <1>1. /\ Others(w) /\ StockGrows /\ lost \subseteq lost' /\ batchSeq \in Nat
    BY WorkerStep, WorkGrows, MarksKept DEF BridgeInv, TypeOK, StoreTypeOK
  <1> SUFFICES ASSUME NEW b \in 1..batchSeq', origin'[b].type = "supplier_invoice",
                      NEW n \in Notes \ lost', n \in NotesOf(origin'[b].ref)
               PROVE  Accounted(origin[b].ref, n)'
    BY DEF PurchasesCovered
  <1>2. PICK i : i = origin'[b].ref
    OBVIOUS
  <1>3. CASE b \in 1..batchSeq
    <2>1. origin'[b] = origin[b]
      BY <1>1, <1>3 DEF StockGrows
    <2>2. i \in Invoices /\ i = origin[b].ref /\ origin[b].type = "supplier_invoice"
      BY <1>2, <1>3, <2>1, OriginIs
    <2>3. Accounted(i, n)
      BY <1>1, <1>2, <1>3, <2>1, <2>2 DEF PurchasesCovered
    <2>4. Accounted(i, n)'
      BY <1>1, <1>2, <2>2, <2>3, AccountedStays
    <2> QED
      BY <1>2, <2>4 DEF Accounted, Severed, Pends
  <1>4. CASE b \notin 1..batchSeq
    <2>1. batchSeq' # batchSeq
      BY <1>4
    <2>2. ReceiveDelivery(w) \/ PurchaseBatch(w)
      BY <2>1, RecostMatches, VoidGrows, QuietGrows
    <2>3. CASE ReceiveDelivery(w)
      <3>1. Brings([type |-> "grn", ref |-> call[w].note], NoteLine[call[w].note].product)
        BY <2>3, DeliveryBrings
      <3>2. b = batchSeq'
        BY <1>1, <1>4, <3>1 DEF Brings
      <3> QED
        BY <3>1, <3>2 DEF Brings
    <2>4. CASE PurchaseBatch(w)
      <3>1. Brings([type |-> "supplier_invoice", ref |-> call[w].invoice],
                   InvoiceLine[call[w].invoice].product)
        BY <2>4, PurchaseBrings
      <3>2. b = batchSeq'
        BY <1>1, <1>4, <3>1 DEF Brings
      <3>3. i = call[w].invoice
        BY <1>2, <3>1, <3>2 DEF Brings
      <3>4. Approves(w, {"purchase"}, {"complete"})
        BY <2>4, ApprovalMoves
      <3>5. Pends(call'[w], i, n)
        BY <3>3, <3>4 DEF Approves, Pends
      <3> QED
        BY <1>2, <3>5 DEF Accounted, Severed, Pends
    <2> QED
      BY <2>2, <2>3, <2>4
  <1> QED
    BY <1>3, <1>4

\* An invoice that is completed brought in the goods of the note, or was matched
\* with them.
Covered(n) ==
    \E i \in Invoices : /\ invoice[i] = "completed"
                        /\ n \in NotesOf(i)
                        /\ InvoiceLine[i].product = NoteLine[n].product

CompletedOf(n) == {i \in Invoices : invoice[i] = "completed" /\ n \in NotesOf(i)}

\* A delivery is received only while nothing else brought its goods.
Deliverable(w) ==
    call[w].kind = "deliver" =>
        /\ note[call[w].note] = "open"
        /\ call[w].at = "lines" => call[w].invoices = CompletedOf(call[w].note)
        /\ call[w].at \in {"check", "create"} => ~Covered(call[w].note)
        /\ call[w].at = "create" =>
              \A b \in 1..batchSeq : origin[b] # [type |-> "grn", ref |-> call[w].note]

LEMMA DeliverableStep ==
    ASSUME BridgeInv, BatchesTaken, NEW w \in Workers, Works(w), Deliverable(w)
    PROVE  Deliverable(w)'
  <1>1. DOMAIN call = Workers
    BY DEF BridgeInv, CallsOK
  <1>2. CASE Adjust(w)
    BY <1>2 DEF Adjust, AdjustRead, AdjustSave, SaveQuantity, bridgeVars, Deliverable, Covered,
                CompletedOf
  <1>3. CASE LinkDelivery(w)
    <2>1. PICK n \in Notes :
            /\ note[n] = "open"
            /\ call' = [call EXCEPT ![w] = [kind |-> "deliver", at |-> "invoices", note |-> n,
                                            invoices |-> {}]]
      BY <1>3 DEF LinkDelivery
    <2>2. /\ UNCHANGED <<note, invoice>>
          /\ call'[w] = [kind |-> "deliver", at |-> "invoices", note |-> n, invoices |-> {}]
      BY <1>1, <1>3, <2>1 DEF LinkDelivery
    <2> QED
      BY <2>1, <2>2 DEF Deliverable
  <1>10. CASE FindInvoices(w)
    <2>1. UNCHANGED <<note, invoice>> /\ call[w].kind = "deliver"
      BY <1>10 DEF FindInvoices, Step
    <2>2. PICK n : n = call[w].note
      OBVIOUS
    <2>3. /\ call'[w].at = "lines" /\ call'[w].note = n /\ call'[w].invoices = CompletedOf(n)
      BY <1>10, <2>2, FindGoes DEF CompletedOf
    <2>4. note[n] = "open"
      BY <2>1, <2>2 DEF Deliverable
    <2>5. CompletedOf(n) = CompletedOf(n)'
      BY <2>1 DEF CompletedOf
    <2> QED
      BY <2>1, <2>3, <2>4, <2>5 DEF Deliverable, CompletedOf
  <1>11. CASE ReadLines(w)
    <2>1. /\ UNCHANGED <<note, invoice>> /\ call[w].kind = "deliver" /\ call[w].at = "lines"
      BY <1>11 DEF ReadLines, Step
    <2>2. CASE Return(w)
      BY <2>2, Returns DEF Deliverable, NoCall
    <2>3. CASE ~Return(w)
      <3>1. PICK n : n = call[w].note
        OBVIOUS
      <3>2. GoTo(w, "check")
            /\ \A i \in call[w].invoices :
                  invoice[i] = "deleted" \/ InvoiceLine[i].product # NoteLine[n].product
        BY <1>11, <2>3, <3>1 DEF ReadLines
      <3>3. call'[w].kind = "deliver" /\ call'[w].at = "check" /\ call'[w].note = n
        BY <2>1, <3>1, <3>2, GoToGoes DEF Goes
      <3>4. note[n] = "open" /\ call[w].invoices = CompletedOf(n)
        BY <2>1, <3>1 DEF Deliverable
      <3>5. ~Covered(n)
        BY <3>2, <3>4 DEF Covered, CompletedOf
      <3>6. ~Covered(n)'
        BY <2>1, <3>5 DEF Covered
      <3> QED
        BY <2>1, <3>3, <3>4, <3>6 DEF Deliverable, Covered
    <2> QED
      BY <2>2, <2>3
  <1>4. CASE CheckDelivery(w)
    <2>1. /\ UNCHANGED <<note, invoice, batchSeq, origin>> /\ call[w].kind = "deliver"
          /\ call[w].at = "check"
      BY <1>4 DEF CheckDelivery, Step, vars
    <2>2. CASE Return(w)
      BY <2>2, Returns DEF Deliverable, NoCall
    <2>3. CASE ~Return(w)
      <3>1. PICK n : n = call[w].note
        OBVIOUS
      <3>2. GoTo(w, "create")
            /\ \A b \in GrnBatches(n) : batch[b].product # NoteLine[n].product
        BY <1>4, <2>3, <3>1 DEF CheckDelivery
      <3>3. \A b \in 1..batchSeq : origin[b] # [type |-> "grn", ref |-> n]
        <4> SUFFICES ASSUME NEW b \in 1..batchSeq, origin[b] = [type |-> "grn", ref |-> n]
                     PROVE  FALSE
          OBVIOUS
        <4>1. SourceRight(b) /\ origin[b].type = "grn" /\ origin[b].ref = n
          BY DEF BatchesTaken
        <4>2. b \in GrnBatches(n)
          BY DEF GrnBatches
        <4> QED
          BY <3>2, <4>1, <4>2 DEF SourceRight
      <3>4. call'[w].kind = "deliver" /\ call'[w].at = "create" /\ call'[w].note = n
        BY <2>1, <3>1, <3>2, GoToGoes DEF Goes
      <3>5. note[n] = "open" /\ ~Covered(n)
        BY <2>1, <3>1 DEF Deliverable
      <3> QED
        BY <2>1, <3>3, <3>4, <3>5 DEF Deliverable, Covered
    <2> QED
      BY <2>2, <2>3
  <1>5. CASE ReceiveDelivery(w)
    <2>1. call'[w] = NoCall
      BY <1>5, Returns DEF ReceiveDelivery
    <2> QED
      BY <2>1 DEF Deliverable, NoCall
  <1>6. CASE ApproveRead(w)
    <2>1. call'[w].kind = "approve"
      BY <1>6, ReadsInvoice
    <2> QED
      BY <2>1 DEF Deliverable
  <1>7. CASE \/ PriceItem(w) \/ FindBatches(w) \/ RecostBatch(w) \/ ReadRows(w) \/ RecostRow(w)
             \/ NextBatch(w) \/ PurchaseBatch(w) \/ LineFails(w)
    <2>1. call'[w].kind = "approve"
      BY <1>7, ApprovalMoves DEF Approves
    <2> QED
      BY <2>1 DEF Deliverable
  <1>8. CASE RemovalStep(w) \/ CompleteInvoice(w) \/ LoseCall(w)
    <2>1. CASE DeliveryStep(w)
      BY <1>3, <1>4, <1>5, <1>10, <1>11, <2>1 DEF DeliveryStep
    <2>2. CASE ~DeliveryStep(w)
      <3>1. call'[w].kind # "deliver"
        BY <1>8, <2>2, NoApproval
      <3> QED
        BY <3>1 DEF Deliverable
    <2> QED
      BY <2>1, <2>2
  <1> QED
    BY <1>2, <1>3, <1>4, <1>5, <1>6, <1>7, <1>8, <1>10, <1>11
       DEF Works, DeliveryStep, ApprovalStep

Announced(b, n) ==
    \/ origin[b] = [type |-> "grn", ref |-> n]
    \/ origin[b].type = "supplier_invoice" /\ n \in NotesOf(origin[b].ref)

\* Two invoices of the note and the product were approved.
TwoPriced(n, p) ==
    \E i, j \in Invoices :
        /\ i # j
        /\ n \in NotesOf(i) /\ InvoiceLine[i].product = p
        /\ n \in NotesOf(j) /\ InvoiceLine[j].product = p
        /\ priced[i] /\ priced[j]

\* The batch was bought in for an invoice deleted with another note.
BySevered(b, n) == origin[b].type = "supplier_invoice" /\ Severed(origin[b].ref, n)

OnceForNotes ==
    \A n \in Notes \ lost, b, c \in 1..batchSeq :
        b # c /\ Announced(b, n) /\ Announced(c, n) /\ batch[c].product = batch[b].product
          => TwoPriced(n, batch[b].product) \/ BySevered(b, n) \/ BySevered(c, n)

OnceForInvoices ==
    \A i \in Invoices \ lost, b, c \in 1..batchSeq :
        origin[b] = [type |-> "supplier_invoice", ref |-> i] /\ origin[c] = origin[b] => b = c

LEMMA ReceivedOnceIs == ReceivedOnce <=> OnceForNotes /\ OnceForInvoices
  <1>1. ASSUME ReceivedOnce PROVE OnceForNotes
    BY <1>1 DEF ReceivedOnce, OnceForNotes, Announced, TwoPriced, BySevered, Severed
  <1>2. ASSUME ReceivedOnce PROVE OnceForInvoices
    BY <1>2 DEF ReceivedOnce, OnceForInvoices
  <1>3. ASSUME OnceForNotes, OnceForInvoices PROVE ReceivedOnce
    BY <1>3 DEF ReceivedOnce, OnceForNotes, OnceForInvoices, Announced, TwoPriced, BySevered,
                Severed
  <1> QED
    BY <1>1, <1>2, <1>3

LEMMA NewDelivery ==
    ASSUME BridgeInv, NEW w \in Workers, Alone(w), ReceiveDelivery(w),
           Deliverable(w), BatchesTaken, PurchasesCovered,
           NEW n \in Notes \ lost, n = call[w].note, NEW c \in 1..batchSeq, Announced(c, n),
           batch[c].product = NoteLine[n].product
    PROVE  BySevered(c, n)
  <1>1. /\ call[w].kind = "deliver" /\ call[w].at = "create"
    BY DEF ReceiveDelivery, Step
  <1>2. note[n] = "open" /\ ~Covered(n) /\ origin[c] # [type |-> "grn", ref |-> n]
    BY <1>1 DEF Deliverable
  <1>3. origin[c].type = "supplier_invoice" /\ n \in NotesOf(origin[c].ref)
    BY <1>2 DEF Announced
  <1>4. PICK i \in Invoices : i = origin[c].ref
    BY <1>3, OriginIs
  <1>5. InvoiceLine[i].product = NoteLine[n].product
    BY <1>3, <1>4 DEF BatchesTaken, SourceRight
  <1>6. Accounted(i, n)
    BY <1>3, <1>4 DEF PurchasesCovered
  <1>7. invoice[i] # "completed"
    BY <1>2, <1>3, <1>4, <1>5 DEF Covered
  <1>8. \A v \in Workers : ~Pends(call[v], i, n)
    BY <1>1 DEF Alone, Busy, NoCall, Pends
  <1>9. Severed(i, n)
    BY <1>2, <1>6, <1>7, <1>8 DEF Accounted
  <1> QED
    BY <1>3, <1>4, <1>9 DEF BySevered

LEMMA NewPurchase ==
    ASSUME BridgeInv, NEW w \in Workers, PurchaseBatch(w), NoneLeft(w), SaysPriced(w),
           BatchesTaken, NEW i \in Invoices, i = call[w].invoice, NEW n \in Notes \ lost,
           n \in NotesOf(i), NEW c \in 1..batchSeq, Announced(c, n),
           batch[c].product = InvoiceLine[i].product
    PROVE  TwoPriced(n, InvoiceLine[i].product)
  <1>1. call[w].kind = "approve" /\ call[w].at = "purchase"
    BY DEF PurchaseBatch, Step
  <1>2. Coming(call[w], i)
    BY <1>1 DEF Coming
  <1>3. \A j \in Invoices : n \in NotesOf(j) => ~Given(j)
    BY DEF Given
  <1>4. priced[i]
    BY <1>1, <1>3 DEF SaysPriced, Marked
  <1>5. ASSUME NEW j \in Invoices, n \in NotesOf(j), InvoiceLine[j].product = batch[c].product,
               Taken(j)
        PROVE  TwoPriced(n, InvoiceLine[i].product)
    <2>1. priced[j] /\ ~Coming(call[w], j)
      BY <1>3, <1>5 DEF Taken
    <2>2. j # i
      BY <1>2, <2>1
    <2> QED
      BY <1>4, <1>5, <2>1, <2>2 DEF TwoPriced
  <1>6. CASE origin[c] = [type |-> "grn", ref |-> n]
    <2>1. Linked(i, c)
      BY <1>6 DEF Linked
    <2>2. reconciled[c]
      BY <1>1, <2>1 DEF NoneLeft
    <2>3. PICK j \in Invoices : Linked(j, c) /\ Taken(j)
      BY <2>2 DEF BatchesTaken, MatchTaken
    <2>4. InvoiceLine[j].product = batch[c].product
          /\ \E m \in NotesOf(j) : origin[c] = [type |-> "grn", ref |-> m]
      BY <2>3 DEF Linked
    <2>5. n \in NotesOf(j)
      BY <1>6, <2>4
    <2> QED
      BY <1>5, <2>3, <2>4, <2>5
  <1>7. CASE origin[c].type = "supplier_invoice" /\ n \in NotesOf(origin[c].ref)
    <2>1. PICK j \in Invoices : j = origin[c].ref
      BY <1>7, OriginIs
    <2>2. Taken(j) /\ InvoiceLine[j].product = batch[c].product
      BY <1>7, <2>1 DEF BatchesTaken, PurchaseTaken, SourceRight
    <2> QED
      BY <1>5, <1>7, <2>1, <2>2
  <1> QED
    BY <1>6, <1>7 DEF Announced

\* The goods of an invoice that are still to come are not there.
LEMMA NotBoughtYet ==
    ASSUME BridgeInv, NEW w \in Workers, PurchaseBatch(w), BatchesTaken,
           NEW i \in Invoices \ lost, i = call[w].invoice, NEW c \in 1..batchSeq
    PROVE  origin[c] # [type |-> "supplier_invoice", ref |-> i]
  <1>1. Coming(call[w], i)
    BY DEF PurchaseBatch, Step, Coming
  <1>2. ~Taken(i)
    BY <1>1 DEF Taken, Given
  <1> QED
    BY <1>2 DEF BatchesTaken, PurchaseTaken

\* What excused the batches that were there before.
LEMMA ExcusesStay ==
    ASSUME BridgeInv, NEW w \in Workers, Works(w), StockGrows, Approvable(w)
    PROVE  /\ \A n, p : TwoPriced(n, p) => TwoPriced(n, p)'
           /\ \A n : \A b \in 1..batchSeq : BySevered(b, n) => BySevered(b, n)'
  <1>1. \A i \in Invoices : priced[i] => priced'[i]
    BY PricedStays
  <1>2. ASSUME NEW i \in Invoices, invoice[i] = "deleted" PROVE invoice'[i] = "deleted"
    <2>1. CASE CompleteInvoice(w)
      <3>1. /\ invoice' = [invoice EXCEPT ![call[w].invoice] = "completed"]
            /\ call[w].kind = "approve"
        BY <2>1 DEF CompleteInvoice, Step
      <3>2. invoice[call[w].invoice] # "deleted"
        BY <3>1 DEF Approvable
      <3> QED
        BY <1>2, <3>1, <3>2
    <2>2. CASE RemoveInvoices(w)
      <3>1. PICK n \in Notes :
              invoice' = [j \in Invoices |-> IF InvoiceLine[j].note = n THEN "deleted"
                                                                        ELSE invoice[j]]
        BY <2>2 DEF RemoveInvoices
      <3> QED
        BY <1>2, <3>1
    <2>3. CASE Adjust(w) \/ DeliveryStep(w) \/ LineFails(w) \/ LoseCall(w)
      BY <1>2, <2>3 DEF Adjust, bridgeVars, DeliveryStep, LinkDelivery, FindInvoices, ReadLines,
                        CheckDelivery, ReceiveDelivery, Receive, LineFails, LoseCall
    <2>4. CASE ApprovalStep(w) /\ ~CompleteInvoice(w)
      BY <1>2, <2>4 DEF ApprovalStep, ApproveRead, PriceItem, FindBatches, RecostBatch, SaveBatch,
                        ReadRows, RecostRow, NextBatch, PurchaseBatch, Receive
    <2>5. CASE RemovalStep(w) /\ ~RemoveInvoices(w)
      BY <1>2, <2>5 DEF RemovalStep, RemoveNote, VoidRead, VoidAdjust, VoidSave, SaveBatch
    <2> QED
      BY <2>1, <2>2, <2>3, <2>4, <2>5 DEF Works
  <1>3. ASSUME NEW n, NEW p, TwoPriced(n, p) PROVE TwoPriced(n, p)'
    BY <1>1, <1>3 DEF TwoPriced
  <1>4. ASSUME NEW n, NEW b \in 1..batchSeq, BySevered(b, n) PROVE BySevered(b, n)'
    <2>1. origin'[b] = origin[b]
      BY DEF StockGrows
    <2>2. origin[b].ref \in Invoices
      BY <1>4, OriginIs DEF BySevered
    <2> QED
      BY <1>2, <1>4, <2>1, <2>2 DEF BySevered, Severed
  <1> QED
    BY <1>3, <1>4

LEMMA OnceStep ==
    ASSUME BridgeInv, CoreInv, NEW w \in Workers,
           Alone(w), Works(w), NoneLeft(w), SaysPriced(w), Deliverable(w), Approvable(w),
           BatchesTaken, PurchasesCovered, ReceivedOnce
    PROVE  ReceivedOnce'
  <1>1. StockGrows /\ lost \subseteq lost' /\ batchSeq \in Nat
    BY WorkGrows, MarksKept DEF BridgeInv, TypeOK, StoreTypeOK
  <1>2. PICK m : m = batchSeq'
    OBVIOUS
  <1> DEFINE Excused(b, c, n) ==
               TwoPriced(n, batch[b].product) \/ BySevered(b, n) \/ BySevered(c, n)
  \* What was announced of a batch that was there before.
  <1>3. ASSUME NEW b \in 1..batchSeq, NEW n, Announced(b, n)'
        PROVE  Announced(b, n) /\ batch'[b].product = batch[b].product
    BY <1>1, <1>3 DEF StockGrows, Announced
  <1>7. ASSUME NEW b \in 1..batchSeq, m \notin 1..batchSeq
        PROVE  ReceiveDelivery(w) \/ PurchaseBatch(w)
    <2>1. batchSeq' # batchSeq
      BY <1>1, <1>2, <1>7
    <2> QED
      BY <2>1, RecostMatches, VoidGrows, QuietGrows
  \* What was there before and announced as what is new is excused.
  <1>4. ASSUME NEW n \in Notes \ lost', NEW c \in 1..batchSeq, m \notin 1..batchSeq,
               Announced(c, n)', Announced(m, n)', batch'[m].product = batch'[c].product
        PROVE  TwoPriced(n, batch[m].product)' \/ BySevered(c, n)'
    <2>1. Announced(c, n) /\ batch'[c].product = batch[c].product /\ n \in Notes \ lost
      BY <1>1, <1>3, <1>4
    <2>2. CASE ReceiveDelivery(w)
      <3>1. /\ origin'[m] = [type |-> "grn", ref |-> call[w].note]
            /\ batch'[m].product = NoteLine[call[w].note].product
        BY <1>2, <2>2, DeliveryBrings DEF Brings
      <3>2. n = call[w].note
        BY <1>4, <3>1 DEF Announced
      <3>3. BySevered(c, n)
        BY <1>4, <2>1, <2>2, <3>1, <3>2, NewDelivery
      <3> QED
        BY <1>1, <3>3, ExcusesStay
    <2>3. CASE PurchaseBatch(w)
      <3>1. /\ origin'[m] = [type |-> "supplier_invoice", ref |-> call[w].invoice]
            /\ batch'[m].product = InvoiceLine[call[w].invoice].product
            /\ call[w].invoice \in Invoices
        BY <1>2, <2>3, PurchaseBrings DEF Brings
      <3>2. PICK i \in Invoices : i = call[w].invoice
        BY <3>1
      <3>3. n \in NotesOf(i)
        BY <1>4, <3>1, <3>2 DEF Announced
      <3>4. TwoPriced(n, InvoiceLine[i].product)
        BY <1>4, <2>1, <2>3, <3>1, <3>2, <3>3, NewPurchase
      <3>5. TwoPriced(n, InvoiceLine[i].product)'
        BY <1>1, <3>4, ExcusesStay
      <3> QED
        BY <3>1, <3>2, <3>5 DEF TwoPriced
    <2> QED
      BY <1>4, <1>7, <2>2, <2>3
  <1>5. \A b \in 1..batchSeq' : b \in 1..batchSeq \/ (b = m /\ m \notin 1..batchSeq)
    <2>1. batchSeq' = batchSeq \/ batchSeq' = batchSeq + 1
      BY DeliveryBrings, PurchaseBrings, RecostMatches, VoidGrows, QuietGrows DEF Brings
    <2> QED
      BY <1>1, <1>2, <2>1
  <1>6. ASSUME NEW n \in Notes \ lost', NEW b \in 1..batchSeq', NEW c \in 1..batchSeq', b # c,
               Announced(b, n)', Announced(c, n)', batch'[c].product = batch'[b].product
        PROVE  Excused(b, c, n)'
    <2>1. CASE b \in 1..batchSeq /\ c \in 1..batchSeq
      <3>1. /\ Announced(b, n) /\ Announced(c, n) /\ n \in Notes \ lost
            /\ batch'[b].product = batch[b].product /\ batch'[c].product = batch[c].product
        BY <1>1, <1>3, <1>6, <2>1
      <3>2. Excused(b, c, n)
        BY <1>6, <2>1, <3>1, ReceivedOnceIs DEF OnceForNotes
      <3>3. TwoPriced(n, batch[b].product) => TwoPriced(n, batch[b].product)'
        <4>1. PICK p : p = batch[b].product
          OBVIOUS
        <4>2. TwoPriced(n, p) => TwoPriced(n, p)'
          BY <1>1, ExcusesStay
        <4> QED
          BY <3>1, <4>1, <4>2 DEF TwoPriced
      <3>4. /\ BySevered(b, n) => BySevered(b, n)'
            /\ BySevered(c, n) => BySevered(c, n)'
        BY <1>1, <2>1, ExcusesStay
      <3> QED
        BY <3>2, <3>3, <3>4
    <2>2. CASE b = m /\ m \notin 1..batchSeq /\ c \in 1..batchSeq
      <3>1. TwoPriced(n, batch[m].product)' \/ BySevered(c, n)'
        BY <1>4, <1>6, <2>2
      <3>2. TwoPriced(n, batch[m].product)' => TwoPriced(n, batch[b].product)'
        BY <2>2 DEF TwoPriced
      <3> QED
        BY <3>1, <3>2
    <2>3. CASE c = m /\ m \notin 1..batchSeq /\ b \in 1..batchSeq
      <3>1. TwoPriced(n, batch[m].product)' \/ BySevered(b, n)'
        BY <1>4, <1>6, <2>3
      <3>2. TwoPriced(n, batch[m].product)' => TwoPriced(n, batch[b].product)'
        BY <1>6, <2>3 DEF TwoPriced
      <3> QED
        BY <3>1, <3>2
    <2> QED
      BY <1>5, <1>6, <2>1, <2>2, <2>3
  <1>8. ASSUME NEW i \in Invoices \ lost', NEW b \in 1..batchSeq', NEW c \in 1..batchSeq',
               origin'[b] = [type |-> "supplier_invoice", ref |-> i], origin'[c] = origin'[b]
        PROVE  b = c
    <2>1. i \in Invoices \ lost
      BY <1>1, <1>8
    <2>2. CASE b \in 1..batchSeq /\ c \in 1..batchSeq
      <3>1. origin[b] = [type |-> "supplier_invoice", ref |-> i] /\ origin[c] = origin[b]
        BY <1>1, <1>8, <2>2 DEF StockGrows
      <3> QED
        BY <2>1, <2>2, <3>1, ReceivedOnceIs DEF OnceForInvoices
    <2>3. ASSUME NEW d \in 1..batchSeq, m \notin 1..batchSeq,
                 origin'[m] = [type |-> "supplier_invoice", ref |-> i],
                 origin'[d] = [type |-> "supplier_invoice", ref |-> i]
          PROVE  FALSE
      <3>1. ~ReceiveDelivery(w)
        <4> SUFFICES ASSUME ReceiveDelivery(w) PROVE FALSE
          OBVIOUS
        <4>1. origin'[m] = [type |-> "grn", ref |-> call[w].note]
          BY <1>2, DeliveryBrings DEF Brings
        <4>2. origin'[m].type = "grn"
          BY <4>1
        <4> QED
          BY <2>3, <4>2
      <3>2. PurchaseBatch(w)
        BY <1>7, <2>3, <3>1
      <3>3. origin'[m] = [type |-> "supplier_invoice", ref |-> call[w].invoice]
        BY <1>2, <3>2, PurchaseBrings DEF Brings
      <3>4. i = call[w].invoice
        BY <2>3, <3>3
      <3>5. origin[d] = [type |-> "supplier_invoice", ref |-> i]
        BY <1>1, <2>3 DEF StockGrows
      <3> QED
        BY <2>1, <3>2, <3>4, <3>5, NotBoughtYet
    <2> QED
      BY <1>5, <1>8, <2>2, <2>3
  <1>9. OnceForNotes'
    BY <1>6 DEF OnceForNotes
  <1>10. OnceForInvoices'
    BY <1>8 DEF OnceForInvoices
  <1> QED
    BY <1>9, <1>10 DEF ReceivedOnce, OnceForNotes, OnceForInvoices, Announced, TwoPriced,
                       BySevered, Severed

Orderly(w) ==
    /\ OwesRight(w)
    /\ SaysPriced(w)
    /\ NoneLeft(w)
    /\ Deliverable(w)
    /\ Approvable(w)

GoodsInv ==
    /\ \A w \in Workers : Orderly(w)
    /\ BatchesTaken
    /\ PurchasesCovered
    /\ ReceivedOnce

LEMMA OrderlyIdle ==
    ASSUME NEW w \in Workers, call'[w] = NoCall
    PROVE  Orderly(w)'
  BY DEF NoCall, Orderly, OwesRight, SaysPriced, NoneLeft, Deliverable, Approvable

LEMMA GoodsWorker ==
    ASSUME Notes \union Invoices \subseteq Watched, BridgeInv, CoreInv, GoodsInv,
           NEW w \in Workers, Alone(w), Works(w)
    PROVE  GoodsInv'
  <1>1. OwesRight(w) /\ SaysPriced(w) /\ NoneLeft(w) /\ Deliverable(w) /\ Approvable(w)
        /\ BatchesTaken /\ PurchasesCovered /\ ReceivedOnce
    BY DEF GoodsInv, Orderly
  <1>2. Orderly(w)'
    BY <1>1, OwesStep, SaysStep, NoneLeftStep, DeliverableStep, ApprovableStep DEF Orderly
  <1>3. ASSUME NEW v \in Workers, v # w PROVE Orderly(v)'
    <2>1. call'[v] = NoCall
      BY <1>3, WorkerStep DEF Others, Alone, Busy
    <2> QED
      BY <2>1, OrderlyIdle
  <1>4. BatchesTaken' /\ PurchasesCovered' /\ ReceivedOnce'
    BY <1>1, TakenStep, CoveredStep, OnceStep
  <1> QED
    BY <1>2, <1>3, <1>4 DEF GoodsInv

\* Nothing of this is about what sessions write.
LEMMA GoodsSame ==
    ASSUME BridgeInv, StockGrows, batchSeq' = batchSeq, GoodsInv, UNCHANGED bridgeVars,
           \A w \in Workers : job'[w] # Idle => job[w] # Idle
    PROVE  GoodsInv'
  <1>1. /\ UNCHANGED <<origin, reconciled, note, invoice, priced, lost, call>>
        /\ \A b \in 1..batchSeq : batch'[b].product = batch[b].product
    BY DEF bridgeVars, StockGrows
  <1>2. ASSUME NEW w \in Workers PROVE Orderly(w)'
    <2>1. OwesRight(w) /\ SaysPriced(w) /\ NoneLeft(w) /\ Deliverable(w) /\ Approvable(w)
      BY DEF GoodsInv, Orderly
    <2>2. OwesRight(w)' /\ SaysPriced(w)' /\ Approvable(w)'
      BY <1>1, <2>1 DEF OwesRight, SaysPriced, Marked, Given, Approvable
    <2>3. NoneLeft(w)'
      BY <1>1, <2>1 DEF NoneLeft, Linked
    <2>4. Deliverable(w)'
      BY <1>1, <2>1 DEF Deliverable, Covered, CompletedOf
    <2> QED
      BY <2>2, <2>3, <2>4 DEF Orderly
  <1>3. NoneMatched /\ BatchesTaken /\ \A i \in Invoices : Taken(i) => Taken(i)'
    BY <1>1 DEF NoneMatched, Taken, Given, Coming, GoodsInv
  <1>4. BatchesTaken'
    BY <1>3, OldStay
  <1>5. PurchasesCovered'
    BY <1>1 DEF GoodsInv, PurchasesCovered, Accounted, Severed, Pends
  <1>6. ReceivedOnce'
    BY <1>1 DEF GoodsInv, ReceivedOnce
  <1> QED
    BY <1>2, <1>4, <1>5, <1>6 DEF GoodsInv

LEMMA GoodsStep ==
    ASSUME Notes \union Invoices \subseteq Watched, SerialInv, GoodsInv, [OneAtATime]_allVars
    PROVE  GoodsInv'
  <1>1. BridgeInv /\ CoreInv
    BY DEF SerialInv
  <1>2. CASE Issue
    <2>1. UNCHANGED job
      BY <1>2 DEF Issue, TxStep, Begin, ReadProduct, Draw, OutOfStock, SaveProduct, Commit, Abort
    <2> QED
      BY <1>1, <1>2, <2>1, IssueGrows, GoodsSame
  <1>3. ASSUME NEW w \in Workers, Alone(w), Works(w) PROVE GoodsInv'
    BY <1>1, <1>3, GoodsWorker
  <1>4. CASE UNCHANGED allVars
    <2>1. UNCHANGED <<batchSeq, batch, origin, reconciled, job>> /\ UNCHANGED bridgeVars
      BY <1>4 DEF allVars, vars, bridgeVars
    <2> QED
      BY <1>1, <2>1, SameGrows, GoodsSame
  <1> QED
    BY <1>2, <1>3, <1>4 DEF OneAtATime, Works

LEMMA GoodsInit == BridgeInit => GoodsInv
  <1>1. ASSUME BridgeInit PROVE GoodsInv
    <2>1. /\ batchSeq = 0 /\ call = [w \in Workers |-> NoCall]
          /\ job = [w \in Workers |-> Idle]
      BY <1>1 DEF BridgeInit, Init
    <2>2. \A w \in Workers : Orderly(w)
      BY <2>1 DEF NoCall, Orderly, OwesRight, SaysPriced, NoneLeft, Deliverable, Approvable
    <2>3. BatchesTaken /\ PurchasesCovered /\ ReceivedOnce
      BY <2>1 DEF BatchesTaken, PurchasesCovered, ReceivedOnce
    <2> QED
      BY <2>2, <2>3 DEF GoodsInv
  <1> QED
    BY <1>1

\* Goods announced by a note and by its invoices enter stock once, requests
\* served one at a time, however notes and invoices are linked and whichever of
\* their lines cannot be marked, when what deaths and such lines leave undone is
\* recorded for every note and invoice: twice only when two invoices of the note
\* are approved, or an invoice is deleted with another note it names.
THEOREM GoodsEnterOnce ==
    ASSUME Notes \union Invoices \subseteq Watched
    PROVE  SerialSpec => []ReceivedOnce
  <1>1. SerialInv /\ GoodsInv /\ [OneAtATime]_allVars => GoodsInv'
    BY GoodsStep
  <1>2. GoodsInv => ReceivedOnce
    BY DEF GoodsInv
  <1> QED
    BY <1>1, <1>2, GoodsInit, AlwaysSerialInv, PTL DEF SerialSpec

----------------------------------------------------------------------------
(* What is on hand agrees with the cached quantity.                        *)

SumOf(h, f, g, S) == \A d \in S : h[d] = f[d] + g[d]

LEMMA TotalPlus ==
    ASSUME NEW f, NEW g, NEW h, NEW S, IsFiniteSet(S), Natural(f, S), Natural(g, S),
           SumOf(h, f, g, S)
    PROVE  Ledger!Total(h, S) = Ledger!Total(f, S) + Ledger!Total(g, S)
  <1> DEFINE Adds2(T) == Ledger!Total(h, T) = Ledger!Total(f, T) + Ledger!Total(g, T)
             C == {T \in SUBSET S : ~ Adds2(T)}
  <1> SUFFICES ASSUME C # {} PROVE FALSE
    OBVIOUS
  <1>1. PICK T \in C : \A U \in C : U \subseteq T => U = T
    <2>1. C \in SUBSET SUBSET S /\ C # {}
      OBVIOUS
    <2> HIDE DEF C
    <2> QED
      BY <2>1, SmallestSet
  <1>2. T \in SUBSET S /\ ~ Adds2(T)
    OBVIOUS
  <1>3. \A U \in SUBSET T : U # T => Adds2(U)
    BY <1>1
  <1> HIDE DEF C
  <1>4. T # {}
    <2> SUFFICES ASSUME T = {} PROVE FALSE
      OBVIOUS
    <2>1. Ledger!Total(f, T) = 0 /\ Ledger!Total(g, T) = 0 /\ Ledger!Total(h, T) = 0
      BY TotalEmpty
    <2> QED
      BY <1>2, <2>1
  <1>5. PICK d \in T : TRUE
    BY <1>4
  <1>6. IsFiniteSet(T) /\ IsFiniteSet(T \ {d})
    BY <1>2, FS_Subset
  <1>7. Natural(f, T) /\ Natural(g, T) /\ Natural(h, T) /\ Natural(f, T \ {d}) /\ Natural(g, T \ {d})
    BY <1>2 DEF Natural, SumOf
  <1>8. /\ Ledger!Total(f, T) = f[d] + Ledger!Total(f, T \ {d})
        /\ Ledger!Total(g, T) = g[d] + Ledger!Total(g, T \ {d})
        /\ Ledger!Total(h, T) = h[d] + Ledger!Total(h, T \ {d})
    BY <1>6, <1>7, TotalWithout
  <1>9. Ledger!Total(f, T \ {d}) \in Nat /\ Ledger!Total(g, T \ {d}) \in Nat
    BY <1>6, <1>7, TotalNat
  <1>10. Ledger!Total(h, T \ {d}) = Ledger!Total(f, T \ {d}) + Ledger!Total(g, T \ {d})
    BY <1>3
  <1>11. f[d] \in Nat /\ g[d] \in Nat /\ h[d] = f[d] + g[d]
    BY <1>2, <1>7 DEF Natural, SumOf
  <1> QED
    BY <1>2, <1>8, <1>9, <1>10, <1>11

\* What is nothing may be left out.
LEMMA TotalOf ==
    ASSUME NEW f, NEW S, IsFiniteSet(S), Natural(f, S), NEW R \in SUBSET S,
           \A d \in S \ R : f[d] = 0
    PROVE  Ledger!Total(f, R) = Ledger!Total(f, S)
  <1> DEFINE Same(T) == Ledger!Total(f, T \intersect R) = Ledger!Total(f, T)
             C == {T \in SUBSET S : ~ Same(T)}
  <1>1. CASE C = {}
    <2>1. S \in SUBSET S /\ S \notin C
      BY <1>1
    <2>2. Same(S)
      BY <2>1
    <2> HIDE DEF C
    <2>3. PICK Q : Q = S \intersect R
      OBVIOUS
    <2>4. Q = R
      BY <2>3
    <2>5. Ledger!Total(f, Q) = Ledger!Total(f, S)
      BY <2>2, <2>3
    <2> QED
      BY <2>4, <2>5
  <1>2. CASE C # {}
    <2>1. PICK T \in C : \A U \in C : U \subseteq T => U = T
      <3>1. C \in SUBSET SUBSET S /\ C # {}
        BY <1>2
      <3> HIDE DEF C
      <3> QED
        BY <3>1, SmallestSet
    <2>2. T \in SUBSET S /\ ~ Same(T)
      OBVIOUS
    <2>3. \A U \in SUBSET T : U # T => Same(U)
      BY <2>1
    <2> HIDE DEF C
    <2>4. T # {}
      <3> SUFFICES ASSUME T = {} PROVE FALSE
        OBVIOUS
      <3>1. T \intersect R = T
        OBVIOUS
      <3> QED
        BY <2>2, <3>1
    <2>5. PICK d \in T : TRUE
      BY <2>4
    <2>6. IsFiniteSet(T) /\ IsFiniteSet(T \intersect R) /\ IsFiniteSet(T \ {d})
      BY <2>2, FS_Subset
    <2>7. Natural(f, T) /\ Natural(f, T \intersect R) /\ Natural(f, T \ {d})
      BY <2>2 DEF Natural
    <2>8. Ledger!Total(f, T) = f[d] + Ledger!Total(f, T \ {d}) /\ Ledger!Total(f, T \ {d}) \in Nat
      BY <2>6, <2>7, TotalWithout, TotalNat
    <2>9. Ledger!Total(f, (T \ {d}) \intersect R) = Ledger!Total(f, T \ {d})
      BY <2>3
    <2>10. CASE d \in R
      <3>1. Ledger!Total(f, T \intersect R) = f[d] + Ledger!Total(f, (T \intersect R) \ {d})
        BY <2>6, <2>7, <2>10, TotalWithout
      <3>2. (T \intersect R) \ {d} = (T \ {d}) \intersect R
        OBVIOUS
      <3> QED
        BY <2>2, <2>8, <2>9, <3>1, <3>2
    <2>11. CASE d \notin R
      <3>1. f[d] = 0
        BY <2>2, <2>11
      <3>2. PICK Q : Q = (T \ {d}) \intersect R
        OBVIOUS
      <3>3. PICK V : V = T \intersect R
        OBVIOUS
      <3>4. Q = V
        BY <2>11, <3>2, <3>3
      <3>5. Ledger!Total(f, Q) = Ledger!Total(f, T \ {d})
        BY <2>9, <3>2
      <3>6. Ledger!Total(f, V) = Ledger!Total(f, T)
        BY <2>8, <3>1, <3>4, <3>5
      <3> QED
        BY <2>2, <3>3, <3>6
    <2> QED
      BY <2>10, <2>11
  <1> QED
    BY <1>1, <1>2

\* What the first n batches have left of a product.
Remaining(docs, n) == [b \in 1..n |-> docs[b].remaining]

OfProduct(docs, n, p) == {b \in 1..n : docs[b].product = p}

OnHandOf(docs, n, p) == Ledger!Total(Remaining(docs, n), OfProduct(docs, n, p))

Stocked(docs, n) == n \in Nat /\ \A b \in 1..n : docs[b].remaining \in Nat

LEMMA OnHandNat ==
    ASSUME NEW docs, NEW n, NEW p, Stocked(docs, n)
    PROVE  /\ OnHandOf(docs, n, p) \in Nat
           /\ IsFiniteSet(OfProduct(docs, n, p))
           /\ Natural(Remaining(docs, n), 1..n)
  <1> DEFINE S == OfProduct(docs, n, p)
  <1>1. IsFiniteSet(1..n) /\ S \in SUBSET (1..n)
    BY FS_Interval DEF Stocked, OfProduct
  <1>2. IsFiniteSet(S)
    BY <1>1, FS_Subset
  <1>3. Natural(Remaining(docs, n), 1..n)
    BY DEF Natural, Remaining, Stocked
  <1>4. Natural(Remaining(docs, n), S)
    BY <1>1, <1>3 DEF Natural
  <1> HIDE DEF S
  <1>5. Ledger!Total(Remaining(docs, n), S) \in Nat
    BY <1>2, <1>4, TotalNat
  <1> QED
    BY <1>2, <1>3, <1>5 DEF OnHandOf, S

LEMMA OnHandSame ==
    ASSUME NEW docs, NEW docs2, NEW n, NEW p, Stocked(docs, n),
           \A b \in 1..n : /\ docs2[b].product = docs[b].product
                           /\ docs2[b].remaining = docs[b].remaining
    PROVE  OnHandOf(docs2, n, p) = OnHandOf(docs, n, p)
  <1>1. OfProduct(docs2, n, p) = OfProduct(docs, n, p)
    BY DEF OfProduct
  <1>2. Remaining(docs2, n) = Remaining(docs, n)
    BY DEF Remaining
  <1> QED
    BY <1>1, <1>2 DEF OnHandOf

LEMMA OnHandCreated ==
    ASSUME NEW docs, NEW docs2, NEW n, NEW p, Stocked(docs, n), Stocked(docs2, n + 1),
           \A b \in 1..n : docs2[b] = docs[b]
    PROVE  OnHandOf(docs2, n + 1, p) =
              OnHandOf(docs, n, p) + IF docs2[n + 1].product = p THEN docs2[n + 1].remaining ELSE 0
  <1> DEFINE S == OfProduct(docs, n, p)
             S2 == OfProduct(docs2, n + 1, p)
             f == Remaining(docs, n)
             g == Remaining(docs2, n + 1)
  <1>1. n \in Nat /\ n + 1 \notin S /\ S \subseteq 1..n + 1
    BY DEF Stocked, OfProduct
  <1>2. S2 = IF docs2[n + 1].product = p THEN S \union {n + 1} ELSE S
    <2>1. \A b \in 1..n + 1 : b \in 1..n \/ b = n + 1
      BY <1>1
    <2>2. n + 1 \in 1..n + 1 /\ 1..n \subseteq 1..n + 1
      BY <1>1
    <2> QED
      BY <2>1, <2>2 DEF OfProduct
  <1>3. IsFiniteSet(S) /\ Natural(f, 1..n) /\ Natural(g, 1..n + 1)
        /\ Ledger!Total(f, S) \in Nat
    BY OnHandNat DEF OnHandOf
  <1>4. Natural(f, S) /\ Natural(g, S2) /\ S \in SUBSET S /\ Alike(f, g, S)
    BY <1>1, <1>3 DEF Natural, Alike, Remaining, OfProduct
  <1>5. g[n + 1] = docs2[n + 1].remaining
    BY <1>1 DEF Remaining
  <1> HIDE DEF S, S2, f, g
  <1>6. Ledger!Total(g, S) = Ledger!Total(f, S)
    BY <1>3, <1>4, TotalWithin
  <1>7. CASE docs2[n + 1].product = p
    <2>1. S2 = S \union {n + 1}
      BY <1>2, <1>7
    <2>2. Natural(g, S \union {n + 1})
      BY <1>4, <2>1
    <2>3. Ledger!Total(g, S \union {n + 1}) = g[n + 1] + Ledger!Total(g, S)
      BY <1>1, <1>3, <2>2, TotalWith
    <2>4. docs2[n + 1].remaining \in Nat
      BY <1>1 DEF Stocked
    <2>5. Ledger!Total(g, S2) = Ledger!Total(f, S) + docs2[n + 1].remaining
      BY <1>3, <1>5, <1>6, <2>1, <2>3, <2>4
    <2> QED
      BY <1>7, <2>5 DEF OnHandOf, S, S2, f, g
  <1>8. CASE docs2[n + 1].product # p
    <2>1. Ledger!Total(g, S2) = Ledger!Total(f, S)
      BY <1>2, <1>6, <1>8
    <2> QED
      BY <1>3, <1>8, <2>1 DEF OnHandOf, S, S2, f, g
  <1> QED
    BY <1>7, <1>8

\* A batch and the rest of its product.
LEMMA OnHandWith ==
    ASSUME NEW docs, NEW n, NEW o \in 1..n, NEW p, docs[o].product = p, Stocked(docs, n)
    PROVE  /\ OnHandOf(docs, n, p) = docs[o].remaining
                + Ledger!Total(Remaining(docs, n), OfProduct(docs, n, p) \ {o})
           /\ Ledger!Total(Remaining(docs, n), OfProduct(docs, n, p) \ {o}) \in Nat
  <1> DEFINE S == OfProduct(docs, n, p)
             f == Remaining(docs, n)
  <1>0. o \in S /\ f[o] = docs[o].remaining
    BY DEF Remaining, OfProduct
  <1>00. IsFiniteSet(S) /\ Natural(f, 1..n)
    BY OnHandNat
  <1>1. IsFiniteSet(S) /\ Natural(f, 1..n) /\ o \in S /\ f[o] = docs[o].remaining
    BY <1>0, <1>00
  <1>2. Natural(f, S) /\ Natural(f, S \ {o})
    BY <1>1 DEF Natural, OfProduct
  <1> HIDE DEF S, f
  <1>3. IsFiniteSet(S \ {o})
    BY <1>1, FS_Subset
  <1>4. Ledger!Total(f, S) = f[o] + Ledger!Total(f, S \ {o}) /\ Ledger!Total(f, S \ {o}) \in Nat
    BY <1>1, <1>2, <1>3, TotalWithout, TotalNat
  <1> QED
    BY <1>1, <1>4 DEF OnHandOf, S, f

\* Only batch o was saved, as a batch of the same product.
SavedOnly(docs, docs2, n, o) ==
    /\ docs2[o].product = docs[o].product
    /\ \A b \in 1..n : b # o => docs2[b] = docs[b]

LEMMA OnHandSaved ==
    ASSUME NEW docs, NEW docs2, NEW n, NEW o \in 1..n, NEW p, Stocked(docs, n), Stocked(docs2, n),
           SavedOnly(docs, docs2, n, o)
    PROVE  OnHandOf(docs2, n, p) =
              OnHandOf(docs, n, p)
                + IF docs[o].product = p THEN docs2[o].remaining - docs[o].remaining ELSE 0
  <1> DEFINE S == OfProduct(docs, n, p)
             f == Remaining(docs, n)
             g == Remaining(docs2, n)
  <1>0. docs2[o].product = docs[o].product /\ \A b \in 1..n : b # o => docs2[b] = docs[b]
    BY DEF SavedOnly
  <1>1. OfProduct(docs2, n, p) = S
    BY <1>0 DEF OfProduct
  <1>21. IsFiniteSet(S) /\ Natural(f, 1..n)
    BY OnHandNat
  <1>22. Natural(g, 1..n)
    BY OnHandNat
  <1>23. OnHandOf(docs, n, p) \in Nat
    BY OnHandNat
  <1>24. docs[o].remaining \in Nat /\ docs2[o].remaining \in Nat
    BY DEF Stocked
  <1>2. IsFiniteSet(S) /\ Natural(f, 1..n) /\ Natural(g, 1..n) /\ Ledger!Total(f, S) \in Nat
        /\ docs[o].remaining \in Nat /\ docs2[o].remaining \in Nat
    BY <1>21, <1>22, <1>23, <1>24 DEF OnHandOf
  <1>3. Alike(f, g, S \ {o}) /\ Natural(f, S \ {o}) /\ Natural(f, S)
    BY <1>0, <1>2 DEF Natural, Alike, Remaining, OfProduct
  <1>4. IsFiniteSet(S \ {o})
    BY <1>2, FS_Subset
  <1>5. CASE docs[o].product = p
    <2>1. /\ OnHandOf(docs, n, p) = docs[o].remaining + Ledger!Total(f, S \ {o})
          /\ Ledger!Total(f, S \ {o}) \in Nat
      BY <1>5, OnHandWith
    <2>2. OnHandOf(docs2, n, p) = docs2[o].remaining + Ledger!Total(g, S \ {o})
      BY <1>0, <1>1, <1>5, OnHandWith
    <2> HIDE DEF S, f, g
    <2>3. Ledger!Total(g, S \ {o}) = Ledger!Total(f, S \ {o})
      BY <1>3, <1>4, TotalWithin
    <2> QED
      BY <1>2, <1>5, <2>1, <2>2, <2>3
  <1>6. CASE docs[o].product # p
    <2>1. S \ {o} = S
      BY <1>6 DEF OfProduct
    <2> HIDE DEF S, f, g
    <2>0. Alike(f, g, S)
      BY <1>3, <2>1
    <2>2. Ledger!Total(g, S) = Ledger!Total(f, S)
      BY <1>2, <1>3, <2>0, TotalWithin
    <2>3. OnHandOf(docs2, n, p) = Ledger!Total(g, S) /\ OnHandOf(docs, n, p) = Ledger!Total(f, S)
      BY <1>1 DEF OnHandOf, S, f, g
    <2> QED
      BY <1>2, <1>6, <2>2, <2>3
  <1> QED
    BY <1>5, <1>6

----------------------------------------------------------------------------
(* What requests owe the cached quantity.                                  *)

JobOwes(j, p) == IF j # Idle /\ j.product = p THEN j.delta ELSE 0

Saves(c) == c.kind = "remove" /\ c.at = "save"

CallOwes(c, p) ==
    IF Saves(c) /\ c.copies[Oldest(c.copies)].doc.product = p
      THEN c.copies[Oldest(c.copies)].doc.remaining ELSE 0

\* The cached quantity of p and what the request owes are what is on hand.
Agrees(w, p) ==
    quantity[p] + JobOwes(job[w], p) + CallOwes(call[w], p) = OnHandOf(batch, batchSeq, p)

JobRight(w) ==
    job[w] # Idle =>
        /\ job[w].kind \in {"adjust", "adjusting"}
        /\ job[w].product \in Products
        /\ job[w].delta \in Int
        /\ job[w].kind = "adjusting" => job[w].copy = quantity[job[w].product]

LEMMA StockIsStocked == TypeOK => Stocked(batch, batchSeq)
  BY DEF TypeOK, StoreTypeOK, Batch, Stocked

\* What a request that voids a batch will save is that batch.
LEMMA SavesOldest ==
    ASSUME BridgeInv, CoreInv, NEW w \in Workers, Saves(call[w]),
           NEW o, o = Oldest(call[w].copies)
    PROVE  /\ o \in 1..batchSeq
           /\ call[w].copies[o] \in Copy
           /\ call[w].copies[o].doc = batch[o]
  <1>1. call[w].kind = "remove" /\ call[w].at = "save" /\ batchSeq \in Nat /\ CallOK(call[w], batchSeq)
    BY DEF Saves, BridgeInv, CallsOK, TypeOK, StoreTypeOK
  <1>2. PICK B \in SUBSET (1..batchSeq) : call[w] \in RemoveSet(B) /\ o \in B
    BY <1>1, RemoveHolds
  <1>3. o \in Keeps(call[w]) /\ o \in 1..batchSeq /\ call[w].copies[o] \in Copy
    BY <1>1, <1>2 DEF Keeps, Holds, Recosts, RemoveSet
  <1> QED
    BY <1>3 DEF CoreInv, CopiesFresh, FreshCall

LEMMA CallOwesNat ==
    ASSUME BridgeInv, CoreInv, NEW w \in Workers, NEW p
    PROVE  /\ CallOwes(call[w], p) \in Nat
           /\ CallOwes(call[w], p) <= OnHandOf(batch, batchSeq, p)
           /\ OnHandOf(batch, batchSeq, p) \in Nat
  <1>1. Stocked(batch, batchSeq)
    BY StockIsStocked DEF BridgeInv
  <1>2. OnHandOf(batch, batchSeq, p) \in Nat
    BY <1>1, OnHandNat
  <1>3. CASE Saves(call[w])
    <2>1. PICK o : o = Oldest(call[w].copies)
      OBVIOUS
    <2>2. o \in 1..batchSeq /\ call[w].copies[o].doc = batch[o]
      BY <1>3, <2>1, SavesOldest
    <2>3. CASE batch[o].product = p
      <3>1. CallOwes(call[w], p) = batch[o].remaining
        BY <1>3, <2>1, <2>2, <2>3 DEF CallOwes
      <3> DEFINE rest == Ledger!Total(Remaining(batch, batchSeq), OfProduct(batch, batchSeq, p) \ {o})
      <3>2. OnHandOf(batch, batchSeq, p) = batch[o].remaining + rest /\ rest \in Nat
        BY <1>1, <2>2, <2>3, OnHandWith
      <3> HIDE DEF rest
      <3>3. batch[o].remaining \in Nat
        BY <1>1, <2>2 DEF Stocked
      <3> QED
        BY <1>2, <3>1, <3>2, <3>3
    <2>4. CASE batch[o].product # p
      <3>1. CallOwes(call[w], p) = 0
        BY <2>1, <2>2, <2>4 DEF CallOwes
      <3> QED
        BY <1>2, <3>1
    <2> QED
      BY <2>3, <2>4
  <1>4. CASE ~Saves(call[w])
    <2>1. CallOwes(call[w], p) = 0
      BY <1>4 DEF CallOwes
    <2> QED
      BY <1>2, <2>1
  <1> QED
    BY <1>3, <1>4

\* The steps that leave a request owing what it did.
Silent(w) ==
    \/ LinkDelivery(w) \/ FindInvoices(w) \/ ReadLines(w) \/ CheckDelivery(w)
    \/ ApproveRead(w) \/ PriceItem(w) \/ FindBatches(w) \/ ReadRows(w) \/ RecostRow(w)
    \/ NextBatch(w) \/ CompleteInvoice(w)
    \/ RemoveInvoices(w) \/ RemoveNote(w) \/ VoidRead(w)

LEMMA SilentSaves ==
    ASSUME BridgeInv, NEW w \in Workers, Silent(w)
    PROVE  ~Saves(call[w]) /\ ~Saves(call'[w])
  <1>1. DOMAIN call = Workers
    BY DEF BridgeInv, CallsOK
  <1>2. ASSUME Return(w) PROVE ~Saves(call'[w])
    BY <1>2, Returns DEF NoCall, Saves
  <1>3. ~Saves(call[w])
    <2>1. CASE LinkDelivery(w) \/ ApproveRead(w) \/ RemoveInvoices(w)
      <3>1. call[w] = NoCall
        BY <2>1 DEF LinkDelivery, ApproveRead, RemoveInvoices
      <3> QED
        BY <3>1 DEF NoCall, Saves
    <2>2. CASE CheckDelivery(w) \/ CompleteInvoice(w) \/ PriceItem(w) \/ FindBatches(w)
      BY <2>2 DEF CheckDelivery, CompleteInvoice, PriceItem, FindBatches, Step, Saves
    <2>5. CASE FindInvoices(w) \/ ReadLines(w)
      BY <2>5 DEF FindInvoices, ReadLines, Step, Saves
    <2>3. CASE ReadRows(w) \/ RecostRow(w) \/ NextBatch(w)
      BY <2>3 DEF ReadRows, RecostRow, NextBatch, Step, Saves
    <2>4. CASE RemoveNote(w) \/ VoidRead(w)
      BY <2>4 DEF RemoveNote, VoidRead, Step, Saves
    <2> QED
      BY <2>1, <2>2, <2>3, <2>4, <2>5 DEF Silent
  <1>4. CASE LinkDelivery(w) \/ ApproveRead(w) \/ RemoveInvoices(w)
    <2>1. call'[w].kind \in {"deliver", "approve"} \/ call'[w].at = "note"
      BY <1>1, <1>4 DEF LinkDelivery, ApproveRead, RemoveInvoices
    <2> QED
      BY <1>3, <2>1 DEF Saves
  <1>9. CASE FindInvoices(w)
    <2>1. call'[w].kind = "deliver"
      BY <1>9, FindGoes
    <2> QED
      BY <1>3, <2>1 DEF Saves
  <1>5. CASE ReadLines(w) \/ CheckDelivery(w) \/ CompleteInvoice(w)
    <2>1. Return(w) \/ \E at \in {"check", "create"} : GoTo(w, at)
      BY <1>5 DEF ReadLines, CheckDelivery, CompleteInvoice
    <2>2. ASSUME NEW at \in {"check", "create"}, GoTo(w, at) PROVE ~Saves(call'[w])
      <3>1. call[w].kind # "none"
        BY <1>5 DEF ReadLines, CheckDelivery, CompleteInvoice, Step
      <3>2. Goes(w, at, call[w].copies)
        BY <2>2, <3>1, GoToGoes
      <3> QED
        BY <3>2 DEF Goes, Saves
    <2> QED
      BY <1>2, <1>3, <2>1, <2>2
  <1>6. CASE PriceItem(w) \/ FindBatches(w) \/ ReadRows(w) \/ RecostRow(w) \/ NextBatch(w)
    <2>1. call'[w].kind = "approve"
      BY <1>6, ApprovalMoves DEF Approves
    <2> QED
      BY <1>3, <2>1 DEF Saves
  <1>7. CASE RemoveNote(w)
    <2>1. call[w].kind = "remove" /\ GoTo(w, "find")
      BY <1>7 DEF RemoveNote, Step
    <2>2. Goes(w, "find", call[w].copies)
      BY <2>1, GoToGoes
    <2> QED
      BY <1>3, <2>2 DEF Goes, Saves
  <1>8. CASE VoidRead(w)
    <2>1. call[w].kind = "remove"
      BY <1>8 DEF VoidRead, Step
    <2>2. \/ Return(w)
          \/ \E copies : call' = [call EXCEPT ![w].copies = copies, ![w].at = "adjust"]
      BY <1>8 DEF VoidRead, Return
    <2>3. ASSUME NEW copies, call' = [call EXCEPT ![w].copies = copies, ![w].at = "adjust"]
          PROVE  ~Saves(call'[w])
      <3>1. Goes(w, "adjust", copies)
        BY <2>1, <2>3, CopiesGoes
      <3> QED
        BY <3>1 DEF Goes, Saves
    <2> QED
      BY <1>2, <1>3, <2>2, <2>3
  <1> QED
    BY <1>3, <1>4, <1>5, <1>6, <1>7, <1>8, <1>9 DEF Silent

LEMMA SilentLeaves ==
    ASSUME NEW w \in Workers, Silent(w)
    PROVE  job[w] = Idle /\ UNCHANGED <<batch, batchSeq, quantity, job>>
  <1>1. CASE LinkDelivery(w) \/ FindInvoices(w) \/ ReadLines(w) \/ CheckDelivery(w)
    BY <1>1 DEF LinkDelivery, FindInvoices, ReadLines, CheckDelivery, Step, vars
  <1>2. CASE ApproveRead(w) \/ PriceItem(w) \/ FindBatches(w) \/ ReadRows(w)
    BY <1>2 DEF ApproveRead, PriceItem, FindBatches, ReadRows, Step, vars
  <1>3. CASE RecostRow(w) \/ NextBatch(w) \/ CompleteInvoice(w)
    BY <1>3 DEF RecostRow, NextBatch, CompleteInvoice, Step, vars
  <1>4. CASE RemoveInvoices(w) \/ RemoveNote(w) \/ VoidRead(w)
    BY <1>4 DEF RemoveInvoices, RemoveNote, VoidRead, Step, vars
  <1> QED
    BY <1>1, <1>2, <1>3, <1>4 DEF Silent

\* Goods received are owed to the cache.
LEMMA ReceiveAgrees ==
    ASSUME BridgeInv, NEW w \in Workers, NEW q \in Products, NEW date, NEW amount \in Nat,
           NEW cost, NEW source, Receive(q, date, amount, cost, source),
           ThenAdjust(w, q, amount), job[w] = Idle, ~Saves(call[w]), ~Saves(call'[w]),
           NEW p \in Products, Agrees(w, p)
    PROVE  Agrees(w, p)'
  <1>1. TypeOK /\ Stocked(batch, batchSeq) /\ batchSeq \in Nat /\ DOMAIN job = Workers
    BY StockIsStocked DEF BridgeInv, TypeOK, StoreTypeOK
  <1>2. /\ batchSeq' = batchSeq + 1 /\ quantity' = quantity
        /\ \A b \in 1..batchSeq : batch'[b] = batch[b]
        /\ batch'[batchSeq + 1].product = q /\ batch'[batchSeq + 1].remaining = amount
    BY <1>1 DEF Receive, CreateBatch
  <1>3. \A b \in 1..batchSeq + 1 : b \in 1..batchSeq \/ b = batchSeq + 1
    BY <1>1
  <1>4. Stocked(batch', batchSeq + 1)
    BY <1>1, <1>2, <1>3 DEF Stocked
  <1>5. PICK docs : docs = batch'
    OBVIOUS
  <1>6. OnHandOf(docs, batchSeq + 1, p) =
           OnHandOf(batch, batchSeq, p)
             + IF docs[batchSeq + 1].product = p THEN docs[batchSeq + 1].remaining ELSE 0
    BY <1>1, <1>2, <1>4, <1>5, OnHandCreated
  <1>7. OnHandOf(batch', batchSeq', p) = OnHandOf(batch, batchSeq, p) + IF q = p THEN amount ELSE 0
    BY <1>2, <1>5, <1>6
  <1>8. /\ JobOwes(job[w], p) = 0 /\ CallOwes(call[w], p) = 0 /\ CallOwes(call'[w], p) = 0
        /\ JobOwes(job'[w], p) = IF q = p THEN amount ELSE 0
    <2>1. job'[w] = [kind |-> "adjust", product |-> q, delta |-> amount]
      BY <1>1 DEF ThenAdjust
    <2>2. job'[w].product = q /\ job'[w].delta = amount /\ job'[w].kind = "adjust"
      BY <2>1
    <2>3. job'[w] # Idle
      BY <2>2 DEF Idle
    <2> QED
      BY <2>2, <2>3 DEF JobOwes, CallOwes
  <1>9. quantity[p] \in Nat
    BY <1>1 DEF TypeOK, StoreTypeOK
  <1>10. quantity[p] + 0 + 0 = OnHandOf(batch, batchSeq, p)
    BY <1>8 DEF Agrees
  <1> QED
    BY <1>2, <1>7, <1>8, <1>9, <1>10 DEF Agrees

\* A batch is saved as it was, or with nothing left.
LEMMA SavedOnHand ==
    ASSUME BridgeInv, NEW o \in 1..batchSeq, NEW copy, SaveBatch(o, copy),
           copy.doc.product = batch[o].product, copy.doc.remaining \in Nat, NEW p
    PROVE  /\ batchSeq' = batchSeq /\ quantity' = quantity
           /\ OnHandOf(batch', batchSeq', p) =
                OnHandOf(batch, batchSeq, p)
                  + IF batch[o].product = p THEN copy.doc.remaining - batch[o].remaining ELSE 0
  <1>1. TypeOK /\ Stocked(batch, batchSeq) /\ DOMAIN batch = 1..batchSeq
    BY StockIsStocked DEF BridgeInv, TypeOK, StoreTypeOK
  <1>2. /\ batchSeq' = batchSeq /\ quantity' = quantity
        /\ \A b \in 1..batchSeq : b # o => batch'[b] = batch[b]
        /\ batch'[o] = copy.doc
    BY <1>1 DEF SaveBatch
  <1>3. Stocked(batch', batchSeq)
    BY <1>1, <1>2 DEF Stocked
  <1>4. PICK docs : docs = batch'
    OBVIOUS
  <1>5. Stocked(batch, batchSeq) /\ Stocked(docs, batchSeq)
    BY <1>1, <1>3, <1>4
  <1>7. SavedOnly(batch, docs, batchSeq, o)
    BY <1>2, <1>4 DEF SavedOnly
  <1>6. OnHandOf(docs, batchSeq, p) =
           OnHandOf(batch, batchSeq, p)
             + IF batch[o].product = p THEN docs[o].remaining - batch[o].remaining ELSE 0
    BY <1>5, <1>7, OnHandSaved
  <1> QED
    BY <1>2, <1>4, <1>6

LEMMA RecostAgrees ==
    ASSUME BridgeInv, CoreInv, NEW w \in Workers, RecostBatch(w), NEW p \in Products, Agrees(w, p)
    PROVE  Agrees(w, p)'
  <1>1. /\ call[w].kind = "approve" /\ call[w].at = "recost" /\ job' = job
        /\ batchSeq \in Nat /\ CallOK(call[w], batchSeq)
    BY DEF RecostBatch, SaveBatch, Step, BridgeInv, CallsOK, TypeOK, StoreTypeOK
  <1>2. PICK B \in SUBSET (1..batchSeq) :
          call[w] \in ApproveSet(B) /\ Oldest(call[w].copies) \in B
    BY <1>1, ApproveHolds
  <1> DEFINE o == Oldest(call[w].copies)
             doc == call[w].copies[o].doc
             copy == [doc |-> [doc EXCEPT !.cost = InvoiceLine[call[w].invoice].cost],
                      reconciled |-> TRUE]
  <1>3. o \in Keeps(call[w]) /\ o \in 1..batchSeq /\ call[w].copies[o] \in Copy
    BY <1>1, <1>2 DEF Keeps, Holds, Recosts, ApproveSet
  <1>4. doc = batch[o]
    BY <1>3 DEF CoreInv, CopiesFresh, FreshCall
  <1>5. SaveBatch(o, copy)
    BY DEF RecostBatch
  <1>6. copy.doc.product = batch[o].product /\ copy.doc.remaining = batch[o].remaining
        /\ batch[o].remaining \in Nat
    BY <1>3, <1>4 DEF Batch, Copy
  <1> HIDE DEF o, copy
  <1>7. batchSeq' = batchSeq /\ quantity' = quantity
        /\ OnHandOf(batch', batchSeq', p) = OnHandOf(batch, batchSeq, p) + 0
    BY <1>3, <1>5, <1>6, SavedOnHand
  <1>8. OnHandOf(batch, batchSeq, p) \in Nat
    BY CallOwesNat
  <1>9. call'[w].kind = "approve"
    BY ApprovalMoves DEF Approves
  <1>10. CallOwes(call[w], p) = 0 /\ CallOwes(call'[w], p) = 0
    BY <1>1, <1>9 DEF CallOwes, Saves
  <1> QED
    BY <1>1, <1>7, <1>8, <1>10 DEF Agrees

LEMMA VoidAdjustAgrees ==
    ASSUME BridgeInv, CoreInv, NEW w \in Workers, VoidAdjust(w), NEW p \in Products, Agrees(w, p)
    PROVE  Agrees(w, p)' /\ JobRight(w)'
  <1>1. /\ call[w].kind = "remove" /\ call[w].at = "adjust" /\ job[w] = Idle
        /\ batchSeq \in Nat /\ CallOK(call[w], batchSeq) /\ TypeOK /\ DOMAIN job = Workers
        /\ UNCHANGED <<batch, batchSeq, quantity>>
    BY DEF VoidAdjust, Step, BridgeInv, CallsOK, TypeOK, StoreTypeOK
  <1>2. PICK B \in SUBSET (1..batchSeq) :
          call[w] \in RemoveSet(B) /\ Oldest(call[w].copies) \in B
    BY <1>1, RemoveHolds
  <1> DEFINE o == Oldest(call[w].copies)
             doc == call[w].copies[o].doc
  <1>3. doc.product \in Products /\ doc.remaining \in Nat
    BY <1>1, <1>2 DEF RemoveSet, Copy, Batch
  <1>4. IF doc.remaining > 0 THEN ThenAdjust(w, doc.product, -doc.remaining) ELSE UNCHANGED job
    BY DEF VoidAdjust
  <1>5. Goes(w, "save", call[w].copies)
    <2>1. GoTo(w, "save")
      BY DEF VoidAdjust
    <2> QED
      BY <1>1, <2>1, GoToGoes
  <1>6. Saves(call'[w]) /\ ~Saves(call[w]) /\ call'[w].copies = call[w].copies
    BY <1>1, <1>5 DEF Goes, Saves
  <1>7. CallOwes(call'[w], p) = (IF doc.product = p THEN doc.remaining ELSE 0)
        /\ CallOwes(call[w], p) = 0
    BY <1>6 DEF CallOwes
  <1> HIDE DEF doc
  <1>8. quantity[p] \in Nat /\ JobOwes(job[w], p) = 0
    BY <1>1 DEF TypeOK, StoreTypeOK, JobOwes
  <1>9. quantity[p] + 0 + 0 = OnHandOf(batch, batchSeq, p)
    BY <1>7, <1>8 DEF Agrees
  <1>10. CASE doc.remaining > 0
    <2>1. job'[w] = [kind |-> "adjust", product |-> doc.product, delta |-> -doc.remaining]
      BY <1>1, <1>4, <1>10 DEF ThenAdjust
    <2>2. job'[w].product = doc.product /\ job'[w].delta = -doc.remaining /\ job'[w].kind = "adjust"
      BY <2>1
    <2>3. job'[w] # Idle
      BY <2>2 DEF Idle
    <2>4. JobOwes(job'[w], p) = IF doc.product = p THEN -doc.remaining ELSE 0
      BY <2>2, <2>3 DEF JobOwes
    <2>5. quantity[p] + JobOwes(job'[w], p) + CallOwes(call'[w], p) = quantity[p]
      BY <1>3, <1>7, <1>8, <2>4
    <2>6. JobRight(w)'
      BY <1>3, <2>2 DEF JobRight
    <2> QED
      BY <1>1, <1>8, <1>9, <2>5, <2>6 DEF Agrees
  <1>11. CASE ~(doc.remaining > 0)
    <2>1. job' = job /\ doc.remaining = 0
      BY <1>3, <1>4, <1>11
    <2>2. CallOwes(call'[w], p) = 0 /\ JobOwes(job'[w], p) = 0
      BY <1>7, <1>8, <2>1
    <2>3. JobRight(w)'
      BY <1>1, <2>1 DEF JobRight
    <2> QED
      BY <1>1, <1>8, <1>9, <2>2, <2>3 DEF Agrees
  <1> QED
    BY <1>10, <1>11

LEMMA VoidSaveAgrees ==
    ASSUME BridgeInv, CoreInv, NEW w \in Workers, VoidSave(w), NEW p \in Products, Agrees(w, p)
    PROVE  Agrees(w, p)'
  <1>1. /\ Saves(call[w]) /\ job[w] = Idle /\ DOMAIN call = Workers /\ call[w].kind = "remove"
        /\ TypeOK
    BY DEF VoidSave, Step, Saves, BridgeInv, CallsOK
  <1> DEFINE o == Oldest(call[w].copies)
             left == Without(call[w].copies, o)
             doc == call[w].copies[o].doc
             copy == [call[w].copies[o] EXCEPT !.doc = [doc EXCEPT !.remaining = 0,
                                                                   !.status = "written_off"]]
  <1>2. o \in 1..batchSeq /\ call[w].copies[o] \in Copy /\ doc = batch[o]
    BY <1>1, SavesOldest
  <1>3. /\ SaveBatch(o, copy)
        /\ call' = IF DOMAIN left = {}
                     THEN [call EXCEPT ![w] = NoCall]
                     ELSE [call EXCEPT ![w].copies = left, ![w].at = "adjust"]
    BY DEF VoidSave
  <1>4. copy.doc.product = batch[o].product /\ copy.doc.remaining = 0
    BY <1>2 DEF Copy, Batch
  <1>5. ~Saves(call'[w])
    <2>1. CASE DOMAIN left = {}
      BY <1>1, <1>3, <2>1 DEF NoCall, Saves
    <2>2. CASE DOMAIN left # {}
      <3>1. call' = [call EXCEPT ![w].copies = left, ![w].at = "adjust"]
        BY <1>3, <2>2
      <3> HIDE DEF left
      <3>2. Goes(w, "adjust", left)
        BY <1>1, <3>1, CopiesGoes
      <3> QED
        BY <3>2 DEF Goes, Saves
    <2> QED
      BY <2>1, <2>2
  <1>6. CallOwes(call[w], p) = IF batch[o].product = p THEN batch[o].remaining ELSE 0
    BY <1>1, <1>2 DEF CallOwes
  <1>7. CallOwes(call'[w], p) = 0 /\ job' = job /\ JobOwes(job[w], p) = 0
    BY <1>1, <1>3, <1>5 DEF CallOwes, JobOwes, SaveBatch
  <1> HIDE DEF o, copy, left
  <1>8. /\ batchSeq' = batchSeq /\ quantity' = quantity
        /\ OnHandOf(batch', batchSeq', p) =
             OnHandOf(batch, batchSeq, p)
               + IF batch[o].product = p THEN 0 - batch[o].remaining ELSE 0
    BY <1>2, <1>3, <1>4, SavedOnHand
  <1>9. quantity[p] \in Nat /\ batch[o].remaining \in Nat
    BY <1>1, <1>2, StockIsStocked DEF TypeOK, StoreTypeOK, Stocked
  <1>10. quantity[p] + 0 + (IF batch[o].product = p THEN batch[o].remaining ELSE 0)
           = OnHandOf(batch, batchSeq, p)
    BY <1>6, <1>7 DEF Agrees
  <1>11. quantity[p] + 0 + 0 = OnHandOf(batch', batchSeq', p)
    BY <1>8, <1>9, <1>10
  <1> QED
    BY <1>7, <1>8, <1>11 DEF Agrees

LEMMA AdjustAgrees ==
    ASSUME BridgeInv, CoreInv, NEW w \in Workers, Adjust(w), JobRight(w),
           NEW p \in Products, Agrees(w, p)
    PROVE  Agrees(w, p)'
  <1>1. TypeOK /\ DOMAIN job = Workers /\ call' = call /\ UNCHANGED <<batch, batchSeq>>
        /\ quantity[p] \in Nat /\ DOMAIN quantity = Products
    BY DEF BridgeInv, TypeOK, StoreTypeOK, Adjust, AdjustRead, AdjustSave, SaveQuantity, bridgeVars
  <1>2. CASE AdjustRead(w)
    <2>1. job[w].kind = "adjust"
          /\ job' = [job EXCEPT ![w] =
                 [kind |-> "adjusting", product |-> @.product,
                  delta |-> @.delta, copy |-> quantity[@.product]]]
      BY <1>2 DEF AdjustRead
    <2>2. /\ job'[w].kind = "adjusting" /\ job'[w].product = job[w].product
          /\ job'[w].delta = job[w].delta
      BY <1>1, <2>1
    <2>3. job[w] # Idle /\ job'[w] # Idle
      BY <2>1, <2>2 DEF Idle
    <2>4. JobOwes(job'[w], p) = JobOwes(job[w], p) /\ quantity' = quantity
      BY <1>2, <2>2, <2>3 DEF JobOwes, AdjustRead
    <2> QED
      BY <1>1, <2>4 DEF Agrees
  <1>3. CASE AdjustSave(w)
    <2>1. job[w].kind = "adjusting" /\ job[w] # Idle
          /\ job' = [job EXCEPT ![w] = Idle]
          /\ quantity' = [quantity EXCEPT ![job[w].product] = AtLeastZero(job[w].copy + job[w].delta)]
      BY <1>3 DEF AdjustSave, SaveQuantity, Idle
    <2>2. job[w].copy = quantity[job[w].product] /\ job[w].product \in Products /\ job[w].delta \in Int
      BY <2>1 DEF JobRight
    <2>3. JobOwes(job'[w], p) = 0
      BY <1>1, <2>1 DEF JobOwes
    <2>4. CASE job[w].product # p
      <3>1. quantity'[p] = quantity[p] /\ JobOwes(job[w], p) = 0
        BY <1>1, <2>1, <2>4 DEF JobOwes
      <3> QED
        BY <1>1, <2>3, <3>1 DEF Agrees
    <2>5. CASE job[w].product = p
      <3>1. JobOwes(job[w], p) = job[w].delta
        BY <2>1, <2>5 DEF JobOwes
      <3>2. quantity'[p] = AtLeastZero(quantity[p] + job[w].delta)
        BY <1>1, <2>1, <2>2, <2>5
      <3>3. /\ CallOwes(call[w], p) \in Nat
            /\ CallOwes(call[w], p) <= OnHandOf(batch, batchSeq, p)
            /\ OnHandOf(batch, batchSeq, p) \in Nat
        BY CallOwesNat
      <3>4. quantity[p] + job[w].delta + CallOwes(call[w], p) = OnHandOf(batch, batchSeq, p)
        BY <3>1 DEF Agrees
      <3>5. ~(quantity[p] + job[w].delta < 0)
        BY <1>1, <2>2, <3>3, <3>4
      <3>6. quantity'[p] = quantity[p] + job[w].delta
        BY <3>2, <3>5 DEF AtLeastZero
      <3>7. quantity'[p] + 0 + CallOwes(call[w], p) = OnHandOf(batch, batchSeq, p)
        BY <1>1, <2>2, <3>3, <3>4, <3>6
      <3> QED
        BY <1>1, <2>3, <3>7 DEF Agrees
    <2> QED
      BY <2>4, <2>5
  <1> QED
    BY <1>2, <1>3 DEF Adjust

\* What a request owes when it stops is recorded.
LEMMA LossAgrees ==
    ASSUME Products \subseteq Watched, BridgeInv, NEW w \in Workers, LineFails(w) \/ LoseCall(w),
           NEW p \in Products \ lost', Agrees(w, p)
    PROVE  Agrees(w, p)'
  <1>1. p \notin Due(w) /\ UNCHANGED <<batch, batchSeq, quantity>>
    BY DEF LineFails, LoseCall
  <1>2. JobOwes(job[w], p) = 0
    BY <1>1 DEF Due, JobOwes
  <1>3. CallOwes(call[w], p) = 0
    BY <1>1 DEF Due, CallOwes, Saves
  <1>4. job'[w] = Idle
    BY DEF LineFails, LoseCall, BridgeInv, TypeOK
  <1>5. ~Saves(call'[w])
    <2>1. CASE LineFails(w)
      BY <2>1, ApprovalMoves DEF Approves, Saves
    <2>2. CASE LoseCall(w)
      <3>1. call'[w] = NoCall
        BY <2>2, Returns DEF LoseCall
      <3> QED
        BY <3>1 DEF NoCall, Saves
    <2> QED
      BY <2>1, <2>2
  <1>6. JobOwes(job'[w], p) = 0 /\ CallOwes(call'[w], p) = 0
    BY <1>4, <1>5 DEF JobOwes, CallOwes
  <1> QED
    BY <1>1, <1>2, <1>3, <1>6 DEF Agrees

LEMMA WorkerAgrees ==
    ASSUME Products \subseteq Watched, BridgeInv, CoreInv, NEW w \in Workers, Works(w), JobRight(w),
           NEW p \in Products \ lost', Agrees(w, p)
    PROVE  Agrees(w, p)'
  <1>1. p \in Products
    OBVIOUS
  <1>2. CASE Silent(w)
    <2>1. job[w] = Idle /\ UNCHANGED <<batch, batchSeq, quantity, job>>
      BY <1>2, SilentLeaves
    <2>2. CallOwes(call[w], p) = 0 /\ CallOwes(call'[w], p) = 0
      BY <1>2, SilentSaves DEF CallOwes
    <2> QED
      BY <2>1, <2>2 DEF Agrees
  <1>3. CASE ReceiveDelivery(w)
    <2>1. call[w].kind = "deliver" /\ call[w].note \in Notes /\ job[w] = Idle
      BY <1>3, DeliveryBrings DEF ReceiveDelivery, Step
    <2>2. PICK line : line = NoteLine[call[w].note]
      OBVIOUS
    <2>3. line.product \in Products /\ line.qty \in Nat
      BY <2>1, <2>2, NotesAssumption
    <2>4. /\ Receive(line.product, line.date, line.qty, ProvisionalCost,
                     [type |-> "grn", ref |-> call[w].note])
          /\ ThenAdjust(w, line.product, line.qty)
      BY <1>3, <2>2 DEF ReceiveDelivery
    <2>5. call'[w] = NoCall
      BY <1>3, Returns DEF ReceiveDelivery
    <2>6. ~Saves(call[w]) /\ ~Saves(call'[w])
      BY <2>1, <2>5 DEF Saves, NoCall
    <2> QED
      BY <1>1, <2>1, <2>3, <2>4, <2>6, ReceiveAgrees
  <1>4. CASE PurchaseBatch(w)
    <2>1. call[w].kind = "approve" /\ call[w].invoice \in Invoices /\ job[w] = Idle
      BY <1>4, PurchaseBrings DEF PurchaseBatch, Step
    <2>2. PICK line : line = InvoiceLine[call[w].invoice]
      OBVIOUS
    <2>3. line.product \in Products /\ line.qty \in Nat
      BY <2>1, <2>2, InvoicesAssumption
    <2>4. /\ Receive(line.product, line.date, line.qty, line.cost,
                     [type |-> "supplier_invoice", ref |-> call[w].invoice])
          /\ ThenAdjust(w, line.product, line.qty)
      BY <1>4, <2>2 DEF PurchaseBatch
    <2>5. call'[w].kind = "approve"
      BY <1>4, ApprovalMoves DEF Approves
    <2>6. ~Saves(call[w]) /\ ~Saves(call'[w])
      BY <2>1, <2>5 DEF Saves
    <2> QED
      BY <1>1, <2>1, <2>3, <2>4, <2>6, ReceiveAgrees
  <1>5. CASE RecostBatch(w)
    BY <1>1, <1>5, RecostAgrees
  <1>6. CASE VoidAdjust(w)
    BY <1>1, <1>6, VoidAdjustAgrees
  <1>7. CASE VoidSave(w)
    BY <1>1, <1>7, VoidSaveAgrees
  <1>8. CASE Adjust(w)
    BY <1>1, <1>8, AdjustAgrees
  <1>9. CASE LineFails(w) \/ LoseCall(w)
    BY <1>9, LossAgrees
  <1> QED
    BY <1>2, <1>3, <1>4, <1>5, <1>6, <1>7, <1>8, <1>9
       DEF Works, DeliveryStep, ApprovalStep, RemovalStep, Silent

LEMMA JobRightStep ==
    ASSUME BridgeInv, CoreInv, NEW w \in Workers, Works(w), JobRight(w)
    PROVE  JobRight(w)'
  <1>1. TypeOK /\ DOMAIN job = Workers
    BY DEF BridgeInv, TypeOK
  <1>2. CASE Silent(w)
    BY <1>2, SilentLeaves DEF JobRight
  <1>3. ASSUME NEW q \in Products, NEW amount \in Nat, ThenAdjust(w, q, amount) PROVE JobRight(w)'
    <2>1. job'[w] = [kind |-> "adjust", product |-> q, delta |-> amount]
      BY <1>1, <1>3 DEF ThenAdjust
    <2>2. job'[w].kind = "adjust" /\ job'[w].product = q /\ job'[w].delta = amount
      BY <2>1
    <2> QED
      BY <2>2 DEF JobRight
  <1>4. CASE ReceiveDelivery(w)
    <2>1. PICK n \in Notes : n = call[w].note
      BY <1>4, DeliveryBrings
    <2>2. NoteLine[n].product \in Products /\ NoteLine[n].qty \in Nat
      BY NotesAssumption
    <2>3. ThenAdjust(w, NoteLine[n].product, NoteLine[n].qty)
      BY <1>4, <2>1 DEF ReceiveDelivery
    <2> QED
      BY <1>3, <2>2, <2>3
  <1>5. CASE PurchaseBatch(w)
    <2>1. PICK i \in Invoices : i = call[w].invoice
      BY <1>5, PurchaseBrings
    <2>2. InvoiceLine[i].product \in Products /\ InvoiceLine[i].qty \in Nat
      BY InvoicesAssumption
    <2>3. ThenAdjust(w, InvoiceLine[i].product, InvoiceLine[i].qty)
      BY <1>5, <2>1 DEF PurchaseBatch
    <2> QED
      BY <1>3, <2>2, <2>3
  <1>6. CASE RecostBatch(w) \/ VoidSave(w)
    <2>1. job[w] = Idle /\ job' = job
      BY <1>6 DEF RecostBatch, VoidSave, Step, SaveBatch
    <2> QED
      BY <2>1 DEF JobRight
  <1>7. CASE VoidAdjust(w)
    <2>1. job[w] = Idle /\ call[w].kind = "remove" /\ call[w].at = "adjust"
          /\ batchSeq \in Nat /\ CallOK(call[w], batchSeq)
      BY <1>7 DEF VoidAdjust, Step, BridgeInv, CallsOK, TypeOK, StoreTypeOK
    <2>2. PICK B \in SUBSET (1..batchSeq) :
            call[w] \in RemoveSet(B) /\ Oldest(call[w].copies) \in B
      BY <2>1, RemoveHolds
    <2>3. PICK doc \in Batch : doc = call[w].copies[Oldest(call[w].copies)].doc
      BY <2>2 DEF RemoveSet, Copy
    <2>4. \/ ThenAdjust(w, doc.product, -doc.remaining)
          \/ UNCHANGED job
      BY <1>7, <2>3 DEF VoidAdjust
    <2>5. doc.product \in Products /\ -doc.remaining \in Int
      BY DEF Batch
    <2>6. CASE ThenAdjust(w, doc.product, -doc.remaining)
      <3>1. job'[w] = [kind |-> "adjust", product |-> doc.product, delta |-> -doc.remaining]
        BY <1>1, <2>6 DEF ThenAdjust
      <3>2. job'[w].kind = "adjust" /\ job'[w].product = doc.product /\ job'[w].delta = -doc.remaining
        BY <3>1
      <3> QED
        BY <2>5, <3>2 DEF JobRight
    <2>7. CASE UNCHANGED job
      BY <2>1, <2>7 DEF JobRight
    <2> QED
      BY <2>4, <2>6, <2>7
  <1>8. CASE Adjust(w)
    <2>1. CASE AdjustSave(w)
      BY <1>1, <2>1 DEF AdjustSave, JobRight
    <2>2. CASE AdjustRead(w)
      <3>1. job[w].kind = "adjust" /\ quantity' = quantity
            /\ job' = [job EXCEPT ![w] =
                   [kind |-> "adjusting", product |-> @.product,
                    delta |-> @.delta, copy |-> quantity[@.product]]]
        BY <2>2 DEF AdjustRead
      <3>2. /\ job'[w].kind = "adjusting" /\ job'[w].product = job[w].product
            /\ job'[w].delta = job[w].delta /\ job'[w].copy = quantity[job[w].product]
        BY <1>1, <3>1
      <3>3. job[w] # Idle
        BY <3>1 DEF Idle
      <3> QED
        BY <3>1, <3>2, <3>3 DEF JobRight
    <2> QED
      BY <1>8, <2>1, <2>2 DEF Adjust
  <1>9. CASE LineFails(w) \/ LoseCall(w)
    BY <1>1, <1>9 DEF LineFails, LoseCall, JobRight
  <1> QED
    BY <1>2, <1>4, <1>5, <1>6, <1>7, <1>8, <1>9
       DEF Works, DeliveryStep, ApprovalStep, RemovalStep, Silent

----------------------------------------------------------------------------
(* While nobody has a request under way the cached quantity of a product   *)
(* is what is on hand; while somebody has one, what that request owes is    *)
(* the difference.                                                          *)

\* Products a crash left unaccounted for are lost.
CacheAccounts ==
    \A p \in Products \ lost :
        /\ (\A w \in Workers : ~Busy(w)) => quantity[p] = OnHandOf(batch, batchSeq, p)
        /\ \A w \in Workers : Busy(w) => Agrees(w, p)

LEMMA WorkerAccounts ==
    ASSUME Products \subseteq Watched, BridgeInv, TypeOK', CoreInv, NEW w \in Workers, Alone(w),
           Works(w), JobRight(w), CacheAccounts
    PROVE  CacheAccounts'
  <1>1. /\ Others(w) /\ lost \subseteq lost'
        /\ quantity \in [Products -> Nat] /\ quantity' \in [Products -> Nat]
    BY WorkerStep, MarksKept DEF BridgeInv, TypeOK, StoreTypeOK
  <1>2. \A v \in Workers : Busy(v)' => v = w
    BY <1>1 DEF Alone, Others, Busy
  <1> SUFFICES ASSUME NEW p \in Products \ lost'
               PROVE  /\ (\A v \in Workers : ~Busy(v)') =>
                             quantity'[p] = OnHandOf(batch', batchSeq', p)
                      /\ \A v \in Workers : Busy(v)' => Agrees(v, p)'
    BY DEF CacheAccounts
  <1>3. Agrees(w, p)
    <2>1. CASE Busy(w)
      BY <1>1, <2>1 DEF CacheAccounts
    <2>2. CASE ~Busy(w)
      <3>1. quantity[p] = OnHandOf(batch, batchSeq, p) /\ quantity[p] \in Nat
        BY <1>1, <2>2 DEF Alone, CacheAccounts
      <3>2. JobOwes(job[w], p) = 0 /\ CallOwes(call[w], p) = 0
        BY <2>2 DEF Busy, JobOwes, CallOwes, Saves, NoCall
      <3> QED
        BY <3>1, <3>2 DEF Agrees
    <2> QED
      BY <2>1, <2>2
  <1>4. Agrees(w, p)'
    BY <1>3, WorkerAgrees
  <1>5. ASSUME ~Busy(w)' PROVE quantity'[p] = OnHandOf(batch', batchSeq', p)
    <2>1. JobOwes(job'[w], p) = 0 /\ CallOwes(call'[w], p) = 0
      BY <1>5 DEF Busy, JobOwes, CallOwes, Saves, NoCall
    <2>2. quantity'[p] \in Nat
      BY <1>1
    <2>3. quantity'[p] + 0 + 0 = OnHandOf(batch', batchSeq', p)
      BY <1>4, <2>1 DEF Agrees
    <2> QED
      BY <2>2, <2>3
  <1> QED
    BY <1>2, <1>4, <1>5

\* The rows of a session name distinct products.
OneRowPerProduct ==
    \A rows \in Orders : \A j, k \in 1..Len(rows) : rows[j].product = rows[k].product => j = k

LEMMA AskedOnce ==
    ASSUME NEW rows \in Seq(Row), NEW j \in 1..Len(rows), NEW p, rows[j].product = p,
           \A k \in 1..Len(rows) : rows[k].product = p => k = j
    PROVE  AskedOf(rows, Len(rows), p) = rows[j].qty /\ rows[j].qty \in Nat
  <1> DEFINE amount == [i \in DOMAIN rows |-> rows[i].qty]
  <1>1. {i \in 1..Len(rows) : rows[i].product = p} = {j}
    OBVIOUS
  <1>2. rows[j].qty \in Nat
    <2>1. rows[j] \in Row
      BY ElementOfSeq
    <2> QED
      BY <2>1 DEF Row
  <1>3. amount[j] = rows[j].qty /\ Natural(amount, {j})
    BY <1>2, LenProperties DEF Natural
  <1>4. AskedOf(rows, Len(rows), p) = Ledger!Total(amount, {j})
    BY <1>1 DEF AskedOf
  <1>5. IsFiniteSet({j}) /\ j \in {j} /\ {j} \ {j} = {}
    BY FS_Singleton
  <1> HIDE DEF amount
  <1>6. Ledger!Total(amount, {j}) = amount[j] + Ledger!Total(amount, {j} \ {j})
    BY <1>3, <1>5, TotalWithout
  <1>7. Ledger!Total(amount, {j} \ {j}) = 0
    BY <1>5, TotalEmpty
  <1> QED
    BY <1>2, <1>3, <1>4, <1>6, <1>7

LEMMA AskedNever ==
    ASSUME NEW rows, NEW n, NEW p, \A k \in 1..n : rows[k].product # p
    PROVE  AskedOf(rows, n, p) = 0
  <1>1. {i \in 1..n : rows[i].product = p} = {}
    OBVIOUS
  <1> QED
    BY <1>1, TotalEmpty DEF AskedOf

----------------------------------------------------------------------------
(* What a session in flight has saved of its products.                     *)

Done == IF txPhase = "commit" THEN txRow ELSE txRow - 1

Lowered(p) == \E j \in 1..Done : txRows[j].product = p

RowsSaved ==
    txPhase # "idle" =>
        /\ txPhase = "draw" => txRead = quantity[txRows[txRow].product]
        /\ \A p \in Products : ProductDoc(p) \in wrote <=> Lowered(p)
        /\ \A j \in 1..Done :
              viewQuantity[txRows[j].product]
                = AtLeastZero(quantity[txRows[j].product] - txRows[j].qty)

NothingWritten == txPhase = "idle" => wrote = {}

LEMMA RowsSavedSaved ==
    ASSUME OneRowPerProduct, TypeOK, LedgerInv, RowsSaved, SaveProduct
    PROVE  RowsSaved'
  <1>1. /\ txRows \in Orders /\ txRows \in Seq(Row) /\ txRow \in 1..Len(txRows) /\ txRow \in Nat
        /\ txPhase = "draw" /\ viewQuantity \in [Products -> Nat]
    BY LenProperties DEF SaveProduct, LedgerInv, Ordered, TypeOK, TxTypeOK
  <1>2. PICK p : p = txRows[txRow].product
    OBVIOUS
  <1>3. p \in Products
    <2>1. txRows[txRow] \in Row
      BY <1>1, ElementOfSeq
    <2> QED
      BY <1>2, <2>1 DEF Row
  <1>4. /\ viewQuantity' = [viewQuantity EXCEPT ![p] = AtLeastZero(txRead - txRows[txRow].qty)]
        /\ wrote' = wrote \cup {ProductDoc(p)}
        /\ UNCHANGED <<quantity, txRows>>
    BY <1>2 DEF SaveProduct
  <1>5. txPhase' # "idle" /\ txPhase' # "draw" /\ Done' = txRow /\ Done = txRow - 1
    <2>1. \/ txPhase' = "commit" /\ txRow' = txRow
          \/ txPhase' = "row" /\ txRow' = txRow + 1
      BY DEF SaveProduct
    <2> QED
      BY <1>1, <2>1 DEF Done
  <1>6. txRead = quantity[p]
    BY <1>1, <1>2 DEF RowsSaved
  <1>7. \A j \in 1..txRow : j \in 1..txRow - 1 \/ j = txRow
    BY <1>1
  <1>8. txRow \in 1..txRow /\ 1..txRow - 1 \subseteq 1..txRow /\ txRow \notin 1..txRow - 1
        /\ 1..txRow \subseteq 1..Len(txRows)
    BY <1>1
  <1>9. ASSUME NEW q \in Products PROVE ProductDoc(q) \in wrote' <=> Lowered(q)'
    <2>1. ProductDoc(q) \in wrote' <=> ProductDoc(q) \in wrote \/ q = p
      BY <1>4 DEF ProductDoc
    <2>2. ProductDoc(q) \in wrote <=> \E j \in 1..txRow - 1 : txRows[j].product = q
      BY <1>1, <1>5 DEF RowsSaved, Lowered
    <2>3. Lowered(q)' <=> \E j \in 1..txRow : txRows[j].product = q
      BY <1>4, <1>5 DEF Lowered
    <2> QED
      BY <1>2, <1>7, <1>8, <2>1, <2>2, <2>3
  <1>10. ASSUME NEW j \in 1..txRow
         PROVE  viewQuantity'[txRows[j].product]
                  = AtLeastZero(quantity[txRows[j].product] - txRows[j].qty)
    <2>1. CASE j = txRow
      BY <1>1, <1>2, <1>3, <1>4, <1>6, <2>1
    <2>2. CASE j \in 1..txRow - 1
      <3>1. txRows[j].product # p
        BY <1>1, <1>2, <1>8, <2>2 DEF OneRowPerProduct
      <3>2. viewQuantity[txRows[j].product]
              = AtLeastZero(quantity[txRows[j].product] - txRows[j].qty)
        BY <1>1, <1>5, <2>2 DEF RowsSaved
      <3>3. viewQuantity'[txRows[j].product] = viewQuantity[txRows[j].product]
        <4>1. txRows[j] \in Row
          BY <1>1, <1>8, <2>2, ElementOfSeq
        <4>2. txRows[j].product \in Products
          BY <4>1 DEF Row
        <4> QED
          BY <1>1, <1>4, <3>1, <4>2
      <3> QED
        BY <3>2, <3>3
    <2> QED
      BY <1>7, <2>1, <2>2
  <1> QED
    BY <1>4, <1>5, <1>9, <1>10 DEF RowsSaved

LEMMA RowsSavedIssue ==
    ASSUME OneRowPerProduct, TypeOK, LedgerInv, RowsSaved, NothingWritten, TxStep
    PROVE  RowsSaved' /\ NothingWritten'
  <1>1. CASE Begin
    <2>1. txPhase' = "row" /\ txRow' = 1 /\ wrote' = {}
      BY <1>1 DEF Begin, NothingWritten
    <2>2. Done' = 0
      BY <2>1 DEF Done
    <2> QED
      BY <2>1, <2>2 DEF RowsSaved, Lowered, NothingWritten
  <1>2. CASE ReadProduct
    <2>1. /\ txPhase = "row" /\ txPhase' = "draw"
          /\ txRead' = quantity[txRows[txRow].product]
          /\ UNCHANGED <<quantity, txRows, txRow, viewQuantity, wrote>>
      BY <1>2 DEF ReadProduct
    <2>2. Done' = Done
      BY <2>1 DEF Done
    <2> QED
      BY <2>1, <2>2 DEF RowsSaved, Lowered, NothingWritten
  <1>3. CASE Draw
    <2>1. PICK b : wrote' = wrote \cup {BatchDoc(b)}
      BY <1>3 DEF Draw
    <2>2. txPhase = "draw" /\ UNCHANGED <<quantity, txPhase, txRows, txRow, txRead, viewQuantity>>
      BY <1>3 DEF Draw
    <2>3. Done' = Done
      BY <2>2 DEF Done
    <2>4. \A p \in Products : ProductDoc(p) \in wrote' <=> ProductDoc(p) \in wrote
      BY <2>1 DEF ProductDoc, BatchDoc
    <2> QED
      BY <2>2, <2>3, <2>4 DEF RowsSaved, Lowered, NothingWritten
  <1>4. CASE SaveProduct
    <2>1. txPhase' # "idle"
      BY <1>4 DEF SaveProduct
    <2> QED
      BY <1>4, <2>1, RowsSavedSaved DEF NothingWritten
  <1>5. CASE OutOfStock \/ Commit \/ Abort
    <2>1. txPhase' = "idle" /\ wrote' = {}
      BY <1>5 DEF OutOfStock, Commit, Abort, CloseTx
    <2> QED
      BY <2>1 DEF RowsSaved, NothingWritten
  <1> QED
    BY <1>1, <1>2, <1>3, <1>4, <1>5 DEF TxStep

----------------------------------------------------------------------------
(* A commit lowers the cached quantity of a product by what it takes from  *)
(* its batches.                                                            *)

LEMMA CommitTakes ==
    ASSUME BridgeInv, CoreInv, Commit, NEW p \in Products
    PROVE  /\ OnHandOf(batch, batchSeq, p) =
                OnHandOf(batch', batchSeq', p) + DrawnOf(view, drawn, p)
           /\ OnHandOf(batch', batchSeq', p) \in Nat
           /\ DrawnOf(view, drawn, p) \in Nat
  <1>1. /\ TypeOK /\ batchSeq \in Nat /\ batch \in [1..batchSeq -> Batch] /\ batchSeq' = batchSeq
        /\ Stocked(batch, batchSeq)
    BY StockIsStocked DEF BridgeInv, TypeOK, StoreTypeOK, Commit
  <1>2. /\ DOMAIN view = 1..batchSeq
        /\ \A b \in 1..batchSeq : /\ ViewStands(b, view[b], drawn[b])
                                  /\ BatchDoc(b) \notin wrote => drawn[b] = 0
    BY ViewFreshIs DEF CoreInv, Commit
  <1>3. \A b \in 1..batchSeq : view[b] \in Batch /\ drawn[b] \in Nat
    BY <1>1, <1>2 DEF TypeOK, TxTypeOK, ViewTypeOK
  <1>4. \A b \in 1..batchSeq : batch'[b] = IF BatchDoc(b) \in wrote THEN view[b] ELSE batch[b]
    BY DEF Commit
  <1>5. \A b \in 1..batchSeq : /\ batch'[b].product = batch[b].product
                               /\ view[b].product = batch[b].product
                               /\ batch'[b].remaining \in Nat
                               /\ batch[b].remaining = batch'[b].remaining + drawn[b]
    <2> SUFFICES ASSUME NEW b \in 1..batchSeq
                 PROVE  /\ batch'[b].product = batch[b].product
                        /\ view[b].product = batch[b].product
                        /\ batch'[b].remaining \in Nat
                        /\ batch[b].remaining = batch'[b].remaining + drawn[b]
      OBVIOUS
    <2>1. /\ view[b].product = batch[b].product /\ view[b].remaining + drawn[b] = batch[b].remaining
          /\ BatchDoc(b) \notin wrote => drawn[b] = 0
      BY <1>2 DEF ViewStands
    <2>2. batch[b].remaining \in Nat /\ view[b].remaining \in Nat
      BY <1>1, <1>3 DEF Batch
    <2> QED
      BY <1>4, <2>1, <2>2
  <1>6. PICK docs : docs = batch'
    OBVIOUS
  <1>7. Stocked(docs, batchSeq)
    BY <1>1, <1>5, <1>6 DEF Stocked
  <1>8. OfProduct(docs, batchSeq, p) = OfProduct(batch, batchSeq, p)
    BY <1>5, <1>6 DEF OfProduct
  <1>9. DrawnOf(view, drawn, p) = Ledger!Total(drawn, OfProduct(batch, batchSeq, p))
    <2>1. {b \in DOMAIN view : view[b].product = p} = OfProduct(batch, batchSeq, p)
      BY <1>2, <1>5 DEF OfProduct
    <2> QED
      BY <2>1 DEF DrawnOf
  <1> DEFINE S == OfProduct(batch, batchSeq, p)
             h == Remaining(batch, batchSeq)
             f == Remaining(docs, batchSeq)
  <1>10. IsFiniteSet(S) /\ S \subseteq 1..batchSeq
    <2>1. IsFiniteSet(S)
      BY <1>1, OnHandNat
    <2>2. S \subseteq 1..batchSeq
      BY DEF OfProduct
    <2> QED
      BY <2>1, <2>2
  <1>11. Natural(f, S) /\ Natural(drawn, S) /\ SumOf(h, f, drawn, S)
    <2>1. \A d \in 1..batchSeq : /\ f[d] = docs[d].remaining /\ h[d] = batch[d].remaining
      BY DEF Remaining
    <2> HIDE DEF f, h, S
    <2>2. \A d \in S : d \in 1..batchSeq
      BY <1>10
    <2>3. \A d \in S : f[d] \in Nat /\ drawn[d] \in Nat /\ h[d] = f[d] + drawn[d]
      BY <1>3, <1>5, <1>6, <2>1, <2>2
    <2> QED
      BY <2>3 DEF Natural, SumOf
  <1> HIDE DEF f, h, S
  <1>12. Ledger!Total(h, S) = Ledger!Total(f, S) + Ledger!Total(drawn, S)
    BY <1>10, <1>11, TotalPlus
  <1>13. Ledger!Total(f, S) \in Nat /\ Ledger!Total(drawn, S) \in Nat
    BY <1>10, <1>11, TotalNat
  <1>14. OnHandOf(docs, batchSeq, p) = Ledger!Total(f, S)
    BY <1>8 DEF OnHandOf, S, f
  <1>15. OnHandOf(batch, batchSeq, p) = Ledger!Total(h, S)
    BY DEF OnHandOf, S, h
  <1>16. DrawnOf(view, drawn, p) = Ledger!Total(drawn, S)
    BY <1>9 DEF S
  <1> QED
    BY <1>1, <1>6, <1>12, <1>13, <1>14, <1>15, <1>16

LEMMA CommitAgrees ==
    ASSUME OneRowPerProduct, BridgeInv, CoreInv, LedgerInv, RowsSaved, Commit, NEW p \in Products,
           quantity[p] = OnHandOf(batch, batchSeq, p)
    PROVE  quantity'[p] = OnHandOf(batch', batchSeq', p)
  <1>1. /\ txPhase = "commit" /\ txRow = Len(txRows) /\ txRows \in Orders /\ txRows \in Seq(Row)
        /\ Done = Len(txRows)
    BY DEF Commit, LedgerInv, Ordered, BridgeInv, TypeOK, TxTypeOK, Done
  <1>2. /\ OnHandOf(batch, batchSeq, p) =
             OnHandOf(batch', batchSeq', p) + DrawnOf(view, drawn, p)
        /\ OnHandOf(batch', batchSeq', p) \in Nat
        /\ DrawnOf(view, drawn, p) \in Nat
    BY CommitTakes
  <1>3. AskedOf(txRows, Len(txRows), p) = DrawnOf(view, drawn, p)
    BY <1>1 DEF LedgerInv, Filled
  <1>4. ProductDoc(p) \in wrote <=> \E j \in 1..Len(txRows) : txRows[j].product = p
    BY <1>1 DEF RowsSaved, Lowered
  <1>5. quantity'[p] = IF ProductDoc(p) \in wrote THEN viewQuantity[p] ELSE quantity[p]
    BY DEF Commit
  <1>6. CASE ProductDoc(p) \in wrote
    <2>1. PICK j \in 1..Len(txRows) : txRows[j].product = p
      BY <1>4, <1>6
    <2>2. \A k \in 1..Len(txRows) : txRows[k].product = p => k = j
      BY <1>1, <2>1 DEF OneRowPerProduct
    <2>3. AskedOf(txRows, Len(txRows), p) = txRows[j].qty /\ txRows[j].qty \in Nat
      BY <1>1, <2>1, <2>2, AskedOnce
    <2>4. viewQuantity[p] = AtLeastZero(quantity[p] - txRows[j].qty)
      BY <1>1, <2>1 DEF RowsSaved
    <2>5. quantity[p] - txRows[j].qty = OnHandOf(batch', batchSeq', p)
      BY <1>2, <1>3, <2>3
    <2>6. AtLeastZero(OnHandOf(batch', batchSeq', p)) = OnHandOf(batch', batchSeq', p)
      BY <1>2 DEF AtLeastZero
    <2> QED
      BY <1>5, <1>6, <2>4, <2>5, <2>6
  <1>7. CASE ProductDoc(p) \notin wrote
    <2>1. AskedOf(txRows, Len(txRows), p) = 0
      BY <1>4, <1>7, AskedNever
    <2> QED
      BY <1>2, <1>3, <1>5, <1>7, <2>1
  <1> QED
    BY <1>6, <1>7

----------------------------------------------------------------------------

CacheInv ==
    /\ \A w \in Workers : JobRight(w)
    /\ CacheAccounts
    /\ LedgerInv
    /\ RowsSaved
    /\ NothingWritten

LEMMA CacheIssue ==
    ASSUME OneRowPerProduct, BridgeInv, CoreInv, CacheInv, \A w \in Workers : ~Busy(w), Issue
    PROVE  CacheInv'
  <1>1. TypeOK /\ TxStep /\ UNCHANGED bridgeVars
    BY DEF BridgeInv, Issue
  <1>2. UNCHANGED <<job, call, lost>>
    BY <1>1 DEF TxStep, Begin, ReadProduct, Draw, OutOfStock, SaveProduct, Commit, Abort, bridgeVars
  <1>3. \A w \in Workers : job'[w] = Idle /\ ~Busy(w)'
    BY <1>2 DEF Busy
  <1>4. LedgerInv'
    BY <1>1, LedgerInvStep DEF Next, CacheInv
  <1>5. RowsSaved' /\ NothingWritten'
    BY <1>1, RowsSavedIssue DEF CacheInv
  <1>6. ASSUME NEW p \in Products \ lost'
        PROVE  quantity'[p] = OnHandOf(batch', batchSeq', p)
    <2>1. quantity[p] = OnHandOf(batch, batchSeq, p)
      BY <1>2 DEF CacheInv, CacheAccounts
    <2>2. CASE Commit
      BY <2>1, <2>2, CommitAgrees DEF CacheInv
    <2>3. CASE ~Commit
      <3>1. UNCHANGED <<quantity, batch, batchSeq>>
        BY <1>1, <2>3 DEF TxStep, Begin, ReadProduct, Draw, OutOfStock, SaveProduct, Abort
      <3> QED
        BY <2>1, <3>1
    <2> QED
      BY <2>2, <2>3
  <1>7. CacheAccounts'
    BY <1>3, <1>6 DEF CacheAccounts
  <1>8. \A w \in Workers : JobRight(w)'
    BY <1>3 DEF JobRight
  <1> QED
    BY <1>4, <1>5, <1>7, <1>8 DEF CacheInv

LEMMA CacheWorker ==
    ASSUME Products \subseteq Watched, BridgeInv, BridgeInv', CoreInv, CacheInv,
           NEW w \in Workers, Alone(w), Works(w)
    PROVE  CacheInv'
  <1>1. Others(w) /\ txPhase = "idle" /\ UNCHANGED <<txPhase, wrote>>
    BY WorkerStep
  <1>2. CacheAccounts'
    BY WorkerAccounts DEF BridgeInv, CacheInv
  <1>3. \A v \in Workers : JobRight(v)'
    <2>1. JobRight(w)'
      BY JobRightStep DEF CacheInv
    <2>2. ASSUME NEW v \in Workers, v # w PROVE JobRight(v)'
      BY <1>1, <2>2 DEF Alone, Busy, Others, JobRight
    <2> QED
      BY <2>1, <2>2
  <1>4. RowsSaved' /\ NothingWritten'
    BY <1>1 DEF CacheInv, RowsSaved, NothingWritten
  <1>5. LedgerInv'
    <2>1. txPhase' = "idle" /\ DOMAIN view' = {}
      BY <1>1 DEF BridgeInv, CostInv, ViewRight
    <2> QED
      BY <2>1 DEF LedgerInv, SameGoods, Ordered, Filled
  <1> QED
    BY <1>2, <1>3, <1>4, <1>5 DEF CacheInv

LEMMA CacheStep ==
    ASSUME Products \subseteq Watched, OneRowPerProduct, SerialInv, SerialInv', CacheInv,
           [OneAtATime]_allVars
    PROVE  CacheInv'
  <1>1. BridgeInv /\ CoreInv /\ BridgeInv'
    BY DEF SerialInv
  <1>2. CASE (\A w \in Workers : ~Busy(w)) /\ Issue
    BY <1>1, <1>2, CacheIssue
  <1>3. ASSUME NEW w \in Workers, Alone(w), Works(w) PROVE CacheInv'
    BY <1>1, <1>3, CacheWorker
  <1>4. CASE UNCHANGED allVars
    <2>1. /\ UNCHANGED <<batchSeq, batch, quantity, job, call, lost>>
          /\ UNCHANGED <<txPhase, txRows, txRow, txNeed, txRead, view, drawn, viewQuantity, wrote>>
      BY <1>4 DEF allVars, vars, bridgeVars
    <2>2. CacheAccounts' /\ \A w \in Workers : JobRight(w)'
      BY <2>1 DEF CacheInv, CacheAccounts, Busy, Agrees, JobRight
    <2>3. LedgerInv'
      BY <2>1, LedgerInvKept DEF CacheInv
    <2>4. RowsSaved' /\ NothingWritten'
      BY <2>1 DEF CacheInv, RowsSaved, NothingWritten, Lowered, Done
    <2> QED
      BY <2>2, <2>3, <2>4 DEF CacheInv
  <1> QED
    BY <1>2, <1>3, <1>4 DEF OneAtATime, Works

LEMMA CacheInit == BridgeInit => CacheInv
  <1> SUFFICES ASSUME BridgeInit PROVE CacheInv
    OBVIOUS
  <1>1. /\ batchSeq = 0 /\ quantity = [p \in Products |-> 0]
        /\ job = [w \in Workers |-> Idle] /\ call = [w \in Workers |-> NoCall]
        /\ txPhase = "idle" /\ wrote = {} /\ view = [b \in 1..0 |-> 0]
    BY DEF BridgeInit, Init
  <1>2. \A w \in Workers : ~Busy(w) /\ JobRight(w)
    BY <1>1 DEF Busy, JobRight
  <1>3. ASSUME NEW p \in Products PROVE OnHandOf(batch, batchSeq, p) = 0
    <2>1. OfProduct(batch, batchSeq, p) = {}
      BY <1>1 DEF OfProduct
    <2> QED
      BY <2>1, TotalEmpty DEF OnHandOf
  <1>4. CacheAccounts
    BY <1>1, <1>2, <1>3 DEF CacheAccounts
  <1>5. DOMAIN view = {}
    BY <1>1
  <1>6. LedgerInv /\ RowsSaved /\ NothingWritten
    BY <1>1, <1>5 DEF LedgerInv, SameGoods, Ordered, Filled, RowsSaved, NothingWritten
  <1> QED
    BY <1>2, <1>4, <1>6 DEF CacheInv

LEMMA ActiveOnHand ==
    ASSUME TypeOK, StatusRight, NEW p
    PROVE  Ledger!Total([b \in 1..batchSeq |-> batch[b].remaining],
                        {b \in 1..batchSeq : batch[b].product = p /\ batch[b].status = "active"})
             = OnHandOf(batch, batchSeq, p)
  <1> DEFINE S == OfProduct(batch, batchSeq, p)
             R == {b \in 1..batchSeq : batch[b].product = p /\ batch[b].status = "active"}
             f == Remaining(batch, batchSeq)
  <1>1. Stocked(batch, batchSeq)
    BY StockIsStocked
  <1>2. IsFiniteSet(S) /\ Natural(f, 1..batchSeq)
    BY <1>1, OnHandNat
  <1>3. R \in SUBSET S /\ S \subseteq 1..batchSeq
    BY DEF OfProduct
  <1>4. \A d \in S \ R : f[d] = 0
    <2>1. \A d \in S \ R : d \in 1..batchSeq /\ batch[d].status # "active"
      BY DEF OfProduct
    <2>2. \A d \in 1..batchSeq : /\ f[d] = batch[d].remaining /\ batch[d].remaining \in Nat
                                 /\ batch[d].status # "active" => ~(batch[d].remaining > 0)
      BY <1>1 DEF Remaining, Stocked, StatusRight
    <2> HIDE DEF S, R, f
    <2> QED
      BY <2>1, <2>2
  <1>5. Natural(f, S)
    BY <1>2, <1>3 DEF Natural
  <1> HIDE DEF S, R, f
  <1>6. Ledger!Total(f, R) = Ledger!Total(f, S)
    BY <1>2, <1>3, <1>4, <1>5, TotalOf
  <1> QED
    BY <1>6 DEF S, R, f, OnHandOf, Remaining

\* Between requests the cached quantity of a product is what its active batches
\* have left, when requests come one at a time, no session names a product
\* twice and every change a request died owing is recorded.
THEOREM CacheIsRight ==
    ASSUME Products \subseteq Watched, OneRowPerProduct
    PROVE  SerialSpec => []CacheMatchesFifo
  <1>1. SerialInv /\ SerialInv' /\ CacheInv /\ [OneAtATime]_allVars => CacheInv'
    BY CacheStep
  <1>2. SerialInv /\ CacheInv => CacheMatchesFifo
    <2> SUFFICES ASSUME SerialInv, CacheInv, \A w \in Workers : ~Busy(w), NEW p \in Products \ lost
                 PROVE  quantity[p] =
                          Ledger!Total([b \in 1..batchSeq |-> batch[b].remaining],
                                       {b \in 1..batchSeq : /\ batch[b].product = p
                                                            /\ batch[b].status = "active"})
      BY DEF CacheMatchesFifo
    <2>1. quantity[p] = OnHandOf(batch, batchSeq, p)
      BY DEF CacheInv, CacheAccounts
    <2> QED
      BY <2>1, ActiveOnHand DEF SerialInv, BridgeInv, CoreInv
  <1> QED
    BY <1>1, <1>2, CacheInit, AlwaysSerialInv, PTL DEF SerialSpec

=============================================================================
