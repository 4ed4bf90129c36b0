---------------------------- MODULE MCFifoStock ----------------------------
(* Small instances of FifoStock, and the properties that add up the        *)
(* documents of a product.                                                 *)
EXTENDS FifoStock, TLC

Sums == INSTANCE FiniteSetsExt

CONSTANTS p1, p2

OneRow(p, n) == << [product |-> p, qty |-> n] >>

\* Two rows of different products, two rows of the same product.
MCOrders == { OneRow(p2, 1) \o OneRow(p1, 1), OneRow(p1, 1) \o OneRow(p1, 2) }

MCDates == 1..2
MCAmounts == 1..2
MCOneAmount == {2}

Remaining(p) ==
    Sums!MapThenSumSet(LAMBDA b : batch[b].remaining,
                       {b \in 1..batchSeq : batch[b].product = p})

\* stock-reconciliation.service.ts calls it the new system disagreeing with
\* itself when the cached quantity is not the sum of what the active batches
\* have left: between requests the two are equal.
CacheMatchesFifo ==
    (txPhase = "idle" /\ \A w \in Workers : job[w] = Idle)
      => \A p \in Products : quantity[p] = Remaining(p)

\* One clerk at a time: receipts and sessions that neither overlap nor die
\* half way, and no manual batch or edit of a quantity.
SerialNext ==
    \/ /\ \A w \in Workers : job[w] = Idle
       /\ TxStep
    \/ /\ txPhase = "idle"
       /\ \E w \in Workers :
             /\ \A v \in Workers \ {w} : job[v] = Idle
             /\ \/ ReceiveBatch(w)
                \/ AdjustRead(w)
                \/ AdjustSave(w)
                \/ UndoRead(w)
                \/ UndoSave(w)

SerialSpec == Init /\ [][SerialNext]_vars

=============================================================================
