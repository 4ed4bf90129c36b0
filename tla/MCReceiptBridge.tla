-------------------------- MODULE MCReceiptBridge --------------------------
(* Small instances of ReceiptBridge.                                       *)
EXTENDS ReceiptBridge, TLC

CONSTANTS p1, n1, n2, i1, i2

MCOneOrder == {<< [product |-> p1, qty |-> 1] >>}
MCDates == 1..2
MCNoteLine ==
    [n \in Notes |-> [product |-> p1, qty |-> IF n = n1 THEN 2 ELSE 1, date |-> 2]]

\* i1 invoices the goods of n1, and of n2 where there is one, which i2 invoices
\* too.
MCInvoiceLine ==
    (i1 :> [note |-> n1, linked |-> Notes \ {n1}, product |-> p1, qty |-> 2, cost |-> 2,
            date |-> 1])
      @@ [i \in Invoices \ {i1} |->
            [note |-> NoNote, linked |-> {n2}, product |-> p1, qty |-> 1, cost |-> 2,
             date |-> 1]]

MCSymmetry == Permutations(Workers)

=============================================================================
