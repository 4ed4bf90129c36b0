---------------------------- MODULE StockLedger ----------------------------
(* What FIFO stock promises its callers: batches arrive, and a session is  *)
(* issued in one step, in full, oldest batch first, or not at all.  The    *)
(* steps of createSession, its snapshot, conflicts and retries, are not    *)
(* visible at this level; FifoStock implements it.                         *)
EXTENDS Integers, Sequences, FiniteSetsExt

CONSTANTS Products, Dates, Amounts, Orders

VARIABLES
    entries,    \* batches in order of their ids: product, date, what is left
    issues      \* the rows of every session issued

Init ==
    /\ entries = << >>
    /\ issues = << >>

Receive ==
    /\ UNCHANGED issues
    /\ \E p \in Products, date \in Dates, amount \in Amounts :
           entries' = Append(entries,
                        [product |-> p, receivedAt |-> date, left |-> amount])

Total(amount, S) == MapThenSumSet(LAMBDA x : amount[x], S)

Asked(rows, p) ==
    Total([i \in DOMAIN rows |-> rows[i].qty], {i \in DOMAIN rows : rows[i].product = p})

Before(a, b) ==
    \/ entries[a].receivedAt < entries[b].receivedAt
    \/ entries[a].receivedAt = entries[b].receivedAt /\ a < b

\* take is a way of filling the rows from the first n batches: as much of
\* each product as was asked, and from a batch only when every older batch
\* of the product is used up.
Fills(take, n, rows) ==
    /\ \A p \in Products :
           Asked(rows, p) = Total(take, {b \in 1..n : entries[b].product = p})
    /\ \A a, b \in 1..n :
           /\ entries[a].product = entries[b].product
           /\ Before(a, b)
           /\ take[b] > 0
           => take[a] = entries[a].left

\* The session sees the batches of some moment before it commits: those that
\* arrived later are not among the n it draws from.
Issue ==
    \E rows \in Orders :
       /\ issues' = Append(issues, rows)
       /\ \E n \in 0..Len(entries) :
          \E take \in [1..n -> 0..Max({0} \cup {entries[b].left : b \in 1..n})] :
             /\ \A b \in 1..n : take[b] <= entries[b].left
             /\ Fills(take, n, rows)
             /\ entries' = [b \in DOMAIN entries |->
                              IF b <= n THEN [entries[b] EXCEPT !.left = @ - take[b]]
                                        ELSE entries[b]]

Next == Receive \/ Issue

Spec == Init /\ [][Next]_<<entries, issues>>

=============================================================================
