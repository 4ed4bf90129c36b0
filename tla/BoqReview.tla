------------------------------ MODULE BoqReview ------------------------------
(***************************************************************************)
(* A bill of quantities and its reviews.                                   *)
(*                                                                         *)
(*   boq/boq.service.ts              lines are added, changed and removed, *)
(*                                   and the totals computed again         *)
(*   workflow/workflow.service.ts    the BOQ is submitted, reviewed and    *)
(*                                   decided on                            *)
(*   boq/boq-distribution.service.ts it is sent out for quotation          *)
(*                                                                         *)
(* Nothing is a transaction: a step is one call of the database, with the  *)
(* checks made on what it read.  A save stores the whole document that was *)
(* read (fields it lacked stay as they are), so it may undo what others    *)
(* stored in between; a request may end at any await.  The three totals    *)
(* are one; line numbers, drawings, people, audit records and the          *)
(* documents of the suppliers are left out, and the BOQ is never removed.  *)
(***************************************************************************)
EXTENDS Integers, Sequences, FiniteSets, FiniteSetsExt

CONSTANTS Requests,
          Lines, NoLine,  \* ids of line items
          Decisions,      \* those of approved, rejected, changes_requested taken
          MaxQuantity,    \* bound on the quantity of a line
          MaxReviews      \* bound on reviews ever created

ASSUME BoundsAssumption == MaxQuantity \in Nat \ {0} /\ MaxReviews \in Nat
ASSUME LineAssumption == NoLine \notin Lines
ASSUME DecisionAssumption == Decisions \subseteq {"approved", "rejected", "changes_requested"}
ASSUME RequestsAssumption == IsFiniteSet(Requests)

VARIABLES quantity,   \* quantity of each line, Gone if it is not there
          boq,        \* the BOQ document
          reviews,    \* its ReviewWorkflow documents, in order of creation
          req,        \* requests under way
          misled,     \* history: the total was stored from an old read, or not stored
          follows     \* history: the review the BOQ has its status from, 0 if it is
                      \* its own, Astray if it was stored from an old read, or not stored

vars == <<quantity, boq, reviews, req, misled, follows>>

Gone == 0
Astray == -1

SumOf(quantities) == MapThenSumSet(LAMBDA l : quantities[l], Lines)
Sum == SumOf(quantity)

\* A total: the set of its value, empty where the document has no such field.
NoTotal == {}
Totals == {{SumOf(q)} : q \in [Lines -> Gone..MaxQuantity]} \union {NoTotal}

Status == {"draft", "submitted", "under_review"} \union Decisions

Boq == [status : Status, total : Totals]
Review == [status : Status, active : BOOLEAN]

\* op and at: what the request does, and what comes next.  line: the line it
\* is about; id, next, active: the review, the status to give and isActive as
\* read; total: as read or computed.  History: behind, what its total rests on
\* has been stored since; overtaken, a status has been stored since it began.
Idle == [op |-> "none", at |-> "idle", line |-> NoLine, id |-> 0, next |-> "draft",
         active |-> FALSE, total |-> NoTotal, behind |-> FALSE, overtaken |-> FALSE]
Call == [op : {"none", "add", "change", "remove", "total", "edit", "quote",
               "submit", "start", "decide", "assign"},
         at : {"idle", "creating", "adding", "finding", "writing", "summing", "totalling",
               "opening", "reading", "saving", "reviewing", "reassigning"},
         line : Lines \union {NoLine}, id : 0..MaxReviews, next : Status,
         active : BOOLEAN, total : Totals, behind : BOOLEAN, overtaken : BOOLEAN]

TypeOK ==
    /\ quantity \in [Lines -> Gone..MaxQuantity]
    /\ boq \in Boq
    /\ reviews \in Seq(Review) /\ Len(reviews) <= MaxReviews
    /\ req \in [Requests -> Call]
    /\ misled \in BOOLEAN /\ follows \in Astray..Len(reviews)

\* A BOQ made from the items of an RFQ has their total, an empty one has none.
Init ==
    /\ quantity \in [Lines -> Gone..MaxQuantity]
    /\ boq = [status |-> "draft", total |-> IF Sum = 0 THEN NoTotal ELSE {Sum}]
    /\ reviews = <<>>
    /\ req = [r \in Requests |-> Idle]
    /\ misled = FALSE /\ follows = 0

-----------------------------------------------------------------------------
At(r, stage) == req[r].at = stage

Begun(op, stage) == [Idle EXCEPT !.op = op, !.at = stage]

\* r goes on as call; what it stored ("lines", "total", "status") others have
\* read before.
Go(r, call, stored) ==
    req' = [o \in Requests |->
              IF o = r THEN call
              ELSE IF req[o] = Idle THEN Idle
              ELSE [req[o] EXCEPT
                      !.behind = @ \/ ("lines" \in stored /\ At(o, "totalling"))
                                   \/ ("total" \in stored /\ At(o, "saving")),
                      !.overtaken = @ \/ "status" \in stored]]

\* What a save leaves in a field that may have been absent when it was read.
Kept(read, stored) == IF read = NoTotal THEN stored ELSE read

-----------------------------------------------------------------------------
(* The lines and the total.                                                *)

\* A bug: a line is removed from a BOQ whatever its status.
BeginLinesUnchecked(r) ==
    /\ At(r, "idle")
    /\ \/ boq.status # "approved" /\ Go(r, Begun("add", "creating"), {})
       \/ \E l \in Lines, op \in {"change", "remove"} :
              /\ op = "change" => boq.status # "approved"
              /\ Go(r, [Begun(op, "finding") EXCEPT !.line = l], {})
    /\ UNCHANGED <<quantity, boq, reviews, misled, follows>>

BeginLines(r) ==
    /\ At(r, "idle")
    /\ boq.status # "approved"
    /\ \/ Go(r, Begun("add", "creating"), {})
       \/ \E l \in Lines, op \in {"change", "remove"} :
              Go(r, [Begun(op, "finding") EXCEPT !.line = l], {})
    /\ UNCHANGED <<quantity, boq, reviews, misled, follows>>

\* The lines are stored.
Totalling(r) == [Begun("total", "summing") EXCEPT !.overtaken = req[r].overtaken]

\* addLineItem creates one line, addLineItemsBulk up to two here.
CreateLine(r) ==
    /\ req[r].at \in {"creating", "adding"}
    /\ \E l \in Lines, q \in 1..MaxQuantity :
          /\ quantity[l] = Gone
          /\ quantity' = [quantity EXCEPT ![l] = q]
    /\ \/ At(r, "creating") /\ Go(r, [req[r] EXCEPT !.at = "adding"], {"lines"})
       \/ Go(r, Totalling(r), {"lines"})
    /\ UNCHANGED <<boq, reviews, misled, follows>>

FindLine(r) ==
    /\ At(r, "finding")
    /\ Go(r, IF quantity[req[r].line] = Gone THEN Idle ELSE [req[r] EXCEPT !.at = "writing"], {})
    /\ UNCHANGED <<quantity, boq, reviews, misled, follows>>

\* A bug: the total is not computed again after a line is removed.
WriteLineOnly(r) ==
    /\ At(r, "writing")
    /\ \E q \in IF req[r].op = "remove" THEN {Gone} ELSE 1..MaxQuantity :
          quantity' = [quantity EXCEPT ![req[r].line] = q]
    /\ Go(r, IF req[r].op = "remove" THEN Idle ELSE Totalling(r), {"lines"})
    /\ UNCHANGED <<boq, reviews, misled, follows>>

\* save creates a line that has been removed meanwhile.
WriteLine(r) ==
    /\ At(r, "writing")
    /\ \E q \in IF req[r].op = "remove" THEN {Gone} ELSE 1..MaxQuantity :
          quantity' = [quantity EXCEPT ![req[r].line] = q]
    /\ Go(r, Totalling(r), {"lines"})
    /\ UNCHANGED <<boq, reviews, misled, follows>>

\* recalculateTotals aggregates the lines, then sets the totals.
SumLines(r) ==
    /\ At(r, "summing")
    /\ Go(r, [req[r] EXCEPT !.at = "totalling", !.total = {Sum}], {})
    /\ UNCHANGED <<quantity, boq, reviews, misled, follows>>

\* A bug: $inc where $set is meant.
AddToTotal(r) ==
    /\ At(r, "totalling")
    /\ boq' = [boq EXCEPT !.total = {a + b : a \in Kept(@, {0}), b \in req[r].total}]
    /\ Go(r, Idle, IF boq'.total = boq.total THEN {} ELSE {"total"})
    /\ misled' = req[r].behind
    /\ UNCHANGED <<quantity, reviews, follows>>

SetTotal(r) ==
    /\ At(r, "totalling")
    /\ boq' = [boq EXCEPT !.total = req[r].total]
    /\ Go(r, Idle, IF boq'.total = boq.total THEN {} ELSE {"total"})
    /\ misled' = req[r].behind
    /\ UNCHANGED <<quantity, reviews, follows>>

-----------------------------------------------------------------------------
(* The BOQ saved whole.                                                    *)

\* update, linkToDrawing.
BeginEdit(r) ==
    /\ At(r, "idle")
    /\ boq.status # "approved"
    /\ Go(r, [Begun("edit", "saving") EXCEPT !.next = boq.status, !.total = boq.total], {})
    /\ UNCHANGED <<quantity, boq, reviews, misled, follows>>

\* submitForQuotation reads the BOQ, whatever its status, and saves it after
\* the suppliers have been told.
BeginQuote(r) ==
    /\ At(r, "idle")
    /\ Go(r, [Begun("quote", "saving") EXCEPT !.next = "submitted", !.total = boq.total], {})
    /\ UNCHANGED <<quantity, boq, reviews, misled, follows>>

\* updateStatus reads the BOQ, then saves it.
ReadBoq(r) ==
    /\ At(r, "reading")
    /\ Go(r, [req[r] EXCEPT !.at = "saving", !.total = boq.total], {})
    /\ UNCHANGED <<quantity, boq, reviews, misled, follows>>

SaveBoq(r) ==
    /\ At(r, "saving")
    /\ boq' = [status |-> req[r].next, total |-> Kept(req[r].total, boq.total)]
    /\ Go(r, IF req[r].op = "assign" THEN [req[r] EXCEPT !.at = "reviewing", !.total = NoTotal,
                                                         !.behind = FALSE]
             ELSE Idle,
          (IF boq'.total # boq.total THEN {"total"} ELSE {}) \union
          (IF req[r].op = "edit" /\ boq'.status = boq.status THEN {} ELSE {"status"}))
    /\ misled' = (misled \/ (req[r].behind /\ req[r].total # NoTotal))
    /\ follows' = IF req[r].op = "assign" THEN follows
                  ELSE IF req[r].overtaken THEN Astray
                  ELSE IF req[r].op = "edit" THEN follows ELSE req[r].id
    /\ UNCHANGED <<quantity, reviews>>

-----------------------------------------------------------------------------
(* Reviews.                                                                *)

\* submitForReview: whatever the status; every active review is set aside.
BeginSubmit(r) ==
    /\ At(r, "idle")
    /\ Len(reviews) + Cardinality({o \in Requests : At(o, "opening")}) < MaxReviews
    /\ reviews' = [n \in DOMAIN reviews |-> [reviews[n] EXCEPT !.active = FALSE]]
    /\ Go(r, [Begun("submit", "opening") EXCEPT !.next = "submitted"], {"status"})
    /\ UNCHANGED <<quantity, boq, misled, follows>>

CreateReview(r) ==
    /\ At(r, "opening")
    /\ reviews' = Append(reviews, [status |-> "submitted", active |-> TRUE])
    /\ Go(r, [req[r] EXCEPT !.at = "reading", !.id = Len(reviews')], {"status"})
    /\ UNCHANGED <<quantity, boq, misled, follows>>

Reviewing(op, stage, n, next) ==
    [Begun(op, stage) EXCEPT !.id = n, !.next = next, !.active = reviews[n].active]

BeginStart(r) ==
    /\ At(r, "idle")
    /\ \E n \in DOMAIN reviews :
          /\ reviews[n].status = "submitted"
          /\ Go(r, Reviewing("start", "reviewing", n, "under_review"), {})
    /\ UNCHANGED <<quantity, boq, reviews, misled, follows>>

\* A bug: what has been rejected may be decided on again.
BeginDecideAgain(r) ==
    /\ At(r, "idle")
    /\ \E n \in DOMAIN reviews, next \in Decisions :
          /\ reviews[n].status \in {"under_review", "rejected"}
          /\ Go(r, Reviewing("decide", "reviewing", n, next), {})
    /\ UNCHANGED <<quantity, boq, reviews, misled, follows>>

\* approve, reject, requestChanges.
BeginDecide(r) ==
    /\ At(r, "idle")
    /\ \E n \in DOMAIN reviews, next \in Decisions :
          /\ reviews[n].status = "under_review"
          /\ Go(r, Reviewing("decide", "reviewing", n, next), {})
    /\ UNCHANGED <<quantity, boq, reviews, misled, follows>>

\* A bug: the BOQ is not told that a review has started.
BeginAssignSilently(r) ==
    /\ At(r, "idle")
    /\ \E n \in DOMAIN reviews :
          /\ reviews[n].status \in {"submitted", "under_review"}
          /\ Go(r, Reviewing("assign", "reassigning", n, "under_review"), {})
    /\ UNCHANGED <<quantity, boq, reviews, misled, follows>>

\* assignReviewer tells the BOQ first, and only if the review was submitted.
BeginAssign(r) ==
    /\ At(r, "idle")
    /\ \E n \in DOMAIN reviews :
          \/ /\ reviews[n].status = "submitted"
             /\ Go(r, Reviewing("assign", "reading", n, "under_review"), {})
          \/ /\ reviews[n].status = "under_review"
             /\ Go(r, Reviewing("assign", "reassigning", n, "under_review"), {})
    /\ UNCHANGED <<quantity, boq, reviews, misled, follows>>

SaveReview(r) ==
    /\ req[r].at \in {"reviewing", "reassigning"}
    /\ reviews' = [reviews EXCEPT ![req[r].id] = [status |-> req[r].next, active |-> req[r].active]]
    /\ Go(r, IF req[r].op = "assign" THEN Idle
             ELSE [req[r] EXCEPT !.at = "reading", !.active = FALSE], {"status"})
    /\ follows' = IF req[r].op # "assign" THEN follows
                  ELSE IF req[r].overtaken THEN Astray
                  ELSE IF At(r, "reassigning") THEN follows ELSE req[r].id
    /\ UNCHANGED <<quantity, boq, misled>>

-----------------------------------------------------------------------------
\* The lines are stored and the total is not; one of a review and its BOQ is.
Owing(r) == req[r].at \in {"adding", "summing", "totalling"}
Torn(r) == \/ req[r].op \in {"submit", "start", "decide"} /\ req[r].at \in {"reading", "saving"}
           \/ req[r].op = "assign" /\ At(r, "reviewing")

\* An exception, a lost connection, a crash.
Lose(r) ==
    /\ ~At(r, "idle")
    /\ Go(r, Idle, {})
    /\ misled' = (misled \/ Owing(r))
    /\ follows' = IF Torn(r) THEN Astray ELSE follows
    /\ UNCHANGED <<quantity, boq, reviews>>

Next ==
    \E r \in Requests :
       \/ BeginLines(r) \/ CreateLine(r) \/ FindLine(r) \/ WriteLine(r)
       \/ SumLines(r) \/ SetTotal(r)
       \/ BeginEdit(r) \/ BeginQuote(r) \/ ReadBoq(r) \/ SaveBoq(r)
       \/ BeginSubmit(r) \/ CreateReview(r) \/ BeginStart(r) \/ BeginDecide(r)
       \/ BeginAssign(r) \/ SaveReview(r) \/ Lose(r)

Spec == Init /\ [][Next]_vars

-----------------------------------------------------------------------------
(* Properties.                                                             *)

\* Once no request has lines stored that it has not yet totalled, the total is
\* the sum of the lines, unless the total was last stored from a read that
\* others had made old (two recalculations, or a save of the whole BOQ across
\* one), or a request died before it stored it.
TotalIsSum ==
    ~misled /\ (\A r \in Requests : ~Owing(r)) => Kept(boq.total, {0}) = {Sum}

\* Once no request is between a review and its BOQ, the BOQ has the status of
\* the review moved last (or, where none was since, that of a draft or of a
\* quotation), unless a request that another overtook ended last, or one died
\* in between.
StatusAgrees ==
    follows # Astray /\ (\A r \in Requests : ~Torn(r)) =>
        IF follows = 0 THEN boq.status \in {"draft", "submitted"}
        ELSE boq.status = reviews[follows].status

Stepped(r) == req'[r].at # req[r].at

\* "Cannot modify approved BOQ": the lines and the total of an approved BOQ,
\* and its status, are changed by no edit but one that had made its check
\* before a status was last stored.
ApprovedIsFrozen ==
    [][boq.status = "approved" /\ <<quantity, boq>>' # <<quantity, boq>> =>
         \A r \in Requests :
            Stepped(r) /\ req[r].op \in {"add", "change", "remove", "total", "edit"}
              => req[r].overtaken]_vars

\* A decision on a review is final, and a review that a later submission set
\* aside stays so, but for a save by a request that another overtook.
DecisionsStand ==
    [][\A n \in DOMAIN reviews :
         \/ reviews[n].status \in Decisions /\ reviews'[n].status # reviews[n].status
         \/ ~reviews[n].active /\ reviews'[n].active
         => \E r \in Requests : Stepped(r) /\ req[r].overtaken]_vars

=============================================================================
