----------------------------- MODULE StockTake -----------------------------
(***************************************************************************)
(* Stock takes: a session is created, a snapshot of the expected           *)
(* quantities is captured as one line per product, the lines are counted,  *)
(* and the session is submitted, approved or rejected, and posted.         *)
(*                                                                         *)
(*   StockTakeService      createSession, captureSnapshot, recordCount,    *)
(*                         submitForApproval, approve, reject, post        *)
(*   StockTakeCronService  monthlySnapshot                                 *)
(*                                                                         *)
(* captureSnapshot is a transaction that reads the session document inside *)
(* it: one step.  Every other request reads the session or the line, checks*)
(* its status, and later saves the whole document it read, so it may put   *)
(* an older status back; a date set in between survives, since the copy    *)
(* has no such field to store.                                             *)
(***************************************************************************)
EXTENDS Integers, Sequences, FiniteSets

CONSTANTS
    Products,
    MaxOnHand,      \* bound on the quantity of a product, and on a count
    Workers,        \* concurrent requests
    EarlierTakes,   \* whether the company has sessions older than those modelled
    MaxTakes,       \* bound on sessions ever created
    MaxLines        \* bound on lines ever created

ASSUME BoundsAssumption == MaxOnHand \in Nat /\ MaxTakes \in Nat /\ MaxLines \in Nat
ASSUME EarlierAssumption == EarlierTakes \in BOOLEAN
ASSUME ProductsAssumption == IsFiniteSet(Products)

VARIABLES
    onHand,     \* IssuableProduct.quantity
    takes,      \* StockTake documents, by id
    lines,      \* StockTakeLine documents, by id
    request     \* local state of each worker's request

vars == <<onHand, takes, lines, request>>

Status == {"draft", "counting", "pending_approval", "approved", "rejected", "posted"}

\* monthly: periodLabel is the month of the cron job.  snapshot, submitted
\* and approved say whether snapshotAt, submittedAt and approvedAt are set.
Take == [status : Status, monthly : BOOLEAN, snapshot : BOOLEAN, submitted : BOOLEAN,
         approved : BOOLEAN]

Quantity == 0..MaxOnHand

NotCounted == -1

Line == [take : 1..MaxTakes, product : Products, expected : Quantity,
         counted : Quantity \cup {NotCounted},
         variance : (-MaxOnHand)..MaxOnHand]

Idle == [kind |-> "idle"]

Request == [kind : {"submit", "submitting", "approve", "reject", "post"}, id : Nat, copy : Take]
             \cup [kind : {"count"}, id : Nat, copy : Line, expected : Quantity]
             \cup [kind : {"create"}] \cup [kind : {"capture"}, id : Nat]
             \cup {Idle}

Init ==
    /\ onHand \in [Products -> Quantity]
    /\ takes = << >>
    /\ lines = << >>
    /\ request = [w \in Workers |-> Idle]

----------------------------------------------------------------------------

Finish(w) == request' = [request EXCEPT ![w] = Idle]

\* What $set of a copy leaves: a date the copy does not have stays as stored.
Kept(copy, stored) ==
    [copy EXCEPT !.snapshot = @ \/ stored.snapshot, !.submitted = @ \/ stored.submitted,
                 !.approved = @ \/ stored.approved]

\* stockTakeRepo.save of the copy a request holds.
SaveTake(w, take) ==
    /\ takes' = [takes EXCEPT ![request[w].id] = Kept(take, @)]
    /\ Finish(w)
    /\ UNCHANGED <<onHand, lines>>

LinesOf(id) == {l \in DOMAIN lines : lines[l].take = id}

\* Issues and receipts go on during a stock take.
Trade ==
    /\ \E p \in Products, n \in Quantity : onHand' = [onHand EXCEPT ![p] = n]
    /\ UNCHANGED <<takes, lines, request>>

NewTake(monthly) ==
    /\ Len(takes) < MaxTakes
    /\ takes' = Append(takes, [status |-> "draft", monthly |-> monthly, snapshot |-> FALSE,
                               submitted |-> FALSE, approved |-> FALSE])

CreateSession ==
    /\ \E monthly \in BOOLEAN : NewTake(monthly)
    /\ UNCHANGED <<onHand, lines, request>>

\* One line per product, in whatever order saveMany gives them ids.
SnapshotLines(id, order) ==
    [k \in 1..Cardinality(Products) |->
        [take |-> id, product |-> order[k], expected |-> onHand[order[k]],
         counted |-> NotCounted, variance |-> 0]]

Orders == {order \in [1..Cardinality(Products) -> Products] :
             \A p \in Products : \E k \in DOMAIN order : order[k] = p}

\* Variant of Capture: an earlier snapshot is not noticed.
CaptureAgain(id) ==
    /\ Len(lines) + Cardinality(Products) <= MaxLines
    /\ takes' = [takes EXCEPT ![id].snapshot = TRUE, ![id].status = "counting"]
    /\ \E order \in Orders : lines' = lines \o SnapshotLines(id, order)

\* captureSnapshot looks at snapshotAt only, not at the status.
Capture(id) ==
    /\ ~takes[id].snapshot
    /\ Len(lines) + Cardinality(Products) <= MaxLines
    /\ takes' = [takes EXCEPT ![id].snapshot = TRUE, ![id].status = "counting"]
    /\ \E order \in Orders : lines' = lines \o SnapshotLines(id, order)

CaptureSnapshot ==
    /\ \E id \in DOMAIN takes : Capture(id)
    /\ UNCHANGED <<onHand, request>>

----------------------------------------------------------------------------
(* recordCount.                                                            *)

Open(take) == take.status \in {"counting", "draft"}

CountRead(w) ==
    /\ request[w] = Idle
    /\ \E l \in DOMAIN lines :
           /\ Open(takes[lines[l].take])
           /\ \A k \in LinesOf(lines[l].take) : lines[k].product = lines[l].product => l <= k
           /\ request' = [request EXCEPT ![w] =
                            [kind |-> "count", id |-> l, copy |-> lines[l],
                             expected |-> onHand[lines[l].product]]]
    /\ UNCHANGED <<onHand, takes, lines>>

\* Variant of Variance: the sign is lost.
Unsubtracted(counted, expected) == counted + expected

Variance(counted, expected) == counted - expected

\* The variance is against the quantity read, not against the snapshot.
Count(w) ==
    /\ request[w].kind = "count"
    /\ \E counted \in Quantity :
           lines' = [lines EXCEPT ![request[w].id] =
                       [request[w].copy EXCEPT
                          !.counted = counted,
                          !.variance = Variance(counted, request[w].expected)]]
    /\ Finish(w)
    /\ UNCHANGED <<onHand, takes>>

----------------------------------------------------------------------------
(* submitForApproval, approve, reject, post.                               *)

ReadTake(w, kind, id) ==
    /\ request[w] = Idle
    /\ request' = [request EXCEPT ![w] = [kind |-> kind, id |-> id, copy |-> takes[id]]]
    /\ UNCHANGED <<onHand, takes, lines>>

SubmitRead(w) ==
    \E id \in DOMAIN takes : Open(takes[id]) /\ ReadTake(w, "submit", id)

\* lines.some(async ...): the callback returns a promise, which is truthy, so
\* a photo is found missing as soon as there is a line.
PhotoMissing(id) == LinesOf(id) # {}

SubmitCheck(w) ==
    /\ request[w].kind = "submit"
    /\ IF PhotoMissing(request[w].id) THEN Finish(w)
       ELSE request' = [request EXCEPT ![w].kind = "submitting"]
    /\ UNCHANGED <<onHand, takes, lines>>

Submit(w) ==
    /\ request[w].kind = "submitting"
    /\ SaveTake(w, [request[w].copy EXCEPT !.status = "pending_approval", !.submitted = TRUE])

\* Variant of ApproveRead: the status is not looked at.
ApproveReadAny(w) ==
    \E id \in DOMAIN takes : ReadTake(w, "approve", id)

ApproveRead(w) ==
    \E id \in DOMAIN takes :
        takes[id].status = "pending_approval" /\ ReadTake(w, "approve", id)

Approve(w) ==
    /\ request[w].kind = "approve"
    /\ SaveTake(w, [request[w].copy EXCEPT !.status = "approved", !.approved = TRUE])

\* reject looks at no status at all.
RejectRead(w) == \E id \in DOMAIN takes : ReadTake(w, "reject", id)

Reject(w) ==
    /\ request[w].kind = "reject"
    /\ SaveTake(w, [request[w].copy EXCEPT !.status = "rejected"])

PostRead(w) ==
    \E id \in DOMAIN takes : takes[id].status = "approved" /\ ReadTake(w, "post", id)

\* The valuation is stored on the session; no product is written.
Post(w) ==
    /\ request[w].kind = "post"
    /\ SaveTake(w, [request[w].copy EXCEPT !.status = "posted"])

----------------------------------------------------------------------------
(* monthlySnapshot, for one company: one that has a session already.       *)

CronRead(w) ==
    /\ request[w] = Idle
    /\ EarlierTakes \/ takes # << >>
    /\ LET drafts == {id \in DOMAIN takes : takes[id].status = "draft" /\ takes[id].monthly}
       IN  IF drafts = {}
             THEN request' = [request EXCEPT ![w] = [kind |-> "create"]]
             ELSE \E id \in drafts :
                    request' = [request EXCEPT ![w] = [kind |-> "capture", id |-> id]]
    /\ UNCHANGED <<onHand, takes, lines>>

CronCreate(w) ==
    /\ request[w].kind = "create"
    /\ NewTake(TRUE)
    /\ request' = [request EXCEPT ![w] = [kind |-> "capture", id |-> Len(takes) + 1]]
    /\ UNCHANGED <<onHand, lines>>

CronCapture(w) ==
    /\ request[w].kind = "capture"
    /\ Capture(request[w].id)
    /\ Finish(w)
    /\ UNCHANGED onHand

\* An exception, a lost connection, a crash.
Lose(w) ==
    /\ request[w] # Idle
    /\ Finish(w)
    /\ UNCHANGED <<onHand, takes, lines>>

----------------------------------------------------------------------------

RequestStep(w) ==
    \/ CountRead(w)
    \/ Count(w)
    \/ SubmitRead(w)
    \/ SubmitCheck(w)
    \/ Submit(w)
    \/ ApproveRead(w)
    \/ Approve(w)
    \/ RejectRead(w)
    \/ Reject(w)
    \/ PostRead(w)
    \/ Post(w)
    \/ CronRead(w)
    \/ CronCreate(w)
    \/ CronCapture(w)
    \/ Lose(w)

Next ==
    \/ Trade
    \/ CreateSession
    \/ CaptureSnapshot
    \/ \E w \in Workers : RequestStep(w)

Spec == Init /\ [][Next]_vars

----------------------------------------------------------------------------
(* Properties.                                                             *)

TypeOK ==
    /\ onHand \in [Products -> Quantity]
    /\ takes \in Seq(Take) /\ Len(takes) <= MaxTakes
    /\ lines \in Seq(Line) /\ Len(lines) <= MaxLines
    /\ request \in [Workers -> Request]

\* Whoever overlaps with whom, and whatever stale copy is saved last, a
\* session is never found approved without having been submitted, nor posted
\* without having been approved.
StagesInOrder ==
    \A id \in DOMAIN takes :
        /\ takes[id].status = "pending_approval" => takes[id].submitted
        /\ takes[id].status \in {"approved", "posted"} =>
             takes[id].submitted /\ takes[id].approved

\* A session is captured once ("already has a snapshot"), so that a product
\* has one line in it: two requests, two runs of the cron job, or one run
\* retried after it was lost, even if the session is reopened by a rejection
\* or a request saves what it read before the capture.
OneLinePerProduct ==
    \A l, k \in DOMAIN lines :
        lines[l].take = lines[k].take /\ lines[l].product = lines[k].product => l = k

=============================================================================
