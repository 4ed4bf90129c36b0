-------------------------- MODULE StockTakeProofs --------------------------
(* For every value of the constants of StockTake: its sessions, lines and  *)
(* requests are well typed, a session goes through its stages in order,    *)
(* and no product has two lines in a session.                              *)
EXTENDS StockTake, TLAPS, FiniteSetTheorems, SequenceTheorems

----------------------------------------------------------------------------
(* The inductive invariant.  A save stores a copy that was read earlier, so *)
(* the properties of what is stored rest on those of the copies held.       *)

TakeKinds == {"submit", "submitting", "approve", "reject", "post"}

InOrder(take) ==
    /\ take.status = "pending_approval" => take.submitted
    /\ take.status \in {"approved", "posted"} => take.submitted /\ take.approved

\* A request is about a session or a line that is there, and has read it in
\* the stage it takes it from.
Aimed(r, ts, ls) ==
    /\ r.kind \in TakeKinds \cup {"capture"} => r.id \in DOMAIN ts
    /\ r.kind = "approve" => r.copy.submitted
    /\ r.kind = "post" => r.copy.submitted /\ r.copy.approved
    /\ r.kind = "count" => /\ r.id \in DOMAIN ls
                           /\ r.copy.take = ls[r.id].take
                           /\ r.copy.product = ls[r.id].product

RequestsAimed == \A w \in Workers : Aimed(request[w], takes, lines)

\* A session that has lines knows that it was captured, whatever is saved
\* over it: the copy saved may lack snapshotAt but cannot remove it.
LinesCaptured ==
    \A l \in DOMAIN lines :
        lines[l].take \in DOMAIN takes /\ takes[lines[l].take].snapshot

IInv == /\ TypeOK
        /\ RequestsAimed
        /\ StagesInOrder
        /\ LinesCaptured
        /\ OneLinePerProduct

----------------------------------------------------------------------------
(* What a request holds, by its kind.                                      *)

LEMMA TakeRequest ==
    ASSUME NEW r \in Request, r.kind \in TakeKinds
    PROVE  r \in [kind : TakeKinds, id : Nat, copy : Take]
  BY DEF Request, Idle, TakeKinds

LEMMA CountRequest ==
    ASSUME NEW r \in Request, r.kind = "count"
    PROVE  r \in [kind : {"count"}, id : Nat, copy : Line, expected : Quantity]
  BY DEF Request, Idle

LEMMA IdleIsAimed ==
    /\ Idle \in Request
    /\ \A ts, ls : Aimed(Idle, ts, ls)
  BY DEF Idle, Request, Aimed, TakeKinds

\* Sessions and lines only grow in number, and a line stays with its session
\* and its product: what a request is about is still there.
LEMMA StillAimed ==
    ASSUME NEW r, NEW ts, NEW newTs, NEW ls, NEW newLs, Aimed(r, ts, ls),
           DOMAIN ts \subseteq DOMAIN newTs, DOMAIN ls \subseteq DOMAIN newLs,
           \A l \in DOMAIN ls : newLs[l].take = ls[l].take /\ newLs[l].product = ls[l].product
    PROVE  Aimed(r, newTs, newLs)
  BY DEF Aimed

\* A step that changes the request of one worker, at most.
LEMMA RequestsStillAimed ==
    ASSUME IInv, NEW w \in Workers, NEW r \in Request,
           request' = [request EXCEPT ![w] = r], Aimed(r, takes', lines'),
           DOMAIN takes \subseteq DOMAIN takes', DOMAIN lines \subseteq DOMAIN lines',
           \A l \in DOMAIN lines :
              lines'[l].take = lines[l].take /\ lines'[l].product = lines[l].product
    PROVE  request' \in [Workers -> Request] /\ RequestsAimed'
  <1>1. request \in [Workers -> Request]
    BY DEF IInv, TypeOK
  <1>2. ASSUME NEW o \in Workers \ {w} PROVE Aimed(request'[o], takes', lines')
    <2>1. request'[o] = request[o] /\ Aimed(request[o], takes, lines)
      BY <1>1 DEF IInv, RequestsAimed
    <2> QED
      BY <2>1, StillAimed
  <1>3. request'[w] = r
    BY <1>1
  <1> QED
    BY <1>1, <1>2, <1>3 DEF RequestsAimed

LEMMA FunctionIsSeq ==
    ASSUME NEW S, NEW n \in Nat, NEW f \in [1..n -> S]
    PROVE  f \in Seq(S) /\ Len(f) = n
  <1>1. f \in Seq(S)
    BY SeqDef
  <1>2. Len(f) \in Nat /\ 1..Len(f) = 1..n
    BY <1>1, LenProperties
  <1> QED
    BY <1>1, <1>2

----------------------------------------------------------------------------
(* Steps that only read, or end a request.                                 *)

LEMMA OnlyRequest ==
    ASSUME IInv, UNCHANGED <<takes, lines>>, onHand' \in [Products -> Quantity],
           request' \in [Workers -> Request], RequestsAimed'
    PROVE  IInv'
  BY DEF IInv, TypeOK, StagesInOrder, LinesCaptured, OneLinePerProduct

LEMMA RequestRead ==
    ASSUME IInv, NEW w \in Workers, NEW r \in Request,
           request' = [request EXCEPT ![w] = r], Aimed(r, takes, lines),
           UNCHANGED <<onHand, takes, lines>>
    PROVE  IInv'
  <1>1. request' \in [Workers -> Request] /\ RequestsAimed'
    BY RequestsStillAimed
  <1> QED
    BY <1>1, OnlyRequest DEF IInv, TypeOK

LEMMA TakeRead ==
    ASSUME IInv, NEW w \in Workers, NEW kind \in TakeKinds, NEW id \in DOMAIN takes,
           ReadTake(w, kind, id),
           kind = "approve" => takes[id].submitted,
           kind = "post" => takes[id].submitted /\ takes[id].approved
    PROVE  IInv'
  <1> DEFINE r == [kind |-> kind, id |-> id, copy |-> takes[id]]
  <1>1. id \in Nat /\ takes[id] \in Take
    BY DEF IInv, TypeOK
  <1>2. r \in Request
    BY <1>1 DEF Request, TakeKinds
  <1>3. Aimed(r, takes, lines)
    BY DEF Aimed, TakeKinds
  <1>4. request' = [request EXCEPT ![w] = r] /\ UNCHANGED <<onHand, takes, lines>>
    BY DEF ReadTake
  <1> HIDE DEF r
  <1> QED
    BY <1>2, <1>3, <1>4, RequestRead

LEMMA StageRead ==
    ASSUME IInv, NEW w \in Workers,
           SubmitRead(w) \/ ApproveRead(w) \/ RejectRead(w) \/ PostRead(w)
    PROVE  IInv'
  <1>1. \A id \in DOMAIN takes : InOrder(takes[id])
    BY DEF IInv, StagesInOrder, InOrder
  <1>2. CASE SubmitRead(w)
    BY <1>2, TakeRead DEF SubmitRead, TakeKinds
  <1>3. CASE ApproveRead(w)
    BY <1>1, <1>3, TakeRead DEF ApproveRead, TakeKinds, InOrder
  <1>4. CASE RejectRead(w)
    BY <1>4, TakeRead DEF RejectRead, TakeKinds
  <1>5. CASE PostRead(w)
    BY <1>1, <1>5, TakeRead DEF PostRead, TakeKinds, InOrder
  <1> QED
    BY <1>2, <1>3, <1>4, <1>5

LEMMA LineRead ==
    ASSUME IInv, NEW w \in Workers, CountRead(w)
    PROVE  IInv'
  <1> PICK l \in DOMAIN lines :
         request' = [request EXCEPT ![w] = [kind |-> "count", id |-> l, copy |-> lines[l],
                                            expected |-> onHand[lines[l].product]]]
    BY DEF CountRead
  <1> DEFINE r == [kind |-> "count", id |-> l, copy |-> lines[l],
                   expected |-> onHand[lines[l].product]]
  <1>1. l \in Nat /\ lines[l] \in Line /\ onHand[lines[l].product] \in Quantity
    <2>1. l \in Nat /\ lines[l] \in Line
      BY DEF IInv, TypeOK
    <2>2. lines[l].product \in Products
      BY <2>1 DEF Line
    <2> QED
      BY <2>1, <2>2 DEF IInv, TypeOK
  <1>2. r \in Request
    BY <1>1 DEF Request
  <1>3. Aimed(r, takes, lines)
    BY DEF Aimed, TakeKinds
  <1>4. UNCHANGED <<onHand, takes, lines>>
    BY DEF CountRead
  <1> HIDE DEF r
  <1>5. request' = [request EXCEPT ![w] = r]
    BY DEF r
  <1> QED
    BY <1>2, <1>3, <1>4, <1>5, RequestRead

LEMMA PhotosChecked ==
    ASSUME IInv, NEW w \in Workers, SubmitCheck(w)
    PROVE  IInv'
  <1> DEFINE r == [request[w] EXCEPT !.kind = "submitting"]
  <1>1. /\ request[w] \in [kind : TakeKinds, id : Nat, copy : Take]
        /\ request[w].id \in DOMAIN takes
    BY TakeRequest DEF SubmitCheck, IInv, TypeOK, RequestsAimed, Aimed, TakeKinds
  <1>2. /\ r \in Request /\ r.kind = "submitting" /\ r.id = request[w].id
    BY <1>1 DEF Request, TakeKinds
  <1>3. request' = [request EXCEPT ![w] = r] \/ request' = [request EXCEPT ![w] = Idle]
    BY DEF SubmitCheck, Finish
  <1> HIDE DEF r
  <1>4. Aimed(r, takes, lines)
    BY <1>1, <1>2 DEF Aimed
  <1> QED
    BY <1>2, <1>3, <1>4, IdleIsAimed, RequestRead DEF SubmitCheck

LEMMA CronRuns ==
    ASSUME IInv, NEW w \in Workers, CronRead(w)
    PROVE  IInv'
  <1>1. CASE request' = [request EXCEPT ![w] = [kind |-> "create"]]
    <2>1. [kind |-> "create"] \in Request /\ Aimed([kind |-> "create"], takes, lines)
      BY DEF Request, Aimed, TakeKinds
    <2> QED
      BY <1>1, <2>1, RequestRead DEF CronRead
  <1>2. CASE \E id \in DOMAIN takes :
                request' = [request EXCEPT ![w] = [kind |-> "capture", id |-> id]]
    <2> PICK id \in DOMAIN takes :
           request' = [request EXCEPT ![w] = [kind |-> "capture", id |-> id]]
      BY <1>2
    <2>1. id \in Nat
      BY DEF IInv, TypeOK
    <2>2. /\ [kind |-> "capture", id |-> id] \in Request
          /\ Aimed([kind |-> "capture", id |-> id], takes, lines)
      BY <2>1 DEF Request, Aimed, TakeKinds
    <2> QED
      BY <2>2, RequestRead DEF CronRead
  <1> QED
    BY <1>1, <1>2 DEF CronRead

LEMMA RequestLost ==
    ASSUME IInv, NEW w \in Workers, Lose(w)
    PROVE  IInv'
  BY IdleIsAimed, RequestRead DEF Lose, Finish

----------------------------------------------------------------------------
(* A session is saved.                                                     *)

\* A copy in order stays in order with the dates that were set meanwhile.
LEMMA KeptInOrder ==
    ASSUME NEW copy \in Take, NEW stored \in Take, InOrder(copy)
    PROVE  /\ Kept(copy, stored) \in Take /\ InOrder(Kept(copy, stored))
           /\ stored.snapshot => Kept(copy, stored).snapshot
  <1> DEFINE kept == Kept(copy, stored)
  <1>1. /\ copy.snapshot \in BOOLEAN /\ copy.submitted \in BOOLEAN /\ copy.approved \in BOOLEAN
        /\ stored.snapshot \in BOOLEAN /\ stored.submitted \in BOOLEAN
        /\ stored.approved \in BOOLEAN
    BY DEF Take
  <1>2. /\ kept \in Take /\ kept.status = copy.status
        /\ kept.snapshot = (copy.snapshot \/ stored.snapshot)
        /\ kept.submitted = (copy.submitted \/ stored.submitted)
        /\ kept.approved = (copy.approved \/ stored.approved)
    BY <1>1 DEF Kept, Take
  <1> HIDE DEF kept
  <1>3. InOrder(kept)
    BY <1>2 DEF InOrder
  <1> QED
    BY <1>2, <1>3 DEF kept

LEMMA TakeSaved ==
    ASSUME IInv, NEW w \in Workers, request[w].kind \in TakeKinds,
           NEW copy \in Take, InOrder(copy), SaveTake(w, copy)
    PROVE  IInv'
  <1> DEFINE id == request[w].id
             take == Kept(copy, takes[id])
  <1>1. takes \in Seq(Take) /\ id \in 1..Len(takes)
    BY DEF IInv, TypeOK, RequestsAimed, Aimed
  <1>2. /\ takes' = [takes EXCEPT ![id] = take]
        /\ request' = [request EXCEPT ![w] = Idle]
        /\ UNCHANGED <<onHand, lines>>
    BY <1>1 DEF SaveTake, Finish
  <1>3. take \in Take /\ InOrder(take) /\ (takes[id].snapshot => take.snapshot)
    BY <1>1, KeptInOrder
  <1> HIDE DEF id, take
  <1>4. /\ takes' \in Seq(Take) /\ Len(takes') = Len(takes)
        /\ takes'[id] = take
        /\ \A n \in 1..Len(takes) : n # id => takes'[n] = takes[n]
    BY <1>1, <1>2, <1>3, ExceptSeq
  <1>5. DOMAIN takes' = DOMAIN takes /\ DOMAIN takes = 1..Len(takes)
    BY <1>1, <1>4
  <1>6. request' \in [Workers -> Request] /\ RequestsAimed'
    BY <1>2, <1>5, IdleIsAimed, RequestsStillAimed
  <1>7. TypeOK'
    BY <1>2, <1>4, <1>6 DEF IInv, TypeOK
  <1>8. StagesInOrder'
    BY <1>3, <1>4, <1>5 DEF IInv, StagesInOrder, InOrder
  <1>9. LinesCaptured'
    BY <1>2, <1>3, <1>4, <1>5 DEF IInv, LinesCaptured
  <1>10. OneLinePerProduct'
    BY <1>2 DEF IInv, OneLinePerProduct
  <1> QED
    BY <1>6, <1>7, <1>8, <1>9, <1>10 DEF IInv

LEMMA StageSaved ==
    ASSUME IInv, NEW w \in Workers, Submit(w) \/ Approve(w) \/ Reject(w) \/ Post(w)
    PROVE  IInv'
  <1> DEFINE c == request[w].copy
             submitted == [c EXCEPT !.status = "pending_approval", !.submitted = TRUE]
             approved == [c EXCEPT !.status = "approved", !.approved = TRUE]
             rejected == [c EXCEPT !.status = "rejected"]
             posted == [c EXCEPT !.status = "posted"]
  <1>1. request[w] \in Request /\ Aimed(request[w], takes, lines)
    BY DEF IInv, TypeOK, RequestsAimed
  <1>2. request[w].kind \in TakeKinds
    BY DEF Submit, Approve, Reject, Post, TakeKinds
  <1>3. c \in Take
    BY <1>1, <1>2, TakeRequest
  <1>4. CASE Submit(w)
    <2>1. submitted \in Take /\ InOrder(submitted)
      BY <1>3 DEF Take, Status, InOrder
    <2> QED
      BY <1>2, <1>4, <2>1, TakeSaved DEF Submit
  <1>5. CASE Approve(w)
    <2>1. c.submitted
      BY <1>1, <1>5 DEF Approve, Aimed
    <2>2. approved \in Take /\ InOrder(approved)
      BY <1>3, <2>1 DEF Take, Status, InOrder
    <2> QED
      BY <1>2, <1>5, <2>2, TakeSaved DEF Approve
  <1>6. CASE Reject(w)
    <2>1. rejected \in Take /\ InOrder(rejected)
      BY <1>3 DEF Take, Status, InOrder
    <2> QED
      BY <1>2, <1>6, <2>1, TakeSaved DEF Reject
  <1>7. CASE Post(w)
    <2>1. c.submitted /\ c.approved
      BY <1>1, <1>7 DEF Post, Aimed
    <2>2. posted \in Take /\ InOrder(posted)
      BY <1>3, <2>1 DEF Take, Status, InOrder
    <2> QED
      BY <1>2, <1>7, <2>2, TakeSaved DEF Post
  <1> QED
    BY <1>4, <1>5, <1>6, <1>7

----------------------------------------------------------------------------
(* A line is counted.  The copy saved is of the line it was read from.     *)

LEMMA LineCounted ==
    ASSUME IInv, NEW w \in Workers, Count(w)
    PROVE  IInv'
  <1> DEFINE id == request[w].id
             c == request[w].copy
  <1>1. /\ request[w] \in [kind : {"count"}, id : Nat, copy : Line, expected : Quantity]
        /\ lines \in Seq(Line) /\ id \in 1..Len(lines)
        /\ c.take = lines[id].take /\ c.product = lines[id].product
    BY CountRequest DEF Count, IInv, TypeOK, RequestsAimed, Aimed
  <1> PICK counted \in Quantity :
         lines' = [lines EXCEPT ![id] =
                     [c EXCEPT !.counted = counted,
                               !.variance = Variance(counted, request[w].expected)]]
    BY DEF Count
  <1> DEFINE line == [c EXCEPT !.counted = counted,
                               !.variance = Variance(counted, request[w].expected)]
  <1>2. Variance(counted, request[w].expected) \in (-MaxOnHand)..MaxOnHand
    BY <1>1, BoundsAssumption DEF Variance, Quantity
  <1>3. line \in Line /\ line.take = lines[id].take /\ line.product = lines[id].product
    BY <1>1, <1>2 DEF Line
  <1>4. lines' = [lines EXCEPT ![id] = line]
    OBVIOUS
  <1>5. /\ request' = [request EXCEPT ![w] = Idle]
        /\ UNCHANGED <<onHand, takes>>
    BY DEF Count, Finish
  <1> HIDE DEF line, id
  <1>6. /\ lines' \in Seq(Line) /\ Len(lines') = Len(lines)
        /\ DOMAIN lines' = DOMAIN lines
        /\ \A l \in DOMAIN lines :
              lines'[l].take = lines[l].take /\ lines'[l].product = lines[l].product
    BY <1>1, <1>3, <1>4, ExceptSeq
  <1>7. request' \in [Workers -> Request] /\ RequestsAimed'
    BY <1>5, <1>6, IdleIsAimed, RequestsStillAimed
  <1>8. TypeOK'
    BY <1>5, <1>6, <1>7 DEF IInv, TypeOK
  <1>9. LinesCaptured' /\ OneLinePerProduct' /\ StagesInOrder'
    BY <1>5, <1>6 DEF IInv, LinesCaptured, OneLinePerProduct, StagesInOrder
  <1> QED
    BY <1>7, <1>8, <1>9 DEF IInv

----------------------------------------------------------------------------
(* A session is created, and captured.                                     *)

LEMMA SessionAdded ==
    ASSUME IInv, NEW monthly \in BOOLEAN, NewTake(monthly)
    PROVE  /\ takes' \in Seq(Take) /\ Len(takes') = Len(takes) + 1
           /\ Len(takes') <= MaxTakes /\ Len(takes) \in Nat
           /\ DOMAIN takes = 1..Len(takes) /\ DOMAIN takes' = 1..(Len(takes) + 1)
           /\ \A id \in DOMAIN takes : takes'[id] = takes[id]
           /\ takes'[Len(takes) + 1].status = "draft"
  <1> DEFINE take == [status |-> "draft", monthly |-> monthly, snapshot |-> FALSE,
                      submitted |-> FALSE, approved |-> FALSE]
  <1>1. take \in Take /\ take.status = "draft"
    BY DEF Take, Status
  <1>2. takes' = Append(takes, take) /\ Len(takes) < MaxTakes
    BY DEF NewTake
  <1>3. takes \in Seq(Take)
    BY DEF IInv, TypeOK
  <1> HIDE DEF take
  <1> QED
    BY <1>1, <1>2, <1>3, BoundsAssumption

LEMMA SessionKept ==
    ASSUME IInv, NEW monthly \in BOOLEAN, NewTake(monthly),
           request' \in [Workers -> Request], RequestsAimed',
           UNCHANGED <<onHand, lines>>
    PROVE  IInv'
  <1>1. TypeOK'
    BY SessionAdded DEF IInv, TypeOK
  <1>2. StagesInOrder'
    BY SessionAdded DEF IInv, StagesInOrder
  <1>3. LinesCaptured' /\ OneLinePerProduct'
    BY SessionAdded DEF IInv, LinesCaptured, OneLinePerProduct
  <1> QED
    BY <1>1, <1>2, <1>3 DEF IInv

LEMMA SessionCreated ==
    ASSUME IInv, CreateSession
    PROVE  IInv'
  <1> PICK monthly \in BOOLEAN : NewTake(monthly)
    BY DEF CreateSession
  <1>1. UNCHANGED <<onHand, lines, request>>
    BY DEF CreateSession
  <1>2. RequestsAimed'
    <2> SUFFICES ASSUME NEW w \in Workers PROVE Aimed(request[w], takes', lines)
      BY <1>1 DEF RequestsAimed
    <2>1. DOMAIN takes \subseteq DOMAIN takes'
      BY SessionAdded
    <2> QED
      BY <2>1, StillAimed DEF IInv, RequestsAimed
  <1> QED
    BY <1>1, <1>2, SessionKept DEF IInv, TypeOK

LEMMA CronCreated ==
    ASSUME IInv, NEW w \in Workers, CronCreate(w)
    PROVE  IInv'
  <1> DEFINE r == [kind |-> "capture", id |-> Len(takes) + 1]
  <1>1. /\ NewTake(TRUE) /\ UNCHANGED <<onHand, lines>>
        /\ request' = [request EXCEPT ![w] = r]
    BY DEF CronCreate
  <1>2. /\ DOMAIN takes \subseteq DOMAIN takes' /\ Len(takes) \in Nat
        /\ Len(takes) + 1 \in DOMAIN takes'
    <2>1. /\ DOMAIN takes = 1..Len(takes) /\ DOMAIN takes' = 1..(Len(takes) + 1)
          /\ Len(takes) \in Nat
      BY <1>1, SessionAdded
    <2> QED
      BY <2>1
  <1>3. r \in Request /\ Aimed(r, takes', lines')
    BY <1>2 DEF Request, Aimed, TakeKinds
  <1> HIDE DEF r
  <1>4. request' \in [Workers -> Request] /\ RequestsAimed'
    BY <1>1, <1>2, <1>3, RequestsStillAimed
  <1> QED
    BY <1>1, <1>4, SessionKept

\* As many lines as products, with every product among them: none twice.
LEMMA OrderRepeatsNothing ==
    ASSUME NEW order \in Orders, NEW k \in DOMAIN order, NEW j \in DOMAIN order,
           order[k] = order[j]
    PROVE  k = j
  <1> DEFINE n == Cardinality(Products)
  <1>1. n \in Nat
    BY ProductsAssumption, FS_CardinalityType
  <1>2. IsFiniteSet(1..n) /\ Cardinality(1..n) = n
    BY <1>1, FS_Interval
  <1>3. order \in Surjection(1..n, Products)
    BY DEF Orders, Surjection
  <1>4. order \in Injection(1..n, Products)
    BY <1>2, <1>3, FS_SurjSameCardinalityImpliesInj
  <1> QED
    BY <1>4 DEF Injection, IsInjective

\* The lines of a capture are of that session, one for each product.
LEMMA LinesAdded ==
    ASSUME IInv, NEW id \in DOMAIN takes, Capture(id)
    PROVE  /\ lines' \in Seq(Line) /\ Len(lines') <= MaxLines
           /\ DOMAIN lines = 1..Len(lines) /\ DOMAIN lines' = 1..Len(lines')
           /\ Len(lines) \in Nat /\ Len(lines') \in Nat /\ Len(lines) <= Len(lines')
           /\ \A l \in DOMAIN lines : lines'[l] = lines[l]
           /\ \A l \in DOMAIN lines' \ DOMAIN lines : lines'[l].take = id
           /\ \A l, k \in DOMAIN lines' \ DOMAIN lines :
                 lines'[l].product = lines'[k].product => l = k
  <1> DEFINE n == Cardinality(Products)
  <1>1. n \in Nat
    BY ProductsAssumption, FS_CardinalityType
  <1> PICK order \in Orders : lines' = lines \o SnapshotLines(id, order)
    BY DEF Capture
  <1> DEFINE added == SnapshotLines(id, order)
  <1>2. /\ takes \in Seq(Take) /\ lines \in Seq(Line) /\ onHand \in [Products -> Quantity]
        /\ Len(takes) <= MaxTakes /\ Len(lines) + n <= MaxLines
    BY DEF IInv, TypeOK, Capture
  <1>3. order \in [1..n -> Products]
    BY DEF Orders
  <1>4. ASSUME NEW k \in 1..n
        PROVE  /\ added[k] \in Line
               /\ added[k].take = id /\ added[k].product = order[k]
    <2>1. id \in 1..MaxTakes
      BY <1>2, BoundsAssumption
    <2>2. order[k] \in Products /\ onHand[order[k]] \in Quantity
      BY <1>2, <1>3
    <2>3. 0 \in (-MaxOnHand)..MaxOnHand
      BY BoundsAssumption
    <2> QED
      BY <2>1, <2>2, <2>3 DEF SnapshotLines, Line
  <1>5. added \in [1..n -> Line]
    BY <1>4 DEF SnapshotLines
  <1> HIDE DEF added
  <1>6. added \in Seq(Line) /\ Len(added) = n
    BY <1>1, <1>5, FunctionIsSeq
  <1> HIDE DEF n
  <1>7. /\ lines' \in Seq(Line) /\ Len(lines') = Len(lines) + n
        /\ \A l \in 1..(Len(lines) + n) :
              lines'[l] = IF l <= Len(lines) THEN lines[l] ELSE added[l - Len(lines)]
    BY <1>2, <1>6, ConcatProperties DEF added
  <1>8. /\ DOMAIN lines = 1..Len(lines) /\ DOMAIN lines' = 1..Len(lines')
        /\ Len(lines) \in Nat
    BY <1>2, <1>7
  <1>9. \A l \in DOMAIN lines' \ DOMAIN lines :
           l - Len(lines) \in 1..n /\ lines'[l] = added[l - Len(lines)]
    BY <1>1, <1>7, <1>8
  <1>10. ASSUME NEW l \in DOMAIN lines' \ DOMAIN lines, NEW k \in DOMAIN lines' \ DOMAIN lines,
                lines'[l].product = lines'[k].product
         PROVE  l = k
    <2>1. order[l - Len(lines)] = order[k - Len(lines)]
      BY <1>4, <1>9, <1>10
    <2>2. l - Len(lines) = k - Len(lines)
      BY <1>3, <1>9, <2>1, OrderRepeatsNothing
    <2> QED
      BY <1>7, <1>8, <2>2
  <1>11. /\ Len(lines') \in Nat /\ Len(lines) <= Len(lines') /\ Len(lines') <= MaxLines
         /\ \A l \in DOMAIN lines : lines'[l] = lines[l]
    BY <1>1, <1>2, <1>7, <1>8
  <1>12. \A l \in DOMAIN lines' \ DOMAIN lines : lines'[l].take = id
    BY <1>4, <1>9
  <1> QED
    BY <1>7, <1>8, <1>10, <1>11, <1>12

\* A session with lines is captured no more.
LEMMA SnapshotTaken ==
    ASSUME IInv, NEW id \in DOMAIN takes, Capture(id), UNCHANGED onHand,
           request' \in [Workers -> Request], RequestsAimed'
    PROVE  IInv'
  <1> DEFINE take == [takes[id] EXCEPT !.snapshot = TRUE, !.status = "counting"]
  <1>1. takes \in Seq(Take) /\ id \in 1..Len(takes) /\ takes[id] \in Take
    BY DEF IInv, TypeOK
  <1>2. takes' = [takes EXCEPT ![id] = take]
    BY <1>1 DEF Capture
  <1>3. take \in Take /\ take.snapshot /\ take.status = "counting"
    BY <1>1 DEF Take, Status
  <1> HIDE DEF take
  <1>4. /\ takes' \in Seq(Take) /\ Len(takes') = Len(takes)
        /\ DOMAIN takes' = DOMAIN takes /\ takes'[id] = take
        /\ \A n \in DOMAIN takes : n # id => takes'[n] = takes[n]
    BY <1>1, <1>2, <1>3, ExceptSeq
  <1>5. TypeOK'
    BY <1>4, LinesAdded DEF IInv, TypeOK
  <1>6. StagesInOrder'
    BY <1>3, <1>4 DEF IInv, StagesInOrder
  <1>7. \A l \in DOMAIN lines : lines[l].take # id
    BY DEF IInv, LinesCaptured, Capture
  <1>8. LinesCaptured'
    <2> SUFFICES ASSUME NEW l \in DOMAIN lines'
                 PROVE  /\ lines'[l].take \in DOMAIN takes'
                        /\ takes'[lines'[l].take].snapshot
      BY DEF LinesCaptured
    <2>1. CASE l \in DOMAIN lines
      <3>1. /\ lines'[l].take = lines[l].take /\ lines[l].take \in DOMAIN takes
            /\ takes[lines[l].take].snapshot
        BY <2>1, LinesAdded DEF IInv, LinesCaptured
      <3> QED
        BY <1>3, <1>4, <3>1
    <2>2. CASE l \notin DOMAIN lines
      BY <1>3, <1>4, <2>2, LinesAdded
    <2> QED
      BY <2>1, <2>2
  <1>9. OneLinePerProduct'
    <2> SUFFICES ASSUME NEW l \in DOMAIN lines', NEW k \in DOMAIN lines',
                        lines'[l].take = lines'[k].take,
                        lines'[l].product = lines'[k].product
                 PROVE  l = k
      BY DEF OneLinePerProduct
    <2>1. CASE l \in DOMAIN lines /\ k \in DOMAIN lines
      BY <2>1, LinesAdded DEF IInv, OneLinePerProduct
    <2>2. CASE l \notin DOMAIN lines /\ k \notin DOMAIN lines
      BY <2>2, LinesAdded
    <2>3. CASE (l \in DOMAIN lines) # (k \in DOMAIN lines)
      BY <1>7, <2>3, LinesAdded
    <2> QED
      BY <2>1, <2>2, <2>3
  <1> QED
    BY <1>5, <1>6, <1>8, <1>9 DEF IInv

LEMMA CaptureKeepsAims ==
    ASSUME IInv, NEW id \in DOMAIN takes, Capture(id)
    PROVE  /\ DOMAIN takes \subseteq DOMAIN takes' /\ DOMAIN lines \subseteq DOMAIN lines'
           /\ \A l \in DOMAIN lines :
                 lines'[l].take = lines[l].take /\ lines'[l].product = lines[l].product
  <1>1. DOMAIN takes' = DOMAIN takes
    BY DEF Capture
  <1> QED
    BY <1>1, LinesAdded

LEMMA SessionCaptured ==
    ASSUME IInv, CaptureSnapshot
    PROVE  IInv'
  <1> PICK id \in DOMAIN takes : Capture(id)
    BY DEF CaptureSnapshot
  <1>1. UNCHANGED <<onHand, request>>
    BY DEF CaptureSnapshot
  <1>2. RequestsAimed'
    <2> SUFFICES ASSUME NEW w \in Workers PROVE Aimed(request[w], takes', lines')
      BY <1>1 DEF RequestsAimed
    <2> QED
      BY StillAimed, CaptureKeepsAims DEF IInv, RequestsAimed
  <1> QED
    BY <1>1, <1>2, SnapshotTaken DEF IInv, TypeOK

LEMMA CronCaptured ==
    ASSUME IInv, NEW w \in Workers, CronCapture(w)
    PROVE  IInv'
  <1> DEFINE id == request[w].id
  <1>1. id \in DOMAIN takes /\ Capture(id)
    BY DEF CronCapture, IInv, RequestsAimed, Aimed
  <1>2. request' = [request EXCEPT ![w] = Idle] /\ UNCHANGED onHand
    BY DEF CronCapture, Finish
  <1> HIDE DEF id
  <1>3. request' \in [Workers -> Request] /\ RequestsAimed'
    BY <1>1, <1>2, IdleIsAimed, CaptureKeepsAims, RequestsStillAimed
  <1> QED
    BY <1>1, <1>2, <1>3, SnapshotTaken

----------------------------------------------------------------------------
(* The invariant is inductive.                                              *)

LEMMA InitIInv == Init => IInv
  <1> SUFFICES ASSUME Init PROVE IInv
    OBVIOUS
  <1>1. TypeOK
    BY BoundsAssumption, IdleIsAimed DEF Init, TypeOK
  <1>2. RequestsAimed
    BY IdleIsAimed DEF Init, RequestsAimed
  <1>3. StagesInOrder /\ LinesCaptured /\ OneLinePerProduct
    BY DEF Init, StagesInOrder, LinesCaptured, OneLinePerProduct
  <1> QED
    BY <1>1, <1>2, <1>3 DEF IInv

LEMMA NextIInv == IInv /\ [Next]_vars => IInv'
  <1> SUFFICES ASSUME IInv, [Next]_vars PROVE IInv'
    OBVIOUS
  <1>1. CASE Trade
    <2>1. onHand' \in [Products -> Quantity] /\ UNCHANGED <<takes, lines, request>>
      BY <1>1 DEF Trade, IInv, TypeOK
    <2> QED
      BY <2>1, OnlyRequest DEF IInv, TypeOK, RequestsAimed
  <1>2. CASE CreateSession
    BY <1>2, SessionCreated
  <1>3. CASE CaptureSnapshot
    BY <1>3, SessionCaptured
  <1>4. ASSUME NEW w \in Workers, RequestStep(w) PROVE IInv'
    BY <1>4, StageRead, LineRead, PhotosChecked, CronRuns, RequestLost, StageSaved,
       LineCounted, CronCreated, CronCaptured DEF RequestStep
  <1>5. CASE UNCHANGED vars
    BY <1>5 DEF vars, IInv, TypeOK, RequestsAimed, StagesInOrder, LinesCaptured,
                OneLinePerProduct
  <1> QED
    BY <1>1, <1>2, <1>3, <1>4, <1>5 DEF Next

\* The inductive invariant holds in every reachable state, whatever counts,
\* submissions, decisions and postings overlap or die.
THEOREM AlwaysIInv == Spec => []IInv
  BY InitIInv, NextIInv, PTL DEF Spec

\* Sessions, lines and requests keep their types, a variance the range of a
\* difference of two quantities.
THEOREM TypeCorrect == Spec => []TypeOK
  BY AlwaysIInv, PTL DEF IInv

\* No session is found approved that was not submitted, nor posted that was
\* not approved, whatever stale copies are saved over it.
THEOREM StagesHold == Spec => []StagesInOrder
  BY AlwaysIInv, PTL DEF IInv

\* No capture, by a person or by the cron job, adds a second line of a product
\* to a session, whatever was saved over the session since the first.
THEOREM LinesUnique == Spec => []OneLinePerProduct
  BY AlwaysIInv, PTL DEF IInv
=============================================================================
