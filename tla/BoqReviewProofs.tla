--------------------------- MODULE BoqReviewProofs ---------------------------
(* For every value of the constants of BoqReview: the BOQ, its reviews and  *)
(* the requests are well typed, the total and the status are what they are  *)
(* meant to be, and nothing moves what is approved or decided.              *)
EXTENDS BoqReview, TLAPS, FiniteSetTheorems, SequenceTheorems

----------------------------------------------------------------------------
(* The inductive invariant.  The properties are about what is stored; they  *)
(* are kept because of what each request under way has read, and how much   *)
(* of it still holds unless the request was overtaken or left behind.       *)

\* Reviews being opened count against the bound as well.
Opening == {r \in Requests : At(r, "opening")}
RoomForReviews == Len(reviews) + Cardinality(Opening) <= MaxReviews

\* Which operation comes to which stage, and about which review.
Staged(r) ==
    LET c == req[r]
    IN /\ c.at = "idle" => c = Idle
       /\ c.at \in {"creating", "adding"} => c.op = "add"
       /\ c.at \in {"finding", "writing"} =>
             c.op \in {"change", "remove"} /\ c.line \in Lines
       /\ c.at \in {"summing", "totalling"} => c.op = "total"
       /\ c.at = "opening" => c.op = "submit"
       /\ c.at = "reading" => c.op \in {"submit", "start", "decide", "assign"}
       /\ c.at = "saving" => c.op \in {"edit", "quote", "submit", "start", "decide", "assign"}
       /\ c.at = "reviewing" => c.op \in {"start", "decide", "assign"}
       /\ c.at = "reassigning" => c.op = "assign"
       /\ c.op = "submit" => c.next = "submitted"
       /\ c.op = "assign" => c.next = "under_review"
       /\ c.op = "quote" => c.next = "submitted" /\ c.id = 0
       /\ c.op = "edit" => c.next # "approved"
       /\ c.at \in {"reading", "reviewing", "reassigning"} => c.id \in 1..Len(reviews)
       /\ c.at = "saving" /\ c.op \notin {"edit", "quote"} => c.id \in 1..Len(reviews)

LineOps == {"add", "change", "remove", "total", "edit"}

\* An edit still under way when the BOQ was approved has been overtaken.
Frozen(r) == boq.status = "approved" /\ req[r].op \in LineOps => req[r].overtaken

\* A request about to save a review has read it as it is: undecided, and as
\* active as it was, unless the request was overtaken.
HoldsReview(r) == \/ req[r].at \in {"reviewing", "reassigning"}
                  \/ req[r].op = "assign" /\ req[r].at \in {"reading", "saving"}
ReviewAsRead(r) ==
    HoldsReview(r) /\ ~req[r].overtaken =>
        /\ reviews[req[r].id].status \notin Decisions
        /\ reviews[req[r].id].active = req[r].active
        /\ At(r, "reassigning") => reviews[req[r].id].status = req[r].next

\* Unless it was overtaken, what a request stored in the one of the two
\* documents is still there when it comes to the other; and an edit saves the
\* status the BOQ has.
StatusAsStored(r) ==
    ~req[r].overtaken =>
        /\ Torn(r) => IF req[r].op = "assign" THEN boq.status = req[r].next
                      ELSE reviews[req[r].id].status = req[r].next
        /\ req[r].op = "edit" => boq.status = req[r].next

\* A total is what was read or computed unless its request was left behind.
TotalAsRead(r) ==
    ~req[r].behind =>
        /\ At(r, "totalling") => req[r].total = {Sum}
        /\ At(r, "saving") /\ req[r].total # NoTotal => req[r].total = boq.total

Relied ==
    \A r \in Requests : /\ Frozen(r)
                        /\ ReviewAsRead(r)
                        /\ StatusAsStored(r)
                        /\ TotalAsRead(r)

IInv == /\ TypeOK
        /\ RoomForReviews
        /\ \A r \in Requests : Staged(r)
        /\ Relied
        /\ TotalIsSum
        /\ StatusAgrees

----------------------------------------------------------------------------
(* What a step of one request does to the others.                          *)

LEMMA IdleIsCall == Idle \in Call
  <1>1. NoTotal \in Totals
    BY DEF Totals
  <1> QED
    BY <1>1, BoundsAssumption DEF Idle, Call, Status

\* The sum of the lines there are is one of the totals.
LEMMA SumIsTotal == quantity \in [Lines -> Gone..MaxQuantity] => {Sum} \in Totals
  BY DEF Sum, Totals

\* Others stay where they are, and are told what has been stored.
LEMMA GoEffect ==
    ASSUME req \in [Requests -> Call], NEW r \in Requests, NEW call \in Call, NEW stored,
           Go(r, call, stored)
    PROVE  /\ req' \in [Requests -> Call]
           /\ req'[r] = call
           /\ \A o \in Requests \ {r} :
                 /\ req'[o].op = req[o].op /\ req'[o].at = req[o].at
                 /\ req'[o].line = req[o].line /\ req'[o].id = req[o].id
                 /\ req'[o].next = req[o].next /\ req'[o].active = req[o].active
                 /\ req'[o].total = req[o].total
                 /\ req[o] = Idle => req'[o] = Idle
                 /\ req[o] # Idle /\ "status" \in stored => req'[o].overtaken
                 /\ req[o].overtaken => req'[o].overtaken
                 /\ req[o].behind => req'[o].behind
                 /\ At(o, "totalling") /\ "lines" \in stored => req'[o].behind
                 /\ At(o, "saving") /\ "total" \in stored => req'[o].behind
  <1>1. req'[r] = call
    BY DEF Go
  <1>2. ASSUME NEW o \in Requests \ {r}
        PROVE  /\ req'[o] \in Call
               /\ req'[o].op = req[o].op /\ req'[o].at = req[o].at
               /\ req'[o].line = req[o].line /\ req'[o].id = req[o].id
               /\ req'[o].next = req[o].next /\ req'[o].active = req[o].active
               /\ req'[o].total = req[o].total
               /\ req[o] = Idle => req'[o] = Idle
               /\ req[o] # Idle /\ "status" \in stored => req'[o].overtaken
               /\ req[o].overtaken => req'[o].overtaken
               /\ req[o].behind => req'[o].behind
               /\ At(o, "totalling") /\ "lines" \in stored => req'[o].behind
               /\ At(o, "saving") /\ "total" \in stored => req'[o].behind
    <2>1. CASE req[o] = Idle
      <3>1. req'[o] = Idle
        BY <2>1 DEF Go
      <3> QED
        BY <2>1, <3>1, IdleIsCall DEF At, Idle
    <2>2. CASE req[o] # Idle
      <3> DEFINE c == req[o]
                 b == \/ ("lines" \in stored /\ c.at = "totalling")
                      \/ ("total" \in stored /\ c.at = "saving")
                 d == [c EXCEPT !.behind = (@ \/ b), !.overtaken = (@ \/ "status" \in stored)]
      <3>1. req'[o] = d
        BY <2>2 DEF Go, At
      <3>2. c \in Call
        OBVIOUS
      <3>3. b \in BOOLEAN
        OBVIOUS
      <3> HIDE DEF b
      <3>4. /\ d \in Call
            /\ d.op = c.op /\ d.at = c.at /\ d.line = c.line /\ d.id = c.id
            /\ d.next = c.next /\ d.active = c.active /\ d.total = c.total
            /\ d.behind = (c.behind \/ b)
            /\ d.overtaken = (c.overtaken \/ "status" \in stored)
        BY <3>2, <3>3 DEF Call
      <3> QED
        BY <2>2, <3>1, <3>4 DEF At, b
    <2> QED
      BY <2>1, <2>2
  <1>3. DOMAIN req' = Requests /\ req' = [o \in Requests |-> req'[o]]
    BY DEF Go
  <1>4. \A o \in Requests : req'[o] \in Call
    BY <1>1, <1>2
  <1> QED
    BY <1>1, <1>2, <1>3, <1>4

\* What a step of r leaves to the others to rely on: whoever relied on what it
\* stored has been overtaken or left behind.
LEMMA OthersRely ==
    ASSUME IInv, NEW r \in Requests, NEW call \in Call, NEW stored,
           Go(r, call, stored),
           Len(reviews') \in Nat, Len(reviews) <= Len(reviews'),
           "status" \notin stored => /\ boq'.status = boq.status
                                     /\ \A n \in 1..Len(reviews) : reviews'[n] = reviews[n],
           "lines" \notin stored => UNCHANGED quantity,
           "total" \notin stored => boq'.total = boq.total
    PROVE  \A o \in Requests \ {r} : /\ Staged(o)'
                                     /\ Frozen(o)'
                                     /\ ReviewAsRead(o)'
                                     /\ StatusAsStored(o)'
                                     /\ TotalAsRead(o)'
  <1> SUFFICES ASSUME NEW o \in Requests \ {r}
               PROVE  /\ Staged(o)'
                      /\ Frozen(o)'
                      /\ ReviewAsRead(o)'
                      /\ StatusAsStored(o)'
                      /\ TotalAsRead(o)'
    OBVIOUS
  <1>1. /\ req'[o].op = req[o].op /\ req'[o].at = req[o].at
        /\ req'[o].line = req[o].line /\ req'[o].id = req[o].id
        /\ req'[o].next = req[o].next /\ req'[o].active = req[o].active
        /\ req'[o].total = req[o].total
        /\ req[o] = Idle => req'[o] = Idle
        /\ req[o] # Idle /\ "status" \in stored => req'[o].overtaken
        /\ req[o].overtaken => req'[o].overtaken
        /\ req[o].behind => req'[o].behind
        /\ At(o, "totalling") /\ "lines" \in stored => req'[o].behind
        /\ At(o, "saving") /\ "total" \in stored => req'[o].behind
    BY GoEffect DEF IInv, TypeOK
  <1>2. Staged(o) /\ Frozen(o) /\ ReviewAsRead(o) /\ StatusAsStored(o) /\ TotalAsRead(o)
    BY DEF IInv, Relied
  <1>3. reviews \in Seq(Review) /\ Len(reviews) \in Nat
    BY DEF IInv, TypeOK
  <1>4. Staged(o)'
    BY <1>1, <1>2, <1>3 DEF Staged
  <1>5. TotalAsRead(o)'
    <2>1. CASE At(o, "totalling")
      <3>1. ASSUME ~req'[o].behind PROVE UNCHANGED quantity
        BY <1>1, <2>1, <3>1
      <3> QED
        BY <1>1, <1>2, <2>1, <3>1 DEF TotalAsRead, At, Sum
    <2>2. CASE ~At(o, "totalling")
      BY <1>1, <1>2, <2>2 DEF TotalAsRead, At
    <2> QED
      BY <2>1, <2>2
  <1>6. CASE req[o] = Idle
    <2>1. req'[o].op = "none" /\ req'[o].at = "idle"
      BY <1>1, <1>6 DEF Idle
    <2> QED
      BY <2>1, <1>4, <1>5
         DEF Frozen, LineOps, ReviewAsRead, HoldsReview, StatusAsStored, Torn, At
  <1>7. CASE req[o] # Idle /\ "status" \in stored
    <2>1. req'[o].overtaken
      BY <1>1, <1>7
    <2> QED
      BY <2>1, <1>4, <1>5 DEF Frozen, ReviewAsRead, StatusAsStored
  <1>8. CASE "status" \notin stored
    <2>1. /\ boq'.status = boq.status
          /\ \A n \in 1..Len(reviews) : reviews'[n] = reviews[n]
      BY <1>8
    <2>2. Frozen(o)'
      BY <1>1, <1>2, <2>1 DEF Frozen
    <2>3. HoldsReview(o) => req[o].id \in 1..Len(reviews)
      BY <1>2 DEF HoldsReview, Staged
    <2>4. ReviewAsRead(o)'
      BY <1>1, <1>2, <2>1, <2>3 DEF ReviewAsRead, HoldsReview, At
    <2>5. Torn(o) => req[o].id \in 1..Len(reviews)
      BY <1>2 DEF Torn, Staged, At
    <2>6. StatusAsStored(o)'
      BY <1>1, <1>2, <2>1, <2>5 DEF StatusAsStored, Torn, At
    <2> QED
      BY <1>4, <1>5, <2>2, <2>4, <2>6
  <1> QED
    BY <1>6, <1>7, <1>8

\* A request that opens no review leaves room for those that do.
LEMMA RoomKept ==
    ASSUME IInv, NEW r \in Requests, NEW call \in Call, NEW stored,
           Go(r, call, stored), call.at # "opening", Len(reviews') = Len(reviews)
    PROVE  RoomForReviews'
  <1>1. Opening' \subseteq Opening
    BY GoEffect DEF IInv, TypeOK, Opening, At
  <1>2. IsFiniteSet(Opening)
    BY RequestsAssumption, FS_Subset DEF Opening
  <1>3. /\ Cardinality(Opening') <= Cardinality(Opening)
        /\ Cardinality(Opening') \in Nat /\ Cardinality(Opening) \in Nat
    BY <1>1, <1>2, FS_Subset, FS_CardinalityType
  <1>4. Len(reviews) \in Nat
    BY DEF IInv, TypeOK
  <1> QED
    BY <1>3, <1>4, BoundsAssumption DEF IInv, RoomForReviews

\* A step that stores nothing: r goes on, or ends, with what it has read.
LEMMA ReadKeeps ==
    ASSUME IInv, NEW r \in Requests, NEW call \in Call,
           Go(r, call, {}), UNCHANGED <<quantity, boq, reviews, misled, follows>>,
           call.at # "opening", Owing(r) => Owing(r)', Torn(r) => Torn(r)',
           Staged(r)', Frozen(r)', ReviewAsRead(r)', StatusAsStored(r)', TotalAsRead(r)'
    PROVE  IInv'
  <1>1. req' \in [Requests -> Call] /\ \A o \in Requests \ {r} : /\ req'[o].at = req[o].at
                                                                 /\ req'[o].op = req[o].op
    BY GoEffect DEF IInv, TypeOK
  <1>2. TypeOK'
    BY <1>1 DEF IInv, TypeOK
  <1>3. Len(reviews) \in Nat
    BY DEF IInv, TypeOK
  <1>4. RoomForReviews'
    BY RoomKept
  <1>5. \A o \in Requests : Staged(o)'
    BY <1>3, OthersRely
  <1>6. Relied'
    BY <1>3, OthersRely DEF Relied
  <1>7. TotalIsSum'
    <2>1. \A o \in Requests : Owing(o) => Owing(o)'
      BY <1>1 DEF Owing
    <2> QED
      BY <2>1 DEF IInv, TotalIsSum, Sum
  <1>8. StatusAgrees'
    <2>1. \A o \in Requests : Torn(o) => Torn(o)'
      BY <1>1 DEF Torn, At
    <2> QED
      BY <2>1 DEF IInv, StatusAgrees
  <1> QED
    BY <1>2, <1>4, <1>5, <1>6, <1>7, <1>8 DEF IInv

----------------------------------------------------------------------------
(* The steps that only read.                                               *)

\* A request that begins is a call with nothing in it yet.
LEMMA BegunIsCall ==
    ASSUME NEW op \in {"add", "change", "remove", "total", "edit", "quote",
                       "submit", "start", "decide", "assign"},
           NEW stage \in {"creating", "finding", "summing", "opening", "reading",
                          "saving", "reviewing", "reassigning"}
    PROVE  /\ Begun(op, stage) \in Call
           /\ Begun(op, stage).op = op /\ Begun(op, stage).at = stage
           /\ ~Begun(op, stage).overtaken /\ ~Begun(op, stage).behind
           /\ Begun(op, stage).id = 0 /\ Begun(op, stage).total = NoTotal
  <1>1. Idle \in Call
    BY IdleIsCall
  <1> QED
    BY <1>1 DEF Begun, Call, Idle

LEMMA LinesBegun ==
    ASSUME IInv, NEW r \in Requests, BeginLines(r)
    PROVE  IInv'
  <1>1. req \in [Requests -> Call] /\ boq.status # "approved"
    BY DEF IInv, TypeOK, BeginLines
  <1>2. ASSUME NEW call \in Call, Go(r, call, {}), ~call.behind,
               \/ call.op = "add" /\ call.at = "creating"
               \/ call.op \in {"change", "remove"} /\ call.at = "finding" /\ call.line \in Lines
        PROVE  IInv'
    <2>1. req'[r] = call
      BY <1>1, <1>2, GoEffect
    <2>2. UNCHANGED <<quantity, boq, reviews, misled, follows>>
      BY DEF BeginLines
    <2>3. ~Owing(r) /\ ~Torn(r)
      BY DEF BeginLines, Owing, Torn, At
    <2>4. /\ Staged(r)' /\ Frozen(r)' /\ ReviewAsRead(r)' /\ StatusAsStored(r)'
          /\ TotalAsRead(r)'
      BY <1>1, <1>2, <2>1, <2>2
         DEF Staged, Frozen, ReviewAsRead, HoldsReview, StatusAsStored, Torn, TotalAsRead, At
    <2> QED
      BY <1>2, <2>2, <2>3, <2>4, ReadKeeps
  <1>3. CASE Go(r, Begun("add", "creating"), {})
    BY <1>2, <1>3, BegunIsCall
  <1>4. ASSUME NEW l \in Lines, NEW op \in {"change", "remove"},
               Go(r, [Begun(op, "finding") EXCEPT !.line = l], {})
        PROVE  IInv'
    <2>1. /\ Begun(op, "finding") \in Call
          /\ Begun(op, "finding").op = op /\ Begun(op, "finding").at = "finding"
          /\ ~Begun(op, "finding").behind
      BY BegunIsCall
    <2> DEFINE call == [Begun(op, "finding") EXCEPT !.line = l]
    <2>2. /\ call \in Call /\ call.op = op /\ call.at = "finding" /\ call.line = l
          /\ ~call.behind
      BY <2>1 DEF Call
    <2> QED
      BY <1>2, <1>4, <2>2
  <1> QED
    BY <1>3, <1>4 DEF BeginLines

LEMMA LineFound ==
    ASSUME IInv, NEW r \in Requests, FindLine(r)
    PROVE  IInv'
  <1>1. req \in [Requests -> Call] /\ Staged(r) /\ Frozen(r)
    BY DEF IInv, TypeOK, Relied
  <1> DEFINE call == IF quantity[req[r].line] = Gone THEN Idle ELSE [req[r] EXCEPT !.at = "writing"]
  <1>2. UNCHANGED <<quantity, boq, reviews, misled, follows>> /\ Go(r, call, {})
    BY DEF FindLine
  <1>3. /\ call \in Call
        /\ \/ call = Idle
           \/ /\ call.at = "writing" /\ call.op = req[r].op /\ call.line = req[r].line
              /\ call.overtaken = req[r].overtaken
    BY <1>1, IdleIsCall DEF Call
  <1>4. req[r].op \in {"change", "remove"} /\ req[r].at = "finding" /\ req[r].line \in Lines
    BY <1>1 DEF FindLine, At, Staged
  <1>5. ~Owing(r) /\ ~Torn(r) /\ call.at # "opening"
    BY <1>3, <1>4 DEF Owing, Torn, At, Idle
  <1> HIDE DEF call
  <1>6. req'[r] = call
    BY <1>1, <1>2, <1>3, GoEffect
  <1>7. /\ Staged(r)' /\ Frozen(r)' /\ ReviewAsRead(r)' /\ StatusAsStored(r)'
        /\ TotalAsRead(r)'
    <2>1. CASE call = Idle
      BY <1>6, <2>1 DEF Staged, Frozen, LineOps, ReviewAsRead, HoldsReview,
                        StatusAsStored, Torn, TotalAsRead, At, Idle
    <2>2. CASE call # Idle
      BY <1>1, <1>2, <1>3, <1>4, <1>6, <2>2
         DEF Staged, Frozen, LineOps, ReviewAsRead, HoldsReview, StatusAsStored, Torn,
             TotalAsRead, At
    <2> QED
      BY <2>1, <2>2
  <1> QED
    BY <1>2, <1>3, <1>5, <1>7, ReadKeeps

LEMMA LinesSummed ==
    ASSUME IInv, NEW r \in Requests, SumLines(r)
    PROVE  IInv'
  <1>1. req \in [Requests -> Call] /\ Staged(r) /\ Frozen(r) /\ {Sum} \in Totals
    BY SumIsTotal DEF IInv, TypeOK, Relied
  <1> DEFINE call == [req[r] EXCEPT !.at = "totalling", !.total = {Sum}]
  <1>2. UNCHANGED <<quantity, boq, reviews, misled, follows>> /\ Go(r, call, {})
    BY DEF SumLines
  <1>3. /\ call \in Call /\ call.at = "totalling" /\ call.op = req[r].op
        /\ call.total = {Sum} /\ call.overtaken = req[r].overtaken
    BY <1>1 DEF Call
  <1>4. req[r].op = "total" /\ req[r].at = "summing"
    BY <1>1 DEF SumLines, At, Staged
  <1> HIDE DEF call
  <1>5. req'[r] = call
    BY <1>1, <1>2, <1>3, GoEffect
  <1>6. Owing(r)' /\ ~Torn(r)
    BY <1>3, <1>4, <1>5 DEF Owing, Torn
  <1>7. /\ Staged(r)' /\ Frozen(r)' /\ ReviewAsRead(r)' /\ StatusAsStored(r)'
        /\ TotalAsRead(r)'
    BY <1>1, <1>2, <1>3, <1>4, <1>5
       DEF Staged, Frozen, LineOps, ReviewAsRead, HoldsReview, StatusAsStored, Torn,
           TotalAsRead, At, Sum
  <1> QED
    BY <1>2, <1>3, <1>6, <1>7, ReadKeeps

LEMMA SaveBegun ==
    ASSUME IInv, NEW r \in Requests, BeginEdit(r) \/ BeginQuote(r)
    PROVE  IInv'
  <1>1. req \in [Requests -> Call] /\ boq \in Boq /\ req[r].at = "idle"
    BY DEF IInv, TypeOK, BeginEdit, BeginQuote, At
  <1>2. UNCHANGED <<quantity, boq, reviews, misled, follows>>
    BY DEF BeginEdit, BeginQuote
  <1>3. PICK call \in Call :
           /\ Go(r, call, {}) /\ call.at = "saving" /\ call.total = boq.total
           /\ ~call.overtaken /\ ~call.behind
           /\ \/ call.op = "edit" /\ call.next = boq.status /\ boq.status # "approved"
              \/ call.op = "quote" /\ call.next = "submitted" /\ call.id = 0
    <2>1. CASE BeginEdit(r)
      <3> DEFINE base == Begun("edit", "saving")
                 call == [base EXCEPT !.next = boq.status, !.total = boq.total]
      <3>1. /\ base \in Call /\ base.op = "edit" /\ base.at = "saving"
            /\ ~base.overtaken /\ ~base.behind
        BY BegunIsCall
      <3> HIDE DEF base
      <3>2. /\ call \in Call /\ call.op = "edit" /\ call.at = "saving"
            /\ ~call.overtaken /\ ~call.behind
            /\ call.next = boq.status /\ call.total = boq.total
        BY <1>1, <3>1 DEF Call, Boq
      <3> QED
        BY <2>1, <3>2 DEF BeginEdit, base
    <2>2. CASE BeginQuote(r)
      <3> DEFINE base == Begun("quote", "saving")
                 call == [base EXCEPT !.next = "submitted", !.total = boq.total]
      <3>1. /\ base \in Call /\ base.op = "quote" /\ base.at = "saving"
            /\ ~base.overtaken /\ ~base.behind /\ base.id = 0
        BY BegunIsCall
      <3> HIDE DEF base
      <3>2. /\ call \in Call /\ call.op = "quote" /\ call.at = "saving" /\ call.id = 0
            /\ ~call.overtaken /\ ~call.behind
            /\ call.next = "submitted" /\ call.total = boq.total
        BY <1>1, <3>1 DEF Call, Boq, Status
      <3> QED
        BY <2>2, <3>2 DEF BeginQuote, base
    <2> QED
      BY <2>1, <2>2
  <1>4. req'[r] = call
    BY <1>1, <1>3, GoEffect
  <1>5. ~Owing(r) /\ ~Torn(r)
    BY <1>1 DEF Owing, Torn, At
  <1>6. /\ Staged(r)' /\ Frozen(r)' /\ ReviewAsRead(r)' /\ StatusAsStored(r)'
        /\ TotalAsRead(r)'
    BY <1>1, <1>2, <1>3, <1>4
       DEF Staged, Frozen, LineOps, ReviewAsRead, HoldsReview, StatusAsStored, Torn,
           TotalAsRead, At
  <1> QED
    BY <1>2, <1>3, <1>5, <1>6, ReadKeeps

LEMMA BoqRead ==
    ASSUME IInv, NEW r \in Requests, ReadBoq(r)
    PROVE  IInv'
  <1>1. /\ req \in [Requests -> Call] /\ boq \in Boq /\ req[r].at = "reading"
        /\ Staged(r) /\ ReviewAsRead(r) /\ StatusAsStored(r)
    BY DEF IInv, TypeOK, Relied, ReadBoq, At
  <1> DEFINE call == [req[r] EXCEPT !.at = "saving", !.total = boq.total]
  <1>2. UNCHANGED <<quantity, boq, reviews, misled, follows>> /\ Go(r, call, {})
    BY DEF ReadBoq
  <1>3. /\ call \in Call /\ call.at = "saving" /\ call.op = req[r].op
        /\ call.total = boq.total /\ call.overtaken = req[r].overtaken
        /\ call.next = req[r].next /\ call.id = req[r].id /\ call.active = req[r].active
    BY <1>1 DEF Call, Boq
  <1> HIDE DEF call
  <1>4. req'[r] = call
    BY <1>1, <1>2, <1>3, GoEffect
  <1>5. ~Owing(r) /\ (Torn(r) => Torn(r)')
    BY <1>1, <1>3, <1>4 DEF Owing, Torn, At
  <1>6. /\ Staged(r)' /\ Frozen(r)' /\ ReviewAsRead(r)' /\ StatusAsStored(r)'
        /\ TotalAsRead(r)'
    BY <1>1, <1>2, <1>3, <1>4
       DEF Staged, Frozen, LineOps, ReviewAsRead, HoldsReview, StatusAsStored, Torn,
           TotalAsRead, At
  <1> QED
    BY <1>2, <1>3, <1>5, <1>6, ReadKeeps

\* A request about a review begins with a copy of its isActive.
LEMMA ReviewBegun ==
    ASSUME IInv, NEW r \in Requests, BeginStart(r) \/ BeginDecide(r) \/ BeginAssign(r)
    PROVE  IInv'
  <1>1. /\ req \in [Requests -> Call] /\ req[r].at = "idle"
        /\ reviews \in Seq(Review) /\ Len(reviews) <= MaxReviews /\ Len(reviews) \in Nat
    BY DEF IInv, TypeOK, BeginStart, BeginDecide, BeginAssign, At
  <1>2. UNCHANGED <<quantity, boq, reviews, misled, follows>>
    BY DEF BeginStart, BeginDecide, BeginAssign
  <1>3. ASSUME NEW n \in DOMAIN reviews, NEW next \in Status, NEW op \in {"start", "decide", "assign"},
               NEW stage \in {"reading", "reviewing", "reassigning"},
               Go(r, Reviewing(op, stage, n, next), {}),
               reviews[n].status \notin Decisions,
               \/ op = "assign" /\ stage = "reading" /\ next = "under_review"
               \/ op = "assign" /\ stage = "reassigning" /\ next = "under_review"
                                /\ reviews[n].status = "under_review"
               \/ op # "assign" /\ stage = "reviewing"
        PROVE  IInv'
    <2> DEFINE base == Begun(op, stage)
               call == Reviewing(op, stage, n, next)
    <2>1. /\ base \in Call /\ base.op = op /\ base.at = stage
          /\ ~base.overtaken /\ ~base.behind
      BY BegunIsCall
    <2>2. n \in 1..Len(reviews) /\ n \in 0..MaxReviews /\ reviews[n] \in Review
      BY <1>1, BoundsAssumption
    <2>3. call = [base EXCEPT !.id = n, !.next = next, !.active = reviews[n].active]
      BY DEF Reviewing
    <2> HIDE DEF base, call
    <2>4. /\ call \in Call /\ call.op = op /\ call.at = stage /\ call.next = next
          /\ ~call.overtaken /\ ~call.behind /\ call.id = n /\ call.active = reviews[n].active
      BY <2>1, <2>2, <2>3 DEF Call, Review
    <2>5. Go(r, call, {})
      BY <1>3 DEF call
    <2>6. req'[r] = call
      BY <1>1, <2>4, <2>5, GoEffect
    <2>7. ~Owing(r) /\ ~Torn(r)
      BY <1>1 DEF Owing, Torn, At
    <2>8. /\ Staged(r)' /\ Frozen(r)' /\ ReviewAsRead(r)' /\ StatusAsStored(r)'
          /\ TotalAsRead(r)'
      BY <1>1, <1>2, <1>3, <2>2, <2>4, <2>6
         DEF Staged, Frozen, LineOps, ReviewAsRead, HoldsReview, StatusAsStored, Torn,
             TotalAsRead, At
    <2> QED
      BY <1>2, <2>4, <2>5, <2>7, <2>8, ReadKeeps
  <1>4. /\ Decisions \subseteq Status /\ {"submitted", "under_review"} \subseteq Status
        /\ "submitted" \notin Decisions /\ "under_review" \notin Decisions
    BY DecisionAssumption DEF Status
  <1>5. CASE BeginStart(r)
    BY <1>3, <1>4, <1>5 DEF BeginStart
  <1>6. CASE BeginDecide(r)
    BY <1>3, <1>4, <1>6 DEF BeginDecide
  <1>7. CASE BeginAssign(r)
    BY <1>3, <1>4, <1>7 DEF BeginAssign
  <1> QED
    BY <1>5, <1>6, <1>7

----------------------------------------------------------------------------
(* The steps that store.                                                   *)

\* A step that stores lines: its request owes the total from then on.
LEMMA LinesStored ==
    ASSUME IInv, NEW r \in Requests, CreateLine(r) \/ WriteLine(r)
    PROVE  IInv'
  <1>1. /\ req \in [Requests -> Call] /\ Staged(r) /\ Frozen(r)
        /\ quantity \in [Lines -> Gone..MaxQuantity] /\ Len(reviews) \in Nat
    BY DEF IInv, TypeOK, Relied
  <1>2. UNCHANGED <<boq, reviews, misled, follows>>
    BY DEF CreateLine, WriteLine
  <1>3. req[r].op \in LineOps
    BY <1>1 DEF CreateLine, WriteLine, Staged, LineOps, At
  <1>4. quantity' \in [Lines -> Gone..MaxQuantity]
    <2>1. 0..MaxQuantity = Gone..MaxQuantity /\ 1..MaxQuantity \subseteq Gone..MaxQuantity
      BY BoundsAssumption DEF Gone
    <2>2. CASE CreateLine(r)
      BY <1>1, <2>1, <2>2 DEF CreateLine
    <2>3. CASE WriteLine(r)
      <3>1. PICK q \in IF req[r].op = "remove" THEN {Gone} ELSE 1..MaxQuantity :
               quantity' = [quantity EXCEPT ![req[r].line] = q]
        BY <2>3 DEF WriteLine
      <3>2. q \in Gone..MaxQuantity
        BY <2>1, <3>1, BoundsAssumption DEF Gone
      <3> QED
        BY <1>1, <3>1, <3>2
    <2> QED
      BY <2>2, <2>3
  <1>5. PICK call \in Call : /\ Go(r, call, {"lines"})
                             /\ \/ call.at = "adding" /\ call.op = "add"
                                \/ call.at = "summing" /\ call.op = "total"
                             /\ call.overtaken = req[r].overtaken
    <2> DEFINE base == Begun("total", "summing")
               total == [base EXCEPT !.overtaken = req[r].overtaken]
               add == [req[r] EXCEPT !.at = "adding"]
    <2>1. base \in Call /\ base.op = "total" /\ base.at = "summing"
      BY BegunIsCall
    <2> HIDE DEF base
    <2>2. req[r] \in Call /\ req[r].overtaken \in BOOLEAN
      BY <1>1 DEF Call
    <2>3. /\ total \in Call /\ total.op = "total" /\ total.at = "summing"
          /\ total.overtaken = req[r].overtaken
      BY <2>1, <2>2 DEF Call
    <2>4. /\ add \in Call /\ add.op = req[r].op /\ add.at = "adding"
          /\ add.overtaken = req[r].overtaken
      BY <2>2 DEF Call
    <2>5. CASE Go(r, total, {"lines"})
      BY <2>3, <2>5
    <2>6. CASE At(r, "creating") /\ Go(r, add, {"lines"})
      <3>1. req[r].op = "add"
        BY <1>1, <2>6 DEF Staged, At
      <3> QED
        BY <2>4, <2>6, <3>1
    <2> QED
      BY <2>5, <2>6 DEF CreateLine, WriteLine, Totalling, base
  <1>6. req'[r] = call /\ req' \in [Requests -> Call]
    BY <1>1, <1>5, GoEffect
  <1>7. /\ Staged(r)' /\ Frozen(r)' /\ ReviewAsRead(r)' /\ StatusAsStored(r)'
        /\ TotalAsRead(r)'
    BY <1>1, <1>2, <1>3, <1>5, <1>6
       DEF Staged, Frozen, ReviewAsRead, HoldsReview, StatusAsStored, Torn, TotalAsRead, At
  <1>8. TypeOK'
    BY <1>2, <1>4, <1>6 DEF IInv, TypeOK
  <1>9. RoomForReviews'
    BY <1>2, <1>5, RoomKept
  <1>10. /\ \A o \in Requests : Staged(o)'
         /\ Relied'
    BY <1>1, <1>2, <1>5, <1>7, OthersRely DEF Relied
  <1>11. TotalIsSum'
    BY <1>5, <1>6 DEF TotalIsSum, Owing
  <1>12. StatusAgrees'
    <2>1. ~Torn(r)
      BY <1>3 DEF Torn, LineOps
    <2>2. \A o \in Requests : Torn(o) => Torn(o)'
      BY <1>1, <1>5, <2>1, GoEffect DEF Torn, At
    <2> QED
      BY <1>2, <2>2 DEF IInv, StatusAgrees
  <1> QED
    BY <1>8, <1>9, <1>10, <1>11, <1>12 DEF IInv

LEMMA TotalStored ==
    ASSUME IInv, NEW r \in Requests, SetTotal(r)
    PROVE  IInv'
  <1>1. /\ req \in [Requests -> Call] /\ boq \in Boq /\ Len(reviews) \in Nat
        /\ req[r].at = "totalling" /\ req[r].op = "total" /\ TotalAsRead(r)
        /\ req[r].total \in Totals /\ req[r].behind \in BOOLEAN
    BY DEF IInv, TypeOK, Relied, SetTotal, At, Staged, Call
  <1>2. /\ UNCHANGED <<quantity, reviews, follows>>
        /\ boq'.status = boq.status /\ boq'.total = req[r].total /\ boq' \in Boq
        /\ misled' = req[r].behind
    BY <1>1 DEF SetTotal, Boq
  <1>3. Go(r, Idle, IF boq'.total = boq.total THEN {} ELSE {"total"})
    BY DEF SetTotal
  <1>4. req'[r] = Idle /\ req' \in [Requests -> Call]
    BY <1>1, <1>3, IdleIsCall, GoEffect
  <1>5. /\ Staged(r)' /\ Frozen(r)' /\ ReviewAsRead(r)' /\ StatusAsStored(r)'
        /\ TotalAsRead(r)'
    BY <1>4 DEF Staged, Frozen, LineOps, ReviewAsRead, HoldsReview, StatusAsStored, Torn,
                TotalAsRead, At, Idle
  <1>6. TypeOK'
    BY <1>1, <1>2, <1>4 DEF IInv, TypeOK
  <1>7. RoomForReviews'
    BY <1>2, <1>3, IdleIsCall, RoomKept DEF Idle
  <1>8. /\ \A o \in Requests : Staged(o)'
        /\ Relied'
    BY <1>1, <1>2, <1>3, <1>5, IdleIsCall, OthersRely DEF Relied
  <1>9. TotalIsSum'
    BY <1>1, <1>2 DEF TotalIsSum, TotalAsRead, At, Kept, NoTotal, Sum
  <1>10. StatusAgrees'
    <2>1. \A o \in Requests : Torn(o) => Torn(o)'
      BY <1>1, <1>3, IdleIsCall, GoEffect DEF Torn, At
    <2> QED
      BY <1>2, <2>1 DEF IInv, StatusAgrees
  <1> QED
    BY <1>6, <1>7, <1>8, <1>9, <1>10 DEF IInv

\* What a request that saves the BOQ goes on as, and what it has stored.
AfterSave(r) ==
    IF req[r].op = "assign"
      THEN [req[r] EXCEPT !.at = "reviewing", !.total = NoTotal, !.behind = FALSE]
      ELSE Idle

LEMMA BoqStored ==
    ASSUME IInv, NEW r \in Requests, SaveBoq(r)
    PROVE  IInv'
  <1>1. /\ req \in [Requests -> Call] /\ boq \in Boq /\ Len(reviews) \in Nat
        /\ req[r] \in Call /\ req[r].at = "saving" /\ Staged(r) /\ Frozen(r)
        /\ ReviewAsRead(r) /\ StatusAsStored(r) /\ TotalAsRead(r)
    BY DEF IInv, TypeOK, Relied, SaveBoq, At
  <1> DEFINE c == req[r]
             call == AfterSave(r)
             stored == (IF boq'.total # boq.total THEN {"total"} ELSE {}) \union
                       (IF c.op = "edit" /\ boq'.status = boq.status THEN {} ELSE {"status"})
  <1>2. /\ UNCHANGED <<quantity, reviews>> /\ Go(r, call, stored)
        /\ misled' = (misled \/ (c.behind /\ c.total # NoTotal))
        /\ follows' = IF c.op = "assign" THEN follows
                      ELSE IF c.overtaken THEN Astray
                      ELSE IF c.op = "edit" THEN follows ELSE c.id
    BY DEF SaveBoq, AfterSave
  <1>3. boq'.status = c.next /\ boq'.total = Kept(c.total, boq.total) /\ boq' \in Boq
    BY <1>1 DEF SaveBoq, Boq, Call, Kept
  <1>4. /\ call \in Call
        /\ \/ call = Idle /\ c.op # "assign"
           \/ /\ c.op = "assign" /\ call.op = "assign" /\ call.at = "reviewing"
              /\ call.overtaken = c.overtaken /\ call.id = c.id /\ call.active = c.active
              /\ call.next = c.next
    <2>1. NoTotal \in Totals
      BY DEF Totals
    <2>2. CASE c.op = "assign"
      <3> DEFINE d == [c EXCEPT !.at = "reviewing", !.total = NoTotal, !.behind = FALSE]
      <3>1. call = d
        BY <2>2 DEF AfterSave
      <3>2. /\ d \in Call /\ d.op = c.op /\ d.at = "reviewing" /\ d.overtaken = c.overtaken
            /\ d.id = c.id /\ d.active = c.active /\ d.next = c.next
        BY <1>1, <2>1 DEF Call
      <3> QED
        BY <2>2, <3>1, <3>2
    <2>3. CASE c.op # "assign"
      BY <2>3, IdleIsCall DEF AfterSave
    <2> QED
      BY <2>2, <2>3
  <1>5. c.op \in {"edit", "quote", "submit", "start", "decide", "assign"}
    BY <1>1 DEF Staged
  <1>6. "status" \notin stored => boq'.status = boq.status
    OBVIOUS
  <1>7. "total" \notin stored => boq'.total = boq.total
    OBVIOUS
  <1> HIDE DEF call, stored
  <1>8. req'[r] = call /\ req' \in [Requests -> Call]
    BY <1>1, <1>2, <1>4, GoEffect
  <1>9. /\ Staged(r)' /\ Frozen(r)' /\ ReviewAsRead(r)' /\ StatusAsStored(r)'
        /\ TotalAsRead(r)'
    <2>1. CASE call = Idle
      BY <1>8, <2>1 DEF Staged, Frozen, LineOps, ReviewAsRead, HoldsReview,
                        StatusAsStored, Torn, TotalAsRead, At, Idle
    <2>2. CASE call # Idle
      BY <1>1, <1>2, <1>3, <1>4, <1>8, <2>2
         DEF Staged, Frozen, LineOps, ReviewAsRead, HoldsReview, StatusAsStored, Torn,
             TotalAsRead, At
    <2> QED
      BY <2>1, <2>2
  <1>10. follows' \in Astray..Len(reviews)
    <2>1. follows \in Astray..Len(reviews) /\ Astray \in Astray..Len(reviews)
      BY <1>1 DEF IInv, TypeOK, Astray
    <2>2. c.op \notin {"edit", "assign"} => c.id \in Astray..Len(reviews)
      BY <1>1, <1>5 DEF Staged, Astray
    <2> QED
      BY <1>2, <2>1, <2>2
  <1>11. TypeOK'
    <2>1. misled' \in BOOLEAN
      BY <1>1, <1>2 DEF IInv, TypeOK, Call
    <2> QED
      BY <1>2, <1>3, <1>8, <1>10, <2>1 DEF IInv, TypeOK
  <1>12. RoomForReviews'
    BY <1>2, <1>4, RoomKept DEF Idle
  <1>13. /\ \A o \in Requests : Staged(o)'
         /\ Relied'
    BY <1>1, <1>2, <1>4, <1>6, <1>7, <1>9, OthersRely DEF Relied
  <1>14. TotalIsSum'
    <2> SUFFICES ASSUME ~misled', \A o \in Requests : ~Owing(o)'
                 PROVE  Kept(boq.total, {0})' = {Sum}'
      BY DEF TotalIsSum
    <2>1. ~misled /\ ~(c.behind /\ c.total # NoTotal)
      BY <1>2
    <2>2. \A o \in Requests : ~Owing(o)
      BY <1>1, <1>2, <1>4, GoEffect DEF Owing
    <2>3. boq'.total = boq.total
      BY <1>1, <1>3, <2>1 DEF TotalAsRead, Kept, At
    <2> QED
      BY <1>2, <2>1, <2>2, <2>3 DEF IInv, TotalIsSum, Sum, Kept
  <1>15. StatusAgrees'
    <2> SUFFICES ASSUME follows' # Astray, \A o \in Requests : ~Torn(o)'
                 PROVE  IF follows' = 0 THEN boq'.status \in {"draft", "submitted"}
                        ELSE boq'.status = reviews'[follows'].status
      BY DEF StatusAgrees
    <2>1. c.op # "assign"
      BY <1>4, <1>8 DEF Torn, At, Idle
    <2>2. ~c.overtaken
      BY <1>2, <2>1
    <2>3. CASE c.op = "edit"
      <3>1. boq'.status = boq.status /\ follows' = follows
        BY <1>1, <1>2, <1>3, <2>2, <2>3 DEF StatusAsStored
      <3>2. ~Torn(r)
        BY <2>3 DEF Torn
      <3>3. \A o \in Requests : ~Torn(o)
        BY <1>1, <1>2, <1>4, <3>2, GoEffect DEF Torn, At
      <3> QED
        BY <1>2, <3>1, <3>3 DEF IInv, StatusAgrees
    <2>4. CASE c.op = "quote"
      BY <1>1, <1>2, <1>3, <2>2, <2>4 DEF Staged
    <2>5. CASE c.op \in {"submit", "start", "decide"}
      <3>1. follows' = c.id /\ c.id \in 1..Len(reviews)
        BY <1>1, <1>2, <2>2, <2>5 DEF Staged
      <3>2. reviews[c.id].status = c.next
        BY <1>1, <2>2, <2>5 DEF StatusAsStored, Torn
      <3> QED
        BY <1>1, <1>2, <1>3, <3>1, <3>2
    <2> QED
      BY <1>5, <2>1, <2>3, <2>4, <2>5
  <1> QED
    BY <1>11, <1>12, <1>13, <1>14, <1>15 DEF IInv

\* A function on 1..n is a sequence of length n.
LEMMA FunctionIsSeq ==
    ASSUME NEW S, NEW n \in Nat, NEW f \in [1..n -> S]
    PROVE  f \in Seq(S) /\ Len(f) = n
  <1>1. f \in Seq(S)
    BY SeqDef
  <1>2. Len(f) \in Nat /\ 1..Len(f) = 1..n
    BY <1>1, LenProperties
  <1> QED
    BY <1>1, <1>2

\* One review more is being opened, or one less because it was created.
LEMMA RoomForOneMore ==
    ASSUME IInv, NEW r \in Requests, NEW call \in Call, NEW stored, Go(r, call, stored)
    PROVE  /\ ~At(r, "opening") /\ call.at = "opening" =>
                Cardinality(Opening') = Cardinality(Opening) + 1
           /\ At(r, "opening") /\ call.at # "opening" =>
                Cardinality(Opening') = Cardinality(Opening) - 1
           /\ Cardinality(Opening) \in Nat
  <1>1. IsFiniteSet(Opening)
    BY RequestsAssumption, FS_Subset DEF Opening
  <1>2. /\ req'[r] = call
        /\ \A o \in Requests \ {r} : req'[o].at = req[o].at
    BY GoEffect DEF IInv, TypeOK
  <1>3. ASSUME ~At(r, "opening"), call.at = "opening"
        PROVE  Cardinality(Opening') = Cardinality(Opening) + 1
    <2>1. Opening' = Opening \cup {r} /\ r \notin Opening
      BY <1>2, <1>3 DEF Opening, At
    <2> QED
      BY <1>1, <2>1, FS_AddElement
  <1>4. ASSUME At(r, "opening"), call.at # "opening"
        PROVE  Cardinality(Opening') = Cardinality(Opening) - 1
    <2>1. Opening' = Opening \ {r} /\ r \in Opening
      BY <1>2, <1>4 DEF Opening, At
    <2> QED
      BY <1>1, <2>1, FS_RemoveElement
  <1> QED
    BY <1>1, <1>3, <1>4, FS_CardinalityType

LEMMA SubmissionBegun ==
    ASSUME IInv, NEW r \in Requests, BeginSubmit(r)
    PROVE  IInv'
  <1>1. /\ req \in [Requests -> Call] /\ req[r].at = "idle" /\ Len(reviews) \in Nat
        /\ reviews \in [1..Len(reviews) -> Review] /\ reviews \in Seq(Review)
    BY LenProperties DEF IInv, TypeOK, BeginSubmit, At
  <1> DEFINE base == Begun("submit", "opening")
             call == [base EXCEPT !.next = "submitted"]
  <1>2. UNCHANGED <<quantity, boq, misled, follows>> /\ Go(r, call, {"status"})
    BY DEF BeginSubmit
  <1>3. /\ base \in Call /\ base.op = "submit" /\ base.at = "opening"
        /\ ~base.overtaken /\ ~base.behind
    BY BegunIsCall
  <1> HIDE DEF base
  <1>4. /\ call \in Call /\ call.op = "submit" /\ call.at = "opening"
        /\ ~call.overtaken /\ ~call.behind /\ call.next = "submitted"
    BY <1>3 DEF Call, Status
  <1> HIDE DEF call
  <1>5. req'[r] = call /\ req' \in [Requests -> Call]
    BY <1>1, <1>2, <1>4, GoEffect
  <1>6. /\ reviews' \in [1..Len(reviews) -> Review]
        /\ \A n \in 1..Len(reviews) : reviews'[n].status = reviews[n].status
    BY <1>1 DEF BeginSubmit, Review
  <1>7. reviews' \in Seq(Review) /\ Len(reviews') = Len(reviews)
    BY <1>1, <1>6, FunctionIsSeq
  <1>8. TypeOK'
    BY <1>2, <1>5, <1>7 DEF IInv, TypeOK
  <1>9. RoomForReviews'
    <2>1. Len(reviews) + Cardinality(Opening) < MaxReviews
      BY DEF BeginSubmit, Opening
    <2>2. Cardinality(Opening') = Cardinality(Opening) + 1 /\ Cardinality(Opening) \in Nat
      BY <1>1, <1>2, <1>4, RoomForOneMore DEF At
    <2> QED
      BY <1>1, <1>7, <2>1, <2>2, BoundsAssumption DEF RoomForReviews
  <1>10. /\ Staged(r)' /\ Frozen(r)' /\ ReviewAsRead(r)' /\ StatusAsStored(r)'
         /\ TotalAsRead(r)'
    BY <1>1, <1>4, <1>5 DEF Staged, Frozen, LineOps, ReviewAsRead, HoldsReview,
                            StatusAsStored, Torn, TotalAsRead, At
  <1>11. /\ \A o \in Requests : Staged(o)'
         /\ Relied'
    BY <1>1, <1>2, <1>4, <1>7, <1>10, OthersRely DEF Relied
  <1>12. \A o \in Requests \ {r} : req'[o].at = req[o].at /\ req'[o].op = req[o].op
    BY <1>1, <1>2, <1>4, GoEffect
  <1>13. TotalIsSum'
    <2>1. \A o \in Requests : Owing(o) => Owing(o)'
      BY <1>1, <1>12 DEF Owing
    <2> QED
      BY <1>2, <2>1 DEF IInv, TotalIsSum, Sum
  <1>14. StatusAgrees'
    <2>1. \A o \in Requests : Torn(o) => Torn(o)'
      BY <1>1, <1>12 DEF Torn, At
    <2>2. follows \in Astray..Len(reviews)
      BY DEF IInv, TypeOK
    <2>3. follows # Astray /\ follows # 0 => follows \in 1..Len(reviews)
      BY <1>1, <2>2 DEF Astray
    <2> QED
      BY <1>2, <1>6, <2>1, <2>3 DEF IInv, StatusAgrees
  <1> QED
    BY <1>8, <1>9, <1>11, <1>13, <1>14 DEF IInv

LEMMA ReviewCreated ==
    ASSUME IInv, NEW r \in Requests, CreateReview(r)
    PROVE  IInv'
  <1>1. /\ req \in [Requests -> Call] /\ req[r] \in Call /\ req[r].at = "opening"
        /\ reviews \in Seq(Review) /\ Len(reviews) \in Nat /\ Staged(r)
    BY DEF IInv, TypeOK, CreateReview, At
  <1> DEFINE new == [status |-> "submitted", active |-> TRUE]
             call == [req[r] EXCEPT !.at = "reading", !.id = Len(reviews')]
  <1>2. /\ UNCHANGED <<quantity, boq, misled, follows>> /\ Go(r, call, {"status"})
        /\ reviews' = Append(reviews, new)
    BY DEF CreateReview
  <1>3. /\ reviews' \in Seq(Review) /\ Len(reviews') = Len(reviews) + 1
        /\ reviews'[Len(reviews) + 1] = new
        /\ \A n \in 1..Len(reviews) : reviews'[n] = reviews[n]
    <2>1. new \in Review
      BY DEF Review, Status
    <2> QED
      BY <1>1, <1>2, <2>1, AppendProperties
  <1>4. Len(reviews') <= MaxReviews /\ Cardinality(Opening) \in Nat /\ Cardinality(Opening) >= 1
    <2>1. r \in Opening
      BY <1>1 DEF Opening, At
    <2>2. IsFiniteSet(Opening)
      BY RequestsAssumption, FS_Subset DEF Opening
    <2>3. Cardinality(Opening) \in Nat /\ Cardinality(Opening) # 0
      BY <2>1, <2>2, FS_CardinalityType, FS_EmptySet
    <2> QED
      BY <1>1, <1>3, <2>3, BoundsAssumption DEF IInv, RoomForReviews
  <1>5. /\ call \in Call /\ call.op = "submit" /\ call.at = "reading"
        /\ call.next = "submitted" /\ call.id = Len(reviews) + 1
        /\ call.overtaken = req[r].overtaken
    <2>1. Len(reviews') \in 0..MaxReviews
      BY <1>1, <1>3, <1>4, BoundsAssumption
    <2>2. req[r].op = "submit" /\ req[r].next = "submitted"
      BY <1>1 DEF Staged
    <2> QED
      BY <1>1, <1>3, <2>1, <2>2 DEF Call
  <1> HIDE DEF call
  <1>6. req'[r] = call /\ req' \in [Requests -> Call]
    BY <1>1, <1>2, <1>5, GoEffect
  <1>7. TypeOK'
    <2>1. follows' \in Astray..Len(reviews')
      BY <1>1, <1>2, <1>3 DEF IInv, TypeOK, Astray
    <2> QED
      BY <1>2, <1>3, <1>4, <1>6, <2>1 DEF IInv, TypeOK
  <1>8. RoomForReviews'
    <2>1. Cardinality(Opening') = Cardinality(Opening) - 1
      BY <1>1, <1>2, <1>5, RoomForOneMore DEF At
    <2> QED
      BY <1>1, <1>3, <1>4, <2>1, BoundsAssumption DEF IInv, RoomForReviews
  <1>9. /\ Staged(r)' /\ Frozen(r)' /\ ReviewAsRead(r)' /\ StatusAsStored(r)'
        /\ TotalAsRead(r)'
    BY <1>1, <1>3, <1>5, <1>6 DEF Staged, Frozen, LineOps, ReviewAsRead, HoldsReview,
                                  StatusAsStored, Torn, TotalAsRead, At
  <1>10. /\ \A o \in Requests : Staged(o)'
         /\ Relied'
    BY <1>1, <1>2, <1>3, <1>5, <1>9, OthersRely DEF Relied
  <1>11. TotalIsSum'
    <2>1. \A o \in Requests : Owing(o) => Owing(o)'
      BY <1>1, <1>2, <1>5, GoEffect DEF Owing
    <2> QED
      BY <1>2, <2>1 DEF IInv, TotalIsSum, Sum
  <1>12. StatusAgrees'
    BY <1>5, <1>6 DEF StatusAgrees, Torn, At
  <1> QED
    BY <1>7, <1>8, <1>10, <1>11, <1>12 DEF IInv

LEMMA ReviewStored ==
    ASSUME IInv, NEW r \in Requests, SaveReview(r)
    PROVE  IInv'
  <1>1. /\ req \in [Requests -> Call] /\ req[r] \in Call
        /\ req[r].at \in {"reviewing", "reassigning"}
        /\ reviews \in Seq(Review) /\ Len(reviews) \in Nat
        /\ Staged(r) /\ ReviewAsRead(r) /\ StatusAsStored(r)
    BY DEF IInv, TypeOK, SaveReview, Relied
  <1> DEFINE c == req[r]
             saved == [status |-> c.next, active |-> c.active]
             call == IF c.op = "assign" THEN Idle
                     ELSE [c EXCEPT !.at = "reading", !.active = FALSE]
  <1>2. /\ UNCHANGED <<quantity, boq, misled>> /\ Go(r, call, {"status"})
        /\ reviews' = [reviews EXCEPT ![c.id] = saved]
        /\ follows' = IF c.op # "assign" THEN follows
                      ELSE IF c.overtaken THEN Astray
                      ELSE IF At(r, "reassigning") THEN follows ELSE c.id
    BY DEF SaveReview
  <1>3. c.id \in 1..Len(reviews) /\ c.op \in {"start", "decide", "assign"}
    BY <1>1 DEF Staged
  <1>4. /\ reviews' \in Seq(Review) /\ Len(reviews') = Len(reviews)
        /\ reviews'[c.id] = saved
        /\ \A n \in 1..Len(reviews) : n # c.id => reviews'[n] = reviews[n]
    <2>1. saved \in Review
      BY <1>1 DEF Review, Call
    <2> QED
      BY <1>1, <1>2, <1>3, <2>1, ExceptSeq
  <1>5. /\ call \in Call
        /\ \/ call = Idle /\ c.op = "assign"
           \/ /\ c.op \in {"start", "decide"} /\ call.op = c.op /\ call.at = "reading"
              /\ call.next = c.next /\ call.id = c.id /\ call.overtaken = c.overtaken
    <2>1. CASE c.op = "assign"
      BY <2>1, IdleIsCall
    <2>2. CASE c.op # "assign"
      <3> DEFINE d == [c EXCEPT !.at = "reading", !.active = FALSE]
      <3>1. /\ d \in Call
            /\ d.op = c.op /\ d.at = "reading" /\ d.next = c.next
            /\ d.id = c.id /\ d.overtaken = c.overtaken
        BY <1>1 DEF Call
      <3>2. call = d
        BY <2>2
      <3> HIDE DEF d, call
      <3> QED
        BY <1>3, <2>2, <3>1, <3>2
    <2> QED
      BY <2>1, <2>2
  <1> HIDE DEF call
  <1>6. req'[r] = call /\ req' \in [Requests -> Call]
    BY <1>1, <1>2, <1>5, GoEffect
  <1>7. follows' \in Astray..Len(reviews)
    <2>1. follows \in Astray..Len(reviews) /\ Astray \in Astray..Len(reviews)
      BY <1>1 DEF IInv, TypeOK, Astray
    <2>2. c.id \in Astray..Len(reviews)
      BY <1>1, <1>3 DEF Astray
    <2> QED
      BY <1>2, <2>1, <2>2
  <1>8. TypeOK'
    BY <1>2, <1>4, <1>6, <1>7 DEF IInv, TypeOK
  <1>9. RoomForReviews'
    BY <1>2, <1>4, <1>5, RoomKept DEF Idle
  <1>10. /\ Staged(r)' /\ Frozen(r)' /\ ReviewAsRead(r)' /\ StatusAsStored(r)'
         /\ TotalAsRead(r)'
    <2>1. CASE call = Idle
      BY <1>6, <2>1 DEF Staged, Frozen, LineOps, ReviewAsRead, HoldsReview,
                        StatusAsStored, Torn, TotalAsRead, At, Idle
    <2>2. CASE call # Idle
      BY <1>1, <1>3, <1>4, <1>5, <1>6, <2>2
         DEF Staged, Frozen, LineOps, ReviewAsRead, HoldsReview, StatusAsStored, Torn,
             TotalAsRead, At
    <2> QED
      BY <2>1, <2>2
  <1>11. /\ \A o \in Requests : Staged(o)'
         /\ Relied'
    BY <1>1, <1>2, <1>4, <1>5, <1>10, OthersRely DEF Relied
  <1>12. \A o \in Requests \ {r} : req'[o].at = req[o].at /\ req'[o].op = req[o].op
    BY <1>1, <1>2, <1>5, GoEffect
  <1>13. TotalIsSum'
    <2>1. \A o \in Requests : Owing(o) => Owing(o)'
      BY <1>1, <1>12 DEF Owing
    <2> QED
      BY <1>2, <2>1 DEF IInv, TotalIsSum, Sum
  <1>14. StatusAgrees'
    <2> SUFFICES ASSUME follows' # Astray, \A o \in Requests : ~Torn(o)'
                 PROVE  IF follows' = 0 THEN boq'.status \in {"draft", "submitted"}
                        ELSE boq'.status = reviews'[follows'].status
      BY DEF StatusAgrees
    <2>1. c.op = "assign" /\ ~c.overtaken
      BY <1>2, <1>5, <1>6 DEF Torn, At
    <2>2. CASE c.at = "reassigning"
      <3>1. follows' = follows /\ reviews[c.id].status = c.next
        BY <1>1, <1>2, <2>1, <2>2 DEF ReviewAsRead, HoldsReview, At
      <3>2. \A o \in Requests : ~Torn(o)
        BY <1>12, <2>2 DEF Torn, At
      <3>3. \A n \in 1..Len(reviews) : reviews'[n].status = reviews[n].status
        BY <1>3, <1>4, <3>1
      <3>4. follows # 0 /\ follows # Astray => follows \in 1..Len(reviews)
        BY <1>1 DEF IInv, TypeOK, Astray
      <3> QED
        BY <1>2, <3>1, <3>2, <3>3, <3>4 DEF IInv, StatusAgrees
    <2>3. CASE c.at = "reviewing"
      <3>1. follows' = c.id
        BY <1>2, <2>1, <2>3 DEF At
      <3>2. boq.status = c.next
        BY <1>1, <2>1, <2>3 DEF StatusAsStored, Torn, At
      <3> QED
        BY <1>2, <1>3, <1>4, <3>1, <3>2
    <2> QED
      BY <1>1, <2>2, <2>3
  <1> QED
    BY <1>8, <1>9, <1>11, <1>13, <1>14 DEF IInv

LEMMA RequestLost ==
    ASSUME IInv, NEW r \in Requests, Lose(r)
    PROVE  IInv'
  <1>1. req \in [Requests -> Call] /\ Len(reviews) \in Nat
    BY DEF IInv, TypeOK
  <1>2. UNCHANGED <<quantity, boq, reviews>> /\ Go(r, Idle, {})
    BY DEF Lose
  <1>3. req'[r] = Idle /\ req' \in [Requests -> Call]
    BY <1>1, <1>2, IdleIsCall, GoEffect
  <1>4. TypeOK'
    <2>1. misled' \in BOOLEAN /\ follows' \in Astray..Len(reviews)
      BY <1>1 DEF Lose, IInv, TypeOK, Astray, Owing
    <2> QED
      BY <1>2, <1>3, <2>1 DEF IInv, TypeOK
  <1>5. RoomForReviews'
    BY <1>2, IdleIsCall, RoomKept DEF Idle
  <1>6. /\ Staged(r)' /\ Frozen(r)' /\ ReviewAsRead(r)' /\ StatusAsStored(r)'
        /\ TotalAsRead(r)'
    BY <1>3 DEF Staged, Frozen, LineOps, ReviewAsRead, HoldsReview, StatusAsStored, Torn,
                TotalAsRead, At, Idle
  <1>7. /\ \A o \in Requests : Staged(o)'
        /\ Relied'
    BY <1>1, <1>2, <1>6, IdleIsCall, OthersRely DEF Relied
  <1>8. \A o \in Requests \ {r} : req'[o].at = req[o].at /\ req'[o].op = req[o].op
    BY <1>1, <1>2, IdleIsCall, GoEffect
  <1>9. TotalIsSum'
    <2>1. ~misled' => ~Owing(r) /\ ~misled
      BY DEF Lose
    <2>2. ~Owing(r) => \A o \in Requests : Owing(o) => Owing(o)'
      BY <1>8 DEF Owing
    <2> QED
      BY <1>2, <2>1, <2>2 DEF IInv, TotalIsSum, Sum
  <1>10. StatusAgrees'
    <2>1. follows' # Astray => ~Torn(r) /\ follows' = follows
      BY DEF Lose
    <2>2. ~Torn(r) => \A o \in Requests : Torn(o) => Torn(o)'
      BY <1>8 DEF Torn, At
    <2> QED
      BY <1>2, <2>1, <2>2 DEF IInv, StatusAgrees
  <1> QED
    BY <1>4, <1>5, <1>7, <1>9, <1>10 DEF IInv

----------------------------------------------------------------------------
(* The invariant is inductive.                                              *)

LEMMA InitIInv == Init => IInv
  <1> SUFFICES ASSUME Init PROVE IInv
    OBVIOUS
  <1>1. \A r \in Requests : req[r] = Idle
    BY DEF Init
  <1>2. {Sum} \in Totals /\ NoTotal \in Totals /\ {Sum} # NoTotal
    BY SumIsTotal DEF Init, Totals, NoTotal
  <1>3. TypeOK
    <2>1. boq \in Boq
      BY <1>2 DEF Init, Boq, Status
    <2>2. reviews \in Seq(Review) /\ Len(reviews) = 0
      BY DEF Init
    <2>3. 0 <= MaxReviews /\ 0 \in Astray..0
      BY BoundsAssumption DEF Astray
    <2> QED
      BY <2>1, <2>2, <2>3, IdleIsCall DEF Init, TypeOK
  <1>4. RoomForReviews
    <2>1. Opening = {}
      BY <1>1 DEF Opening, At, Idle
    <2>2. Cardinality(Opening) = 0 /\ Len(reviews) = 0
      BY <2>1, FS_EmptySet DEF Init
    <2> QED
      BY <2>2, BoundsAssumption DEF RoomForReviews
  <1>5. \A r \in Requests : Staged(r)
    <2>1. Idle.at = "idle" /\ Idle.op = "none"
      BY DEF Idle
    <2> QED
      BY <1>1, <2>1 DEF Staged
  <1>6. Relied
    BY <1>1 DEF Relied, Frozen, LineOps, ReviewAsRead, HoldsReview, StatusAsStored, Torn,
                TotalAsRead, At, Idle
  <1>7. TotalIsSum
    BY DEF Init, TotalIsSum, Kept, NoTotal
  <1>8. StatusAgrees
    BY DEF Init, StatusAgrees, Astray
  <1> QED
    BY <1>3, <1>4, <1>5, <1>6, <1>7, <1>8 DEF IInv

LEMMA NextIInv == IInv /\ [Next]_vars => IInv'
  <1> SUFFICES ASSUME IInv, [Next]_vars PROVE IInv'
    OBVIOUS
  <1>1. CASE Next
    <2> PICK r \in Requests :
           \/ BeginLines(r) \/ CreateLine(r) \/ FindLine(r) \/ WriteLine(r)
           \/ SumLines(r) \/ SetTotal(r)
           \/ BeginEdit(r) \/ BeginQuote(r) \/ ReadBoq(r) \/ SaveBoq(r)
           \/ BeginSubmit(r) \/ CreateReview(r) \/ BeginStart(r) \/ BeginDecide(r)
           \/ BeginAssign(r) \/ SaveReview(r) \/ Lose(r)
      BY <1>1 DEF Next
    <2> QED
      BY LinesBegun, LineFound, LinesSummed, SaveBegun, BoqRead, ReviewBegun, LinesStored,
         TotalStored, BoqStored, SubmissionBegun, ReviewCreated, ReviewStored, RequestLost
  <1>2. CASE UNCHANGED vars
    BY <1>2 DEF vars, IInv, TypeOK, RoomForReviews, Opening, Staged, Relied, Frozen, LineOps,
                ReviewAsRead, HoldsReview, StatusAsStored, Torn, TotalAsRead, TotalIsSum,
                Owing, StatusAgrees, Sum, At
  <1> QED
    BY <1>1, <1>2

\* The inductive invariant holds in every reachable state, whatever requests
\* about lines, submission and decisions overlap or die.
THEOREM AlwaysIInv == Spec => []IInv
  BY InitIInv, NextIInv, PTL DEF Spec

\* Every document, and every request under way, has its type: a BOQ never has
\* a total that no lines add up to, nor more reviews than were ever opened.
THEOREM TypeCorrect == Spec => []TypeOK
  BY AlwaysIInv, PTL DEF IInv

\* Once every request that stored lines has totalled them, the BOQ has the sum
\* of its lines, unless the total was last stored from an old read or a
\* request died before it stored it.
THEOREM TotalRight == Spec => []TotalIsSum
  BY AlwaysIInv, PTL DEF IInv

\* Once no request is between a review and its BOQ, the two agree, unless one
\* that was overtaken ended last or one died in between.
THEOREM StatusRight == Spec => []StatusAgrees
  BY AlwaysIInv, PTL DEF IInv

----------------------------------------------------------------------------
(* What no step does.                                                      *)

\* No edit of the lines, of the total or of the BOQ itself changes what has
\* been approved, but one that a status was stored across.
THEOREM ApprovedStays == Spec => ApprovedIsFrozen
  <1>1. IInv =>
          [boq.status = "approved" /\ <<quantity, boq>>' # <<quantity, boq>> =>
             \A r \in Requests :
                Stepped(r) /\ req[r].op \in LineOps => req[r].overtaken]_vars
    BY DEF IInv, Relied, Frozen
  <1> QED
    BY <1>1, AlwaysIInv, PTL DEF ApprovedIsFrozen, LineOps

\* A step that unmakes a decision, or makes active again what a submission had
\* set aside, is the save of a review by a request that was overtaken.
LEMMA DecisionUnmade ==
    ASSUME IInv, Next, NEW n \in DOMAIN reviews,
           \/ reviews[n].status \in Decisions /\ reviews'[n].status # reviews[n].status
           \/ ~reviews[n].active /\ reviews'[n].active
    PROVE  \E r \in Requests : Stepped(r) /\ req[r].overtaken
  <1>1. reviews \in Seq(Review) /\ n \in 1..Len(reviews) /\ reviews[n] \in Review
    BY DEF IInv, TypeOK
  <1>2. PICK r \in Requests : BeginSubmit(r) \/ CreateReview(r) \/ SaveReview(r)
    BY DEF Next, BeginLines, CreateLine, FindLine, WriteLine, SumLines, SetTotal, BeginEdit,
           BeginQuote, ReadBoq, SaveBoq, BeginStart, BeginDecide, BeginAssign, Lose
  <1>3. ~BeginSubmit(r)
    <2> SUFFICES ASSUME BeginSubmit(r) PROVE FALSE
      OBVIOUS
    <2>1. reviews'[n] = [reviews[n] EXCEPT !.active = FALSE]
      BY DEF BeginSubmit
    <2> QED
      BY <1>1, <2>1 DEF Review
  <1>4. ~CreateReview(r)
    BY <1>1 DEF CreateReview
  <1>5. SaveReview(r)
    BY <1>2, <1>3, <1>4
  <1>6. /\ req[r].at \in {"reviewing", "reassigning"}
        /\ reviews' = [reviews EXCEPT ![req[r].id] =
                          [status |-> req[r].next, active |-> req[r].active]]
    BY <1>5 DEF SaveReview
  <1>7. n = req[r].id
    BY <1>1, <1>6
  <1>8. reviews'[n].active = req[r].active
    BY <1>1, <1>6, <1>7
  <1>9. req[r].overtaken
    <2> SUFFICES ASSUME ~req[r].overtaken PROVE FALSE
      BY DEF IInv, TypeOK, Call
    <2> QED
      BY <1>6, <1>7, <1>8 DEF IInv, Relied, ReviewAsRead, HoldsReview
  <1>10. Stepped(r)
    <2> DEFINE call == IF req[r].op = "assign" THEN Idle
                       ELSE [req[r] EXCEPT !.at = "reading", !.active = FALSE]
    <2>1. req'[r] = call
      BY <1>5 DEF SaveReview, Go
    <2>2. call.at \in {"idle", "reading"}
      <3>1. req[r] \in Call
        BY DEF IInv, TypeOK
      <3>2. [req[r] EXCEPT !.at = "reading", !.active = FALSE].at = "reading"
        BY <3>1 DEF Call
      <3> QED
        BY <3>2 DEF Idle
    <2> HIDE DEF call
    <2> QED
      BY <1>6, <2>1, <2>2 DEF Stepped
  <1> QED
    BY <1>9, <1>10

\* A decision on a review is final, and a review set aside stays so, but for a
\* save by a request that another overtook.
THEOREM DecisionsFinal == Spec => DecisionsStand
  <1>1. IInv /\ [Next]_vars =>
          [\A n \in DOMAIN reviews :
             \/ reviews[n].status \in Decisions /\ reviews'[n].status # reviews[n].status
             \/ ~reviews[n].active /\ reviews'[n].active
             => \E r \in Requests : Stepped(r) /\ req[r].overtaken]_vars
    BY DecisionUnmade
  <1> QED
    BY <1>1, AlwaysIInv, PTL DEF Spec, DecisionsStand
=============================================================================
