--------------------------- MODULE JobAllocation ---------------------------
(***************************************************************************)
(* Stock control's allocation of a stock item to a job card.               *)
(*                                                                         *)
(*   JobCardAllocationService  allocateStock, approveOverAllocation,       *)
(*                             rejectOverAllocation, undoAllocation,       *)
(*                             uploadAllocationPhoto                       *)
(*   StockAllocationService    allocatePacks, deallocate, confirmIssuance  *)
(*   MovementService           createManualAdjustment                      *)
(*                                                                         *)
(* Every request first reads, outside any transaction, the allocation it   *)
(* is about (or, to allocate, those that exist); later it saves the whole  *)
(* document it read.  Where stock moves, the save, the $inc of the stock   *)
(* item and the movement record are one transaction whose first write is   *)
(* the $inc, so a concurrent change of the item makes it start over: the   *)
(* transaction is one step here, what was read before it is not re-read.   *)
(*                                                                         *)
(* One stock item and one job card whose coating analysis allows Allowed   *)
(* litres of it.                                                           *)
(***************************************************************************)
EXTENDS Integers, Sequences, FiniteSets, FiniteSetsExt

CONSTANTS
    Opening,            \* quantity of the stock item at the start
    Allowed,            \* allowedLitres of the matching coat
    Quantities,         \* quantities a request may name
    Workers,            \* concurrent requests
    MaxAllocations,     \* bound on allocations ever created
    MaxMovements        \* bound on movements ever recorded

ASSUME QuantitiesAssumption == Quantities \subseteq Nat \ {0}
ASSUME StockAssumption == Opening \in Nat /\ Allowed \in Nat
ASSUME BoundsAssumption == MaxAllocations \in Nat /\ MaxMovements \in Nat

VARIABLES
    stock,      \* StockItem.quantity
    alloc,      \* StockAllocation documents, by id
    movements,  \* StockMovement documents, in order
    stale,      \* allocations a copy was saved over that others had outdated (history)
    overtaken,  \* allocations stored after others had come to count since the
                \* check of the allowance (history)
    request     \* local state of each worker's request

vars == <<stock, alloc, movements, stale, overtaken, request>>

\* packs: created by allocatePacks, which does not look at the allowance.
Allocation == [qty : Quantities, packs : BOOLEAN, pending : BOOLEAN, rejected : BOOLEAN,
               approved : BOOLEAN, undone : BOOLEAN, issued : BOOLEAN]

MovementType == {"IN", "OUT", "ADJUSTMENT"}

\* ref is the allocation the movement refers to, 0 for a manual one.
Movement == [type : MovementType, qty : Nat, ref : Nat]

Operation == {"approve", "reject", "undo", "deallocate", "issue", "photo"}

Request == [kind : Operation, id : Nat, copy : Allocation]
             \cup [kind : {"allocate"}, qty : Quantities, pending : BOOLEAN, counted : SUBSET Nat]
             \cup [kind : {"idle"}]

Idle == [kind |-> "idle"]

Init ==
    /\ stock = Opening
    /\ alloc = << >>
    /\ movements = << >>
    /\ stale = {}
    /\ overtaken = {}
    /\ request = [w \in Workers |-> Idle]

----------------------------------------------------------------------------

Record(type, qty, ref) ==
    /\ Len(movements) < MaxMovements
    /\ movements' = Append(movements, [type |-> type, qty |-> qty, ref |-> ref])

NewAllocation(qty, packs, pending) ==
    [qty |-> qty, packs |-> packs, pending |-> pending, rejected |-> FALSE,
     approved |-> FALSE, undone |-> FALSE, issued |-> FALSE]

\* The quantities of some documents, added up.
Quantity(docs, ids) == MapThenSumSet(LAMBDA d : docs[d].qty, ids)

Finish(w) == request' = [request EXCEPT ![w] = Idle]

\* Variant of Take: the decrement is not guarded by the quantity in stock.
TakeUnguarded(qty, ref) ==
    /\ stock' = stock - qty
    /\ Record("OUT", qty, ref)

\* decrementQuantityForCompany with enforceNonNegative, and its OUT movement.
Take(qty, ref) ==
    /\ stock >= qty
    /\ stock' = stock - qty
    /\ Record("OUT", qty, ref)

\* Variant of PutBack: no movement is recorded.
PutBackSilently(qty, ref) ==
    /\ stock' = stock + qty
    /\ UNCHANGED movements

\* incrementQuantityForCompany and its IN movement.
PutBack(qty, ref) ==
    /\ stock' = stock + qty
    /\ Record("IN", qty, ref)

----------------------------------------------------------------------------
(* allocateStock.                                                          *)

\* Variant of Counting: what was issued is no longer counted.
CountingUnissued ==
    {a \in DOMAIN alloc : ~alloc[a].pending /\ ~alloc[a].rejected /\ ~alloc[a].issued}

\* findActiveExistingByJobAndStockItem: undone allocations still count.
Counting == {a \in DOMAIN alloc : ~alloc[a].pending /\ ~alloc[a].rejected}

\* validateAllocationEntities and checkOverAllocation.
AllocateRead(w) ==
    /\ request[w] = Idle
    /\ \E qty \in Quantities :
           /\ stock >= qty
           /\ request' = [request EXCEPT ![w] =
                            [kind |-> "allocate", qty |-> qty, counted |-> Counting,
                             pending |-> Quantity(alloc, Counting) + qty > Allowed]]
    /\ UNCHANGED <<stock, alloc, movements, stale, overtaken>>

\* An allocation over the allowance waits for a manager and takes nothing.
AllocatePending(w) ==
    /\ request[w].kind = "allocate"
    /\ request[w].pending
    /\ Len(alloc) < MaxAllocations
    /\ alloc' = Append(alloc, NewAllocation(request[w].qty, FALSE, TRUE))
    /\ Finish(w)
    /\ UNCHANGED <<stock, movements, stale, overtaken>>

\* Nothing of the check is repeated: others may have come to count meanwhile.
AllocateTake(w) ==
    /\ request[w].kind = "allocate"
    /\ ~request[w].pending
    /\ Len(alloc) < MaxAllocations
    /\ Take(request[w].qty, Len(alloc) + 1)
    /\ alloc' = Append(alloc, NewAllocation(request[w].qty, FALSE, FALSE))
    /\ overtaken' = IF Counting \subseteq request[w].counted
                      THEN overtaken ELSE overtaken \cup {Len(alloc) + 1}
    /\ Finish(w)
    /\ UNCHANGED stale

\* allocatePacks: the read of the item only repeats the guard of Take.
AllocatePacks ==
    /\ Len(alloc) < MaxAllocations
    /\ \E qty \in Quantities :
           /\ Take(qty, Len(alloc) + 1)
           /\ alloc' = Append(alloc, NewAllocation(qty, TRUE, FALSE))
    /\ UNCHANGED <<stale, overtaken, request>>

----------------------------------------------------------------------------
(* Requests about an existing allocation: read it, check it ...            *)

Accepts(kind, a) ==
    \/ kind = "approve" /\ a.pending /\ stock >= a.qty
    \/ kind = "reject" /\ a.pending
    \/ kind = "undo" /\ ~a.undone /\ ~a.pending
    \/ kind = "deallocate" /\ ~a.undone /\ ~a.issued
    \/ kind = "issue" /\ ~a.undone /\ ~a.issued
    \/ kind = "photo"

ReadAllocation(w, kind) ==
    /\ request[w] = Idle
    /\ \E id \in DOMAIN alloc :
           /\ Accepts(kind, alloc[id])
           /\ request' = [request EXCEPT ![w] =
                            [kind |-> kind, id |-> id, copy |-> alloc[id]]]
    /\ UNCHANGED <<stock, alloc, movements, stale, overtaken>>

\* What $set of a copy leaves: a date the copy does not have stays as stored.
Kept(copy, stored) ==
    [copy EXCEPT !.rejected = @ \/ stored.rejected, !.approved = @ \/ stored.approved,
                 !.issued = @ \/ stored.issued]

\* ... then save the copy, changed; nothing is checked again.
SaveCopy(w, copy) ==
    /\ alloc' = [alloc EXCEPT ![request[w].id] = Kept(copy, @)]
    /\ stale' = IF alloc[request[w].id] # request[w].copy
                  THEN stale \cup {request[w].id} ELSE stale
    /\ Finish(w)
    /\ UNCHANGED overtaken

\* Variant of Approve: the allocation is approved but nothing is taken.
ApproveOnPaper(w) ==
    /\ request[w].kind = "approve"
    /\ SaveCopy(w, [request[w].copy EXCEPT !.pending = FALSE, !.approved = TRUE])
    /\ UNCHANGED <<stock, movements>>

Approve(w) ==
    /\ request[w].kind = "approve"
    /\ Take(request[w].copy.qty, request[w].id)
    /\ SaveCopy(w, [request[w].copy EXCEPT !.pending = FALSE, !.approved = TRUE])

Reject(w) ==
    /\ request[w].kind = "reject"
    /\ SaveCopy(w, [request[w].copy EXCEPT !.pending = FALSE, !.rejected = TRUE])
    /\ UNCHANGED <<stock, movements>>

\* undoAllocation and deallocate.
Undo(w) ==
    /\ request[w].kind \in {"undo", "deallocate"}
    /\ PutBack(request[w].copy.qty, request[w].id)
    /\ SaveCopy(w, [request[w].copy EXCEPT !.undone = TRUE])

\* confirmIssuance.
Issue(w) ==
    /\ request[w].kind = "issue"
    /\ SaveCopy(w, [request[w].copy EXCEPT !.issued = TRUE])
    /\ UNCHANGED <<stock, movements>>

\* uploadAllocationPhoto saves what it read, after the upload.
SavePhoto(w) ==
    /\ request[w].kind = "photo"
    /\ SaveCopy(w, request[w].copy)
    /\ UNCHANGED <<stock, movements>>

\* The request fails: too little stock when the transaction starts, a lost
\* connection, a crash.
Lose(w) ==
    /\ request[w] # Idle
    /\ Finish(w)
    /\ UNCHANGED <<stock, alloc, movements, stale, overtaken>>

----------------------------------------------------------------------------
(* createManualAdjustment, by movement type.                               *)

ManualIn ==
    /\ \E qty \in Quantities : PutBack(qty, 0)
    /\ UNCHANGED <<alloc, stale, overtaken, request>>

\* More than there is empties the item; the movement names what was asked.
ManualOut ==
    /\ \E qty \in Quantities :
           /\ stock' = IF stock >= qty THEN stock - qty ELSE 0
           /\ Record("OUT", qty, 0)
    /\ UNCHANGED <<alloc, stale, overtaken, request>>

ManualSet ==
    /\ \E qty \in Quantities \cup {0} :
           /\ stock' = qty
           /\ Record("ADJUSTMENT", qty, 0)
    /\ UNCHANGED <<alloc, stale, overtaken, request>>

----------------------------------------------------------------------------

RequestStep(w) ==
    \/ AllocateRead(w)
    \/ AllocatePending(w)
    \/ AllocateTake(w)
    \/ \E kind \in Operation : ReadAllocation(w, kind)
    \/ Approve(w)
    \/ Reject(w)
    \/ Undo(w)
    \/ Issue(w)
    \/ SavePhoto(w)

Next ==
    \/ AllocatePacks
    \/ ManualIn
    \/ ManualOut
    \/ ManualSet
    \/ \E w \in Workers : RequestStep(w) \/ Lose(w)

Spec == Init /\ [][Next]_vars

----------------------------------------------------------------------------
(* Properties.                                                             *)

\* Whatever overlaps, the stock item never goes below zero.
TypeOK ==
    /\ stock \in Nat
    /\ alloc \in Seq(Allocation)
    /\ movements \in Seq(Movement)
    /\ stale \subseteq DOMAIN alloc /\ overtaken \subseteq DOMAIN alloc
    /\ request \in [Workers -> Request]

\* No quantity changes without a record of which way it went: a step that
\* moves the stock adds a movement to the audit trail, an IN for more, an OUT
\* for less, or an ADJUSTMENT.
ChangesAreRecorded ==
    [][stock' # stock =>
         /\ Len(movements') = Len(movements) + 1
         /\ LET type == movements'[Len(movements')].type
            IN  \/ type = "ADJUSTMENT"
                \/ type = "IN" /\ stock' > stock
                \/ type = "OUT" /\ stock' < stock]_vars

Total(type, ref) ==
    Quantity(movements,
             {m \in DOMAIN movements : movements[m].type = type /\ movements[m].ref = ref})

\* As long as no copy is saved over an allocation that others have changed
\* since it was read, and nobody undoes what had never been taken, the audit
\* trail of the allocation agrees with its status, whatever happens to other
\* allocations: what was taken for it and not put back is its quantity while
\* it stands, and nothing while it waits for approval and after it was
\* rejected or undone.
TrailMatchesStatus ==
    \A a \in DOMAIN alloc \ stale :
        LET taken == ~alloc[a].pending /\ ~alloc[a].rejected
        IN  (alloc[a].undone => taken)
              => Total("OUT", a) - Total("IN", a) =
                   IF taken /\ ~alloc[a].undone THEN alloc[a].qty ELSE 0

\* Without a manager's approval allocateStock gives a job no more than its
\* coating analysis allows, what is given back included and whatever copies
\* are saved over the allocations afterwards.  Left out are allocations stored
\* after another came to count (was allocated, approved or taken from a pack)
\* since their request looked, whether or not the two exceed the allowance.
AllowanceHeld ==
    Quantity(alloc, {a \in DOMAIN alloc \ overtaken : /\ ~alloc[a].packs
                                                      /\ ~alloc[a].pending
                                                      /\ ~alloc[a].rejected
                                                      /\ ~alloc[a].approved}) <= Allowed

=============================================================================
