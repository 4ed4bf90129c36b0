--------------------------- MODULE JobCardWorkflow ---------------------------
(***************************************************************************)
(* The workflow of one job card: stock-control/services/                   *)
(* job-card-workflow.service.ts (foreground stages), background-step       *)
(* .service.ts and qa-process.service.ts (background steps that start from *)
(* a stage), job-card-version.service.ts (amendments) and the saves of the *)
(* card by job-card.service.ts.                                            *)
(*                                                                         *)
(* A company orders its stages 1..LastStage; 0 is draft, LastStage + 1 is  *)
(* file closed. Each stage has a sequence of background steps it triggers: *)
(* those of one colour, and those without, are branches of their own, and  *)
(* some do not block (rejoinAtStep is set). Requests overlap at every      *)
(* await; a step is one write of the database, or the reads that a         *)
(* handler's checks are made on (approveStep makes three, one after        *)
(* another: taken as one). The stage moves by compare-and-set, but other   *)
(* handlers save the whole card. Several completions of one step count as  *)
(* one. The card is ACTIVE; users, notifications, signatures, outcomes and *)
(* edits of the configuration are left out.                                *)
(***************************************************************************)
EXTENDS Integers, Sequences, FiniteSets, SequencesExt

CONSTANTS Requests,
          LastStage,       \* number of foreground stages
          Siblings,        \* background steps of each stage, in order
          Colour,          \* the branch colour of each
          NoColour,
          Rejoining,       \* those that do not block the next stage
          StockSteps,      \* those "use current stock" completes at once
          QaCheck, QaReview, Repairs,
          BatchCerts,      \* qc_batch_certs, where a company has that step
          Downstream,      \* qa_final_check and the data book, as far as it has them
          NoStep

Stages == 1..LastStage
Draft == 0
Closed == LastStage + 1
Steps == UNION {ToSet(Siblings[k]) : k \in Stages}
QaSteps == {QaReview, Repairs} \union BatchCerts  \* what qa_check skips where nothing is coated
Reset == <<Repairs, QaReview>> \o Downstream      \* what is done again after repairs

ASSUME WorkflowAssumption ==
    /\ LastStage \in Nat \ {0}
    /\ DOMAIN Siblings = Stages
    /\ {QaCheck, QaReview, Repairs} \union BatchCerts \union StockSteps \subseteq Steps
    /\ Downstream \in Seq(Steps)
    /\ QaCheck \notin QaSteps \union ToSet(Reset)
    /\ DOMAIN Colour = Steps
    /\ NoStep \notin Steps /\ IsFiniteSet(Steps)

VARIABLES status,     \* workflowStatus of the card
          approved,   \* stages that have an approval record
          done,       \* how each background step was completed
          rejected,   \* the latest review decision is a rejection
          coated,     \* the coating analysis finds rubber or paint
          req,        \* requests under way
          crossed,    \* history: a save or an amendment undid another's move
          withdrawn,  \* history: steps whose completion was removed, and not made again
          overtaken,  \* history: requests whose check a removal has overtaken
          overlapped  \* history: steps completed while a request was removing others

marks == <<withdrawn, overlapped, overtaken>>
vars == <<status, approved, done, rejected, coated, req, crossed, marks>>

\* How a step was completed, the stronger first: of several completions of one
\* step, the strongest is the last to be removed.
Hows == <<"manual", "accepted", "inapplicable", "none">>

\* A request: what comes next, the stage of the card it read and the one it will
\* write, the step and the steps it is about.
Call == [at : {"idle", "signing", "moving", "rejecting", "saving", "amending", "clearing",
               "drafting", "completing", "checked", "skipping", "reversing", "bulk",
               "repaired", "withdrawing", "accepting", "sparing", "reviewing"},
         read : 0..Closed, write : 0..Closed,
         step : Steps \union {NoStep}, todo : Seq(Steps)]
Idle == [at |-> "idle", read |-> Draft, write |-> Draft, step |-> NoStep, todo |-> <<>>]

TypeOK ==
    /\ status \in 0..Closed
    /\ approved \subseteq Stages
    /\ done \in [Steps -> ToSet(Hows)]
    /\ {rejected, coated} \subseteq BOOLEAN
    /\ req \in [Requests -> Call]
    /\ crossed \in BOOLEAN
    /\ withdrawn \subseteq Steps /\ overlapped \subseteq Steps /\ overtaken \subseteq Requests

Init ==
    /\ status = Draft /\ approved = {} /\ done = [s \in Steps |-> "none"]
    /\ rejected = FALSE /\ coated \in BOOLEAN
    /\ req = [r \in Requests |-> Idle]
    /\ crossed = FALSE /\ withdrawn = {} /\ overlapped = {} /\ overtaken = {}

-----------------------------------------------------------------------------
Done == {s \in Steps : done[s] # "none"}

Weight(how) == CHOOSE i \in DOMAIN Hows : Hows[i] = how

\* Completions of some steps are created.
Added(steps, how) ==
    [s \in Steps |-> IF s \in steps /\ Weight(how) < Weight(done[s]) THEN how ELSE done[s]]

\* Steps of the stage a step belongs to, of the same branch and in order.
Branch(s) ==
    LET k == CHOOSE k \in Stages : s \in ToSet(Siblings[k])
    IN SelectSeq(Siblings[k], LAMBDA t : Colour[t] = Colour[s])

\* The step that must be complete first.
Before(s) == LET b == Branch(s)
                 i == CHOOSE i \in DOMAIN b : b[i] = s
             IN IF i = 1 THEN NoStep ELSE b[i - 1]

InOrder(s) == Before(s) \in Done \union {NoStep}

\* Steps of a stage that block the approval of the next one.
Blocking(k) == IF k \in Stages THEN ToSet(Siblings[k]) \ Rejoining ELSE {}

\* Coloured steps of a stage that has others too: they block its own approval.
PhaseOne(k) ==
    LET coloured == {s \in ToSet(Siblings[k]) : Colour[s] # NoColour}
    IN IF coloured = ToSet(Siblings[k]) THEN {} ELSE coloured

Become(r, stage) == req' = [req EXCEPT ![r].at = stage]
End(r) == req' = [req EXCEPT ![r] = Idle]

-----------------------------------------------------------------------------
\* A bug: only the steps of the stage itself are looked at.
BeginApproveUngated(r) ==
    /\ req[r].at = "idle" /\ status \in Stages
    /\ PhaseOne(status) \subseteq Done
    /\ req' = [req EXCEPT ![r].at = "signing", ![r].read = status]
    /\ UNCHANGED <<status, approved, done, rejected, coated, crossed, marks>>

\* approveStep reads the card and the completions: the background steps before
\* this stage, and those of its first phase, must be complete.
BeginApprove(r) ==
    /\ req[r].at = "idle" /\ status \in Stages
    /\ Blocking(status - 1) \union PhaseOne(status) \subseteq Done
    /\ req' = [req EXCEPT ![r].at = "signing", ![r].read = status]
    /\ UNCHANGED <<status, approved, done, rejected, coated, crossed, marks>>

\* The approval record is made before the card moves.
RecordApproval(r) ==
    /\ req[r].at = "signing"
    /\ approved' = approved \union {req[r].read}
    /\ Become(r, "moving")
    /\ UNCHANGED <<status, done, rejected, coated, crossed, marks>>

\* A bug: the card is moved whatever it says now.
MoveOnUnmatched(r) ==
    /\ req[r].at = "moving"
    /\ status' = status + 1
    /\ End(r)
    /\ UNCHANGED <<approved, done, rejected, coated, crossed, marks>>

\* updateWorkflowStatusIfMatches; a card that has moved is left, and the
\* request fails.
MoveOn(r) ==
    /\ req[r].at = "moving"
    /\ status' = IF status = req[r].read THEN status + 1 ELSE status
    /\ End(r)
    /\ UNCHANGED <<approved, done, rejected, coated, crossed, marks>>

\* rejectStep; no approval is ever pending, so that no record changes.
BeginReject(r) ==
    /\ req[r].at = "idle" /\ status \in Stages
    /\ req' = [req EXCEPT ![r].at = "rejecting", ![r].read = status]
    /\ UNCHANGED <<status, approved, done, rejected, coated, crossed, marks>>

MoveBack(r) ==
    /\ req[r].at = "rejecting"
    /\ status' = IF status = req[r].read THEN 1 ELSE status
    /\ End(r)
    /\ UNCHANGED <<approved, done, rejected, coated, crossed, marks>>

-----------------------------------------------------------------------------
\* A handler reads the card to save it whole: an edit, or the start of
\* the workflow of a draft (an upload, the activation, or the repair made by a
\* status query).
BeginSave(r) ==
    /\ req[r].at = "idle"
    /\ \E to \in {status} \union (IF status = Draft THEN {1} ELSE {}) :
          req' = [req EXCEPT ![r].at = "saving", ![r].read = status, ![r].write = to]
    /\ UNCHANGED <<status, approved, done, rejected, coated, crossed, marks>>

\* createAmendment reads the card, too.
BeginAmend(r) ==
    /\ req[r].at = "idle"
    /\ req' = [req EXCEPT ![r].at = "amending", ![r].read = status, ![r].write = status]
    /\ UNCHANGED <<status, approved, done, rejected, coated, crossed, marks>>

\* The whole card is written, its stage as it was read.
SaveCard(r) ==
    /\ req[r].at \in {"saving", "amending"}
    /\ status' = req[r].write
    /\ crossed' = (crossed \/ status # req[r].read)
    /\ IF req[r].at = "saving" THEN End(r)
       ELSE req' = [req EXCEPT ![r] = [Idle EXCEPT !.at = "clearing"]]
    /\ UNCHANGED <<approved, done, rejected, coated, marks>>

\* resetWorkflow removes the approvals, and then sends the card to draft; the
\* completed background steps stay.
ClearApprovals(r) ==
    /\ req[r].at = "clearing"
    /\ approved' = {}
    /\ crossed' = (crossed \/ \E o \in Requests \ {r} :
                                 req[o].at \in {"moving", "saving", "amending", "drafting"})
    /\ Become(r, "drafting")
    /\ UNCHANGED <<status, done, rejected, coated, marks>>

BackToDraft(r) ==
    /\ req[r].at = "drafting"
    /\ status' = Draft
    /\ End(r)
    /\ UNCHANGED <<approved, done, rejected, coated, crossed, marks>>

-----------------------------------------------------------------------------
\* completeStep: the step is not complete, and the one before it is.  Nothing
\* asks whether the card has come to the stage.
BeginComplete(r) ==
    /\ req[r].at = "idle"
    /\ \E s \in Steps \ Done :
          InOrder(s) /\ req' = [req EXCEPT ![r].at = "completing", ![r].step = s]
    /\ UNCHANGED <<status, approved, done, rejected, coated, crossed, marks>>

\* A request is still to remove the completion of s in a reset.
Removes(c, s) == c.at = "withdrawing" /\ s \in ToSet(c.todo)
Doomed(s) == \E o \in Requests : Removes(req[o], s)

\* A request is still to find out what was wrongly skipped, or to reverse it.
Reverses(c) ==
    \/ c.at = "completing" /\ c.step = QaCheck
    \/ c.at \in {"checked", "reversing"}

\* History: a request will remove the step that s follows, or may reverse it,
\* and will leave s.
Removing(s) ==
    \E o \in Requests :
        \/ Removes(req[o], Before(s)) /\ ~Removes(req[o], s)
        \/ Reverses(req[o]) /\ Before(s) \in QaSteps

\* The completion is recorded; two of the steps have consequences.
RecordStep(r) ==
    LET s == req[r].step
    IN /\ req[r].at = "completing"
       /\ done' = Added({s}, "manual")
       /\ withdrawn' = withdrawn \ {s}
       /\ overlapped' = IF r \in overtaken \/ Removing(s) THEN overlapped \union {s}
                        ELSE overlapped \ {s}
       /\ overtaken' = overtaken \ {r}
       /\ IF s = QaCheck THEN Become(r, "checked")
          ELSE IF s = Repairs THEN Become(r, "repaired") ELSE End(r)
       /\ UNCHANGED <<status, approved, rejected, coated, crossed>>

\* autoSkipInapplicableSteps reads the analysis and the completions; what does
\* not apply is skipped, what was skipped and applies now is reversed.
ReadAnalysis(r) ==
    LET skip == SetToSeq(QaSteps \ Done)
        back == SetToSeq({s \in QaSteps : done[s] = "inapplicable"})
    IN /\ req[r].at = "checked"
       /\ req' = [req EXCEPT ![r] = IF coated THEN [Idle EXCEPT !.at = "reversing", !.todo = back]
                                    ELSE [Idle EXCEPT !.at = "skipping", !.todo = skip]]
       /\ UNCHANGED <<status, approved, done, rejected, coated, crossed, marks>>

\* completeMultipleSteps, called to use current stock: no order is asked for.
\* The reception of a card whose stock is on hand does the same
\* (autoSkipRequisitionChainIfSoh).
BeginBulk(r) ==
    /\ req[r].at = "idle" /\ StockSteps \ Done # {}
    /\ req' = [req EXCEPT ![r].at = "bulk", ![r].todo = SetToSeq(StockSteps \ Done)]
    /\ UNCHANGED <<status, approved, done, rejected, coated, crossed, marks>>

\* saveMany, of what each of its callers found to be open.
SaveSkipped(r) ==
    LET how == CASE req[r].at = "bulk" -> "manual"
                 [] req[r].at = "sparing" -> "accepted"
                 [] req[r].at = "skipping" -> "inapplicable"
    IN /\ req[r].at \in {"skipping", "bulk", "sparing"}
       /\ done' = Added(ToSet(req[r].todo), how)
       /\ withdrawn' = withdrawn \ ToSet(req[r].todo)
       /\ IF req[r].at = "sparing" THEN req' = [req EXCEPT ![r] = [Idle EXCEPT !.at = "reviewing"]]
          ELSE End(r)
       /\ UNCHANGED <<status, approved, rejected, coated, crossed, overlapped, overtaken>>

\* The completions of some steps go.
RemoveSteps(gone) ==
    /\ done' = [s \in Steps |-> IF s \in gone THEN "none" ELSE done[s]]
    /\ withdrawn' = withdrawn \union (gone \intersect Done)
    /\ overlapped' = overlapped \ gone
    /\ overtaken' = overtaken \union
          {o \in Requests : req[o].at = "completing" /\ Before(req[o].step) \in gone}

ReverseSkipped(r) ==
    /\ req[r].at = "reversing"
    /\ RemoveSteps({s \in ToSet(req[r].todo) : done[s] = "inapplicable"})
    /\ End(r)
    /\ UNCHANGED <<status, approved, rejected, coated, crossed>>

\* A bug: the last of the steps that follow the repairs is forgotten.
ReadVerdictForgetting(r) ==
    /\ req[r].at = "repaired"
    /\ IF rejected /\ Repairs \in Done
       THEN req' = [req EXCEPT ![r] = [Idle EXCEPT !.at = "withdrawing", !.todo = Front(Reset)]]
       ELSE End(r)
    /\ UNCHANGED <<status, approved, done, rejected, coated, crossed, marks>>

\* resetReviewAfterRepairs: after a rejection, the repairs, the review and what
\* follows are to be done again; each is removed on its own.
ReadVerdict(r) ==
    /\ req[r].at = "repaired"
    /\ IF rejected /\ Repairs \in Done
       THEN req' = [req EXCEPT ![r] = [Idle EXCEPT !.at = "withdrawing", !.todo = Reset]]
       ELSE End(r)
    /\ UNCHANGED <<status, approved, done, rejected, coated, crossed, marks>>

Withdraw(r) ==
    LET todo == req[r].todo
    IN /\ req[r].at = "withdrawing"
       /\ RemoveSteps({Head(todo)})
       /\ IF Len(todo) = 1 THEN End(r) ELSE req' = [req EXCEPT ![r].todo = Tail(todo)]
       /\ UNCHANGED <<status, approved, rejected, coated, crossed>>

\* submitReview records a decision, whether a review is due or not: accepted,
\* rejected, or neither where an answer is missing.
SubmitReview(r) ==
    /\ req[r].at = "idle"
    /\ \E answer \in IF coated THEN {"none", "accepted", "rejected"} ELSE {"accepted"} :
          /\ rejected' = (answer = "rejected")
          /\ Become(r, IF answer = "accepted" THEN "accepting" ELSE "reviewing")
    /\ UNCHANGED <<status, approved, done, coated, crossed, marks>>

\* What was accepted needs no repairs, if they are not complete.
AcceptRepairs(r) ==
    /\ req[r].at = "accepting"
    /\ req' = [req EXCEPT ![r] = IF Repairs \in Done THEN [Idle EXCEPT !.at = "reviewing"]
                                 ELSE [Idle EXCEPT !.at = "sparing", !.todo = <<Repairs>>]]
    /\ UNCHANGED <<status, approved, done, rejected, coated, crossed, marks>>

\* The controller then completes the review, if it may be completed.
BeginReview(r) ==
    /\ req[r].at = "reviewing"
    /\ IF QaReview \notin Done /\ InOrder(QaReview)
       THEN req' = [req EXCEPT ![r].at = "completing", ![r].step = QaReview] ELSE End(r)
    /\ UNCHANGED <<status, approved, done, rejected, coated, crossed, marks>>

-----------------------------------------------------------------------------
\* The coating analysis is made again.
AnalysisChanges ==
    /\ coated' = ~coated
    /\ UNCHANGED <<status, approved, done, rejected, req, crossed, marks>>

\* A request dies: what it was about to remove stays.
Die(r) ==
    /\ req[r].at # "idle"
    /\ crossed' = (crossed \/ req[r].at = "drafting")
    /\ overlapped' = overlapped \union
          (IF req[r].at = "withdrawing" THEN Done \intersect ToSet(req[r].todo) ELSE {})
    /\ overtaken' = overtaken \ {r}
    /\ End(r)
    /\ UNCHANGED <<status, approved, done, rejected, coated, withdrawn>>

Next ==
    \/ \E r \in Requests :
          \/ BeginApprove(r) \/ RecordApproval(r) \/ MoveOn(r)
          \/ BeginReject(r) \/ MoveBack(r)
          \/ BeginSave(r) \/ BeginAmend(r) \/ SaveCard(r) \/ ClearApprovals(r) \/ BackToDraft(r)
          \/ BeginComplete(r) \/ RecordStep(r) \/ ReadAnalysis(r) \/ BeginBulk(r)
          \/ SaveSkipped(r) \/ ReverseSkipped(r) \/ ReadVerdict(r) \/ Withdraw(r)
          \/ SubmitReview(r) \/ AcceptRepairs(r) \/ BeginReview(r) \/ Die(r)
    \/ AnalysisChanges

Spec == Init /\ [][Next]_vars

-----------------------------------------------------------------------------
\* Every stage a card has passed has its approval on record: since approvals
\* are recorded before the card moves, and removed before it is sent back, the
\* two part only if a whole-card save or an amendment crosses another request.
PassedIsApproved ==
    \/ crossed
    \/ \E r \in Requests : req[r].at = "drafting"
    \/ \A k \in Stages : k < status => k \in approved

\* A card has not come past a stage while steps that block it were open: those
\* of the stage before last and earlier are complete, and the first phase of
\* the last one, but for completions that were removed and not made again.
StageGate ==
    crossed \/ \A k \in Stages :
        /\ k < status - 1 => Blocking(k) \subseteq Done \union withdrawn
        /\ k < status => PhaseOne(k) \subseteq Done \union withdrawn

\* Steps whose order the code looks after: not those that are completed without
\* asking for it, nor one that follows a reset step and is not reset, nor a
\* quality check that follows what it skips.
Ordered == {s \in Steps \ StockSteps :
               /\ Before(s) \in ToSet(Reset) => s \in ToSet(Reset)
               /\ Before(s) \in QaSteps => s # QaCheck}

\* A step completed by a user is still preceded by the one it follows, through
\* every reset of the review and every reversal of what was skipped, unless it
\* was completed while one of them was under way, or the reset that was to
\* remove it died.
BranchOrder ==
    \A s \in Ordered : done[s] = "manual" /\ ~InOrder(s) =>
        s \in overlapped \/ Doomed(s)
=============================================================================
