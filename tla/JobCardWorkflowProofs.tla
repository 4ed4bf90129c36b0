----------------------- MODULE JobCardWorkflowProofs -----------------------
(* For every configuration of stages and background steps: the card and    *)
(* its requests are well typed, the card passes no stage without its       *)
(* approval and its background steps, and what users complete is in order. *)
EXTENDS JobCardWorkflow, TLAPS, FiniteSetTheorems, SequenceTheorems

----------------------------------------------------------------------------
(* The inductive invariant.  A request checks long before it writes: what   *)
(* it found must still hold, or what it lacks must be accounted for by      *)
(* crossed, withdrawn, overtaken or overlapped.                             *)

\* Steps that are complete, or whose completion was removed later.
Cleared(S) == S \subseteq Done \union withdrawn

\* What the approval of stage k asks for.
Passable(k) == Cleared(Blocking(k - 1)) /\ Cleared(PhaseOne(k))
Passed == \A k \in Stages : /\ k < status - 1 => Cleared(Blocking(k))
                            /\ k < status => Cleared(PhaseOne(k))

Staged(c) ==
    /\ c.at \in {"signing", "moving"} => c.read \in Stages /\ Passable(c.read)
    /\ c.at = "moving" /\ ~crossed => c.read \in approved
    /\ c.at \in {"saving", "amending"} => c.write \in {c.read, 1}
    /\ c.at = "completing" => c.step \in Steps
    /\ c.at = "bulk" => ToSet(c.todo) \subseteq StockSteps
    /\ c.at \in {"checked", "skipping", "reversing"} => QaCheck \in Done
    /\ c.at \in {"skipping", "reversing"} => ToSet(c.todo) \subseteq QaSteps
    /\ c.at = "withdrawing" => c.todo # <<>> /\ ToSet(c.todo) \subseteq ToSet(Reset)

\* Only what the quality check skips is inapplicable, and only after it.
Skips == \A t \in Steps : done[t] = "inapplicable" => t \in QaSteps /\ QaCheck \in Done

\* A request that was not overtaken completes a step that is in order.
Checked == \A r \in Requests : req[r].at = "completing" => r \in overtaken \/ InOrder(req[r].step)

\* What a user completed, and what it follows, before the latter is removed by
\* a reset that has been through the former ...
Resets == \A o \in Requests, s \in Ordered :
    Removes(req[o], Before(s)) /\ ~Removes(req[o], s) /\ done[s] = "manual" => s \in overlapped

\* ... or is found to have been skipped wrongly.
Reversals == \A o \in Requests, s \in Ordered :
    Reverses(req[o]) /\ Before(s) \in Steps /\ done[Before(s)] = "inapplicable" /\ done[s] = "manual"
        => s \in overlapped \/ Doomed(s)

OrderInv == Skips /\ Checked /\ Resets /\ Reversals /\ BranchOrder

IInv == /\ TypeOK
        /\ \A r \in Requests : Staged(req[r])
        /\ PassedIsApproved
        /\ StageGate
        /\ OrderInv

----------------------------------------------------------------------------
(* Steps, and sequences of them.                                           *)

LEMMA KnownSteps ==
    /\ QaSteps \subseteq Steps /\ StockSteps \subseteq Steps
    /\ QaCheck \in Steps /\ Repairs \in Steps /\ QaReview \in Steps
    /\ QaCheck \notin QaSteps /\ QaCheck \notin ToSet(Reset) /\ QaReview # QaCheck
    /\ NoStep \notin Steps
    /\ \A S \in SUBSET Steps : IsFiniteSet(S)
  BY WorkflowAssumption, FS_Subset DEF QaSteps

\* The reset list, as a sequence and as a set.
LEMMA ResetIs == Reset \in Seq(Steps) /\ Reset # <<>>
  <1>1. <<Repairs, QaReview>> \in Seq(Steps) /\ Downstream \in Seq(Steps)
    BY WorkflowAssumption
  <1>2. Reset \in Seq(Steps) /\ Len(Reset) = 2 + Len(Downstream) /\ Len(Downstream) \in Nat
    BY <1>1, ConcatProperties DEF Reset
  <1> QED
    BY <1>2

LEMMA SetToSeqIsSeq ==
    ASSUME NEW S, IsFiniteSet(S)
    PROVE  SetToSeq(S) \in Seq(S) /\ ToSet(SetToSeq(S)) \subseteq S
  <1> DEFINE n == Cardinality(S)
  <1>1. n \in Nat /\ \E f \in [1..n -> S] : IsInjective(f)
    BY FS_CardinalityType DEF ExistsBijection, Bijection, Injection
  <1>2. SetToSeq(S) \in [1..n -> S]
    BY <1>1 DEF SetToSeq
  <1> HIDE DEF n
  <1>3. SetToSeq(S) \in Seq(S)
    BY <1>1, <1>2, SeqDef
  <1> QED
    BY <1>2, <1>3 DEF ToSet

LEMMA HeadAndTail ==
    ASSUME NEW S, NEW todo \in Seq(S), todo # <<>>
    PROVE  /\ Tail(todo) \in Seq(S)
           /\ Head(todo) \in ToSet(todo)
           /\ ToSet(Tail(todo)) \subseteq ToSet(todo)
           /\ ToSet(todo) \subseteq {Head(todo)} \union ToSet(Tail(todo))
           /\ Len(todo) # 1 => Tail(todo) # <<>>
           /\ Len(todo) = 1 => ToSet(Tail(todo)) = {}
  <1> DEFINE rest == Tail(todo)
  <1>1. /\ Head(todo) = todo[1] /\ Len(todo) \in Nat \ {0}
        /\ DOMAIN todo = 1..Len(todo)
    OBVIOUS
  <1>2. /\ rest \in Seq(S) /\ Len(rest) = Len(todo) - 1
        /\ \A i \in 1..Len(rest) : rest[i] = todo[i + 1]
    BY HeadTailProperties
  <1> HIDE DEF rest
  <1>3. DOMAIN rest = 1..Len(rest)
    BY <1>2
  <1>4. Head(todo) \in ToSet(todo)
    BY <1>1 DEF ToSet
  <1>5. ToSet(rest) \subseteq ToSet(todo)
    BY <1>1, <1>2, <1>3 DEF ToSet
  <1>6. ToSet(todo) \subseteq {Head(todo)} \union ToSet(rest)
    <2> SUFFICES ASSUME NEW i \in 1..Len(todo), i # 1
                 PROVE  todo[i] \in ToSet(rest)
      BY <1>1 DEF ToSet
    <2>1. i - 1 \in 1..Len(rest) /\ todo[i] = rest[i - 1]
      BY <1>1, <1>2
    <2> QED
      BY <1>3, <2>1 DEF ToSet
  <1>7. Len(todo) # 1 => rest # <<>>
    BY <1>1, <1>2
  <1>8. Len(todo) = 1 => ToSet(rest) = {}
    BY <1>2, <1>3 DEF ToSet
  <1> QED
    BY <1>2, <1>4, <1>5, <1>6, <1>7, <1>8 DEF rest

LEMMA IdleIsCall == Idle \in Call /\ Idle.at = "idle"
  BY WorkflowAssumption DEF Idle, Call, Draft, Closed

LEMMA Weights ==
    /\ Weight("manual") = 1 /\ Weight("accepted") = 2
    /\ Weight("inapplicable") = 3 /\ Weight("none") = 4
  <1>1. /\ DOMAIN Hows = 1..4
        /\ Hows[1] = "manual" /\ Hows[2] = "accepted"
        /\ Hows[3] = "inapplicable" /\ Hows[4] = "none"
    BY DEF Hows
  <1>2. \A i \in DOMAIN Hows : i \in {1, 2, 3, 4}
    BY <1>1
  <1> QED
    BY <1>1, <1>2 DEF Weight

\* Completions are only added, and recorded as what they are; what does not
\* apply is recorded where nothing is.
LEMMA CompletionsAdded ==
    ASSUME TypeOK, NEW steps, NEW how \in {"manual", "accepted", "inapplicable"},
           done' = Added(steps, how)
    PROVE  /\ done' \in [Steps -> ToSet(Hows)]
           /\ Done \subseteq Done' /\ steps \intersect Steps \subseteq Done'
           /\ \A s \in Steps : \/ done'[s] = done[s]
                               \/ s \in steps /\ done'[s] = how
                                  /\ (how = "inapplicable" => done[s] = "none")
  <1>1. done \in [Steps -> ToSet(Hows)] /\ how \in ToSet(Hows) /\ how # "none"
    BY DEF TypeOK, ToSet, Hows
  <1>2. \A w \in ToSet(Hows) : w \in {"manual", "accepted", "inapplicable", "none"}
    BY DEF ToSet, Hows
  <1>3. \A s \in Steps : \/ done'[s] = done[s]
                         \/ s \in steps /\ done'[s] = how
                            /\ (how = "inapplicable" => done[s] = "none")
    <2> SUFFICES ASSUME NEW s \in Steps, done'[s] # done[s]
                 PROVE  s \in steps /\ done'[s] = how /\ (how = "inapplicable" => done[s] = "none")
      OBVIOUS
    <2>1. s \in steps /\ Weight(how) < Weight(done[s]) /\ done'[s] = how
      BY DEF Added
    <2>2. done[s] \in {"manual", "accepted", "inapplicable", "none"}
      BY <1>1, <1>2
    <2>3. how = "inapplicable" => done[s] = "none"
      BY <2>1, <2>2, Weights
    <2> QED
      BY <2>1, <2>3
  <1>4. done' \in [Steps -> ToSet(Hows)]
    BY <1>1 DEF Added
  <1>5. Done \subseteq Done'
    BY <1>1, <1>3, <1>4 DEF Done
  <1>6. ASSUME NEW s \in steps \intersect Steps PROVE s \in Done'
    <2>1. Weight(how) < Weight("none")
      BY Weights
    <2>2. done'[s] # "none"
      BY <1>1, <2>1 DEF Added
    <2> QED
      BY <2>2 DEF Done
  <1> QED
    BY <1>3, <1>4, <1>5, <1>6

----------------------------------------------------------------------------
(* What a step leaves to the other requests to rely on.                    *)

\* Completions stay, or they are remembered as withdrawn; the quality check is
\* never withdrawn.
StepsKept == /\ Done \subseteq Done' \union withdrawn'
             /\ withdrawn \subseteq Done' \union withdrawn'
             /\ QaCheck \in Done => QaCheck \in Done'

LEMMA ClearedKept ==
    ASSUME StepsKept, NEW S, Cleared(S)
    PROVE  Cleared(S)'
  BY DEF Cleared, StepsKept

LEMMA PassableKept ==
    ASSUME StepsKept, NEW k, Passable(k)
    PROVE  Passable(k)'
  BY ClearedKept DEF Passable

LEMMA StagedKept ==
    ASSUME StepsKept, NEW c \in Call, Staged(c),
           crossed => crossed',
           c.at = "moving" => approved \subseteq approved' \/ crossed'
    PROVE  Staged(c)'
  <1>1. Passable(c.read) => Passable(c.read)'
    BY PassableKept
  <1> QED
    BY <1>1 DEF Staged, StepsKept

LEMMA AllStaged ==
    ASSUME IInv, NEW r \in Requests, NEW call \in Call, req' = [req EXCEPT ![r] = call],
           StepsKept, crossed => crossed',
           \/ approved \subseteq approved'
           \/ crossed' \/ \A o \in Requests \ {r} : req[o].at # "moving",
           Staged(call)'
    PROVE  req' \in [Requests -> Call] /\ \A o \in Requests : Staged(req[o])'
  <1>1. req \in [Requests -> Call]
    BY DEF IInv, TypeOK
  <1>2. req' \in [Requests -> Call] /\ req'[r] = call
    BY <1>1
  <1>3. ASSUME NEW o \in Requests \ {r} PROVE Staged(req[o])'
    <2>1. req'[o] = req[o] /\ req[o] \in Call /\ Staged(req[o])
      BY <1>1 DEF IInv
    <2>2. \A c \in Call : c = req[o] => Staged(c)'
      BY <2>1, StagedKept DEF IInv
    <2> QED
      BY <2>1, <2>2
  <1>4. Staged(req[r])'
    BY <1>2
  <1> QED
    BY <1>2, <1>3, <1>4

LEMMA RequestAt ==
    ASSUME NEW c \in Call, NEW stage,
           stage \in {"moving", "clearing", "drafting"}
    PROVE  /\ [c EXCEPT !.at = stage] \in Call
           /\ [c EXCEPT !.at = stage].at = stage
           /\ [c EXCEPT !.at = stage].read = c.read
  BY DEF Call

LEMMA PassedIsGate ==
    /\ StageGate <=> crossed \/ Passed
    /\ StageGate' <=> crossed' \/ Passed'
  BY DEF StageGate, Passed, Cleared

\* What one request comes to leaves the order accounted for: what it completes
\* it found in order, what it removes is the whole reset, and what it may
\* reverse it has not begun to look for yet.
OrderRests(r, call) ==
    /\ call.at = "completing" => InOrder(call.step)
    /\ call.at = "withdrawing" => ToSet(call.todo) = ToSet(Reset)
    /\ Reverses(call) => Reverses(req[r]) \/ \A t \in Steps : done[t] # "inapplicable"

LEMMA OrderKept ==
    ASSUME IInv, NEW r \in Requests, NEW call \in Call, req' = [req EXCEPT ![r] = call],
           UNCHANGED done, overlapped \subseteq overlapped', overtaken \ {r} \subseteq overtaken',
           req[r].at = "withdrawing" => Done \intersect ToSet(req[r].todo) \subseteq overlapped',
           OrderRests(r, call)
    PROVE  OrderInv'
  <1>1. req \in [Requests -> Call] /\ done \in [Steps -> ToSet(Hows)]
    BY DEF IInv, TypeOK
  <1>2. req'[r] = call /\ \A o \in Requests \ {r} : req'[o] = req[o]
    BY <1>1
  <1>3. \A s \in Steps : done[s] = "manual" /\ (s \in overlapped \/ Doomed(s))
            => s \in overlapped' \/ Doomed(s)'
    <2> SUFFICES ASSUME NEW s \in Steps, done[s] = "manual", NEW o \in Requests,
                        Removes(req[o], s), s \notin overlapped'
                 PROVE  Doomed(s)'
      BY DEF Doomed
    <2>1. s \in Done
      BY DEF Done
    <2>2. o # r
      BY <2>1 DEF Removes
    <2>3. Removes(req'[o], s)
      BY <1>2, <2>2
    <2> QED
      BY <2>3 DEF Doomed
  <1>4. \A s : InOrder(s) => InOrder(s)'
    BY DEF InOrder, Done
  <1>5. Skips'
    BY DEF IInv, OrderInv, Skips, Done
  <1>6. Checked'
    BY <1>2, <1>4 DEF IInv, OrderInv, Checked, OrderRests
  <1>7. Resets'
    <2> SUFFICES ASSUME NEW o \in Requests, NEW s \in Ordered,
                        Removes(req'[o], Before(s)), ~Removes(req'[o], s), done[s] = "manual"
                 PROVE  s \in overlapped'
      BY DEF Resets
    <2>1. CASE o # r
      BY <1>2, <2>1 DEF IInv, OrderInv, Resets
    <2>2. CASE o = r
      <3>1. call.at = "withdrawing" /\ Before(s) \in ToSet(call.todo)
        BY <1>2, <2>2 DEF Removes
      <3>2. Before(s) \in ToSet(Reset)
        BY <3>1 DEF OrderRests
      <3>3. s \in ToSet(Reset)
        BY <3>2 DEF Ordered
      <3> QED
        BY <1>2, <2>2, <3>1, <3>3 DEF OrderRests, Removes
    <2> QED
      BY <2>1, <2>2
  <1>8. Reversals'
    <2> SUFFICES ASSUME NEW o \in Requests, NEW s \in Ordered,
                        Reverses(req'[o]), Before(s) \in Steps,
                        done[Before(s)] = "inapplicable", done[s] = "manual"
                 PROVE  s \in overlapped' \/ Doomed(s)'
      BY DEF Reversals
    <2>1. Reverses(req[o])
      BY <1>2 DEF OrderRests
    <2>2. s \in overlapped \/ Doomed(s)
      BY <2>1 DEF IInv, OrderInv, Reversals
    <2> QED
      BY <1>3, <2>2 DEF Ordered
  <1>9. BranchOrder'
    <2> SUFFICES ASSUME NEW s \in Ordered, done[s] = "manual", ~InOrder(s)
                 PROVE  s \in overlapped' \/ Doomed(s)'
      BY DEF BranchOrder, InOrder, Done
    <2>1. s \in overlapped \/ Doomed(s)
      BY DEF IInv, OrderInv, BranchOrder
    <2> QED
      BY <1>3, <2>1 DEF Ordered
  <1> QED
    BY <1>5, <1>6, <1>7, <1>8, <1>9 DEF OrderInv

\* A step of one request that changes neither the card nor a completion.
LEMMA OnlyRequest ==
    ASSUME IInv, NEW r \in Requests, NEW call \in Call, req' = [req EXCEPT ![r] = call],
           UNCHANGED <<status, approved, done, crossed, marks>>,
           rejected' \in BOOLEAN, UNCHANGED coated,
           req[r].at \notin {"drafting", "withdrawing"}, Staged(call), OrderRests(r, call)
    PROVE  IInv'
  <1>1. StepsKept /\ Staged(call)'
    BY DEF StepsKept, Done, Staged, Passable, Cleared, marks
  <1>2. req' \in [Requests -> Call] /\ \A o \in Requests : Staged(req[o])'
    BY <1>1, AllStaged
  <1>3. TypeOK'
    BY <1>2 DEF IInv, TypeOK, marks
  <1>4. PassedIsApproved'
    <2>1. \A o \in Requests : req[o].at = "drafting" => req'[o] = req[o]
      BY DEF IInv, TypeOK
    <2> QED
      BY <2>1 DEF IInv, PassedIsApproved
  <1>5. StageGate'
    BY DEF IInv, StageGate, Done, marks
  <1>6. OrderInv'
    BY OrderKept DEF marks
  <1> QED
    BY <1>2, <1>3, <1>4, <1>5, <1>6 DEF IInv

----------------------------------------------------------------------------
(* Steps that only read.                                                   *)

LEMMA CardRead ==
    ASSUME IInv, NEW r \in Requests, BeginApprove(r) \/ BeginReject(r)
    PROVE  IInv'
  <1> DEFINE at == IF BeginApprove(r) THEN "signing" ELSE "rejecting"
             call == [req[r] EXCEPT !.at = at, !.read = status]
  <1>1. req[r] \in Call /\ req[r].at = "idle" /\ status \in 0..Closed
    BY DEF IInv, TypeOK, BeginApprove, BeginReject
  <1>2. at \in {"signing", "rejecting"}
    OBVIOUS
  <1>3. /\ UNCHANGED <<status, approved, done, rejected, coated, crossed, marks>>
        /\ status \in Stages
    BY DEF BeginApprove, BeginReject
  <1>4. at = "signing" => Passable(status)
    BY DEF BeginApprove, Passable, Cleared
  <1>5. req' = [req EXCEPT ![r] = call]
    <2>1. CASE BeginApprove(r)
      BY <2>1 DEF BeginApprove
    <2>2. CASE ~BeginApprove(r)
      BY <2>2 DEF BeginReject
    <2> QED
      BY <2>1, <2>2
  <1> HIDE DEF at
  <1>6. call \in Call /\ call.at = at /\ call.read = status
    BY <1>1, <1>2 DEF Call
  <1> HIDE DEF call
  <1>7. Staged(call) /\ OrderRests(r, call)
    BY <1>2, <1>3, <1>4, <1>6 DEF Staged, OrderRests, Reverses
  <1> QED
    BY <1>1, <1>3, <1>5, <1>6, <1>7, OnlyRequest DEF IInv, TypeOK

LEMMA CardReadToSave ==
    ASSUME IInv, NEW r \in Requests, BeginSave(r) \/ BeginAmend(r)
    PROVE  IInv'
  <1>1. /\ req[r] \in Call /\ req[r].at = "idle" /\ status \in 0..Closed
        /\ 1 \in 0..Closed
        /\ UNCHANGED <<status, approved, done, rejected, coated, crossed, marks>>
    BY WorkflowAssumption DEF IInv, TypeOK, BeginSave, BeginAmend, Closed
  <1>2. PICK at \in {"saving", "amending"}, to \in {status, 1} :
           req' = [req EXCEPT ![r].at = at, ![r].read = status, ![r].write = to]
    BY DEF BeginSave, BeginAmend
  <1> DEFINE call == [req[r] EXCEPT !.at = at, !.read = status, !.write = to]
  <1>3. call \in Call /\ call.at = at /\ call.read = status /\ call.write = to
    BY <1>1 DEF Call
  <1>4. req' = [req EXCEPT ![r] = call]
    BY <1>2
  <1> HIDE DEF call
  <1>5. Staged(call) /\ OrderRests(r, call)
    BY <1>3 DEF Staged, OrderRests, Reverses
  <1> QED
    BY <1>1, <1>3, <1>4, <1>5, OnlyRequest DEF IInv, TypeOK

\* A step to be completed was found in order.
LEMMA StepChosen ==
    ASSUME IInv, NEW r \in Requests, NEW s \in Steps, InOrder(s), s \notin Done,
           req' = [req EXCEPT ![r].at = "completing", ![r].step = s],
           req[r].at \in {"idle", "reviewing"},
           UNCHANGED <<status, approved, done, rejected, coated, crossed, marks>>
    PROVE  IInv'
  <1> DEFINE call == [req[r] EXCEPT !.at = "completing", !.step = s]
  <1>1. req[r] \in Call
    BY DEF IInv, TypeOK
  <1>2. call \in Call /\ call.at = "completing" /\ call.step = s
    BY <1>1 DEF Call
  <1>3. req' = [req EXCEPT ![r] = call]
    OBVIOUS
  <1> HIDE DEF call
  <1>4. Staged(call)
    BY <1>2 DEF Staged
  <1>5. s = QaCheck => \A t \in Steps : done[t] # "inapplicable"
    BY DEF IInv, OrderInv, Skips
  <1>6. OrderRests(r, call)
    BY <1>2, <1>5 DEF OrderRests, Reverses
  <1> QED
    BY <1>2, <1>3, <1>4, <1>6, OnlyRequest DEF IInv, TypeOK

LEMMA StepBegun ==
    ASSUME IInv, NEW r \in Requests, BeginComplete(r)
    PROVE  IInv'
  BY StepChosen DEF BeginComplete

\* A request goes on to a stage that rests on nothing.
LEMMA RequestGoesOn ==
    ASSUME IInv, NEW r \in Requests, NEW stage \in {"accepting", "reviewing"},
           Become(r, stage), req[r].at = "idle",
           UNCHANGED <<status, approved, done, coated, crossed, marks>>,
           rejected' \in BOOLEAN
    PROVE  IInv'
  <1> DEFINE call == [req[r] EXCEPT !.at = stage]
  <1>1. req[r] \in Call
    BY DEF IInv, TypeOK
  <1>2. call \in Call /\ call.at = stage
    BY <1>1 DEF Call
  <1>3. req' = [req EXCEPT ![r] = call]
    BY DEF Become
  <1> HIDE DEF call
  <1>4. Staged(call) /\ OrderRests(r, call)
    BY <1>2 DEF Staged, OrderRests, Reverses
  <1> QED
    BY <1>2, <1>3, <1>4, OnlyRequest

LEMMA ReviewSubmitted ==
    ASSUME IInv, NEW r \in Requests, SubmitReview(r)
    PROVE  IInv'
  <1>1. rejected' \in BOOLEAN
    BY DEF SubmitReview
  <1>2. \E stage \in {"accepting", "reviewing"} : Become(r, stage)
    BY DEF SubmitReview
  <1> QED
    BY <1>1, <1>2, RequestGoesOn DEF SubmitReview

\* A request starts over with a list of steps to add or to remove.
LEMMA ListTaken ==
    ASSUME IInv, NEW r \in Requests, NEW todo \in Seq(Steps),
           NEW stage \in {"skipping", "reversing", "sparing", "reviewing", "withdrawing"},
           req' = [req EXCEPT ![r] = [Idle EXCEPT !.at = stage, !.todo = todo]],
           UNCHANGED <<status, approved, done, rejected, coated, crossed, marks>>,
           req[r].at \notin {"drafting", "withdrawing"},
           stage \in {"skipping", "reversing"} =>
               req[r].at = "checked" /\ ToSet(todo) \subseteq QaSteps,
           stage = "withdrawing" => todo = Reset
    PROVE  IInv'
  <1> DEFINE call == [Idle EXCEPT !.at = stage, !.todo = todo]
  <1>1. call \in Call /\ call.at = stage /\ call.todo = todo
    <2>1. Idle \in Call
      BY IdleIsCall
    <2> QED
      BY <2>1 DEF Call
  <1> HIDE DEF call
  <1>2. stage \in {"skipping", "reversing"} => QaCheck \in Done
    BY DEF IInv, Staged
  <1>3. Staged(call) /\ OrderRests(r, call)
    BY <1>1, <1>2, ResetIs DEF Staged, OrderRests, Reverses
  <1> QED
    BY <1>1, <1>3, OnlyRequest DEF IInv, TypeOK, call

LEMMA RequestEnded ==
    ASSUME IInv, NEW r \in Requests, End(r),
           UNCHANGED <<status, approved, done, rejected, coated, crossed, marks>>,
           req[r].at \notin {"drafting", "withdrawing"}
    PROVE  IInv'
  <1>1. Staged(Idle) /\ OrderRests(r, Idle)
    BY IdleIsCall DEF Staged, OrderRests, Reverses
  <1> QED
    BY <1>1, IdleIsCall, OnlyRequest DEF IInv, TypeOK, End

LEMMA AnalysisRead ==
    ASSUME IInv, NEW r \in Requests, ReadAnalysis(r)
    PROVE  IInv'
  <1> DEFINE skip == SetToSeq(QaSteps \ Done)
             back == SetToSeq({s \in QaSteps : done[s] = "inapplicable"})
  <1>1. /\ skip \in Seq(Steps) /\ ToSet(skip) \subseteq QaSteps
        /\ back \in Seq(Steps) /\ ToSet(back) \subseteq QaSteps
    <2> DEFINE open == QaSteps \ Done
               skipped == {s \in QaSteps : done[s] = "inapplicable"}
    <2>1. IsFiniteSet(open) /\ IsFiniteSet(skipped) /\ open \subseteq Steps
          /\ skipped \subseteq Steps /\ skipped \subseteq QaSteps /\ open \subseteq QaSteps
      BY KnownSteps
    <2> HIDE DEF open, skipped
    <2>2. /\ SetToSeq(open) \in Seq(Steps) /\ SetToSeq(skipped) \in Seq(Steps)
          /\ ToSet(SetToSeq(skipped)) \subseteq skipped /\ ToSet(SetToSeq(open)) \subseteq open
      BY <2>1, SetToSeqIsSeq, SeqMonotonic
    <2> QED
      BY <2>1, <2>2 DEF open, skipped
  <1>2. CASE coated
    BY <1>1, <1>2, ListTaken DEF ReadAnalysis
  <1>3. CASE ~coated
    <2>1. req' = [req EXCEPT ![r] = [Idle EXCEPT !.at = "skipping", !.todo = skip]]
      BY <1>3 DEF ReadAnalysis
    <2> HIDE DEF skip
    <2> QED
      BY <1>1, <2>1, ListTaken DEF ReadAnalysis
  <1> QED
    BY <1>2, <1>3

LEMMA BulkBegun ==
    ASSUME IInv, NEW r \in Requests, BeginBulk(r)
    PROVE  IInv'
  <1> DEFINE open == StockSteps \ Done
             todo == SetToSeq(open)
             call == [req[r] EXCEPT !.at = "bulk", !.todo = todo]
  <1>1. req[r] \in Call
    BY DEF IInv, TypeOK
  <1>2. IsFiniteSet(open) /\ open \subseteq Steps /\ open \subseteq StockSteps
    BY KnownSteps
  <1>3. req' = [req EXCEPT ![r] = call]
    BY DEF BeginBulk
  <1> HIDE DEF open
  <1>4. todo \in Seq(Steps) /\ ToSet(todo) \subseteq StockSteps
    BY <1>2, SetToSeqIsSeq, SeqMonotonic
  <1> HIDE DEF todo
  <1>5. call \in Call /\ call.at = "bulk" /\ call.todo = todo
    BY <1>1, <1>4 DEF Call
  <1> HIDE DEF call
  <1>6. Staged(call) /\ OrderRests(r, call)
    BY <1>4, <1>5 DEF Staged, OrderRests, Reverses
  <1> QED
    BY <1>3, <1>5, <1>6, OnlyRequest DEF IInv, TypeOK, BeginBulk

LEMMA VerdictRead ==
    ASSUME IInv, NEW r \in Requests, ReadVerdict(r)
    PROVE  IInv'
  <1>1. \/ End(r)
        \/ req' = [req EXCEPT ![r] = [Idle EXCEPT !.at = "withdrawing", !.todo = Reset]]
    BY DEF ReadVerdict
  <1> QED
    BY <1>1, ResetIs, ListTaken, RequestEnded DEF ReadVerdict

LEMMA RepairsAccepted ==
    ASSUME IInv, NEW r \in Requests, AcceptRepairs(r)
    PROVE  IInv'
  <1>1. <<Repairs>> \in Seq(Steps) /\ <<>> \in Seq(Steps)
    BY KnownSteps
  <1>2. [Idle EXCEPT !.at = "reviewing"] = [Idle EXCEPT !.at = "reviewing", !.todo = <<>>]
    <2> DEFINE reviewing == [Idle EXCEPT !.at = "reviewing"]
    <2>1. reviewing.todo = <<>>
      BY DEF Idle
    <2>2. reviewing = [reviewing EXCEPT !.todo = reviewing.todo]
      BY DEF Idle
    <2>3. [Idle EXCEPT !.at = "reviewing", !.todo = <<>>] = [reviewing EXCEPT !.todo = <<>>]
      OBVIOUS
    <2> HIDE DEF reviewing
    <2>4. [reviewing EXCEPT !.todo = reviewing.todo] = [reviewing EXCEPT !.todo = <<>>]
      BY <2>1
    <2> QED
      BY <2>2, <2>3, <2>4 DEF reviewing
  <1>3. \/ req' = [req EXCEPT ![r] = [Idle EXCEPT !.at = "reviewing", !.todo = <<>>]]
        \/ req' = [req EXCEPT ![r] = [Idle EXCEPT !.at = "sparing", !.todo = <<Repairs>>]]
    BY <1>2 DEF AcceptRepairs
  <1> QED
    BY <1>1, <1>3, ListTaken DEF AcceptRepairs

LEMMA ReviewBegun ==
    ASSUME IInv, NEW r \in Requests, BeginReview(r)
    PROVE  IInv'
  BY KnownSteps, StepChosen, RequestEnded DEF BeginReview

----------------------------------------------------------------------------
(* Steps that write the card or its approvals.                             *)

LEMMA CardWritten ==
    ASSUME IInv, NEW r \in Requests, NEW call \in Call, req' = [req EXCEPT ![r] = call],
           UNCHANGED <<done, rejected, coated, marks>>,
           status' \in 0..Closed, approved' \subseteq Stages,
           crossed' \in BOOLEAN, crossed => crossed',
           \/ approved \subseteq approved'
           \/ crossed' \/ \A o \in Requests \ {r} : req[o].at # "moving",
           req[r].at # "withdrawing", call.at \in {"idle", "moving", "clearing", "drafting"},
           Staged(call)', PassedIsApproved', StageGate'
    PROVE  IInv'
  <1>1. StepsKept
    BY DEF StepsKept, Done, marks
  <1>2. req' \in [Requests -> Call] /\ \A o \in Requests : Staged(req[o])'
    BY <1>1, AllStaged
  <1>3. TypeOK'
    BY <1>2 DEF IInv, TypeOK, marks
  <1>4. OrderInv'
    <2>1. OrderRests(r, call)
      BY DEF OrderRests, Reverses
    <2> QED
      BY <2>1, OrderKept DEF marks
  <1> QED
    BY <1>2, <1>3, <1>4 DEF IInv

LEMMA ApprovalRecorded ==
    ASSUME IInv, NEW r \in Requests, RecordApproval(r)
    PROVE  IInv'
  <1>1. /\ req[r] \in Call /\ req[r].at = "signing" /\ Staged(req[r])
        /\ approved \subseteq Stages
    BY DEF IInv, TypeOK, RecordApproval
  <1>2. /\ approved' = approved \union {req[r].read}
        /\ UNCHANGED <<status, done, rejected, coated, crossed, marks>>
    BY DEF RecordApproval
  <1>3. PICK call \in Call : call = [req[r] EXCEPT !.at = "moving"]
    BY <1>1, RequestAt
  <1>4. /\ call.at = "moving" /\ call.read = req[r].read
        /\ req' = [req EXCEPT ![r] = call]
    BY <1>1, <1>3, RequestAt DEF RecordApproval, Become
  <1>5. req[r].read \in Stages /\ Passable(req[r].read)
    BY <1>1 DEF Staged
  <1>6. Staged(call)'
    <2>1. \A k : Passable(k) => Passable(k)'
      BY <1>2 DEF Passable, Cleared, Done, marks
    <2> QED
      BY <1>2, <1>4, <1>5, <2>1 DEF Staged
  <1>7. PassedIsApproved'
    <2>1. \A o \in Requests : req[o].at = "drafting" => req'[o] = req[o]
      BY <1>1, <1>4 DEF IInv, TypeOK
    <2> QED
      BY <1>2, <2>1 DEF IInv, PassedIsApproved
  <1>8. StageGate'
    BY <1>2 DEF IInv, StageGate, Done, marks
  <1>9. approved' \subseteq Stages /\ approved \subseteq approved'
    BY <1>1, <1>2, <1>5
  <1>10. status' \in 0..Closed /\ crossed' \in BOOLEAN
    BY <1>2 DEF IInv, TypeOK
  <1> QED
    BY <1>1, <1>2, <1>4, <1>6, <1>7, <1>8, <1>9, <1>10, CardWritten

\* The card goes to a stage all of whose predecessors are approved and blocked
\* by nothing.
LEMMA CardMoved ==
    ASSUME IInv, NEW r \in Requests, End(r),
           UNCHANGED <<approved, done, rejected, coated, marks>>,
           status' \in 0..Closed, crossed' \in BOOLEAN, crossed => crossed',
           req[r].at \notin {"withdrawing"},
           req[r].at = "drafting" => status' = Draft,
           ~crossed' => \/ status' \in {status, 0, 1}
                        \/ status' = status + 1 /\ status \in approved /\ Passable(status)
    PROVE  IInv'
  <1>1. req' = [req EXCEPT ![r] = Idle] /\ Staged(Idle)'
    BY IdleIsCall DEF End, Staged
  <1>2. status \in 0..Closed /\ LastStage \in Nat
    BY WorkflowAssumption DEF IInv, TypeOK
  <1>3. PassedIsApproved'
    <2> SUFFICES ASSUME ~crossed', ~ \E o \in Requests : req'[o].at = "drafting",
                        NEW k \in Stages, k < status'
                 PROVE  k \in approved
      BY DEF PassedIsApproved
    <2>1. status' # 0 /\ k \in Int /\ k >= 1
      BY <1>2 DEF Stages
    <2>2. ~ \E o \in Requests : req[o].at = "drafting"
      BY <1>1, <2>1 DEF IInv, TypeOK, Draft
    <2>3. \A n \in Stages : n < status => n \in approved
      BY <2>2 DEF IInv, PassedIsApproved
    <2> QED
      BY <1>2, <2>1, <2>3
  <1>4. StageGate'
    <2> SUFFICES ASSUME ~crossed' PROVE Passed'
      BY PassedIsGate
    <2>1. Passed
      BY PassedIsGate DEF IInv
    <2>2. ASSUME NEW k \in Stages
          PROVE  /\ k < status' - 1 => Cleared(Blocking(k))
                 /\ k < status' => Cleared(PhaseOne(k))
      <3>1. k \in Int /\ k >= 1 /\ status \in Int
        BY <1>2 DEF Stages, Closed
      <3>2. CASE status' \in {status, 0, 1}
        <4>1. (k < status' - 1 => k < status - 1) /\ (k < status' => k < status)
          <5>1. \A m \in Int : \A n \in {m, 0, 1} :
                   (k < n - 1 => k < m - 1) /\ (k < n => k < m)
            BY <3>1
          <5> QED
            BY <3>1, <3>2, <5>1
        <4> QED
          BY <2>1, <4>1 DEF Passed
      <3>3. CASE status' = status + 1 /\ Passable(status)
        <4>1. k < status' - 1 => k = status - 1 \/ k < status - 1
          BY <3>1, <3>3
        <4>2. k < status' => k = status \/ k < status
          BY <3>1, <3>3
        <4>3. Cleared(Blocking(status - 1)) /\ Cleared(PhaseOne(status))
          BY <3>3 DEF Passable
        <4> QED
          BY <2>1, <4>1, <4>2, <4>3 DEF Passed
      <3> QED
        BY <3>2, <3>3
    <2>3. \A S : Cleared(S) => Cleared(S)'
      BY DEF Cleared, Done, marks
    <2> QED
      BY <2>2, <2>3 DEF Passed
  <1> QED
    BY <1>1, <1>3, <1>4, IdleIsCall, CardWritten DEF IInv, TypeOK

LEMMA MovedOn ==
    ASSUME IInv, NEW r \in Requests, MoveOn(r)
    PROVE  IInv'
  <1>1. /\ req[r].at = "moving" /\ Staged(req[r])
        /\ UNCHANGED <<approved, done, rejected, coated, crossed, marks>> /\ End(r)
        /\ status' = IF status = req[r].read THEN status + 1 ELSE status
    BY DEF IInv, MoveOn
  <1>2. /\ req[r].read \in Stages /\ Passable(req[r].read)
        /\ ~crossed => req[r].read \in approved
    BY <1>1 DEF Staged
  <1>3. status' \in 0..Closed
    BY <1>1, <1>2, WorkflowAssumption DEF IInv, TypeOK, Stages, Closed
  <1> QED
    BY <1>1, <1>2, <1>3, CardMoved DEF IInv, TypeOK

LEMMA MovedBack ==
    ASSUME IInv, NEW r \in Requests, MoveBack(r) \/ BackToDraft(r)
    PROVE  IInv'
  <1>1. /\ req[r].at \in {"rejecting", "drafting"}
        /\ UNCHANGED <<approved, done, rejected, coated, crossed, marks>> /\ End(r)
        /\ status' \in {status, 0, 1} /\ (req[r].at = "drafting" => status' = Draft)
    BY DEF MoveBack, BackToDraft, Draft
  <1>2. status' \in 0..Closed
    BY <1>1, WorkflowAssumption DEF IInv, TypeOK, Closed
  <1> QED
    BY <1>1, <1>2, CardMoved DEF IInv, TypeOK

LEMMA CardSaved ==
    ASSUME IInv, NEW r \in Requests, SaveCard(r)
    PROVE  IInv'
  <1>1. /\ req[r] \in Call /\ req[r].at \in {"saving", "amending"} /\ Staged(req[r])
        /\ UNCHANGED <<approved, done, rejected, coated, marks>>
        /\ status' = req[r].write /\ crossed' = (crossed \/ status # req[r].read)
        /\ IF req[r].at = "saving" THEN End(r)
           ELSE req' = [req EXCEPT ![r] = [Idle EXCEPT !.at = "clearing"]]
    BY DEF IInv, TypeOK, SaveCard
  <1>2. req[r].write \in {req[r].read, 1} /\ req[r].write \in 0..Closed
    BY <1>1 DEF Staged, Call
  <1>3. /\ crossed' \in BOOLEAN /\ (crossed => crossed') /\ status' \in 0..Closed
        /\ ~crossed' => status' \in {status, 1}
    BY <1>1, <1>2 DEF IInv, TypeOK
  <1>4. CASE End(r)
    BY <1>1, <1>3, <1>4, CardMoved
  <1>5. CASE req' = [req EXCEPT ![r] = [Idle EXCEPT !.at = "clearing"]]
    <2>1. PICK call \in Call : call = [Idle EXCEPT !.at = "clearing"]
      BY IdleIsCall, RequestAt
    <2>2. call.at = "clearing" /\ req' = [req EXCEPT ![r] = call]
      BY <1>5, <2>1, IdleIsCall, RequestAt
    <2>3. Staged(call)'
      BY <2>2 DEF Staged
    <2>4. PassedIsApproved'
      <3> SUFFICES ASSUME ~crossed', ~ \E o \in Requests : req'[o].at = "drafting",
                          NEW k \in Stages, k < status'
                   PROVE  k \in approved
        BY <1>1 DEF PassedIsApproved
      <3>1. ~crossed /\ k \in Int /\ k >= 1 /\ status' = status
        BY <1>3, WorkflowAssumption DEF Stages
      <3>2. ~ \E o \in Requests : req[o].at = "drafting"
        BY <1>1, <2>2 DEF IInv, TypeOK
      <3> QED
        BY <3>1, <3>2 DEF IInv, PassedIsApproved
    <2>5. StageGate'
      <3> SUFFICES ASSUME ~crossed' PROVE Passed'
        BY PassedIsGate
      <3>1. Passed /\ status' \in {status, 1}
        BY <1>3, PassedIsGate DEF IInv
      <3>2. ASSUME NEW k \in Stages
            PROVE  (k < status' - 1 => k < status - 1) /\ (k < status' => k < status)
        <4>1. k \in Int /\ k >= 1
          BY WorkflowAssumption DEF Stages
        <4> QED
          BY <3>1, <4>1
      <3>3. \A S : Cleared(S) => Cleared(S)'
        BY <1>1 DEF Cleared, Done, marks
      <3> QED
        BY <3>1, <3>2, <3>3 DEF Passed
    <2> QED
      BY <1>1, <1>3, <2>1, <2>2, <2>3, <2>4, <2>5, CardWritten DEF IInv, TypeOK
  <1> QED
    BY <1>1, <1>4, <1>5

LEMMA ApprovalsCleared ==
    ASSUME IInv, NEW r \in Requests, ClearApprovals(r)
    PROVE  IInv'
  <1>1. /\ req[r] \in Call /\ req[r].at = "clearing" /\ req \in [Requests -> Call]
        /\ approved' = {} /\ UNCHANGED <<status, done, rejected, coated, marks>>
        /\ crossed' = (crossed \/ \E o \in Requests \ {r} :
                          req[o].at \in {"moving", "saving", "amending", "drafting"})
    BY DEF IInv, TypeOK, ClearApprovals
  <1>2. PICK call \in Call : call = [req[r] EXCEPT !.at = "drafting"]
    BY <1>1, RequestAt
  <1>3. call.at = "drafting" /\ req' = [req EXCEPT ![r] = call]
    BY <1>1, <1>2, RequestAt DEF ClearApprovals, Become
  <1>4. Staged(call)'
    BY <1>3 DEF Staged
  <1>5. PassedIsApproved'
    BY <1>1, <1>3 DEF PassedIsApproved
  <1>6. (crossed => crossed') /\ crossed' \in BOOLEAN
    BY <1>1 DEF IInv, TypeOK
  <1>7. StageGate'
    BY <1>1, <1>6 DEF IInv, StageGate, Done, marks
  <1>8. crossed' \/ \A o \in Requests \ {r} : req[o].at # "moving"
    BY <1>1
  <1> QED
    BY <1>1, <1>2, <1>3, <1>4, <1>5, <1>6, <1>7, <1>8, CardWritten DEF IInv, TypeOK

----------------------------------------------------------------------------
(* Steps that add or withdraw completions.                                 *)

LEMMA StepsWritten ==
    ASSUME IInv, NEW r \in Requests, NEW call \in Call, req' = [req EXCEPT ![r] = call],
           UNCHANGED <<status, approved, rejected, coated, crossed>>, StepsKept,
           done' \in [Steps -> ToSet(Hows)], withdrawn' \subseteq Steps,
           overlapped' \subseteq Steps, overtaken' \subseteq Requests,
           req[r].at # "drafting", Staged(call)', OrderInv'
    PROVE  IInv'
  <1>1. req' \in [Requests -> Call] /\ \A o \in Requests : Staged(req[o])'
    BY AllStaged
  <1>2. TypeOK'
    BY <1>1 DEF IInv, TypeOK
  <1>3. PassedIsApproved'
    <2>1. \A o \in Requests : req[o].at = "drafting" => req'[o] = req[o]
      BY DEF IInv, TypeOK
    <2> QED
      BY <2>1 DEF IInv, PassedIsApproved
  <1>4. StageGate'
    <2>1. \A S : Cleared(S) => Cleared(S)'
      BY ClearedKept
    <2>2. Passed => Passed'
      BY <2>1 DEF Passed
    <2> QED
      BY <2>2, PassedIsGate DEF IInv
  <1> QED
    BY <1>1, <1>2, <1>3, <1>4 DEF IInv

\* What is still to be removed does not depend on a request that removes
\* nothing, before or after.
LEMMA StillDoomed ==
    ASSUME req \in [Requests -> Call], NEW r \in Requests, NEW call,
           req' = [req EXCEPT ![r] = call],
           req[r].at # "withdrawing", call.at # "withdrawing"
    PROVE  \A s : Doomed(s)' <=> Doomed(s)
  <1>1. req'[r] = call /\ \A o \in Requests \ {r} : req'[o] = req[o]
    OBVIOUS
  <1> QED
    BY <1>1 DEF Doomed, Removes

\* A user completes a step that was found in order; if it is not, or what it
\* follows is about to go, the step is marked as overlapped.
LEMMA StepRecorded ==
    ASSUME IInv, NEW r \in Requests, RecordStep(r)
    PROVE  IInv'
  <1> DEFINE s == req[r].step
  <1>1. /\ req \in [Requests -> Call] /\ req[r].at = "completing"
        /\ s \in Steps /\ (r \in overtaken \/ InOrder(s))
        /\ withdrawn \subseteq Steps /\ overlapped \subseteq Steps /\ overtaken \subseteq Requests
    BY DEF IInv, TypeOK, RecordStep, Staged, OrderInv, Checked
  <1>2. /\ done' = Added({s}, "manual")
        /\ withdrawn' = withdrawn \ {s} /\ overtaken' = overtaken \ {r}
        /\ overlapped' = IF r \in overtaken \/ Removing(s) THEN overlapped \union {s}
                         ELSE overlapped \ {s}
        /\ UNCHANGED <<status, approved, rejected, coated, crossed>>
    BY DEF RecordStep
  <1>3. /\ done' \in [Steps -> ToSet(Hows)] /\ Done \subseteq Done' /\ s \in Done'
        /\ \A t \in Steps : done'[t] = done[t] \/ (t = s /\ done'[t] = "manual")
    <2> HIDE DEF s
    <2>1. /\ done' \in [Steps -> ToSet(Hows)] /\ Done \subseteq Done'
          /\ {s} \intersect Steps \subseteq Done'
          /\ \A t \in Steps : done'[t] = done[t] \/ (t \in {s} /\ done'[t] = "manual")
      BY <1>2, CompletionsAdded DEF IInv
    <2> QED
      BY <1>1, <2>1
  <1>4. PICK call \in Call : /\ req' = [req EXCEPT ![r] = call]
                             /\ call.at \in {"idle", "checked", "repaired"}
                             /\ call.at = "checked" => s = QaCheck
    <2> DEFINE checked == [req[r] EXCEPT !.at = "checked"]
               repaired == [req[r] EXCEPT !.at = "repaired"]
    <2>1. /\ checked \in Call /\ checked.at = "checked"
          /\ repaired \in Call /\ repaired.at = "repaired"
      BY <1>1 DEF Call
    <2>2. \/ req' = [req EXCEPT ![r] = checked] /\ s = QaCheck
          \/ req' = [req EXCEPT ![r] = repaired]
          \/ req' = [req EXCEPT ![r] = Idle]
      BY DEF RecordStep, Become, End
    <2> HIDE DEF checked, repaired, s
    <2> QED
      BY <2>1, <2>2, IdleIsCall
  <1> HIDE DEF s
  <1>5. StepsKept /\ overlapped' \subseteq Steps /\ Staged(call)'
    BY <1>1, <1>2, <1>3, <1>4 DEF StepsKept, Staged
  <1>6. /\ req'[r] = call /\ \A o \in Requests \ {r} : req'[o] = req[o]
        /\ \A t : Doomed(t)' <=> Doomed(t)
        /\ \A t : InOrder(t) => InOrder(t)'
    BY <1>1, <1>3, <1>4, StillDoomed DEF InOrder
  <1>7. \A t \in Steps : t # s /\ t \in overlapped => t \in overlapped'
    BY <1>2
  <1>8. Skips'
    BY <1>3 DEF IInv, OrderInv, Skips
  <1>9. Checked'
    BY <1>2, <1>4, <1>6 DEF IInv, OrderInv, Checked
  <1>10. Resets'
    <2> SUFFICES ASSUME NEW o \in Requests, NEW t \in Ordered, done'[t] = "manual",
                        Removes(req'[o], Before(t)), ~Removes(req'[o], t)
                 PROVE  t \in overlapped'
      BY DEF Resets
    <2>1. t \in Steps /\ o # r
      BY <1>4, <1>6 DEF Ordered, Removes
    <2>2. Removes(req[o], Before(t)) /\ ~Removes(req[o], t)
      BY <1>6, <2>1
    <2>3. CASE t = s
      BY <1>2, <2>2, <2>3 DEF Removing
    <2>4. CASE t # s
      BY <1>3, <1>7, <2>1, <2>2, <2>4 DEF IInv, OrderInv, Resets
    <2> QED
      BY <2>3, <2>4
  <1>11. Reversals'
    <2> SUFFICES ASSUME NEW o \in Requests, NEW t \in Ordered, done'[t] = "manual",
                        Reverses(req'[o]), Before(t) \in Steps, done'[Before(t)] = "inapplicable"
                 PROVE  t \in overlapped' \/ Doomed(t)'
      BY DEF Reversals
    <2>1. t \in Steps /\ done[Before(t)] = "inapplicable"
      BY <1>3 DEF Ordered
    <2>2. Reverses(req[o]) /\ (o = r => s = QaCheck)
      BY <1>1, <1>4, <1>6 DEF Reverses, s
    <2>3. CASE t = s
      <3>1. Before(s) \in QaSteps
        BY <2>1, <2>3 DEF IInv, OrderInv, Skips
      <3>2. Removing(s)
        BY <2>2, <3>1 DEF Removing
      <3> QED
        BY <1>2, <2>3, <3>2
    <2>4. CASE t # s
      BY <1>3, <1>6, <1>7, <2>1, <2>2, <2>4 DEF IInv, OrderInv, Reversals
    <2> QED
      BY <2>3, <2>4
  <1>12. BranchOrder'
    <2> SUFFICES ASSUME NEW t \in Ordered, done'[t] = "manual", ~InOrder(t)'
                 PROVE  t \in overlapped' \/ Doomed(t)'
      BY DEF BranchOrder
    <2>1. t \in Steps /\ ~InOrder(t)
      BY <1>6 DEF Ordered
    <2>2. CASE t = s
      BY <1>1, <1>2, <2>1, <2>2
    <2>3. CASE t # s
      BY <1>3, <1>6, <1>7, <2>1, <2>3 DEF IInv, OrderInv, BranchOrder
    <2> QED
      BY <2>2, <2>3
  <1>13. OrderInv'
    BY <1>8, <1>9, <1>10, <1>11, <1>12 DEF OrderInv
  <1>14. withdrawn' \subseteq Steps /\ overtaken' \subseteq Requests /\ req[r].at # "drafting"
    BY <1>1, <1>2
  <1> QED
    BY <1>2, <1>3, <1>4, <1>5, <1>13, <1>14, StepsWritten

\* What is added without asking for the order is not recorded as a user's, or
\* is of the steps of the stock; what does not apply was open, so that what
\* follows it is accounted for already.
LEMMA SkippedSaved ==
    ASSUME IInv, NEW r \in Requests, SaveSkipped(r)
    PROVE  IInv'
  <1> DEFINE todo == ToSet(req[r].todo)
  <1>1. /\ req \in [Requests -> Call] /\ req[r].at \in {"skipping", "bulk", "sparing"}
        /\ req[r].at = "bulk" => todo \subseteq StockSteps
        /\ req[r].at = "skipping" => todo \subseteq QaSteps /\ QaCheck \in Done
        /\ todo \subseteq Steps
        /\ withdrawn \subseteq Steps /\ overlapped \subseteq Steps /\ overtaken \subseteq Requests
    <2>1. req[r] \in Call
      BY DEF IInv, TypeOK
    <2>2. todo \subseteq Steps
      BY <2>1 DEF Call, ToSet
    <2> QED
      BY <2>2 DEF IInv, TypeOK, SaveSkipped, Staged
  <1>2. /\ UNCHANGED <<status, approved, rejected, coated, crossed, overlapped, overtaken>>
        /\ withdrawn' = withdrawn \ todo
    BY DEF SaveSkipped
  <1>3. PICK how \in {"manual", "accepted", "inapplicable"} :
           /\ done' = Added(todo, how)
           /\ how = "manual" => req[r].at = "bulk"
           /\ how = "inapplicable" => req[r].at = "skipping"
    BY <1>1 DEF SaveSkipped
  <1> HIDE DEF todo
  <1>4. /\ done' \in [Steps -> ToSet(Hows)] /\ Done \subseteq Done' /\ todo \subseteq Done'
        /\ \A t \in Steps : \/ done'[t] = done[t]
                            \/ t \in todo /\ done'[t] = how
                               /\ (how = "inapplicable" => done[t] = "none")
    BY <1>1, <1>3, CompletionsAdded DEF IInv
  <1>5. PICK call \in Call : req' = [req EXCEPT ![r] = call] /\ call.at \in {"idle", "reviewing"}
    <2> DEFINE reviewing == [Idle EXCEPT !.at = "reviewing"]
    <2>1. reviewing \in Call /\ reviewing.at = "reviewing"
      BY IdleIsCall DEF Call
    <2>2. req' = [req EXCEPT ![r] = reviewing] \/ req' = [req EXCEPT ![r] = Idle]
      BY DEF SaveSkipped, End
    <2> HIDE DEF reviewing
    <2> QED
      BY <2>1, <2>2, IdleIsCall
  <1>6. StepsKept /\ Staged(call)'
    BY <1>2, <1>4, <1>5 DEF StepsKept, Staged
  <1>7. /\ req'[r] = call /\ \A o \in Requests \ {r} : req'[o] = req[o]
        /\ \A t : Doomed(t)' <=> Doomed(t)
        /\ \A t : InOrder(t) => InOrder(t)'
    BY <1>1, <1>4, <1>5, StillDoomed DEF InOrder
  <1>8. \A t \in Ordered : t \in Steps /\ (done'[t] = "manual" => done[t] = "manual")
    BY <1>1, <1>3, <1>4 DEF Ordered
  <1>9. Skips'
    BY <1>1, <1>3, <1>4 DEF IInv, OrderInv, Skips
  <1>10. Checked'
    BY <1>2, <1>5, <1>7 DEF IInv, OrderInv, Checked
  <1>11. Resets'
    <2> SUFFICES ASSUME NEW o \in Requests, NEW t \in Ordered, done'[t] = "manual",
                        Removes(req'[o], Before(t)), ~Removes(req'[o], t)
                 PROVE  t \in overlapped
      BY <1>2 DEF Resets
    <2>1. req'[o] = req[o]
      BY <1>5, <1>7 DEF Removes
    <2> QED
      BY <1>8, <2>1 DEF IInv, OrderInv, Resets
  <1>12. Reversals'
    <2> SUFFICES ASSUME NEW o \in Requests, NEW t \in Ordered, done'[t] = "manual",
                        Reverses(req'[o]), Before(t) \in Steps, done'[Before(t)] = "inapplicable"
                 PROVE  t \in overlapped \/ Doomed(t)
      BY <1>2, <1>7 DEF Reversals
    <2>1. req'[o] = req[o] /\ done[t] = "manual"
      BY <1>5, <1>7, <1>8 DEF Reverses
    <2>2. CASE done[Before(t)] = "inapplicable"
      BY <2>1, <2>2 DEF IInv, OrderInv, Reversals
    <2>3. CASE done[Before(t)] = "none"
      <3>1. ~InOrder(t)
        BY <2>3, KnownSteps DEF InOrder, Done
      <3> QED
        BY <2>1, <3>1 DEF IInv, OrderInv, BranchOrder
    <2> QED
      BY <1>4, <2>2, <2>3
  <1>13. BranchOrder'
    BY <1>2, <1>7, <1>8 DEF IInv, OrderInv, BranchOrder
  <1>14. OrderInv'
    BY <1>9, <1>10, <1>11, <1>12, <1>13 DEF OrderInv
  <1>15. /\ withdrawn' \subseteq Steps /\ overlapped' \subseteq Steps
         /\ overtaken' \subseteq Requests /\ req[r].at # "drafting"
    BY <1>1, <1>2
  <1> QED
    BY <1>2, <1>4, <1>5, <1>6, <1>14, <1>15, StepsWritten

\* The completions of gone go: next are those the request will still remove.
\* What follows one of gone is in next, or was marked.
LEMMA StepsWithdrawn ==
    ASSUME IInv, NEW r \in Requests, NEW call \in Call, req' = [req EXCEPT ![r] = call],
           NEW gone \in SUBSET Steps, NEW next, RemoveSteps(gone), QaCheck \notin gone,
           UNCHANGED <<status, approved, rejected, coated, crossed>>,
           call.at \in {"idle", "withdrawing"}, Staged(call)',
           call.at = "idle" => next = {},
           call.at = "withdrawing" => req[r].at = "withdrawing" /\ ToSet(call.todo) = next,
           \/ /\ req[r].at = "withdrawing"
              /\ gone \subseteq ToSet(req[r].todo) /\ next \subseteq ToSet(req[r].todo)
              /\ ToSet(req[r].todo) \subseteq gone \union next
           \/ /\ req[r].at = "reversing"
              /\ \A t \in gone : done[t] = "inapplicable"
    PROVE  IInv'
  <1>1. /\ done' = [s \in Steps |-> IF s \in gone THEN "none" ELSE done[s]]
        /\ withdrawn' = withdrawn \union (gone \intersect Done)
        /\ overlapped' = overlapped \ gone
        /\ overtaken' = overtaken \union
              {o \in Requests : req[o].at = "completing" /\ Before(req[o].step) \in gone}
    BY DEF RemoveSteps
  <1>2. /\ done \in [Steps -> ToSet(Hows)] /\ "none" \in ToSet(Hows)
        /\ req \in [Requests -> Call]
        /\ withdrawn \subseteq Steps /\ overlapped \subseteq Steps /\ overtaken \subseteq Requests
    BY DEF IInv, TypeOK, ToSet, Hows
  <1>3. done' \in [Steps -> ToSet(Hows)] /\ Done' = Done \ gone
    BY <1>1, <1>2 DEF Done
  <1>4. StepsKept
    BY <1>1, <1>3 DEF StepsKept
  <1>5. req'[r] = call /\ \A o \in Requests \ {r} : req'[o] = req[o]
    BY <1>2
  <1>6. \A t \in Steps : done'[t] # "none" => t \notin gone /\ done'[t] = done[t]
    BY <1>1
  <1>7. ASSUME NEW t \in Steps, t \notin gone, t \in overlapped \/ Doomed(t)
        PROVE  t \in overlapped' \/ Doomed(t)'
    <2>1. CASE t \in overlapped
      BY <1>1, <1>7, <2>1
    <2>2. CASE Doomed(t)
      <3>1. PICK o \in Requests : Removes(req[o], t)
        BY <2>2 DEF Doomed
      <3>2. CASE o # r
        BY <1>5, <3>1, <3>2 DEF Doomed
      <3>3. CASE o = r
        <4>1. t \in next
          BY <1>7, <3>1, <3>3 DEF Removes
        <4>2. Removes(req'[r], t)
          BY <1>5, <4>1 DEF Removes
        <4> QED
          BY <4>2 DEF Doomed
      <3> QED
        BY <3>2, <3>3
    <2> QED
      BY <1>7, <2>1, <2>2
  <1>8. Skips'
    BY <1>3, <1>6 DEF IInv, OrderInv, Skips
  <1>9. Checked'
    <2> SUFFICES ASSUME NEW o \in Requests, req'[o].at = "completing"
                 PROVE  o \in overtaken' \/ InOrder(req[o].step)'
      BY <1>2, <1>5 DEF Checked
    <2>1. o # r /\ req'[o] = req[o]
      BY <1>5
    <2>2. o \in overtaken \/ InOrder(req[o].step)
      BY <2>1 DEF IInv, OrderInv, Checked
    <2>3. CASE Before(req[o].step) \in gone
      BY <1>1, <2>1, <2>3
    <2>4. CASE Before(req[o].step) \notin gone
      BY <1>1, <1>3, <2>1, <2>2, <2>4 DEF InOrder
    <2> QED
      BY <2>3, <2>4
  <1>10. Resets'
    <2> SUFFICES ASSUME NEW o \in Requests, NEW t \in Ordered, done'[t] = "manual",
                        Removes(req'[o], Before(t)), ~Removes(req'[o], t)
                 PROVE  t \in overlapped'
      BY DEF Resets
    <2>1. t \in Steps /\ t \notin gone /\ done[t] = "manual"
      BY <1>6 DEF Ordered
    <2>2. Removes(req[o], Before(t)) /\ ~Removes(req[o], t)
      <3>1. CASE o # r
        BY <1>5, <3>1
      <3>2. CASE o = r
        <4>1. Before(t) \in next /\ t \notin next /\ call.at = "withdrawing"
          BY <1>5, <3>2 DEF Removes
        <4> QED
          BY <2>1, <3>2, <4>1 DEF Removes
      <3> QED
        BY <3>1, <3>2
    <2>3. t \in overlapped
      BY <2>1, <2>2 DEF IInv, OrderInv, Resets
    <2> QED
      BY <1>1, <2>1, <2>3
  <1>11. Reversals'
    <2> SUFFICES ASSUME NEW o \in Requests, NEW t \in Ordered, done'[t] = "manual",
                        Reverses(req'[o]), Before(t) \in Steps, done'[Before(t)] = "inapplicable"
                 PROVE  t \in overlapped' \/ Doomed(t)'
      BY DEF Reversals
    <2>1. t \in Steps /\ t \notin gone /\ done[t] = "manual" /\ done[Before(t)] = "inapplicable"
      BY <1>6 DEF Ordered
    <2>2. Reverses(req[o])
      BY <1>5 DEF Reverses
    <2>3. t \in overlapped \/ Doomed(t)
      BY <2>1, <2>2 DEF IInv, OrderInv, Reversals
    <2> QED
      BY <1>7, <2>1, <2>3
  <1>12. BranchOrder'
    <2> SUFFICES ASSUME NEW t \in Ordered, done'[t] = "manual", ~InOrder(t)'
                 PROVE  t \in overlapped' \/ Doomed(t)'
      BY DEF BranchOrder
    <2>1. t \in Steps /\ t \notin gone /\ done[t] = "manual"
      BY <1>6 DEF Ordered
    <2>2. CASE ~InOrder(t)
      <3>1. t \in overlapped \/ Doomed(t)
        BY <2>1, <2>2 DEF IInv, OrderInv, BranchOrder
      <3> QED
        BY <1>7, <2>1, <3>1
    <2>3. CASE InOrder(t)
      <3>1. Before(t) \in gone
        BY <1>3, <2>3 DEF InOrder
      <3>2. CASE req[r].at = "withdrawing"
        <4>1. Removes(req[r], Before(t))
          BY <3>1, <3>2 DEF Removes
        <4>2. t \in overlapped \/ Doomed(t)
          BY <2>1, <4>1 DEF IInv, OrderInv, Resets, Doomed
        <4> QED
          BY <1>7, <2>1, <4>2
      <3>3. CASE req[r].at = "reversing"
        <4>1. /\ Before(t) \in Steps /\ done[Before(t)] = "inapplicable"
              /\ Reverses(req[r])
          BY <3>1, <3>3 DEF Reverses
        <4>2. t \in overlapped \/ Doomed(t)
          BY <2>1, <4>1 DEF IInv, OrderInv, Reversals
        <4> QED
          BY <1>7, <2>1, <4>2
      <3> QED
        BY <3>2, <3>3
    <2> QED
      BY <2>2, <2>3
  <1>13. OrderInv'
    BY <1>8, <1>9, <1>10, <1>11, <1>12 DEF OrderInv
  <1>14. /\ withdrawn' \subseteq Steps /\ overlapped' \subseteq Steps
         /\ overtaken' \subseteq Requests /\ req[r].at # "drafting"
    BY <1>1, <1>2
  <1> QED
    BY <1>3, <1>4, <1>13, <1>14, StepsWritten

LEMMA SkippedReversed ==
    ASSUME IInv, NEW r \in Requests, ReverseSkipped(r)
    PROVE  IInv'
  <1> DEFINE gone == {s \in ToSet(req[r].todo) : done[s] = "inapplicable"}
  <1>1. req[r].at = "reversing" /\ ToSet(req[r].todo) \subseteq QaSteps
    BY DEF IInv, Staged, ReverseSkipped
  <1>2. /\ gone \in SUBSET Steps /\ QaCheck \notin gone
        /\ \A t \in gone : done[t] = "inapplicable"
    BY <1>1, KnownSteps
  <1>3. /\ RemoveSteps(gone) /\ req' = [req EXCEPT ![r] = Idle]
        /\ UNCHANGED <<status, approved, rejected, coated, crossed>>
    BY DEF ReverseSkipped, End
  <1> HIDE DEF gone
  <1>4. Staged(Idle)'
    BY IdleIsCall DEF Staged
  <1> QED
    BY <1>1, <1>2, <1>3, <1>4, IdleIsCall, StepsWithdrawn

LEMMA ReviewWithdrawn ==
    ASSUME IInv, NEW r \in Requests, Withdraw(r)
    PROVE  IInv'
  <1> DEFINE todo == req[r].todo
             gone == {Head(todo)}
             next == ToSet(Tail(todo))
  <1>1. /\ req[r] \in Call /\ req[r].at = "withdrawing"
        /\ todo # <<>> /\ ToSet(todo) \subseteq ToSet(Reset)
    BY DEF IInv, TypeOK, Staged, Withdraw
  <1>2. todo \in Seq(Steps)
    BY <1>1 DEF Call
  <1>3. /\ RemoveSteps(gone)
        /\ UNCHANGED <<status, approved, rejected, coated, crossed>>
        /\ IF Len(todo) = 1 THEN End(r) ELSE req' = [req EXCEPT ![r].todo = Tail(todo)]
    BY DEF Withdraw
  <1>4. /\ Tail(todo) \in Seq(Steps) /\ gone \subseteq ToSet(todo) /\ next \subseteq ToSet(todo)
        /\ ToSet(todo) \subseteq gone \union next
        /\ Len(todo) # 1 => Tail(todo) # <<>>
        /\ Len(todo) = 1 => next = {}
    BY <1>1, <1>2, HeadAndTail
  <1>5. gone \in SUBSET Steps /\ QaCheck \notin gone
    <2>1. gone \subseteq ToSet(Reset)
      BY <1>1, <1>4
    <2>2. ToSet(Reset) \subseteq Steps
      BY ResetIs DEF ToSet
    <2> QED
      BY <2>1, <2>2, KnownSteps
  <1>6. PICK call \in Call : /\ call.at = req[r].at /\ call.todo = Tail(todo)
                             /\ call = [req[r] EXCEPT !.todo = Tail(todo)]
    <2>1. /\ [req[r] EXCEPT !.todo = Tail(todo)] \in Call
          /\ [req[r] EXCEPT !.todo = Tail(todo)].at = req[r].at
          /\ [req[r] EXCEPT !.todo = Tail(todo)].todo = Tail(todo)
      BY <1>1, <1>4 DEF Call
    <2> QED
      BY <2>1
  <1>7. /\ Len(todo) # 1 => req' = [req EXCEPT ![r] = call]
        /\ Len(todo) = 1 => req' = [req EXCEPT ![r] = Idle]
    BY <1>3, <1>6 DEF End
  <1>8. next = ToSet(call.todo) /\ ToSet(req[r].todo) = ToSet(todo)
    BY <1>6
  <1> HIDE DEF todo, gone, next
  <1>9. CASE Len(todo) = 1
    <2>1. Staged(Idle)'
      BY IdleIsCall DEF Staged
    <2> QED
      BY <1>1, <1>3, <1>4, <1>5, <1>7, <1>8, <1>9, <2>1, IdleIsCall, StepsWithdrawn
  <1>10. CASE Len(todo) # 1
    <2>1. Staged(call)'
      BY <1>1, <1>4, <1>6, <1>8, <1>10 DEF Staged
    <2> QED
      BY <1>1, <1>3, <1>4, <1>5, <1>6, <1>7, <1>8, <1>10, <2>1, StepsWithdrawn
  <1> QED
    BY <1>9, <1>10

----------------------------------------------------------------------------
(* A request dies; the analysis is made again.                             *)

LEMMA RequestDies ==
    ASSUME IInv, NEW r \in Requests, Die(r)
    PROVE  IInv'
  <1>1. /\ UNCHANGED <<status, approved, done, rejected, coated, withdrawn>>
        /\ crossed' = (crossed \/ req[r].at = "drafting")
        /\ overlapped' = overlapped \union
              (IF req[r].at = "withdrawing" THEN Done \intersect ToSet(req[r].todo) ELSE {})
        /\ overtaken' = overtaken \ {r}
        /\ req' = [req EXCEPT ![r] = Idle]
    BY DEF Die, End
  <1>2. req \in [Requests -> Call]
    BY DEF IInv, TypeOK
  <1>3. /\ crossed' \in BOOLEAN /\ (crossed => crossed')
        /\ overlapped \subseteq overlapped' /\ overlapped' \subseteq Steps
        /\ overtaken' \subseteq Requests
        /\ req[r].at = "withdrawing" => Done \intersect ToSet(req[r].todo) \subseteq overlapped'
    BY <1>1 DEF IInv, TypeOK, Done
  <1>4. StepsKept /\ Staged(Idle)' /\ OrderRests(r, Idle)
    BY <1>1, IdleIsCall DEF StepsKept, Done, Staged, OrderRests, Reverses
  <1>5. req' \in [Requests -> Call] /\ \A o \in Requests : Staged(req[o])'
    BY <1>1, <1>3, <1>4, IdleIsCall, AllStaged
  <1>6. TypeOK'
    BY <1>1, <1>3, <1>5 DEF IInv, TypeOK
  <1>7. PassedIsApproved'
    <2>1. \A o \in Requests : o # r => req'[o] = req[o]
      BY <1>1, <1>2
    <2>2. ASSUME ~crossed' PROVE req[r].at # "drafting" /\ ~crossed
      BY <1>1, <2>2
    <2> QED
      BY <1>1, <2>1, <2>2 DEF IInv, PassedIsApproved
  <1>8. StageGate'
    BY <1>1, <1>3 DEF IInv, StageGate, Done
  <1>9. OrderInv'
    BY <1>1, <1>3, <1>4, IdleIsCall, OrderKept
  <1> QED
    BY <1>5, <1>6, <1>7, <1>8, <1>9 DEF IInv

\* Nothing that the invariant is about changes.
LEMMA NothingChanges ==
    ASSUME IInv, UNCHANGED <<status, approved, done, rejected, req, crossed, marks>>,
           coated' \in BOOLEAN
    PROVE  IInv'
  <1>1. TypeOK'
    BY DEF IInv, TypeOK, marks
  <1>2. (\A r \in Requests : Staged(req[r])') /\ PassedIsApproved' /\ StageGate'
    BY DEF IInv, Staged, Passable, Cleared, PassedIsApproved, StageGate, Done, marks
  <1>3. /\ \A s : Doomed(s)' <=> Doomed(s)
        /\ \A s : InOrder(s)' <=> InOrder(s)
    BY DEF Doomed, InOrder, Done
  <1>4. OrderInv'
    BY <1>3 DEF IInv, OrderInv, Skips, Checked, Resets, Reversals, BranchOrder, Done, marks
  <1> QED
    BY <1>1, <1>2, <1>4 DEF IInv

LEMMA AnalysisMade ==
    ASSUME IInv, AnalysisChanges
    PROVE  IInv'
  <1>1. coated' \in BOOLEAN
    BY DEF AnalysisChanges, IInv, TypeOK
  <1> QED
    BY <1>1, NothingChanges DEF AnalysisChanges

----------------------------------------------------------------------------
(* The invariant is inductive.                                              *)

LEMMA InitIInv == Init => IInv
  <1> SUFFICES ASSUME Init PROVE IInv
    OBVIOUS
  <1>1. TypeOK
    <2>1. "none" \in ToSet(Hows) /\ 0 \in 0..Closed
      BY WorkflowAssumption DEF ToSet, Hows, Closed
    <2> QED
      BY <2>1, IdleIsCall DEF Init, TypeOK, Draft
  <1>2. \A r \in Requests : Staged(req[r])
    BY IdleIsCall DEF Init, Staged
  <1>3. PassedIsApproved /\ StageGate
    <2>1. \A k \in Stages : ~(k < status) /\ ~(k < status - 1)
      BY WorkflowAssumption DEF Init, Stages, Draft
    <2> QED
      BY <2>1 DEF PassedIsApproved, StageGate
  <1>4. OrderInv
    <2>1. \A r \in Requests : req[r].at = "idle"
      BY IdleIsCall DEF Init
    <2>2. \A s \in Steps : done[s] = "none"
      BY DEF Init
    <2> QED
      BY <2>1, <2>2 DEF OrderInv, Skips, Checked, Resets, Reversals, BranchOrder, Ordered
  <1> QED
    BY <1>1, <1>2, <1>3, <1>4 DEF IInv

LEMMA NextIInv == IInv /\ [Next]_vars => IInv'
  <1> SUFFICES ASSUME IInv, [Next]_vars PROVE IInv'
    OBVIOUS
  <1>1. ASSUME NEW r \in Requests,
               \/ BeginApprove(r) \/ RecordApproval(r) \/ MoveOn(r)
               \/ BeginReject(r) \/ MoveBack(r)
               \/ BeginSave(r) \/ BeginAmend(r) \/ SaveCard(r) \/ ClearApprovals(r)
               \/ BackToDraft(r)
        PROVE  IInv'
    BY <1>1, CardRead, ApprovalRecorded, MovedOn, MovedBack, CardReadToSave, CardSaved,
       ApprovalsCleared
  <1>2. ASSUME NEW r \in Requests,
               \/ BeginComplete(r) \/ RecordStep(r) \/ ReadAnalysis(r) \/ BeginBulk(r)
               \/ SaveSkipped(r) \/ ReverseSkipped(r) \/ ReadVerdict(r) \/ Withdraw(r)
               \/ SubmitReview(r) \/ AcceptRepairs(r) \/ BeginReview(r) \/ Die(r)
        PROVE  IInv'
    BY <1>2, StepBegun, StepRecorded, AnalysisRead, BulkBegun, SkippedSaved, SkippedReversed,
       VerdictRead, ReviewWithdrawn, ReviewSubmitted, RepairsAccepted, ReviewBegun, RequestDies
  <1>3. CASE UNCHANGED vars
    BY <1>3, NothingChanges DEF vars, IInv, TypeOK
  <1> QED
    BY <1>1, <1>2, <1>3, AnalysisMade DEF Next

\* The inductive invariant holds in every reachable state, whatever approvals,
\* rejections, edits and background steps overlap or die.
THEOREM AlwaysIInv == Spec => []IInv
  BY InitIInv, NextIInv, PTL DEF Spec

\* The card stays within the stages of its company, and requests within the
\* background steps that are configured.
THEOREM TypeCorrect == Spec => []TypeOK
  BY AlwaysIInv, PTL DEF IInv

\* Every stage the card has passed has its approval on record, however
\* approvals, rejections, saves and amendments overlap, unless a whole-card
\* save or an amendment crossed another request.
THEOREM ApprovalsPrecede == Spec => []PassedIsApproved
  BY AlwaysIInv, PTL DEF IInv

\* The card has passed no stage whose background steps were open, but for
\* completions that were removed later and not made again.
THEOREM GateHolds == Spec => []StageGate
  BY AlwaysIInv, PTL DEF IInv

\* What a user completed is still preceded by the step it follows, through
\* every reset of the review and every reversal of what was skipped, unless the
\* step was completed while one of them was under way, or is of a reset that is
\* under way or died.
THEOREM OrderHolds == Spec => []BranchOrder
  BY AlwaysIInv, PTL DEF IInv, OrderInv
=============================================================================
