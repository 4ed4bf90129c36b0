------------------------ MODULE PuppeteerPoolProofs ------------------------
(* For any number of tasks, slots and faults: the pool is well typed, its   *)
(* slots and its queue are in step with its tasks, no task is made to wait  *)
(* for a launch that failed, and no browser is lost but by a task that gave *)
(* up one already given up.                                                 *)
EXTENDS PuppeteerPool, TLAPS, FiniteSetTheorems, SequenceTheorems

----------------------------------------------------------------------------
(* The inductive invariant, in two parts.  A step that ends or enqueues a   *)
(* task goes through states of its own before it is done: both parts are    *)
(* stated of the values they are about.                                     *)

Run == {"checking", "launching", "awaiting", "rendering"}
Queued(at) == {t \in Tasks : at[t] = "queued"}
Busy(at) == {t \in Tasks : at[t] \in Run}

\* The queue holds each queued task once, and a slot is counted for each task
\* that runs.
Counted(at, queue, active) ==
    /\ \A t \in Tasks : at[t] = "queued" <=> \E i \in 1..Len(queue) : queue[i] = t
    /\ \A i, j \in 1..Len(queue) : queue[i] = queue[j] => i = j
    /\ Cardinality(Queued(at)) = Len(queue)
    /\ Cardinality(Busy(at)) = active

\* Each launch under way, and a failed one that is still the promise, has the
\* one task that launched it.  Unless a task gave up a browser another had
\* given up, there is one launch or browser at most, and the promise is its.
Launched(at, using, promise, b, ch, astray) ==
    /\ \A t \in Tasks : at[t] \in {"checking", "launching", "awaiting"} => using[t] # 0
    /\ \A l \in DOMAIN ch : ch[l] = "launching" =>
          \E t \in Tasks : at[t] = "launching" /\ using[t] = l
    /\ promise # 0 /\ ch[promise] = "failed" =>
          \E t \in Tasks : at[t] = "launching" /\ using[t] = promise
    /\ \A t, u \in Tasks :
          at[t] = "launching" /\ at[u] = "launching" /\ using[t] = using[u] => t = u
    /\ ~astray =>
          /\ \A l \in DOMAIN ch : ch[l] \in {"launching", "up"} => l = promise
          /\ b \in {0, promise}
          /\ \A t \in Tasks : at[t] = "launching" => using[t] = promise /\ b = 0

IInv == /\ TypeOK
        /\ Counted(pc, taskQueue, activeTaskCount)
        /\ taskQueue # <<>> => activeTaskCount = MaxConcurrent
        /\ \A t \in Tasks : outcome[t] = "error" => pc[t] = "settled"
        /\ Launched(pc, held, browserPromise, browser, chrome, overtaken)

States == {"idle", "queued", "checking", "launching", "awaiting", "rendering", "settled"}
Processes == {"launching", "up", "hung", "down", "failed"}

----------------------------------------------------------------------------
(* Counting tasks.                                                         *)

LEMMA TaskSetsFinite == \A S \in SUBSET Tasks : IsFiniteSet(S)
  BY PoolAssumption, FS_Subset

\* A task is added to the end of the queue.
LEMMA CountedEnqueue ==
    ASSUME NEW at \in [Tasks -> States], NEW queue \in Seq(Tasks), NEW active,
           Counted(at, queue, active), NEW t \in Tasks, at[t] \in {"idle", "settled"}
    PROVE  Counted([at EXCEPT ![t] = "queued"], Append(queue, t), active)
  <1> DEFINE new == [at EXCEPT ![t] = "queued"]
             longer == Append(queue, t)
  <1>1. /\ longer \in Seq(Tasks) /\ Len(queue) \in Nat /\ Len(longer) = Len(queue) + 1
        /\ longer[Len(queue) + 1] = t
        /\ \A i \in 1..Len(queue) : longer[i] = queue[i]
    OBVIOUS
  <1>2. \A u \in Tasks : new[u] = IF u = t THEN "queued" ELSE at[u]
    OBVIOUS
  <1> HIDE DEF new, longer
  <1>3. \A i \in 1..Len(queue) : queue[i] # t
    BY DEF Counted
  <1>4. \A u \in Tasks : new[u] = "queued" <=> \E i \in 1..Len(longer) : longer[i] = u
    BY <1>1, <1>2, <1>3 DEF Counted
  <1>5. \A i, j \in 1..Len(longer) : longer[i] = longer[j] => i = j
    BY <1>1, <1>3 DEF Counted
  <1>6. Queued(new) = Queued(at) \union {t} /\ t \notin Queued(at)
    BY <1>2 DEF Queued
  <1>7. Cardinality(Queued(new)) = Len(longer)
    <2>1. IsFiniteSet(Queued(at))
      BY TaskSetsFinite DEF Queued
    <2>2. Cardinality(Queued(at)) = Len(queue)
      BY DEF Counted
    <2>3. Cardinality(Queued(at) \union {t}) = Cardinality(Queued(at)) + 1
      BY <1>6, <2>1, FS_AddElement
    <2> QED
      BY <1>1, <1>6, <2>2, <2>3
  <1>8. Busy(new) = Busy(at)
    BY <1>2 DEF Busy, Run
  <1> QED
    BY <1>4, <1>5, <1>7, <1>8 DEF Counted, new, longer

\* The head of the queue starts.
LEMMA CountedStart ==
    ASSUME NEW at \in [Tasks -> States], NEW queue \in Seq(Tasks), NEW active,
           Counted(at, queue, active), queue # <<>>, NEW what \in Run
    PROVE  /\ Head(queue) \in Tasks /\ at[Head(queue)] = "queued"
           /\ Counted([at EXCEPT ![Head(queue)] = what], Tail(queue), active + 1)
  <1> DEFINE t == Head(queue)
             rest == Tail(queue)
             new == [at EXCEPT ![t] = what]
  <1>1. /\ t = queue[1] /\ t \in Tasks /\ Len(queue) \in Nat \ {0}
    OBVIOUS
  <1>2. /\ rest \in Seq(Tasks) /\ Len(rest) = Len(queue) - 1
        /\ \A i \in 1..Len(rest) : rest[i] = queue[i + 1]
    BY HeadTailProperties
  <1>3. \A u \in Tasks : new[u] = IF u = t THEN what ELSE at[u]
    BY <1>1
  <1> HIDE DEF t, rest, new
  <1>4. at[t] = "queued"
    BY <1>1 DEF Counted
  <1>5. what # "queued"
    BY DEF Run
  <1>6. \A i \in 1..Len(rest) : rest[i] # t
    BY <1>1, <1>2 DEF Counted
  <1>7. \A u \in Tasks : u # t =>
           ((\E i \in 1..Len(queue) : queue[i] = u) <=> \E i \in 1..Len(rest) : rest[i] = u)
    <2> SUFFICES ASSUME NEW u \in Tasks, u # t
                 PROVE  (\E i \in 1..Len(queue) : queue[i] = u)
                           <=> \E i \in 1..Len(rest) : rest[i] = u
      OBVIOUS
    <2>1. ASSUME NEW i \in 1..Len(queue), queue[i] = u
          PROVE  \E j \in 1..Len(rest) : rest[j] = u
      <3>1. i - 1 \in 1..Len(rest) /\ rest[i - 1] = u
        BY <1>1, <1>2, <2>1
      <3> QED
        BY <3>1
    <2>2. ASSUME NEW i \in 1..Len(rest), rest[i] = u
          PROVE  \E j \in 1..Len(queue) : queue[j] = u
      <3>1. i + 1 \in 1..Len(queue) /\ queue[i + 1] = u
        BY <1>1, <1>2, <2>2
      <3> QED
        BY <3>1
    <2> QED
      BY <2>1, <2>2
  <1>8. \A u \in Tasks : new[u] = "queued" <=> \E i \in 1..Len(rest) : rest[i] = u
    BY <1>3, <1>5, <1>6, <1>7 DEF Counted
  <1>9. \A i, j \in 1..Len(rest) : rest[i] = rest[j] => i = j
    <2> SUFFICES ASSUME NEW i \in 1..Len(rest), NEW j \in 1..Len(rest), rest[i] = rest[j]
                 PROVE  i = j
      OBVIOUS
    <2>1. i + 1 \in 1..Len(queue) /\ j + 1 \in 1..Len(queue) /\ queue[i + 1] = queue[j + 1]
      BY <1>1, <1>2
    <2>2. i + 1 = j + 1
      BY <2>1 DEF Counted
    <2> QED
      BY <2>2
  <1>10. Queued(new) = Queued(at) \ {t} /\ t \in Queued(at)
    BY <1>1, <1>3, <1>4, <1>5 DEF Queued
  <1>11. Cardinality(Queued(new)) = Len(rest)
    <2>1. IsFiniteSet(Queued(at))
      BY TaskSetsFinite DEF Queued
    <2> QED
      BY <1>2, <1>10, <2>1, FS_RemoveElement DEF Counted
  <1>12. Busy(new) = Busy(at) \union {t} /\ t \notin Busy(at)
    BY <1>1, <1>3, <1>4 DEF Busy, Run
  <1>13. Cardinality(Busy(new)) = active + 1
    <2>1. IsFiniteSet(Busy(at))
      BY TaskSetsFinite DEF Busy
    <2> QED
      BY <1>12, <2>1, FS_AddElement DEF Counted
  <1> QED
    BY <1>1, <1>4, <1>8, <1>9, <1>11, <1>13 DEF Counted, t, rest, new

\* A task that runs ends.
LEMMA CountedSettle ==
    ASSUME NEW at \in [Tasks -> States], NEW queue \in Seq(Tasks), NEW active \in Int,
           Counted(at, queue, active), NEW t \in Tasks, at[t] \in Run,
           NEW less, less = active - 1
    PROVE  less >= 0 /\ Counted([at EXCEPT ![t] = "settled"], queue, less)
  <1> DEFINE new == [at EXCEPT ![t] = "settled"]
  <1>1. \A u \in Tasks : new[u] = IF u = t THEN "settled" ELSE at[u]
    OBVIOUS
  <1> HIDE DEF new
  <1>2. at[t] # "queued"
    BY DEF Run
  <1>3. Queued(new) = Queued(at) /\ \A u \in Tasks : new[u] = "queued" <=> at[u] = "queued"
    BY <1>1, <1>2 DEF Queued
  <1>4. Busy(new) = Busy(at) \ {t} /\ t \in Busy(at)
    BY <1>1 DEF Busy, Run
  <1>5. IsFiniteSet(Busy(at)) /\ IsFiniteSet(Busy(new))
    BY TaskSetsFinite DEF Busy
  <1>6. Cardinality(Busy(new)) = less /\ Cardinality(Busy(new)) \in Nat
    BY <1>4, <1>5, FS_RemoveElement, FS_CardinalityType DEF Counted
  <1> QED
    BY <1>3, <1>6 DEF Counted, new

\* A task that runs goes on.
LEMMA CountedMove ==
    ASSUME NEW at \in [Tasks -> States], NEW queue, NEW active,
           Counted(at, queue, active), NEW t \in Tasks, at[t] \in Run, NEW what \in Run
    PROVE  Counted([at EXCEPT ![t] = what], queue, active)
  <1> DEFINE new == [at EXCEPT ![t] = what]
  <1>1. \A u \in Tasks : new[u] = IF u = t THEN what ELSE at[u]
    OBVIOUS
  <1> HIDE DEF new
  <1>2. Queued(new) = Queued(at) /\ \A u \in Tasks : new[u] = "queued" <=> at[u] = "queued"
    BY <1>1 DEF Queued, Run
  <1>3. Busy(new) = Busy(at)
    BY <1>1 DEF Busy
  <1> QED
    BY <1>2, <1>3 DEF Counted, new

----------------------------------------------------------------------------
(* Launches.                                                               *)

\* The other tasks stay where they are.
OthersStay(t, at, using, at2, using2) ==
    \A u \in Tasks : u # t => at2[u] = at[u] /\ using2[u] = using[u]

\* There is no launch under way and no browser that answers.
Nothing(at, ch) ==
    /\ \A l \in DOMAIN ch : ch[l] \notin {"launching", "up"}
    /\ \A u \in Tasks : at[u] # "launching"

\* A new launch is one more process, which no task can hold yet.
More(ch, new, more) ==
    /\ new \notin DOMAIN ch /\ new # 0 /\ DOMAIN more = DOMAIN ch \union {new}
    /\ \A l \in DOMAIN ch : more[l] = ch[l]
    /\ more[new] = "launching"

LEMMA OneMoreLaunch ==
    ASSUME NEW ch \in Seq(Processes)
    PROVE  /\ Append(ch, "launching") \in Seq(Processes) /\ 0 \notin DOMAIN ch
           /\ More(ch, Len(ch) + 1, Append(ch, "launching"))
  <1>1. Len(ch) \in Nat /\ DOMAIN ch = 1..Len(ch) /\ "launching" \in Processes
    BY DEF Processes
  <1>2. /\ Append(ch, "launching") \in Seq(Processes)
        /\ Len(Append(ch, "launching")) = Len(ch) + 1
        /\ DOMAIN Append(ch, "launching") = 1..(Len(ch) + 1)
        /\ \A l \in 1..Len(ch) : Append(ch, "launching")[l] = ch[l]
        /\ Append(ch, "launching")[Len(ch) + 1] = "launching"
    BY <1>1
  <1>3. 1..(Len(ch) + 1) = (1..Len(ch)) \union {Len(ch) + 1}
    BY <1>1
  <1> QED
    BY <1>1, <1>2, <1>3 DEF More

\* A task that launches nothing goes from one state to another: it begins to
\* wait, checks, awaits, renders, ends.
LEMMA LaunchedMove ==
    ASSUME NEW at, NEW using, NEW promise, NEW b, NEW ch, NEW astray,
           Launched(at, using, promise, b, ch, astray),
           NEW at2, NEW using2, NEW t \in Tasks, at[t] # "launching", at2[t] # "launching",
           OthersStay(t, at, using, at2, using2),
           at2[t] \in {"checking", "awaiting"} => using2[t] # 0
    PROVE  Launched(at2, using2, promise, b, ch, astray)
  <1> USE DEF OthersStay
  <1>1. \A u \in Tasks : at2[u] = "launching" <=> at[u] = "launching"
    OBVIOUS
  <1>2. \A u \in Tasks : at[u] = "launching" => using2[u] = using[u]
    OBVIOUS
  <1> QED
    BY <1>1, <1>2 DEF Launched

\* A task launches: there is no launch and no browser that answers left, or
\* the step sets the history.
LEMMA LaunchedNew ==
    ASSUME NEW ch, NEW promise, NEW b, NEW astray, NEW astray2, NEW at,
           NEW using \in [Tasks -> DOMAIN ch \union {0}],
           Launched(at, using, promise, b, ch, astray),
           NEW at2, NEW using2, NEW t \in Tasks, at[t] # "launching", at2[t] = "launching",
           OthersStay(t, at, using, at2, using2),
           NEW new, NEW more, More(ch, new, more), using2[t] = new,
           ~astray2 => Nothing(at, ch)
    PROVE  Launched(at2, using2, new, 0, more, astray2)
  <1> USE DEF OthersStay, Nothing
  <1>1. /\ new \notin DOMAIN ch /\ new # 0 /\ DOMAIN more = DOMAIN ch \union {new}
        /\ \A l \in DOMAIN ch : more[l] = ch[l]
        /\ more[new] = "launching"
    BY DEF More
  <1>2. using2[t] = new
    OBVIOUS
  <1>3. \A u \in Tasks : at2[u] \in {"checking", "launching", "awaiting"} => using2[u] # 0
    BY <1>1, <1>2 DEF Launched
  <1>4. ASSUME NEW l \in DOMAIN more, more[l] = "launching"
        PROVE  \E u \in Tasks : at2[u] = "launching" /\ using2[u] = l
    <2>1. CASE l = new
      BY <1>2, <2>1
    <2>2. CASE l # new
      <3>1. l \in DOMAIN ch /\ ch[l] = "launching"
        BY <1>1, <1>4, <2>2
      <3>2. PICK u \in Tasks : at[u] = "launching" /\ using[u] = l
        BY <3>1 DEF Launched
      <3> QED
        BY <3>2
    <2> QED
      BY <2>1, <2>2
  <1>5. \A u, v \in Tasks :
           at2[u] = "launching" /\ at2[v] = "launching" /\ using2[u] = using2[v] => u = v
    <2>1. \A u \in Tasks : u # t => using2[u] # new
      BY <1>1
    <2> QED
      BY <1>2, <2>1 DEF Launched
  <1>6. ~astray2 => /\ \A l \in DOMAIN more : more[l] \in {"launching", "up"} => l = new
                    /\ \A u \in Tasks : at2[u] = "launching" => using2[u] = new
    BY <1>1, <1>2
  <1>7. more[new] # "failed"
    BY <1>1
  <1> QED
    BY <1>3, <1>4, <1>5, <1>6, <1>7 DEF Launched

\* The task that launched keeps the browser.
LEMMA LaunchedResolves ==
    ASSUME NEW ch, NEW promise, NEW b, NEW astray, NEW at, NEW using,
           Launched(at, using, promise, b, ch, astray),
           NEW at2, NEW t \in Tasks, at[t] = "launching", at2[t] = "rendering",
           ch[using[t]] \in {"up", "hung", "down"},
           OthersStay(t, at, using, at2, using)
    PROVE  Launched(at2, using, promise, using[t], ch, astray)
  <1> USE DEF OthersStay
  <1>1. \A u \in Tasks : at2[u] \in {"checking", "launching", "awaiting"} => using[u] # 0
    BY DEF Launched
  <1>2. ASSUME NEW l \in DOMAIN ch, ch[l] = "launching"
        PROVE  \E u \in Tasks : at2[u] = "launching" /\ using[u] = l
    <2>1. PICK u \in Tasks : at[u] = "launching" /\ using[u] = l
      BY <1>2 DEF Launched
    <2>2. u # t
      BY <1>2, <2>1
    <2> QED
      BY <2>1, <2>2
  <1>3. ASSUME promise # 0, ch[promise] = "failed"
        PROVE  \E u \in Tasks : at2[u] = "launching" /\ using[u] = promise
    <2>1. PICK u \in Tasks : at[u] = "launching" /\ using[u] = promise
      BY <1>3 DEF Launched
    <2>2. u # t
      BY <1>3, <2>1
    <2> QED
      BY <2>1, <2>2
  <1>4. \A u, v \in Tasks :
           at2[u] = "launching" /\ at2[v] = "launching" /\ using[u] = using[v] => u = v
    BY DEF Launched
  <1>5. ASSUME ~astray
        PROVE  /\ \A l \in DOMAIN ch : ch[l] \in {"launching", "up"} => l = promise
               /\ using[t] \in {0, promise}
               /\ \A u \in Tasks : at2[u] = "launching" => using[u] = promise /\ using[t] = 0
    <2>1. using[t] = promise
      BY <1>5 DEF Launched
    <2>2. \A u \in Tasks : at2[u] # "launching"
      BY <1>5, <2>1 DEF Launched
    <2> QED
      BY <1>5, <2>1, <2>2 DEF Launched
  <1> QED
    BY <1>1, <1>2, <1>3, <1>4, <1>5 DEF Launched

\* The task whose launch failed clears the promise.
LEMMA LaunchedRejects ==
    ASSUME NEW ch, 0 \notin DOMAIN ch, NEW promise, NEW b, NEW astray, NEW at, NEW using,
           Launched(at, using, promise, b, ch, astray),
           NEW at2, NEW using2, NEW t \in Tasks, at[t] = "launching", at2[t] = "settled",
           ch[using[t]] = "failed",
           OthersStay(t, at, using, at2, using2)
    PROVE  Launched(at2, using2, 0, b, ch, astray)
  <1> USE DEF OthersStay
  <1>1. \A u \in Tasks : at2[u] \in {"checking", "launching", "awaiting"} => using2[u] # 0
    BY DEF Launched
  <1>2. ASSUME NEW l \in DOMAIN ch, ch[l] = "launching"
        PROVE  \E u \in Tasks : at2[u] = "launching" /\ using2[u] = l
    <2>1. PICK u \in Tasks : at[u] = "launching" /\ using[u] = l
      BY <1>2 DEF Launched
    <2>2. u # t
      BY <1>2, <2>1
    <2> QED
      BY <2>1, <2>2
  <1>3. \A u, v \in Tasks :
           at2[u] = "launching" /\ at2[v] = "launching" /\ using2[u] = using2[v] => u = v
    BY DEF Launched
  <1>4. ASSUME ~astray
        PROVE  /\ \A l \in DOMAIN ch : ch[l] \in {"launching", "up"} => l = 0
               /\ b = 0
               /\ \A u \in Tasks : at2[u] = "launching" => using2[u] = 0 /\ b = 0
    <2>1. using[t] = promise /\ b = 0
      BY <1>4 DEF Launched
    <2>2. \A u \in Tasks : at2[u] # "launching"
      BY <1>4, <2>1 DEF Launched
    <2>3. \A l \in DOMAIN ch : ch[l] \notin {"launching", "up"}
      BY <1>4, <2>1 DEF Launched
    <2> QED
      BY <2>1, <2>2, <2>3
  <1> QED
    BY <1>1, <1>2, <1>3, <1>4 DEF Launched

----------------------------------------------------------------------------
(* Processes settle, fail and are closed.                                  *)

\* A process whose launch settles, or that fails, or that is closed with both
\* fields dropped: nobody but its own launch depends on its state.
LEMMA LaunchedSettles ==
    ASSUME NEW ch \in Seq(Processes), NEW promise, NEW b, NEW astray, NEW at, NEW using,
           Launched(at, using, promise, b, ch, astray),
           NEW l \in DOMAIN ch, NEW s \in Processes,
           \/ ch[l] = "launching" /\ s \in {"up", "failed"}
           \/ ch[l] = "up" /\ s \in {"down", "hung"}
    PROVE  Launched(at, using, promise, b, [ch EXCEPT ![l] = s], astray)
  <1> DEFINE new == [ch EXCEPT ![l] = s]
  <1>1. DOMAIN new = DOMAIN ch /\ \A m \in DOMAIN ch : new[m] = IF m = l THEN s ELSE ch[m]
    OBVIOUS
  <1> HIDE DEF new
  <1>2. s # "launching"
    OBVIOUS
  <1>3. \A m \in DOMAIN new : new[m] = "launching" => ch[m] = "launching"
    BY <1>1, <1>2
  <1>4. ASSUME promise # 0, new[promise] = "failed"
        PROVE  \E t \in Tasks : at[t] = "launching" /\ using[t] = promise
    <2>1. CASE promise = l
      <3>1. ch[l] = "launching"
        BY <1>1, <1>4, <2>1
      <3> QED
        BY <2>1, <3>1 DEF Launched
    <2>2. CASE promise # l
      <3>1. CASE promise \in DOMAIN ch
        BY <1>1, <1>4, <2>2, <3>1 DEF Launched
      <3>2. CASE promise \notin DOMAIN ch
        <4>1. new[promise] = ch[promise]
          BY <2>2, <3>2 DEF new
        <4> QED
          BY <1>4, <4>1 DEF Launched
      <3> QED
        BY <3>1, <3>2
    <2> QED
      BY <2>1, <2>2
  <1>5. \A m \in DOMAIN new : new[m] \in {"launching", "up"} => ch[m] \in {"launching", "up"}
    BY <1>1
  <1> QED
    BY <1>1, <1>3, <1>4, <1>5 DEF Launched, new

LEMMA LaunchedClosed ==
    ASSUME NEW ch \in Seq(Processes), NEW promise, NEW b, NEW astray, NEW at, NEW using,
           Launched(at, using, promise, b, ch, astray),
           NEW l \in DOMAIN ch, l # 0
    PROVE  Launched(at, using, 0, 0, [ch EXCEPT ![l] = "down"], astray \/ b # l)
  <1> DEFINE new == [ch EXCEPT ![l] = "down"]
  <1>1. DOMAIN new = DOMAIN ch /\ \A m \in DOMAIN ch : new[m] = IF m = l THEN "down" ELSE ch[m]
    OBVIOUS
  <1> HIDE DEF new
  <1>2. \A m \in DOMAIN new : new[m] = "launching" => ch[m] = "launching"
    BY <1>1
  <1>3. ASSUME ~astray, b = l
        PROVE  /\ \A m \in DOMAIN new : new[m] \notin {"launching", "up"}
               /\ \A t \in Tasks : at[t] # "launching"
    <2>1. promise = l
      BY <1>3 DEF Launched
    <2> QED
      BY <1>1, <1>3, <2>1 DEF Launched
  <1> QED
    BY <1>1, <1>2, <1>3 DEF Launched, new

----------------------------------------------------------------------------
(* processQueue.                                                           *)

\* What a step that hands over to processQueue has to leave, and what every
\* step leaves.
Sound(at, using, queue, active, promise, ch) ==
    /\ at \in [Tasks -> States] /\ using \in [Tasks -> DOMAIN ch \union {0}]
    /\ queue \in Seq(Tasks) /\ active \in 0..MaxConcurrent
    /\ promise \in DOMAIN ch \union {0} /\ ch \in Seq(Processes)
    /\ Counted(at, queue, active)

\* The task that is started checks the browser, joins the launch or launches.
LEMMA Acquired ==
    ASSUME NEW queue, NEW active, NEW promise, NEW timer, NEW at, NEW using,
           NEW t \in Tasks, at \in [Tasks -> States], at[t] = "queued",
           using \in [Tasks -> Launches \union {0}], promise \in Launches \union {0},
           chrome \in Seq(Processes), browser \in Launches \union {0},
           Launched(at, using, promise, browser, chrome, overtaken),
           Acquire(t, Left(queue, active, promise, timer, at, using))
    PROVE  /\ \E what \in Run : pc' = [at EXCEPT ![t] = what]
           /\ held' \in [Tasks -> DOMAIN chrome' \union {0}]
           /\ browserPromise' \in DOMAIN chrome' \union {0}
           /\ chrome' \in Seq(Processes) /\ DOMAIN chrome \subseteq DOMAIN chrome'
           /\ Launched(pc', held', browserPromise', browser, chrome', overtaken)
  <1> DEFINE l == IF browser # 0 THEN browser
                  ELSE IF promise # 0 THEN promise ELSE Len(chrome) + 1
             what == IF browser # 0 THEN "checking"
                     ELSE IF promise # 0 THEN "awaiting" ELSE "launching"
  <1>1. /\ pc' = [at EXCEPT ![t] = what]
        /\ held' = [using EXCEPT ![t] = l]
        /\ browserPromise' = IF what = "launching" THEN l ELSE promise
        /\ chrome' = IF what = "launching" THEN Append(chrome, "launching") ELSE chrome
    BY DEF Acquire, Left
  <1>2. what \in Run
    BY DEF Run
  <1>3. /\ pc'[t] = what /\ held'[t] = l
        /\ OthersStay(t, at, using, pc', held')
    BY <1>1 DEF OthersStay
  <1>4. CASE what = "launching"
    <2>1. browser = 0 /\ promise = 0 /\ l = Len(chrome) + 1
      BY <1>4
    <2>2. chrome' = Append(chrome, "launching") /\ browserPromise' = l
      BY <1>1, <1>4
    <2>3. chrome' \in Seq(Processes) /\ 0 \notin DOMAIN chrome /\ More(chrome, l, chrome')
      BY <2>1, <2>2, OneMoreLaunch
    <2>4. DOMAIN chrome' = DOMAIN chrome \union {l}
      BY <2>3 DEF More
    <2>5. held' \in [Tasks -> DOMAIN chrome' \union {0}]
      BY <1>1, <2>4 DEF Launches
    <2>6. ~overtaken => Nothing(at, chrome)
      BY <2>1, <2>3 DEF Launched, Nothing
    <2>7. pc'[t] = "launching" /\ held'[t] = browserPromise' /\ More(chrome, browserPromise', chrome')
      BY <1>3, <1>4, <2>2, <2>3
    <2> HIDE DEF l, what
    <2>8. Launched(pc', held', browserPromise', 0, chrome', overtaken)
      <3>1. at[t] # "launching" /\ using \in [Tasks -> DOMAIN chrome \union {0}]
        BY DEF Launches
      <3> QED
        BY <1>3, <2>6, <2>7, <3>1, LaunchedNew
    <2> QED
      BY <1>1, <1>2, <2>1, <2>2, <2>3, <2>4, <2>5, <2>8
  <1>5. CASE what # "launching"
    <2>1. l # 0 /\ l \in Launches \union {0}
      BY <1>5
    <2>2. UNCHANGED chrome /\ browserPromise' = promise
      BY <1>1, <1>5
    <2>3. held' \in [Tasks -> DOMAIN chrome' \union {0}]
      BY <1>1, <2>1, <2>2 DEF Launches
    <2> HIDE DEF l, what
    <2>4. Launched(pc', held', promise, browser, chrome, overtaken)
      <3>1. at[t] # "launching" /\ pc'[t] # "launching" /\ held'[t] # 0
        BY <1>3, <1>5, <2>1
      <3> QED
        BY <1>3, <3>1, LaunchedMove
    <2> QED
      BY <1>1, <1>2, <2>2, <2>3, <2>4 DEF Launches
  <1> QED
    BY <1>4, <1>5

\* At most one slot is free beside a queue, but for a task that comes alone.
OneFree(queue, active) ==
    queue # <<>> => active >= MaxConcurrent - 1 \/ Tail(queue) = <<>>

\* Handing over keeps both parts of the invariant, and leaves a task waiting
\* only when every slot is taken, if one slot at most was free beside a queue.
LEMMA HandOver ==
    ASSUME NEW queue, NEW active, NEW promise, NEW timer \in BOOLEAN, NEW at, NEW using,
           Sound(at, using, queue, active, promise, chrome), browser \in Launches \union {0},
           Launched(at, using, promise, browser, chrome, overtaken),
           ProcessQueue(Left(queue, active, promise, timer, at, using)),
           OneFree(queue, active)
    PROVE  /\ Sound(pc', held', taskQueue', activeTaskCount', browserPromise', chrome')
           /\ DOMAIN chrome \subseteq DOMAIN chrome' /\ idleTimer' \in BOOLEAN
           /\ Launched(pc', held', browserPromise', browser, chrome', overtaken)
           /\ taskQueue' # <<>> => activeTaskCount' = MaxConcurrent
           /\ \A u \in Tasks : at[u] = "settled" => pc'[u] = "settled"
  <1> DEFINE s == Left(queue, active, promise, timer, at, using)
  <1>1. /\ s.queue = queue /\ s.active = active /\ s.promise = promise
        /\ s.timer = timer /\ s.at = at /\ s.using = using
    BY DEF Left
  <1>2. MaxConcurrent \in Nat \ {0} /\ active \in Int /\ active <= MaxConcurrent /\ 0 <= active
    BY PoolAssumption DEF Sound
  <1>3. CASE queue # <<>> /\ active < MaxConcurrent
    <2> DEFINE t == Head(queue)
    <2>1. /\ taskQueue' = Tail(queue) /\ activeTaskCount' = active + 1
          /\ idleTimer' = FALSE /\ Acquire(t, s)
      BY <1>1, <1>3 DEF ProcessQueue
    <2>2. /\ t \in Tasks /\ at[t] = "queued"
          /\ \A what \in Run : Counted([at EXCEPT ![t] = what], Tail(queue), active + 1)
      BY <1>3, CountedStart DEF Sound, Run
    <2>3. /\ \E what \in Run : pc' = [at EXCEPT ![t] = what]
          /\ held' \in [Tasks -> DOMAIN chrome' \union {0}]
          /\ browserPromise' \in DOMAIN chrome' \union {0}
          /\ chrome' \in Seq(Processes) /\ DOMAIN chrome \subseteq DOMAIN chrome'
          /\ Launched(pc', held', browserPromise', browser, chrome', overtaken)
      <3> HIDE DEF t
      <3>1. /\ at \in [Tasks -> States] /\ using \in [Tasks -> Launches \union {0}]
            /\ promise \in Launches \union {0} /\ chrome \in Seq(Processes)
        BY DEF Sound, Launches
      <3> QED
        BY <2>1, <2>2, <3>1, Acquired
    <2>4. PICK what \in Run : pc' = [at EXCEPT ![t] = what]
      BY <2>3
    <2>5. Tail(queue) \in Seq(Tasks)
      BY <1>3 DEF Sound
    <2>6. activeTaskCount' \in 0..MaxConcurrent
      BY <1>2, <1>3, <2>1
    <2>7. pc' \in [Tasks -> States] /\ \A u \in Tasks : at[u] = "settled" => pc'[u] = "settled"
      BY <2>2, <2>4 DEF Sound, Run, States
    <2>8. taskQueue' # <<>> => activeTaskCount' = MaxConcurrent
      BY <1>2, <1>3, <2>1 DEF OneFree
    <2>9. Counted(pc', taskQueue', activeTaskCount')
      BY <2>1, <2>2, <2>4
    <2> HIDE DEF s, t
    <2> QED
      BY <2>1, <2>3, <2>5, <2>6, <2>7, <2>8, <2>9 DEF Sound
  <1>4. CASE ~(queue # <<>> /\ active < MaxConcurrent)
    <2>1. /\ taskQueue' = queue /\ activeTaskCount' = active
          /\ idleTimer' = timer /\ browserPromise' = promise
          /\ pc' = at /\ held' = using /\ UNCHANGED chrome
      BY <1>1, <1>4 DEF ProcessQueue
    <2>2. taskQueue' # <<>> => activeTaskCount' = MaxConcurrent
      BY <1>2, <1>4, <2>1
    <2> HIDE DEF s
    <2> QED
      BY <2>1, <2>2 DEF Sound
  <1> QED
    BY <1>3, <1>4

----------------------------------------------------------------------------
(* The invariant is inductive.                                             *)

LEMMA InitIInv == Init => IInv
  <1> SUFFICES ASSUME Init PROVE IInv
    OBVIOUS
  <1>1. TypeOK
    <2>1. 0 \in 0..MaxConcurrent /\ 0 \in 0..MaxFaults
      BY PoolAssumption
    <2>2. /\ pc \in [Tasks -> States] /\ held \in [Tasks -> Launches \union {0}]
          /\ outcome \in [Tasks -> {"none", "done", "error"}]
      BY DEF Init, States
    <2>3. taskQueue \in Seq(Tasks) /\ chrome \in Seq(Processes)
      BY DEF Init
    <2> QED
      BY <2>1, <2>2, <2>3 DEF Init, TypeOK, States, Processes
  <1>2. Queued(pc) = {} /\ Busy(pc) = {}
    BY DEF Init, Queued, Busy, Run
  <1>3. Counted(pc, taskQueue, activeTaskCount)
    <2>1. \A t \in Tasks : pc[t] # "queued"
      BY DEF Init
    <2>2. taskQueue = <<>> /\ Len(taskQueue) = 0 /\ activeTaskCount = 0
      BY DEF Init
    <2>3. 1..Len(taskQueue) = {}
      BY <2>2
    <2>4. Cardinality(Queued(pc)) = 0 /\ Cardinality(Busy(pc)) = 0
      BY <1>2, FS_EmptySet
    <2> QED
      BY <2>1, <2>2, <2>3, <2>4 DEF Counted
  <1>4. Launched(pc, held, browserPromise, browser, chrome, overtaken)
    BY DEF Init, Launched
  <1> QED
    BY <1>1, <1>3, <1>4 DEF Init, IInv

\* The invariant, from what HandOver gives and the fields it leaves alone.
LEMMA Rebuilt ==
    ASSUME Sound(pc', held', taskQueue', activeTaskCount', browserPromise', chrome'),
           Launched(pc', held', browserPromise', browser', chrome', overtaken'),
           taskQueue' # <<>> => activeTaskCount' = MaxConcurrent,
           \A u \in Tasks : outcome'[u] = "error" => pc'[u] = "settled",
           retried' \in SUBSET Retriers, outcome' \in [Tasks -> {"none", "done", "error"}],
           browser' \in DOMAIN chrome' \union {0}, closing' \in DOMAIN chrome' \union {0},
           idleTimer' \in BOOLEAN, stopping' \in BOOLEAN, overtaken' \in BOOLEAN,
           faults' \in 0..MaxFaults
    PROVE  IInv'
  <1>1. TypeOK'
    BY DEF Sound, TypeOK, Launches, States, Processes
  <1> QED
    BY <1>1 DEF Sound, IInv

\* What the invariant says of the pool, in the form the lemmas take.
LEMMA Parts ==
    ASSUME IInv
    PROVE  /\ Sound(pc, held, taskQueue, activeTaskCount, browserPromise, chrome)
           /\ Launched(pc, held, browserPromise, browser, chrome, overtaken)
           /\ taskQueue # <<>> => activeTaskCount = MaxConcurrent
           /\ \A u \in Tasks : outcome[u] = "error" => pc[u] = "settled"
           /\ retried \in SUBSET Retriers /\ outcome \in [Tasks -> {"none", "done", "error"}]
           /\ browser \in Launches \union {0} /\ closing \in Launches \union {0}
           /\ idleTimer \in BOOLEAN /\ stopping \in BOOLEAN /\ overtaken \in BOOLEAN
           /\ faults \in 0..MaxFaults /\ Launches = DOMAIN chrome
  BY DEF IInv, Sound, TypeOK, Launches, States, Processes

LEMMA EnqueueIInv ==
    ASSUME IInv, NEW t \in Tasks, Enqueue(t)
    PROVE  IInv'
  <1> DEFINE at == [pc EXCEPT ![t] = "queued"]
             queue == Append(taskQueue, t)
  <1>1. /\ pc[t] \in {"idle", "settled"} /\ retried' \in SUBSET Retriers
        /\ outcome' = [outcome EXCEPT ![t] = "none"]
        /\ ProcessQueue(Left(queue, activeTaskCount, browserPromise, idleTimer, at, held))
        /\ UNCHANGED <<browser, faults, stopping, closing, overtaken>>
    BY Parts DEF Enqueue
  <1>2. /\ pc \in [Tasks -> States] /\ taskQueue \in Seq(Tasks)
        /\ activeTaskCount \in 0..MaxConcurrent
        /\ Counted(pc, taskQueue, activeTaskCount)
    BY Parts DEF Sound
  <1>3. Counted(at, queue, activeTaskCount)
    BY <1>1, <1>2, CountedEnqueue
  <1>4. at \in [Tasks -> States] /\ queue \in Seq(Tasks)
    BY <1>2 DEF States
  <1>5. Sound(at, held, queue, activeTaskCount, browserPromise, chrome)
    BY <1>3, <1>4, Parts DEF Sound
  <1>6. at[t] = "queued" /\ OthersStay(t, pc, held, at, held)
    BY <1>2 DEF OthersStay
  <1>7. OneFree(queue, activeTaskCount) /\ browser \in Launches \union {0} /\ idleTimer \in BOOLEAN
    <2>1. CASE taskQueue = <<>>
      BY <2>1, Parts DEF OneFree
    <2>2. CASE taskQueue # <<>>
      BY <2>2, Parts, PoolAssumption DEF OneFree
    <2> QED
      BY <2>1, <2>2
  <1> HIDE DEF at, queue
  <1>8. Launched(at, held, browserPromise, browser, chrome, overtaken)
    <2>1. pc[t] # "launching" /\ at[t] # "launching" /\ at[t] \notin {"checking", "awaiting"}
      BY <1>1, <1>6
    <2> QED
      BY <1>6, <2>1, Parts, LaunchedMove
  <1>9. /\ Sound(pc', held', taskQueue', activeTaskCount', browserPromise', chrome')
        /\ DOMAIN chrome \subseteq DOMAIN chrome' /\ idleTimer' \in BOOLEAN
        /\ Launched(pc', held', browserPromise', browser, chrome', overtaken)
        /\ taskQueue' # <<>> => activeTaskCount' = MaxConcurrent
        /\ \A u \in Tasks : at[u] = "settled" => pc'[u] = "settled"
    BY <1>1, <1>5, <1>7, <1>8, HandOver
  <1>10. \A u \in Tasks : outcome'[u] = "error" => pc'[u] = "settled"
    BY <1>1, <1>6, <1>9, Parts DEF OthersStay
  <1>11. outcome' \in [Tasks -> {"none", "done", "error"}]
    BY <1>1, Parts
  <1>12. /\ browser' \in DOMAIN chrome' \union {0} /\ closing' \in DOMAIN chrome' \union {0}
         /\ stopping' \in BOOLEAN /\ overtaken' \in BOOLEAN /\ faults' \in 0..MaxFaults
    BY <1>1, <1>9, Parts
  <1>13. Launched(pc', held', browserPromise', browser', chrome', overtaken')
    BY <1>1, <1>9
  <1> QED
    BY <1>1, <1>9, <1>10, <1>11, <1>12, <1>13, Rebuilt

\* A task that runs ends, and leaves the launches in order as it does.
LEMMA SettleIInv ==
    ASSUME IInv, NEW t \in Tasks, pc[t] \in Run, NEW o \in {"done", "error"},
           NEW promise \in Launches \union {0}, NEW timer \in BOOLEAN,
           Launched([pc EXCEPT ![t] = "settled"], [held EXCEPT ![t] = 0], promise,
                    browser, chrome, overtaken),
           Settle(t, o, promise, timer)
    PROVE  IInv'
  <1> DEFINE at == [pc EXCEPT ![t] = "settled"]
             using == [held EXCEPT ![t] = 0]
             active == activeTaskCount - 1
  <1>1. /\ outcome' = [outcome EXCEPT ![t] = o]
        /\ ProcessQueue(Left(taskQueue, active, promise, timer, at, using))
        /\ UNCHANGED <<retried, browser, faults, stopping, closing, overtaken>>
    BY DEF Settle
  <1>2. /\ pc \in [Tasks -> States] /\ held \in [Tasks -> Launches \union {0}]
        /\ taskQueue \in Seq(Tasks) /\ activeTaskCount \in 0..MaxConcurrent
        /\ Counted(pc, taskQueue, activeTaskCount)
    BY Parts DEF Sound
  <1>3. active >= 0 /\ Counted(at, taskQueue, active)
    <2>1. activeTaskCount \in Int /\ active = activeTaskCount - 1
      BY <1>2
    <2> HIDE DEF active
    <2> QED
      BY <1>2, <2>1, CountedSettle
  <1>4. /\ at \in [Tasks -> States] /\ using \in [Tasks -> Launches \union {0}]
        /\ at[t] = "settled" /\ \A u \in Tasks : u # t => at[u] = pc[u]
    BY <1>2 DEF States
  <1>5. active \in 0..MaxConcurrent /\ OneFree(taskQueue, active)
    BY <1>2, <1>3, Parts, PoolAssumption DEF OneFree
  <1>6. Launched(at, using, promise, browser, chrome, overtaken)
    OBVIOUS
  <1> HIDE DEF at, using, active
  <1>7. Sound(at, using, taskQueue, active, promise, chrome)
    BY <1>3, <1>4, <1>5, Parts DEF Sound
  <1>8. /\ Sound(pc', held', taskQueue', activeTaskCount', browserPromise', chrome')
        /\ DOMAIN chrome \subseteq DOMAIN chrome' /\ idleTimer' \in BOOLEAN
        /\ Launched(pc', held', browserPromise', browser, chrome', overtaken)
        /\ taskQueue' # <<>> => activeTaskCount' = MaxConcurrent
        /\ \A u \in Tasks : at[u] = "settled" => pc'[u] = "settled"
    <2>1. browser \in Launches \union {0}
      BY Parts
    <2> QED
      BY <1>1, <1>5, <1>6, <1>7, <2>1, HandOver
  <1>9. \A u \in Tasks : outcome'[u] = "error" => pc'[u] = "settled"
    BY <1>1, <1>4, <1>8, Parts
  <1>10. outcome' \in [Tasks -> {"none", "done", "error"}]
    BY <1>1, Parts
  <1>11. /\ browser' \in DOMAIN chrome' \union {0} /\ closing' \in DOMAIN chrome' \union {0}
         /\ stopping' \in BOOLEAN /\ overtaken' \in BOOLEAN /\ faults' \in 0..MaxFaults
         /\ retried' \in SUBSET Retriers
    BY <1>1, <1>8, Parts
  <1>12. Launched(pc', held', browserPromise', browser', chrome', overtaken')
    BY <1>1, <1>8
  <1> QED
    BY <1>8, <1>9, <1>10, <1>11, <1>12, Rebuilt

\* A task that runs goes on, and leaves the launches in order as it does.
LEMMA MoveIInv ==
    ASSUME IInv, NEW t \in Tasks, pc[t] \in Run, NEW what \in Run,
           pc' = [pc EXCEPT ![t] = what], held' \in [Tasks -> DOMAIN chrome' \union {0}],
           chrome' \in Seq(Processes), DOMAIN chrome \subseteq DOMAIN chrome',
           browserPromise' \in DOMAIN chrome' \union {0},
           browser' \in DOMAIN chrome' \union {0}, overtaken' \in BOOLEAN,
           UNCHANGED <<retried, outcome, taskQueue, activeTaskCount, idleTimer, faults,
                       stopping, closing>>,
           Launched(pc', held', browserPromise', browser', chrome', overtaken')
    PROVE  IInv'
  <1>1. /\ pc \in [Tasks -> States] /\ taskQueue \in Seq(Tasks)
        /\ activeTaskCount \in 0..MaxConcurrent /\ Counted(pc, taskQueue, activeTaskCount)
    BY Parts DEF Sound
  <1>2. Counted(pc', taskQueue', activeTaskCount')
    BY <1>1, CountedMove
  <1>3. /\ pc' \in [Tasks -> States]
        /\ \A u \in Tasks : outcome'[u] = "error" => pc'[u] = "settled"
    BY <1>1, Parts DEF Run, States
  <1>4. Sound(pc', held', taskQueue', activeTaskCount', browserPromise', chrome')
    BY <1>1, <1>2, <1>3 DEF Sound
  <1>5. /\ closing' \in DOMAIN chrome' \union {0} /\ idleTimer' \in BOOLEAN
        /\ stopping' \in BOOLEAN /\ faults' \in 0..MaxFaults
        /\ retried' \in SUBSET Retriers /\ outcome' \in [Tasks -> {"none", "done", "error"}]
        /\ taskQueue' # <<>> => activeTaskCount' = MaxConcurrent
    BY Parts
  <1> QED
    BY <1>3, <1>4, <1>5, Rebuilt

LEMMA CheckAnswersIInv ==
    ASSUME IInv, NEW t \in Tasks, CheckAnswers(t)
    PROVE  IInv'
  <1>1. /\ pc[t] = "checking" /\ pc' = [pc EXCEPT ![t] = "rendering"]
        /\ held' = [held EXCEPT ![t] = browser]
        /\ UNCHANGED <<retried, outcome, taskQueue, activeTaskCount, browser, browserPromise,
                       idleTimer, chrome, faults, stopping, closing, overtaken>>
    BY DEF CheckAnswers
  <1>2. /\ pc \in [Tasks -> States] /\ held \in [Tasks -> DOMAIN chrome \union {0}]
        /\ browser \in DOMAIN chrome \union {0} /\ browserPromise \in DOMAIN chrome \union {0}
        /\ chrome \in Seq(Processes) /\ overtaken \in BOOLEAN
        /\ Launched(pc, held, browserPromise, browser, chrome, overtaken)
    BY Parts DEF Sound
  <1>3. OthersStay(t, pc, held, pc', held') /\ pc'[t] = "rendering"
    BY <1>1, <1>2 DEF OthersStay
  <1>4. pc[t] # "launching" /\ pc'[t] # "launching" /\ pc'[t] \notin {"checking", "awaiting"}
    BY <1>1, <1>3
  <1>5. Launched(pc', held', browserPromise, browser, chrome, overtaken)
    BY <1>2, <1>3, <1>4, LaunchedMove
  <1>6. held' \in [Tasks -> DOMAIN chrome \union {0}]
    BY <1>1, <1>2
  <1>7. pc[t] \in Run /\ "rendering" \in Run
    BY <1>1 DEF Run
  <1> QED
    BY <1>1, <1>2, <1>5, <1>6, <1>7, MoveIInv

LEMMA CheckFailsIInv ==
    ASSUME IInv, NEW t \in Tasks, CheckFails(t)
    PROVE  IInv'
  <1>1. /\ pc[t] = "checking" /\ chrome[held[t]] # "up"
        /\ overtaken' = (overtaken \/ browser # held[t])
        /\ browser' = 0 /\ browserPromise' = Len(chrome) + 1
        /\ chrome' = Append(chrome, "launching")
        /\ pc' = [pc EXCEPT ![t] = "launching"]
        /\ held' = [held EXCEPT ![t] = Len(chrome) + 1]
        /\ UNCHANGED <<retried, outcome, taskQueue, activeTaskCount, idleTimer, faults,
                       stopping, closing>>
    BY DEF CheckFails
  <1>2. /\ pc \in [Tasks -> States] /\ held \in [Tasks -> DOMAIN chrome \union {0}]
        /\ chrome \in Seq(Processes) /\ overtaken \in BOOLEAN
        /\ Launched(pc, held, browserPromise, browser, chrome, overtaken)
    BY Parts DEF Sound
  <1>3. chrome' \in Seq(Processes) /\ More(chrome, browserPromise', chrome')
    BY <1>1, <1>2, OneMoreLaunch
  <1>4. /\ DOMAIN chrome' = DOMAIN chrome \union {browserPromise'}
        /\ held' \in [Tasks -> DOMAIN chrome' \union {0}]
    BY <1>1, <1>2, <1>3 DEF More
  <1>5. /\ OthersStay(t, pc, held, pc', held') /\ pc'[t] = "launching"
        /\ held'[t] = browserPromise'
    BY <1>1, <1>2 DEF OthersStay
  <1>6. ASSUME ~overtaken'
        PROVE  Nothing(pc, chrome)
    <2>1. ~overtaken /\ browser = held[t] /\ held[t] # 0
      BY <1>1, <1>2, <1>6 DEF Launched
    <2>2. browserPromise = browser /\ \A u \in Tasks : pc[u] # "launching"
      BY <1>2, <2>1 DEF Launched
    <2>3. \A l \in DOMAIN chrome : chrome[l] \notin {"launching", "up"}
      BY <1>1, <1>2, <2>1, <2>2 DEF Launched
    <2> QED
      BY <2>2, <2>3 DEF Nothing
  <1>7. Launched(pc', held', browserPromise', browser', chrome', overtaken')
    <2>1. pc[t] # "launching" /\ browser' = 0
      BY <1>1
    <2>2. Launched(pc', held', browserPromise', 0, chrome', overtaken')
      BY <1>2, <1>3, <1>5, <1>6, <2>1, LaunchedNew
    <2> QED
      BY <2>1, <2>2
  <1>8. pc[t] \in Run /\ "launching" \in Run
    BY <1>1 DEF Run
  <1>9. overtaken' \in BOOLEAN
    BY <1>1
  <1> QED
    BY <1>1, <1>3, <1>4, <1>7, <1>8, <1>9, MoveIInv

LEMMA LaunchResolvesIInv ==
    ASSUME IInv, NEW t \in Tasks, LaunchResolves(t)
    PROVE  IInv'
  <1>1. /\ pc[t] \in {"launching", "awaiting"}
        /\ chrome[held[t]] \in {"up", "hung", "down"}
        /\ pc' = [pc EXCEPT ![t] = "rendering"]
        /\ browser' = IF pc[t] = "launching" THEN held[t] ELSE browser
        /\ UNCHANGED <<held, retried, outcome, taskQueue, activeTaskCount, browserPromise,
                       idleTimer, chrome, faults, stopping, closing, overtaken>>
    BY DEF LaunchResolves
  <1>2. /\ pc \in [Tasks -> States] /\ held \in [Tasks -> DOMAIN chrome \union {0}]
        /\ browser \in DOMAIN chrome \union {0} /\ browserPromise \in DOMAIN chrome \union {0}
        /\ chrome \in Seq(Processes) /\ overtaken \in BOOLEAN
        /\ Launched(pc, held, browserPromise, browser, chrome, overtaken)
    BY Parts DEF Sound
  <1>3. OthersStay(t, pc, held, pc', held) /\ pc'[t] = "rendering"
    BY <1>1, <1>2 DEF OthersStay
  <1>4. Launched(pc', held, browserPromise, browser', chrome, overtaken)
    <2>1. CASE pc[t] = "launching"
      <3>1. browser' = held[t]
        BY <1>1, <2>1
      <3>2. chrome[held[t]] \in {"up", "hung", "down"}
        BY <1>1
      <3> QED
        BY <1>2, <1>3, <2>1, <3>1, <3>2, LaunchedResolves
    <2>2. CASE pc[t] # "launching"
      <3>1. browser' = browser
        BY <1>1, <2>2
      <3>2. pc'[t] # "launching" /\ pc'[t] \notin {"checking", "awaiting"}
        BY <1>3
      <3> QED
        BY <1>2, <1>3, <2>2, <3>1, <3>2, LaunchedMove
    <2> QED
      BY <2>1, <2>2
  <1>5. browser' \in DOMAIN chrome \union {0}
    BY <1>1, <1>2
  <1>6. pc[t] \in Run /\ "rendering" \in Run
    BY <1>1 DEF Run
  <1> QED
    BY <1>1, <1>2, <1>4, <1>5, <1>6, MoveIInv

LEMMA LaunchRejectsIInv ==
    ASSUME IInv, NEW t \in Tasks, LaunchRejects(t)
    PROVE  IInv'
  <1> DEFINE at == [pc EXCEPT ![t] = "settled"]
             using == [held EXCEPT ![t] = 0]
             promise == IF pc[t] = "launching" THEN 0 ELSE browserPromise
  <1>1. /\ pc[t] \in {"launching", "awaiting"} /\ chrome[held[t]] = "failed"
        /\ Settle(t, "error", promise, idleTimer)
    BY DEF LaunchRejects
  <1>2. /\ pc \in [Tasks -> States] /\ held \in [Tasks -> DOMAIN chrome \union {0}]
        /\ browserPromise \in DOMAIN chrome \union {0} /\ chrome \in Seq(Processes)
        /\ Launched(pc, held, browserPromise, browser, chrome, overtaken)
        /\ idleTimer \in BOOLEAN
    BY Parts DEF Sound
  <1>3. OthersStay(t, pc, held, at, using) /\ at[t] = "settled"
    BY <1>2 DEF OthersStay
  <1>4. promise \in Launches \union {0}
    BY <1>2 DEF Launches
  <1>5. Launched(at, using, promise, browser, chrome, overtaken)
    <2>1. CASE pc[t] = "launching"
      <3>1. promise = 0 /\ 0 \notin DOMAIN chrome
        BY <1>2, <2>1, OneMoreLaunch
      <3> HIDE DEF at, using, promise
      <3> QED
        BY <1>1, <1>2, <1>3, <2>1, <3>1, LaunchedRejects
    <2>2. CASE pc[t] # "launching"
      <3>1. promise = browserPromise
        BY <2>2
      <3>2. at[t] # "launching" /\ at[t] \notin {"checking", "awaiting"}
        BY <1>3
      <3> HIDE DEF at, using, promise
      <3> QED
        BY <1>2, <1>3, <2>2, <3>1, <3>2, LaunchedMove
    <2> QED
      BY <2>1, <2>2
  <1>6. pc[t] \in Run
    BY <1>1 DEF Run
  <1> HIDE DEF promise
  <1> QED
    BY <1>1, <1>2, <1>4, <1>5, <1>6, SettleIInv

LEMMA RenderIInv ==
    ASSUME IInv, NEW t \in Tasks, Render(t)
    PROVE  IInv'
  <1> DEFINE at == [pc EXCEPT ![t] = "settled"]
             using == [held EXCEPT ![t] = 0]
  <1>1. /\ pc[t] = "rendering" /\ pc[t] \in Run
        /\ \E o \in {"done", "error"} : Settle(t, o, browserPromise, IdleTimerSet)
    BY DEF Render, Run
  <1>2. /\ pc \in [Tasks -> States] /\ held \in [Tasks -> DOMAIN chrome \union {0}]
        /\ browserPromise \in Launches \union {0}
        /\ Launched(pc, held, browserPromise, browser, chrome, overtaken)
        /\ IdleTimerSet \in BOOLEAN
    BY Parts DEF Sound, IdleTimerSet
  <1>3. OthersStay(t, pc, held, at, using) /\ at[t] = "settled"
    BY <1>2 DEF OthersStay
  <1>4. Launched(at, using, browserPromise, browser, chrome, overtaken)
    <2>1. pc[t] # "launching" /\ at[t] # "launching" /\ at[t] \notin {"checking", "awaiting"}
      BY <1>1, <1>3
    <2> HIDE DEF at, using
    <2> QED
      BY <1>2, <1>3, <2>1, LaunchedMove
  <1> QED
    BY <1>1, <1>2, <1>4, SettleIInv

\* The browser processes change, and no task does.
LEMMA ChromeIInv ==
    ASSUME IInv, chrome' \in Seq(Processes), DOMAIN chrome' = DOMAIN chrome,
           UNCHANGED <<pc, held, retried, outcome, taskQueue, activeTaskCount>>,
           browserPromise' \in DOMAIN chrome \union {0}, browser' \in DOMAIN chrome \union {0},
           closing' \in DOMAIN chrome \union {0}, idleTimer' \in BOOLEAN,
           stopping' \in BOOLEAN, overtaken' \in BOOLEAN, faults' \in 0..MaxFaults,
           Launched(pc, held, browserPromise', browser', chrome', overtaken')
    PROVE  IInv'
  <1>1. Sound(pc', held', taskQueue', activeTaskCount', browserPromise', chrome')
    BY Parts DEF Sound
  <1>2. /\ taskQueue' # <<>> => activeTaskCount' = MaxConcurrent
        /\ \A u \in Tasks : outcome'[u] = "error" => pc'[u] = "settled"
        /\ retried' \in SUBSET Retriers /\ outcome' \in [Tasks -> {"none", "done", "error"}]
    BY Parts
  <1> QED
    BY <1>1, <1>2, Rebuilt

LEMMA CloseBrowserIInv ==
    ASSUME IInv, CloseBrowser
    PROVE  IInv'
  <1>1. /\ closing' = browser /\ idleTimer' = FALSE
        /\ stopping' = (stopping \/ ~idleTimer)
        /\ UNCHANGED <<pc, held, retried, outcome, taskQueue, activeTaskCount, browser,
                       browserPromise, chrome, faults, overtaken>>
    BY DEF CloseBrowser
  <1>2. /\ browser \in DOMAIN chrome \union {0} /\ browserPromise \in DOMAIN chrome \union {0}
        /\ chrome \in Seq(Processes) /\ overtaken \in BOOLEAN /\ faults \in 0..MaxFaults
        /\ Launched(pc, held, browserPromise, browser, chrome, overtaken)
    BY Parts DEF Sound
  <1>3. stopping' \in BOOLEAN
    BY <1>1
  <1> QED
    BY <1>1, <1>2, <1>3, ChromeIInv

LEMMA BrowserClosedIInv ==
    ASSUME IInv, BrowserClosed
    PROVE  IInv'
  <1>1. /\ closing # 0 /\ chrome' = [chrome EXCEPT ![closing] = "down"]
        /\ overtaken' = (overtaken \/ browser # closing)
        /\ browser' = 0 /\ browserPromise' = 0 /\ closing' = 0
        /\ UNCHANGED <<pc, held, retried, outcome, taskQueue, activeTaskCount, idleTimer,
                       faults, stopping>>
    BY DEF BrowserClosed
  <1>2. /\ closing \in DOMAIN chrome /\ chrome \in Seq(Processes)
        /\ idleTimer \in BOOLEAN /\ stopping \in BOOLEAN /\ faults \in 0..MaxFaults
        /\ Launched(pc, held, browserPromise, browser, chrome, overtaken)
    BY <1>1, Parts DEF Sound
  <1>3. chrome' \in Seq(Processes) /\ DOMAIN chrome' = DOMAIN chrome
    BY <1>1, <1>2 DEF Processes
  <1>4. Launched(pc, held, 0, 0, [chrome EXCEPT ![closing] = "down"],
                 overtaken \/ browser # closing)
    BY <1>1, <1>2, LaunchedClosed
  <1>5. Launched(pc, held, browserPromise', browser', chrome', overtaken')
    BY <1>1, <1>4
  <1>6. overtaken' \in BOOLEAN
    BY <1>1
  <1> QED
    BY <1>1, <1>2, <1>3, <1>5, <1>6, ChromeIInv

LEMMA LaunchSettlesIInv ==
    ASSUME IInv, NEW l \in Launches, LaunchSettles(l)
    PROVE  IInv'
  <1>1. /\ chrome[l] = "launching"
        /\ \E s \in {"up", "failed"} : chrome' = [chrome EXCEPT ![l] = s]
        /\ \/ faults' = faults
           \/ faults < MaxFaults /\ faults' = faults + 1
        /\ UNCHANGED <<pc, held, retried, outcome, taskQueue, activeTaskCount, browser,
                       browserPromise, idleTimer, stopping, closing, overtaken>>
    BY DEF LaunchSettles
  <1>2. /\ browser \in DOMAIN chrome \union {0} /\ browserPromise \in DOMAIN chrome \union {0}
        /\ closing \in DOMAIN chrome \union {0} /\ chrome \in Seq(Processes)
        /\ idleTimer \in BOOLEAN /\ stopping \in BOOLEAN /\ overtaken \in BOOLEAN
        /\ faults \in 0..MaxFaults /\ l \in DOMAIN chrome
        /\ Launched(pc, held, browserPromise, browser, chrome, overtaken)
    BY Parts DEF Sound, Launches
  <1>3. PICK s \in {"up", "failed"} : chrome' = [chrome EXCEPT ![l] = s]
    BY <1>1
  <1>4. s \in Processes
    BY DEF Processes
  <1>5. chrome' \in Seq(Processes) /\ DOMAIN chrome' = DOMAIN chrome
    BY <1>2, <1>3, <1>4
  <1>6. Launched(pc, held, browserPromise, browser, chrome', overtaken)
    BY <1>1, <1>2, <1>3, <1>4, LaunchedSettles
  <1>7. faults' \in 0..MaxFaults
    BY <1>1, <1>2, PoolAssumption
  <1> QED
    BY <1>1, <1>2, <1>5, <1>6, <1>7, ChromeIInv

LEMMA ChromeFailsIInv ==
    ASSUME IInv, NEW l \in Launches, ChromeFails(l)
    PROVE  IInv'
  <1>1. /\ chrome[l] = "up" /\ faults < MaxFaults /\ faults' = faults + 1
        /\ \E s \in {"down", "hung"} : chrome' = [chrome EXCEPT ![l] = s]
        /\ UNCHANGED <<pc, held, retried, outcome, taskQueue, activeTaskCount, browser,
                       browserPromise, idleTimer, stopping, closing, overtaken>>
    BY DEF ChromeFails
  <1>2. /\ browser \in DOMAIN chrome \union {0} /\ browserPromise \in DOMAIN chrome \union {0}
        /\ closing \in DOMAIN chrome \union {0} /\ chrome \in Seq(Processes)
        /\ idleTimer \in BOOLEAN /\ stopping \in BOOLEAN /\ overtaken \in BOOLEAN
        /\ faults \in 0..MaxFaults /\ l \in DOMAIN chrome
        /\ Launched(pc, held, browserPromise, browser, chrome, overtaken)
    BY Parts DEF Sound, Launches
  <1>3. PICK s \in {"down", "hung"} : chrome' = [chrome EXCEPT ![l] = s]
    BY <1>1
  <1>4. s \in Processes
    BY DEF Processes
  <1>5. chrome' \in Seq(Processes) /\ DOMAIN chrome' = DOMAIN chrome
    BY <1>2, <1>3, <1>4
  <1>6. Launched(pc, held, browserPromise, browser, chrome', overtaken)
    BY <1>1, <1>2, <1>3, <1>4, LaunchedSettles
  <1>7. faults' \in 0..MaxFaults
    BY <1>1, <1>2, PoolAssumption
  <1> QED
    BY <1>1, <1>2, <1>5, <1>6, <1>7, ChromeIInv

LEMMA NextIInv == IInv /\ [Next]_vars => IInv'
  <1> SUFFICES ASSUME IInv, [Next]_vars PROVE IInv'
    OBVIOUS
  <1>1. ASSUME NEW t \in Tasks, Enqueue(t) PROVE IInv'
    BY <1>1, EnqueueIInv
  <1>2. ASSUME NEW t \in Tasks, CheckAnswers(t) PROVE IInv'
    BY <1>2, CheckAnswersIInv
  <1>3. ASSUME NEW t \in Tasks, CheckFails(t) PROVE IInv'
    BY <1>3, CheckFailsIInv
  <1>4. ASSUME NEW t \in Tasks, LaunchResolves(t) PROVE IInv'
    BY <1>4, LaunchResolvesIInv
  <1>5. ASSUME NEW t \in Tasks, LaunchRejects(t) PROVE IInv'
    BY <1>5, LaunchRejectsIInv
  <1>6. ASSUME NEW t \in Tasks, Render(t) PROVE IInv'
    BY <1>6, RenderIInv
  <1>7. ASSUME NEW l \in Launches, LaunchSettles(l) PROVE IInv'
    BY <1>7, LaunchSettlesIInv
  <1>8. ASSUME NEW l \in Launches, ChromeFails(l) PROVE IInv'
    BY <1>8, ChromeFailsIInv
  <1>9. CASE CloseBrowser
    BY <1>9, CloseBrowserIInv
  <1>10. CASE BrowserClosed
    BY <1>10, BrowserClosedIInv
  <1>11. CASE UNCHANGED vars
    BY <1>11 DEF IInv, TypeOK, Launches, vars
  <1> QED
    BY <1>1, <1>2, <1>3, <1>4, <1>5, <1>6, <1>7, <1>8, <1>9, <1>10, <1>11 DEF Next

\* The invariant holds in every reachable state of the pool.
THEOREM AlwaysIInv == Spec => []IInv
  <1> QED
    BY InitIInv, NextIInv, PTL DEF Spec

----------------------------------------------------------------------------
(* What the pool promises.                                                 *)

\* Every field of the service and every task keeps its type; in particular no
\* more than maxConcurrent tasks run at once (puppeteer-pool.service.ts,
\* enqueue and processQueue).
THEOREM TypeCorrect == Spec => []TypeOK
  <1>1. IInv => TypeOK
    BY DEF IInv
  <1> QED
    BY AlwaysIInv, <1>1, PTL

\* A slot is counted for each task that runs and for no other, the queue holds
\* the tasks that wait, each once, and none waits beside a free slot: every
\* path out of a task, the errors included, frees its slot and calls
\* processQueue.
THEOREM SlotsAccounted == Spec => []SlotsUsed
  <1>1. IInv => SlotsUsed
    <2> SUFFICES ASSUME IInv PROVE SlotsUsed
      OBVIOUS
    <2>1. Running = Busy(pc) /\ {t \in Tasks : pc[t] = "queued"} = Queued(pc)
      BY DEF Running, Busy, Run, Queued
    <2>2. /\ taskQueue \in Seq(Tasks) /\ Counted(pc, taskQueue, activeTaskCount)
          /\ taskQueue # <<>> => activeTaskCount = MaxConcurrent
      BY Parts DEF Sound
    <2>3. \A i \in DOMAIN taskQueue : pc[taskQueue[i]] = "queued"
      BY <2>2 DEF Counted
    <2> QED
      BY <2>1, <2>2, <2>3 DEF SlotsUsed, Counted
  <1> QED
    BY AlwaysIInv, <1>1, PTL

\* A Chrome process that answers is never lost from sight, unless a task gave
\* up a browser that another had given up before it: acquireBrowser clears
\* both fields on a failed check without looking whose they are.
THEOREM BrowsersKept == Spec => []NoStrayBrowser
  <1>1. IInv => NoStrayBrowser
    BY Parts DEF NoStrayBrowser, Launched
  <1> QED
    BY AlwaysIInv, <1>1, PTL

\* No task is made to wait for a launch that failed: while browserPromise
\* holds one, the task that launched it is about to clear it.
THEOREM PromisesLive == Spec => []NoDeadPromise
  <1>1. IInv => NoDeadPromise
    BY Parts DEF NoDeadPromise, Launched
  <1> QED
    BY AlwaysIInv, <1>1, PTL
=============================================================================
