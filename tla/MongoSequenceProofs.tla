------------------------ MODULE MongoSequenceProofs ------------------------
(* From a counter that no id is above, no id is ever given twice, for any  *)
(* collections, workers and bounds.                                        *)
EXTENDS MongoSequence, TLAPS, WellFoundedInduction

Writing(w) == request[w].stage = "write"

\* A call that has an id holds one that no document ever had and no other
\* call holds; nobody is reseeding.
HeldIdsAreFresh ==
    \A w \in Workers :
        /\ request[w].stage \in {"idle", "increment", "write"}
        /\ request[w] # Idle => request[w].op \in {"create", "save"}
        /\ Writing(w) =>
             /\ request[w].id \in Ids
             /\ request[w].id <= counter
             /\ \A c \in Collections : given[c][request[w].id] = 0
             /\ \A v \in Workers : Writing(v) /\ v # w => request[v].id # request[w].id

\* Whatever was given is at most the counter, and what is stored was given.
CounterAhead ==
    /\ counter \in 0..MaxId
    /\ \A c \in Collections : \A i \in Ids :
          /\ given[c][i] > 0 => i <= counter
          /\ i \in docs[c] => given[c][i] > 0

IInv == TypeOK /\ CounterAhead /\ HeldIdsAreFresh /\ NoCollisions

LEMMA SeededInitIInv == SeededInit => IInv
  <1> SUFFICES ASSUME SeededInit PROVE IInv
    OBVIOUS
  <1>1. /\ docs \in [Collections -> SUBSET Ids]
        /\ counter \in 0..MaxId
        /\ \A c \in Collections : \A i \in Ids :
              given[c][i] = IF i \in docs[c] THEN 1 ELSE 0
        /\ given \in [Collections -> [Ids -> 0..2]]
    BY DEF Init, SeededInit, Missing
  <1>2. TypeOK
    BY <1>1 DEF SeededInit, Init, TypeOK
  <1>3. CounterAhead
    BY <1>1 DEF SeededInit, CounterAhead
  <1>4. HeldIdsAreFresh
    BY DEF SeededInit, Init, HeldIdsAreFresh, Idle, Writing
  <1>5. NoCollisions
    BY <1>1 DEF SeededInit, Init, NoCollisions
  <1> QED
    BY <1>2, <1>3, <1>4, <1>5 DEF IInv

\* What the invariant says of a call that has not ended.
LEMMA CallType ==
    ASSUME IInv, NEW w \in Workers, request[w] # Idle
    PROVE  /\ request[w] \in Call
           /\ request[w].coll \in Collections
           /\ request[w].stage \in {"increment", "write"}
  BY DEF IInv, TypeOK, HeldIdsAreFresh, Call

\* Ending a call changes nothing for the others.
LEMMA FinishIInv ==
    ASSUME IInv, NEW w \in Workers, Finish(w), UNCHANGED <<counter, docs, given>>
    PROVE  IInv'
  <1>1. \A v \in Workers : request'[v] = IF v = w THEN Idle ELSE request[v]
    BY DEF IInv, TypeOK, Finish
  <1>2. TypeOK'
    BY DEF IInv, TypeOK, Finish
  <1>3. HeldIdsAreFresh'
    BY <1>1 DEF IInv, HeldIdsAreFresh, Writing, Idle
  <1>4. CounterAhead' /\ NoCollisions'
    BY DEF IInv, CounterAhead, NoCollisions
  <1> QED
    BY <1>2, <1>3, <1>4 DEF IInv

\* A document under a fresh id: the id is given once, in one collection, and
\* the calls that are still holding an id hold another.
LEMMA PutIInv ==
    ASSUME BoundsAssumption, IInv, NEW w \in Workers, Writing(w),
           Put(w, request[w].coll, request[w].id), counter' = counter
    PROVE  IInv'
  <1> DEFINE id == request[w].id
             c == request[w].coll
  <1>1. request[w] # Idle /\ c \in Collections /\ id \in Ids /\ id <= counter
    BY CallType DEF Writing, Idle, IInv, HeldIdsAreFresh
  <1>2. \A d \in Collections : given[d][id] = 0
    BY DEF IInv, HeldIdsAreFresh
  <1>3. \A d \in Collections : \A i \in Ids :
          given'[d][i] = IF d = c /\ i = id THEN 1 ELSE given[d][i]
    BY <1>1, <1>2 DEF Put, AtMost, IInv, TypeOK
  <1>4. \A d \in Collections : docs'[d] = IF d = c THEN docs[d] \cup {id} ELSE docs[d]
    BY <1>1 DEF Put, IInv, TypeOK
  <1>5. \A v \in Workers :
          \/ request'[v] = Idle
          \/ /\ v # w
             /\ request'[v] \in Call
             /\ request'[v].stage = request[v].stage
             /\ request'[v].op = request[v].op
             /\ request'[v].id = request[v].id
    <2> SUFFICES ASSUME NEW v \in Workers, request'[v] # Idle
                 PROVE  /\ v # w
                        /\ request'[v] \in Call
                        /\ request'[v].stage = request[v].stage
                        /\ request'[v].op = request[v].op
                        /\ request'[v].id = request[v].id
      OBVIOUS
    <2>1. v # w /\ request[v] # Idle
      BY DEF Put
    <2>2. request[v] \in Call
      BY <2>1, CallType
    <2>3. \/ request'[v] = request[v]
          \/ request'[v] = [request[v] EXCEPT !.beaten = AtMost(MaxRetries, @ + 1)]
      BY <2>1 DEF Put
    <2>4. AtMost(MaxRetries, request[v].beaten + 1) \in 0..MaxRetries
      BY <2>2 DEF Call, AtMost, BoundsAssumption
    <2> QED
      BY <2>1, <2>2, <2>3, <2>4 DEF Call
  <1>6. TypeOK'
    <2>1. docs' \in [Collections -> SUBSET Ids]
      BY <1>1 DEF Put, IInv, TypeOK
    <2>2. given' \in [Collections -> [Ids -> 0..2]]
      BY <1>1, <1>2 DEF Put, AtMost, IInv, TypeOK
    <2>3. request' \in [Workers -> Call \cup {Idle}]
      BY <1>5 DEF Put
    <2> QED
      BY <2>1, <2>2, <2>3 DEF IInv, TypeOK
  <1>7. CounterAhead'
    <2>1. counter' \in 0..MaxId
      BY DEF IInv, CounterAhead
    <2> SUFFICES ASSUME NEW d \in Collections, NEW i \in Ids
                 PROVE  /\ given'[d][i] > 0 => i <= counter'
                        /\ i \in docs'[d] => given'[d][i] > 0
      BY <2>1 DEF CounterAhead
    <2>2. /\ given[d][i] > 0 => i <= counter
          /\ i \in docs[d] => given[d][i] > 0
      BY DEF IInv, CounterAhead
    <2>3. CASE d = c /\ i = id
      BY <1>1, <1>3, <2>3
    <2>4. CASE ~(d = c /\ i = id)
      <3>1. given'[d][i] = given[d][i]
        BY <1>3, <2>4
      <3>2. i \in docs'[d] => i \in docs[d]
        BY <1>4, <2>4
      <3> QED
        BY <2>2, <3>1, <3>2
    <2> QED
      BY <2>3, <2>4
  <1>8. HeldIdsAreFresh'
    <2> SUFFICES ASSUME NEW v \in Workers, request'[v] # Idle
                 PROVE  /\ request'[v].stage \in {"increment", "write"}
                        /\ request'[v].op \in {"create", "save"}
                        /\ Writing(v)' =>
                             /\ request'[v].id \in Ids
                             /\ request'[v].id <= counter'
                             /\ \A d \in Collections : given'[d][request'[v].id] = 0
                             /\ \A u \in Workers : Writing(u)' /\ u # v =>
                                  request'[u].id # request'[v].id
      BY DEF HeldIdsAreFresh, Writing, Idle
    <2>1. v # w /\ request[v] # Idle
      BY DEF Put
    <2>2. request[v].stage \in {"increment", "write"}
      BY <2>1, CallType
    <2>3. ASSUME Writing(v)' PROVE Writing(v) /\ request[v].id # id
      BY <1>5, <2>1, <2>3 DEF Writing, IInv, HeldIdsAreFresh
    <2>4. \A u \in Workers : Writing(u)' => Writing(u) /\ request'[u].id = request[u].id
      BY <1>5 DEF Writing, Idle
    <2>5. /\ request'[v].stage = request[v].stage
          /\ request'[v].op = request[v].op
          /\ request'[v].id = request[v].id
      BY <1>5
    <2>6. request[v].op \in {"create", "save"}
      BY <2>1 DEF IInv, HeldIdsAreFresh
    <2>7. ASSUME Writing(v)'
          PROVE  /\ request[v].id \in Ids
                 /\ request[v].id <= counter'
                 /\ \A d \in Collections : given'[d][request[v].id] = 0
                 /\ \A u \in Workers : Writing(u)' /\ u # v =>
                      request'[u].id # request[v].id
      <3>1. Writing(v) /\ request[v].id # id
        BY <2>3, <2>7
      <3>2. /\ request[v].id \in Ids
            /\ request[v].id <= counter
            /\ \A d \in Collections : given[d][request[v].id] = 0
            /\ \A u \in Workers : Writing(u) /\ u # v => request[u].id # request[v].id
        BY <3>1 DEF IInv, HeldIdsAreFresh
      <3> QED
        BY <1>3, <2>4, <3>1, <3>2
    <2> QED
      BY <2>2, <2>5, <2>6, <2>7
  <1>9. NoCollisions'
    BY <1>2, <1>3, <1>1 DEF IInv, NoCollisions, TypeOK
  <1> QED
    BY <1>6, <1>7, <1>8, <1>9 DEF IInv

LEMMA StartIInv ==
    ASSUME BoundsAssumption, IInv, NEW w \in Workers, Start(w)
    PROVE  IInv'
  <1>1. PICK op \in {"create", "save"}, c \in Collections :
          request' = [request EXCEPT ![w] =
                        [stage |-> "increment", op |-> op, coll |-> c, id |-> 0, seen |-> 0,
                         left |-> {}, attempt |-> 0, beaten |-> 0]]
    BY DEF Start
  <1>2. \A v \in Workers : v # w => request'[v] = request[v]
    BY <1>1 DEF IInv, TypeOK
  <1>3. request'[w].stage = "increment"
    BY <1>1 DEF IInv, TypeOK
  <1>4. TypeOK'
    <2>1. [stage |-> "increment", op |-> op, coll |-> c, id |-> 0, seen |-> 0,
           left |-> {}, attempt |-> 0, beaten |-> 0] \in Call
      BY DEF Call, BoundsAssumption
    <2> QED
      BY <1>1, <2>1 DEF IInv, TypeOK, Start
  <1>5. HeldIdsAreFresh'
    BY <1>2, <1>3 DEF IInv, HeldIdsAreFresh, Writing, Start
  <1>6. CounterAhead' /\ NoCollisions'
    BY DEF IInv, CounterAhead, NoCollisions, Start
  <1> QED
    BY <1>4, <1>5, <1>6 DEF IInv

\* The id minted is above the counter, hence above every id given or held.
LEMMA IncrementIInv ==
    ASSUME BoundsAssumption, IInv, NEW w \in Workers, Increment(w)
    PROVE  IInv'
  <1> DEFINE id == counter + 1
  <1>1. /\ counter \in 0..MaxId /\ counter' = id /\ id \in Ids
        /\ request' = [request EXCEPT ![w].stage = "write", ![w].id = id]
    BY DEF Increment, Minted, IInv, CounterAhead, Ids, BoundsAssumption
  <1>2. request[w] \in Call /\ request[w] # Idle
    BY CallType DEF Increment, Idle
  <1>3. \A v \in Workers : v # w => request'[v] = request[v]
    BY <1>1 DEF IInv, TypeOK
  <1>4. /\ request'[w].stage = "write" /\ request'[w].id = id
        /\ request'[w].op = request[w].op
        /\ request'[w] \in Call
    <2>1. request'[w] = [request[w] EXCEPT !.stage = "write", !.id = id]
      BY <1>1 DEF IInv, TypeOK
    <2>2. id \in 0..MaxId
      BY <1>1 DEF Ids, IInv, CounterAhead
    <2>3. [request[w] EXCEPT !.stage = "write", !.id = id] \in Call
      BY <1>2, <2>2 DEF Call
    <2> QED
      BY <1>2, <2>1, <2>3 DEF Call
  <1>5. request[w].op \in {"create", "save"}
    BY <1>2 DEF IInv, HeldIdsAreFresh
  <1>6. \A d \in Collections : given[d][id] = 0
    BY <1>1 DEF IInv, CounterAhead, TypeOK, Ids
  <1>7. TypeOK'
    BY <1>1, <1>3, <1>4 DEF IInv, TypeOK, Increment, Ids
  <1>8. CounterAhead'
    BY <1>1 DEF IInv, CounterAhead, Increment, Ids
  <1>9. HeldIdsAreFresh'
    <2>1. given' = given /\ ~(id <= counter) /\ counter \in Int
      BY <1>1 DEF Increment
    <2>2. \A v \in Workers : Writing(v) =>
             /\ request[v].id \in Ids /\ request[v].id <= counter
             /\ request[v].id <= id /\ request[v].id # id
      BY <1>1 DEF IInv, HeldIdsAreFresh, Ids
    <2> SUFFICES ASSUME NEW v \in Workers
                 PROVE  /\ request'[v].stage \in {"idle", "increment", "write"}
                        /\ request'[v] # Idle => request'[v].op \in {"create", "save"}
                        /\ Writing(v)' =>
                             /\ request'[v].id \in Ids
                             /\ request'[v].id <= counter'
                             /\ \A d \in Collections : given'[d][request'[v].id] = 0
                             /\ \A u \in Workers : Writing(u)' /\ u # v =>
                                  request'[u].id # request'[v].id
      BY DEF HeldIdsAreFresh, Writing
    <2>3. CASE v = w
      <3>1. \A u \in Workers : Writing(u)' /\ u # w => request'[u].id # id
        BY <1>3, <2>2 DEF Writing
      <3>2. id <= counter' /\ \A d \in Collections : given'[d][id] = 0
        BY <1>1, <1>6, <2>1
      <3> QED
        BY <1>1, <1>4, <1>5, <2>3, <3>1, <3>2
    <2>4. CASE v # w
      <3>1. request'[v] = request[v]
        BY <1>3, <2>4
      <3>2. /\ request[v].stage \in {"idle", "increment", "write"}
            /\ request[v] # Idle => request[v].op \in {"create", "save"}
            /\ Writing(v) =>
                 /\ \A d \in Collections : given[d][request[v].id] = 0
                 /\ \A u \in Workers : Writing(u) /\ u # v => request[u].id # request[v].id
        BY DEF IInv, HeldIdsAreFresh
      <3> QED
        BY <1>1, <1>3, <1>4, <2>1, <2>2, <2>4, <3>1, <3>2 DEF Writing
    <2> QED
      BY <2>3, <2>4
  <1>10. NoCollisions'
    BY DEF IInv, NoCollisions, Increment
  <1> QED
    BY <1>7, <1>8, <1>9, <1>10 DEF IInv

\* The id a call is about to write under is in no document.
LEMMA FreeToWrite ==
    ASSUME IInv, NEW w \in Workers, Writing(w), Duplicate(w)
    PROVE  FALSE
  <1>1. request[w].coll \in Collections
    BY CallType DEF Writing, Idle
  <1>2. request[w].id \in Ids /\ given[request[w].coll][request[w].id] = 0
    BY <1>1 DEF IInv, HeldIdsAreFresh
  <1>3. given[request[w].coll][request[w].id] > 0
    BY <1>1, <1>2 DEF Duplicate, IInv, CounterAhead
  <1> QED
    BY <1>2, <1>3

\* Steps the invariant leaves no room for: the counter is there, nobody
\* reseeds, and the id a create holds is free.
LEMMA NoReseeding ==
    ASSUME IInv, NEW w \in Workers
    PROVE  ~NoCounter(w) /\ ~Scan(w) /\ ~Reseed(w) /\ ~Retry(w) /\ ~GiveUp(w)
  <1>1. ~NoCounter(w)
    BY DEF NoCounter, Missing, IInv, CounterAhead
  <1>2. ~Scan(w) /\ ~Reseed(w)
    BY DEF Scan, Reseed, IInv, HeldIdsAreFresh
  <1>3. ~(Writing(w) /\ Duplicate(w))
    BY FreeToWrite
  <1> QED
    BY <1>1, <1>2, <1>3 DEF Retry, GiveUp, OutOfRetries, Writing

LEMMA RemoveIInv ==
    ASSUME IInv, RemoveDocument
    PROVE  IInv'
  <1>1. PICK c \in Collections : \E id \in docs[c] : docs' = [docs EXCEPT ![c] = @ \ {id}]
    BY DEF RemoveDocument
  <1>2. docs' \in [Collections -> SUBSET Ids]
    BY <1>1 DEF IInv, TypeOK
  <1>3. \A d \in Collections : docs'[d] \subseteq docs[d]
    BY <1>1 DEF IInv, TypeOK
  <1>4. TypeOK'
    BY <1>2 DEF IInv, TypeOK, RemoveDocument
  <1>5. CounterAhead'
    BY <1>3 DEF IInv, CounterAhead, RemoveDocument
  <1>6. HeldIdsAreFresh' /\ NoCollisions'
    BY DEF IInv, HeldIdsAreFresh, NoCollisions, Writing, RemoveDocument
  <1> QED
    BY <1>4, <1>5, <1>6 DEF IInv

LEMMA NextIInv ==
    ASSUME BoundsAssumption, IInv, [Next]_vars
    PROVE  IInv'
  <1>1. ASSUME NEW w \in Workers, CreateStep(w) PROVE IInv'
    <2>1. CASE Start(w)
      BY <2>1, StartIInv
    <2>2. CASE Increment(w)
      BY <2>2, IncrementIInv
    <2>3. CASE Insert(w)
      BY <2>3, PutIInv DEF Insert, Writing
    <2>4. CASE Upsert(w)
      BY <2>4, PutIInv DEF Upsert, Writing
    <2>5. CASE Lose(w)
      BY <2>5, FinishIInv DEF Lose
    <2> QED
      BY <1>1, <2>1, <2>2, <2>3, <2>4, <2>5, NoReseeding DEF CreateStep
  <1>2. CASE RemoveDocument
    BY <1>2, RemoveIInv
  <1>3. CASE UNCHANGED vars
    BY <1>3 DEF vars, IInv, TypeOK, CounterAhead, HeldIdsAreFresh, NoCollisions, Writing
  <1> QED
    BY <1>1, <1>2, <1>3 DEF Next

\* From a counter that no id is above, whatever is created, saved and
\* removed: no id is given to two documents of the collections that share the
\* sequence, not even one after the other.
THEOREM SeededIdsUnique == SeededSpec => []NoCollisions
  <1>1. SeededInit => IInv
    BY SeededInitIInv
  <1>2. IInv /\ [Next]_vars => IInv'
    BY NextIInv, BoundsAssumption
  <1>3. IInv => NoCollisions
    BY DEF IInv
  <1> QED
    BY <1>1, <1>2, <1>3, PTL DEF SeededSpec

\* Under the same conditions no call is ever about to write under an id that
\* a document has: create never retries, save never writes over a document.
THEOREM SeededNeverOverwrites == SeededSpec => [](\A w \in Workers : ~(Writing(w) /\ Duplicate(w)))
  <1>1. SeededInit => IInv
    BY SeededInitIInv
  <1>2. IInv /\ [Next]_vars => IInv'
    BY NextIInv, BoundsAssumption
  <1>3. IInv => \A w \in Workers : ~(Writing(w) /\ Duplicate(w))
    BY FreeToWrite
  <1> QED
    BY <1>1, <1>2, <1>3, PTL DEF SeededSpec

----------------------------------------------------------------------------
(* A counter that drifts: it is missing, behind or ahead, is lost, seeded  *)
(* and raised.  Ids are no longer unique, but a create still gives up for  *)
(* no other reason than the documents others put in its way.               *)

\* Every document of the collection a call is about has a lower id.
Above(w, id) == \A i \in docs[request[w].coll] : i < id

\* Each retry but the last is owed to a document others put in coll; so is
\* the last one, unless the id that it led to was above all there were when
\* coll was scanned, and nobody has come in between since.
Caused(w) ==
    request[w].op = "create" =>
       \/ request[w].beaten >= request[w].attempt
       \/ /\ request[w].beaten + 1 = request[w].attempt
          /\ \/ request[w].stage = "scan" /\ request[w].coll \in request[w].left
             \/ request[w].stage \in {"scan", "reseed"} /\ Above(w, request[w].seen + 1)
             \/ request[w].stage = "write" /\ Above(w, request[w].id)

DriftInv ==
    /\ TypeOK
    /\ \A w \in Workers : request[w] # Idle =>
          /\ request[w].stage = "write" => request[w].id \in Ids
          /\ Caused(w)

LEMMA LeastOf ==
    ASSUME NEW S \in SUBSET Nat, S # {}
    PROVE  \E x \in S : \A y \in S : x <= y
  <1> DEFINE R == OpToRel(<, Nat)
  <1>1. IsWellFoundedOn(R, Nat)
    BY NatLessThanWellFounded
  <1>2. \A x, y \in S : <<y, x>> \in R <=> y < x
    BY DEF OpToRel
  <1> HIDE DEF R
  <1>3. PICK x \in S : \A y \in S : ~ (<<y, x>> \in R)
    BY <1>1, WFMin
  <1>4. \A y \in S : ~ (y < x)
    BY <1>2, <1>3
  <1> QED
    BY <1>4

\* No id of a collection is above its highest.
LEMMA HighestIs ==
    ASSUME TypeOK, NEW c \in Collections
    PROVE  /\ Highest(c) \in 0..MaxId
           /\ \A i \in docs[c] : i <= Highest(c)
  <1> DEFINE S == {MaxId - i : i \in Stored(c)}
  <1>1. docs[c] \subseteq Ids /\ Stored(c) \subseteq 0..MaxId /\ 0 \in Stored(c)
    BY BoundsAssumption DEF TypeOK, Stored, Ids
  <1>2. S \in SUBSET Nat /\ S # {}
    BY <1>1, BoundsAssumption
  <1>3. PICK x \in S : \A y \in S : x <= y
    BY <1>2, LeastOf
  <1>4. PICK h \in Stored(c) : x = MaxId - h
    OBVIOUS
  <1>5. ASSUME NEW j \in Stored(c)
        PROVE  j <= h
    <2>1. MaxId - h <= MaxId - j
      BY <1>3, <1>4
    <2>2. j \in Nat /\ h \in Nat
      BY <1>1, BoundsAssumption
    <2> QED
      BY <2>1, <2>2, BoundsAssumption
  <1>6. Highest(c) \in Stored(c) /\ \A j \in Stored(c) : j <= Highest(c)
    BY <1>5 DEF Highest
  <1> QED
    BY <1>1, <1>6 DEF Stored

\* A step of one call that changes no document: nobody else is concerned.
LEMMA OneCall ==
    ASSUME DriftInv, NEW w \in Workers, NEW r \in Call \cup {Idle},
           request' = [request EXCEPT ![w] = r], UNCHANGED <<docs, given>>,
           counter' \in {Missing} \cup 0..MaxId,
           r # Idle => (r.stage = "write" => r.id \in Ids) /\ Caused(w)'
    PROVE  DriftInv'
  <1>1. request'[w] = r /\ \A v \in Workers : v # w => request'[v] = request[v]
    BY DEF DriftInv, TypeOK
  <1>2. TypeOK'
    BY DEF DriftInv, TypeOK
  <1>3. ASSUME NEW v \in Workers, request'[v] # Idle
        PROVE  (request'[v].stage = "write" => request'[v].id \in Ids) /\ Caused(v)'
    <2>1. CASE v = w
      BY <1>1, <1>3, <2>1
    <2>2. CASE v # w
      <3>1. request'[v] = request[v]
        BY <1>1, <2>2
      <3>2. (request[v].stage = "write" => request[v].id \in Ids) /\ Caused(v)
        BY <1>3, <3>1 DEF DriftInv
      <3> QED
        BY <3>1, <3>2 DEF Caused, Above
    <2> QED
      BY <2>1, <2>2
  <1> QED
    BY <1>2, <1>3 DEF DriftInv

\* A call that has begun, with all its fields.
LEMMA BegunType ==
    ASSUME DriftInv, NEW w \in Workers, request[w] # Idle
    PROVE  /\ request[w] \in Call /\ Caused(w)
           /\ request[w].coll \in Collections /\ request[w].left \in SUBSET Collections
           /\ request[w].id \in 0..MaxId /\ request[w].seen \in 0..MaxId
           /\ request[w].attempt \in 0..MaxRetries /\ request[w].beaten \in 0..MaxRetries
           /\ docs[request[w].coll] \subseteq Ids
  <1>1. request[w] \in Call
    BY DEF DriftInv, TypeOK
  <1> QED
    BY <1>1 DEF DriftInv, TypeOK, Call

\* A call that begins has nobody to blame yet.
NewCall(stage, op, c, left) ==
    [stage |-> stage, op |-> op, coll |-> c, id |-> 0, seen |-> 0,
     left |-> left, attempt |-> 0, beaten |-> 0]

LEMMA BeginDrift ==
    ASSUME DriftInv, NEW w \in Workers, NEW c \in Collections,
           NEW op \in {"create", "save", "raise"}, NEW stage \in {"increment", "scan"},
           NEW left \in SUBSET Collections,
           request' = [request EXCEPT ![w] = NewCall(stage, op, c, left)],
           UNCHANGED <<counter, docs, given>>
    PROVE  DriftInv'
  <1> DEFINE r == NewCall(stage, op, c, left)
  <1>1. r \in Call /\ r.stage # "write" /\ r.attempt = 0 /\ r.beaten = 0
    BY BoundsAssumption DEF Call, NewCall
  <1>2. request' = [request EXCEPT ![w] = r]
    OBVIOUS
  <1> HIDE DEF r
  <1>3. request'[w] = r
    BY <1>2 DEF DriftInv, TypeOK
  <1>4. Caused(w)'
    BY <1>1, <1>3 DEF Caused
  <1>5. counter' \in {Missing} \cup 0..MaxId
    BY DEF DriftInv, TypeOK
  <1> QED
    BY <1>1, <1>2, <1>4, <1>5, OneCall

LEMMA EndDrift ==
    ASSUME DriftInv, NEW w \in Workers, Finish(w), UNCHANGED <<docs, given>>,
           counter' \in {Missing} \cup 0..MaxId
    PROVE  DriftInv'
  BY OneCall DEF Finish

LEMMA IncrementDrift ==
    ASSUME DriftInv, NEW w \in Workers, Increment(w)
    PROVE  DriftInv'
  <1>1. /\ request[w].stage = "increment" /\ counter # Missing /\ counter < MaxId
        /\ counter' = counter + 1
        /\ request' = [request EXCEPT ![w].stage = "write", ![w].id = counter + 1]
        /\ UNCHANGED <<docs, given>>
    BY DEF Increment, Minted
  <1>2. request[w] # Idle
    BY <1>1 DEF Idle
  <1>3. counter + 1 \in Ids /\ counter + 1 \in 0..MaxId
    BY <1>1, BoundsAssumption DEF DriftInv, TypeOK, Ids
  <1> DEFINE r == [[request[w] EXCEPT !.stage = "write"] EXCEPT !.id = counter + 1]
  <1>4. /\ r \in Call /\ r.id \in Ids
        /\ r.op = request[w].op /\ r.attempt = request[w].attempt /\ r.beaten = request[w].beaten
    BY <1>2, <1>3, BegunType DEF Call
  <1>5. request' = [request EXCEPT ![w] = r]
    BY <1>1 DEF DriftInv, TypeOK
  <1> HIDE DEF r
  <1>6. request'[w] = r
    BY <1>5 DEF DriftInv, TypeOK
  <1>7. request[w].op = "create" => request[w].beaten >= request[w].attempt
    BY <1>1, <1>2, BegunType DEF Caused
  <1>8. Caused(w)'
    BY <1>4, <1>6, <1>7 DEF Caused
  <1> QED
    BY <1>1, <1>3, <1>4, <1>5, <1>8, OneCall

LEMMA NoCounterDrift ==
    ASSUME DriftInv, NEW w \in Workers, NoCounter(w)
    PROVE  DriftInv'
  <1>1. /\ request[w].stage = "increment"
        /\ request' = [request EXCEPT ![w].stage = "scan", ![w].left = Collections]
        /\ UNCHANGED <<counter, docs, given>>
    BY DEF NoCounter
  <1>2. request[w] # Idle
    BY <1>1 DEF Idle
  <1> DEFINE r == [[request[w] EXCEPT !.stage = "scan"] EXCEPT !.left = Collections]
  <1>3. /\ r \in Call /\ r.stage # "write"
        /\ r.op = request[w].op /\ r.attempt = request[w].attempt /\ r.beaten = request[w].beaten
    BY <1>2, BegunType DEF Call
  <1>4. request' = [request EXCEPT ![w] = r]
    BY <1>1 DEF DriftInv, TypeOK
  <1> HIDE DEF r
  <1>5. request'[w] = r
    BY <1>4 DEF DriftInv, TypeOK
  <1>6. request[w].op = "create" => request[w].beaten >= request[w].attempt
    BY <1>1, <1>2, BegunType DEF Caused
  <1>7. Caused(w)'
    BY <1>3, <1>5, <1>6 DEF Caused
  <1>8. counter' \in {Missing} \cup 0..MaxId
    BY <1>1 DEF DriftInv, TypeOK
  <1> QED
    BY <1>1, <1>3, <1>4, <1>7, <1>8, OneCall

\* Once coll is scanned, the highest id seen is at least that of each of its documents.
LEMMA ScanDrift ==
    ASSUME DriftInv, NEW w \in Workers, Scan(w)
    PROVE  DriftInv'
  <1>1. request[w].stage = "scan" /\ UNCHANGED <<counter, docs, given>>
    BY DEF Scan
  <1>2. PICK c \in request[w].left :
           request' = [request EXCEPT ![w].left = @ \ {c},
                                      ![w].seen = Higher(@, Highest(c)),
                                      ![w].stage = IF request[w].left # {c} THEN @
                                                   ELSE IF request[w].op = "raise" THEN "read"
                                                   ELSE "reseed"]
    BY DEF Scan
  <1>3. request[w] # Idle
    BY <1>1 DEF Idle
  <1>4. c \in Collections /\ request[w] \in Call /\ Caused(w)
        /\ request[w].seen \in 0..MaxId
    BY <1>2, <1>3, BegunType
  <1> DEFINE high == Higher(request[w].seen, Highest(c))
             next == IF request[w].left # {c} THEN "scan"
                     ELSE IF request[w].op = "raise" THEN "read" ELSE "reseed"
             r == [[[request[w] EXCEPT !.left = @ \ {c}] EXCEPT !.seen = high] EXCEPT !.stage = next]
  <1>5. /\ Highest(c) \in 0..MaxId /\ \A i \in docs[c] : i <= Highest(c)
    BY <1>4, HighestIs DEF DriftInv
  <1>6. /\ high \in 0..MaxId /\ high >= request[w].seen /\ high >= Highest(c)
    BY <1>4, <1>5, BoundsAssumption DEF Higher
  <1>7. next \in {"scan", "read", "reseed"}
    OBVIOUS
  <1>8. request' = [request EXCEPT ![w] = r]
    BY <1>1, <1>2 DEF DriftInv, TypeOK
  <1>9. next # "scan" => request[w].left = {c}
    OBVIOUS
  <1>10. next = "read" => request[w].op = "raise"
    OBVIOUS
  <1> HIDE DEF high, next
  <1>11. /\ r \in Call /\ r.stage = next /\ r.seen = high /\ r.left = request[w].left \ {c}
         /\ r.coll = request[w].coll /\ r.op = request[w].op
         /\ r.attempt = request[w].attempt /\ r.beaten = request[w].beaten
    BY <1>4, <1>6, <1>7 DEF Call
  <1> HIDE DEF r
  <1>12. request'[w] = r
    BY <1>8 DEF DriftInv, TypeOK
  <1>13. Caused(w)'
    <2>1. CASE request[w].beaten >= request[w].attempt
      BY <1>11, <1>12, <2>1 DEF Caused
    <2>2. CASE r.op # "create"
      BY <1>12, <2>2 DEF Caused
    <2>3. CASE r.op = "create" /\ ~ (request[w].beaten >= request[w].attempt)
      <3>1. /\ request[w].beaten + 1 = request[w].attempt
            /\ request[w].coll \in request[w].left \/ Above(w, request[w].seen + 1)
        BY <1>1, <1>4, <1>11, <2>3 DEF Caused
      <3>2. next \in {"scan", "reseed"}
        BY <1>7, <1>10, <1>11, <2>3
      <3>3. CASE c = request[w].coll \/ Above(w, request[w].seen + 1)
        <4>1. \A i \in docs[request[w].coll] : i < high + 1
          <5>1. docs[request[w].coll] \subseteq Nat
            BY <1>3, BegunType DEF Ids
          <5> QED
            BY <1>4, <1>5, <1>6, <3>3, <5>1 DEF Above
        <4>2. \A i \in docs'[request'[w].coll] : i < request'[w].seen + 1
          BY <1>1, <1>11, <1>12, <4>1
        <4> QED
          BY <1>11, <1>12, <3>1, <3>2, <4>2 DEF Caused, Above
      <3>4. CASE c # request[w].coll /\ request[w].coll \in request[w].left
        <4>1. next = "scan" /\ r.coll \in r.left
          BY <1>9, <1>11, <3>4
        <4> QED
          BY <1>11, <1>12, <3>1, <4>1 DEF Caused
      <3> QED
        BY <3>1, <3>3, <3>4
    <2> QED
      BY <2>1, <2>2, <2>3
  <1>14. counter' \in {Missing} \cup 0..MaxId
    BY <1>1 DEF DriftInv, TypeOK
  <1> QED
    BY <1>1, <1>7, <1>8, <1>11, <1>13, <1>14, OneCall

LEMMA ReseedDrift ==
    ASSUME DriftInv, NEW w \in Workers, Reseed(w)
    PROVE  DriftInv'
  <1>1. /\ request[w].stage = "reseed" /\ request[w].seen + 1 <= MaxId
        /\ counter' = request[w].seen + 1
        /\ request' = [request EXCEPT ![w].stage = "write", ![w].id = request[w].seen + 1]
        /\ UNCHANGED <<docs, given>>
    BY DEF Reseed, NextAfter
  <1>2. request[w] # Idle
    BY <1>1 DEF Idle
  <1> DEFINE id == request[w].seen + 1
             r == [[request[w] EXCEPT !.stage = "write"] EXCEPT !.id = id]
  <1>3. id \in Ids /\ id \in 0..MaxId
    BY <1>1, <1>2, BegunType, BoundsAssumption DEF Ids
  <1>4. request' = [request EXCEPT ![w] = r]
    BY <1>1 DEF DriftInv, TypeOK
  <1>5. counter' = id
    BY <1>1
  <1> HIDE DEF id
  <1>6. /\ r \in Call /\ r.stage = "write" /\ r.id = id /\ r.coll = request[w].coll
        /\ r.op = request[w].op /\ r.attempt = request[w].attempt /\ r.beaten = request[w].beaten
    BY <1>2, <1>3, BegunType DEF Call
  <1> HIDE DEF r
  <1>7. request'[w] = r
    BY <1>4 DEF DriftInv, TypeOK
  <1>8. Caused(w)'
    <2>1. request[w].op = "create" =>
             \/ request[w].beaten >= request[w].attempt
             \/ request[w].beaten + 1 = request[w].attempt /\ Above(w, id)
      BY <1>1, <1>2, <1>5, BegunType DEF Caused
    <2>2. Above(w, id) => \A i \in docs'[request'[w].coll] : i < request'[w].id
      BY <1>1, <1>6, <1>7 DEF Above
    <2> QED
      BY <1>6, <1>7, <2>1, <2>2 DEF Caused, Above
  <1> QED
    BY <1>1, <1>3, <1>4, <1>5, <1>6, <1>8, OneCall

\* A create that is refused was overtaken since it scanned the collection.
LEMMA RefusedCaused ==
    ASSUME DriftInv, NEW w \in Workers, request[w].stage = "write", request[w].op = "create",
           Duplicate(w)
    PROVE  request[w].beaten >= request[w].attempt
  <1>1. request[w] # Idle
    BY DEF Idle
  <1>2. request[w].id \in Nat /\ request[w].id \in docs[request[w].coll]
    BY <1>1, BegunType DEF Duplicate
  <1>3. ~ Above(w, request[w].id)
    BY <1>2 DEF Above
  <1> QED
    BY <1>1, <1>3, BegunType DEF Caused

LEMMA RetryDrift ==
    ASSUME DriftInv, NEW w \in Workers, Retry(w)
    PROVE  DriftInv'
  <1>1. /\ request[w].stage = "write" /\ request[w].op = "create" /\ Duplicate(w)
        /\ request[w].attempt < MaxRetries
        /\ request' = [request EXCEPT ![w].stage = "scan", ![w].left = Collections,
                                      ![w].seen = 0, ![w].attempt = @ + 1]
        /\ UNCHANGED <<counter, docs, given>>
    BY DEF Retry
  <1>2. request[w] # Idle
    BY <1>1 DEF Idle
  <1> DEFINE again == request[w].attempt + 1
             r == [[[[request[w] EXCEPT !.stage = "scan"] EXCEPT !.left = Collections]
                       EXCEPT !.seen = 0] EXCEPT !.attempt = again]
  <1>3. again \in 0..MaxRetries
    BY <1>1, <1>2, BegunType, BoundsAssumption
  <1>4. request' = [request EXCEPT ![w] = r]
    BY <1>1 DEF DriftInv, TypeOK
  <1>5. request[w].beaten + 1 >= again
    BY <1>1, <1>2, RefusedCaused, BegunType
  <1> HIDE DEF again
  <1>6. /\ r \in Call /\ r.stage = "scan" /\ r.left = Collections /\ r.coll = request[w].coll
        /\ r.attempt = again /\ r.beaten = request[w].beaten
    <2>1. request[w] \in Call /\ 0 \in 0..MaxId
      BY <1>2, BegunType, BoundsAssumption
    <2> QED
      BY <1>3, <2>1 DEF Call
  <1> HIDE DEF r
  <1>7. request'[w] = r
    BY <1>4 DEF DriftInv, TypeOK
  <1>8. r.beaten >= again \/ r.beaten + 1 = again
    <2>1. request[w].beaten \in Nat /\ again \in Nat
      BY <1>2, <1>3, BegunType
    <2> QED
      BY <1>5, <1>6, <2>1
  <1>9. request[w].coll \in Collections
    BY <1>2, BegunType
  <1>10. Caused(w)'
    BY <1>6, <1>7, <1>8, <1>9 DEF Caused
  <1>11. counter' \in {Missing} \cup 0..MaxId
    BY <1>1 DEF DriftInv, TypeOK
  <1> QED
    BY <1>1, <1>4, <1>6, <1>10, <1>11, OneCall

LEMMA ReadCounterDrift ==
    ASSUME DriftInv, NEW w \in Workers, ReadCounter(w)
    PROVE  DriftInv'
  <1>1. /\ request[w].stage = "read"
        /\ request' = [request EXCEPT ![w].stage = "set", ![w].id = Higher(0, counter)]
        /\ UNCHANGED <<counter, docs, given>>
    BY DEF ReadCounter
  <1>2. request[w] # Idle
    BY <1>1 DEF Idle
  <1>3. Higher(0, counter) \in 0..MaxId
    BY BoundsAssumption DEF DriftInv, TypeOK, Higher, Missing
  <1> DEFINE r == [[request[w] EXCEPT !.stage = "set"] EXCEPT !.id = Higher(0, counter)]
  <1>4. /\ r \in Call /\ r.stage # "write"
        /\ r.op = request[w].op /\ r.attempt = request[w].attempt /\ r.beaten = request[w].beaten
    BY <1>2, <1>3, BegunType DEF Call
  <1>5. request' = [request EXCEPT ![w] = r]
    BY <1>1 DEF DriftInv, TypeOK
  <1> HIDE DEF r
  <1>6. request'[w] = r
    BY <1>5 DEF DriftInv, TypeOK
  <1>7. request[w].op = "create" => request[w].beaten >= request[w].attempt
    BY <1>1, <1>2, BegunType DEF Caused
  <1>8. Caused(w)'
    BY <1>4, <1>6, <1>7 DEF Caused
  <1>9. counter' \in {Missing} \cup 0..MaxId
    BY <1>1 DEF DriftInv, TypeOK
  <1> QED
    BY <1>1, <1>4, <1>5, <1>8, <1>9, OneCall

\* A new document counts against every call about its collection.
LEMMA PutDrift ==
    ASSUME DriftInv, NEW w \in Workers, NEW c \in Collections, NEW id \in Ids,
           Put(w, c, id), UNCHANGED counter
    PROVE  DriftInv'
  <1>1. docs' \in [Collections -> SUBSET Ids] /\ \A d \in Collections : d # c => docs'[d] = docs[d]
    BY DEF DriftInv, TypeOK, Put
  <1>2. given' \in [Collections -> [Ids -> 0..2]]
    <2>1. AtMost(2, given[c][id] + 1) \in 0..2
      BY DEF DriftInv, TypeOK, AtMost
    <2>2. given' = [given EXCEPT ![c][id] = AtMost(2, given[c][id] + 1)]
      BY DEF Put
    <2> QED
      BY <2>1, <2>2 DEF DriftInv, TypeOK
  <1>3. ASSUME NEW v \in Workers, request'[v] # Idle
        PROVE  /\ request'[v] \in Call /\ Caused(v)'
               /\ request'[v].stage = "write" => request'[v].id \in Ids
    <2>1. /\ request[v] # Idle
          /\ request'[v] = IF request[v].coll # c THEN request[v]
                           ELSE [request[v] EXCEPT !.beaten = AtMost(MaxRetries, @ + 1)]
      BY <1>3 DEF Put
    <2>2. /\ request[v] \in Call /\ Caused(v)
          /\ request[v].attempt \in 0..MaxRetries /\ request[v].beaten \in 0..MaxRetries
          /\ request[v].stage = "write" => request[v].id \in Ids
      BY <2>1, BegunType DEF DriftInv
    <2>3. CASE request[v].coll # c
      <3>1. request'[v] = request[v] /\ docs'[request[v].coll] = docs[request[v].coll]
        BY <1>1, <2>1, <2>3, BegunType
      <3> QED
        BY <2>2, <3>1 DEF Caused, Above
    <2>4. CASE request[v].coll = c
      <3> DEFINE more == AtMost(MaxRetries, request[v].beaten + 1)
      <3>1. more \in 0..MaxRetries
        BY <2>2, BoundsAssumption DEF AtMost
      <3>2. request[v].op = "create" => more >= request[v].attempt
        <4>1. request[v].op = "create" => request[v].beaten + 1 >= request[v].attempt
          BY <2>2 DEF Caused
        <4> QED
          BY <2>2, <4>1, BoundsAssumption DEF AtMost
      <3> HIDE DEF more
      <3>3. request'[v] = [request[v] EXCEPT !.beaten = more]
        BY <2>1, <2>4 DEF more
      <3>4. /\ request'[v] \in Call /\ request'[v].beaten = more
            /\ request'[v].attempt = request[v].attempt /\ request'[v].op = request[v].op
            /\ request'[v].stage = request[v].stage /\ request'[v].id = request[v].id
        BY <2>2, <3>1, <3>3 DEF Call
      <3> QED
        BY <2>2, <3>2, <3>4 DEF Caused
    <2> QED
      BY <2>3, <2>4
  <1>4. request' \in [Workers -> Call \cup {Idle}]
    BY <1>3 DEF Put
  <1>5. counter' \in {Missing} \cup 0..MaxId
    BY DEF DriftInv, TypeOK
  <1> QED
    BY <1>1, <1>2, <1>3, <1>4, <1>5 DEF DriftInv, TypeOK

LEMMA RemoveDrift ==
    ASSUME DriftInv, RemoveDocument
    PROVE  DriftInv'
  <1>1. PICK c \in Collections : \E id \in docs[c] : docs' = [docs EXCEPT ![c] = @ \ {id}]
    BY DEF RemoveDocument
  <1>2. UNCHANGED <<counter, given, request>>
    BY DEF RemoveDocument
  <1>3. /\ docs' \in [Collections -> SUBSET Ids]
        /\ \A d \in Collections : docs'[d] \subseteq docs[d]
    BY <1>1 DEF DriftInv, TypeOK
  <1>4. ASSUME NEW w \in Workers, request[w] # Idle
        PROVE  Caused(w)'
    BY <1>2, <1>3, <1>4, BegunType DEF Caused, Above
  <1> QED
    BY <1>2, <1>3, <1>4 DEF DriftInv, TypeOK

LEMMA InitDrift == Init => DriftInv
  <1> SUFFICES ASSUME Init PROVE DriftInv
    OBVIOUS
  <1>1. /\ docs \in [Collections -> SUBSET Ids] /\ counter \in {Missing} \cup 0..MaxId
        /\ given = [c \in Collections |-> [i \in Ids |-> IF i \in docs[c] THEN 1 ELSE 0]]
        /\ request = [w \in Workers |-> Idle]
    BY DEF Init
  <1>2. given \in [Collections -> [Ids -> 0..2]]
    BY <1>1
  <1> QED
    BY <1>1, <1>2 DEF DriftInv, TypeOK

LEMMA CreateDrift ==
    ASSUME DriftInv, NEW w \in Workers, CreateStep(w)
    PROVE  DriftInv'
  <1>1. CASE Start(w)
    <2>1. PICK op \in {"create", "save"}, c \in Collections :
             request' = [request EXCEPT ![w] = NewCall("increment", op, c, {})]
      BY <1>1 DEF Start, NewCall
    <2>2. UNCHANGED <<counter, docs, given>>
      BY <1>1 DEF Start
    <2>3. op \in {"create", "save", "raise"} /\ {} \in SUBSET Collections
      OBVIOUS
    <2> QED
      BY <2>1, <2>2, <2>3, BeginDrift
  <1>2. CASE Increment(w) \/ NoCounter(w) \/ Scan(w) \/ Reseed(w) \/ Retry(w)
    BY <1>2, IncrementDrift, NoCounterDrift, ScanDrift, ReseedDrift, RetryDrift
  <1>3. CASE Insert(w) \/ Upsert(w)
    <2>1. /\ request[w].stage = "write" /\ UNCHANGED counter
          /\ Put(w, request[w].coll, request[w].id)
      BY <1>3 DEF Insert, Upsert
    <2>2. request[w].coll \in Collections /\ request[w].id \in Ids
      BY <2>1, BegunType DEF DriftInv, Idle
    <2> QED
      BY <2>1, <2>2, PutDrift
  <1>4. CASE GiveUp(w) \/ Lose(w)
    <2>1. Finish(w) /\ UNCHANGED <<counter, docs, given>>
      BY <1>4 DEF GiveUp, Lose
    <2>2. counter' \in {Missing} \cup 0..MaxId
      BY <2>1 DEF DriftInv, TypeOK
    <2> QED
      BY <2>1, <2>2, EndDrift
  <1> QED
    BY <1>1, <1>2, <1>3, <1>4 DEF CreateStep

LEMMA DriftingDrift ==
    ASSUME DriftInv, [DriftingNext]_vars
    PROVE  DriftInv'
  <1>1. CASE Next
    BY <1>1, CreateDrift, RemoveDrift DEF Next
  <1>2. ASSUME NEW w \in Workers, Import(w)
        PROVE  DriftInv'
    BY <1>2, PutDrift DEF Import
  <1>3. ASSUME NEW w \in Workers, StartRaise(w)
        PROVE  DriftInv'
    <2>1. PICK c \in Collections :
             request' = [request EXCEPT ![w] = NewCall("scan", "raise", c, Collections)]
      BY <1>3 DEF StartRaise, NewCall
    <2>2. UNCHANGED <<counter, docs, given>>
      BY <1>3 DEF StartRaise
    <2> QED
      BY <2>1, <2>2, BeginDrift
  <1>4. ASSUME NEW w \in Workers, ReadCounter(w)
        PROVE  DriftInv'
    BY <1>4, ReadCounterDrift
  <1>5. ASSUME NEW w \in Workers, Raise(w)
        PROVE  DriftInv'
    <2>1. /\ request[w] # Idle /\ counter' = Higher(request[w].seen, request[w].id)
          /\ Finish(w) /\ UNCHANGED <<docs, given>>
      BY <1>5 DEF Raise, Idle
    <2>2. counter' \in 0..MaxId
      BY <2>1, BegunType DEF Higher
    <2> QED
      BY <2>1, <2>2, EndDrift
  <1>6. CASE LoseCounter \/ SeedCounter
    <2>1. UNCHANGED <<docs, given, request>>
      BY <1>6 DEF LoseCounter, SeedCounter
    <2>2. counter' \in {Missing} \cup 0..MaxId
      BY <1>6, HighestIs DEF LoseCounter, SeedCounter, DriftInv
    <2> QED
      BY <2>1, <2>2 DEF DriftInv, TypeOK, Caused, Above
  <1>7. CASE UNCHANGED vars
    BY <1>7 DEF vars, DriftInv, TypeOK, Caused, Above
  <1> QED
    BY <1>1, <1>2, <1>3, <1>4, <1>5, <1>6, <1>7 DEF DriftingNext

\* The drifting counter's invariant holds in every reachable state, whatever
\* collections, calls and bounds there are.
THEOREM AlwaysDriftInv == DriftingSpec => []DriftInv
  BY InitDrift, DriftingDrift, PTL DEF DriftingSpec

\* Counter, documents and calls keep their form, even when the counter is
\* lost, seeded and raised: ids stay within bounds and create never counts
\* more attempts than MAX_ID_GENERATION_RETRIES (mongo-crud.repository.ts).
THEOREM TypeCorrect == DriftingSpec => []TypeOK
  <1>1. DriftInv => TypeOK
    BY DEF DriftInv
  <1> QED
    BY <1>1, AlwaysDriftInv, PTL

\* However many collections share the counter and however it drifts: create
\* gives up only if documents of others got in its way at every retry
\* (mongo-crud.repository.ts, create).
THEOREM RetriesAreEnough == DriftingSpec => []RetriesSuffice
  <1>1. DriftInv => RetriesSuffice
    BY RefusedCaused DEF RetriesSuffice, OutOfRetries
  <1> QED
    BY <1>1, AlwaysDriftInv, PTL

=============================================================================
