--------------------------- MODULE MongoSequence ---------------------------
(***************************************************************************)
(* Numeric ids.  MongoCrudRepository mints the _id of a new document from  *)
(* a `counters` document, one key per collection unless counterKey() says  *)
(* otherwise (the four Orbit identity collections share one).  When the    *)
(* counter is missing, or a create meets a duplicate _id, the counter is   *)
(* set again from the highest id in the collections.  Here: one key, the   *)
(* Collections that mint from it, and processes that create and save new   *)
(* documents, one database call a step, with the script that raises the    *)
(* counter after a migration and the one that seeds it after a restore.    *)
(***************************************************************************)
EXTENDS Integers, FiniteSets

CONSTANTS
    Collections,    \* the collections that mint from the key
    MaxId,          \* bound on ids
    Workers,
    MaxRetries      \* MAX_ID_GENERATION_RETRIES

ASSUME BoundsAssumption == MaxId \in Nat /\ MaxRetries \in Nat

VARIABLES
    counter,    \* seq of the counters document
    docs,       \* the ids in each collection
    given,      \* how many new documents ever got an id in a collection (history)
    request     \* local state of each worker's call

vars == <<counter, docs, given, request>>

Ids == 1..MaxId

Missing == -1   \* there is no counters document

Idle == [stage |-> "idle"]

\* op: create inserts, save upserts, raise is the migration script.
\* seen: the highest id found in the collections not in left; id: the id
\* minted, or for raise the counter read; attempt: reseeds by create so far;
\* beaten: documents others put in coll during the call (history).
Call == [stage : {"increment", "scan", "reseed", "write", "read", "set"},
         op : {"create", "save", "raise"}, coll : Collections, id : 0..MaxId,
         seen : 0..MaxId, left : SUBSET Collections, attempt : 0..MaxRetries,
         beaten : 0..MaxRetries]

Init ==
    /\ docs \in [Collections -> SUBSET Ids]
    /\ \A c, d \in Collections : c # d => docs[c] \cap docs[d] = {}
    /\ counter \in {Missing} \cup 0..MaxId
    /\ given = [c \in Collections |-> [i \in Ids |-> IF i \in docs[c] THEN 1 ELSE 0]]
    /\ request = [w \in Workers |-> Idle]

----------------------------------------------------------------------------

AtMost(bound, n) == IF n > bound THEN bound ELSE n

Higher(m, n) == IF m > n THEN m ELSE n

Stored(c) == docs[c] \cup {0}

\* The highest _id of a collection, 0 if it is empty.
Highest(c) == CHOOSE i \in Stored(c) : \A j \in Stored(c) : j <= i

Finish(w) == request' = [request EXCEPT ![w] = Idle]

\* A new document under id in c; whoever is in the middle of a call to the
\* collection has been overtaken.
Put(w, c, id) ==
    /\ docs' = [docs EXCEPT ![c] = @ \cup {id}]
    /\ given' = [given EXCEPT ![c][id] = AtMost(2, @ + 1)]
    /\ request' = [v \in Workers |->
                     IF v = w \/ request[v] = Idle THEN Idle
                     ELSE IF request[v].coll # c THEN request[v]
                     ELSE [request[v] EXCEPT !.beaten = AtMost(MaxRetries, @ + 1)]]

Start(w) ==
    /\ request[w] = Idle
    /\ \E op \in {"create", "save"}, c \in Collections :
           request' = [request EXCEPT ![w] =
                         [stage |-> "increment", op |-> op, coll |-> c, id |-> 0, seen |-> 0,
                          left |-> {}, attempt |-> 0, beaten |-> 0]]
    /\ UNCHANGED <<counter, docs, given>>

\* Variant of Minted: the counter is stored later, and may not be at all.
MintedTwice(value) == counter' \in {counter, value}

Minted(value) == counter' = value

\* nextSequence
Increment(w) ==
    /\ request[w].stage = "increment"
    /\ counter # Missing /\ counter < MaxId
    /\ Minted(counter + 1)
    /\ request' = [request EXCEPT ![w].stage = "write", ![w].id = counter + 1]
    /\ UNCHANGED <<docs, given>>

NoCounter(w) ==
    /\ request[w].stage = "increment"
    /\ counter = Missing
    /\ request' = [request EXCEPT ![w].stage = "scan", ![w].left = Collections]
    /\ UNCHANGED <<counter, docs, given>>

\* highestReseedId: one collection at a time, in any order.
Scan(w) ==
    /\ request[w].stage = "scan"
    /\ \E c \in request[w].left :
           request' = [request EXCEPT ![w].left = @ \ {c},
                                      ![w].seen = Higher(@, Highest(c)),
                                      ![w].stage = IF request[w].left # {c} THEN @
                                                   ELSE IF request[w].op = "raise" THEN "read"
                                                   ELSE "reseed"]
    /\ UNCHANGED <<counter, docs, given>>

\* Variant of NextAfter: the highest id itself is minted, or 1.
SameAs(highest) == Higher(1, highest)

NextAfter(highest) == highest + 1

\* reseedSequence: $set, whatever the counter has become.
Reseed(w) ==
    /\ request[w].stage = "reseed"
    /\ NextAfter(request[w].seen) <= MaxId
    /\ counter' = NextAfter(request[w].seen)
    /\ request' = [request EXCEPT ![w].stage = "write", ![w].id = NextAfter(request[w].seen)]
    /\ UNCHANGED <<docs, given>>

Duplicate(w) == request[w].id \in docs[request[w].coll]

\* create: the unique index on _id refuses an id that is taken.
Insert(w) ==
    /\ request[w].stage = "write" /\ request[w].op = "create"
    /\ ~Duplicate(w)
    /\ Put(w, request[w].coll, request[w].id)
    /\ UNCHANGED counter

\* Variant of Retry: the attempts are not counted against the limit.
RetryForever(w) ==
    /\ request[w].stage = "write" /\ request[w].op = "create"
    /\ Duplicate(w)
    /\ request' = [request EXCEPT ![w].stage = "scan", ![w].left = Collections,
                                  ![w].seen = 0, ![w].attempt = @ + 1]
    /\ UNCHANGED <<counter, docs, given>>

Retry(w) ==
    /\ request[w].stage = "write" /\ request[w].op = "create"
    /\ Duplicate(w)
    /\ request[w].attempt < MaxRetries
    /\ request' = [request EXCEPT ![w].stage = "scan", ![w].left = Collections,
                                  ![w].seen = 0, ![w].attempt = @ + 1]
    /\ UNCHANGED <<counter, docs, given>>

OutOfRetries(w) ==
    /\ request[w].stage = "write" /\ request[w].op = "create"
    /\ Duplicate(w)
    /\ request[w].attempt = MaxRetries

GiveUp(w) ==
    /\ OutOfRetries(w)
    /\ Finish(w)
    /\ UNCHANGED <<counter, docs, given>>

\* save: findByIdAndUpdate with upsert writes over a document that is there.
Upsert(w) ==
    /\ request[w].stage = "write" /\ request[w].op = "save"
    /\ Put(w, request[w].coll, request[w].id)
    /\ UNCHANGED counter

\* An exception, a lost connection, a crash.
Lose(w) ==
    /\ request[w] # Idle
    /\ Finish(w)
    /\ UNCHANGED <<counter, docs, given>>

RemoveDocument ==
    /\ \E c \in Collections : \E id \in docs[c] : docs' = [docs EXCEPT ![c] = @ \ {id}]
    /\ UNCHANGED <<counter, given, request>>

----------------------------------------------------------------------------
(* What does not go through nextSequence.                                  *)

\* A document stored with an id of its own, one no collection uses.
Import(w) ==
    /\ request[w] = Idle
    /\ \E c \in Collections, id \in Ids :
           /\ \A d \in Collections : id \notin docs[d]
           /\ Put(w, c, id)
    /\ UNCHANGED counter

\* runOrbitIdentityMigration, once the documents have been copied.
StartRaise(w) ==
    /\ request[w] = Idle
    /\ \E c \in Collections :
           request' = [request EXCEPT ![w] =
                         [stage |-> "scan", op |-> "raise", coll |-> c, id |-> 0, seen |-> 0,
                          left |-> Collections, attempt |-> 0, beaten |-> 0]]
    /\ UNCHANGED <<counter, docs, given>>

ReadCounter(w) ==
    /\ request[w].stage = "read"
    /\ request' = [request EXCEPT ![w].stage = "set", ![w].id = Higher(0, counter)]
    /\ UNCHANGED <<counter, docs, given>>

Raise(w) ==
    /\ request[w].stage = "set"
    /\ counter' = Higher(request[w].seen, request[w].id)
    /\ Finish(w)
    /\ UNCHANGED <<docs, given>>

\* The counters collection is dropped by a restore.
LoseCounter ==
    /\ \A w \in Workers : request[w] = Idle
    /\ counter' = Missing
    /\ UNCHANGED <<docs, given, request>>

\* seed-mongo-counters, with the application scaled to zero; a key that is
\* not the name of a collection is not seeded.
SeedCounter ==
    /\ \A w \in Workers : request[w] = Idle
    /\ \E c \in Collections :
           /\ Collections = {c}
           /\ docs[c] # {}
           /\ counter' = Highest(c)
    /\ UNCHANGED <<docs, given, request>>

----------------------------------------------------------------------------

CreateStep(w) ==
    \/ Start(w)
    \/ Increment(w)
    \/ NoCounter(w)
    \/ Scan(w)
    \/ Reseed(w)
    \/ Insert(w)
    \/ Retry(w)
    \/ GiveUp(w)
    \/ Upsert(w)
    \/ Lose(w)

Next ==
    \/ \E w \in Workers : CreateStep(w)
    \/ RemoveDocument

Spec == Init /\ [][Next]_vars

\* The counter is there, and no id is above it.
SeededInit ==
    /\ Init
    /\ counter # Missing
    /\ \A c \in Collections : \A i \in docs[c] : i <= counter

SeededSpec == SeededInit /\ [][Next]_vars

\* Documents are stored with ids of their own; the counter is lost, seeded
\* and raised.
DriftingNext ==
    \/ Next
    \/ \E w \in Workers : Import(w) \/ StartRaise(w) \/ ReadCounter(w) \/ Raise(w)
    \/ LoseCounter
    \/ SeedCounter

DriftingSpec == Init /\ [][DriftingNext]_vars

----------------------------------------------------------------------------
(* Properties.                                                             *)

TypeOK ==
    /\ counter \in {Missing} \cup 0..MaxId
    /\ docs \in [Collections -> SUBSET Ids]
    /\ given \in [Collections -> [Ids -> 0..2]]
    /\ request \in [Workers -> Call \cup {Idle}]

\* "all four module repos draw from one monotonic sequence with no id
\* collisions": whatever is created, saved and removed, and whoever is
\* interrupted in between, no id is given to two documents of the
\* collections that share the sequence.  A save that is given the id of
\* another document writes over it.
NoCollisions ==
    \A c, d \in Collections : \A i \in Ids :
        /\ given[c][i] <= 1
        /\ given[c][i] = 1 /\ given[d][i] = 1 => c = d

\* create gives up only after MaxRetries documents of others got in its way:
\* a counter that is missing, or that is behind, is never the reason.
RetriesSuffice ==
    \A w \in Workers : OutOfRetries(w) => request[w].beaten >= MaxRetries

=============================================================================
