-------------------------- MODULE RbacAccessProofs --------------------------
(* For any machines, users, roles and requests: a cached answer that is not *)
(* what the documents say has a reason that is named, and the grants of a   *)
(* user about whom no two requests overlapped are sound.                    *)
EXTENDS RbacAccess, TLAPS, FiniteSetTheorems, WellFoundedInduction

----------------------------------------------------------------------------
(* The inductive invariant.                                                *)

\* What a request in each stage is about.
Staged ==
    \A c \in Calls :
        /\ call[c].at \in {"none", "done"} => call[c].users = {} /\ call[c].writes = {}
        /\ call[c].at = "clearing" => call[c].role # NoRole
        /\ call[c].at \in {"writing", "revoking"} /\ call[c].role # NoRole => call[c].users = Users

\* Each grant ever created has one owner, whoever wrote it last, and the
\* requests that are to write it are about that owner.
Owned(owner) ==
    /\ owner \in [1..made -> Users] /\ removed \subseteq 1..made
    /\ \A d \in Ids : grant[d] # NoGrant => d \in 1..made /\ grant[d].user = owner[d]
    /\ \A c \in Calls : \A w \in call[c].writes :
          /\ w.id \in 1..made /\ owner[w.id] \in call[c].users
          /\ w.to # NoGrant => w.to.user = owner[w.id]

\* The grants of a user, as GrantsSound has them.
Single(u) ==
    /\ \A d, e \in GrantsOf(u) : d = e
    /\ \A d \in GrantsOf(u) : d \notin removed /\ grant[d].role \in roles \union {NoRole}

\* What a request is about to write for a user it has alone.
Alone(c, u, owner) ==
    /\ call[c].at = "creating" =>
          GrantsOf(u) = {} /\ call[c].role \in roles \union {NoRole}
    /\ call[c].at \in {"writing", "revoking"} =>
          /\ \A w \in call[c].writes : owner[w.id] = u =>
                /\ w.id \in GrantsOf(u)
                /\ \A v \in call[c].writes : v.id = w.id => v = w
                /\ w.to # NoGrant =>
                      /\ w.to.role \in roles \union {NoRole}
                      /\ w.to.role = NoRole \/ w.to.role # call[c].role
          /\ call[c].role # NoRole =>
                \A d \in GrantsOf(u) : grant[d].role = call[c].role =>
                    \E w \in call[c].writes : w.id = d

\* One request at most is about a user, unless two have overlapped.
Apart(owner) ==
    \A u \in Users \ collided :
        /\ Single(u)
        /\ \A c \in Calls : u \in call[c].users =>
              /\ Alone(c, u, owner)
              /\ \A o \in Calls : u \in call[o].users => o = c

\* No request is between a write and its announcement, and no epoch is on its
\* way, for what machine m keeps about a user.
Told(m, u) ==
    /\ bumps = 0 /\ seen[m] = epoch
    /\ \A c \in Calls : call[c].at \in {"writing", "revoking", "announcing"} => u \notin Evicted(c)

CacheFresh ==
    \A m \in Machines, u \in Users :
        cache[m][u] # NoEntry /\ ~cache[m][u].untold /\ Told(m, u) => cache[m][u].value = Truth(u)

LoadFresh ==
    \A q \in Readers :
        load[q] # NoLoad /\ ~load[q].untold /\ Told(load[q].on, load[q].user) =>
            IF load[q].read THEN load[q].value = Truth(load[q].user)
            ELSE load[q].found = Found(load[q].user)

StoredOK == Staged /\ \E owner : Owned(owner) /\ Apart(owner)

IInv == TypeOK /\ StoredOK /\ CacheFresh /\ LoadFresh

----------------------------------------------------------------------------
(* What the documents say.                                                 *)

LEMMA LeastOf ==
    ASSUME NEW S \in SUBSET Nat, S # {}
    PROVE  Min(S) \in S
  <1> DEFINE R == OpToRel(<, Nat)
  <1>1. IsWellFoundedOn(R, Nat)
    BY NatLessThanWellFounded
  <1>2. \A x, y \in S : <<y, x>> \in R <=> y < x
    BY DEF OpToRel
  <1> HIDE DEF R
  <1>3. PICK x \in S : \A y \in S : ~ (<<y, x>> \in R)
    BY <1>1, WFMin
  <1>4. \A y \in S : ~ (y < x)
    BY <1>2, <1>3
  <1>5. \A y \in S : x =< y
    BY <1>4
  <1> QED
    BY <1>5 DEF Min

\* What is found for a user is one of the user's grants, if there is one.
LEMMA FoundIs ==
    ASSUME NEW u, GrantsOf(u) # {}
    PROVE  Min(GrantsOf(u)) \in GrantsOf(u) /\ Found(u) = grant[Min(GrantsOf(u))]
  <1>1. GrantsOf(u) \in SUBSET Nat
    BY AccessAssumption DEF GrantsOf, Ids
  <1> QED
    BY <1>1, LeastOf DEF Found

LEMMA FoundType ==
    ASSUME TypeOK, NEW u
    PROVE  Found(u) \in Grants \union {NoGrant}
  <1>1. CASE GrantsOf(u) = {}
    BY <1>1 DEF Found
  <1>2. CASE GrantsOf(u) # {}
    BY <1>2, FoundIs DEF TypeOK, GrantsOf
  <1> QED
    BY <1>1, <1>2

LEMMA WorthType ==
    ASSUME TypeOK, NEW g
    PROVE  Worth(g) \in Values
  <1>1. Denied \in Values
    BY DEF Denied, Values
  <1>2. [hasAccess |-> TRUE, permissions |-> IF g.role \in roles THEN link[g.role] ELSE {}] \in Values
    BY DEF TypeOK, Values
  <1> QED
    BY <1>1, <1>2 DEF Worth

\* A user whose grants stay as they are is found the same.
LEMMA FoundKept ==
    ASSUME NEW u, GrantsOf(u)' = GrantsOf(u), \A d \in GrantsOf(u) : grant'[d] = grant[d]
    PROVE  Found(u)' = Found(u)
  <1>1. CASE GrantsOf(u) = {}
    BY <1>1 DEF Found
  <1>2. CASE GrantsOf(u) # {}
    BY <1>2, FoundIs DEF Found
  <1> QED
    BY <1>1, <1>2

----------------------------------------------------------------------------
(* Answers that were told of stay right.                                   *)

\* Nothing is stored and nothing dropped; what can still be trusted
\* afterwards could be before, and the documents still say the same of it.
LEMMA FreshKept ==
    ASSUME CacheFresh, LoadFresh, TypeOK, UNCHANGED <<cache, load>>,
           \A m \in Machines, u \in Users :
              Told(m, u)' => Told(m, u) /\ Found(u)' = Found(u) /\ Truth(u)' = Truth(u)
    PROVE  CacheFresh' /\ LoadFresh'
  <1>1. CacheFresh'
    BY DEF CacheFresh
  <1>2. \A q \in Readers : load[q] # NoLoad => load[q].on \in Machines /\ load[q].user \in Users
    BY DEF TypeOK, Load
  <1>3. LoadFresh'
    BY <1>2 DEF LoadFresh
  <1> QED
    BY <1>1, <1>3

\* Nothing at all can be trusted without its own clock.
LEMMA FreshUntold ==
    ASSUME NEW loads \in [Readers -> Load \union {NoLoad}],
           NEW entries \in [Machines -> [Users -> Entry \union {NoEntry}]],
           Untold(loads, entries)
    PROVE  /\ CacheFresh' /\ LoadFresh'
           /\ cache' \in [Machines -> [Users -> Entry \union {NoEntry}]]
           /\ load' \in [Readers -> Load \union {NoLoad}]
  <1>1. \A m \in Machines, u \in Users :
           \/ cache'[m][u] = NoEntry
           \/ cache'[m][u] \in Entry /\ cache'[m][u].untold
    <2> SUFFICES ASSUME NEW m \in Machines, NEW u \in Users, entries[m][u] # NoEntry
                 PROVE  cache'[m][u] \in Entry /\ cache'[m][u].untold
      BY DEF Untold
    <2>1. entries[m][u] \in Entry /\ cache'[m][u] = [entries[m][u] EXCEPT !.untold = TRUE]
      BY DEF Untold
    <2> QED
      BY <2>1 DEF Entry
  <1>2. \A q \in Readers : \/ load'[q] = NoLoad
                           \/ load'[q] \in Load /\ load'[q].untold
    <2> SUFFICES ASSUME NEW q \in Readers, loads[q] # NoLoad
                 PROVE  load'[q] \in Load /\ load'[q].untold
      BY DEF Untold
    <2>1. loads[q] \in Load /\ load'[q] = [loads[q] EXCEPT !.untold = TRUE]
      BY DEF Untold
    <2> QED
      BY <2>1 DEF Load
  <1>3. cache' \in [Machines -> [Users -> Entry \union {NoEntry}]]
    BY <1>1 DEF Untold
  <1>4. load' \in [Readers -> Load \union {NoLoad}]
    BY <1>2 DEF Untold
  <1> QED
    BY <1>1, <1>2, <1>3, <1>4 DEF CacheFresh, LoadFresh

\* Dropping entries leaves the rest as it was.
LEMMA EvictType ==
    ASSUME TypeOK, NEW m \in Machines, NEW users, Evict(m, users)
    PROVE  /\ cache' \in [Machines -> [Users -> Entry \union {NoEntry}]]
           /\ load' \in [Readers -> Load \union {NoLoad}]
           /\ \A n \in Machines, u \in Users :
                 cache'[n][u] = IF n = m /\ u \in users THEN NoEntry ELSE cache[n][u]
           /\ \A q \in Readers :
                 \/ load'[q] = load[q] /\ (load[q] # NoLoad => load[q].on # m \/ load[q].user \notin users)
                 \/ load[q] # NoLoad /\ load[q].on = m /\ load'[q] \in Load /\ load'[q].untold
  <1>1. \A n \in Machines, u \in Users :
           cache'[n][u] = IF n = m /\ u \in users THEN NoEntry ELSE cache[n][u]
    BY DEF Evict, TypeOK
  <1>2. cache' \in [Machines -> [Users -> Entry \union {NoEntry}]]
    BY DEF Evict, TypeOK
  <1>3. \A q \in Readers :
           \/ load'[q] = load[q] /\ (load[q] # NoLoad => load[q].on # m \/ load[q].user \notin users)
           \/ load[q] # NoLoad /\ load[q].on = m /\ load'[q] \in Load /\ load'[q].untold
    <2> TAKE q \in Readers
    <2>1. CASE load[q] # NoLoad /\ load[q].on = m /\ load[q].user \in users
      <3>1. load[q] \in Load /\ load'[q] = [load[q] EXCEPT !.untold = TRUE]
        BY <2>1 DEF Evict, TypeOK
      <3> QED
        BY <2>1, <3>1 DEF Load
    <2>2. CASE ~(load[q] # NoLoad /\ load[q].on = m /\ load[q].user \in users)
      BY <2>2 DEF Evict, TypeOK
    <2> QED
      BY <2>1, <2>2
  <1>4. load' \in [Readers -> Load \union {NoLoad}]
    <2>1. \A q \in Readers : load'[q] \in Load \union {NoLoad}
      BY <1>3 DEF TypeOK
    <2> QED
      BY <2>1 DEF Evict
  <1> QED
    BY <1>1, <1>2, <1>3, <1>4

----------------------------------------------------------------------------
(* Grants, roles and the requests about them.                              *)

\* Nothing is written, and requests only go on past their writes or end.
LEMMA Quiet ==
    ASSUME StoredOK, UNCHANGED <<grant, made, roles, collided, removed>>,
           \A c \in Calls :
              \/ call'[c] = call[c]
              \/ /\ call'[c].at \in {"announcing", "linking"}
                 /\ call'[c].users = call[c].users /\ call'[c].writes = call[c].writes
              \/ call'[c] = Over("done")
    PROVE  StoredOK'
  <1>1. Over("done").at = "done" /\ Over("done").users = {} /\ Over("done").writes = {}
    BY DEF Over
  <1>2. Staged'
    BY <1>1 DEF StoredOK, Staged
  <1>3. PICK owner : Owned(owner) /\ Apart(owner)
    BY DEF StoredOK
  <1>4. Owned(owner)'
    BY <1>1, <1>3 DEF Owned
  <1>5. Apart(owner)'
    <2> SUFFICES ASSUME NEW u \in Users \ collided
                 PROVE  /\ Single(u)'
                        /\ \A c \in Calls : u \in call'[c].users =>
                              /\ Alone(c, u, owner)'
                              /\ \A o \in Calls : u \in call'[o].users => o = c
      BY DEF Apart
    <2>1. Single(u)'
      BY <1>3 DEF Apart, Single, GrantsOf
    <2>2. ASSUME NEW c \in Calls, u \in call'[c].users
          PROVE  Alone(c, u, owner)'
      <3>1. CASE call'[c] = call[c]
        <4>1. Alone(c, u, owner)
          BY <1>3, <2>2, <3>1 DEF Apart
        <4> QED
          BY <3>1, <4>1 DEF Alone, GrantsOf
      <3>2. CASE call'[c].at \in {"announcing", "linking", "done"}
        BY <3>2 DEF Alone
      <3> QED
        BY <1>1, <3>1, <3>2
    <2>3. \A c \in Calls : u \in call'[c].users => u \in call[c].users
      BY <1>1
    <2>4. \A c, o \in Calls : u \in call'[c].users /\ u \in call'[o].users => o = c
      BY <1>3, <2>3 DEF Apart
    <2> QED
      BY <2>1, <2>2, <2>4
  <1> QED
    BY <1>2, <1>4, <1>5 DEF StoredOK

\* What a request that is to write grants has read of them.
ToWrite(users, role, writes) ==
    /\ \A w \in writes :
          /\ w.id \in Ids /\ grant[w.id] # NoGrant /\ grant[w.id].user \in users
          /\ \A v \in writes : v.id = w.id => v = w
          /\ w.to # NoGrant =>
                /\ w.to.user = grant[w.id].user
                /\ w.to.role \in roles \union {NoRole}
                /\ w.to.role = NoRole \/ w.to.role # role
    /\ role # NoRole =>
          /\ users = Users
          /\ \A d \in Ids : grant[d] # NoGrant /\ grant[d].role = role =>
                \E w \in writes : w.id = d

LEMMA BeginStored ==
    ASSUME TypeOK, StoredOK, NEW c \in Calls, NEW stage \in {"creating", "writing", "revoking", "clearing"},
           NEW users \in SUBSET Users, NEW role, NEW writes, NEW adds,
           Begin(c, stage, users, role, writes, adds),
           stage = "creating" =>
              role \in roles \union {NoRole} /\ \A u \in users : GrantsOf(u) = {},
           stage \in {"writing", "revoking"} => ToWrite(users, role, writes),
           stage \notin {"writing", "revoking"} => writes = {},
           stage = "clearing" => role # NoRole
    PROVE  StoredOK'
  <1>1. /\ call[c].at = "none" /\ Collide(c, users)
        /\ UNCHANGED <<grant, made, roles, removed>>
        /\ call'[c].at = stage /\ call'[c].users = users /\ call'[c].role = role
        /\ call'[c].writes = writes
        /\ \A o \in Calls : o # c => call'[o] = call[o]
    BY DEF Begin, TypeOK, stored
  <1>2. Staged'
    BY <1>1 DEF StoredOK, Staged, ToWrite
  <1>3. PICK owner : Owned(owner) /\ Apart(owner)
    BY DEF StoredOK
  <1>4. \A w \in writes : /\ w.id \in 1..made /\ owner[w.id] \in users
                          /\ w.to # NoGrant => w.to.user = owner[w.id]
    BY <1>3 DEF ToWrite, Owned
  <1>5. Owned(owner)'
    BY <1>1, <1>3, <1>4 DEF Owned
  <1>6. Apart(owner)'
    <2> SUFFICES ASSUME NEW u \in Users \ collided'
                 PROVE  /\ Single(u)'
                        /\ \A o \in Calls : u \in call'[o].users =>
                              /\ Alone(o, u, owner)'
                              /\ \A p \in Calls : u \in call'[p].users => p = o
      BY DEF Apart
    <2>1. u \in Users \ collided
      BY <1>1 DEF Collide
    <2>2. Single(u)'
      BY <1>1, <1>3, <2>1 DEF Apart, Single, GrantsOf
    <2>3. ASSUME u \in users
          PROVE  Alone(c, u, owner)'
      <3>1. GrantsOf(u)' = GrantsOf(u)
        BY <1>1 DEF GrantsOf
      <3>2. call'[c].at = "creating" => GrantsOf(u)' = {} /\ call'[c].role \in roles' \union {NoRole}
        BY <1>1, <2>3, <3>1
      <3>3. ASSUME stage \in {"writing", "revoking"}, NEW w \in writes, owner[w.id] = u
            PROVE  /\ w.id \in GrantsOf(u)
                   /\ \A v \in writes : v.id = w.id => v = w
                   /\ w.to # NoGrant =>
                         /\ w.to.role \in roles \union {NoRole}
                         /\ w.to.role = NoRole \/ w.to.role # role
        <4>1. w.id \in Ids /\ grant[w.id] # NoGrant /\ grant[w.id].user = u
          BY <1>3, <3>3 DEF ToWrite, Owned
        <4> QED
          BY <3>3, <4>1 DEF ToWrite, GrantsOf
      <3>4. ASSUME stage \in {"writing", "revoking"}, role # NoRole, NEW d \in GrantsOf(u), grant[d].role = role
            PROVE  \E w \in writes : w.id = d
        BY <3>4 DEF ToWrite, GrantsOf
      <3> QED
        BY <1>1, <3>1, <3>2, <3>3, <3>4 DEF Alone
    <2>4. ASSUME NEW o \in Calls, o # c, u \in call'[o].users
          PROVE  Alone(o, u, owner)'
      <3>1. Alone(o, u, owner) /\ call'[o] = call[o]
        BY <1>1, <1>3, <2>1, <2>4 DEF Apart
      <3> QED
        BY <1>1, <3>1 DEF Alone, GrantsOf
    <2>5. ASSUME NEW o \in Calls, o # c, u \in call'[o].users, u \in users
          PROVE  FALSE
      <3>1. u \in call[o].users /\ Busy(o)
        BY <1>1, <2>5 DEF StoredOK, Staged, Busy
      <3> QED
        BY <1>1, <2>5, <3>1 DEF Collide
    <2>6. \A o, p \in Calls : o # c /\ p # c /\ u \in call'[o].users /\ u \in call'[p].users => p = o
      BY <1>1, <1>3, <2>1 DEF Apart
    <2> QED
      BY <1>1, <2>2, <2>3, <2>4, <2>5, <2>6
  <1> QED
    BY <1>2, <1>5, <1>6 DEF StoredOK

LEMMA CreateGrantStored ==
    ASSUME TypeOK, StoredOK, NEW c \in Calls, CreateGrant(c)
    PROVE  StoredOK' /\ \E u \in call[c].users : \A v \in Users :
                           v # u => GrantsOf(v)' = GrantsOf(v) /\ \A d \in GrantsOf(v) : grant'[d] = grant[d]
  <1> DEFINE new == made + 1
  <1>1. PICK u \in call[c].users : grant' = [grant EXCEPT ![made + 1] = [user |-> u, role |-> call[c].role]]
    BY DEF CreateGrant
  <1>2. /\ call[c].at = "creating" /\ made' = new /\ new \in Ids /\ made \in Nat
        /\ UNCHANGED <<roles, collided, removed>>
        /\ call'[c].at = "announcing" /\ call'[c].users = call[c].users
        /\ call'[c].writes = call[c].writes
        /\ \A o \in Calls : o # c => call'[o] = call[o]
    BY AccessAssumption DEF CreateGrant, TypeOK, Ids
  <1>3. u \in Users
    BY <1>1 DEF TypeOK, Request
  <1>4. PICK owner : Owned(owner) /\ Apart(owner)
    BY DEF StoredOK
  <1>5. grant[new] = NoGrant /\ new \notin 1..made
    BY <1>2, <1>4 DEF Owned
  <1>6. \A d \in Ids : grant'[d] = IF d = new THEN [user |-> u, role |-> call[c].role] ELSE grant[d]
    BY <1>1 DEF TypeOK
  <1>7. [user |-> u, role |-> call[c].role].user = u /\ [user |-> u, role |-> call[c].role].role = call[c].role
    OBVIOUS
  <1>8. 1..(made + 1) = 1..made \union {new}
    BY <1>2
  <1>9. PICK owner2 : /\ owner2 \in [1..made' -> Users] /\ owner2[new] = u
                      /\ \A d \in 1..made : owner2[d] = owner[d]
    <2> DEFINE more == [d \in 1..(made + 1) |-> IF d = new THEN u ELSE owner[d]]
    <2>1. /\ more \in [1..made' -> Users] /\ more[new] = u
          /\ \A d \in 1..made : more[d] = owner[d]
      BY <1>2, <1>3, <1>4, <1>5, <1>8 DEF Owned
    <2> QED
      BY <2>1
  <1> HIDE DEF new
  <1>10. \A v \in Users : v # u => GrantsOf(v)' = GrantsOf(v) /\ \A d \in GrantsOf(v) : grant'[d] = grant[d]
    BY <1>2, <1>5, <1>6, <1>7 DEF GrantsOf
  <1>11. Owned(owner2)'
    <2>1. removed \subseteq 1..made'
      BY <1>2, <1>4, <1>8 DEF Owned, new
    <2>2. \A d \in Ids : grant'[d] # NoGrant => d \in 1..made' /\ grant'[d].user = owner2[d]
      BY <1>2, <1>4, <1>6, <1>7, <1>8, <1>9 DEF Owned, new
    <2>3. \A o \in Calls : call'[o].writes = call[o].writes /\ call'[o].users = call[o].users
      BY <1>2
    <2>4. \A o \in Calls : \A w \in call'[o].writes :
             /\ w.id \in 1..made' /\ owner2[w.id] \in call'[o].users
             /\ w.to # NoGrant => w.to.user = owner2[w.id]
      BY <1>2, <1>4, <1>8, <1>9, <2>3 DEF Owned, new
    <2> QED
      BY <1>2, <1>9, <2>1, <2>2, <2>4 DEF Owned
  <1>12. Staged'
    BY <1>2 DEF StoredOK, Staged
  <1>13. Apart(owner2)'
    <2> SUFFICES ASSUME NEW v \in Users \ collided
                 PROVE  /\ Single(v)'
                        /\ \A o \in Calls : v \in call'[o].users =>
                              /\ Alone(o, v, owner2)'
                              /\ \A p \in Calls : v \in call'[p].users => p = o
      BY <1>2 DEF Apart
    <2>1. \A o, p \in Calls : v \in call'[o].users /\ v \in call'[p].users => p = o
      BY <1>2, <1>4 DEF Apart
    <2>2. Single(v)'
      <3>1. CASE v = u
        <4>1. GrantsOf(v) = {} /\ call[c].role \in roles \union {NoRole}
          BY <1>1, <1>2, <1>4, <3>1 DEF Apart, Alone
        <4>2. \A d \in Ids : grant'[d] # NoGrant /\ grant'[d].user = v => d = new
          BY <1>6, <4>1 DEF GrantsOf
        <4>3. new \notin removed
          BY <1>4, <1>5 DEF Owned
        <4> QED
          BY <1>2, <1>6, <1>7, <4>1, <4>2, <4>3 DEF Single, GrantsOf
      <3>2. CASE v # u
        <4>1. GrantsOf(v)' = GrantsOf(v) /\ \A d \in GrantsOf(v) : grant'[d] = grant[d]
          BY <1>10, <3>2
        <4> QED
          BY <1>2, <1>4, <4>1 DEF Apart, Single
      <3> QED
        BY <3>1, <3>2
    <2>3. ASSUME NEW o \in Calls, v \in call'[o].users
          PROVE  Alone(o, v, owner2)'
      <3>1. CASE o = c
        BY <1>2, <3>1 DEF Alone
      <3>2. CASE o # c
        <4>1. call'[o] = call[o] /\ v \in call[o].users /\ Alone(o, v, owner)
          BY <1>2, <1>4, <2>3, <3>2 DEF Apart
        <4>2. v # u
          BY <1>1, <1>4, <3>2, <4>1 DEF Apart
        <4>3. GrantsOf(v)' = GrantsOf(v) /\ \A d \in GrantsOf(v) : grant'[d] = grant[d]
          BY <1>10, <4>2
        <4>4. \A w \in call[o].writes : owner2[w.id] = owner[w.id]
          BY <1>4, <1>9 DEF Owned
        <4> QED
          BY <1>2, <4>1, <4>3, <4>4 DEF Alone
      <3> QED
        BY <3>1, <3>2
    <2> QED
      BY <2>1, <2>2, <2>3
  <1> QED
    BY <1>10, <1>11, <1>12, <1>13 DEF StoredOK

LEMMA WriteGrantStored ==
    ASSUME TypeOK, StoredOK, NEW c \in Calls, WriteGrant(c)
    PROVE  StoredOK' /\ \E u \in call[c].users : \A v \in Users :
                           v # u => GrantsOf(v)' = GrantsOf(v) /\ \A d \in GrantsOf(v) : grant'[d] = grant[d]
  <1>1. PICK w \in call[c].writes :
           /\ grant' = [grant EXCEPT ![w.id] = w.to]
           /\ removed' = IF w.to = NoGrant THEN removed \union {w.id} ELSE removed
           /\ call' = [call EXCEPT ![c].writes = @ \ {w}]
    BY DEF WriteGrant
  <1>2. /\ call[c].at \in {"writing", "revoking"} /\ UNCHANGED <<made, roles, collided>>
        /\ call'[c].at = call[c].at /\ call'[c].users = call[c].users
        /\ call'[c].role = call[c].role
        /\ call'[c].writes = call[c].writes \ {w}
        /\ \A o \in Calls : o # c => call'[o] = call[o]
    BY <1>1 DEF WriteGrant, TypeOK, Request
  <1>3. w.id \in Ids
    BY <1>1 DEF TypeOK, Request, Write
  <1>4. PICK owner : Owned(owner) /\ Apart(owner)
    BY DEF StoredOK
  <1> DEFINE u == owner[w.id]
  <1>5. u \in call[c].users /\ u \in Users /\ (w.to # NoGrant => w.to.user = u) /\ w.id \in 1..made
    BY <1>1, <1>4 DEF Owned
  <1>6. \A d \in Ids : grant'[d] = IF d = w.id THEN w.to ELSE grant[d]
    BY <1>1 DEF TypeOK
  <1>7. grant[w.id] # NoGrant => grant[w.id].user = u
    BY <1>3, <1>4 DEF Owned
  <1> HIDE DEF u
  <1>8. \A v \in Users : v # u => GrantsOf(v)' = GrantsOf(v) /\ \A d \in GrantsOf(v) : grant'[d] = grant[d]
    BY <1>5, <1>6, <1>7 DEF GrantsOf
  <1>9. Owned(owner)'
    <2>1. removed' \subseteq 1..made'
      BY <1>1, <1>2, <1>4, <1>5 DEF Owned
    <2>2. \A d \in Ids : grant'[d] # NoGrant => d \in 1..made' /\ grant'[d].user = owner[d]
      BY <1>2, <1>4, <1>5, <1>6 DEF Owned, u
    <2>3. \A o \in Calls : call'[o].writes \subseteq call[o].writes /\ call'[o].users = call[o].users
      BY <1>2
    <2> QED
      BY <1>2, <1>4, <2>1, <2>2, <2>3 DEF Owned
  <1>10. Staged'
    BY <1>2 DEF StoredOK, Staged
  <1>11. Apart(owner)'
    <2> SUFFICES ASSUME NEW v \in Users \ collided
                 PROVE  /\ Single(v)'
                        /\ \A o \in Calls : v \in call'[o].users =>
                              /\ Alone(o, v, owner)'
                              /\ \A p \in Calls : v \in call'[p].users => p = o
      BY <1>2 DEF Apart
    <2>1. \A o, p \in Calls : v \in call'[o].users /\ v \in call'[p].users => p = o
      BY <1>2, <1>4 DEF Apart
    <2>2. Single(v)
      BY <1>4 DEF Apart
    <2>3. CASE v # u
      <3>1. GrantsOf(v)' = GrantsOf(v) /\ \A d \in GrantsOf(v) : grant'[d] = grant[d]
        BY <1>8, <2>3
      <3>2. w.id \notin GrantsOf(v)
        BY <1>7, <2>3 DEF GrantsOf
      <3>3. Single(v)'
        BY <1>1, <1>2, <2>2, <3>1, <3>2 DEF Single
      <3>4. ASSUME NEW o \in Calls, v \in call'[o].users
            PROVE  Alone(o, v, owner)'
        <4>1. /\ Alone(o, v, owner) /\ call'[o].at = call[o].at /\ call'[o].role = call[o].role
              /\ call'[o].writes \subseteq call[o].writes
              /\ \A x \in call[o].writes : owner[x.id] = v \/ x.id \in GrantsOf(v) => x \in call'[o].writes
          BY <1>2, <1>4, <2>3, <3>2, <3>4 DEF Apart, u
        <4> QED
          BY <1>2, <3>1, <4>1 DEF Alone
      <3> QED
        BY <2>1, <3>3, <3>4
    <2>4. CASE v = u
      <3>1. /\ Alone(c, v, owner)
            /\ \A o \in Calls : v \in call'[o].users => o = c
        BY <1>2, <1>4, <1>5, <2>4 DEF Apart
      <3>2. /\ w.id \in GrantsOf(v)
            /\ \A x \in call[c].writes : x.id = w.id => x = w
            /\ w.to # NoGrant =>
                  /\ w.to.role \in roles \union {NoRole}
                  /\ w.to.role = NoRole \/ w.to.role # call[c].role
        BY <1>1, <1>2, <2>4, <3>1 DEF Alone, u
      <3>3. GrantsOf(v) = {w.id}
        BY <2>2, <3>2 DEF Single
      <3>4. GrantsOf(v)' = IF w.to = NoGrant THEN {} ELSE {w.id}
        <4>1. \A d \in Ids : grant'[d] # NoGrant /\ grant'[d].user = v <=> d = w.id /\ w.to # NoGrant
          BY <1>3, <1>5, <1>6, <2>4, <3>3 DEF GrantsOf
        <4> QED
          BY <1>3, <4>1 DEF GrantsOf
      <3>5. Single(v)'
        BY <1>1, <1>2, <1>3, <1>6, <2>2, <3>2, <3>4 DEF Single
      <3>6. Alone(c, v, owner)'
        <4>1. \A x \in call'[c].writes : owner[x.id] # v
          <5> SUFFICES ASSUME NEW x \in call[c].writes, x # w, owner[x.id] = v
                       PROVE  FALSE
            BY <1>2
          <5>1. x.id \in GrantsOf(v)
            BY <1>2, <3>1 DEF Alone
          <5> QED
            BY <3>2, <3>3, <5>1
        <4>2. ASSUME call[c].role # NoRole, NEW d \in GrantsOf(v)', grant'[d].role = call[c].role
              PROVE  FALSE
          BY <1>3, <1>6, <3>2, <3>4, <4>2
        <4> QED
          BY <1>2, <4>1, <4>2 DEF Alone
      <3> QED
        BY <2>1, <3>1, <3>5, <3>6
    <2> QED
      BY <2>3, <2>4
  <1> QED
    BY <1>5, <1>8, <1>9, <1>10, <1>11 DEF StoredOK

\* All grants of a role are written before the role goes.
LEMMA WrittenStored ==
    ASSUME TypeOK, StoredOK, NEW c \in Calls, Written(c)
    PROVE  StoredOK'
  <1>1. /\ call[c].at = "writing" /\ call[c].writes = {} /\ roles' = roles \ {call[c].role}
        /\ UNCHANGED <<grant, made, removed, collided>>
        /\ call'[c].at = "announcing" /\ call'[c].users = call[c].users
        /\ call'[c].writes = call[c].writes
        /\ \A o \in Calls : o # c => call'[o] = call[o]
    BY DEF Written, On, TypeOK, Request
  <1>2. PICK owner : Owned(owner) /\ Apart(owner)
    BY DEF StoredOK
  <1>3. Staged'
    BY <1>1 DEF StoredOK, Staged
  <1>4. Owned(owner)'
    BY <1>1, <1>2 DEF Owned
  <1>5. Apart(owner)'
    <2> SUFFICES ASSUME NEW u \in Users \ collided
                 PROVE  /\ Single(u)'
                        /\ \A o \in Calls : u \in call'[o].users =>
                              /\ Alone(o, u, owner)'
                              /\ \A p \in Calls : u \in call'[p].users => p = o
      BY <1>1 DEF Apart
    <2>1. \A o, p \in Calls : u \in call'[o].users /\ u \in call'[p].users => p = o
      BY <1>1, <1>2 DEF Apart
    <2>2. GrantsOf(u)' = GrantsOf(u)
      BY <1>1 DEF GrantsOf
    <2>3. CASE call[c].role = NoRole
      <3>1. roles' \union {NoRole} = roles \union {NoRole}
        BY <1>1, <2>3
      <3>2. Single(u)'
        BY <1>1, <1>2, <2>2, <3>1 DEF Apart, Single
      <3>3. ASSUME NEW o \in Calls, u \in call'[o].users
            PROVE  Alone(o, u, owner)'
        <4>1. CASE o = c
          BY <1>1, <4>1 DEF Alone
        <4>2. CASE o # c
          <5>1. call'[o] = call[o] /\ Alone(o, u, owner)
            BY <1>1, <1>2, <3>3, <4>2 DEF Apart
          <5> QED
            BY <1>1, <2>2, <3>1, <5>1 DEF Alone
        <4> QED
          BY <4>1, <4>2
      <3> QED
        BY <2>1, <3>2, <3>3
    <2>4. CASE call[c].role # NoRole
      <3>1. call[c].users = Users
        BY <1>1, <2>4 DEF StoredOK, Staged
      <3>2. u \in call[c].users /\ u \in call'[c].users
        BY <1>1, <3>1
      <3>3. Alone(c, u, owner) /\ \A o \in Calls : u \in call'[o].users => o = c
        BY <1>2, <2>1, <3>2 DEF Apart
      <3>4. \A d \in GrantsOf(u) : grant[d].role # call[c].role
        BY <1>1, <2>4, <3>3 DEF Alone
      <3>5. Single(u)'
        BY <1>1, <1>2, <2>2, <3>4 DEF Apart, Single
      <3>6. Alone(c, u, owner)'
        BY <1>1 DEF Alone
      <3> QED
        BY <2>1, <3>3, <3>5, <3>6
    <2> QED
      BY <2>3, <2>4
  <1> QED
    BY <1>3, <1>4, <1>5 DEF StoredOK

----------------------------------------------------------------------------
(* Requests that change something.                                         *)

\* Grants, roles and links say the same of everyone.
LEMMA TruthKept ==
    ASSUME UNCHANGED <<grant, roles, link>>
    PROVE  \A u \in Users : Found(u)' = Found(u) /\ Truth(u)' = Truth(u)
  BY DEF Found, GrantsOf, Truth, Worth

\* The other requests are where they were.
LEMMA OthersTold ==
    ASSUME NEW m \in Machines, NEW u \in Users, Told(m, u)', UNCHANGED <<bumps, seen, epoch>>,
           NEW c \in Calls, \A o \in Calls : o # c => call'[o] = call[o],
           call[c].at \in {"writing", "revoking", "announcing"} => u \notin Evicted(c)
    PROVE  Told(m, u)
  <1>1. \A o \in Calls : o # c => Evicted(o)' = Evicted(o)
    BY DEF Evicted
  <1> QED
    BY <1>1 DEF Told

LEMMA BeginIInv ==
    ASSUME IInv, NEW c \in Calls, NEW stage \in {"creating", "writing", "revoking", "clearing"},
           NEW users \in SUBSET Users, NEW role \in Roles \union {NoRole},
           NEW writes \in SUBSET Write, NEW adds \in SUBSET Perms,
           Begin(c, stage, users, role, writes, adds),
           stage = "creating" =>
              role \in roles \union {NoRole} /\ \A u \in users : GrantsOf(u) = {},
           stage \in {"writing", "revoking"} => ToWrite(users, role, writes),
           stage \notin {"writing", "revoking"} => writes = {},
           stage = "clearing" => role # NoRole
    PROVE  IInv'
  <1>1. /\ call[c].at = "none" /\ Collide(c, users)
        /\ call' = [call EXCEPT ![c] = [at |-> stage, users |-> users, role |-> role,
                                        writes |-> writes, adds |-> adds]]
        /\ UNCHANGED <<grant, made, roles, link, epoch, bumps, seen, cache, load, removed>>
    BY DEF Begin, stored
  <1>2. StoredOK'
    BY BeginStored DEF IInv
  <1>3. call' \in [Calls -> Request] /\ collided' \subseteq Users
    <2>1. [at |-> stage, users |-> users, role |-> role, writes |-> writes, adds |-> adds] \in Request
      BY DEF Request, Stages
    <2> QED
      BY <1>1, <2>1 DEF IInv, TypeOK, Collide
  <1>4. TypeOK'
    BY <1>1, <1>3 DEF IInv, TypeOK
  <1>5. \A m \in Machines, u \in Users : Told(m, u)' => Told(m, u)
    <2>1. \A o \in Calls : o # c => call'[o] = call[o]
      BY <1>1 DEF IInv, TypeOK
    <2> QED
      BY <1>1, <2>1, OthersTold
  <1>6. CacheFresh' /\ LoadFresh'
    BY <1>1, <1>5, TruthKept, FreshKept DEF IInv
  <1> QED
    BY <1>2, <1>4, <1>6 DEF IInv

LEMMA AssignAccessIInv ==
    ASSUME IInv, NEW c \in Calls, AssignAccess(c)
    PROVE  IInv'
  <1>1. PICK u \in Users, r \in roles \union {NoRole} :
           Found(u) = NoGrant /\ Begin(c, "creating", {u}, r, {}, {})
    BY DEF AssignAccess
  <1>2. GrantsOf(u) = {}
    BY <1>1, FoundIs DEF GrantsOf
  <1>3. r \in Roles \union {NoRole}
    BY DEF IInv, TypeOK
  <1> QED
    BY <1>1, <1>2, <1>3, BeginIInv

LEMMA UpdateAccessIInv ==
    ASSUME IInv, NEW c \in Calls, UpdateAccess(c)
    PROVE  IInv'
  <1>1. PICK d \in Ids, r \in roles \union {NoRole} :
           /\ grant[d] # NoGrant
           /\ Begin(c, "writing", {grant[d].user}, NoRole,
                    {[id |-> d, to |-> [grant[d] EXCEPT !.role = r]]}, {})
    BY DEF UpdateAccess
  <1> DEFINE to == [grant[d] EXCEPT !.role = r]
             w == [id |-> d, to |-> to]
  <1>2. grant[d] \in Grants /\ r \in Roles \union {NoRole}
    BY <1>1 DEF IInv, TypeOK
  <1>3. to \in Grants /\ to.user = grant[d].user /\ to.role = r
    BY <1>2 DEF Grants
  <1>4. grant[d].user \in Users
    BY <1>2 DEF Grants
  <1> HIDE DEF to
  <1>5. w.id = d /\ w.to = to /\ w \in Write
    BY <1>3 DEF Write
  <1> HIDE DEF w
  <1>6. ToWrite({grant[d].user}, NoRole, {w})
    BY <1>1, <1>3, <1>5 DEF ToWrite
  <1>7. Begin(c, "writing", {grant[d].user}, NoRole, {w}, {})
    BY <1>1 DEF w, to
  <1> QED
    BY <1>4, <1>5, <1>6, <1>7, BeginIInv

\* Removing grants of one user, one of them or all.
LEMMA RemoveIInv ==
    ASSUME IInv, NEW c \in Calls, NEW u \in Users, NEW S, S \subseteq GrantsOf(u),
           NEW stage \in {"writing", "revoking"},
           Begin(c, stage, {u}, NoRole, {[id |-> d, to |-> NoGrant] : d \in S}, {})
    PROVE  IInv'
  <1> DEFINE writes == {[id |-> d, to |-> NoGrant] : d \in S}
  <1>1. \A w \in writes : w \in Write /\ w.id \in S /\ w.to = NoGrant /\ w = [id |-> w.id, to |-> NoGrant]
    BY DEF Write, GrantsOf
  <1> HIDE DEF writes
  <1>2. ToWrite({u}, NoRole, writes)
    BY <1>1 DEF ToWrite, GrantsOf
  <1>3. Begin(c, stage, {u}, NoRole, writes, {})
    BY DEF writes
  <1>4. writes \in SUBSET Write
    BY <1>1
  <1> QED
    BY <1>2, <1>3, <1>4, BeginIInv

LEMMA RevokeAccessIInv ==
    ASSUME IInv, NEW c \in Calls, RevokeAccess(c)
    PROVE  IInv'
  <1>1. PICK d \in Ids : grant[d] # NoGrant /\
           Begin(c, "revoking", {grant[d].user}, NoRole, {[id |-> d, to |-> NoGrant]}, {})
    BY DEF RevokeAccess
  <1>2. grant[d].user \in Users
    BY <1>1 DEF IInv, TypeOK, Grants
  <1>3. {d} \subseteq GrantsOf(grant[d].user)
    BY <1>1 DEF GrantsOf
  <1>4. {[id |-> e, to |-> NoGrant] : e \in {d}} = {[id |-> d, to |-> NoGrant]}
    OBVIOUS
  <1>5. Begin(c, "revoking", {grant[d].user}, NoRole, {[id |-> e, to |-> NoGrant] : e \in {d}}, {})
    BY <1>1, <1>4
  <1> QED
    BY <1>2, <1>3, <1>5, RemoveIInv

LEMMA DeleteUserIInv ==
    ASSUME IInv, NEW c \in Calls, DeleteUser(c)
    PROVE  IInv'
  <1>1. PICK u \in Users :
           Begin(c, "writing", {u}, NoRole, {[id |-> d, to |-> NoGrant] : d \in GrantsOf(u)}, {})
    BY DEF DeleteUser
  <1> QED
    BY <1>1, RemoveIInv

LEMMA DeleteRoleIInv ==
    ASSUME IInv, NEW c \in Calls, DeleteRole(c)
    PROVE  IInv'
  <1>1. PICK r \in roles :
           LET with == {d \in Ids : grant[d] # NoGrant /\ grant[d].role = r}
               to == IF Default \in roles /\ Default # r THEN Default ELSE NoRole
           IN Begin(c, "writing", Users, r,
                    {[id |-> d, to |-> [grant[d] EXCEPT !.role = to]] : d \in with}, {})
    BY DEF DeleteRole
  <1> DEFINE with == {d \in Ids : grant[d] # NoGrant /\ grant[d].role = r}
             to == IF Default \in roles /\ Default # r THEN Default ELSE NoRole
             W(d) == [id |-> d, to |-> [grant[d] EXCEPT !.role = to]]
             writes == {W(d) : d \in with}
  <1>2. /\ r \in Roles /\ r # NoRole /\ roles \subseteq Roles
        /\ to \in roles \union {NoRole} /\ to \in Roles \union {NoRole} /\ to # r
    BY AccessAssumption DEF IInv, TypeOK
  <1>3. \A d \in with : grant[d] \in Grants /\ d \in Ids /\ grant[d] # NoGrant /\ grant[d].role = r
    BY DEF IInv, TypeOK
  <1>4. Begin(c, "writing", Users, r, writes, {})
    BY <1>1
  <1>5. \A d \in Ids : grant[d] # NoGrant /\ grant[d].role = r => d \in with
    OBVIOUS
  <1> HIDE DEF to, with
  <1>6. ASSUME NEW d \in with
        PROVE  /\ W(d) \in Write /\ W(d).id = d /\ W(d).to.user = grant[d].user
               /\ W(d).to.role = to /\ grant[d].user \in Users
    <2>1. [grant[d] EXCEPT !.role = to] \in Grants
      BY <1>2, <1>3 DEF Grants
    <2>2. grant[d].user \in Users /\ [grant[d] EXCEPT !.role = to].user = grant[d].user
          /\ [grant[d] EXCEPT !.role = to].role = to
      BY <1>2, <1>3 DEF Grants
    <2> QED
      BY <1>3, <2>1, <2>2 DEF Write
  <1> HIDE DEF W
  <1>7. ToWrite(Users, r, writes)
    <2>1. \A w \in writes : \E d \in with : w = W(d)
      OBVIOUS
    <2>2. \A d \in with : \E w \in writes : w.id = d
      BY <1>6
    <2> HIDE DEF writes
    <2>3. ASSUME NEW w \in writes
          PROVE  /\ w.id \in Ids /\ grant[w.id] # NoGrant /\ grant[w.id].user \in Users
                 /\ \A v \in writes : v.id = w.id => v = w
                 /\ w.to.user = grant[w.id].user
                 /\ w.to.role \in roles \union {NoRole} /\ w.to.role # r
      <3>1. PICK d \in with : w = W(d)
        BY <2>1
      <3>2. ASSUME NEW v \in writes, v.id = w.id
            PROVE  v = w
        <4>1. PICK e \in with : v = W(e)
          BY <2>1
        <4>2. e = d
          BY <1>6, <3>1, <3>2, <4>1
        <4> QED
          BY <3>1, <4>1, <4>2
      <3> QED
        BY <1>2, <1>3, <1>6, <3>1, <3>2
    <2> QED
      BY <1>5, <2>2, <2>3 DEF ToWrite
  <1>8. writes \in SUBSET Write
    BY <1>6
  <1> HIDE DEF writes
  <1> QED
    BY <1>2, <1>4, <1>7, <1>8, BeginIInv

LEMMA SetRolePermissionsIInv ==
    ASSUME IInv, NEW c \in Calls, SetRolePermissions(c)
    PROVE  IInv'
  <1>1. PICK r \in roles, P \in SUBSET Perms : Begin(c, "clearing", {}, r, {}, P)
    BY DEF SetRolePermissions
  <1>2. r \in Roles /\ r # NoRole
    BY AccessAssumption DEF IInv, TypeOK
  <1> QED
    BY <1>1, <1>2, BeginIInv

\* A write that changes the grants of one user only, whose answers nobody
\* trusts until it is announced.
LEMMA GrantWritten ==
    ASSUME IInv, NEW c \in Calls, NEW owner \in Users,
           \A o \in Calls : o # c => call'[o] = call[o],
           call'[c].at \in {"writing", "revoking", "announcing"}, owner \in Evicted(c)',
           call[c].at \in {"writing", "revoking", "announcing"} => Evicted(c)' = Evicted(c),
           UNCHANGED <<roles, link, epoch, bumps, seen, cache, load>>,
           \A v \in Users : v # owner =>
              GrantsOf(v)' = GrantsOf(v) /\ \A d \in GrantsOf(v) : grant'[d] = grant[d]
    PROVE  CacheFresh' /\ LoadFresh'
  <1>1. ASSUME NEW m \in Machines, NEW u \in Users, Told(m, u)'
        PROVE  Told(m, u) /\ Found(u)' = Found(u) /\ Truth(u)' = Truth(u)
    <2>1. u \notin Evicted(c)'
      BY <1>1 DEF Told
    <2>2. u # owner
      BY <2>1
    <2>3. Found(u)' = Found(u)
      BY <2>2, FoundKept
    <2>4. Truth(u)' = Truth(u)
      BY <2>3 DEF Truth, Worth
    <2>5. Told(m, u)
      BY <1>1, <2>1, OthersTold
    <2> QED
      BY <2>3, <2>4, <2>5
  <1> QED
    BY <1>1, FreshKept DEF IInv

LEMMA CreateGrantIInv ==
    ASSUME IInv, NEW c \in Calls, CreateGrant(c)
    PROVE  IInv'
  <1>1. /\ call[c].at = "creating" /\ made < MaxGrants /\ made' = made + 1
        /\ \E u \in call[c].users : grant' = [grant EXCEPT ![made + 1] = [user |-> u, role |-> call[c].role]]
        /\ call' = [call EXCEPT ![c].at = "announcing", ![c].role = NoRole]
        /\ UNCHANGED <<roles, link, epoch, bumps, seen, cache, load, collided, removed>>
    BY DEF CreateGrant
  <1>2. call[c] \in Request
    BY DEF IInv, TypeOK
  <1>3. /\ call'[c].at = "announcing" /\ call'[c].role = NoRole
        /\ call'[c].users = call[c].users /\ \A o \in Calls : o # c => call'[o] = call[o]
    BY <1>1, <1>2 DEF IInv, TypeOK, Request
  <1>4. PICK owner \in call[c].users : \A v \in Users : v # owner =>
           GrantsOf(v)' = GrantsOf(v) /\ \A d \in GrantsOf(v) : grant'[d] = grant[d]
    BY CreateGrantStored DEF IInv
  <1>5. owner \in Users /\ owner \in Evicted(c)'
    BY <1>2, <1>3 DEF Request, Evicted
  <1>6. CacheFresh' /\ LoadFresh'
    BY <1>1, <1>3, <1>4, <1>5, GrantWritten
  <1>7. TypeOK'
    <2>1. call' \in [Calls -> Request]
      <3>1. [[call[c] EXCEPT !.at = "announcing"] EXCEPT !.role = NoRole] \in Request
        BY <1>2 DEF Request, Stages
      <3> QED
        BY <1>1, <3>1 DEF IInv, TypeOK
    <2>2. grant' \in [Ids -> Grants \union {NoGrant}]
      <3>1. PICK u \in call[c].users : grant' = [grant EXCEPT ![made + 1] = [user |-> u, role |-> call[c].role]]
        BY <1>1
      <3>2. [user |-> u, role |-> call[c].role] \in Grants
        BY <1>2 DEF Request, Grants
      <3> QED
        BY <3>1, <3>2 DEF IInv, TypeOK
    <2>3. made' \in 0..MaxGrants
      BY <1>1, AccessAssumption DEF IInv, TypeOK
    <2> QED
      BY <1>1, <2>1, <2>2, <2>3 DEF IInv, TypeOK
  <1> QED
    BY <1>6, <1>7, CreateGrantStored DEF IInv

LEMMA WriteGrantIInv ==
    ASSUME IInv, NEW c \in Calls, WriteGrant(c)
    PROVE  IInv'
  <1>1. /\ call[c].at \in {"writing", "revoking"}
        /\ \E w \in call[c].writes :
              /\ grant' = [grant EXCEPT ![w.id] = w.to]
              /\ removed' = IF w.to = NoGrant THEN removed \union {w.id} ELSE removed
              /\ call' = [call EXCEPT ![c].writes = @ \ {w}]
        /\ UNCHANGED <<made, roles, link, epoch, bumps, seen, cache, load, collided>>
    BY DEF WriteGrant
  <1>2. PICK w \in call[c].writes :
           /\ grant' = [grant EXCEPT ![w.id] = w.to]
           /\ removed' = IF w.to = NoGrant THEN removed \union {w.id} ELSE removed
           /\ call' = [call EXCEPT ![c].writes = @ \ {w}]
    BY <1>1
  <1>3. call[c] \in Request
    BY DEF IInv, TypeOK
  <1>4. /\ call'[c].at = call[c].at /\ call'[c].role = call[c].role
        /\ call'[c].users = call[c].users /\ \A o \in Calls : o # c => call'[o] = call[o]
    BY <1>1, <1>2, <1>3 DEF IInv, TypeOK, Request
  <1>5. PICK owner \in call[c].users : \A v \in Users : v # owner =>
           GrantsOf(v)' = GrantsOf(v) /\ \A d \in GrantsOf(v) : grant'[d] = grant[d]
    BY WriteGrantStored DEF IInv
  <1>6. owner \in Users /\ owner \in Evicted(c)' /\ Evicted(c)' = Evicted(c)
    BY <1>3, <1>4 DEF Request, Evicted
  <1>7. CacheFresh' /\ LoadFresh'
    BY <1>1, <1>4, <1>5, <1>6, GrantWritten
  <1>8. TypeOK'
    <2>1. call' \in [Calls -> Request]
      <3>1. [call[c] EXCEPT !.writes = @ \ {w}] \in Request
        BY <1>3 DEF Request
      <3> QED
        BY <1>2, <3>1 DEF IInv, TypeOK
    <2>2. w.id \in Ids /\ w.to \in Grants \union {NoGrant}
      BY <1>3 DEF Request, Write
    <2>3. grant' \in [Ids -> Grants \union {NoGrant}] /\ removed' \subseteq Ids
      BY <1>2, <2>2 DEF IInv, TypeOK
    <2> QED
      BY <1>1, <2>1, <2>3 DEF IInv, TypeOK
  <1> QED
    BY <1>7, <1>8, WriteGrantStored DEF IInv

\* Where a request goes on to.
LEMMA OnType ==
    ASSUME TypeOK, NEW c \in Calls, NEW stage \in {"announcing", "linking", "done"}, On(c, stage)
    PROVE  /\ call' \in [Calls -> Request]
           /\ \A o \in Calls : o # c => call'[o] = call[o]
           /\ IF stage = "done" THEN call'[c] = Over("done")
              ELSE /\ call'[c].at = stage /\ call'[c].users = call[c].users
                   /\ call'[c].role = call[c].role /\ call'[c].writes = call[c].writes
  <1>1. call[c] \in Request
    BY DEF TypeOK
  <1>2. Over("done") \in Request
    BY DEF Over, Request, Stages
  <1>3. [call[c] EXCEPT !.at = stage] \in Request
    BY <1>1 DEF Request, Stages
  <1>4. call' = [call EXCEPT ![c] = IF stage = "done" THEN Over("done") ELSE [call[c] EXCEPT !.at = stage]]
    BY DEF On
  <1>5. call' \in [Calls -> Request] /\ \A o \in Calls : o # c => call'[o] = call[o]
    BY <1>2, <1>3, <1>4 DEF TypeOK
  <1>6. call'[c] = IF stage = "done" THEN Over("done") ELSE [call[c] EXCEPT !.at = stage]
    BY <1>4 DEF TypeOK
  <1>7. [call[c] EXCEPT !.at = stage].at = stage
        /\ [call[c] EXCEPT !.at = stage].users = call[c].users
        /\ [call[c] EXCEPT !.at = stage].role = call[c].role
        /\ [call[c] EXCEPT !.at = stage].writes = call[c].writes
    BY <1>1 DEF Request
  <1> QED
    BY <1>5, <1>6, <1>7

LEMMA WrittenIInv ==
    ASSUME IInv, NEW c \in Calls, Written(c)
    PROVE  IInv'
  <1>1. /\ call[c].at = "writing" /\ roles' = roles \ {call[c].role} /\ On(c, "announcing")
        /\ UNCHANGED <<grant, made, link, epoch, bumps, seen, cache, load, collided, removed>>
    BY DEF Written
  <1>2. /\ call' \in [Calls -> Request] /\ \A o \in Calls : o # c => call'[o] = call[o]
        /\ call'[c].at = "announcing" /\ call'[c].users = call[c].users
        /\ call'[c].role = call[c].role
    BY <1>1, OnType DEF IInv
  <1>3. StoredOK'
    BY WrittenStored DEF IInv
  <1>4. TypeOK'
    BY <1>1, <1>2 DEF IInv, TypeOK
  <1>5. ASSUME NEW m \in Machines, NEW u \in Users, Told(m, u)'
        PROVE  Told(m, u) /\ Found(u)' = Found(u) /\ Truth(u)' = Truth(u)
    <2>1. Evicted(c)' = Evicted(c) /\ u \notin Evicted(c)
      BY <1>2, <1>5 DEF Evicted, Told
    <2>2. call[c].role = NoRole
      BY <2>1 DEF Evicted
    <2>3. UNCHANGED roles
      BY <1>1, <2>2, AccessAssumption DEF IInv, TypeOK
    <2>4. Told(m, u)
      BY <1>1, <1>2, <1>5, <2>1, OthersTold
    <2> QED
      BY <1>1, <2>3, <2>4, TruthKept
  <1>6. CacheFresh' /\ LoadFresh'
    BY <1>1, <1>5, FreshKept DEF IInv
  <1> QED
    BY <1>3, <1>4, <1>6 DEF IInv

LEMMA RevokedIInv ==
    ASSUME IInv, NEW c \in Calls, Revoked(c)
    PROVE  IInv'
  <1>1. /\ call[c].at = "revoking" /\ On(c, "announcing")
        /\ UNCHANGED <<grant, made, roles, link, epoch, bumps, seen, cache, load, collided, removed>>
    BY DEF Revoked, stored
  <1>2. /\ call' \in [Calls -> Request] /\ \A o \in Calls : o # c => call'[o] = call[o]
        /\ call'[c].at = "announcing" /\ call'[c].users = call[c].users
        /\ call'[c].role = call[c].role /\ call'[c].writes = call[c].writes
    BY <1>1, OnType DEF IInv
  <1>3. StoredOK'
    BY <1>1, <1>2, Quiet DEF IInv
  <1>4. TypeOK'
    BY <1>1, <1>2 DEF IInv, TypeOK
  <1>5. ASSUME NEW m \in Machines, NEW u \in Users, Told(m, u)'
        PROVE  Told(m, u)
    <2>1. u \notin Evicted(c)
      BY <1>2, <1>5 DEF Evicted, Told
    <2> QED
      BY <1>1, <1>2, <1>5, <2>1, OthersTold
  <1>6. CacheFresh' /\ LoadFresh'
    BY <1>1, <1>5, TruthKept, FreshKept DEF IInv
  <1> QED
    BY <1>3, <1>4, <1>6 DEF IInv

LEMMA RevokedSilentlyIInv ==
    ASSUME IInv, NEW c \in Calls, RevokedSilently(c)
    PROVE  IInv'
  <1>1. /\ On(c, "done") /\ Untold(load, cache)
        /\ UNCHANGED <<grant, made, roles, link, epoch, bumps, seen, collided, removed>>
    BY DEF RevokedSilently, stored
  <1>2. /\ call' \in [Calls -> Request] /\ \A o \in Calls : o # c => call'[o] = call[o]
        /\ call'[c] = Over("done")
    BY <1>1, OnType DEF IInv
  <1>3. StoredOK'
    BY <1>1, <1>2, Quiet DEF IInv
  <1>4. /\ CacheFresh' /\ LoadFresh'
        /\ cache' \in [Machines -> [Users -> Entry \union {NoEntry}]]
        /\ load' \in [Readers -> Load \union {NoLoad}]
    BY <1>1, FreshUntold DEF IInv, TypeOK
  <1>5. TypeOK'
    BY <1>1, <1>2, <1>4 DEF IInv, TypeOK
  <1> QED
    BY <1>3, <1>4, <1>5 DEF IInv

LEMMA ClearRoleIInv ==
    ASSUME IInv, NEW c \in Calls, ClearRole(c)
    PROVE  IInv'
  <1>1. /\ call[c].at = "clearing" /\ link' = [link EXCEPT ![call[c].role] = {}]
        /\ On(c, "announcing")
        /\ UNCHANGED <<grant, made, roles, epoch, bumps, seen, cache, load, collided, removed>>
    BY DEF ClearRole
  <1>2. /\ call' \in [Calls -> Request] /\ \A o \in Calls : o # c => call'[o] = call[o]
        /\ call'[c].at = "announcing" /\ call'[c].users = call[c].users
        /\ call'[c].role = call[c].role /\ call'[c].writes = call[c].writes
    BY <1>1, OnType DEF IInv
  <1>3. StoredOK'
    BY <1>1, <1>2, Quiet DEF IInv
  <1>4. TypeOK'
    BY <1>1, <1>2 DEF IInv, TypeOK
  <1>5. \A m \in Machines, u \in Users : ~ Told(m, u)'
    <2>1. call'[c].role # NoRole
      BY <1>1, <1>2 DEF IInv, StoredOK, Staged
    <2> QED
      BY <1>2, <2>1 DEF Told, Evicted
  <1>6. CacheFresh' /\ LoadFresh'
    BY <1>1, <1>5, FreshKept DEF IInv
  <1> QED
    BY <1>3, <1>4, <1>6 DEF IInv

LEMMA AnnounceIInv ==
    ASSUME IInv, NEW c \in Calls, Announce(c)
    PROVE  IInv'
  <1>1. PICK m \in Machines : Evict(m, Evicted(c))
    BY DEF Announce
  <1>2. /\ bumps' = bumps + 1 /\ bumps \in Nat
        /\ \E stage \in {"linking", "done"} : On(c, stage)
        /\ UNCHANGED <<grant, made, roles, link, epoch, seen, collided, removed>>
    BY DEF Announce, stored, IInv, TypeOK
  <1>3. PICK stage \in {"linking", "done"} : On(c, stage)
    BY <1>2
  <1>4. /\ call' \in [Calls -> Request] /\ \A o \in Calls : o # c => call'[o] = call[o]
        /\ \/ call'[c] = Over("done")
           \/ /\ call'[c].at = "linking" /\ call'[c].users = call[c].users
              /\ call'[c].writes = call[c].writes
    BY <1>3, OnType DEF IInv
  <1>5. StoredOK'
    BY <1>2, <1>4, Quiet DEF IInv
  <1>6. TypeOK'
    <2>1. /\ cache' \in [Machines -> [Users -> Entry \union {NoEntry}]]
          /\ load' \in [Readers -> Load \union {NoLoad}]
      BY <1>1, EvictType DEF IInv
    <2>2. epoch \in Nat /\ bumps' \in Nat
      BY <1>2 DEF IInv, TypeOK
    <2> QED
      BY <1>2, <1>4, <2>1, <2>2 DEF IInv, TypeOK
  <1>7. \A n \in Machines, u \in Users : ~ Told(n, u)'
    BY <1>2 DEF Told
  <1>8. CacheFresh' /\ LoadFresh'
    <2>1. \A q \in Readers : load'[q] # NoLoad => load'[q].on \in Machines /\ load'[q].user \in Users
      BY <1>6 DEF TypeOK, Load
    <2> QED
      BY <1>7, <2>1 DEF CacheFresh, LoadFresh
  <1> QED
    BY <1>5, <1>6, <1>8 DEF IInv

LEMMA LinkPermissionIInv ==
    ASSUME IInv, NEW c \in Calls, LinkPermission(c)
    PROVE  IInv'
  <1>1. /\ call[c].at = "linking" /\ Untold(load, cache)
        /\ UNCHANGED <<grant, made, roles, epoch, bumps, seen, collided, removed>>
    BY DEF LinkPermission
  <1>2. PICK p \in call[c].adds :
           /\ link' = [link EXCEPT ![call[c].role] = @ \union {p}]
           /\ IF call[c].adds = {p} THEN On(c, "done") ELSE call' = [call EXCEPT ![c].adds = @ \ {p}]
    BY DEF LinkPermission
  <1>3. call[c] \in Request
    BY DEF IInv, TypeOK
  <1>4. /\ call' \in [Calls -> Request] /\ \A o \in Calls : o # c => call'[o] = call[o]
        /\ \/ call'[c] = Over("done")
           \/ /\ call'[c].at = "linking" /\ call'[c].users = call[c].users
              /\ call'[c].writes = call[c].writes
    <2>1. CASE call[c].adds = {p}
      BY <1>2, <2>1, OnType DEF IInv
    <2>2. CASE call[c].adds # {p}
      <3>1. [call[c] EXCEPT !.adds = @ \ {p}] \in Request
        BY <1>3 DEF Request
      <3>2. call' = [call EXCEPT ![c] = [call[c] EXCEPT !.adds = @ \ {p}]]
        BY <1>2, <2>2
      <3>3. /\ [call[c] EXCEPT !.adds = @ \ {p}].at = "linking"
            /\ [call[c] EXCEPT !.adds = @ \ {p}].users = call[c].users
            /\ [call[c] EXCEPT !.adds = @ \ {p}].writes = call[c].writes
        BY <1>1, <1>3 DEF Request
      <3>4. /\ call'[c] = [call[c] EXCEPT !.adds = @ \ {p}]
            /\ \A o \in Calls : o # c => call'[o] = call[o]
        BY <3>2 DEF IInv, TypeOK
      <3>5. call' \in [Calls -> Request]
        BY <3>1, <3>2 DEF IInv, TypeOK
      <3> QED
        BY <3>3, <3>4, <3>5
    <2> QED
      BY <2>1, <2>2
  <1>5. StoredOK'
    BY <1>1, <1>4, Quiet DEF IInv
  <1>6. /\ CacheFresh' /\ LoadFresh'
        /\ cache' \in [Machines -> [Users -> Entry \union {NoEntry}]]
        /\ load' \in [Readers -> Load \union {NoLoad}]
    BY <1>1, FreshUntold DEF IInv, TypeOK
  <1>7. link' \in [Roles -> SUBSET Perms]
    <2>1. call[c].adds \subseteq Perms /\ link \in [Roles -> SUBSET Perms]
      BY <1>3 DEF Request, IInv, TypeOK
    <2> QED
      BY <1>2, <2>1
  <1>8. TypeOK'
    BY <1>1, <1>4, <1>6, <1>7 DEF IInv, TypeOK
  <1> QED
    BY <1>5, <1>6, <1>8 DEF IInv

----------------------------------------------------------------------------
(* Readers, entries and machines.                                          *)

\* A step that leaves the grants, roles and requests alone.
LEMMA StoredKept ==
    ASSUME IInv, UNCHANGED <<stored, call, collided, removed>>
    PROVE  /\ StoredOK'
           /\ \A u \in Users : Found(u)' = Found(u) /\ Truth(u)' = Truth(u)
  <1>1. UNCHANGED <<grant, made, roles, link>>
    BY DEF stored
  <1>2. StoredOK'
    BY <1>1, Quiet DEF IInv
  <1> QED
    BY <1>1, <1>2, TruthKept

\* What is told of depends on requests, bumps and epochs only.
LEMMA ToldKept ==
    ASSUME UNCHANGED <<epoch, bumps, seen, call>>
    PROVE  \A m \in Machines, u \in Users : Told(m, u)' = Told(m, u)
  BY DEF Told, Evicted

LEMMA ReadGrantIInv ==
    ASSUME IInv, NEW q \in Readers, ReadGrant(q)
    PROVE  IInv'
  <1>1. PICK m \in Machines, u \in Users :
           load' = [load EXCEPT ![q] = [on |-> m, user |-> u, found |-> Found(u), value |-> Denied,
                                        read |-> FALSE, untold |-> FALSE]]
    BY DEF ReadGrant
  <1>2. UNCHANGED <<stored, epoch, bumps, seen, cache, call, collided, removed>>
    BY DEF ReadGrant
  <1>3. StoredOK' /\ \A v \in Users : Found(v)' = Found(v) /\ Truth(v)' = Truth(v)
    BY <1>2, StoredKept
  <1>4. PICK l : /\ l \in Load /\ load' = [load EXCEPT ![q] = l]
                 /\ l.user = u /\ l.found = Found(u) /\ l.read = FALSE
    <2>1. Denied \in Values
      BY DEF Denied, Values
    <2>2. Found(u) \in Grants \union {NoGrant}
      BY FoundType DEF IInv
    <2> DEFINE l == [on |-> m, user |-> u, found |-> Found(u), value |-> Denied,
                     read |-> FALSE, untold |-> FALSE]
    <2>3. l \in Load /\ l.user = u /\ l.found = Found(u) /\ l.read = FALSE
      BY <2>1, <2>2 DEF Load
    <2>4. load' = [load EXCEPT ![q] = l]
      BY <1>1
    <2> HIDE DEF l
    <2> QED
      BY <2>3, <2>4
  <1>5. load'[q] = l /\ \A p \in Readers : p # q => load'[p] = load[p]
    BY <1>4 DEF IInv, TypeOK
  <1>6. load' \in [Readers -> Load \union {NoLoad}]
    BY <1>4 DEF IInv, TypeOK
  <1>7. TypeOK'
    BY <1>2, <1>6 DEF IInv, TypeOK, stored
  <1>8. \A n \in Machines, v \in Users : Told(n, v)' = Told(n, v)
    BY <1>2, ToldKept
  <1>9. CacheFresh'
    BY <1>2, <1>3, <1>8 DEF IInv, CacheFresh
  <1>10. LoadFresh'
    <2> SUFFICES ASSUME NEW p \in Readers, load'[p] # NoLoad, ~load'[p].untold,
                        NEW n \in Machines, n = load'[p].on,
                        NEW v \in Users, v = load'[p].user, Told(n, v)
                 PROVE  IF load'[p].read THEN load'[p].value = Truth(v)
                        ELSE load'[p].found = Found(v)
      <3>1. \A p \in Readers : load'[p] # NoLoad => load'[p].on \in Machines /\ load'[p].user \in Users
        BY <1>6 DEF Load
      <3> QED
        BY <1>3, <1>8, <3>1 DEF LoadFresh
    <2>1. CASE p = q
      BY <1>4, <1>5, <2>1
    <2>2. CASE p # q
      BY <1>5, <2>2 DEF IInv, LoadFresh
    <2> QED
      BY <2>1, <2>2
  <1> QED
    BY <1>3, <1>7, <1>9, <1>10 DEF IInv

LEMMA ReadRoleIInv ==
    ASSUME IInv, NEW q \in Readers, ReadRole(q)
    PROVE  IInv'
  <1>1. /\ load[q] # NoLoad /\ ~load[q].read
        /\ load' = [load EXCEPT ![q].found = NoGrant, ![q].value = Worth(load[q].found), ![q].read = TRUE]
        /\ UNCHANGED <<stored, epoch, bumps, seen, cache, call, collided, removed>>
    BY DEF ReadRole
  <1>2. load[q] \in Load
    BY <1>1 DEF IInv, TypeOK
  <1>3. StoredOK' /\ \A v \in Users : Found(v)' = Found(v) /\ Truth(v)' = Truth(v)
    BY <1>1, StoredKept
  <1>4. Worth(load[q].found) \in Values
    BY WorthType DEF IInv
  <1>5. PICK l : /\ l \in Load /\ load' = [load EXCEPT ![q] = l]
                 /\ l.on = load[q].on /\ l.user = load[q].user /\ l.untold = load[q].untold
                 /\ l.value = Worth(load[q].found) /\ l.read
    <2> DEFINE l == [[[load[q] EXCEPT !.found = NoGrant] EXCEPT !.value = Worth(load[q].found)] EXCEPT !.read = TRUE]
    <2>1. /\ l \in Load
          /\ l.on = load[q].on /\ l.user = load[q].user /\ l.untold = load[q].untold
          /\ l.value = Worth(load[q].found) /\ l.read
      BY <1>2, <1>4 DEF Load
    <2>2. load' = [load EXCEPT ![q] = l]
      BY <1>1 DEF IInv, TypeOK
    <2> HIDE DEF l
    <2> QED
      BY <2>1, <2>2
  <1>6. load'[q] = l /\ \A p \in Readers : p # q => load'[p] = load[p]
    BY <1>5 DEF IInv, TypeOK
  <1>7. load' \in [Readers -> Load \union {NoLoad}]
    BY <1>5 DEF IInv, TypeOK
  <1>8. TypeOK'
    BY <1>1, <1>7 DEF IInv, TypeOK, stored
  <1>9. \A n \in Machines, v \in Users : Told(n, v)' = Told(n, v)
    BY <1>1, ToldKept
  <1>10. CacheFresh'
    BY <1>1, <1>3, <1>9 DEF IInv, CacheFresh
  <1>11. LoadFresh'
    <2> SUFFICES ASSUME NEW p \in Readers, load'[p] # NoLoad, ~load'[p].untold,
                        NEW n \in Machines, n = load'[p].on,
                        NEW v \in Users, v = load'[p].user, Told(n, v)
                 PROVE  IF load'[p].read THEN load'[p].value = Truth(v)
                        ELSE load'[p].found = Found(v)
      <3>1. \A p \in Readers : load'[p] # NoLoad => load'[p].on \in Machines /\ load'[p].user \in Users
        BY <1>7 DEF Load
      <3> QED
        BY <1>3, <1>9, <3>1 DEF LoadFresh
    <2>1. CASE p = q
      <3>1. load[q].found = Found(v) /\ load'[p].read /\ load'[p].value = Worth(load[q].found)
        BY <1>1, <1>5, <1>6, <2>1 DEF IInv, LoadFresh
      <3> QED
        BY <3>1 DEF Truth
    <2>2. CASE p # q
      BY <1>6, <2>2 DEF IInv, LoadFresh
    <2> QED
      BY <2>1, <2>2
  <1> QED
    BY <1>3, <1>8, <1>10, <1>11 DEF IInv

LEMMA StoreIInv ==
    ASSUME IInv, NEW q \in Readers, Store(q)
    PROVE  IInv'
  <1>1. /\ load[q] # NoLoad /\ load[q].read
        /\ cache' = [cache EXCEPT ![load[q].on][load[q].user] =
                        [value |-> load[q].value, untold |-> load[q].untold]]
        /\ load' = [load EXCEPT ![q] = NoLoad]
        /\ UNCHANGED <<stored, epoch, bumps, seen, call, collided, removed>>
    BY DEF Store
  <1>2. load[q].on \in Machines /\ load[q].user \in Users
        /\ load[q].value \in Values /\ load[q].untold \in BOOLEAN
    BY <1>1 DEF IInv, TypeOK, Load
  <1>3. StoredOK' /\ \A v \in Users : Found(v)' = Found(v) /\ Truth(v)' = Truth(v)
    BY <1>1, StoredKept
  <1>4. PICK e : /\ e \in Entry /\ cache' = [cache EXCEPT ![load[q].on][load[q].user] = e]
                 /\ e.value = load[q].value /\ e.untold = load[q].untold
    <2> DEFINE e == [value |-> load[q].value, untold |-> load[q].untold]
    <2>1. e \in Entry /\ e.value = load[q].value /\ e.untold = load[q].untold
      BY <1>2 DEF Entry
    <2>2. cache' = [cache EXCEPT ![load[q].on][load[q].user] = e]
      BY <1>1
    <2> HIDE DEF e
    <2> QED
      BY <2>1, <2>2
  <1>5. \A m \in Machines, u \in Users :
           cache'[m][u] = IF m = load[q].on /\ u = load[q].user THEN e ELSE cache[m][u]
    BY <1>2, <1>4 DEF IInv, TypeOK
  <1>6. cache' \in [Machines -> [Users -> Entry \union {NoEntry}]]
    BY <1>2, <1>4 DEF IInv, TypeOK
  <1>7. /\ load' \in [Readers -> Load \union {NoLoad}]
        /\ \A p \in Readers : load'[p] # NoLoad => load'[p] = load[p]
    BY <1>1 DEF IInv, TypeOK
  <1>8. TypeOK'
    BY <1>1, <1>6, <1>7 DEF IInv, TypeOK, stored
  <1>9. \A n \in Machines, v \in Users : Told(n, v)' = Told(n, v)
    BY <1>1, ToldKept
  <1>10. CacheFresh'
    <2> SUFFICES ASSUME NEW m \in Machines, NEW u \in Users,
                        cache'[m][u] # NoEntry, ~cache'[m][u].untold, Told(m, u)
                 PROVE  cache'[m][u].value = Truth(u)
      BY <1>3, <1>9 DEF CacheFresh
    <2>1. CASE m = load[q].on /\ u = load[q].user
      BY <1>1, <1>4, <1>5, <2>1 DEF IInv, LoadFresh
    <2>2. CASE ~(m = load[q].on /\ u = load[q].user)
      BY <1>5, <2>2 DEF IInv, CacheFresh
    <2> QED
      BY <2>1, <2>2
  <1>11. LoadFresh'
    <2>1. \A p \in Readers : load[p] # NoLoad => load[p].on \in Machines /\ load[p].user \in Users
      BY DEF IInv, TypeOK, Load
    <2> QED
      BY <1>3, <1>7, <1>9, <2>1 DEF IInv, LoadFresh
  <1> QED
    BY <1>3, <1>8, <1>10, <1>11 DEF IInv

LEMMA RunsOutIInv ==
    ASSUME IInv, NEW m \in Machines, NEW u \in Users, RunsOut(m, u)
    PROVE  IInv'
  <1>1. /\ cache' = [cache EXCEPT ![m][u] = NoEntry]
        /\ UNCHANGED <<stored, epoch, bumps, seen, load, call, collided, removed>>
    BY DEF RunsOut
  <1>2. StoredOK' /\ \A v \in Users : Found(v)' = Found(v) /\ Truth(v)' = Truth(v)
    BY <1>1, StoredKept
  <1>3. /\ cache' \in [Machines -> [Users -> Entry \union {NoEntry}]]
        /\ \A n \in Machines, v \in Users : cache'[n][v] # NoEntry => cache'[n][v] = cache[n][v]
    BY <1>1 DEF IInv, TypeOK
  <1>4. TypeOK'
    BY <1>1, <1>3 DEF IInv, TypeOK, stored
  <1>5. \A n \in Machines, v \in Users : Told(n, v)' = Told(n, v)
    BY <1>1, ToldKept
  <1>6. CacheFresh'
    BY <1>2, <1>3, <1>5 DEF IInv, CacheFresh
  <1>7. LoadFresh'
    <2>1. \A p \in Readers : load[p] # NoLoad => load[p].on \in Machines /\ load[p].user \in Users
      BY DEF IInv, TypeOK, Load
    <2> QED
      BY <1>1, <1>2, <1>5, <2>1 DEF IInv, LoadFresh
  <1> QED
    BY <1>2, <1>4, <1>6, <1>7 DEF IInv

LEMMA BumpAppliedIInv ==
    ASSUME IInv, BumpApplied
    PROVE  IInv'
  <1>1. /\ bumps > 0 /\ bumps' = bumps - 1 /\ epoch' = epoch + 1
        /\ UNCHANGED <<stored, seen, cache, load, call, collided, removed>>
    BY DEF BumpApplied
  <1>2. epoch \in Nat /\ bumps \in Nat /\ \A m \in Machines : seen[m] \in 0..epoch
    BY DEF IInv, TypeOK
  <1>3. StoredOK' /\ \A v \in Users : Found(v)' = Found(v) /\ Truth(v)' = Truth(v)
    BY <1>1, StoredKept
  <1>4. TypeOK'
    <2>1. epoch' \in Nat /\ bumps' \in Nat
      BY <1>1, <1>2
    <2>2. seen' \in [Machines -> 0..epoch']
      <3>1. 0..epoch \subseteq 0..epoch'
        BY <1>1, <1>2
      <3> QED
        BY <1>1, <3>1 DEF IInv, TypeOK
    <2> QED
      BY <1>1, <2>1, <2>2 DEF IInv, TypeOK, stored
  <1>5. \A m \in Machines, u \in Users : ~ Told(m, u)'
    <2>1. \A m \in Machines : seen'[m] # epoch'
      BY <1>1, <1>2
    <2> QED
      BY <2>1 DEF Told
  <1>6. CacheFresh' /\ LoadFresh'
    BY <1>1, <1>5, FreshKept DEF IInv
  <1> QED
    BY <1>3, <1>4, <1>6 DEF IInv

LEMMA BumpLostIInv ==
    ASSUME IInv, BumpLost
    PROVE  IInv'
  <1>1. /\ bumps > 0 /\ bumps' = bumps - 1 /\ Untold(load, cache)
        /\ UNCHANGED <<stored, epoch, seen, call, collided, removed>>
    BY DEF BumpLost
  <1>2. StoredOK'
    BY <1>1, StoredKept
  <1>3. /\ CacheFresh' /\ LoadFresh'
        /\ cache' \in [Machines -> [Users -> Entry \union {NoEntry}]]
        /\ load' \in [Readers -> Load \union {NoLoad}]
    BY <1>1, FreshUntold DEF IInv, TypeOK
  <1>4. epoch \in Nat /\ bumps' \in Nat
    BY <1>1 DEF IInv, TypeOK
  <1>5. TypeOK'
    BY <1>1, <1>3, <1>4 DEF IInv, TypeOK, stored
  <1> QED
    BY <1>2, <1>3, <1>5 DEF IInv

LEMMA PollIInv ==
    ASSUME IInv, NEW m \in Machines, Poll(m)
    PROVE  IInv'
  <1>1. PICK e \in 0..epoch :
           /\ seen' = [seen EXCEPT ![m] = e]
           /\ IF e # seen[m] THEN Evict(m, Users) ELSE UNCHANGED <<cache, load>>
           /\ UNCHANGED <<stored, epoch, bumps, call, collided, removed>>
    BY DEF Poll
  <1>2. StoredOK' /\ \A v \in Users : Found(v)' = Found(v) /\ Truth(v)' = Truth(v)
    BY <1>1, StoredKept
  <1>3. seen' \in [Machines -> 0..epoch']
    BY <1>1 DEF IInv, TypeOK
  <1>4. CASE e = seen[m]
    <2>1. UNCHANGED <<cache, load, seen>>
      BY <1>1, <1>4 DEF IInv, TypeOK
    <2>2. TypeOK'
      BY <1>1, <2>1 DEF IInv, TypeOK, stored
    <2>3. \A n \in Machines, v \in Users : Told(n, v)' = Told(n, v)
      BY <1>1, <2>1, ToldKept
    <2>4. CacheFresh' /\ LoadFresh'
      BY <1>2, <2>1, <2>3, FreshKept DEF IInv
    <2> QED
      BY <1>2, <2>2, <2>4 DEF IInv
  <1>5. CASE e # seen[m]
    <2>1. Evict(m, Users)
      BY <1>1, <1>5
    <2>2. /\ cache' \in [Machines -> [Users -> Entry \union {NoEntry}]]
          /\ load' \in [Readers -> Load \union {NoLoad}]
          /\ \A n \in Machines, u \in Users :
                cache'[n][u] = IF n = m /\ u \in Users THEN NoEntry ELSE cache[n][u]
          /\ \A q \in Readers :
                \/ load'[q] = load[q] /\ (load[q] # NoLoad => load[q].on # m \/ load[q].user \notin Users)
                \/ load[q] # NoLoad /\ load[q].on = m /\ load'[q] \in Load /\ load'[q].untold
      BY <2>1, EvictType DEF IInv
    <2>3. TypeOK'
      BY <1>1, <1>3, <2>2 DEF IInv, TypeOK, stored
    <2>4. \A n \in Machines, v \in Users : n # m => Told(n, v)' = Told(n, v)
      <3>1. \A n \in Machines : n # m => seen'[n] = seen[n]
        BY <1>1 DEF IInv, TypeOK
      <3> QED
        BY <1>1, <3>1 DEF Told, Evicted
    <2>5. CacheFresh'
      BY <1>2, <2>2, <2>4 DEF IInv, CacheFresh
    <2>6. LoadFresh'
      <3>1. \A p \in Readers : load[p] # NoLoad => load[p].on \in Machines /\ load[p].user \in Users
        BY DEF IInv, TypeOK, Load
      <3> QED
        BY <1>2, <2>2, <2>4, <3>1 DEF IInv, LoadFresh
    <2> QED
      BY <1>2, <2>3, <2>5, <2>6 DEF IInv
  <1> QED
    BY <1>4, <1>5

LEMMA RestartIInv ==
    ASSUME IInv, NEW m \in Machines, Restart(m)
    PROVE  IInv'
  <1> DEFINE loads == [q \in Readers |-> IF load[q] # NoLoad /\ load[q].on = m THEN NoLoad ELSE load[q]]
             entries == [cache EXCEPT ![m] = [u \in Users |-> NoEntry]]
  <1>1. PICK e \in {0, epoch}, mine \in SUBSET {c \in Calls : Busy(c)} :
           /\ seen' = [seen EXCEPT ![m] = e]
           /\ call' = [c \in Calls |-> IF c \in mine THEN Over("done") ELSE call[c]]
           /\ IF \E c \in mine : call[c].at \in {"writing", "revoking", "announcing"}
              THEN Untold(loads, entries) ELSE load' = loads /\ cache' = entries
           /\ UNCHANGED <<stored, epoch, bumps, collided, removed>>
    BY DEF Restart
  <1>2. UNCHANGED <<grant, made, roles, link, epoch, bumps, collided, removed>>
    BY <1>1 DEF stored
  <1>3. \A c \in Calls : call'[c] = IF c \in mine THEN Over("done") ELSE call[c]
    BY <1>1
  <1>4. StoredOK'
    BY <1>2, <1>3, Quiet DEF IInv
  <1>5. /\ loads \in [Readers -> Load \union {NoLoad}]
        /\ entries \in [Machines -> [Users -> Entry \union {NoEntry}]]
    BY DEF IInv, TypeOK
  <1>6. \A q \in Readers : loads[q] # NoLoad => loads[q] = load[q] /\ load[q].on # m
    OBVIOUS
  <1>7. \A n \in Machines, u \in Users :
           entries[n][u] # NoEntry => n # m /\ entries[n][u] = cache[n][u]
    BY DEF IInv, TypeOK
  <1> HIDE DEF loads, entries
  <1>8. /\ CacheFresh' /\ LoadFresh'
        /\ cache' \in [Machines -> [Users -> Entry \union {NoEntry}]]
        /\ load' \in [Readers -> Load \union {NoLoad}]
    <2>1. CASE \E c \in mine : call[c].at \in {"writing", "revoking", "announcing"}
      <3>1. Untold(loads, entries)
        BY <1>1, <2>1
      <3> QED
        BY <1>5, <3>1, FreshUntold
    <2>2. CASE ~ \E c \in mine : call[c].at \in {"writing", "revoking", "announcing"}
      <3>1. load' = loads /\ cache' = entries
        BY <1>1, <2>2
      <3>2. \A u \in Users : Found(u)' = Found(u) /\ Truth(u)' = Truth(u)
        BY <1>2, TruthKept
      <3>3. ASSUME NEW n \in Machines, n # m, NEW u \in Users, Told(n, u)'
            PROVE  Told(n, u)
        <4>1. seen'[n] = seen[n]
          BY <1>1, <3>3 DEF IInv, TypeOK
        <4>2. ASSUME NEW c \in Calls, call[c].at \in {"writing", "revoking", "announcing"}
              PROVE  u \notin Evicted(c)
          <5>1. call'[c] = call[c]
            BY <1>3, <2>2, <4>2
          <5> QED
            BY <3>3, <4>2, <5>1 DEF Told, Evicted
        <4> QED
          BY <1>2, <3>3, <4>1, <4>2 DEF Told
      <3>4. CacheFresh'
        BY <1>7, <3>1, <3>2, <3>3 DEF IInv, CacheFresh
      <3>5. LoadFresh'
        <4>1. \A p \in Readers : load[p] # NoLoad => load[p].on \in Machines /\ load[p].user \in Users
          BY DEF IInv, TypeOK, Load
        <4> QED
          BY <1>6, <3>1, <3>2, <3>3, <4>1 DEF IInv, LoadFresh
      <3> QED
        BY <1>5, <3>1, <3>4, <3>5
    <2> QED
      BY <2>1, <2>2
  <1>9. call' \in [Calls -> Request]
    <2>1. Over("done") \in Request
      BY DEF Over, Request, Stages
    <2> QED
      BY <1>1, <2>1 DEF IInv, TypeOK
  <1>10. seen' \in [Machines -> 0..epoch']
    <2>1. e \in 0..epoch
      BY DEF IInv, TypeOK
    <2> QED
      BY <1>1, <1>2, <2>1 DEF IInv, TypeOK
  <1>11. TypeOK'
    BY <1>2, <1>8, <1>9, <1>10 DEF IInv, TypeOK
  <1> QED
    BY <1>4, <1>8, <1>11 DEF IInv

----------------------------------------------------------------------------
(* Every reachable state.                                                  *)

LEMMA InitIInv == Init => IInv
  <1> SUFFICES ASSUME Init PROVE IInv
    OBVIOUS
  <1>1. /\ roles = Roles /\ link = [r \in Roles |-> Perms]
        /\ epoch = 0 /\ bumps = 0 /\ seen = [m \in Machines |-> 0]
        /\ cache = [m \in Machines |-> [u \in Users |-> NoEntry]]
        /\ load = [q \in Readers |-> NoLoad]
        /\ call = [c \in Calls |-> Over("none")]
        /\ collided = {} /\ removed = {}
    BY DEF Init
  <1>2. /\ Over("none") \in Request /\ Over("none").at = "none" /\ Over("none").users = {}
        /\ Over("none").writes = {}
    BY DEF Over, Request, Stages
  <1>3. /\ grant \in [Ids -> Grants \union {NoGrant}] /\ made \in 0..MaxGrants /\ made \in 0..1
        /\ \A d \in Ids : grant[d] # NoGrant => d = 1 /\ made = 1 /\ grant[d] \in Grants /\ grant[d].role \in Roles
    <2>1. CASE grant = [d \in Ids |-> NoGrant] /\ made = 0
      BY <2>1, AccessAssumption
    <2>2. CASE \E g \in Grants : /\ g.role = Default
                                 /\ grant = [d \in Ids |-> IF d = 1 THEN g ELSE NoGrant] /\ made = 1
      BY <2>2, AccessAssumption DEF Ids
    <2> QED
      BY <2>1, <2>2 DEF Init
  <1>4. TypeOK
    BY <1>1, <1>2, <1>3 DEF TypeOK
  <1>5. Staged
    BY <1>1, <1>2 DEF Staged
  <1>6. PICK owner : Owned(owner)
    <2>1. CASE made = 0
      <3>1. Owned([d \in 1..made |-> NoGrant])
        BY <1>1, <1>2, <1>3, <2>1 DEF Owned
      <3> QED
        BY <3>1
    <2>2. CASE made = 1
      <3>1. Ids # {} /\ 1 \in Ids
        BY AccessAssumption DEF Ids
      <3>2. PICK g \in Grants : grant = [d \in Ids |-> IF d = 1 THEN g ELSE NoGrant]
        BY <2>2 DEF Init
      <3>3. Owned([d \in 1..made |-> g.user])
        BY <1>1, <1>2, <1>3, <2>2, <3>1, <3>2 DEF Owned, Grants
      <3> QED
        BY <3>3
    <2> QED
      BY <1>3, <2>1, <2>2
  <1>7. Apart(owner)
    <2>1. \A u \in Users : Single(u)
      BY <1>1, <1>3 DEF Single, GrantsOf
    <2> QED
      BY <1>1, <1>2, <2>1 DEF Apart
  <1>8. CacheFresh /\ LoadFresh
    BY <1>1 DEF CacheFresh, LoadFresh
  <1> QED
    BY <1>4, <1>5, <1>6, <1>7, <1>8 DEF IInv, StoredOK

LEMMA NextIInv ==
    ASSUME IInv, [Next]_vars
    PROVE  IInv'
  <1>1. ASSUME NEW c \in Calls,
               \/ AssignAccess(c) \/ UpdateAccess(c) \/ RevokeAccess(c) \/ DeleteUser(c)
               \/ DeleteRole(c) \/ SetRolePermissions(c)
               \/ CreateGrant(c) \/ WriteGrant(c) \/ Written(c) \/ ClearRole(c)
               \/ Revoked(c) \/ RevokedSilently(c)
               \/ Announce(c) \/ LinkPermission(c)
        PROVE  IInv'
    BY <1>1, AssignAccessIInv, UpdateAccessIInv, RevokeAccessIInv, DeleteUserIInv,
       DeleteRoleIInv, SetRolePermissionsIInv, CreateGrantIInv, WriteGrantIInv, WrittenIInv,
       RevokedIInv, RevokedSilentlyIInv, ClearRoleIInv, AnnounceIInv, LinkPermissionIInv
  <1>2. ASSUME NEW q \in Readers, ReadGrant(q) \/ ReadRole(q) \/ Store(q)
        PROVE  IInv'
    BY <1>2, ReadGrantIInv, ReadRoleIInv, StoreIInv
  <1>3. ASSUME NEW m \in Machines, NEW u \in Users, RunsOut(m, u)
        PROVE  IInv'
    BY <1>3, RunsOutIInv
  <1>4. CASE BumpApplied \/ BumpLost
    BY <1>4, BumpAppliedIInv, BumpLostIInv
  <1>5. ASSUME NEW m \in Machines, Poll(m) \/ Restart(m)
        PROVE  IInv'
    BY <1>5, PollIInv, RestartIInv
  <1>6. CASE UNCHANGED vars
    <2>1. /\ UNCHANGED <<stored, call, collided, removed>>
          /\ UNCHANGED <<grant, made, roles, link, epoch, bumps, seen, cache, load, call, collided, removed>>
      BY <1>6 DEF vars, stored
    <2>2. StoredOK' /\ \A u \in Users : Found(u)' = Found(u) /\ Truth(u)' = Truth(u)
      BY <2>1, StoredKept
    <2>3. \A m \in Machines, u \in Users : Told(m, u)' = Told(m, u)
      BY <2>1, ToldKept
    <2>4. CacheFresh' /\ LoadFresh'
      BY <2>1, <2>2, <2>3, FreshKept DEF IInv
    <2>5. TypeOK'
      BY <2>1 DEF IInv, TypeOK
    <2> QED
      BY <2>2, <2>4, <2>5 DEF IInv
  <1> QED
    BY <1>1, <1>2, <1>3, <1>4, <1>5, <1>6 DEF Next

\* The invariant holds in every reachable state, whatever machines, users,
\* roles and requests there are.
THEOREM AlwaysIInv == Spec => []IInv
  BY InitIInv, NextIInv, PTL DEF Spec

\* Grants, roles, links, epochs, entries, reads and requests keep their form:
\* rbac.service.ts, rbac-access-details-cache.ts, rbac-cache-epoch.service.ts.
THEOREM TypeCorrect == Spec => []TypeOK
  <1>1. IInv => TypeOK
    BY DEF IInv
  <1> QED
    BY <1>1, AlwaysIInv, PTL

\* An entry of a machine's cache that is not what the documents say has one of
\* the three reasons, whatever is lost and whichever machine restarts:
\* rbac-access-details-cache.ts and rbac-cache-epoch.service.ts.
THEOREM ReasonsNamed == Spec => []StaleHasReason
  <1>1. IInv => StaleHasReason
    <2> SUFFICES ASSUME IInv, NEW m \in Machines, NEW u \in Users,
                        cache[m][u] # NoEntry, cache[m][u].value # Truth(u),
                        ~(\E c \in Calls : call[c].at \in {"writing", "revoking", "announcing"} /\ u \in Evicted(c)),
                        ~(bumps > 0), seen[m] = epoch
                 PROVE  cache[m][u].untold
      BY DEF StaleHasReason
    <2>1. bumps = 0
      BY DEF IInv, TypeOK
    <2>2. Told(m, u)
      BY <2>1 DEF Told
    <2> QED
      BY <2>2 DEF IInv, CacheFresh
  <1> QED
    BY <1>1, AlwaysIInv, PTL

\* A user about whom no two requests overlapped has one grant at most, none
\* removed and none of a deleted role, wherever a request died:
\* assignAccess, updateAccess, revokeAccess, deleteUser, deleteRole of
\* rbac.service.ts.
THEOREM GrantsStaySound == Spec => []GrantsSound
  <1>1. IInv => GrantsSound
    <2> SUFFICES ASSUME IInv, NEW u \in Users \ collided
                 PROVE  /\ Cardinality(GrantsOf(u)) <= 1
                        /\ GrantsOf(u) \intersect removed = {}
                        /\ \A d \in GrantsOf(u) : grant[d].role \in roles \union {NoRole}
      BY DEF GrantsSound
    <2>1. Single(u)
      BY DEF IInv, StoredOK, Apart
    <2>2. Cardinality(GrantsOf(u)) <= 1
      <3>1. CASE GrantsOf(u) = {}
        BY <3>1, FS_EmptySet
      <3>2. ASSUME NEW d \in GrantsOf(u)
            PROVE  Cardinality(GrantsOf(u)) <= 1
        <4>1. GrantsOf(u) = {d}
          BY <2>1 DEF Single
        <4> QED
          BY <4>1, FS_Singleton
      <3> QED
        BY <3>1, <3>2
    <2> QED
      BY <2>1, <2>2 DEF Single
  <1> QED
    BY <1>1, AlwaysIInv, PTL
=============================================================================
