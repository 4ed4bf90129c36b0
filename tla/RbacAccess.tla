------------------------------ MODULE RbacAccess ------------------------------
(***************************************************************************)
(* Grants, roles and the cache of resolved access of one app: rbac/        *)
(* rbac.service.ts, rbac-bridge.service.ts, rbac-access-details-cache.ts,  *)
(* rbac-cache-epoch.service.ts.                                            *)
(*                                                                         *)
(* Several machines answer requests; each keeps what it resolved for a     *)
(* user until the entry runs out.  A request that changes grants or roles  *)
(* evicts the entries of its own machine and bumps an epoch in the         *)
(* database; every machine polls the epoch and clears its cache when it    *)
(* has changed.  Grants, roles and their permission links are documents    *)
(* read and written one by one: a step is one of these, or what follows    *)
(* an answer.  save writes whole documents and inserts what it does not    *)
(* find.  Custom permissions, products and expiry dates are left out.      *)
(***************************************************************************)
EXTENDS Integers, FiniteSets, FiniteSetsExt

CONSTANTS Machines,
          Users,
          Roles,
          Default,       \* the role whose isDefault is set
          Perms,         \* permissions of the app
          Calls,         \* bound: requests that change something, each made once
          Readers,       \* requests that ask for access, made again and again
          MaxGrants,     \* bound: grants ever created
          NoGrant, NoRole, NoLoad, NoEntry

ASSUME AccessAssumption ==
    /\ Default \in Roles
    /\ MaxGrants \in Nat \ {0}
    /\ NoRole \notin Roles

VARIABLES grant,      \* the grant documents, by id
          made,       \* grants created so far
          roles,      \* the role documents
          link,       \* the permission links of each role
          epoch,      \* the epoch document
          bumps,      \* bumps sent and not yet applied
          seen,       \* lastSeenEpoch of each machine
          cache,      \* RbacAccessDetailsCache of each machine
          load,       \* reads of the access of a user under way
          call,       \* requests that change something
          collided,   \* history: users two overlapping requests were about
          removed     \* history: grants that were removed

stored == <<grant, made, roles, link>>
vars == <<stored, epoch, bumps, seen, cache, load, call, collided, removed>>

Ids == 1..MaxGrants
Grants == [user : Users, role : Roles \union {NoRole}]
Values == [hasAccess : BOOLEAN, permissions : SUBSET Perms]
Denied == [hasAccess |-> FALSE, permissions |-> {}]
Stages == {"none", "creating", "writing", "revoking", "clearing", "announcing", "linking", "done"}

Entry == [value : Values, untold : BOOLEAN]
Load == [on : Machines, user : Users, found : Grants \union {NoGrant},
         value : Values, read : BOOLEAN, untold : BOOLEAN]
Write == [id : Ids, to : Grants \union {NoGrant}]
Request == [at : Stages, users : SUBSET Users, role : Roles \union {NoRole},
            writes : SUBSET Write, adds : SUBSET Perms]

TypeOK ==
    /\ grant \in [Ids -> Grants \union {NoGrant}] /\ made \in 0..MaxGrants
    /\ roles \subseteq Roles /\ link \in [Roles -> SUBSET Perms]
    /\ {epoch, bumps} \subseteq Nat
    /\ seen \in [Machines -> 0..epoch]
    /\ cache \in [Machines -> [Users -> Entry \union {NoEntry}]]
    /\ load \in [Readers -> Load \union {NoLoad}]
    /\ call \in [Calls -> Request]
    /\ collided \subseteq Users /\ removed \subseteq Ids

\* A request that is over, or has not been made.
Over(stage) == [at |-> stage, users |-> {}, role |-> NoRole, writes |-> {}, adds |-> {}]

\* The app has its roles, and a user may have the default one.
Init ==
    /\ \/ grant = [d \in Ids |-> NoGrant] /\ made = 0
       \/ \E g \in Grants : /\ g.role = Default
                            /\ grant = [d \in Ids |-> IF d = 1 THEN g ELSE NoGrant] /\ made = 1
    /\ roles = Roles /\ link = [r \in Roles |-> Perms]
    /\ epoch = 0 /\ bumps = 0
    /\ seen = [m \in Machines |-> 0]
    /\ cache = [m \in Machines |-> [u \in Users |-> NoEntry]]
    /\ load = [q \in Readers |-> NoLoad]
    /\ call = [c \in Calls |-> Over("none")]
    /\ collided = {} /\ removed = {}

-----------------------------------------------------------------------------
GrantsOf(u) == {d \in Ids : grant[d] # NoGrant /\ grant[d].user = u}

\* findOne by user and app.
Found(u) == IF GrantsOf(u) = {} THEN NoGrant ELSE grant[Min(GrantsOf(u))]

\* What a grant is worth now: the links of its role, if there is such a role.
Worth(g) ==
    IF g = NoGrant THEN Denied
    ELSE [hasAccess |-> TRUE, permissions |-> IF g.role \in roles THEN link[g.role] ELSE {}]

\* What resolveAccessDetails would answer now.
Truth(u) == Worth(Found(u))

Busy(c) == call[c].at \notin {"none", "done"}

\* History: two requests about one user overlap.
Collide(c, users) ==
    collided' = collided \union {u \in users : \E o \in Calls \ {c} : Busy(o) /\ u \in call[o].users}

\* History: what entries and loads hold from now on may be untold, because a
\* change is made, or lost, that no epoch will tell of.
Untold(loads, entries) ==
    /\ load' = [q \in Readers |-> IF loads[q] = NoLoad THEN NoLoad ELSE [loads[q] EXCEPT !.untold = TRUE]]
    /\ cache' = [m \in Machines |-> [u \in Users |->
          IF entries[m][u] = NoEntry THEN NoEntry ELSE [entries[m][u] EXCEPT !.untold = TRUE]]]

\* Entries of the users are dropped on machine m; loads under way are not,
\* and will be stored all the same.
Evict(m, users) ==
    /\ cache' = [cache EXCEPT ![m] = [u \in Users |-> IF u \in users THEN NoEntry ELSE @[u]]]
    /\ load' = [q \in Readers |-> IF load[q] # NoLoad /\ load[q].on = m /\ load[q].user \in users
                                  THEN [load[q] EXCEPT !.untold = TRUE] ELSE load[q]]

\* A request has read what it needs and goes on.
Begin(c, stage, users, role, writes, adds) ==
    /\ call[c].at = "none"
    /\ call' = [call EXCEPT ![c] = [at |-> stage, users |-> users, role |-> role,
                                    writes |-> writes, adds |-> adds]]
    /\ Collide(c, users)
    /\ UNCHANGED <<stored, epoch, bumps, seen, cache, load, removed>>

\* A bug: the check for an existing grant is dropped.
AssignUnchecked(c) ==
    /\ made < MaxGrants
    /\ \E u \in Users, r \in roles \union {NoRole} : Begin(c, "creating", {u}, r, {}, {})

\* assignAccess and ensureAppAccess: refused if the user has a grant.
AssignAccess(c) ==
    /\ made < MaxGrants
    /\ \E u \in Users, r \in roles \union {NoRole} : Found(u) = NoGrant /\ Begin(c, "creating", {u}, r, {}, {})

\* updateAccess: a copy of the grant with another role.
UpdateAccess(c) ==
    \E d \in Ids, r \in roles \union {NoRole} :
        /\ grant[d] # NoGrant
        /\ Begin(c, "writing", {grant[d].user}, NoRole, {[id |-> d, to |-> [grant[d] EXCEPT !.role = r]]}, {})

\* revokeAccess, of one grant.
RevokeAccess(c) ==
    \E d \in Ids : grant[d] # NoGrant /\
        Begin(c, "revoking", {grant[d].user}, NoRole, {[id |-> d, to |-> NoGrant]}, {})

\* deleteUser, of all the grants of a user; without any, nothing is announced.
DeleteUser(c) ==
    \E u \in Users : GrantsOf(u) # {} /\
        Begin(c, "writing", {u}, NoRole, {[id |-> d, to |-> NoGrant] : d \in GrantsOf(u)}, {})

\* deleteRole: the grants of the role go to the default role, or to none.
DeleteRole(c) ==
    \E r \in roles :
        LET with == {d \in Ids : grant[d] # NoGrant /\ grant[d].role = r}
            to == IF Default \in roles /\ Default # r THEN Default ELSE NoRole
        IN Begin(c, "writing", Users, r, {[id |-> d, to |-> [grant[d] EXCEPT !.role = to]] : d \in with}, {})

\* setRolePermissions; a code that does not exist is found out later.
SetRolePermissions(c) == \E r \in roles, P \in SUBSET Perms : Begin(c, "clearing", {}, r, {}, P)

-----------------------------------------------------------------------------
\* A request goes on to a stage; or is over.
On(c, stage) == call' = [call EXCEPT ![c] = IF stage = "done" THEN Over("done") ELSE [@ EXCEPT !.at = stage]]

\* The grant is created under the next id.
CreateGrant(c) ==
    /\ call[c].at = "creating" /\ made < MaxGrants
    /\ made' = made + 1
    /\ \E u \in call[c].users : grant' = [grant EXCEPT ![made + 1] = [user |-> u, role |-> call[c].role]]
    /\ call' = [call EXCEPT ![c].at = "announcing", ![c].role = NoRole]
    /\ UNCHANGED <<roles, link, epoch, bumps, seen, cache, load, collided, removed>>

\* One of the grants a request saves or removes is written, in any order.
WriteGrant(c) ==
    /\ call[c].at \in {"writing", "revoking"}
    /\ \E w \in call[c].writes :
          /\ grant' = [grant EXCEPT ![w.id] = w.to]
          /\ removed' = IF w.to = NoGrant THEN removed \union {w.id} ELSE removed
          /\ call' = [call EXCEPT ![c].writes = @ \ {w}]
    /\ UNCHANGED <<made, roles, link, epoch, bumps, seen, cache, load, collided>>

\* All are written; a role to be deleted goes last.
Written(c) ==
    /\ call[c].at = "writing" /\ call[c].writes = {}
    /\ roles' = roles \ {call[c].role}
    /\ On(c, "announcing")
    /\ UNCHANGED <<grant, made, link, epoch, bumps, seen, cache, load, collided, removed>>

\* revokeAccess looks the code of the app up, among the active apps this
\* machine has read.
Revoked(c) ==
    /\ call[c].at = "revoking" /\ call[c].writes = {}
    /\ On(c, "announcing")
    /\ UNCHANGED <<stored, epoch, bumps, seen, cache, load, collided, removed>>

\* The app is inactive, or new to this machine: the revocation is announced to
\* nobody, not even to the cache of the machine that made it.
RevokedSilently(c) ==
    /\ call[c].at = "revoking" /\ call[c].writes = {}
    /\ On(c, "done")
    /\ Untold(load, cache)
    /\ UNCHANGED <<stored, epoch, bumps, seen, collided, removed>>

\* setRolePermissions deletes the links of the role.
ClearRole(c) ==
    /\ call[c].at = "clearing"
    /\ link' = [link EXCEPT ![call[c].role] = {}]
    /\ On(c, "announcing")
    /\ UNCHANGED <<grant, made, roles, epoch, bumps, seen, cache, load, collided, removed>>

\* Whose entries a request evicts: those of its users, or of the whole app.
Evicted(c) == IF call[c].role # NoRole THEN Users ELSE call[c].users

\* A bug: the entries of this machine are dropped and nobody else is told.
AnnounceLocally(c) ==
    /\ call[c].at = "announcing"
    /\ \E m \in Machines : Evict(m, Evicted(c))
    /\ \/ On(c, "done")
       \/ call[c].adds # {} /\ On(c, "linking")
    /\ UNCHANGED <<stored, epoch, bumps, seen, collided, removed>>

\* The changes are announced: evicted on the machine that serves the request,
\* whichever it is, and an epoch bump sent, which nobody waits for.  Only then does setRolePermissions look its codes up; it
\* throws if one is unknown.
Announce(c) ==
    /\ call[c].at = "announcing"
    /\ \E m \in Machines : Evict(m, Evicted(c))
    /\ bumps' = bumps + 1
    /\ \/ On(c, "done")
       \/ call[c].adds # {} /\ On(c, "linking")
    /\ UNCHANGED <<stored, epoch, seen, collided, removed>>

\* A link of setRolePermissions is created; no announcement follows.
LinkPermission(c) ==
    /\ call[c].at = "linking"
    /\ \E p \in call[c].adds :
          /\ link' = [link EXCEPT ![call[c].role] = @ \union {p}]
          /\ IF call[c].adds = {p} THEN On(c, "done") ELSE call' = [call EXCEPT ![c].adds = @ \ {p}]
    /\ Untold(load, cache)
    /\ UNCHANGED <<grant, made, roles, epoch, bumps, seen, collided, removed>>

-----------------------------------------------------------------------------
\* userAccessDetails finds no entry and reads the grant.
ReadGrant(q) ==
    /\ load[q] = NoLoad
    /\ \E m \in Machines, u \in Users :
          /\ cache[m][u] = NoEntry
          /\ load' = [load EXCEPT ![q] = [on |-> m, user |-> u, found |-> Found(u), value |-> Denied,
                                          read |-> FALSE, untold |-> FALSE]]
    /\ UNCHANGED <<stored, epoch, bumps, seen, cache, call, collided, removed>>

\* The role of the grant and its links are read.
ReadRole(q) ==
    /\ load[q] # NoLoad /\ ~load[q].read
    /\ load' = [load EXCEPT ![q].found = NoGrant, ![q].value = Worth(load[q].found), ![q].read = TRUE]
    /\ UNCHANGED <<stored, epoch, bumps, seen, cache, call, collided, removed>>

\* What was resolved is stored, whatever was evicted meanwhile.
Store(q) ==
    /\ load[q] # NoLoad /\ load[q].read
    /\ cache' = [cache EXCEPT ![load[q].on][load[q].user] =
                    [value |-> load[q].value, untold |-> load[q].untold]]
    /\ load' = [load EXCEPT ![q] = NoLoad]
    /\ UNCHANGED <<stored, epoch, bumps, seen, call, collided, removed>>

\* A bug: entries never run out.
RunsOutNever(m, u) == FALSE /\ UNCHANGED vars

\* Forty-five seconds have passed since an entry was stored, or the cache was
\* pruned.
RunsOut(m, u) ==
    /\ cache[m][u] # NoEntry
    /\ cache' = [cache EXCEPT ![m][u] = NoEntry]
    /\ UNCHANGED <<stored, epoch, bumps, seen, load, call, collided, removed>>

-----------------------------------------------------------------------------
\* A bump reaches the database, or fails and is only logged.
BumpApplied ==
    /\ bumps > 0 /\ bumps' = bumps - 1 /\ epoch' = epoch + 1
    /\ UNCHANGED <<stored, seen, cache, load, call, collided, removed>>

BumpLost ==
    /\ bumps > 0 /\ bumps' = bumps - 1
    /\ Untold(load, cache)
    /\ UNCHANGED <<stored, epoch, seen, call, collided, removed>>

\* A bug: the epoch last seen is counted on instead of remembered.
PollCounts(m) ==
    \E e \in 0..epoch :
        /\ seen' = [seen EXCEPT ![m] = IF e # seen[m] THEN seen[m] + 1 ELSE @]
        /\ IF e # seen[m] THEN Evict(m, Users) ELSE UNCHANGED <<cache, load>>
        /\ UNCHANGED <<stored, epoch, bumps, call, collided, removed>>

\* pollOnce: the cache is cleared if the epoch read is not the one last seen.
\* Polls overlap and are answered in any order, so that what is looked at may
\* be any epoch there has been; a poll that fails changes nothing.
Poll(m) ==
    \E e \in 0..epoch :
        /\ seen' = [seen EXCEPT ![m] = e]
        /\ IF e # seen[m] THEN Evict(m, Users) ELSE UNCHANGED <<cache, load>>
        /\ UNCHANGED <<stored, epoch, bumps, call, collided, removed>>

\* A machine restarts: its cache, its reads and the requests that run on it
\* are gone, those that had not announced what they wrote without an
\* announcement.  If it cannot read the epoch, it starts from 0.
Restart(m) ==
    LET loads == [q \in Readers |-> IF load[q] # NoLoad /\ load[q].on = m THEN NoLoad ELSE load[q]]
        entries == [cache EXCEPT ![m] = [u \in Users |-> NoEntry]]
    IN /\ \E e \in {0, epoch} : seen' = [seen EXCEPT ![m] = e]
       /\ \E mine \in SUBSET {c \in Calls : Busy(c)} :
             /\ call' = [c \in Calls |-> IF c \in mine THEN Over("done") ELSE call[c]]
             /\ IF \E c \in mine : call[c].at \in {"writing", "revoking", "announcing"}
                THEN Untold(loads, entries) ELSE load' = loads /\ cache' = entries
       /\ UNCHANGED <<stored, epoch, bumps, collided, removed>>

-----------------------------------------------------------------------------
Next ==
    \/ \E c \in Calls :
          \/ AssignAccess(c) \/ UpdateAccess(c) \/ RevokeAccess(c) \/ DeleteUser(c)
          \/ DeleteRole(c) \/ SetRolePermissions(c)
          \/ CreateGrant(c) \/ WriteGrant(c) \/ Written(c) \/ ClearRole(c)
          \/ Revoked(c) \/ RevokedSilently(c)
          \/ Announce(c) \/ LinkPermission(c)
    \/ \E q \in Readers : ReadGrant(q) \/ ReadRole(q) \/ Store(q)
    \/ \E m \in Machines, u \in Users : RunsOut(m, u)
    \/ BumpApplied \/ BumpLost
    \/ \E m \in Machines : Poll(m) \/ Restart(m)

\* A read of the access of a user ends and an entry runs out.  Nothing else is
\* assumed: bumps may fail, polls may fail, requests that change something may
\* die half way.
Fairness ==
    /\ \A q \in Readers : WF_vars(ReadRole(q) \/ Store(q))
    /\ \A m \in Machines, u \in Users : WF_vars(RunsOut(m, u))

Spec == Init /\ [][Next]_vars /\ Fairness

-----------------------------------------------------------------------------
\* An entry that is not what the documents say has one of three reasons: a
\* change is written and not yet announced, its epoch is still on its way to
\* this machine, or nothing will ever tell the machine: the bump failed, the
\* machine that made the change died, a grant of an app it does not list was
\* revoked, the permission links came after the announcement, or the entry was
\* being read while its machine cleared.
StaleHasReason ==
    \A m \in Machines, u \in Users :
        cache[m][u] # NoEntry /\ cache[m][u].value # Truth(u) =>
            \/ \E c \in Calls : call[c].at \in {"writing", "revoking", "announcing"} /\ u \in Evicted(c)
            \/ bumps > 0 \/ seen[m] # epoch
            \/ cache[m][u].untold

\* Unless two requests about a user overlapped, the user has one grant at
\* most, none that was removed, and none of a role that was deleted, wherever
\* a request died.
GrantsSound ==
    \A u \in Users \ collided :
        /\ Cardinality(GrantsOf(u)) <= 1
        /\ GrantsOf(u) \intersect removed = {}
        /\ \A d \in GrantsOf(u) : grant[d].role \in roles \union {NoRole}

\* Whatever is lost, every machine comes to serve what the documents say.
AgreesAtLast ==
    <>[](\A m \in Machines, u \in Users :
            cache[m][u] # NoEntry => cache[m][u].value = Truth(u))
=============================================================================
