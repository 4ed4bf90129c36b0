------------------------ MODULE JobAllocationProofs ------------------------
(* For any requests, quantities and allowance: the audit trail agrees with *)
(* the allocations, but for those an outdated copy was saved over, and     *)
(* allocations keep within the allowance, but for those stored after       *)
(* others had come to count since their check.                             *)
EXTENDS JobAllocation, TLAPS, FiniteSetTheorems, WellFoundedInduction, SequenceTheorems

----------------------------------------------------------------------------
(* Adding up quantities.  Quantity is a fold, and what a fold is for every *)
(* finite set is shown by looking at a smallest set for which it would not *)
(* be so.                                                                  *)

LEMMA SmallestSet ==
    ASSUME NEW S, IsFiniteSet(S), NEW C \in SUBSET SUBSET S, C # {}
    PROVE  \E T \in C : \A U \in C : U \subseteq T => U = T
  <1>1. IsWellFoundedOn(StrictSubsetOrdering(S), SUBSET S)
    BY FS_StrictSubsetOrderingWellFounded, FS_FiniteSubsetsOfFinite
  <1>2. PICK T \in C : \A U \in C : ~ (<<U, T>> \in StrictSubsetOrdering(S))
    BY <1>1, WFMin
  <1>3. \A U \in C : U \subseteq T /\ U # T => <<U, T>> \in StrictSubsetOrdering(S)
    BY DEF StrictSubsetOrdering
  <1>4. \A U \in C : U \subseteq T => U = T
    BY <1>2, <1>3
  <1> QED
    BY <1>4

\* The fold, as its definition has it: a function on the subsets.
Adds(f, docs, S) ==
    f = [s \in SUBSET S |->
           IF s = {} THEN 0 ELSE LET d == CHOOSE x \in s : TRUE IN docs[d].qty + f[s \ {d}]]

Adder(docs, S) == CHOOSE f : Adds(f, docs, S)

LEMMA QuantityIs ==
    ASSUME NEW docs, NEW S
    PROVE  Quantity(docs, S) = Adder(docs, S)[S]
  BY DEF Quantity, MapThenSumSet, MapThenFoldSet, Adder, Adds

Settled(docs, T) ==
    /\ Adds(Adder(docs, T), docs, T)
    /\ \A U \in SUBSET T : Adder(docs, T)[U] = Quantity(docs, U)

LEMMA AllSettled ==
    ASSUME NEW docs, NEW S, IsFiniteSet(S)
    PROVE  \A T \in SUBSET S : Settled(docs, T)
  <1> DEFINE C == {T \in SUBSET S : ~ Settled(docs, T)}
  <1> SUFFICES ASSUME C # {} PROVE FALSE
    OBVIOUS
  <1>1. PICK T \in C : \A U \in C : U \subseteq T => U = T
    <2>1. C \in SUBSET SUBSET S /\ C # {}
      OBVIOUS
    <2> HIDE DEF C
    <2> QED
      BY <2>1, SmallestSet
  <1>2. T \in SUBSET S /\ ~ Settled(docs, T)
    OBVIOUS
  <1>3. \A U \in SUBSET T : U # T => Settled(docs, U)
    BY <1>1
  <1> HIDE DEF C
  <1> DEFINE next(s) == LET d == CHOOSE x \in s : TRUE IN docs[d].qty + Quantity(docs, s \ {d})
             g == [s \in SUBSET T |-> IF s = {} THEN 0 ELSE next(s)]
  <1>4. \A s : s # {} => (CHOOSE x \in s : TRUE) \in s
    OBVIOUS
  <1>5. ASSUME NEW U \in SUBSET T, U # T
        PROVE  Quantity(docs, U) = g[U]
    <2>1. Settled(docs, U)
      BY <1>3, <1>5
    <2>2. Adder(docs, U)[U] =
             IF U = {} THEN 0
             ELSE LET d == CHOOSE x \in U : TRUE IN docs[d].qty + Adder(docs, U)[U \ {d}]
      BY <2>1 DEF Settled, Adds
    <2>3. \A d : Adder(docs, U)[U \ {d}] = Quantity(docs, U \ {d})
      BY <2>1 DEF Settled
    <2> QED
      BY <2>2, <2>3, QuantityIs
  <1>6. Adds(g, docs, T)
    <2>1. ASSUME NEW s \in SUBSET T, s # {}
          PROVE  LET d == CHOOSE x \in s : TRUE IN Quantity(docs, s \ {d}) = g[s \ {d}]
      BY <1>4, <1>5, <2>1
    <2>2. \A s \in SUBSET T : g[s] = IF s = {} THEN 0 ELSE next(s)
      OBVIOUS
    <2>3. \A s \in SUBSET T : s # {} =>
             next(s) = LET d == CHOOSE x \in s : TRUE IN docs[d].qty + g[s \ {d}]
      BY <2>1
    <2>4. g = [s \in SUBSET T |-> g[s]]
      OBVIOUS
    <2> HIDE DEF g, next
    <2>5. \A s \in SUBSET T : g[s] =
             IF s = {} THEN 0 ELSE LET d == CHOOSE x \in s : TRUE IN docs[d].qty + g[s \ {d}]
      BY <2>2, <2>3
    <2> QED
      BY <2>4, <2>5 DEF Adds
  <1>7. Adds(Adder(docs, T), docs, T)
    BY <1>6 DEF Adder
  <1> DEFINE f == Adder(docs, T)
             D == {U \in SUBSET T : f[U] # Quantity(docs, U)}
  <1>8. CASE D = {}
    BY <1>2, <1>7, <1>8 DEF Settled
  <1>9. CASE D # {}
    <2>1. IsFiniteSet(T) /\ D \in SUBSET SUBSET T
      BY <1>2, FS_Subset
    <2>2. PICK U \in D : \A V \in D : V \subseteq U => V = U
      <3> HIDE DEF D
      <3> QED
        BY <1>9, <2>1, SmallestSet
    <2>3. U \in SUBSET T /\ f[U] # Quantity(docs, U)
      OBVIOUS
    <2>4. \A V \in SUBSET U : V # U => f[V] = Quantity(docs, V)
      BY <2>2
    <2> HIDE DEF D
    <2>5. f[U] = IF U = {} THEN 0
                 ELSE LET d == CHOOSE x \in U : TRUE IN docs[d].qty + f[U \ {d}]
      BY <1>7, <2>3 DEF Adds
    <2>6. U # T
      BY <2>3, QuantityIs
    <2>7. Quantity(docs, U) = IF U = {} THEN 0 ELSE next(U)
      BY <1>5, <2>3, <2>6
    <2>8. U # {} => LET d == CHOOSE x \in U : TRUE IN f[U \ {d}] = Quantity(docs, U \ {d})
      BY <1>4, <2>4
    <2> QED
      BY <2>3, <2>5, <2>7, <2>8
  <1> QED
    BY <1>8, <1>9

\* One document less at a time, as CHOOSE would have it.
LEMMA QuantityNext ==
    ASSUME NEW docs, NEW S, IsFiniteSet(S)
    PROVE  Quantity(docs, S) =
              IF S = {} THEN 0
              ELSE LET d == CHOOSE x \in S : TRUE IN docs[d].qty + Quantity(docs, S \ {d})
  <1>1. Settled(docs, S)
    BY AllSettled
  <1>2. Adder(docs, S)[S] =
           IF S = {} THEN 0
           ELSE LET d == CHOOSE x \in S : TRUE IN docs[d].qty + Adder(docs, S)[S \ {d}]
    BY <1>1 DEF Settled, Adds
  <1>3. \A d : Adder(docs, S)[S \ {d}] = Quantity(docs, S \ {d})
    BY <1>1 DEF Settled
  <1> QED
    BY <1>2, <1>3, QuantityIs

LEMMA QuantityEmpty ==
    ASSUME NEW docs
    PROVE  Quantity(docs, {}) = 0
  BY QuantityNext, FS_EmptySet

Quantified(docs, S) == \A d \in S : docs[d].qty \in Nat

LEMMA QuantityNat ==
    ASSUME NEW docs, NEW S, IsFiniteSet(S), Quantified(docs, S)
    PROVE  Quantity(docs, S) \in Nat
  <1> DEFINE C == {T \in SUBSET S : Quantity(docs, T) \notin Nat}
  <1> SUFFICES ASSUME C # {} PROVE FALSE
    OBVIOUS
  <1>1. PICK T \in C : \A U \in C : U \subseteq T => U = T
    <2>1. C \in SUBSET SUBSET S /\ C # {}
      OBVIOUS
    <2> HIDE DEF C
    <2> QED
      BY <2>1, SmallestSet
  <1>2. IsFiniteSet(T) /\ T \in SUBSET S /\ Quantity(docs, T) \notin Nat
    BY FS_Subset
  <1>3. T # {}
    BY <1>2, QuantityEmpty
  <1>4. PICK d \in T : Quantity(docs, T) = docs[d].qty + Quantity(docs, T \ {d})
    BY <1>2, <1>3, QuantityNext
  <1>5. Quantity(docs, T \ {d}) \in Nat
    BY <1>1
  <1> HIDE DEF C
  <1>6. docs[d].qty \in Nat
    BY <1>2 DEF Quantified
  <1> QED
    BY <1>2, <1>4, <1>5, <1>6

\* Which document is taken out makes no difference.
LEMMA QuantityWithout ==
    ASSUME NEW docs, NEW S, IsFiniteSet(S), Quantified(docs, S), NEW d \in S
    PROVE  Quantity(docs, S) = docs[d].qty + Quantity(docs, S \ {d})
  <1> DEFINE Holds(T) == \A e \in T : Quantity(docs, T) = docs[e].qty + Quantity(docs, T \ {e})
             C == {T \in SUBSET S : ~ Holds(T)}
  <1> SUFFICES ASSUME C # {} PROVE FALSE
    OBVIOUS
  <1>1. PICK T \in C : \A U \in C : U \subseteq T => U = T
    <2>1. C \in SUBSET SUBSET S /\ C # {}
      OBVIOUS
    <2> HIDE DEF C
    <2> QED
      BY <2>1, SmallestSet
  <1>2. T \in SUBSET S /\ ~ Holds(T)
    OBVIOUS
  <1>3. \A U \in SUBSET T : U # T => Holds(U)
    BY <1>1
  <1> HIDE DEF C
  <1>4. IsFiniteSet(T) /\ \A U \in SUBSET T : IsFiniteSet(U) /\ Quantity(docs, U) \in Nat
    <2>1. \A U \in SUBSET S : IsFiniteSet(U)
      BY FS_Subset
    <2>2. \A U \in SUBSET S : Quantified(docs, U)
      BY DEF Quantified
    <2> QED
      BY <1>2, <2>1, <2>2, QuantityNat
  <1>5. PICK e \in T : Quantity(docs, T) # docs[e].qty + Quantity(docs, T \ {e})
    BY <1>2
  <1>6. PICK c \in T : Quantity(docs, T) = docs[c].qty + Quantity(docs, T \ {c})
    BY <1>4, QuantityNext
  <1>7. c # e
    BY <1>5, <1>6
  <1>8. Quantity(docs, T \ {c}) = docs[e].qty + Quantity(docs, (T \ {c}) \ {e})
    BY <1>3, <1>7
  <1>9. Quantity(docs, T \ {e}) = docs[c].qty + Quantity(docs, (T \ {e}) \ {c})
    BY <1>3, <1>7
  <1>10. (T \ {c}) \ {e} = (T \ {e}) \ {c}
    OBVIOUS
  <1>11. /\ docs[c].qty \in Nat /\ docs[e].qty \in Nat
         /\ Quantity(docs, (T \ {e}) \ {c}) \in Nat
    BY <1>2, <1>4 DEF Quantified
  <1> HIDE DEF Holds
  <1> QED
    BY <1>5, <1>6, <1>8, <1>9, <1>10, <1>11

LEMMA QuantityWith ==
    ASSUME NEW docs, NEW S, IsFiniteSet(S), NEW d, d \notin S, Quantified(docs, S \union {d})
    PROVE  Quantity(docs, S \union {d}) = docs[d].qty + Quantity(docs, S)
  <1>1. IsFiniteSet(S \union {d})
    BY FS_AddElement
  <1>2. (S \union {d}) \ {d} = S
    OBVIOUS
  <1> QED
    BY <1>1, <1>2, QuantityWithout

Alike(docs, others, R) == \A d \in R : others[d].qty = docs[d].qty

\* Of documents some may be gone, as long as the others keep their quantity.
LEMMA QuantityWithin ==
    ASSUME NEW docs, NEW others, NEW S, IsFiniteSet(S), Quantified(docs, S), NEW R \in SUBSET S,
           Alike(docs, others, R)
    PROVE  Quantity(others, R) <= Quantity(docs, S) /\ (R = S => Quantity(others, R) = Quantity(docs, S))
  <1> DEFINE Holds(T) ==
                /\ Quantity(others, T \intersect R) <= Quantity(docs, T)
                /\ T \subseteq R => Quantity(others, T) = Quantity(docs, T)
             C == {T \in SUBSET S : ~ Holds(T)}
  <1>1. CASE C = {}
    <2>1. Holds(S) /\ S \intersect R = R
      BY <1>1
    <2> QED
      BY <2>1
  <1>2. CASE C # {}
    <2>1. PICK T \in C : \A U \in C : U \subseteq T => U = T
      <3>1. C \in SUBSET SUBSET S /\ C # {}
        BY <1>2
      <3> HIDE DEF C
      <3> QED
        BY <3>1, SmallestSet
    <2>2. T \in SUBSET S /\ ~ Holds(T)
      OBVIOUS
    <2>3. \A U \in SUBSET T : U # T => Holds(U)
      BY <2>1
    <2> HIDE DEF C
    <2>4. /\ IsFiniteSet(T) /\ IsFiniteSet(T \intersect R)
          /\ Quantified(docs, T) /\ Quantified(others, T \intersect R)
      <3>1. IsFiniteSet(T) /\ IsFiniteSet(T \intersect R)
        BY <2>2, FS_Subset
      <3> QED
        BY <2>2, <3>1 DEF Quantified, Alike
    <2>5. T # {}
      <3> SUFFICES ASSUME T = {} PROVE FALSE
        OBVIOUS
      <3>1. Quantity(others, T) = 0 /\ Quantity(docs, T) = 0
        BY QuantityEmpty
      <3>2. T \intersect R = T
        OBVIOUS
      <3>3. Quantity(others, T \intersect R) = 0
        BY <3>1, <3>2
      <3> QED
        BY <2>2, <3>1, <3>3
    <2>6. PICK d \in T : TRUE
      BY <2>5
    <2>7. Quantity(docs, T) = docs[d].qty + Quantity(docs, T \ {d}) /\ docs[d].qty \in Nat
      BY <2>4, QuantityWithout DEF Quantified
    <2>8. Holds(T \ {d})
      BY <2>3
    <2>9. Quantity(docs, T \ {d}) \in Nat /\ Quantity(others, (T \ {d}) \intersect R) \in Nat
      <3>1. /\ IsFiniteSet(T \ {d}) /\ IsFiniteSet((T \ {d}) \intersect R)
            /\ Quantified(docs, T \ {d}) /\ Quantified(others, (T \ {d}) \intersect R)
        BY <2>4, FS_Subset DEF Quantified
      <3> QED
        BY <3>1, QuantityNat
    <2> DEFINE less == Quantity(docs, T \ {d})
               lesser == Quantity(others, (T \ {d}) \intersect R)
    <2>10. /\ less \in Nat /\ lesser \in Nat /\ lesser <= less
           /\ Quantity(docs, T) = docs[d].qty + less
      BY <2>7, <2>8, <2>9
    <2>11. CASE d \in R
      <3>1. Quantity(others, T \intersect R) =
               others[d].qty + Quantity(others, (T \intersect R) \ {d})
        BY <2>4, <2>11, QuantityWithout
      <3>2. (T \intersect R) \ {d} = (T \ {d}) \intersect R /\ others[d].qty = docs[d].qty
        BY <2>11 DEF Alike
      <3>3. Quantity(others, T \intersect R) = docs[d].qty + lesser
        BY <3>1, <3>2
      <3>4. T \subseteq R => lesser = less /\ Quantity(others, T) = Quantity(others, T \intersect R)
        <4>1. T \subseteq R => T \intersect R = T /\ (T \ {d}) \intersect R = T \ {d} /\ T \ {d} \subseteq R
          OBVIOUS
        <4> QED
          BY <2>8, <4>1
      <3> HIDE DEF less, lesser
      <3>5. Quantity(others, T \intersect R) <= Quantity(docs, T)
        BY <2>7, <2>10, <3>3
      <3>6. T \subseteq R => Quantity(others, T) = Quantity(docs, T)
        BY <2>10, <3>3, <3>4
      <3> QED
        BY <2>2, <3>5, <3>6
    <2>12. CASE d \notin R
      <3>1. T \intersect R = (T \ {d}) \intersect R /\ ~ (T \subseteq R)
        BY <2>12
      <3>2. Quantity(others, T \intersect R) = lesser
        BY <3>1
      <3> HIDE DEF less, lesser
      <3>3. Quantity(others, T \intersect R) <= Quantity(docs, T)
        BY <2>7, <2>10, <3>2
      <3> QED
        BY <2>2, <3>1, <3>3
    <2> QED
      BY <2>11, <2>12
  <1> QED
    BY <1>1, <1>2

----------------------------------------------------------------------------
(* The audit trail: what movements of a type add up to for an allocation.  *)

Of(ms, type, ref) == {m \in DOMAIN ms : ms[m].type = type /\ ms[m].ref = ref}

\* Taken for an allocation and not put back.
Net(ms, ref) == Quantity(ms, Of(ms, "OUT", ref)) - Quantity(ms, Of(ms, "IN", ref))

LEMMA OfIsFinite ==
    ASSUME NEW ms \in Seq(Movement), NEW type, NEW ref
    PROVE  /\ IsFiniteSet(Of(ms, type, ref))
           /\ Quantified(ms, Of(ms, type, ref))
           /\ Quantity(ms, Of(ms, type, ref)) \in Nat
           /\ Of(ms, type, ref) \subseteq 1 .. Len(ms)
  <1>1. Len(ms) \in Nat /\ DOMAIN ms = 1 .. Len(ms) /\ \A m \in 1 .. Len(ms) : ms[m] \in Movement
    BY LenProperties, ElementOfSeq
  <1>2. Of(ms, type, ref) \subseteq 1 .. Len(ms)
    BY <1>1 DEF Of
  <1>3. IsFiniteSet(1 .. Len(ms))
    BY <1>1, FS_Interval
  <1>4. IsFiniteSet(Of(ms, type, ref))
    BY <1>2, <1>3, FS_Subset
  <1>5. Quantified(ms, Of(ms, type, ref))
    BY <1>1, <1>2 DEF Quantified, Movement
  <1> QED
    BY <1>2, <1>4, <1>5, QuantityNat

LEMMA AppendQuantity ==
    ASSUME NEW ms \in Seq(Movement), NEW move \in Movement, NEW type, NEW ref
    PROVE  LET more == Append(ms, move)
           IN  Quantity(more, Of(more, type, ref)) =
                  Quantity(ms, Of(ms, type, ref))
                    + IF move.type = type /\ move.ref = ref THEN move.qty ELSE 0
  <1> DEFINE more == Append(ms, move)
             n == Len(ms) + 1
             old == Of(ms, type, ref)
             new == Of(more, type, ref)
  <1>1. /\ more \in Seq(Movement) /\ Len(more) = n /\ DOMAIN more = 1 .. n
        /\ DOMAIN ms = 1 .. Len(ms) /\ Len(ms) \in Nat
        /\ \A m \in 1 .. Len(ms) : more[m] = ms[m]
        /\ more[n] = move
    BY AppendProperties, LenProperties
  <1> HIDE DEF more
  <1>2. n \notin old /\ \A m \in old : more[m] = ms[m]
    BY <1>1 DEF Of
  <1>3. /\ IsFiniteSet(old) /\ Quantified(ms, old)
        /\ Quantity(ms, old) \in Nat
    BY OfIsFinite
  <1> HIDE DEF old
  <1>4. Quantity(more, old) = Quantity(ms, old)
    <2>1. old \in SUBSET old /\ Alike(ms, more, old)
      BY <1>2 DEF Alike
    <2> QED
      BY <1>3, <2>1, QuantityWithin
  <1>5. CASE move.type = type /\ move.ref = ref
    <2>1. new = old \union {n}
      BY <1>1, <1>5 DEF Of, old
    <2>2. Quantified(more, new)
      BY <1>1, OfIsFinite
    <2>3. Quantity(more, old \union {n}) = more[n].qty + Quantity(more, old)
      BY <1>2, <1>3, <2>1, <2>2, QuantityWith
    <2>4. move.qty \in Nat
      BY DEF Movement
    <2> QED
      BY <1>1, <1>3, <1>4, <1>5, <2>1, <2>3, <2>4 DEF more, old
  <1>6. CASE ~ (move.type = type /\ move.ref = ref)
    <2>1. new = old
      BY <1>1, <1>6 DEF Of, old
    <2> QED
      BY <1>3, <1>4, <1>6, <2>1 DEF more, old
  <1> QED
    BY <1>5, <1>6

\* What one more movement changes about an allocation.
Effect(move, ref) ==
    IF move.ref # ref \/ move.type = "ADJUSTMENT" THEN 0
    ELSE IF move.type = "OUT" THEN move.qty ELSE 0 - move.qty

LEMMA AppendNet ==
    ASSUME NEW ms \in Seq(Movement), NEW move \in Movement, NEW ref
    PROVE  Net(Append(ms, move), ref) = Net(ms, ref) + Effect(move, ref) /\ Net(ms, ref) \in Int
  <1> DEFINE more == Append(ms, move)
             out == Quantity(ms, Of(ms, "OUT", ref))
             back == Quantity(ms, Of(ms, "IN", ref))
             out2 == Quantity(more, Of(more, "OUT", ref))
             back2 == Quantity(more, Of(more, "IN", ref))
  <1>1. out2 = out + IF move.type = "OUT" /\ move.ref = ref THEN move.qty ELSE 0
    BY AppendQuantity
  <1>2. back2 = back + IF move.type = "IN" /\ move.ref = ref THEN move.qty ELSE 0
    BY AppendQuantity
  <1>3. out \in Nat /\ back \in Nat
    BY OfIsFinite
  <1>4. move.qty \in Nat /\ move.type \in MovementType
    BY DEF Movement
  <1>5. Net(ms, ref) = out - back /\ Net(more, ref) = out2 - back2
    BY DEF Net
  <1> HIDE DEF out, back, out2, back2, more
  <1>6. Net(more, ref) = Net(ms, ref) + Effect(move, ref) /\ Net(ms, ref) \in Int
    BY <1>1, <1>2, <1>3, <1>4, <1>5 DEF Effect, MovementType
  <1> QED
    BY <1>6 DEF more

\* Nothing is recorded yet for an allocation that no movement refers to.
LEMMA NoNet ==
    ASSUME NEW ms \in Seq(Movement), NEW ref, \A m \in DOMAIN ms : ms[m].ref # ref
    PROVE  Net(ms, ref) = 0
  <1>1. Of(ms, "OUT", ref) = {} /\ Of(ms, "IN", ref) = {}
    BY DEF Of
  <1>2. Quantity(ms, {}) = 0
    BY QuantityEmpty
  <1>3. Net(ms, ref) = Quantity(ms, {}) - Quantity(ms, {})
    BY <1>1 DEF Net
  <1> QED
    BY <1>2, <1>3

----------------------------------------------------------------------------
(* The inductive invariant.                                                *)

\* A document never waits for a manager after a manager refused it, unless an
\* outdated copy was saved over it.
Sound(d) == d.pending => ~d.rejected

DocsOK == \A a \in DOMAIN alloc \ stale : Sound(alloc[a])

\* A document that waits for a manager, or once did: no save changes that,
\* since those of a decision set a date that no later save removes.
Waited(d) == d.pending \/ d.rejected \/ d.approved

\* What a document stays, whatever is saved over it.
Same(c, d) == c.qty = d.qty /\ (c.packs <=> d.packs) /\ (Waited(c) <=> Waited(d))

\* What a request checked of the copy it read is still true of the copy, and
\* the allocations it counted still have the quantities it added up.
RequestOK(r, docs) ==
    /\ r.kind \in Operation =>
          /\ r.id \in DOMAIN docs
          /\ Same(r.copy, docs[r.id])
          /\ r.kind \in {"approve", "reject"} => r.copy.pending
          /\ r.kind \in {"undo", "deallocate"} => ~r.copy.undone
    /\ r.kind = "allocate" =>
          /\ r.counted \subseteq DOMAIN docs
          /\ ~r.pending => Quantity(docs, r.counted) + r.qty <= Allowed

RequestsOK == \A w \in Workers : RequestOK(request[w], alloc)

RefsOK == \A m \in DOMAIN movements : movements[m].ref <= Len(alloc)

\* What a document says of the stock: its quantity was taken when it stands,
\* and given back when it was undone, be it that it never was taken.
Held(d) == (IF ~d.pending /\ ~d.rejected THEN d.qty ELSE 0) - (IF d.undone THEN d.qty ELSE 0)

Flow == \A a \in DOMAIN alloc \ stale : Net(movements, a) = Held(alloc[a])

\* Allocations the allowance is about.
Counts(d) == ~d.packs /\ ~d.pending /\ ~d.rejected /\ ~d.approved

Counted(docs, ot) == {a \in DOMAIN docs \ ot : Counts(docs[a])}

Within(docs, ot) == Quantity(docs, Counted(docs, ot)) <= Allowed

LEMMA AllowanceIs == AllowanceHeld <=> Within(alloc, overtaken)
  <1>1. Counted(alloc, overtaken) = {a \in DOMAIN alloc \ overtaken :
                                        /\ ~alloc[a].packs
                                        /\ ~alloc[a].pending
                                        /\ ~alloc[a].rejected
                                        /\ ~alloc[a].approved}
    BY DEF Counted, Counts
  <1> QED
    BY <1>1 DEF AllowanceHeld, Within

IInv == TypeOK /\ DocsOK /\ RequestsOK /\ RefsOK /\ Flow /\ Within(alloc, overtaken)

LEMMA InitIInv == Init => IInv
  <1> SUFFICES ASSUME Init PROVE IInv
    OBVIOUS
  <1>1. /\ alloc = << >> /\ movements = << >> /\ stale = {} /\ overtaken = {} /\ stock = Opening
        /\ request = [w \in Workers |-> Idle]
    BY DEF Init
  <1>2. DOMAIN alloc = {} /\ DOMAIN movements = {}
    BY <1>1
  <1>3. Idle \in Request /\ Idle.kind \notin Operation /\ Idle.kind # "allocate"
    BY DEF Idle, Request, Operation
  <1>4. TypeOK
    BY <1>1, <1>2, <1>3, EmptySeq, StockAssumption DEF TypeOK
  <1>5. DocsOK /\ RefsOK /\ Flow
    BY <1>2 DEF DocsOK, RefsOK, Flow
  <1>6. RequestsOK
    BY <1>1, <1>3 DEF RequestsOK, RequestOK
  <1>7. Within(alloc, overtaken)
    <2>1. Counted(alloc, overtaken) = {}
      BY <1>2 DEF Counted
    <2>2. Quantity(alloc, {}) = 0
      BY QuantityEmpty
    <2> QED
      BY <2>1, <2>2, StockAssumption DEF Within
  <1> QED
    BY <1>4, <1>5, <1>6, <1>7 DEF IInv

----------------------------------------------------------------------------
(* What the parts of a step keep.                                          *)

LEMMA RequestTyped ==
    ASSUME NEW r \in Request
    PROVE  /\ r.kind \in Operation => r.id \in Nat /\ r.copy \in Allocation
           /\ r.kind = "allocate" => /\ r.qty \in Quantities /\ r.pending \in BOOLEAN
                                     /\ r.counted \in SUBSET Nat
  BY DEF Request, Operation

LEMMA AllocTyped ==
    ASSUME TypeOK
    PROVE  /\ DOMAIN alloc = 1 .. Len(alloc) /\ Len(alloc) \in Nat
           /\ \A a \in DOMAIN alloc : alloc[a] \in Allocation /\ alloc[a].qty \in Nat
           /\ \A S \in SUBSET DOMAIN alloc : /\ IsFiniteSet(S) /\ Quantified(alloc, S)
                                             /\ Quantity(alloc, S) \in Nat
  <1>1. alloc \in Seq(Allocation)
    BY DEF TypeOK
  <1>2. DOMAIN alloc = 1 .. Len(alloc) /\ Len(alloc) \in Nat
    BY <1>1, LenProperties
  <1>3. \A a \in DOMAIN alloc : alloc[a] \in Allocation
    BY <1>1, <1>2, ElementOfSeq
  <1>4. \A a \in DOMAIN alloc : alloc[a].qty \in Nat
    BY <1>3, QuantitiesAssumption DEF Allocation
  <1>5. \A S \in SUBSET DOMAIN alloc : IsFiniteSet(S)
    <2>1. IsFiniteSet(DOMAIN alloc)
      BY <1>2, FS_Interval
    <2> QED
      BY <2>1, FS_Subset
  <1>6. \A S \in SUBSET DOMAIN alloc : Quantified(alloc, S)
    BY <1>4 DEF Quantified
  <1> QED
    BY <1>2, <1>3, <1>4, <1>5, <1>6, QuantityNat

\* Documents are added and saved over; what requests know of them stays true.
Keeping(docs, others) ==
    \A a \in DOMAIN docs : a \in DOMAIN others /\ Same(others[a], docs[a])

LEMMA StillOK ==
    ASSUME TypeOK, NEW r, RequestOK(r, alloc), Keeping(alloc, alloc')
    PROVE  RequestOK(r, alloc')
  <1>1. CASE r.kind = "allocate"
    <2>1. r.counted \in SUBSET DOMAIN alloc /\ r.counted \subseteq DOMAIN alloc'
      BY <1>1 DEF RequestOK, Keeping
    <2>2. IsFiniteSet(r.counted) /\ Quantified(alloc, r.counted)
      BY <2>1, AllocTyped
    <2>3. Alike(alloc, alloc', r.counted)
      BY <2>1 DEF Alike, Keeping, Same
    <2>4. Quantity(alloc', r.counted) = Quantity(alloc, r.counted)
      BY <2>2, <2>3, QuantityWithin
    <2> QED
      BY <1>1, <2>1, <2>4 DEF RequestOK, Operation
  <1>2. CASE r.kind # "allocate"
    BY <1>2 DEF RequestOK, Keeping, Same
  <1> QED
    BY <1>1, <1>2

LEMMA KeepsRequests ==
    ASSUME TypeOK, RequestsOK, NEW w \in Workers, NEW r \in Request, RequestOK(r, alloc),
           request' = [request EXCEPT ![w] = r], Keeping(alloc, alloc')
    PROVE  request' \in [Workers -> Request] /\ RequestsOK'
  <1>1. request' \in [Workers -> Request]
    BY DEF TypeOK
  <1>2. \A v \in Workers : request'[v] = IF v = w THEN r ELSE request[v]
    BY DEF TypeOK
  <1>3. \A v \in Workers : RequestOK(request'[v], alloc)
    BY <1>2 DEF RequestsOK
  <1>4. \A v \in Workers : RequestOK(request'[v], alloc')
    BY <1>3, StillOK
  <1> QED
    BY <1>1, <1>4 DEF RequestsOK

LEMMA KeepsOthers ==
    ASSUME TypeOK, RequestsOK, UNCHANGED request, Keeping(alloc, alloc')
    PROVE  request' \in [Workers -> Request] /\ RequestsOK'
  <1>1. \A v \in Workers : RequestOK(request[v], alloc')
    BY StillOK DEF RequestsOK
  <1> QED
    BY <1>1 DEF RequestsOK, TypeOK

LEMMA KeepsNothingNew ==
    ASSUME UNCHANGED alloc
    PROVE  Keeping(alloc, alloc')
  BY DEF Keeping, Same

LEMMA IdleIsRequest == Idle \in Request /\ \A docs : RequestOK(Idle, docs)
  BY DEF Idle, Request, RequestOK, Operation

LEMMA RecordKeeps ==
    ASSUME TypeOK, RefsOK, NEW type \in MovementType, NEW qty \in Nat, NEW ref \in Nat,
           Record(type, qty, ref), Len(alloc) <= Len(alloc'), ref <= Len(alloc'),
           Len(alloc') \in Nat,
           NEW move, move = [type |-> type, qty |-> qty, ref |-> ref]
    PROVE  /\ movements' \in Seq(Movement)
           /\ RefsOK'
           /\ move \in Movement
           /\ movements' = Append(movements, move)
           /\ \A a : /\ Net(movements', a) = Net(movements, a) + Effect(move, a)
                     /\ Net(movements, a) \in Int
  <1>1. move \in Movement /\ movements \in Seq(Movement) /\ alloc \in Seq(Allocation)
    BY DEF Movement, TypeOK
  <1>2. movements' = Append(movements, move)
    BY DEF Record
  <1>3. /\ movements' \in Seq(Movement) /\ Len(movements') = Len(movements) + 1
        /\ \A m \in 1 .. Len(movements) : movements'[m] = movements[m]
        /\ movements'[Len(movements) + 1] = move
    BY <1>1, <1>2, AppendProperties
  <1>4. /\ DOMAIN movements = 1 .. Len(movements) /\ Len(movements) \in Nat
        /\ DOMAIN movements' = 1 .. (Len(movements) + 1)
        /\ Len(alloc) \in Nat
    BY <1>1, <1>3, LenProperties
  <1>5. \A m \in 1 .. Len(movements) : movements[m].ref \in Nat
    <2>1. \A m \in 1 .. Len(movements) : movements[m] \in Movement
      BY <1>1, ElementOfSeq
    <2> QED
      BY <2>1 DEF Movement
  <1>6. ASSUME NEW m \in DOMAIN movements'
        PROVE  movements'[m].ref <= Len(alloc')
    <2>1. CASE m \in 1 .. Len(movements)
      BY <1>3, <1>4, <1>5, <2>1 DEF RefsOK
    <2>2. CASE m = Len(movements) + 1
      BY <1>3, <2>2
    <2> QED
      BY <1>4, <2>1, <2>2
  <1>7. RefsOK'
    BY <1>6 DEF RefsOK
  <1>8. \A a : /\ Net(movements', a) = Net(movements, a) + Effect(move, a)
               /\ Net(movements, a) \in Int
    BY <1>1, <1>2, AppendNet
  <1> QED
    BY <1>1, <1>2, <1>3, <1>7, <1>8

\* What a save leaves keeps the dates that are stored already.
LEMMA KeptIs ==
    ASSUME NEW c \in Allocation, NEW stored \in Allocation, Same(c, stored)
    PROVE  Kept(c, stored) \in Allocation /\ Same(Kept(c, stored), stored)
  <1> DEFINE k == Kept(c, stored)
  <1>1. /\ c.rejected \in BOOLEAN /\ c.approved \in BOOLEAN /\ c.issued \in BOOLEAN
        /\ stored.rejected \in BOOLEAN /\ stored.approved \in BOOLEAN
        /\ stored.issued \in BOOLEAN
    BY DEF Allocation
  <1>2. /\ k \in Allocation /\ k.qty = c.qty /\ k.packs = c.packs /\ k.pending = c.pending
        /\ k.rejected = (c.rejected \/ stored.rejected)
        /\ k.approved = (c.approved \/ stored.approved)
    BY <1>1 DEF Kept, Allocation
  <1> HIDE DEF k
  <1>3. Same(k, stored)
    BY <1>2 DEF Same, Waited
  <1> QED
    BY <1>2, <1>3 DEF k

\* A saved copy is that of the document read, with nothing it said taken back;
\* where it is not stale, it is what is stored afterwards.
Changed(w, copy) ==
    /\ Sound(request[w].copy) => Sound(copy)
    /\ Same(copy, request[w].copy)
    /\ request[w].copy.rejected => copy.rejected
    /\ request[w].copy.approved => copy.approved
    /\ request[w].copy.issued => copy.issued

LEMMA KeptAsSaved ==
    ASSUME NEW w, NEW copy \in Allocation, request[w].copy \in Allocation, Changed(w, copy)
    PROVE  Kept(copy, request[w].copy) = copy
  <1> DEFINE c == request[w].copy
  <1>1. c \in Allocation /\ (c.rejected => copy.rejected) /\ (c.approved => copy.approved)
        /\ (c.issued => copy.issued)
    BY DEF Changed
  <1> HIDE DEF c
  <1>2. /\ (copy.rejected \/ c.rejected) = copy.rejected
        /\ (copy.approved \/ c.approved) = copy.approved
        /\ (copy.issued \/ c.issued) = copy.issued
    BY <1>1 DEF Allocation
  <1>3. Kept(copy, c) = copy
    BY <1>2 DEF Kept, Allocation
  <1> QED
    BY <1>3 DEF c

LEMMA SaveKeeps ==
    ASSUME IInv, NEW w \in Workers, request[w].kind \in Operation,
           NEW copy \in Allocation, Changed(w, copy), SaveCopy(w, copy)
    PROVE  /\ alloc' \in Seq(Allocation) /\ Len(alloc') = Len(alloc)
           /\ DOMAIN alloc' = DOMAIN alloc
           /\ request[w].id \in DOMAIN alloc
           /\ \A a \in DOMAIN alloc : a # request[w].id => alloc'[a] = alloc[a]
           /\ stale \subseteq stale' /\ stale' \subseteq DOMAIN alloc'
           /\ overtaken' \subseteq DOMAIN alloc'
           /\ request[w].id \notin stale' => /\ alloc[request[w].id] = request[w].copy
                                             /\ alloc'[request[w].id] = copy
                                             /\ Sound(request[w].copy)
           /\ request' \in [Workers -> Request]
           /\ DocsOK' /\ RequestsOK'
           /\ Within(alloc', overtaken')
  <1> DEFINE id == request[w].id
             saved == Kept(copy, alloc[id])
  <1>1. TypeOK /\ RequestsOK /\ DocsOK /\ Within(alloc, overtaken)
    BY DEF IInv
  <1>2. /\ id \in DOMAIN alloc /\ alloc[id] \in Allocation
        /\ request[w].copy \in Allocation /\ Same(request[w].copy, alloc[id])
    <2>1. RequestOK(request[w], alloc) /\ request[w] \in Request
      BY <1>1 DEF RequestsOK, TypeOK
    <2>2. id \in DOMAIN alloc /\ Same(request[w].copy, alloc[id]) /\ request[w].copy \in Allocation
      BY <2>1, RequestTyped DEF RequestOK
    <2> QED
      BY <1>1, <2>2, AllocTyped
  <1>3. /\ alloc' = [alloc EXCEPT ![id] = saved]
        /\ stale' = IF alloc[id] # request[w].copy THEN stale \union {id} ELSE stale
        /\ overtaken' = overtaken
        /\ request' = [request EXCEPT ![w] = Idle]
    BY <1>2 DEF SaveCopy, Finish
  <1>4. saved \in Allocation /\ Same(saved, alloc[id])
    <2>1. Same(copy, alloc[id])
      BY <1>2 DEF Changed, Same
    <2> QED
      BY <1>2, <2>1, KeptIs
  <1>5. alloc[id] = request[w].copy => saved = copy
    BY <1>2, KeptAsSaved
  <1> HIDE DEF id, saved
  <1>6. /\ alloc' \in Seq(Allocation) /\ Len(alloc') = Len(alloc)
        /\ \A a \in 1 .. Len(alloc) : alloc'[a] = IF a = id THEN saved ELSE alloc[a]
    BY <1>1, <1>2, <1>3, <1>4, AllocTyped, ExceptSeq DEF TypeOK
  <1>7. DOMAIN alloc' = DOMAIN alloc /\ DOMAIN alloc = 1 .. Len(alloc)
    BY <1>1, <1>6, AllocTyped, LenProperties
  <1>8. alloc'[id] = saved /\ \A a \in DOMAIN alloc : a # id => alloc'[a] = alloc[a]
    BY <1>2, <1>6, <1>7
  <1>9. /\ stale \subseteq stale' /\ stale' \subseteq DOMAIN alloc'
        /\ overtaken' \subseteq DOMAIN alloc'
        /\ id \notin stale' => alloc[id] = request[w].copy /\ id \notin stale
    BY <1>1, <1>2, <1>3, <1>7 DEF TypeOK
  <1>10. id \notin stale' => /\ alloc'[id] = copy
                             /\ Sound(request[w].copy) /\ Sound(copy)
    BY <1>1, <1>2, <1>5, <1>8, <1>9 DEF DocsOK, Changed
  <1>11. DocsOK'
    BY <1>1, <1>7, <1>8, <1>9, <1>10 DEF DocsOK
  <1>12. \A a \in DOMAIN alloc : Same(alloc'[a], alloc[a])
    BY <1>4, <1>8 DEF Same
  <1>13. request' \in [Workers -> Request] /\ RequestsOK'
    <2>1. Idle \in Request /\ RequestOK(Idle, alloc) /\ Keeping(alloc, alloc')
      BY <1>7, <1>12, IdleIsRequest DEF Keeping
    <2> QED
      BY <1>1, <1>3, <2>1, KeepsRequests
  <1>14. Within(alloc', overtaken')
    <2> DEFINE counted == Counted(alloc, overtaken)
    <2>1. Counted(alloc', overtaken') = counted
      BY <1>3, <1>7, <1>12 DEF Counted, Counts, Same, Waited
    <2>2. counted \in SUBSET DOMAIN alloc
      BY DEF Counted
    <2>3. Quantity(alloc, counted) <= Allowed
      BY <1>1 DEF Within
    <2> HIDE DEF counted
    <2>4. IsFiniteSet(counted) /\ Quantified(alloc, counted)
      BY <1>1, <2>2, AllocTyped
    <2>5. Alike(alloc, alloc', counted)
      BY <1>12, <2>2 DEF Alike, Same
    <2>6. Quantity(alloc', counted) = Quantity(alloc, counted)
      BY <2>4, <2>5, QuantityWithin
    <2> QED
      BY <2>1, <2>3, <2>6 DEF Within
  <1> QED
    BY <1>2, <1>6, <1>7, <1>8, <1>9, <1>10, <1>11, <1>13, <1>14 DEF id

\* What the movement of a save changes is what the copy it saves changes.
LEMMA SaveKeepsFlow ==
    ASSUME IInv, NEW w \in Workers, request[w].kind \in Operation,
           NEW copy \in Allocation, Changed(w, copy), SaveCopy(w, copy),
           \A a : a # request[w].id => Net(movements', a) = Net(movements, a),
           Sound(request[w].copy) /\ Net(movements, request[w].id) = Held(request[w].copy)
             => Net(movements', request[w].id) = Held(copy)
    PROVE  Flow'
  <1> DEFINE id == request[w].id
  <1>1. /\ DOMAIN alloc' = DOMAIN alloc /\ stale \subseteq stale'
        /\ \A a \in DOMAIN alloc : a # id => alloc'[a] = alloc[a]
        /\ id \notin stale' => /\ alloc[id] = request[w].copy /\ alloc'[id] = copy
                               /\ Sound(request[w].copy)
    BY SaveKeeps
  <1>2. Flow
    BY DEF IInv
  <1>3. ASSUME NEW a \in DOMAIN alloc', a \notin stale'
        PROVE  Net(movements', a) = Held(alloc'[a])
    <2>1. Net(movements, a) = Held(alloc[a])
      BY <1>1, <1>2, <1>3 DEF Flow
    <2>2. CASE a = id
      BY <1>1, <1>3, <2>1, <2>2
    <2>3. CASE a # id
      BY <1>1, <1>3, <2>1, <2>3
    <2> QED
      BY <2>2, <2>3
  <1> QED
    BY <1>3 DEF Flow

----------------------------------------------------------------------------
(* Requests that save a copy.                                              *)

\* The copies that are saved.
LEMMA Copies ==
    ASSUME NEW c \in Allocation
    PROVE  LET approved == [c EXCEPT !.pending = FALSE, !.approved = TRUE]
               rejected == [c EXCEPT !.pending = FALSE, !.rejected = TRUE]
               undone   == [c EXCEPT !.undone = TRUE]
               issued   == [c EXCEPT !.issued = TRUE]
           IN  /\ {approved, rejected, undone, issued} \subseteq Allocation
               /\ \A d \in {approved, rejected, undone, issued} :
                     /\ d.qty = c.qty /\ (d.packs <=> c.packs)
                     /\ (c.rejected => d.rejected) /\ (c.approved => d.approved)
                     /\ (c.issued => d.issued)
               /\ c.pending => Same(approved, c) /\ Same(rejected, c)
               /\ Same(undone, c) /\ Same(issued, c)
               /\ Sound(approved) /\ Sound(rejected)
               /\ Sound(c) => Sound(undone) /\ Sound(issued)
  BY DEF Allocation, Same, Waited, Sound

LEMMA Holds ==
    ASSUME NEW c \in Allocation
    PROVE  LET approved == [c EXCEPT !.pending = FALSE, !.approved = TRUE]
               rejected == [c EXCEPT !.pending = FALSE, !.rejected = TRUE]
               undone   == [c EXCEPT !.undone = TRUE]
               issued   == [c EXCEPT !.issued = TRUE]
           IN  /\ c.pending /\ Sound(c) => Held(approved) = Held(c) + c.qty
               /\ c.pending => Held(rejected) = Held(c)
               /\ ~c.undone => Held(undone) = Held(c) - c.qty
               /\ Held(issued) = Held(c)
               /\ Held(c) \in Int /\ c.qty \in Nat
  <1>1. c.qty \in Nat
    BY QuantitiesAssumption DEF Allocation
  <1> QED
    BY <1>1 DEF Allocation, Held, Sound

\* A request about an allocation, as the invariant has it.
LEMMA RequestFacts ==
    ASSUME IInv, NEW w \in Workers, request[w].kind \in Operation
    PROVE  /\ request[w].copy \in Allocation /\ request[w].copy.qty \in Nat
           /\ request[w].id \in DOMAIN alloc /\ request[w].id \in Nat /\ request[w].id # 0
           /\ request[w].id <= Len(alloc)
           /\ request[w].kind \in {"approve", "reject"} => request[w].copy.pending
           /\ request[w].kind \in {"undo", "deallocate"} => ~request[w].copy.undone
  <1>1. TypeOK /\ RequestsOK
    BY DEF IInv
  <1>2. RequestOK(request[w], alloc) /\ request[w] \in Request
    BY <1>1 DEF RequestsOK, TypeOK
  <1>3. request[w].copy \in Allocation
    BY <1>2, RequestTyped
  <1>4. request[w].copy.qty \in Nat
    BY <1>3, QuantitiesAssumption DEF Allocation
  <1>5. DOMAIN alloc = 1 .. Len(alloc) /\ Len(alloc) \in Nat
    BY <1>1, AllocTyped
  <1> QED
    BY <1>2, <1>3, <1>4, <1>5 DEF RequestOK

\* A save without a movement.
LEMMA QuietSave ==
    ASSUME IInv, NEW w \in Workers, request[w].kind \in Operation,
           NEW copy \in Allocation, Changed(w, copy), Held(copy) = Held(request[w].copy),
           SaveCopy(w, copy), UNCHANGED <<stock, movements>>
    PROVE  IInv'
  <1>1. /\ alloc' \in Seq(Allocation) /\ Len(alloc') = Len(alloc)
        /\ stale' \subseteq DOMAIN alloc' /\ overtaken' \subseteq DOMAIN alloc'
        /\ request' \in [Workers -> Request]
        /\ DocsOK' /\ RequestsOK' /\ Within(alloc', overtaken')
    BY SaveKeeps
  <1>2. TypeOK'
    BY <1>1 DEF IInv, TypeOK
  <1>3. RefsOK'
    BY <1>1 DEF IInv, RefsOK
  <1>4. Flow'
    <2>1. \A a : Net(movements', a) = Net(movements, a)
      OBVIOUS
    <2> QED
      BY <2>1, SaveKeepsFlow
  <1> QED
    BY <1>1, <1>2, <1>3, <1>4 DEF IInv

\* A save with one.
LEMMA MovingSave ==
    ASSUME IInv, NEW w \in Workers, request[w].kind \in Operation,
           NEW copy \in Allocation, Changed(w, copy), SaveCopy(w, copy),
           NEW type \in MovementType, Record(type, request[w].copy.qty, request[w].id),
           NEW move, move = [type |-> type, qty |-> request[w].copy.qty, ref |-> request[w].id],
           Sound(request[w].copy)
             => Held(copy) = Held(request[w].copy) + Effect(move, request[w].id),
           stock' \in Nat
    PROVE  IInv'
  <1>1. /\ alloc' \in Seq(Allocation) /\ Len(alloc') = Len(alloc)
        /\ stale' \subseteq DOMAIN alloc' /\ overtaken' \subseteq DOMAIN alloc'
        /\ request' \in [Workers -> Request]
        /\ DocsOK' /\ RequestsOK' /\ Within(alloc', overtaken')
    BY SaveKeeps
  <1>2. TypeOK /\ RefsOK /\ Len(alloc) \in Nat
    BY AllocTyped DEF IInv
  <1>3. /\ movements' \in Seq(Movement) /\ RefsOK'
        /\ \A a : /\ Net(movements', a) = Net(movements, a) + Effect(move, a)
                  /\ Net(movements, a) \in Int
    <2>1. /\ request[w].copy.qty \in Nat /\ request[w].id \in Nat /\ request[w].id <= Len(alloc)
      BY RequestFacts
    <2>2. Len(alloc) <= Len(alloc') /\ request[w].id <= Len(alloc') /\ Len(alloc') \in Nat
      BY <1>1, <1>2, <2>1
    <2> QED
      BY <1>2, <2>1, <2>2, RecordKeeps
  <1>4. TypeOK'
    BY <1>1, <1>3 DEF TypeOK
  <1>5. Flow'
    <2>1. \A a : a # request[w].id => Effect(move, a) = 0
      BY DEF Effect
    <2>2. \A a : a # request[w].id => Net(movements', a) = Net(movements, a)
      BY <1>3, <2>1
    <2>3. Sound(request[w].copy) /\ Net(movements, request[w].id) = Held(request[w].copy)
             => Net(movements', request[w].id) = Held(copy)
      BY <1>3
    <2> QED
      BY <2>2, <2>3, SaveKeepsFlow
  <1> QED
    BY <1>1, <1>3, <1>4, <1>5 DEF IInv

LEMMA ApproveKeeps ==
    ASSUME IInv, NEW w \in Workers, Approve(w)
    PROVE  IInv'
  <1> DEFINE c == request[w].copy
             copy == [c EXCEPT !.pending = FALSE, !.approved = TRUE]
             move == [type |-> "OUT", qty |-> c.qty, ref |-> request[w].id]
  <1>1. /\ request[w].kind = "approve" /\ request[w].kind \in Operation
        /\ stock >= c.qty /\ stock' = stock - c.qty
        /\ Record("OUT", c.qty, request[w].id) /\ SaveCopy(w, copy)
    BY DEF Approve, Take, Operation
  <1>2. c \in Allocation /\ c.pending /\ c.qty \in Nat
    BY <1>1, RequestFacts
  <1>3. copy \in Allocation /\ Changed(w, copy)
    BY <1>2, Copies DEF Changed
  <1>4. Effect(move, request[w].id) = c.qty
    BY DEF Effect
  <1>5. Sound(c) => Held(copy) = Held(c) + Effect(move, request[w].id)
    BY <1>2, <1>4, Holds
  <1>6. stock' \in Nat
    BY <1>1, <1>2 DEF IInv, TypeOK
  <1>7. "OUT" \in MovementType
    BY DEF MovementType
  <1> HIDE DEF copy
  <1> QED
    BY <1>1, <1>3, <1>5, <1>6, <1>7, MovingSave

LEMMA UndoKeeps ==
    ASSUME IInv, NEW w \in Workers, Undo(w)
    PROVE  IInv'
  <1> DEFINE c == request[w].copy
             copy == [c EXCEPT !.undone = TRUE]
             move == [type |-> "IN", qty |-> c.qty, ref |-> request[w].id]
  <1>1. /\ request[w].kind \in {"undo", "deallocate"} /\ request[w].kind \in Operation
        /\ stock' = stock + c.qty
        /\ Record("IN", c.qty, request[w].id) /\ SaveCopy(w, copy)
    BY DEF Undo, PutBack, Operation
  <1>2. c \in Allocation /\ ~c.undone /\ c.qty \in Nat
    BY <1>1, RequestFacts
  <1>3. copy \in Allocation /\ Changed(w, copy)
    BY <1>2, Copies DEF Changed
  <1>4. Effect(move, request[w].id) = 0 - c.qty
    BY DEF Effect
  <1>5. Held(copy) = Held(c) + Effect(move, request[w].id)
    <2>1. Held(copy) = Held(c) - c.qty /\ Held(c) \in Int
      BY <1>2, Holds
    <2> HIDE DEF copy, c
    <2> QED
      BY <1>2, <1>4, <2>1
  <1>6. stock' \in Nat
    BY <1>1, <1>2 DEF IInv, TypeOK
  <1>7. "IN" \in MovementType
    BY DEF MovementType
  <1> HIDE DEF copy
  <1> QED
    BY <1>1, <1>3, <1>5, <1>6, <1>7, MovingSave

LEMMA RejectKeeps ==
    ASSUME IInv, NEW w \in Workers, Reject(w)
    PROVE  IInv'
  <1> DEFINE c == request[w].copy
             copy == [c EXCEPT !.pending = FALSE, !.rejected = TRUE]
  <1>1. /\ request[w].kind = "reject" /\ request[w].kind \in Operation
        /\ SaveCopy(w, copy) /\ UNCHANGED <<stock, movements>>
    BY DEF Reject, Operation
  <1>2. c \in Allocation /\ c.pending
    BY <1>1, RequestFacts
  <1>3. copy \in Allocation /\ Changed(w, copy) /\ Held(copy) = Held(c)
    BY <1>2, Copies, Holds DEF Changed
  <1> HIDE DEF copy
  <1> QED
    BY <1>1, <1>3, QuietSave

LEMMA IssueKeeps ==
    ASSUME IInv, NEW w \in Workers, Issue(w)
    PROVE  IInv'
  <1> DEFINE c == request[w].copy
             copy == [c EXCEPT !.issued = TRUE]
  <1>1. /\ request[w].kind = "issue" /\ request[w].kind \in Operation
        /\ SaveCopy(w, copy) /\ UNCHANGED <<stock, movements>>
    BY DEF Issue, Operation
  <1>2. c \in Allocation
    BY <1>1, RequestFacts
  <1>3. copy \in Allocation /\ Changed(w, copy) /\ Held(copy) = Held(c)
    BY <1>2, Copies, Holds DEF Changed
  <1> HIDE DEF copy
  <1> QED
    BY <1>1, <1>3, QuietSave

LEMMA SavePhotoKeeps ==
    ASSUME IInv, NEW w \in Workers, SavePhoto(w)
    PROVE  IInv'
  <1>1. /\ request[w].kind \in Operation
        /\ SaveCopy(w, request[w].copy) /\ UNCHANGED <<stock, movements>>
    BY DEF SavePhoto, Operation
  <1>2. request[w].copy \in Allocation /\ Changed(w, request[w].copy)
    BY <1>1, RequestFacts DEF Changed, Same
  <1> QED
    BY <1>1, <1>2, QuietSave

----------------------------------------------------------------------------
(* Requests and movements that leave the allocations alone.                *)

\* Reading, and failing: one request changes, and nothing else.
LEMMA QuietRequest ==
    ASSUME IInv, NEW w \in Workers, NEW r \in Request, RequestOK(r, alloc),
           request' = [request EXCEPT ![w] = r],
           UNCHANGED <<stock, alloc, movements, stale, overtaken>>
    PROVE  IInv'
  <1>1. request' \in [Workers -> Request] /\ RequestsOK'
    BY KeepsRequests, KeepsNothingNew DEF IInv
  <1>2. TypeOK'
    BY <1>1 DEF IInv, TypeOK
  <1>3. DocsOK' /\ RefsOK' /\ Flow' /\ Within(alloc', overtaken')
    BY DEF IInv, DocsOK, RefsOK, Flow
  <1> QED
    BY <1>1, <1>2, <1>3 DEF IInv

LEMMA AllocateReadKeeps ==
    ASSUME IInv, NEW w \in Workers, AllocateRead(w)
    PROVE  IInv'
  <1> DEFINE counted == Counting
  <1>1. PICK qty \in Quantities :
           request' = [request EXCEPT ![w] =
                         [kind |-> "allocate", qty |-> qty, counted |-> counted,
                          pending |-> Quantity(alloc, counted) + qty > Allowed]]
    BY DEF AllocateRead
  <1> DEFINE over == Quantity(alloc, counted) + qty > Allowed
             r == [kind |-> "allocate", qty |-> qty, counted |-> counted, pending |-> over]
  <1>2. counted \in SUBSET DOMAIN alloc /\ DOMAIN alloc \subseteq Nat
    BY AllocTyped DEF Counting, IInv
  <1>3. Quantity(alloc, counted) \in Nat /\ qty \in Nat
    BY <1>2, AllocTyped, QuantitiesAssumption DEF IInv
  <1>4. over \in BOOLEAN /\ (~over => Quantity(alloc, counted) + qty <= Allowed)
    BY <1>3, StockAssumption
  <1> HIDE DEF over, counted
  <1>5. r \in Request
    BY <1>2, <1>4 DEF Request
  <1>6. RequestOK(r, alloc)
    BY <1>2, <1>4 DEF RequestOK, Operation
  <1>7. request' = [request EXCEPT ![w] = r] /\ UNCHANGED <<stock, alloc, movements, stale, overtaken>>
    BY <1>1 DEF over, AllocateRead
  <1> HIDE DEF r
  <1> QED
    BY <1>5, <1>6, <1>7, QuietRequest

LEMMA ReadAllocationKeeps ==
    ASSUME IInv, NEW w \in Workers, NEW kind \in Operation, ReadAllocation(w, kind)
    PROVE  IInv'
  <1>1. PICK id \in DOMAIN alloc :
           /\ Accepts(kind, alloc[id])
           /\ request' = [request EXCEPT ![w] = [kind |-> kind, id |-> id, copy |-> alloc[id]]]
    BY DEF ReadAllocation
  <1> DEFINE r == [kind |-> kind, id |-> id, copy |-> alloc[id]]
  <1>2. id \in Nat /\ alloc[id] \in Allocation /\ Same(alloc[id], alloc[id])
    BY AllocTyped DEF IInv, Same
  <1>3. r \in Request
    BY <1>2 DEF Request
  <1>4. /\ kind \in {"approve", "reject"} => alloc[id].pending
        /\ kind \in {"undo", "deallocate"} => ~alloc[id].undone
    BY <1>1 DEF Accepts
  <1>5. RequestOK(r, alloc)
    BY <1>2, <1>4 DEF RequestOK, Operation
  <1>6. request' = [request EXCEPT ![w] = r] /\ UNCHANGED <<stock, alloc, movements, stale, overtaken>>
    BY <1>1 DEF ReadAllocation
  <1> HIDE DEF r
  <1> QED
    BY <1>3, <1>5, <1>6, QuietRequest

LEMMA LoseKeeps ==
    ASSUME IInv, NEW w \in Workers, Lose(w)
    PROVE  IInv'
  <1>1. /\ request' = [request EXCEPT ![w] = Idle]
        /\ UNCHANGED <<stock, alloc, movements, stale, overtaken>>
    BY DEF Lose, Finish
  <1>2. Idle \in Request /\ RequestOK(Idle, alloc)
    BY IdleIsRequest
  <1> QED
    BY <1>1, <1>2, QuietRequest

\* A movement that refers to no allocation.
LEMMA ManualKeeps ==
    ASSUME IInv, NEW type \in MovementType, NEW qty \in Nat, Record(type, qty, 0),
           stock' \in Nat, UNCHANGED <<alloc, stale, overtaken, request>>
    PROVE  IInv'
  <1> DEFINE move == [type |-> type, qty |-> qty, ref |-> 0]
  <1>1. TypeOK /\ RefsOK /\ Len(alloc) \in Nat /\ Flow
    BY AllocTyped DEF IInv
  <1>2. /\ movements' \in Seq(Movement) /\ RefsOK'
        /\ \A a : /\ Net(movements', a) = Net(movements, a) + Effect(move, a)
                  /\ Net(movements, a) \in Int
    <2>1. Len(alloc) <= Len(alloc') /\ 0 <= Len(alloc') /\ Len(alloc') \in Nat /\ 0 \in Nat
      BY <1>1
    <2> QED
      BY <1>1, <2>1, RecordKeeps
  <1>3. TypeOK'
    BY <1>1, <1>2 DEF TypeOK
  <1>4. DocsOK' /\ RequestsOK' /\ Within(alloc', overtaken')
    BY DEF IInv, DocsOK, RequestsOK
  <1>5. Flow'
    <2>1. \A a \in DOMAIN alloc : a # 0
      BY <1>1, AllocTyped
    <2>2. \A a : a # 0 => Effect(move, a) = 0
      BY DEF Effect
    <2>3. \A a \in DOMAIN alloc : Net(movements', a) = Net(movements, a)
      BY <1>2, <2>1, <2>2
    <2> QED
      BY <1>1, <2>3 DEF Flow
  <1> QED
    BY <1>2, <1>3, <1>4, <1>5 DEF IInv

LEMMA ManualMovements ==
    ASSUME IInv, ManualIn \/ ManualOut \/ ManualSet
    PROVE  IInv'
  <1>1. stock \in Nat
    BY DEF IInv, TypeOK
  <1>2. MovementType = {"IN", "OUT", "ADJUSTMENT"}
    BY DEF MovementType
  <1>3. CASE ManualIn
    <2>1. PICK qty \in Quantities : stock' = stock + qty /\ Record("IN", qty, 0)
      BY <1>3 DEF ManualIn, PutBack
    <2>2. qty \in Nat /\ stock' \in Nat /\ UNCHANGED <<alloc, stale, overtaken, request>>
      BY <1>1, <1>3, <2>1, QuantitiesAssumption DEF ManualIn
    <2> QED
      BY <1>2, <2>1, <2>2, ManualKeeps
  <1>4. CASE ManualOut
    <2>1. PICK qty \in Quantities :
             stock' = (IF stock >= qty THEN stock - qty ELSE 0) /\ Record("OUT", qty, 0)
      BY <1>4 DEF ManualOut
    <2>2. qty \in Nat /\ stock' \in Nat /\ UNCHANGED <<alloc, stale, overtaken, request>>
      BY <1>1, <1>4, <2>1, QuantitiesAssumption DEF ManualOut
    <2> QED
      BY <1>2, <2>1, <2>2, ManualKeeps
  <1>5. CASE ManualSet
    <2>1. PICK qty \in Quantities \union {0} : stock' = qty /\ Record("ADJUSTMENT", qty, 0)
      BY <1>5 DEF ManualSet
    <2>2. qty \in Nat /\ stock' \in Nat /\ UNCHANGED <<alloc, stale, overtaken, request>>
      BY <1>5, <2>1, QuantitiesAssumption DEF ManualSet
    <2> QED
      BY <1>2, <2>1, <2>2, ManualKeeps
  <1> QED
    BY <1>3, <1>4, <1>5

----------------------------------------------------------------------------
(* Requests that store a new allocation.                                   *)

\* When nobody came to count since the request added up, there is still room.
LEMMA Fits ==
    ASSUME IInv, NEW w \in Workers, request[w].kind = "allocate", ~request[w].pending,
           Counting \subseteq request[w].counted
    PROVE  Quantity(alloc, Counted(alloc, overtaken)) + request[w].qty <= Allowed
  <1> DEFINE read == request[w].counted
             counted == Counted(alloc, overtaken)
             qty == request[w].qty
  <1>1. TypeOK /\ RequestOK(request[w], alloc) /\ request[w] \in Request
    BY DEF IInv, RequestsOK, TypeOK
  <1>2. /\ read \in SUBSET DOMAIN alloc /\ counted \in SUBSET read
        /\ Quantity(alloc, read) + qty <= Allowed
    BY <1>1 DEF RequestOK, Counting, Counted, Counts
  <1>3. qty \in Nat
    BY <1>1, RequestTyped, QuantitiesAssumption
  <1> HIDE DEF read, counted, qty
  <1>4. /\ IsFiniteSet(read) /\ Quantified(alloc, read)
        /\ Quantity(alloc, read) \in Nat /\ Quantity(alloc, counted) \in Nat
    BY <1>1, <1>2, AllocTyped
  <1>5. Alike(alloc, alloc, counted)
    BY DEF Alike
  <1>6. Quantity(alloc, counted) <= Quantity(alloc, read)
    BY <1>2, <1>4, <1>5, QuantityWithin
  <1>7. Quantity(alloc, counted) + qty <= Allowed
    BY <1>2, <1>3, <1>4, <1>6, StockAssumption
  <1> QED
    BY <1>7 DEF counted, qty

LEMMA AppendKeeps ==
    ASSUME IInv, NEW d \in Allocation, Sound(d), alloc' = Append(alloc, d),
           NEW n, n = Len(alloc) + 1,
           stale' = stale, overtaken' = overtaken \/ overtaken' = overtaken \union {n},
           Counts(d) /\ n \notin overtaken'
             => Quantity(alloc, Counted(alloc, overtaken)) + d.qty <= Allowed
    PROVE  /\ alloc' \in Seq(Allocation) /\ Len(alloc') = n
           /\ DOMAIN alloc' = DOMAIN alloc \union {n} /\ n \notin DOMAIN alloc
           /\ alloc'[n] = d /\ \A a \in DOMAIN alloc : alloc'[a] = alloc[a]
           /\ stale' \subseteq DOMAIN alloc' /\ overtaken' \subseteq DOMAIN alloc'
           /\ Keeping(alloc, alloc')
           /\ DocsOK' /\ Within(alloc', overtaken')
  <1>1. TypeOK /\ DocsOK /\ Within(alloc, overtaken) /\ alloc \in Seq(Allocation)
    BY DEF IInv, TypeOK
  <1>2. DOMAIN alloc = 1 .. Len(alloc) /\ Len(alloc) \in Nat
    BY <1>1, AllocTyped
  <1>3. /\ alloc' \in Seq(Allocation) /\ Len(alloc') = n
        /\ \A a \in DOMAIN alloc : alloc'[a] = alloc[a]
        /\ alloc'[n] = d
    BY <1>1, <1>2, AppendProperties
  <1>4. DOMAIN alloc' = DOMAIN alloc \union {n} /\ n \notin DOMAIN alloc
    <2>1. DOMAIN alloc' = 1 .. n
      BY <1>3, LenProperties
    <2> QED
      BY <1>2, <2>1
  <1>5. /\ stale' \subseteq DOMAIN alloc' /\ overtaken' \subseteq DOMAIN alloc'
        /\ Keeping(alloc, alloc')
    BY <1>1, <1>3, <1>4 DEF TypeOK, Keeping, Same
  <1>6. DocsOK'
    BY <1>1, <1>3, <1>4 DEF DocsOK
  <1>7. Within(alloc', overtaken')
    <2> DEFINE old == Counted(alloc, overtaken)
               new == Counted(alloc', overtaken')
    <2>1. n \notin old /\ n \notin overtaken /\ old \in SUBSET DOMAIN alloc
      BY <1>1, <1>4 DEF Counted, TypeOK
    <2>2. new = IF Counts(d) /\ n \notin overtaken' THEN old \union {n} ELSE old
      BY <1>3, <1>4, <2>1 DEF Counted
    <2>3. Alike(alloc, alloc', old) /\ Quantified(alloc', DOMAIN alloc')
      <3>1. \A a \in DOMAIN alloc' : alloc'[a].qty \in Nat
        BY <1>1, <1>3, <1>4, AllocTyped, QuantitiesAssumption DEF Allocation
      <3> QED
        BY <1>3, <2>1, <3>1 DEF Alike, Quantified
    <2> HIDE DEF old, new
    <2>4. /\ IsFiniteSet(old) /\ Quantified(alloc, old) /\ Quantity(alloc, old) \in Nat
      BY <1>1, <2>1, AllocTyped
    <2>5. Quantity(alloc', old) = Quantity(alloc, old)
      BY <2>3, <2>4, QuantityWithin
    <2>6. CASE Counts(d) /\ n \notin overtaken'
      <3>1. new = old \union {n}
        BY <2>2, <2>6
      <3>2. Quantified(alloc', old \union {n})
        BY <1>4, <2>1, <2>3 DEF Quantified
      <3>3. Quantity(alloc', old \union {n}) = alloc'[n].qty + Quantity(alloc', old)
        BY <2>1, <2>4, <3>2, QuantityWith
      <3>4. Quantity(alloc, old) + d.qty <= Allowed
        BY <2>6 DEF old
      <3>5. d.qty \in Nat
        BY QuantitiesAssumption DEF Allocation
      <3>6. Quantity(alloc', new) = Quantity(alloc, old) + d.qty
        BY <1>3, <2>4, <2>5, <3>1, <3>3, <3>5
      <3> QED
        BY <3>4, <3>6 DEF Within, new
    <2>7. CASE ~ (Counts(d) /\ n \notin overtaken')
      <3>1. new = old
        BY <2>2, <2>7
      <3>2. Quantity(alloc, old) <= Allowed
        BY <1>1 DEF Within, old
      <3>3. Quantity(alloc', new) <= Allowed
        BY <2>5, <3>1, <3>2
      <3> QED
        BY <3>3 DEF Within, new
    <2> QED
      BY <2>6, <2>7
  <1> QED
    BY <1>3, <1>4, <1>5, <1>6, <1>7

\* The trail of a new allocation begins with what its status says.
LEMMA AppendKeepsFlow ==
    ASSUME IInv, NEW d \in Allocation, NEW n, n = Len(alloc) + 1,
           DOMAIN alloc' = DOMAIN alloc \union {n}, n \notin DOMAIN alloc,
           alloc'[n] = d, \A a \in DOMAIN alloc : alloc'[a] = alloc[a],
           stale \subseteq stale',
           \A a : a # n => Net(movements', a) = Net(movements, a),
           Net(movements, n) = 0 => Net(movements', n) = Held(d)
    PROVE  Flow'
  <1>1. TypeOK /\ RefsOK /\ Flow
    BY DEF IInv
  <1>2. Net(movements, n) = 0
    <2>1. Len(alloc) \in Nat /\ movements \in Seq(Movement)
      BY <1>1, AllocTyped DEF TypeOK
    <2>2. \A m \in DOMAIN movements : movements[m] \in Movement
      BY <2>1, LenProperties, ElementOfSeq
    <2>3. \A m \in DOMAIN movements : movements[m].ref # n
      BY <1>1, <2>1, <2>2 DEF RefsOK, Movement
    <2> QED
      BY <2>1, <2>3, NoNet
  <1>3. ASSUME NEW a \in DOMAIN alloc', a \notin stale'
        PROVE  Net(movements', a) = Held(alloc'[a])
    <2>1. CASE a = n
      BY <1>2, <2>1
    <2>2. CASE a # n
      <3>1. a \in DOMAIN alloc \ stale
        BY <1>3, <2>2
      <3> QED
        BY <1>1, <2>2, <3>1 DEF Flow
    <2> QED
      BY <2>1, <2>2
  <1> QED
    BY <1>3 DEF Flow

LEMMA NewTyped ==
    ASSUME NEW qty \in Quantities, NEW packs \in BOOLEAN, NEW pending \in BOOLEAN,
           NEW d, d = NewAllocation(qty, packs, pending)
    PROVE  /\ d \in Allocation /\ Sound(d) /\ d.qty = qty /\ qty \in Nat
           /\ Counts(d) <=> ~packs /\ ~pending
           /\ Held(d) = IF pending THEN 0 ELSE qty
  BY QuantitiesAssumption DEF NewAllocation, Allocation, Sound, Counts, Held

\* What a new allocation takes is recorded with it.
LEMMA TakeKeeps ==
    ASSUME IInv, NEW qty \in Quantities, NEW packs \in BOOLEAN,
           NEW d, d = NewAllocation(qty, packs, FALSE),
           NEW n, n = Len(alloc) + 1, Take(qty, n), alloc' = Append(alloc, d),
           stale' = stale, overtaken' = overtaken \/ overtaken' = overtaken \union {n},
           Counts(d) /\ n \notin overtaken'
             => Quantity(alloc, Counted(alloc, overtaken)) + qty <= Allowed,
           Keeping(alloc, alloc') => request' \in [Workers -> Request] /\ RequestsOK'
    PROVE  IInv'
  <1> DEFINE move == [type |-> "OUT", qty |-> qty, ref |-> n]
  <1>1. TypeOK /\ RefsOK /\ Len(alloc) \in Nat /\ stock \in Nat
    BY AllocTyped DEF IInv, TypeOK
  <1>2. d \in Allocation /\ Sound(d) /\ d.qty = qty /\ qty \in Nat /\ Held(d) = qty
    BY NewTyped
  <1>3. /\ alloc' \in Seq(Allocation) /\ Len(alloc') = n
        /\ DOMAIN alloc' = DOMAIN alloc \union {n} /\ n \notin DOMAIN alloc
        /\ alloc'[n] = d /\ \A a \in DOMAIN alloc : alloc'[a] = alloc[a]
        /\ stale' \subseteq DOMAIN alloc' /\ overtaken' \subseteq DOMAIN alloc'
        /\ Keeping(alloc, alloc')
        /\ DocsOK' /\ Within(alloc', overtaken')
    BY <1>2, AppendKeeps
  <1>4. /\ movements' \in Seq(Movement) /\ RefsOK'
        /\ \A a : /\ Net(movements', a) = Net(movements, a) + Effect(move, a)
                  /\ Net(movements, a) \in Int
    <2>1. /\ Len(alloc) <= Len(alloc') /\ n <= Len(alloc') /\ Len(alloc') \in Nat /\ n \in Nat
          /\ "OUT" \in MovementType
      BY <1>1, <1>3 DEF MovementType
    <2>2. Record("OUT", qty, n)
      BY DEF Take
    <2> QED
      BY <1>1, <1>2, <2>1, <2>2, RecordKeeps
  <1>5. stock' \in Nat
    BY <1>1, <1>2 DEF Take
  <1>6. TypeOK' /\ RequestsOK'
    BY <1>3, <1>4, <1>5 DEF TypeOK
  <1>7. Flow'
    <2>1. (\A a : a # n => Effect(move, a) = 0) /\ Effect(move, n) = qty
      BY DEF Effect
    <2>2. \A a : a # n => Net(movements', a) = Net(movements, a)
      BY <1>4, <2>1
    <2>3. Net(movements, n) = 0 => Net(movements', n) = Held(d)
      <3>1. Net(movements', n) = Net(movements, n) + Effect(move, n)
        BY <1>4
      <3>2. Net(movements', n) = Net(movements, n) + qty
        BY <2>1, <3>1
      <3>3. qty \in Nat /\ Held(d) = qty
        BY <1>2
      <3> HIDE DEF move
      <3>4. ASSUME Net(movements, n) = 0
            PROVE  Net(movements', n) = Held(d)
        <4>1. Net(movements', n) = 0 + qty
          BY <3>2, <3>4
        <4>2. 0 + qty = qty
          BY <3>3
        <4> QED
          BY <3>3, <4>1, <4>2
      <3> QED
        BY <3>4
    <2>4. stale \subseteq stale'
      OBVIOUS
    <2> QED
      BY <1>2, <1>3, <2>2, <2>3, <2>4, AppendKeepsFlow
  <1> QED
    BY <1>3, <1>4, <1>6, <1>7 DEF IInv

LEMMA AllocateTakeKeeps ==
    ASSUME IInv, NEW w \in Workers, AllocateTake(w)
    PROVE  IInv'
  <1> DEFINE qty == request[w].qty
             n == Len(alloc) + 1
             d == NewAllocation(qty, FALSE, FALSE)
  <1>1. /\ request[w].kind = "allocate" /\ ~request[w].pending
        /\ Take(qty, n) /\ alloc' = Append(alloc, d) /\ stale' = stale
        /\ overtaken' = IF Counting \subseteq request[w].counted
                          THEN overtaken ELSE overtaken \union {n}
        /\ request' = [request EXCEPT ![w] = Idle]
    BY DEF AllocateTake, Finish
  <1>2. TypeOK /\ RequestsOK
    BY DEF IInv
  <1>3. qty \in Quantities
    BY <1>1, <1>2, RequestTyped DEF TypeOK
  <1>4. n \notin overtaken' => Quantity(alloc, Counted(alloc, overtaken)) + qty <= Allowed
    <2>1. n \notin overtaken' => Counting \subseteq request[w].counted
      BY <1>1
    <2> QED
      BY <1>1, <2>1, Fits
  <1>5. overtaken' = overtaken \/ overtaken' = overtaken \union {n}
    BY <1>1
  <1> HIDE DEF qty, n, d
  <1>6. Keeping(alloc, alloc') => request' \in [Workers -> Request] /\ RequestsOK'
    BY <1>1, <1>2, IdleIsRequest, KeepsRequests
  <1>7. FALSE \in BOOLEAN /\ d = NewAllocation(qty, FALSE, FALSE) /\ n = Len(alloc) + 1
    BY DEF d, n
  <1> QED
    BY <1>1, <1>3, <1>4, <1>5, <1>6, <1>7, TakeKeeps

LEMMA AllocatePacksKeeps ==
    ASSUME IInv, AllocatePacks
    PROVE  IInv'
  <1> DEFINE n == Len(alloc) + 1
  <1>1. PICK qty \in Quantities :
           Take(qty, n) /\ alloc' = Append(alloc, NewAllocation(qty, TRUE, FALSE))
    BY DEF AllocatePacks
  <1> DEFINE d == NewAllocation(qty, TRUE, FALSE)
  <1>2. UNCHANGED <<stale, overtaken, request>> /\ TypeOK /\ RequestsOK
    BY DEF AllocatePacks, IInv
  <1>3. d \in Allocation /\ ~Counts(d)
    BY NewTyped
  <1>4. Take(qty, n) /\ alloc' = Append(alloc, d)
    BY <1>1
  <1> HIDE DEF d, n
  <1>5. Keeping(alloc, alloc') => request' \in [Workers -> Request] /\ RequestsOK'
    BY <1>2, KeepsOthers
  <1>6. /\ TRUE \in BOOLEAN /\ d = NewAllocation(qty, TRUE, FALSE) /\ n = Len(alloc) + 1
        /\ stale' = stale /\ overtaken' = overtaken
    BY <1>2 DEF d, n
  <1> QED
    BY <1>1, <1>3, <1>4, <1>5, <1>6, TakeKeeps

LEMMA AllocatePendingKeeps ==
    ASSUME IInv, NEW w \in Workers, AllocatePending(w)
    PROVE  IInv'
  <1> DEFINE qty == request[w].qty
             n == Len(alloc) + 1
             d == NewAllocation(qty, FALSE, TRUE)
  <1>1. /\ request[w].kind = "allocate" /\ alloc' = Append(alloc, d)
        /\ request' = [request EXCEPT ![w] = Idle]
        /\ UNCHANGED <<stock, movements, stale, overtaken>>
    BY DEF AllocatePending, Finish
  <1>2. TypeOK /\ RequestsOK /\ RefsOK
    BY DEF IInv
  <1>3. qty \in Quantities
    BY <1>1, <1>2, RequestTyped DEF TypeOK
  <1>4. d \in Allocation /\ Sound(d) /\ ~Counts(d) /\ Held(d) = 0
    <2>1. FALSE \in BOOLEAN /\ TRUE \in BOOLEAN /\ d = NewAllocation(qty, FALSE, TRUE)
      OBVIOUS
    <2> HIDE DEF d, qty
    <2> QED
      BY <1>3, <2>1, NewTyped
  <1>5. n = Len(alloc) + 1
    OBVIOUS
  <1> HIDE DEF d, n
  <1>6. /\ alloc' \in Seq(Allocation) /\ Len(alloc') = n
        /\ DOMAIN alloc' = DOMAIN alloc \union {n} /\ n \notin DOMAIN alloc
        /\ alloc'[n] = d /\ \A a \in DOMAIN alloc : alloc'[a] = alloc[a]
        /\ stale' \subseteq DOMAIN alloc' /\ overtaken' \subseteq DOMAIN alloc'
        /\ Keeping(alloc, alloc')
        /\ DocsOK' /\ Within(alloc', overtaken')
    BY <1>1, <1>4, <1>5, AppendKeeps
  <1>7. request' \in [Workers -> Request] /\ RequestsOK'
    <2>1. Idle \in Request /\ RequestOK(Idle, alloc) /\ Keeping(alloc, alloc')
      BY <1>6, IdleIsRequest
    <2> QED
      BY <1>1, <1>2, <2>1, KeepsRequests
  <1>8. TypeOK'
    BY <1>1, <1>2, <1>6, <1>7 DEF TypeOK
  <1>9. RefsOK'
    <2>1. Len(alloc) \in Nat /\ \A m \in DOMAIN movements : movements[m] \in Movement
      BY <1>2, AllocTyped, LenProperties, ElementOfSeq DEF TypeOK
    <2>2. \A m \in DOMAIN movements : movements[m].ref \in Nat
      BY <2>1 DEF Movement
    <2> QED
      BY <1>1, <1>2, <1>5, <1>6, <2>1, <2>2 DEF RefsOK
  <1>10. Flow'
    <2>1. /\ \A a : a # n => Net(movements', a) = Net(movements, a)
          /\ Net(movements, n) = 0 => Net(movements', n) = Held(d)
      BY <1>1, <1>4
    <2> QED
      BY <1>1, <1>4, <1>5, <1>6, <2>1, AppendKeepsFlow
  <1> QED
    BY <1>6, <1>7, <1>8, <1>9, <1>10 DEF IInv

----------------------------------------------------------------------------

LEMMA NextIInv ==
    ASSUME IInv, [Next]_vars
    PROVE  IInv'
  <1>1. CASE AllocatePacks
    BY <1>1, AllocatePacksKeeps
  <1>2. CASE ManualIn \/ ManualOut \/ ManualSet
    BY <1>2, ManualMovements
  <1>3. ASSUME NEW w \in Workers, RequestStep(w) \/ Lose(w)
        PROVE  IInv'
    <2>1. CASE AllocateRead(w)
      BY <2>1, AllocateReadKeeps
    <2>2. CASE AllocatePending(w)
      BY <2>2, AllocatePendingKeeps
    <2>3. CASE AllocateTake(w)
      BY <2>3, AllocateTakeKeeps
    <2>4. CASE \E kind \in Operation : ReadAllocation(w, kind)
      BY <2>4, ReadAllocationKeeps
    <2>5. CASE Approve(w)
      BY <2>5, ApproveKeeps
    <2>6. CASE Reject(w)
      BY <2>6, RejectKeeps
    <2>7. CASE Undo(w)
      BY <2>7, UndoKeeps
    <2>8. CASE Issue(w)
      BY <2>8, IssueKeeps
    <2>9. CASE SavePhoto(w)
      BY <2>9, SavePhotoKeeps
    <2>10. CASE Lose(w)
      BY <2>10, LoseKeeps
    <2> QED
      BY <1>3, <2>1, <2>2, <2>3, <2>4, <2>5, <2>6, <2>7, <2>8, <2>9, <2>10 DEF RequestStep
  <1>4. CASE UNCHANGED vars
    BY <1>4 DEF vars, IInv, TypeOK, DocsOK, RequestsOK, RefsOK, Flow
  <1> QED
    BY <1>1, <1>2, <1>3, <1>4 DEF Next

\* Whatever requests overlap, the trail of an allocation that no outdated
\* copy was saved over accounts for it, and the allowance is kept.
THEOREM AlwaysIInv == Spec => []IInv
  <1>1. Init => IInv
    BY InitIInv
  <1>2. IInv /\ [Next]_vars => IInv'
    BY NextIInv
  <1> QED
    BY <1>1, <1>2, PTL DEF Spec

\* The stock item never goes below zero, and documents, movements and
\* requests keep their shape: only the guard of the decrement looks at the
\* stock a transaction finds.
THEOREM TypeCorrect == Spec => []TypeOK
  <1>1. IInv => TypeOK
    BY DEF IInv
  <1> QED
    BY <1>1, AlwaysIInv, PTL

\* The audit trail of an allocation agrees with its status, unless a request
\* saved over it a copy that others had outdated (approveOverAllocation,
\* undoAllocation, deallocate and the others save the whole copy they read).
THEOREM TrailAgrees == Spec => []TrailMatchesStatus
  <1>1. IInv => TrailMatchesStatus
    <2> SUFFICES ASSUME IInv, NEW a \in DOMAIN alloc \ stale,
                        alloc[a].undone => ~alloc[a].pending /\ ~alloc[a].rejected
                 PROVE  Total("OUT", a) - Total("IN", a) =
                          IF ~alloc[a].pending /\ ~alloc[a].rejected /\ ~alloc[a].undone
                            THEN alloc[a].qty ELSE 0
      BY DEF TrailMatchesStatus
    <2>1. Net(movements, a) = Held(alloc[a]) /\ alloc[a] \in Allocation /\ alloc[a].qty \in Nat
      BY AllocTyped DEF IInv, Flow
    <2>2. Total("OUT", a) - Total("IN", a) = Net(movements, a)
      BY DEF Total, Net, Of
    <2> DEFINE d == alloc[a]
    <2>3. d \in Allocation /\ d.qty \in Nat /\ (d.undone => ~d.pending /\ ~d.rejected)
      BY <2>1
    <2> HIDE DEF d
    <2>4. Held(d) = IF ~d.pending /\ ~d.rejected /\ ~d.undone THEN d.qty ELSE 0
      BY <2>3 DEF Held, Allocation
    <2> QED
      BY <2>1, <2>2, <2>4 DEF d
  <1> QED
    BY <1>1, AlwaysIInv, PTL

\* What allocateStock hands out without a manager stays within the litres of
\* the coating analysis (checkOverAllocation), whatever copies are saved over
\* the allocations: all but those stored after another allocation had come to
\* count since their own check, which repeats nothing.
THEOREM AllowanceKept == Spec => []AllowanceHeld
  <1>1. IInv => AllowanceHeld
    BY AllowanceIs DEF IInv
  <1> QED
    BY <1>1, AlwaysIInv, PTL

----------------------------------------------------------------------------
(* What a step records.                                                    *)

Recorded ==
    /\ Len(movements') = Len(movements) + 1
    /\ LET type == movements'[Len(movements')].type
       IN  \/ type = "ADJUSTMENT"
           \/ type = "IN" /\ stock' > stock
           \/ type = "OUT" /\ stock' < stock

LEMMA RecordIsLast ==
    ASSUME TypeOK, NEW type \in MovementType, NEW qty \in Nat, NEW ref \in Nat,
           Record(type, qty, ref),
           \/ type = "ADJUSTMENT"
           \/ type = "IN" /\ stock' > stock
           \/ type = "OUT" /\ stock' < stock
    PROVE  Recorded
  <1> DEFINE move == [type |-> type, qty |-> qty, ref |-> ref]
  <1>1. move \in Movement /\ movements \in Seq(Movement) /\ movements' = Append(movements, move)
    BY DEF Movement, TypeOK, Record
  <1>2. move.type = type
    OBVIOUS
  <1> HIDE DEF move
  <1>3. Len(movements') = Len(movements) + 1 /\ movements'[Len(movements')] = move
    BY <1>1, AppendProperties
  <1> QED
    BY <1>2, <1>3 DEF Recorded

LEMMA TakeIsRecorded ==
    ASSUME TypeOK, NEW qty \in Quantities, NEW ref \in Nat, Take(qty, ref)
    PROVE  Recorded
  <1>1. qty \in Nat /\ qty > 0
    BY QuantitiesAssumption
  <1>2. Record("OUT", qty, ref) /\ stock' < stock
    BY <1>1 DEF Take, TypeOK
  <1> QED
    BY <1>1, <1>2, RecordIsLast DEF MovementType

LEMMA PutBackIsRecorded ==
    ASSUME TypeOK, NEW qty \in Quantities, NEW ref \in Nat, PutBack(qty, ref)
    PROVE  Recorded
  <1>1. qty \in Nat /\ qty > 0
    BY QuantitiesAssumption
  <1>2. Record("IN", qty, ref) /\ stock' > stock
    BY <1>1 DEF PutBack, TypeOK
  <1> QED
    BY <1>1, <1>2, RecordIsLast DEF MovementType

LEMMA CopyQuantity ==
    ASSUME IInv, NEW w \in Workers, request[w].kind \in Operation
    PROVE  request[w].copy.qty \in Quantities /\ request[w].id \in Nat
  BY RequestFacts DEF Allocation

LEMMA StepIsRecorded ==
    ASSUME IInv, Next, stock' # stock
    PROVE  Recorded
  <1>1. TypeOK /\ stock \in Nat /\ Len(alloc) + 1 \in Nat
    BY AllocTyped DEF IInv, TypeOK
  <1>2. CASE AllocatePacks
    <2>1. PICK qty \in Quantities : Take(qty, Len(alloc) + 1)
      BY <1>2 DEF AllocatePacks
    <2> QED
      BY <1>1, <2>1, TakeIsRecorded
  <1>3. CASE ManualIn
    <2>1. PICK qty \in Quantities : PutBack(qty, 0)
      BY <1>3 DEF ManualIn
    <2> QED
      BY <1>1, <2>1, PutBackIsRecorded
  <1>4. CASE ManualOut
    <2>1. PICK qty \in Quantities :
             stock' = (IF stock >= qty THEN stock - qty ELSE 0) /\ Record("OUT", qty, 0)
      BY <1>4 DEF ManualOut
    <2>2. qty \in Nat /\ stock' < stock /\ "OUT" \in MovementType /\ 0 \in Nat
      BY <1>1, <2>1, QuantitiesAssumption DEF MovementType
    <2> QED
      BY <1>1, <2>1, <2>2, RecordIsLast
  <1>5. CASE ManualSet
    <2>1. PICK qty \in Quantities \union {0} : Record("ADJUSTMENT", qty, 0)
      BY <1>5 DEF ManualSet
    <2>2. qty \in Nat /\ "ADJUSTMENT" \in MovementType /\ 0 \in Nat
      BY QuantitiesAssumption DEF MovementType
    <2> QED
      BY <1>1, <2>1, <2>2, RecordIsLast
  <1>6. ASSUME NEW w \in Workers, RequestStep(w) \/ Lose(w)
        PROVE  Recorded
    <2>1. CASE AllocateTake(w)
      <3>1. request[w].kind = "allocate" /\ Take(request[w].qty, Len(alloc) + 1)
        BY <2>1 DEF AllocateTake
      <3>2. request[w].qty \in Quantities
        BY <1>1, <3>1, RequestTyped DEF TypeOK
      <3> QED
        BY <1>1, <3>1, <3>2, TakeIsRecorded
    <2>2. CASE Approve(w)
      <3>1. request[w].kind \in Operation /\ Take(request[w].copy.qty, request[w].id)
        BY <2>2 DEF Approve, Operation
      <3>2. request[w].copy.qty \in Quantities /\ request[w].id \in Nat
        BY <3>1, CopyQuantity
      <3> QED
        BY <1>1, <3>1, <3>2, TakeIsRecorded
    <2>3. CASE Undo(w)
      <3>1. request[w].kind \in Operation /\ PutBack(request[w].copy.qty, request[w].id)
        BY <2>3 DEF Undo, Operation
      <3>2. request[w].copy.qty \in Quantities /\ request[w].id \in Nat
        BY <3>1, CopyQuantity
      <3> QED
        BY <1>1, <3>1, <3>2, PutBackIsRecorded
    <2>4. CASE \/ AllocateRead(w) \/ AllocatePending(w)
               \/ \E kind \in Operation : ReadAllocation(w, kind)
               \/ Reject(w) \/ Issue(w) \/ SavePhoto(w) \/ Lose(w)
      <3>1. UNCHANGED stock
        BY <2>4 DEF AllocateRead, AllocatePending, ReadAllocation, Reject, Issue, SavePhoto, Lose
      <3> QED
        BY <3>1
    <2> QED
      BY <1>6, <2>1, <2>2, <2>3, <2>4 DEF RequestStep
  <1> QED
    BY <1>2, <1>3, <1>4, <1>5, <1>6 DEF Next

\* The quantity never changes without a movement of the right direction.
THEOREM ChangesRecorded == Spec => ChangesAreRecorded
  <1> DEFINE Step == stock' # stock => Recorded
  <1>1. IInv /\ [Next]_vars => [Step]_vars
    BY StepIsRecorded
  <1>2. Spec => [][Step]_vars
    <2> HIDE DEF Step
    <2> QED
      BY <1>1, AlwaysIInv, PTL DEF Spec
  <1> QED
    BY <1>2 DEF ChangesAreRecorded, Recorded
=============================================================================
