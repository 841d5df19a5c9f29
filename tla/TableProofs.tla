----------------------------- MODULE TableProofs -----------------------------
(***************************************************************************)
(* Theorems about the content of a lot, for any workbooks, cells and       *)
(* conversions.                                                            *)
(***************************************************************************)
EXTENDS Table, FiniteSetTheorems, SequenceTheorems, WellFoundedInduction, TLAPS

-----------------------------------------------------------------------------
(***************************************************************************)
(* The items picked out of a sequence.                                     *)
(***************************************************************************)

\* A set of indices has a first one.
LEMMA FirstPlace ==
  ASSUME NEW I \in SUBSET Nat, I # {}
  PROVE  Min(I) \in I /\ \A j \in I : Min(I) <= j
<1> DEFINE Less == {p \in Nat \X Nat : p[1] < p[2]}
<1>1. IsWellFoundedOn(Less, Nat)
  BY Zenon, NatLessThanWellFounded DEF OpToRel
<1>2. PICK i \in I : \A j \in I : ~(<<j, i>> \in Less)
  BY <1>1, WFMin
<1>3. ASSUME NEW j \in I PROVE i <= j
  <2>1. i \in Nat /\ j \in Nat
    OBVIOUS
  <2>2. j < i => <<j, i>> \in Less
    BY <2>1
  <2> QED BY <1>2, <2>1, <2>2
<1> QED BY <1>3 DEF Min

\* The place the j-th item is picked from.
PlaceOf(P, j) == CHOOSE i \in P : Cardinality({p \in P : p <= i}) = j

\* What is picked is what is at the places, each once and in order.
LEMMA PickedPlaces ==
  ASSUME NEW S, NEW s \in Seq(S), NEW P \in SUBSET (DOMAIN s)
  PROVE  /\ Picked(s, P) \in Seq(S)
         /\ Cardinality(P) \in Nat /\ Len(Picked(s, P)) = Cardinality(P)
         /\ \E f \in [1 .. Cardinality(P) -> P] :
               /\ \A j, k \in 1 .. Cardinality(P) : j < k => f[j] < f[k]
               /\ \A i \in P : \E j \in 1 .. Cardinality(P) : f[j] = i
               /\ \A j \in 1 .. Cardinality(P) : Picked(s, P)[j] = s[f[j]]
         /\ \A j \in 1 .. Cardinality(P) : PlaceOf(P, j) \in P
<1> DEFINE c == Cardinality(P)
           upTo(i) == {p \in P : p <= i}
           r == [i \in P |-> Cardinality(upTo(i))]
           f == [j \in 1 .. c |-> CHOOSE i \in P : Cardinality(upTo(i)) = j]
<1>1. PICK n \in Nat : DOMAIN s = 1 .. n
  BY LenProperties
<1>2. IsFiniteSet(P) /\ c \in Nat /\ P \in SUBSET Nat
  <2>1. P \in SUBSET (1 .. n) /\ IsFiniteSet(1 .. n)
    BY <1>1, FS_Interval
  <2>2. IsFiniteSet(P)
    BY <2>1, FS_Subset
  <2> QED BY <2>1, <2>2, FS_CardinalityType
<1>3. ASSUME NEW i \in P
      PROVE  /\ IsFiniteSet(upTo(i)) /\ Cardinality(upTo(i)) \in 1 .. c
  <2>1. IsFiniteSet(upTo(i)) /\ Cardinality(upTo(i)) <= c /\ Cardinality(upTo(i)) \in Nat
    BY <1>2, FS_Subset, FS_CardinalityType
  <2>2. Cardinality(upTo(i)) # 0
    <3>1. i \in upTo(i)
      BY <1>2
    <3> QED BY <2>1, <3>1, FS_EmptySet
  <2> QED BY <1>2, <2>1, <2>2
<1>4. ASSUME NEW i \in P, NEW k \in P, i < k
      PROVE  Cardinality(upTo(i)) < Cardinality(upTo(k))
  <2>1. upTo(i) \in SUBSET upTo(k) /\ k \in upTo(k) /\ k \notin upTo(i)
    BY <1>2, <1>4
  <2>2. Cardinality(upTo(i)) <= Cardinality(upTo(k)) /\ Cardinality(upTo(i)) # Cardinality(upTo(k))
    BY <1>3, <2>1, FS_Subset
  <2>3. Cardinality(upTo(i)) \in 1 .. c /\ Cardinality(upTo(k)) \in 1 .. c
    BY <1>3
  <2> HIDE DEF upTo, c
  <2> QED BY <1>2, <2>2, <2>3
<1>5. r \in Injection(P, 1 .. c)
  <2>1. \A i \in P : r[i] = Cardinality(upTo(i))
    OBVIOUS
  <2>2. r \in [P -> 1 .. c]
    BY <1>3
  <2> HIDE DEF r, upTo
  <2>3. \A i, k \in P : r[i] = r[k] => i = k
    BY <1>2, <1>3, <1>4, <2>1
  <2> QED BY <2>2, <2>3 DEF Injection, IsInjective
<1>6. r \in Surjection(P, 1 .. c)
  <2>1. IsFiniteSet(1 .. c) /\ Cardinality(1 .. c) = c
    BY <1>2, FS_Interval
  <2> HIDE DEF r
  <2> QED BY <1>2, <1>5, <2>1, FS_Injection
<1>7. ASSUME NEW j \in 1 .. c
      PROVE  f[j] \in P /\ Cardinality(upTo(f[j])) = j
  <2>1. \E i \in P : r[i] = j
    BY <1>6 DEF Surjection
  <2>2. \E i \in P : Cardinality(upTo(i)) = j
    BY <2>1
  <2>3. f[j] = CHOOSE i \in P : Cardinality(upTo(i)) = j
    OBVIOUS
  <2> HIDE DEF f, upTo
  <2> QED BY <2>2, <2>3
<1>8. /\ DOMAIN Picked(s, P) = 1 .. c
      /\ Picked(s, P) = [j \in 1 .. c |-> Picked(s, P)[j]]
      /\ \A j \in 1 .. c : Picked(s, P)[j] = s[f[j]]
  BY DEF Picked
<1>14. \A j \in 1 .. c : PlaceOf(P, j) \in P
  <2>1. \A j \in 1 .. c : f[j] = PlaceOf(P, j)
    BY DEF PlaceOf
  <2> HIDE DEF f, upTo, c
  <2> QED BY <1>7, <2>1
<1> HIDE DEF r, f, upTo, c
<1>9. f \in [1 .. c -> P]
  <2>1. f = [j \in 1 .. c |-> f[j]]
    BY DEF f
  <2> QED BY <1>7, <2>1
<1>10. ASSUME NEW j \in 1 .. c, NEW k \in 1 .. c, j < k
       PROVE  f[j] < f[k]
  <2>1. f[j] \in Nat /\ f[k] \in Nat
    BY <1>2, <1>7
  <2>2. ~(f[k] < f[j]) /\ f[j] # f[k]
    BY <1>4, <1>7, <1>10
  <2> QED BY <2>1, <2>2
<1>11. ASSUME NEW i \in P
       PROVE  \E j \in 1 .. c : f[j] = i
  <2> DEFINE j == Cardinality(upTo(i))
  <2>1. j \in 1 .. c
    BY <1>3
  <2>2. f[j] \in P /\ Cardinality(upTo(f[j])) = j
    BY <1>7, <2>1
  <2>3. ~(f[j] < i) /\ ~(i < f[j])
    BY <1>2, <1>3, <1>4, <2>1, <2>2
  <2> QED BY <1>2, <2>1, <2>2, <2>3
<1>12. Picked(s, P) \in [1 .. c -> S]
  <2>1. \A i \in DOMAIN s : s[i] \in S
    BY <1>1, LenProperties
  <2>2. \A j \in 1 .. c : Picked(s, P)[j] \in S
    BY <1>7, <1>8, <2>1
  <2> QED BY <1>8, <2>2, Zenon
<1>13. Picked(s, P) \in Seq(S) /\ Len(Picked(s, P)) = c
  BY <1>2, <1>12, SeqDef, LenProperties
<1> QED BY <1>2, <1>8, <1>9, <1>10, <1>11, <1>13, <1>14 DEF c

LEMMA PickedItems ==
  ASSUME NEW S, NEW s \in Seq(S), NEW P \in SUBSET (DOMAIN s)
  PROVE  /\ Picked(s, P) \in Seq(S)
         /\ Cardinality(P) \in Nat /\ Len(Picked(s, P)) = Cardinality(P)
         /\ \E f \in [1 .. Cardinality(P) -> P] :
               /\ \A j, k \in 1 .. Cardinality(P) : j < k => f[j] < f[k]
               /\ \A i \in P : \E j \in 1 .. Cardinality(P) : f[j] = i
               /\ \A j \in 1 .. Cardinality(P) : Picked(s, P)[j] = s[f[j]]
BY PickedPlaces

(***************************************************************************)
(* Sequences put end to end.                                               *)
(***************************************************************************)

\* Where each item of the flattened sequence comes from.
Places(seqs, i) == {p \in (1 .. i) \X Nat : p[2] \in DOMAIN seqs[p[1]]}

IsFlat(F, seqs, i, at) ==
  /\ at \in [1 .. Len(F) -> Places(seqs, i)]
  /\ \A p \in 1 .. Len(F) : F[p] = seqs[at[p][1]][at[p][2]]
  /\ \A q \in Places(seqs, i) : \E p \in 1 .. Len(F) : at[p] = q
  /\ \A p, q \in 1 .. Len(F) : at[p] = at[q] => p = q

\* One more sequence at the end.
LEMMA OneMoreSequence ==
  ASSUME NEW S, NEW seqs \in Seq(Seq(S)), NEW i \in Nat, i + 1 \in DOMAIN seqs,
         NEW F \in Seq(S), NEW at, IsFlat(F, seqs, i, at)
  PROVE  /\ F \o seqs[i + 1] \in Seq(S)
         /\ \E to : IsFlat(F \o seqs[i + 1], seqs, i + 1, to)
<1> DEFINE b == seqs[i + 1]
           G == F \o b
           to == [p \in 1 .. Len(F) + Len(b) |->
                    IF p <= Len(F) THEN at[p] ELSE <<i + 1, p - Len(F)>>]
<1>1. b \in Seq(S) /\ DOMAIN b = 1 .. Len(b) /\ Len(b) \in Nat /\ Len(F) \in Nat
  <2>1. b \in Seq(S)
    BY LenProperties
  <2> HIDE DEF b
  <2> QED BY <2>1, LenProperties
<1> HIDE DEF b
<1>2. /\ G \in Seq(S) /\ Len(G) = Len(F) + Len(b)
      /\ \A p \in 1 .. Len(F) + Len(b) : G[p] = IF p <= Len(F) THEN F[p] ELSE b[p - Len(F)]
  BY <1>1, ConcatProperties
<1> HIDE DEF G
<1>3. /\ \A p \in 1 .. Len(F) : /\ at[p] \in Places(seqs, i)
                                /\ F[p] = seqs[at[p][1]][at[p][2]]
      /\ \A q \in Places(seqs, i) : \E p \in 1 .. Len(F) : at[p] = q
      /\ \A p, q \in 1 .. Len(F) : at[p] = at[q] => p = q
  BY DEF IsFlat
<1>4. ASSUME NEW p \in 1 .. Len(G)
      PROVE  \/ p \in 1 .. Len(F) /\ to[p] = at[p]
             \/ p - Len(F) \in 1 .. Len(b) /\ to[p] = <<i + 1, p - Len(F)>> /\ ~(p <= Len(F))
  BY <1>1, <1>2
<1>5. \A q \in Places(seqs, i) : q \in Places(seqs, i + 1) /\ q[1] \in 1 .. i
  BY DEF Places
<1>6. \A j \in 1 .. Len(b) : <<i + 1, j>> \in Places(seqs, i + 1)
  BY <1>1 DEF Places, b
<1>7. \A q \in Places(seqs, i + 1) : \/ q \in Places(seqs, i)
                                     \/ \E j \in 1 .. Len(b) : q = <<i + 1, j>>
  <2>1. SUFFICES ASSUME NEW q \in Places(seqs, i + 1), q \notin Places(seqs, i)
                 PROVE  \E j \in 1 .. Len(b) : q = <<i + 1, j>>
    OBVIOUS
  <2>2. q = <<q[1], q[2]>> /\ q[1] \in 1 .. i + 1 /\ q[2] \in Nat /\ q[2] \in DOMAIN seqs[q[1]]
    BY DEF Places
  <2>3. q[1] \notin 1 .. i
    BY <2>1, <2>2 DEF Places
  <2>4. q[1] = i + 1
    BY <2>2, <2>3
  <2>5. q[2] \in 1 .. Len(b)
    BY <1>1, <2>2, <2>4 DEF b
  <2> QED BY <2>2, <2>4, <2>5
<1>8. to = [p \in 1 .. Len(G) |-> to[p]] /\ DOMAIN to = 1 .. Len(G)
  BY <1>2
<1> HIDE DEF to
<1>9. to \in [1 .. Len(G) -> Places(seqs, i + 1)]
  <2>1. ASSUME NEW p \in 1 .. Len(G) PROVE to[p] \in Places(seqs, i + 1)
    <3>1. CASE p \in 1 .. Len(F) /\ to[p] = at[p]
      BY <1>3, <1>5, <3>1
    <3>2. CASE p - Len(F) \in 1 .. Len(b) /\ to[p] = <<i + 1, p - Len(F)>>
      BY <1>6, <3>2
    <3> QED BY <1>4, <3>1, <3>2
  <2> QED BY <1>8, <2>1, Zenon
<1>10. ASSUME NEW p \in 1 .. Len(G)
       PROVE  G[p] = seqs[to[p][1]][to[p][2]]
  <2>1. CASE p \in 1 .. Len(F) /\ to[p] = at[p]
    <3>1. G[p] = F[p]
      BY <1>1, <1>2, <2>1
    <3> QED BY <1>3, <2>1, <3>1
  <2>2. CASE p - Len(F) \in 1 .. Len(b) /\ to[p] = <<i + 1, p - Len(F)>> /\ ~(p <= Len(F))
    <3>1. G[p] = b[p - Len(F)]
      BY <1>1, <1>2, <2>2
    <3> QED BY <2>2, <3>1 DEF b
  <2> QED BY <1>4, <2>1, <2>2
<1>11. ASSUME NEW q \in Places(seqs, i + 1)
       PROVE  \E p \in 1 .. Len(G) : to[p] = q
  <2>1. CASE q \in Places(seqs, i)
    <3>1. PICK p \in 1 .. Len(F) : at[p] = q
      BY <1>3, <2>1
    <3>2. p \in 1 .. Len(G) /\ ~(p - Len(F) \in 1 .. Len(b))
      BY <1>1, <1>2
    <3> QED BY <1>4, <3>1, <3>2
  <2>2. ASSUME NEW j \in 1 .. Len(b), q = <<i + 1, j>> PROVE \E p \in 1 .. Len(G) : to[p] = q
    <3>1. Len(F) + j \in 1 .. Len(G) /\ ~(Len(F) + j <= Len(F)) /\ (Len(F) + j) - Len(F) = j
      BY <1>1, <1>2
    <3>2. Len(F) + j \notin 1 .. Len(F)
      BY <1>1
    <3>3. to[Len(F) + j] = <<i + 1, j>>
      BY <1>4, <3>1, <3>2
    <3> QED BY <2>2, <3>1, <3>3
  <2> QED BY <1>7, <2>1, <2>2
<1>12. ASSUME NEW p \in 1 .. Len(G), NEW q \in 1 .. Len(G), to[p] = to[q]
       PROVE  p = q
  <2>1. \A x, j : x \in Places(seqs, i) => x # <<i + 1, j>>
    BY <1>5
  <2>2. \A x \in 1 .. Len(F) : at[x] \in Places(seqs, i)
    BY <1>3
  <2>3. CASE p \in 1 .. Len(F) /\ to[p] = at[p]
    <3>1. q \in 1 .. Len(F) /\ to[q] = at[q]
      BY <1>4, <1>12, <2>1, <2>2, <2>3
    <3> QED BY <1>3, <1>12, <2>3, <3>1
  <2>4. CASE p - Len(F) \in 1 .. Len(b) /\ to[p] = <<i + 1, p - Len(F)>>
    <3>1. q - Len(F) \in 1 .. Len(b) /\ to[q] = <<i + 1, q - Len(F)>>
      BY <1>4, <1>12, <2>1, <2>2, <2>4
    <3>2. to[p][2] = p - Len(F) /\ to[q][2] = q - Len(F)
      BY <2>4, <3>1
    <3>3. p \in Int /\ q \in Int /\ Len(F) \in Int
      BY <1>1
    <3>4. p - Len(F) = q - Len(F)
      BY <1>12, <3>2
    <3> QED BY <3>3, <3>4
  <2> QED BY <1>4, <2>3, <2>4
<1> QED BY <1>2, <1>9, <1>10, <1>11, <1>12 DEF IsFlat, G, b

\* FlattenSeq keeps every item of every sequence, once.
LEMMA Flattens ==
  ASSUME NEW S, NEW seqs \in Seq(Seq(S))
  PROVE  /\ FlattenSeq(seqs) \in Seq(S)
         /\ \E at : IsFlat(FlattenSeq(seqs), seqs, Len(seqs), at)
<1> DEFINE n == Len(seqs)
           Step(f) == [i \in 1 .. n |-> IF i = 1 THEN seqs[i] ELSE f[i - 1] \o seqs[i]]
<1>1. n \in Nat /\ DOMAIN seqs = 1 .. n /\ \A i \in 1 .. n : seqs[i] \in Seq(S)
  BY LenProperties
<1>2. CASE n = 0
  <2>1. FlattenSeq(seqs) = seqs
    BY <1>2, Zenon DEF FlattenSeq
  <2>2. seqs = <<>>
    BY <1>1, <1>2, EmptySeq
  <2>3. <<>> \in Seq(S) /\ Len(<<>>) = 0
    BY EmptySeq
  <2>4. Places(seqs, 0) = {}
    BY DEF Places
  <2>5. IsFlat(<<>>, seqs, 0, <<>>)
    BY <2>3, <2>4 DEF IsFlat
  <2> QED BY <1>2, <2>1, <2>2, <2>3, <2>5
<1>3. CASE n # 0
  <2> DEFINE Partial(f, m) ==
        /\ DOMAIN f = 1 .. m
        /\ f[1] = seqs[1]
        /\ \A i \in 2 .. m : f[i] = f[i - 1] \o seqs[i]
             bad == {m \in 1 .. n : ~ \E f : Partial(f, m)}
  <2>1. bad = {}
    <3>1. SUFFICES ASSUME bad # {} PROVE FALSE
      OBVIOUS
    <3> DEFINE m == Min(bad)
    <3> HIDE DEF Partial
    <3>6. bad \in SUBSET Nat
      BY <1>1
    <3> HIDE DEF bad
    <3>2. m \in bad /\ \A j \in bad : m <= j
      BY <3>1, <3>6, FirstPlace
    <3>3. m \in 1 .. n /\ ~ \E f : Partial(f, m)
      BY <3>2 DEF bad
    <3> HIDE DEF m
    <3> USE DEF Partial
    <3>4. CASE m = 1
      <4> DEFINE f == [i \in 1 .. 1 |-> seqs[1]]
      <4>1. Partial(f, 1)
        OBVIOUS
      <4> QED BY <3>3, <3>4, <4>1
    <3>5. CASE m # 1
      <4>1. m - 1 \in 1 .. n /\ m - 1 \notin bad
        BY <1>1, <3>2, <3>3, <3>5
      <4>2. PICK f : Partial(f, m - 1)
        BY <4>1 DEF bad
      <4> DEFINE g == [i \in 1 .. m |-> IF i = m THEN f[m - 1] \o seqs[m] ELSE f[i]]
      <4>3. DOMAIN g = 1 .. m /\ g[1] = f[1]
        BY <1>1, <3>3, <3>5
      <4>4. \A i \in 2 .. m : g[i] = g[i - 1] \o seqs[i]
        <5>1. SUFFICES ASSUME NEW i \in 2 .. m PROVE g[i] = g[i - 1] \o seqs[i]
          OBVIOUS
        <5>2. m \in 1 .. m /\ i - 1 \in 1 .. m /\ i - 1 # m
          BY <1>1, <3>3
        <5>3. g[i - 1] = f[i - 1]
          BY <5>2
        <5>4. CASE i = m
          <6>1. g[m] = f[m - 1] \o seqs[m]
            BY <5>2
          <6> HIDE DEF g
          <6> QED BY <5>3, <5>4, <6>1
        <5>5. CASE i # m
          <6>1. i \in 2 .. m - 1 /\ i \in 1 .. m
            BY <5>2, <5>5
          <6> QED BY <4>2, <5>3, <5>5, <6>1
        <5> QED BY <5>4, <5>5
      <4>5. Partial(g, m)
        BY <4>2, <4>3, <4>4
      <4> QED BY <3>3, <4>5
    <3> QED BY <3>4, <3>5
  <2>2. n \in 1 .. n
    BY <1>1, <1>3
  <2>3. PICK f0 : Partial(f0, n)
    BY <2>1, <2>2
  <2> DEFINE f1 == [i \in 1 .. n |-> f0[i]]
  <2>4. f1 = Step(f1)
    <3>1. \A i \in 1 .. n : f1[i] = IF i = 1 THEN seqs[i] ELSE f1[i - 1] \o seqs[i]
      <4>1. SUFFICES ASSUME NEW i \in 1 .. n
                     PROVE  f1[i] = IF i = 1 THEN seqs[i] ELSE f1[i - 1] \o seqs[i]
        OBVIOUS
      <4>2. CASE i = 1
        BY <2>3, <4>2
      <4>3. CASE i # 1
        <5>1. i \in 2 .. n /\ i - 1 \in 1 .. n
          BY <1>1, <4>3
        <5> QED BY <2>3, <4>3, <5>1
      <4> QED BY <4>2, <4>3
    <3>2. f1 = [i \in 1 .. n |-> f1[i]]
      OBVIOUS
    <3> HIDE DEF f1
    <3> QED BY <3>1, <3>2
  <2> DEFINE flatten == CHOOSE f : f = Step(f)
  <2>5. flatten = Step(flatten)
    <3> HIDE DEF f1, Step
    <3>1. \E f : f = Step(f)
      BY <2>4
    <3> QED BY <3>1
  <2>6. FlattenSeq(seqs) = flatten[n]
    BY <1>3, Zenon DEF FlattenSeq
  <2> HIDE DEF flatten
  <2>7. flatten[1] = seqs[1] /\ \A i \in 1 .. n : (i # 1 => flatten[i] = flatten[i - 1] \o seqs[i])
    <3>1. 1 \in 1 .. n
      BY <1>1, <1>3
    <3>2. \A i \in 1 .. n : flatten[i] = IF i = 1 THEN seqs[i] ELSE flatten[i - 1] \o seqs[i]
      BY <2>5
    <3> HIDE DEF Step
    <3> QED BY <3>1, <3>2
  <2> DEFINE Good(i) == flatten[i] \in Seq(S) /\ \E at : IsFlat(flatten[i], seqs, i, at)
             wrong == {i \in 1 .. n : ~Good(i)}
  <2>8. wrong = {}
    <3>1. SUFFICES ASSUME wrong # {} PROVE FALSE
      OBVIOUS
    <3> DEFINE m == Min(wrong)
    <3> HIDE DEF Good
    <3>6. wrong \in SUBSET Nat
      BY <1>1
    <3> HIDE DEF wrong
    <3>2. m \in wrong /\ \A j \in wrong : m <= j
      BY <3>1, <3>6, FirstPlace
    <3>3. m \in 1 .. n /\ ~Good(m)
      BY <3>2 DEF wrong
    <3> HIDE DEF m
    <3>4. CASE m = 1
      <4> DEFINE F == seqs[1]
                 at == [p \in 1 .. Len(F) |-> <<1, p>>]
      <4>1. F \in Seq(S) /\ DOMAIN F = 1 .. Len(F) /\ Len(F) \in Nat /\ flatten[1] = F
        <5>1. F \in Seq(S) /\ flatten[1] = F
          BY <1>1, <2>7, <3>3, <3>4
        <5> HIDE DEF F
        <5> QED BY <5>1, LenProperties
      <4>2. Places(seqs, 1) = {<<1, p>> : p \in 1 .. Len(F)}
        BY <4>1 DEF Places
      <4>3. \A p \in 1 .. Len(F) : at[p] = <<1, p>> /\ at[p][1] = 1 /\ at[p][2] = p
        OBVIOUS
      <4>4. at \in [1 .. Len(F) -> Places(seqs, 1)]
        BY <4>2
      <4> HIDE DEF at
      <4>5. IsFlat(F, seqs, 1, at)
        BY <4>2, <4>3, <4>4, ZenonT(60) DEF IsFlat
      <4> QED BY <3>3, <3>4, <4>1, <4>5 DEF Good
    <3>5. CASE m # 1
      <4>1. m - 1 \in 1 .. n /\ m - 1 \notin wrong /\ m - 1 \in Nat /\ (m - 1) + 1 = m
        BY <1>1, <3>2, <3>3, <3>5
      <4>2. flatten[m - 1] \in Seq(S) /\ \E at : IsFlat(flatten[m - 1], seqs, m - 1, at)
        BY <4>1 DEF wrong, Good
      <4>3. flatten[m] = flatten[m - 1] \o seqs[m]
        BY <2>7, <3>3, <3>5
      <4>4. (m - 1) + 1 \in DOMAIN seqs
        BY <1>1, <3>3, <4>1
      <4>5. /\ flatten[m - 1] \o seqs[(m - 1) + 1] \in Seq(S)
            /\ \E to : IsFlat(flatten[m - 1] \o seqs[(m - 1) + 1], seqs, (m - 1) + 1, to)
        BY <4>1, <4>2, <4>4, OneMoreSequence
      <4>6. Good(m)
        BY <4>1, <4>3, <4>5 DEF Good
      <4> QED BY <3>3, <4>6
    <3> QED BY <3>4, <3>5
  <2>9. Good(n)
    BY <2>2, <2>8
  <2> QED BY <2>6, <2>9
<1> QED BY <1>2, <1>3

-----------------------------------------------------------------------------
(***************************************************************************)
(* The diagnosis (excel_diagnostic.py) and the problems recorded from it   *)
(* (excel_diagnostic_pipeline.py).                                         *)
(***************************************************************************)

\* A header is a row of the sheet, or 0.
LEMMA HeaderRow ==
  ASSUME NEW sheet
  PROVE  DetectHeaderRow(sheet) \in Nat
<1> DEFINE scanned == {n \in 1 .. Min({HEADER_SCAN_ROWS, Len(sheet.rows)}) :
                         /\ ~RowIsHidden(sheet.rows[n])
                         /\ Cardinality(Present(sheet.rows[n])) >= 2}
           score(n) == HeaderScore(sheet.rows[n])
           best == {n \in scanned : \A o \in scanned : ~Beats(score(o), score(n))}
           good == \E n \in best : 5 * score(n).num >= 9 * score(n).den
<1>1. DetectHeaderRow(sheet) = IF good THEN Min(best) ELSE 0
  BY Zenon DEF DetectHeaderRow
<1>2. scanned \in SUBSET Nat
  OBVIOUS
<1> HIDE DEF scanned, score
<1>3. best \in SUBSET Nat
  BY <1>2
<1>4. good => best # {}
  OBVIOUS
<1> HIDE DEF best, good
<1>5. CASE good
  <2>1. Min(best) \in best
    BY <1>3, <1>4, <1>5, FirstPlace
  <2>2. DetectHeaderRow(sheet) = Min(best)
    BY <1>1, <1>5
  <2> QED BY <1>3, <2>1, <2>2
<1>6. CASE ~good
  BY <1>1, <1>6
<1> QED BY <1>5, <1>6

\* What is known of a sheet that was not read.
LEMMA UnreadFields ==
  ASSUME NEW sheet
  PROVE  LET d == UnreadDiagnostic(sheet)
         IN /\ d.name = sheet.name /\ (d.limits <=> LimitsExceeded(sheet))
            /\ ~d.read /\ ~d.ignored /\ d.shown = sheet.shown
            /\ d.header = 0 /\ d.ids = <<>> /\ ~d.early
BY DEF UnreadDiagnostic

\* What the verdicts on a sheet that was read go by.
LEMMA ReadFields ==
  ASSUME NEW sheet
  PROVE  LET d == ReadDiagnostic(sheet)
         IN /\ d.name = sheet.name /\ (d.limits <=> LimitsExceeded(sheet))
            /\ d.read /\ ~d.ignored
            /\ d.header \in Nat /\ (d.header = 0 => d.ids = <<>>)
            /\ (d.early => d.header > 1)
<1> DEFINE h == DetectHeaderRow(sheet)
           data == VisibleDataRows(sheet, h)
           at(n, i) == Canon[sheet.rows[n].cells[i]]
           all == [i \in 1 .. Width(sheet) |-> [pos |-> i, text |-> at(h, i)]]
           headers == Picked(all, {i \in DOMAIN all : all[i].text # ""})
           ids == Picked(headers, {i \in DOMAIN headers : IsIdHeader(headers[i].text)})
           filled == {n \in data : at(n, ids[1].pos) # ""}
           formulas == \E n \in DOMAIN sheet.rows : Range(sheet.rows[n].cells) \cap Formulas # {}
           early == h # 1 /\ DataBeforeHeader(sheet, h)
           hiddenRows == HiddenDataRows(sheet, h) # {}
           headless == \E i \in 1 .. Width(sheet), n \in data : at(h, i) = "" /\ at(n, i) # ""
           alike == \E i, j \in DOMAIN headers : i # j /\ headers[i].text = headers[j].text
           duplicates == IF ids = <<>> THEN 0
                         ELSE Cardinality(filled) - Cardinality({at(n, ids[1].pos) : n \in filled})
           blanks == IF ids = <<>> THEN 0 ELSE Cardinality(data \ filled)
           seen == [UnreadDiagnostic(sheet) EXCEPT
                      !.read = TRUE, !.hiddenColumns = sheet.hiddenColumns,
                      !.merged = sheet.merged, !.formulas = formulas]
           d == ReadDiagnostic(sheet)
<1>1. d = IF h = 0 THEN seen
          ELSE [seen EXCEPT
                  !.header = h, !.headers = headers, !.ids = ids, !.early = early,
                  !.hiddenRows = hiddenRows, !.headless = headless,
                  !.duplicateHeaders = alike, !.duplicates = duplicates, !.blanks = blanks]
  BY Zenon DEF ReadDiagnostic
<1>2. h \in Nat
  BY HeaderRow
<1>3. early => h # 1
  BY DEF DataBeforeHeader
<1> HIDE DEF h, headers, ids, formulas, early, hiddenRows, headless, alike, duplicates, blanks
<1>4. /\ DOMAIN seen = DOMAIN UnreadDiagnostic(sheet)
      /\ seen.name = sheet.name /\ (seen.limits <=> LimitsExceeded(sheet))
      /\ seen.read /\ ~seen.ignored
      /\ seen.header = 0 /\ seen.ids = <<>> /\ ~seen.early
  BY DEF UnreadDiagnostic
<1>5. {"name", "limits", "read", "ignored", "header", "ids", "early"} \subseteq DOMAIN UnreadDiagnostic(sheet)
  BY DEF UnreadDiagnostic
<1> HIDE DEF seen, d
<1>6. CASE h = 0
  <2>1. d = seen
    BY <1>1, <1>6
  <2>2. d.header \in Nat /\ (d.early => d.header > 1)
    BY <1>4, <2>1
  <2> QED BY <1>4, <2>1, <2>2 DEF d
<1>7. CASE h # 0
  <2>1. /\ d.name = seen.name /\ d.limits = seen.limits /\ d.read = seen.read
        /\ d.ignored = seen.ignored /\ d.header = h /\ d.ids = ids /\ d.early = early
    BY <1>1, <1>4, <1>5, <1>7
  <2>2. d.header \in Nat /\ (d.early => d.header > 1)
    BY <1>2, <1>3, <1>7, <2>1
  <2> QED BY <1>4, <1>7, <2>1, <2>2 DEF d
<1> QED BY <1>6, <1>7

\* A sheet is read, skipped when it is empty, or left unread when it is too large.
LEMMA SheetKinds ==
  ASSUME NEW sheet
  PROVE  LET d == DiagnoseSheet(sheet)
         IN /\ d.name = sheet.name /\ (d.limits <=> LimitsExceeded(sheet)) /\ d.header \in Nat
            /\ ~d.limits => \/ d.ignored /\ ~d.read
                            \/ /\ ~d.ignored /\ d.read
                               /\ d.header = 0 => d.ids = <<>>
                               /\ d.early => d.header > 1
<1>1. CASE LimitsExceeded(sheet)
  <2>1. DiagnoseSheet(sheet) = UnreadDiagnostic(sheet)
    BY <1>1 DEF DiagnoseSheet
  <2>2. UnreadDiagnostic(sheet).header \in Nat
    BY UnreadFields
  <2> QED BY <1>1, <2>1, <2>2, UnreadFields
<1>2. CASE ~LimitsExceeded(sheet) /\ \A n \in DOMAIN sheet.rows : Present(sheet.rows[n]) = {}
  <2>1. DiagnoseSheet(sheet) = [UnreadDiagnostic(sheet) EXCEPT !.ignored = TRUE]
    BY <1>2 DEF DiagnoseSheet
  <2>2. LET d == DiagnoseSheet(sheet)
        IN d.name = sheet.name /\ (d.limits <=> LimitsExceeded(sheet)) /\ d.header = 0
           /\ d.ignored /\ ~d.read
    BY <2>1 DEF UnreadDiagnostic
  <2> QED BY <2>2
<1>3. CASE ~LimitsExceeded(sheet) /\ ~ \A n \in DOMAIN sheet.rows : Present(sheet.rows[n]) = {}
  <2>1. DiagnoseSheet(sheet) = ReadDiagnostic(sheet)
    BY <1>3 DEF DiagnoseSheet
  <2> QED BY <1>3, <2>1, ReadFields
<1> QED BY <1>1, <1>2, <1>3

\* What refuses a sheet that was diagnosed is a blocking problem, and only that.
LEMMA SheetVerdicts ==
  ASSUME NEW sheet, ~LimitsExceeded(sheet)
  PROVE  SheetImportable(DiagnoseSheet(sheet)) <=> ~IsBlocked(SheetProblems(DiagnoseSheet(sheet)))
<1> DEFINE d == DiagnoseSheet(sheet)
<1>1. /\ ~d.limits
      /\ \/ d.ignored /\ ~d.read
         \/ /\ ~d.ignored /\ d.read
            /\ d.header \in Nat
            /\ d.header = 0 => d.ids = <<>>
            /\ d.early => d.header > 1
  <2>1. ~LimitsExceeded(sheet)
    BY DEF LimitsExceeded
  <2> QED BY <2>1, SheetKinds
<1> HIDE DEF d
<1>2. CASE d.ignored /\ ~d.read
  <2>1. SheetBlockers(d) = {}
    BY <1>1, <1>2 DEF SheetBlockers
  <2>2. ~IsBlocked(SheetProblems(d))
    BY <1>1, <1>2 DEF IsBlocked, SheetProblems
  <2> QED BY <2>1, <2>2 DEF SheetImportable, d
<1>3. CASE ~d.ignored /\ d.read
  <2> DEFINE barred == \/ ~d.shown \/ d.hiddenColumns \/ d.merged \/ d.formulas \/ d.header = 0
                        \/ d.ids = <<>> \/ d.early \/ d.headless \/ Len(d.ids) > 1
                        \/ (Len(d.ids) = 1 /\ d.duplicates > 0)
  <2>1. SheetBlockers(d) # {} <=> barred
    BY <1>1, <1>3 DEF SheetBlockers
  <2>2. "early_rows" \in SheetBlockers(d) <=> d.early
    BY <1>1, <1>3 DEF SheetBlockers
  <2>3. IsBlocked(SheetProblems(d)) => barred
    BY <1>1, <1>3, <2>2 DEF IsBlocked, SheetProblems, Blocking, Warning
  <2>4. ASSUME barred PROVE IsBlocked(SheetProblems(d))
    <3> DEFINE codes == {"hidden_sheet", "hidden_columns", "merged", "formulas", "header_missing",
                         "header_multirow", "data_without_header", "id_missing",
                         "id_ambiguous", "id_duplicates"}
               tells(code) == \/ code = "hidden_sheet" /\ ~d.shown
                              \/ code = "hidden_columns" /\ d.hiddenColumns
                              \/ code = "merged" /\ d.merged
                              \/ code = "formulas" /\ d.formulas
                              \/ code = "header_missing" /\ d.header = 0
                              \/ code = "header_multirow" /\ d.early
                              \/ code = "data_without_header" /\ d.headless
                              \/ code = "id_missing" /\ d.ids = <<>>
                              \/ code = "id_ambiguous" /\ Len(d.ids) > 1
                              \/ code = "id_duplicates" /\ Len(d.ids) = 1 /\ d.duplicates > 0
    <3>1. \A code \in codes : Blocking(code).code = code /\ Blocking(code).severity = "bloquant"
      BY DEF Blocking
    <3>2. \E code \in codes : tells(code)
      BY <2>4
    <3>3. PICK code \in codes : tells(code)
      BY <3>2
    <3>4. Blocking(code) \in SheetProblems(d)
      BY <1>1, <1>3, <2>2, <3>1, <3>3 DEF SheetProblems
    <3> QED BY <3>1, <3>4 DEF IsBlocked
  <2> QED BY <2>1, <2>3, <2>4 DEF SheetImportable, d
<1> QED BY <1>1, <1>2, <1>3

\* The same for a workbook, of which one sheet too large leaves all unread.
LEMMA WorkbookVerdicts ==
  ASSUME NEW w
  PROVE  DiagnoseWorkbook(w).importable <=> ~IsBlocked(DiagnosisProblems(DiagnoseWorkbook(w)))
<1> DEFINE stopped == \E k \in DOMAIN w : LimitsExceeded(w[k])
           sheets == [k \in DOMAIN w |-> IF stopped THEN UnreadDiagnostic(w[k]) ELSE DiagnoseSheet(w[k])]
           meet == CsvHeaderCollisions(sheets)
           D == DiagnoseWorkbook(w)
<1>1. D = [sheets |-> sheets, collisions |-> meet,
           importable |-> (\A k \in DOMAIN sheets : SheetImportable(sheets[k])) /\ meet = {}]
  BY Zenon DEF DiagnoseWorkbook
<1> HIDE DEF meet, D
<1>2. /\ D.sheets = sheets /\ D.collisions = meet
      /\ D.importable <=> (\A k \in DOMAIN sheets : SheetImportable(sheets[k])) /\ meet = {}
  BY <1>1
<1> HIDE DEF sheets
<1>3. IsBlocked(DiagnosisProblems(D)) <=>
         (\E k \in DOMAIN sheets : IsBlocked(SheetProblems(sheets[k]))) \/ meet # {}
  <2>1. ASSUME IsBlocked(DiagnosisProblems(D)), meet = {}
        PROVE  \E k \in DOMAIN sheets : IsBlocked(SheetProblems(sheets[k]))
    BY <1>2, <2>1 DEF IsBlocked, DiagnosisProblems
  <2>2. ASSUME NEW k \in DOMAIN sheets, IsBlocked(SheetProblems(sheets[k]))
        PROVE  IsBlocked(DiagnosisProblems(D))
    <3>1. PICK p \in SheetProblems(sheets[k]) : p.severity = "bloquant"
      BY <2>2 DEF IsBlocked
    <3>2. p \in DiagnosisProblems(D)
      BY <1>2 DEF DiagnosisProblems
    <3> QED BY <3>1, <3>2 DEF IsBlocked
  <2>3. ASSUME meet # {} PROVE IsBlocked(DiagnosisProblems(D))
    <3> DEFINE p == Blocking("csv_header_collision")
    <3>1. \E n \in D.collisions : TRUE
      BY <1>2, <2>3
    <3>2. p \in {Blocking("csv_header_collision") : n \in D.collisions}
      BY <3>1
    <3> HIDE DEF p
    <3>4. p \in DiagnosisProblems(D)
      BY <3>2, Zenon DEF DiagnosisProblems
    <3>3. p.severity = "bloquant"
      BY DEF Blocking, p
    <3> QED BY <3>3, <3>4 DEF IsBlocked
  <2> QED BY <2>1, <2>2, <2>3
<1>4. CASE stopped
  <2>1. PICK k \in DOMAIN w : LimitsExceeded(w[k])
    BY <1>4
  <2>2. k \in DOMAIN sheets /\ sheets[k] = UnreadDiagnostic(w[k])
    BY <1>4 DEF sheets
  <2>3. sheets[k].limits
    BY <2>1, <2>2, UnreadFields
  <2>4. ~SheetImportable(sheets[k])
    BY <2>3 DEF SheetImportable, SheetBlockers
  <2>5. IsBlocked(SheetProblems(sheets[k]))
    BY <2>3 DEF IsBlocked, SheetProblems, Blocking
  <2> QED BY <1>2, <1>3, <2>2, <2>4, <2>5 DEF D
<1>5. CASE ~stopped
  <2>1. \A k \in DOMAIN sheets : SheetImportable(sheets[k]) <=> ~IsBlocked(SheetProblems(sheets[k]))
    BY <1>5, SheetVerdicts DEF sheets
  <2> QED BY <1>2, <1>3, <2>1 DEF D
<1> QED BY <1>4, <1>5

-----------------------------------------------------------------------------
(***************************************************************************)
(* The inductive invariant.  What is deposited, what was found in it and   *)
(* the sheets the mapping takes go together for as long as the rows are    *)
(* merged and after.                                                       *)
(***************************************************************************)
Diagnosed == diagnosis # None => diagnosis = DiagnoseWorkbook(workbook)

Mapped == mapping # None => /\ diagnosis # None
                            /\ mapping.sheets = DefaultMapping(diagnosis).sheets
                            /\ mapping.sheets # <<>>

OneAtATime == /\ merge # None => mapping # None /\ fusion = None
              /\ fusion # None => mapping # None

\* the rows of a table, one for each identifier, in the order of their ranks
OneEach(rows) ==
    \A i, j \in DOMAIN rows : i < j => rows[i].id # rows[j].id /\ rows[i].rank < rows[j].rank

TableGrows ==
    merge # None =>
        /\ merge.rows \in Seq(Range(merge.rows)) /\ merge.rank \in Nat
        /\ \A i \in DOMAIN merge.rows :
              /\ DOMAIN merge.rows[i] = {"rank", "id", "values"}
              /\ merge.rows[i].rank \in 1 .. merge.rank
        /\ OneEach(merge.rows)

TableIsDone == fusion # None /\ ~fusion.blocked => OneEach(fusion.table.rows)

Content == /\ workbook \in Workbooks
           /\ Diagnosed /\ Mapped /\ OneAtATime

\* where the merge stands
MergeFields ==
    {"sheet", "row", "seen", "rows", "rank", "sourceRows", "withoutId", "duplicates"}

Cursor ==
    merge # None => /\ DOMAIN merge = MergeFields
                    /\ merge.sheet \in DOMAIN mapping.sheets
                    /\ merge.row \in Nat /\ merge.row > mapping.sheets[merge.sheet].header

IInv == Content /\ Cursor /\ TableGrows /\ TableIsDone

\* what the merge has taken and what it says of that
Identifier(r) == IdAt(r[1], r[2])

Taken == {r \in SourceRows : \/ r[1] < merge.sheet
                             \/ r[1] = merge.sheet /\ r[2] < merge.row}

Twice(rows) == \E r, s \in rows : /\ r # s /\ r[1] = s[1]
                                  /\ Identifier(r) # "" /\ Identifier(r) = Identifier(s)

Tallied ==
    merge # None =>
        /\ IsFiniteSet(Taken)
        /\ merge.sourceRows = Cardinality(Taken)
        /\ merge.withoutId = Cardinality({r \in Taken : Identifier(r) = ""})
        /\ merge.duplicates \in Nat
        /\ (merge.duplicates > 0) <=> Twice(Taken)

Named ==
    merge # None =>
        /\ merge.seen = {Identifier(r) : r \in {x \in Taken : x[1] = merge.sheet}} \ {""}
        /\ {merge.rows[i].id : i \in DOMAIN merge.rows} = {Identifier(r) : r \in Taken} \ {""}

\* every hidden row of the file is spelled as the merge expects it
SpelledAsOne ==
    \A w \in Workbooks : \A k \in DOMAIN w : \A n \in DOMAIN w[k].rows :
        w[k].rows[n].hidden \in {"no", "1"}

\* The sheets a mapping takes are sheets of the workbook.
LEMMA SheetsOfTheMapping ==
  ASSUME NEW w \in Workbooks
  PROVE  LET m == DefaultMapping(DiagnoseWorkbook(w)).sheets
         IN /\ Len(m) \in Nat /\ DOMAIN m = 1 .. Len(m)
            /\ \A k \in DOMAIN m : /\ m[k].header \in Nat
                                   /\ \E j \in DOMAIN w : w[j].name = m[k].name
<1> DEFINE D == DiagnoseWorkbook(w)
           S == {D.sheets[k] : k \in DOMAIN D.sheets}
           places == {k \in DOMAIN D.sheets : /\ ~D.sheets[k].ignored /\ SheetImportable(D.sheets[k])
                                              /\ D.sheets[k].header # 0}
           u == UsefulSheets(D)
           m == [k \in DOMAIN u |-> [name |-> u[k].name, header |-> u[k].header]]
<1>1. PICK n \in Nat : DOMAIN w = 1 .. n
  BY WorkbookAssumption, LenProperties
<1>2. /\ DOMAIN D.sheets = DOMAIN w
      /\ \A k \in DOMAIN w : D.sheets[k].name = w[k].name /\ D.sheets[k].header \in Nat
  <2> DEFINE stopped == \E k \in DOMAIN w : LimitsExceeded(w[k])
             sheets == [k \in DOMAIN w |-> IF stopped THEN UnreadDiagnostic(w[k]) ELSE DiagnoseSheet(w[k])]
  <2>1. D.sheets = sheets
    BY DEF DiagnoseWorkbook
  <2> HIDE DEF D, stopped
  <2>2. ASSUME NEW k \in DOMAIN w
        PROVE  sheets[k].name = w[k].name /\ sheets[k].header \in Nat
    <3>1. UnreadDiagnostic(w[k]).name = w[k].name /\ UnreadDiagnostic(w[k]).header \in Nat
      BY UnreadFields
    <3>2. DiagnoseSheet(w[k]).name = w[k].name /\ DiagnoseSheet(w[k]).header \in Nat
      BY SheetKinds
    <3> QED BY <3>1, <3>2
  <2> QED BY <2>1, <2>2
<1> HIDE DEF D
<1>3. D.sheets \in Seq(S)
  <2>1. D.sheets = [k \in 1 .. n |-> D.sheets[k]]
    <3>1. \E f : D.sheets = [k \in DOMAIN w |-> f[k]]
      <4> DEFINE f == [k \in DOMAIN w |->
                         IF \E j \in DOMAIN w : LimitsExceeded(w[j])
                         THEN UnreadDiagnostic(w[k]) ELSE DiagnoseSheet(w[k])]
      <4>1. D.sheets = f /\ f = [k \in DOMAIN w |-> f[k]]
        BY DEF D, DiagnoseWorkbook
      <4> HIDE DEF f
      <4> QED BY <4>1
    <3> QED BY <1>1, <3>1
  <2>2. D.sheets \in [1 .. n -> S]
    BY <1>1, <1>2, <2>1
  <2> QED BY <2>2, SeqDef
<1>4. u = Picked(D.sheets, places)
  BY DEF UsefulSheets
<1> HIDE DEF S, places, u
<1>5. /\ u \in Seq(S)
      /\ \A k \in DOMAIN u : u[k] \in S
  <2>1. places \in SUBSET (DOMAIN D.sheets)
    BY DEF places
  <2>2. u \in Seq(S)
    BY <1>3, <1>4, <2>1, PickedItems
  <2> QED BY <2>2, LenProperties
<1>6. \A k \in DOMAIN u : /\ u[k].header \in Nat
                          /\ \E j \in DOMAIN w : w[j].name = u[k].name
  BY <1>2, <1>5 DEF S
<1>7. DefaultMapping(D).sheets = m
  BY DEF DefaultMapping, u
<1>8. Len(m) \in Nat /\ DOMAIN m = 1 .. Len(m)
  <2>1. Len(u) \in Nat /\ DOMAIN u = 1 .. Len(u)
    BY <1>5, LenProperties
  <2> DEFINE T == {m[k] : k \in DOMAIN u}
  <2>2. m \in [1 .. Len(u) -> T]
    BY <2>1
  <2> HIDE DEF m, T
  <2>3. m \in Seq(T)
    BY <2>1, <2>2, SeqDef
  <2> QED BY <2>3, LenProperties
<1>9. \A k \in DOMAIN m : /\ m[k].header \in Nat
                          /\ \E j \in DOMAIN w : w[j].name = m[k].name
  BY <1>6
<1> HIDE DEF m
<1> QED BY <1>7, <1>8, <1>9 DEF D

\* A mapping without a sheet has no column to export, and is refused.
LEMMA NoSheetNoMapping ==
  ASSUME NEW D, NEW s, DefaultMapping(D).sheets = <<>>
  PROVE  ValidationErrors(FromSubmission(DefaultMapping(D), s)) # {}
<1> DEFINE sheets == UsefulSheets(D)
           default == DefaultMapping(D)
           m == FromSubmission(default, s)
<1>1. default.sheets = [k \in DOMAIN sheets |-> [name |-> sheets[k].name, header |-> sheets[k].header]]
  BY DEF DefaultMapping
<1>2. DOMAIN sheets = {}
  BY <1>1
<1>3. default.columns = FlattenSeq([k \in DOMAIN sheets |-> SheetColumns(sheets[k], k = 1)])
  BY DEF DefaultMapping
<1>4. DOMAIN default.columns = {}
  <2> DEFINE c == [k \in DOMAIN sheets |-> SheetColumns(sheets[k], k = 1)]
  <2>1. c = <<>>
    BY <1>2
  <2>2. Len(c) = 0
    BY <2>1, EmptySeq
  <2> HIDE DEF c
  <2>3. FlattenSeq(c) = c
    BY <2>2, Zenon DEF FlattenSeq
  <2> QED BY <1>3, <2>1, <2>3 DEF c
<1>5. DOMAIN m.columns = {}
  <2>1. "columns" \in DOMAIN default
    BY DEF DefaultMapping
  <2> HIDE DEF default
  <2> QED BY <1>4, <2>1 DEF FromSubmission
<1> HIDE DEF m
<1>6. DOMAIN Exported(m) = {}
  <2>1. {i \in DOMAIN m.columns : m.columns[i].exported} = {}
    BY <1>5
  <2>2. Exported(m) = Picked(m.columns, {})
    BY <2>1 DEF Exported
  <2>3. Cardinality({}) = 0
    BY FS_EmptySet
  <2> QED BY <2>2, <2>3 DEF Picked
<1>7. "no_business_column" \in ValidationErrors(m)
  BY <1>6 DEF ValidationErrors
<1> QED BY <1>7 DEF m

-----------------------------------------------------------------------------
(***************************************************************************)
(* The steps, by what they do to the merge.                                *)
(***************************************************************************)

Carried == UNCHANGED <<workbook, diagnosis, mapping, merge, fusion>>

Replaced == /\ workbook' \in Workbooks
            /\ diagnosis' = None /\ mapping' = None /\ merge' = None /\ fusion' = None

NoLongerMapped == /\ merge = None /\ fusion = None /\ mapping' = None
                  /\ UNCHANGED <<workbook, diagnosis, merge, fusion>>

Remapped == /\ diagnosis # None
            /\ mapping'.sheets = DefaultMapping(diagnosis).sheets
            /\ mapping'.sheets # <<>>
            /\ merge' = None /\ fusion' = None /\ UNCHANGED <<workbook, diagnosis>>

LEMMA StepsOfALot ==
  ASSUME [Next]_vars
  PROVE  \/ Carried \/ Replaced \/ Diagnose \/ NoLongerMapped \/ Remapped
         \/ StartMerge \/ MergeRow \/ NextSheet \/ FinishMerge
<1>1. ASSUME NEW w \in Redeposits, Deposit(w) PROVE Replaced
  BY <1>1, TableAssumption DEF Deposit, DownstreamGone, Replaced
<1>2. ASSUME NEW s, SaveDraft(Default, s, "draft"), MappingReady, SubmissionBound
      PROVE  NoLongerMapped
  BY <1>2 DEF SaveDraft, MappingReady, SubmissionBound, NoLongerMapped, products
<1>3. ASSUME NEW s, ValidateMapping(Default, s), MappingReady
      PROVE  Remapped
  <2> DEFINE m == FromSubmission(Default, s)
  <2>1. /\ mapping' = m /\ ValidationErrors(m) = {}
        /\ diagnosis # None /\ merge' = None /\ fusion' = None
        /\ UNCHANGED <<workbook, diagnosis>>
    BY <1>3 DEF ValidateMapping, MappingReady, DownstreamGone
  <2>2. m.sheets = Default.sheets
    <3>1. "sheets" \in DOMAIN Default
      BY DEF Default, DefaultMapping
    <3> QED BY <3>1 DEF FromSubmission
  <2>3. Default.sheets # <<>>
    BY <2>1, NoSheetNoMapping DEF Default
  <2> HIDE DEF m
  <2> QED BY <2>1, <2>2, <2>3 DEF Remapped, Default
<1>4. ASSUME NEW s, RefuseMapping(Default, s) PROVE Carried
  BY <1>4 DEF RefuseMapping, Carried, products
<1>5. ASSUME SaveProfile PROVE Carried
  BY <1>5 DEF SaveProfile, Carried, products
<1>6. ASSUME ApplyProfile PROVE NoLongerMapped
  BY <1>6 DEF ApplyProfile, SaveDraft, MappingReady, SubmissionBound, NoLongerMapped, products
<1>7. ASSUME Normalize \/ VerifyContract \/ (\E d \in Decisions : Sort(d)) \/ ValidatePreview
      PROVE  Carried
  BY <1>7, Zenon DEF Normalize, VerifyContract, Sort, ValidatePreview, Carried
<1>8. CASE UNCHANGED vars
  BY <1>8 DEF vars, products, Carried
<1>9. CASE Next
  <2>1. ASSUME MappingReady, SubmissionBound,
               NEW s \in Submissions(Default),
               SaveDraft(Default, s, "draft") \/ ValidateMapping(Default, s) \/ RefuseMapping(Default, s)
        PROVE  NoLongerMapped \/ Remapped \/ Carried
    BY <1>2, <1>3, <1>4, <2>1
  <2> QED BY <1>1, <1>5, <1>6, <1>7, <1>9, <2>1 DEF Next
<1> QED BY <1>8, <1>9

\* What the merge reads: the sheets of the mapping are those of the workbook.
LEMMA MergeReads ==
  ASSUME Content, mapping # None
  PROVE  /\ Len(mapping.sheets) \in Nat \ {0} /\ DOMAIN mapping.sheets = 1 .. Len(mapping.sheets)
         /\ \A k \in DOMAIN mapping.sheets :
               /\ mapping.sheets[k].header \in Nat
               /\ SheetNamed(mapping.sheets[k].name) \in {workbook[j] : j \in DOMAIN workbook}
               /\ SheetNamed(mapping.sheets[k].name).name = mapping.sheets[k].name
<1> DEFINE m == mapping.sheets
<1>1. m = DefaultMapping(DiagnoseWorkbook(workbook)).sheets /\ m # <<>> /\ workbook \in Workbooks
  BY DEF Content, Mapped, Diagnosed
<1> HIDE DEF m
<1>2. /\ Len(m) \in Nat /\ DOMAIN m = 1 .. Len(m)
      /\ \A k \in DOMAIN m : /\ m[k].header \in Nat
                             /\ \E j \in DOMAIN workbook : workbook[j].name = m[k].name
  BY <1>1, SheetsOfTheMapping
<1>3. Len(m) # 0
  <2>1. SUFFICES ASSUME Len(m) = 0 PROVE FALSE
    OBVIOUS
  <2> DEFINE sheets == UsefulSheets(DiagnoseWorkbook(workbook))
  <2>2. m = [k \in DOMAIN sheets |-> [name |-> sheets[k].name, header |-> sheets[k].header]]
    BY <1>1 DEF DefaultMapping
  <2>3. m = <<>>
    BY <1>2, <2>1, <2>2
  <2> QED BY <1>1, <2>3
<1>4. ASSUME NEW k \in DOMAIN m
      PROVE  /\ SheetNamed(m[k].name) \in {workbook[j] : j \in DOMAIN workbook}
             /\ SheetNamed(m[k].name).name = m[k].name
  <2>1. \E j \in DOMAIN workbook : workbook[j].name = m[k].name
    BY <1>2
  <2> QED BY <2>1 DEF SheetNamed
<1> QED BY <1>2, <1>3, <1>4 DEF m

LEMMA ContentInit ==
  Init => Content
BY DEF Init, Content, Diagnosed, Mapped, OneAtATime

LEMMA ContentStep ==
  ASSUME Content, [Next]_vars
  PROVE  Content'
<1> USE DEF Content, Diagnosed, Mapped, OneAtATime
<1>1. CASE Carried
  BY <1>1 DEF Carried
<1>2. CASE Replaced
  BY <1>2 DEF Replaced
<1>3. CASE Diagnose
  BY <1>3 DEF Diagnose, products
<1>4. CASE NoLongerMapped
  BY <1>4 DEF NoLongerMapped
<1>5. CASE Remapped
  BY <1>5 DEF Remapped
<1>6. CASE StartMerge
  BY <1>6 DEF StartMerge, products
<1>7. CASE MergeRow
  BY <1>7, Zenon DEF MergeRow, products
<1>8. CASE NextSheet
  BY <1>8 DEF NextSheet, products
<1>9. CASE FinishMerge
  BY <1>9 DEF FinishMerge
<1> QED BY <1>1, <1>2, <1>3, <1>4, <1>5, <1>6, <1>7, <1>8, <1>9, StepsOfALot

\* The verdict the mapping goes by and the one the step is blocked by are the
\* same (diagnose_sheet, sheet_problems), for whatever workbook.
THEOREM VerdictsAgree == Spec => []DiagnosisTellsItsProblems
<1>1. Init => Content
  BY ContentInit
<1>2. Content /\ [Next]_vars => Content'
  BY ContentStep
<1>3. Content => DiagnosisTellsItsProblems
  BY WorkbookVerdicts DEF Content, Diagnosed, DiagnosisTellsItsProblems
<1> QED BY <1>1, <1>2, <1>3, PTL DEF Spec

-----------------------------------------------------------------------------
(***************************************************************************)
(* The table (build_flat_merge).                                           *)
(***************************************************************************)

\* A row written into the table is the row of its identifier, the one it had
\* or one more at the end; the other rows stay.
LEMMA RowWritten ==
  ASSUME NEW rows, rows \in Seq(Range(rows)), NEW rank, NEW id, NEW cells, NEW sheet,
         \A i \in DOMAIN rows : DOMAIN rows[i] = {"rank", "id", "values"}
  PROVE  LET new == WithRow(rows, rank, id, cells, sheet)
         IN /\ new \in Seq(Range(new))
            /\ Len(rows) \in Nat /\ DOMAIN rows = 1 .. Len(rows)
            /\ \E n \in Nat :
                  /\ DOMAIN new = 1 .. n
                  /\ \A i \in 1 .. n : DOMAIN new[i] = {"rank", "id", "values"}
                  /\ \A i \in DOMAIN rows : /\ i \in DOMAIN new
                                            /\ new[i].rank = rows[i].rank /\ new[i].id = rows[i].id
                  /\ \/ n = Len(rows) /\ \E i \in DOMAIN rows : rows[i].id = id
                     \/ /\ n = Len(rows) + 1
                        /\ \A i \in DOMAIN rows : rows[i].id # id
                        /\ new[n].rank = rank /\ new[n].id = id
<1> DEFINE same == {i \in 1 .. Len(rows) : rows[i].id = id}
           old == RowOf(rows, id)
           at == IF old = 0 THEN Len(rows) + 1 ELSE old
           base == IF old = 0
                   THEN [rank |-> rank, id |-> id, values |-> [EmptyValues EXCEPT ![IdName] = id]]
                   ELSE rows[old]
           copied == CopiedColumns(mapping, sheet)
           written == [n \in DOMAIN base.values |->
                         LET from == SelectLastInSeq(copied, LAMBDA c : c.name = n)
                         IN IF from = 0 THEN base.values[n] ELSE cells[copied[from].pos]]
           size == Max({Len(rows), at})
           new == WithRow(rows, rank, id, cells, sheet)
<1>1. Len(rows) \in Nat /\ DOMAIN rows = 1 .. Len(rows)
  BY LenProperties
<1>2. new = [i \in 1 .. size |-> IF i = at THEN [base EXCEPT !.values = written] ELSE rows[i]]
  BY Zenon DEF WithRow
<1>3. old = IF same # {} THEN Min(same) ELSE 0
  BY DEF RowOf, SelectInSeq
<1>4. same \in SUBSET Nat
  BY <1>1
<1>5. \/ old = 0 /\ \A i \in DOMAIN rows : rows[i].id # id
      \/ old \in DOMAIN rows /\ rows[old].id = id
  <2>1. CASE same = {}
    BY <1>1, <1>3, <2>1
  <2>2. CASE same # {}
    <3> HIDE DEF old, same
    <3>1. Min(same) \in same
      BY <1>4, <2>2, FirstPlace
    <3>2. old \in same
      BY <1>3, <2>2, <3>1
    <3> QED BY <1>1, <3>2 DEF same
  <2> QED BY <2>1, <2>2
<1> HIDE DEF old, same, written
<1>6. \/ old = 0 /\ size = Len(rows) + 1
      \/ old # 0 /\ size = Len(rows)
  <2>1. at \in Nat /\ (IF old = 0 THEN at = Len(rows) + 1 ELSE at <= Len(rows))
    BY <1>1, <1>5
  <2> HIDE DEF at
  <2>2. \E x \in {Len(rows), at} : \A y \in {Len(rows), at} : x >= y
    BY <1>1, <2>1
  <2>3. size \in {Len(rows), at} /\ \A y \in {Len(rows), at} : size >= y
    BY <2>2 DEF Max
  <2> QED BY <1>1, <2>1, <2>3
<1>7. DOMAIN base = {"rank", "id", "values"}
  BY <1>5
<1> DEFINE touched == [base EXCEPT !.values = written]
<1>8. DOMAIN touched = {"rank", "id", "values"} /\ touched.rank = base.rank /\ touched.id = base.id
  BY <1>7
<1> HIDE DEF base, size, new
<1>9. size \in Nat
  BY <1>1, <1>6
<1>10. DOMAIN new = 1 .. size /\ \A i \in 1 .. size : new[i] = IF i = at THEN touched ELSE rows[i]
  BY <1>2
<1>11. new \in Seq(Range(new))
  <2>1. new = [i \in 1 .. size |-> new[i]]
    <3> DEFINE f == [i \in 1 .. size |-> IF i = at THEN touched ELSE rows[i]]
    <3>1. f = [i \in 1 .. size |-> f[i]]
      OBVIOUS
    <3> HIDE DEF f
    <3>2. new = f
      BY <1>2 DEF f
    <3> QED BY <3>1, <3>2
  <2>2. \A i \in 1 .. size : new[i] \in Range(new)
    BY <1>10 DEF Range
  <2>3. new \in [1 .. size -> Range(new)]
    BY <2>1, <2>2, Zenon
  <2> QED BY <1>9, <2>3, SeqDef
<1> HIDE DEF touched
<1>12. \A i \in 1 .. size : DOMAIN new[i] = {"rank", "id", "values"}
  BY <1>1, <1>5, <1>6, <1>8, <1>10
<1>13. ASSUME NEW i \in DOMAIN rows
       PROVE  i \in DOMAIN new /\ new[i].rank = rows[i].rank /\ new[i].id = rows[i].id
  <2>1. i \in 1 .. size
    BY <1>1, <1>6
  <2>2. CASE i = at
    <3>1. i = old /\ base = rows[i]
      BY <1>1, <1>5, <2>2 DEF base
    <3> QED BY <1>8, <1>10, <2>1, <2>2, <3>1
  <2>3. CASE i # at
    BY <1>10, <2>1, <2>3
  <2> QED BY <2>2, <2>3
<1>14. CASE old = 0
  <2>1. at = size /\ size = Len(rows) + 1 /\ base.rank = rank /\ base.id = id
    BY <1>6, <1>14 DEF base
  <2>2. new[size].rank = rank /\ new[size].id = id
    BY <1>1, <1>8, <1>10, <2>1
  <2>3. \A i \in DOMAIN rows : rows[i].id # id
    BY <1>1, <1>5, <1>14
  <2> QED BY <1>1, <1>9, <1>10, <1>11, <1>12, <1>13, <2>1, <2>2, <2>3 DEF new
<1>15. CASE old # 0
  <2>1. size = Len(rows) /\ \E i \in DOMAIN rows : rows[i].id = id
    BY <1>5, <1>6, <1>15
  <2> QED BY <1>1, <1>9, <1>10, <1>11, <1>12, <1>13, <2>1 DEF new
<1> QED BY <1>14, <1>15

\* What a row of a sheet does to the merge.
LEMMA RowTaken ==
  ASSUME DOMAIN merge = MergeFields, MergeRow
  PROVE  LET sheet == SheetNamed(mapping.sheets[merge.sheet].name)
             row == sheet.rows[merge.row]
             id == Ident[row.cells[IdColumn(mapping, sheet.name).pos]]
         IN /\ merge # None /\ UNCHANGED <<workbook, diagnosis, mapping, fusion>>
            /\ merge.row \in DOMAIN sheet.rows
            /\ DOMAIN merge' = MergeFields
            /\ merge'.sheet = merge.sheet /\ merge'.row = merge.row + 1
            /\ \/ /\ PassedOver(row)
                  /\ merge'.seen = merge.seen /\ merge'.rows = merge.rows /\ merge'.rank = merge.rank
                  /\ merge'.sourceRows = merge.sourceRows /\ merge'.withoutId = merge.withoutId
                  /\ merge'.duplicates = merge.duplicates
               \/ /\ ~PassedOver(row) /\ id = ""
                  /\ merge'.seen = merge.seen /\ merge'.rows = merge.rows /\ merge'.rank = merge.rank
                  /\ merge'.sourceRows = merge.sourceRows + 1
                  /\ merge'.withoutId = merge.withoutId + 1
                  /\ merge'.duplicates = merge.duplicates
               \/ /\ ~PassedOver(row) /\ id # "" /\ id \in merge.seen
                  /\ merge'.seen = merge.seen /\ merge'.rows = merge.rows /\ merge'.rank = merge.rank
                  /\ merge'.sourceRows = merge.sourceRows + 1
                  /\ merge'.withoutId = merge.withoutId
                  /\ merge'.duplicates = merge.duplicates + 1
               \/ /\ ~PassedOver(row) /\ id # "" /\ id \notin merge.seen
                  /\ merge'.seen = merge.seen \cup {id} /\ merge'.rank = merge.rank + 1
                  /\ merge'.rows = WithRow(merge.rows, merge.rank + 1, id, row.cells, sheet.name)
                  /\ merge'.sourceRows = merge.sourceRows + 1
                  /\ merge'.withoutId = merge.withoutId
                  /\ merge'.duplicates = merge.duplicates
<1> DEFINE sheet == SheetNamed(mapping.sheets[merge.sheet].name)
           row == sheet.rows[merge.row]
           id == Ident[row.cells[IdColumn(mapping, sheet.name).pos]]
           next == [merge EXCEPT !.row = @ + 1]
           counted == [next EXCEPT !.sourceRows = @ + 1]
           written == WithRow(merge.rows, merge.rank + 1, id, row.cells, sheet.name)
<1>1. /\ merge # None /\ UNCHANGED <<workbook, diagnosis, mapping, fusion>>
      /\ merge.row \in DOMAIN sheet.rows
  BY Zenon DEF MergeRow, products
<1>2. next.rows = merge.rows
  BY DEF MergeFields
<1>3. \/ PassedOver(row) /\ merge' = next
      \/ ~PassedOver(row) /\ id = "" /\ merge' = [counted EXCEPT !.withoutId = @ + 1]
      \/ /\ ~PassedOver(row) /\ id # "" /\ id \in merge.seen
         /\ merge' = [counted EXCEPT !.duplicates = @ + 1]
      \/ /\ ~PassedOver(row) /\ id # "" /\ id \notin merge.seen
         /\ merge' = [counted EXCEPT !.seen = @ \cup {id}, !.rank = @ + 1, 
                        !.rows = WithRow(@, merge.rank + 1, id, row.cells, sheet.name)]
  BY Zenon DEF MergeRow
<1>4. [counted EXCEPT !.seen = @ \cup {id}, !.rank = @ + 1,
          !.rows = WithRow(@, merge.rank + 1, id, row.cells, sheet.name)]
      = [counted EXCEPT !.seen = @ \cup {id}, !.rank = @ + 1, !.rows = written]
  <2>1. counted.rows = merge.rows
    BY DEF MergeFields
  <2> HIDE DEF counted
  <2> QED BY <2>1
<1> HIDE DEF sheet, row, id, written
<1>5. CASE PassedOver(row) /\ merge' = next
  BY <1>1, <1>5, Zenon DEF MergeFields, sheet, row
<1>6. CASE ~PassedOver(row) /\ id = "" /\ merge' = [counted EXCEPT !.withoutId = @ + 1]
  BY <1>1, <1>6, Zenon DEF MergeFields, sheet, row, id
<1>7. CASE /\ ~PassedOver(row) /\ id # "" /\ id \in merge.seen
           /\ merge' = [counted EXCEPT !.duplicates = @ + 1]
  BY <1>1, <1>7, Zenon DEF MergeFields, sheet, row, id
<1>8. CASE /\ ~PassedOver(row) /\ id # "" /\ id \notin merge.seen
           /\ merge' = [counted EXCEPT !.seen = @ \cup {id}, !.rank = @ + 1, !.rows = written]
  <2>1. /\ DOMAIN merge' = MergeFields
        /\ merge'.sheet = merge.sheet /\ merge'.row = merge.row + 1
        /\ merge'.seen = merge.seen \cup {id} /\ merge'.rank = merge.rank + 1
        /\ merge'.rows = written
        /\ merge'.sourceRows = merge.sourceRows + 1
        /\ merge'.withoutId = merge.withoutId
        /\ merge'.duplicates = merge.duplicates
    BY <1>8 DEF MergeFields
  <2> QED BY <1>1, <1>8, <2>1, Zenon DEF sheet, row, id, written
<1> QED BY <1>3, <1>4, <1>5, <1>6, <1>7, <1>8, Zenon

\* The merge starts with no row taken, below the first header.
LEMMA MergeStarts ==
  ASSUME StartMerge
  PROVE  /\ UNCHANGED <<workbook, diagnosis, mapping, fusion>> /\ fusion = None
         /\ DOMAIN merge' = MergeFields
         /\ merge'.sheet = 1 /\ merge'.row = mapping.sheets[1].header + 1
         /\ merge'.seen = {} /\ merge'.rows = <<>> /\ merge'.rank = 0
         /\ merge'.sourceRows = 0 /\ merge'.withoutId = 0 /\ merge'.duplicates = 0
         /\ mapping # None
BY DEF StartMerge, products, MergeFields

\* The next sheet starts below its header, and with no identifier seen.
LEMMA SheetStarts ==
  ASSUME DOMAIN merge = MergeFields, NextSheet
  PROVE  /\ merge # None /\ UNCHANGED <<workbook, diagnosis, mapping, fusion>>
         /\ SheetIsRead /\ merge.sheet < Len(mapping.sheets)
         /\ DOMAIN merge' = MergeFields
         /\ merge'.sheet = merge.sheet + 1
         /\ merge'.row = mapping.sheets[merge.sheet + 1].header + 1
         /\ merge'.seen = {} /\ merge'.rows = merge.rows /\ merge'.rank = merge.rank
         /\ merge'.sourceRows = merge.sourceRows /\ merge'.withoutId = merge.withoutId
         /\ merge'.duplicates = merge.duplicates
BY DEF NextSheet, products, MergeFields

\* The table left at the end has the rows of the merge.
LEMMA MergeEnds ==
  ASSUME Content, FinishMerge
  PROVE  /\ merge # None /\ fusion' # None /\ UNCHANGED <<workbook, diagnosis, mapping>>
         /\ merge' = None /\ SheetIsRead /\ merge.sheet = Len(mapping.sheets)
         /\ (fusion'.blocked <=> merge.duplicates > 0)
         /\ fusion'.withoutId = merge.withoutId /\ fusion'.sourceRows = merge.sourceRows
         /\ ~fusion'.blocked =>
               \E columns : fusion'.table.rows =
                  [i \in DOMAIN merge.rows |->
                     [merge.rows[i] EXCEPT !.values =
                        Restrict(@, {c.name : c \in Range(KeptColumns(columns, merge.rows))})]]
<1> DEFINE table == TableOf(Exported(mapping), merge.rows, 0)
<1>1. /\ merge # None /\ UNCHANGED <<workbook, diagnosis, mapping>>
      /\ merge' = None /\ SheetIsRead /\ merge.sheet = Len(mapping.sheets)
      /\ fusion' = [blocked |-> merge.duplicates > 0, withoutId |-> merge.withoutId,
                    sourceRows |-> merge.sourceRows,
                    table |-> IF merge.duplicates > 0 THEN None ELSE table]
  BY Zenon DEF FinishMerge
<1>2. table.rows = [i \in DOMAIN merge.rows |->
                      [merge.rows[i] EXCEPT !.values =
                         Restrict(@, {c.name : c \in Range(KeptColumns(Exported(mapping), merge.rows))})]]
  BY DEF TableOf
<1> HIDE DEF table
<1>3. fusion' # None
  BY <1>1 DEF None
<1>4. ~fusion'.blocked => fusion'.table = table
  BY <1>1
<1> QED BY <1>1, <1>2, <1>3, <1>4

-----------------------------------------------------------------------------
(***************************************************************************)
(* One row for each identifier.                                            *)
(***************************************************************************)

LEMMA IInvInit ==
  Init => IInv
BY ContentInit DEF Init, IInv, Cursor, TableGrows, TableIsDone

LEMMA CursorStep ==
  ASSUME Content, Cursor, [Next]_vars
  PROVE  Cursor'
<1>1. ASSUME mapping # None
      PROVE  /\ Len(mapping.sheets) \in Nat \ {0} /\ DOMAIN mapping.sheets = 1 .. Len(mapping.sheets)
             /\ \A k \in DOMAIN mapping.sheets : mapping.sheets[k].header \in Nat
  BY <1>1, MergeReads
<1>2. CASE UNCHANGED <<merge, mapping>>
  BY <1>2 DEF Cursor
<1>3. CASE merge' = None
  BY <1>3 DEF Cursor
<1>4. CASE StartMerge
  <2>1. 1 \in DOMAIN mapping.sheets /\ mapping.sheets[1].header \in Nat
    BY <1>1, <1>4, MergeStarts
  <2> QED BY <1>4, <2>1, MergeStarts DEF Cursor
<1>5. CASE MergeRow
  <2>1. merge # None /\ DOMAIN merge = MergeFields
    BY <1>5, Zenon DEF MergeRow, Cursor
  <2>2. DOMAIN merge' = MergeFields /\ mapping' = mapping
        /\ merge'.sheet = merge.sheet /\ merge'.row = merge.row + 1
    BY <1>5, <2>1, RowTaken, Zenon
  <2>3. mapping.sheets[merge.sheet].header \in Nat
    BY <1>1, <2>1 DEF Content, OneAtATime, Cursor
  <2> QED BY <2>1, <2>2, <2>3 DEF Cursor
<1>6. CASE NextSheet
  <2>1. merge # None /\ DOMAIN merge = MergeFields /\ mapping # None
    BY <1>6 DEF NextSheet, Cursor, Content, OneAtATime
  <2>2. merge.sheet + 1 \in DOMAIN mapping.sheets
    BY <1>1, <1>6, <2>1 DEF NextSheet, Cursor
  <2>3. mapping.sheets[merge.sheet + 1].header \in Nat
    BY <1>1, <2>1, <2>2
  <2> QED BY <1>6, <2>1, <2>2, <2>3, SheetStarts DEF Cursor
<1>7. UNCHANGED <<merge, mapping>> \/ merge' = None \/ StartMerge \/ MergeRow \/ NextSheet
  BY StepsOfALot DEF Carried, Replaced, Diagnose, NoLongerMapped, Remapped, FinishMerge, products
<1> QED BY <1>2, <1>3, <1>4, <1>5, <1>6, <1>7

LEMMA TableGrowsStep ==
  ASSUME Content, Cursor, TableGrows, [Next]_vars
  PROVE  TableGrows'
<1>1. CASE merge' = merge
  BY <1>1 DEF TableGrows
<1>2. CASE merge' = None
  BY <1>2 DEF TableGrows
<1>3. CASE StartMerge
  <2>1. merge'.rows = <<>> /\ merge'.rank = 0
    BY <1>3, MergeStarts
  <2>2. merge'.rows \in Seq(Range(merge'.rows)) /\ DOMAIN merge'.rows = {}
    BY <2>1, EmptySeq
  <2> QED BY <2>1, <2>2 DEF TableGrows, OneEach
<1>4. ASSUME merge # None, merge'.rows = merge.rows, merge'.rank = merge.rank
      PROVE  TableGrows'
  BY <1>4 DEF TableGrows
<1>5. CASE MergeRow
  <2> DEFINE sheet == SheetNamed(mapping.sheets[merge.sheet].name)
             row == sheet.rows[merge.row]
             id == Ident[row.cells[IdColumn(mapping, sheet.name).pos]]
             rows == merge.rows
             new == WithRow(rows, merge.rank + 1, id, row.cells, sheet.name)
  <2>1. merge # None /\ DOMAIN merge = MergeFields
    BY <1>5, Zenon DEF MergeRow, Cursor
  <2>2. /\ rows \in Seq(Range(rows)) /\ merge.rank \in Nat
        /\ \A i \in DOMAIN rows : /\ DOMAIN rows[i] = {"rank", "id", "values"}
                                  /\ rows[i].rank \in 1 .. merge.rank
        /\ OneEach(rows)
    BY <2>1 DEF TableGrows
  <2>3. CASE merge'.rows = rows /\ merge'.rank = merge.rank
    BY <1>4, <2>1, <2>3
  <2>4. CASE merge'.rows = new /\ merge'.rank = merge.rank + 1
    <3> HIDE DEF sheet, id, row, rows
    <3>1. /\ new \in Seq(Range(new)) /\ Len(rows) \in Nat /\ DOMAIN rows = 1 .. Len(rows)
          /\ \E n \in Nat :
                /\ DOMAIN new = 1 .. n
                /\ \A i \in 1 .. n : DOMAIN new[i] = {"rank", "id", "values"}
                /\ \A i \in DOMAIN rows : /\ i \in DOMAIN new
                                          /\ new[i].rank = rows[i].rank /\ new[i].id = rows[i].id
                /\ \/ n = Len(rows) /\ \E i \in DOMAIN rows : rows[i].id = id
                   \/ /\ n = Len(rows) + 1
                      /\ \A i \in DOMAIN rows : rows[i].id # id
                      /\ new[n].rank = merge.rank + 1 /\ new[n].id = id
      BY <2>2, RowWritten
    <3> HIDE DEF new
    <3>2. PICK n \in Nat :
                /\ DOMAIN new = 1 .. n
                /\ \A i \in 1 .. n : DOMAIN new[i] = {"rank", "id", "values"}
                /\ \A i \in DOMAIN rows : /\ i \in DOMAIN new
                                          /\ new[i].rank = rows[i].rank /\ new[i].id = rows[i].id
                /\ \/ n = Len(rows) /\ \E i \in DOMAIN rows : rows[i].id = id
                   \/ /\ n = Len(rows) + 1
                      /\ \A i \in DOMAIN rows : rows[i].id # id
                      /\ new[n].rank = merge.rank + 1 /\ new[n].id = id
      BY <3>1
    <3>3. \A i \in 1 .. n : i \in 1 .. Len(rows) \/ (i = n /\ n = Len(rows) + 1)
      <4>1. Len(rows) \in Nat /\ (n = Len(rows) \/ n = Len(rows) + 1)
        BY <3>1, <3>2, Zenon
      <4> QED BY <4>1
    <3>7. DOMAIN rows = 1 .. Len(rows) /\ Len(rows) \in Nat
      BY <3>1
    <3>11. n = Len(rows) + 1 => n # Len(rows)
      <4>1. Len(rows) \in Nat
        BY <3>1
      <4> QED BY <4>1
    <3>4. ASSUME NEW i \in 1 .. n PROVE new[i].rank \in 1 .. merge.rank + 1
      <4>1. CASE i \in DOMAIN rows
        BY <2>2, <3>2, <4>1
      <4>2. CASE i = n /\ n = Len(rows) + 1
        <5>2. ~(n = Len(rows))
          BY <3>11, <4>2
        <5>1. new[n].rank = merge.rank + 1
          BY <3>2, <5>2
        <5> QED BY <2>2, <4>2, <5>1
      <4> QED BY <3>3, <3>7, <4>1, <4>2
    <3>5. ASSUME NEW i \in 1 .. n, NEW j \in 1 .. n, i < j
          PROVE  new[i].id # new[j].id /\ new[i].rank < new[j].rank
      <4>1. i \in DOMAIN rows
        BY <3>3, <3>5, <3>7
      <4>2. CASE j \in DOMAIN rows
        BY <2>2, <3>2, <3>5, <4>1, <4>2 DEF OneEach
      <4>3. CASE j \notin DOMAIN rows
        <5>1. j = n /\ n = Len(rows) + 1 /\ ~(n = Len(rows))
          BY <3>3, <3>7, <4>3
        <5>2. new[j].rank = merge.rank + 1 /\ new[j].id = id /\ rows[i].id # id
          BY <3>2, <4>1, <5>1
        <5>3. rows[i].rank \in 1 .. merge.rank
          BY <2>2, <4>1
        <5> QED BY <2>2, <3>2, <4>1, <5>2, <5>3
      <4> QED BY <4>2, <4>3
    <3>6. OneEach(new)
      BY <3>2, <3>5 DEF OneEach
    <3>8. merge'.rows \in Seq(Range(merge'.rows)) /\ OneEach(merge'.rows)
      BY <2>4, <3>1, <3>6
    <3>9. merge'.rank \in Nat /\ \A i \in DOMAIN merge'.rows :
             /\ DOMAIN merge'.rows[i] = {"rank", "id", "values"}
             /\ merge'.rows[i].rank \in 1 .. merge'.rank
      BY <2>2, <2>4, <3>2, <3>4
    <3> QED BY <3>8, <3>9 DEF TableGrows, OneEach
  <2> QED BY <1>5, <2>1, <2>3, <2>4, RowTaken, Zenon
<1>6. CASE NextSheet
  <2>1. merge # None /\ DOMAIN merge = MergeFields
    BY <1>6 DEF NextSheet, Cursor
  <2> QED BY <1>4, <1>6, <2>1, SheetStarts
<1>7. merge' = merge \/ merge' = None \/ StartMerge \/ MergeRow \/ NextSheet
  BY StepsOfALot DEF Carried, Replaced, Diagnose, NoLongerMapped, Remapped, FinishMerge, products
<1> QED BY <1>1, <1>2, <1>3, <1>5, <1>6, <1>7

LEMMA TableIsDoneStep ==
  ASSUME Content, Cursor, TableGrows, TableIsDone, [Next]_vars
  PROVE  TableIsDone'
<1>1. CASE fusion' = fusion
  BY <1>1 DEF TableIsDone
<1>2. CASE fusion' = None
  BY <1>2 DEF TableIsDone
<1>3. CASE FinishMerge
  <2>1. SUFFICES ASSUME ~fusion'.blocked PROVE OneEach(fusion'.table.rows)
    BY DEF TableIsDone
  <2> DEFINE rows == fusion'.table.rows
  <2>2. merge # None
    BY <1>3 DEF FinishMerge
  <2>3. /\ DOMAIN rows = DOMAIN merge.rows
        /\ \A i \in DOMAIN rows : rows[i].rank = merge.rows[i].rank /\ rows[i].id = merge.rows[i].id
    <3>1. \A i \in DOMAIN merge.rows : DOMAIN merge.rows[i] = {"rank", "id", "values"}
      BY <2>2 DEF TableGrows
    <3>2. PICK columns : rows =
            [i \in DOMAIN merge.rows |->
               [merge.rows[i] EXCEPT !.values =
                  Restrict(@, {c.name : c \in Range(KeptColumns(columns, merge.rows))})]]
      BY <1>3, <2>1, MergeEnds
    <3> HIDE DEF rows
    <3> QED BY <3>1, <3>2
  <2>4. OneEach(merge.rows)
    BY <2>2 DEF TableGrows
  <2> HIDE DEF rows
  <2>5. OneEach(rows)
    BY <2>3, <2>4 DEF OneEach
  <2> QED BY <2>5 DEF rows
<1>4. fusion' = fusion \/ fusion' = None \/ FinishMerge
  BY StepsOfALot, Zenon DEF Carried, Replaced, Diagnose, NoLongerMapped, Remapped, StartMerge, MergeRow,
                     NextSheet, products
<1> QED BY <1>1, <1>2, <1>3, <1>4

\* The content, the cursor and the tables of a lot hold together at all times.
THEOREM TableInvariance == Spec => []IInv
<1>1. IInv /\ [Next]_vars => IInv'
  BY ContentStep, CursorStep, TableGrowsStep, TableIsDoneStep DEF IInv
<1> QED BY <1>1, IInvInit, PTL DEF Spec

\* An identifier has one row, in the running merge and in the table it leaves,
\* in the order of their ranks, whatever the sheets (build_flat_merge).
THEOREM IdentifiersHaveOneRow == Spec => []OneRowPerIdentifier
<1>1. IInv => OneRowPerIdentifier
  BY DEF IInv, TableGrows, TableIsDone, OneEach, OneRowPerIdentifier
<1> QED BY <1>1, TableInvariance, PTL

-----------------------------------------------------------------------------
(***************************************************************************)
(* The rows of the workbook and those the merge has taken.                 *)
(***************************************************************************)

\* The rows to merge and their identifiers go by the workbook and the mapping.
LEMMA SameSource ==
  ASSUME UNCHANGED <<workbook, mapping>>
  PROVE  /\ SourceRows' = SourceRows
         /\ \A r : Identifier(r)' = Identifier(r)
         /\ \A k : SheetNamed(mapping.sheets[k].name)' = SheetNamed(mapping.sheets[k].name)
<1>1. \A k : SheetNamed(mapping.sheets[k].name)' = SheetNamed(mapping.sheets[k].name)
  BY DEF SheetNamed
<1>2. \A k : SheetRows(k)' = SheetRows(k)
  BY <1>1 DEF SheetRows
<1>3. SourceRows' = SourceRows
  BY <1>2 DEF SourceRows
<1>4. \A r : Identifier(r)' = Identifier(r)
  BY <1>1, Zenon DEF Identifier, IdAt, RowAt
<1> QED BY <1>1, <1>3, <1>4

\* A row to merge is a sheet of the mapping and a row of it below the header.
LEMMA RowsToMerge ==
  ASSUME Content, mapping # None
  PROVE  /\ \A k, n : <<k, n>> \in SourceRows <=> k \in DOMAIN mapping.sheets /\ n \in SheetRows(k)
         /\ \A r \in SourceRows :
               /\ r = <<r[1], r[2]>> /\ r[1] \in 1 .. Len(mapping.sheets)
               /\ r[2] \in SheetRows(r[1])
               /\ r[2] \in Nat /\ r[2] > mapping.sheets[r[1]].header
               /\ r[2] \in 1 .. Len(SheetNamed(mapping.sheets[r[1]].name).rows)
         /\ \A k \in DOMAIN mapping.sheets :
               Len(SheetNamed(mapping.sheets[k].name).rows) \in Nat
<1>1. /\ DOMAIN mapping.sheets = 1 .. Len(mapping.sheets)
      /\ \A k \in DOMAIN mapping.sheets :
            /\ mapping.sheets[k].header \in Nat
            /\ SheetNamed(mapping.sheets[k].name) \in {workbook[j] : j \in DOMAIN workbook}
  BY MergeReads
<1>2. \A k \in DOMAIN mapping.sheets :
         Len(SheetNamed(mapping.sheets[k].name).rows) \in Nat
  <2> DEFINE Row == [hidden : STRING, cells : Seq(Cells)]
             Sheet == [name : STRING, shown : BOOLEAN, hiddenColumns : BOOLEAN, merged : BOOLEAN,
                       rows : Seq(Row)]
  <2>1. workbook \in Seq(Sheet)
    BY WorkbookAssumption DEF Content
  <2>2. \A j \in DOMAIN workbook : workbook[j] \in Sheet
    BY <2>1, LenProperties, ZenonT(60)
  <2>3. \A x \in Sheet : x.rows \in Seq(Row)
    OBVIOUS
  <2> HIDE DEF Row, Sheet
  <2>4. \A x \in Sheet : Len(x.rows) \in Nat
    BY <2>3, LenProperties
  <2> QED BY <1>1, <2>2, <2>4
<1>3. \A k, n : <<k, n>> \in SourceRows <=> k \in DOMAIN mapping.sheets /\ n \in SheetRows(k)
  BY DEF SourceRows
<1>4. \A r \in SourceRows : r = <<r[1], r[2]>> /\ r[1] \in DOMAIN mapping.sheets
                            /\ r[2] \in SheetRows(r[1])
  BY DEF SourceRows
<1>5. ASSUME NEW k \in DOMAIN mapping.sheets, NEW n \in SheetRows(k)
      PROVE  /\ n \in Nat /\ n > mapping.sheets[k].header
             /\ n \in 1 .. Len(SheetNamed(mapping.sheets[k].name).rows)
  <2>1. n \in mapping.sheets[k].header + 1 .. Len(SheetNamed(mapping.sheets[k].name).rows)
    BY DEF SheetRows, VisibleDataRows
  <2>2. mapping.sheets[k].header \in Nat /\ Len(SheetNamed(mapping.sheets[k].name).rows) \in Nat
    BY <1>1, <1>2
  <2> QED BY <2>1, <2>2
<1> QED BY <1>1, <1>2, <1>3, <1>4, <1>5

\* The merge passes over the rows that are hidden or blank, and only those.
LEMMA PassedOverRows ==
  ASSUME SpelledAsOne, Content, Cursor, merge # None,
         merge.row \in DOMAIN SheetNamed(mapping.sheets[merge.sheet].name).rows
  PROVE  PassedOver(SheetNamed(mapping.sheets[merge.sheet].name).rows[merge.row])
           <=> <<merge.sheet, merge.row>> \notin SourceRows
<1> DEFINE k == merge.sheet
           n == merge.row
           sheet == SheetNamed(mapping.sheets[k].name)
           row == sheet.rows[n]
           Row == [hidden : STRING, cells : Seq(Cells)]
           Sheet == [name : STRING, shown : BOOLEAN, hiddenColumns : BOOLEAN, merged : BOOLEAN,
                     rows : Seq(Row)]
<1>1. mapping # None /\ k \in DOMAIN mapping.sheets /\ n \in Nat
      /\ n > mapping.sheets[k].header /\ workbook \in Workbooks
  BY DEF Content, OneAtATime, Cursor
<1>2. mapping.sheets[k].header \in Nat /\ sheet \in {workbook[j] : j \in DOMAIN workbook}
  BY <1>1, MergeReads
<1>3. PICK j \in DOMAIN workbook : sheet = workbook[j]
  BY <1>2
<1>4. row.hidden \in {"no", "1"}
  BY <1>1, <1>3 DEF SpelledAsOne
<1>5. sheet \in Sheet
  <2>1. workbook \in Seq(Sheet)
    BY <1>1, WorkbookAssumption
  <2> HIDE DEF Sheet, sheet
  <2> QED BY <1>3, <2>1, LenProperties
<1>6. Len(sheet.rows) \in Nat /\ n \in 1 .. Len(sheet.rows) /\ row \in Row
  <2>1. sheet.rows \in Seq(Row)
    BY <1>5
  <2> HIDE DEF Row, sheet
  <2> QED BY <2>1, LenProperties DEF sheet
<1>7. DOMAIN row.cells = 1 .. Len(row.cells) /\ \A i \in DOMAIN row.cells : row.cells[i] \in Cells
  <2>1. row.cells \in Seq(Cells)
    BY <1>6
  <2> HIDE DEF row
  <2> QED BY <2>1, LenProperties
<1>8. (\A c \in Range(row.cells) : Ident[c] = "") <=> Present(row) = {}
  <2> HIDE DEF row
  <2>1. \A i \in DOMAIN row.cells : Ident[row.cells[i]] = "" <=> Canon[row.cells[i]] = ""
    BY <1>7, TableAssumption
  <2> QED BY <2>1 DEF Range, Present
<1>9. PassedOver(row) <=> RowIsHidden(row) \/ Present(row) = {}
  <2> HIDE DEF row
  <2> QED BY <1>4, <1>8 DEF PassedOver, RowIsHidden
<1>10. n \in SheetRows(k) <=> ~RowIsHidden(row) /\ Present(row) # {}
  <2>1. n \in mapping.sheets[k].header + 1 .. Len(sheet.rows)
    BY <1>1, <1>2, <1>6
  <2> QED BY <2>1 DEF SheetRows, VisibleDataRows
<1>11. <<k, n>> \in SourceRows <=> n \in SheetRows(k)
  BY <1>1, RowsToMerge
<1> QED BY <1>9, <1>10, <1>11

\* The identifier the merge reads is that of the row.
LEMMA IdentifierRead ==
  ASSUME Content, Cursor, merge # None
  PROVE  LET sheet == SheetNamed(mapping.sheets[merge.sheet].name)
         IN Ident[sheet.rows[merge.row].cells[IdColumn(mapping, sheet.name).pos]]
              = Identifier(<<merge.sheet, merge.row>>)
<1>1. SheetNamed(mapping.sheets[merge.sheet].name).name = mapping.sheets[merge.sheet].name
  BY MergeReads DEF Content, OneAtATime, Cursor
<1> QED BY <1>1 DEF Identifier, IdAt, RowAt

\* With each row the merge reads, the rows taken are that one more, if it is
\* to be merged.
LEMMA TakenGrows ==
  ASSUME SpelledAsOne, Content, Cursor, MergeRow
  PROVE  LET q == <<merge.sheet, merge.row>>
             row == SheetNamed(mapping.sheets[merge.sheet].name).rows[merge.row]
         IN /\ q \notin Taken
            /\ PassedOver(row) => Taken' = Taken
            /\ ~PassedOver(row) => Taken' = Taken \cup {q}
<1> DEFINE k == merge.sheet
           n == merge.row
           q == <<k, n>>
           row == SheetNamed(mapping.sheets[k].name).rows[n]
<1>1. /\ merge # None /\ DOMAIN merge = MergeFields /\ mapping # None
      /\ n \in Nat /\ k \in DOMAIN mapping.sheets
  BY Zenon DEF MergeRow, Cursor, Content, OneAtATime
<1>2. /\ UNCHANGED <<workbook, mapping>> /\ merge'.sheet = k /\ merge'.row = n + 1
      /\ n \in DOMAIN SheetNamed(mapping.sheets[k].name).rows
  BY <1>1, RowTaken, Zenon
<1>3. SourceRows' = SourceRows
  BY <1>2, SameSource
<1>4. \A r \in SourceRows : r = <<r[1], r[2]>> /\ r[1] \in Nat /\ r[2] \in Nat
  BY <1>1, RowsToMerge
<1>5. k \in Nat
  BY <1>1, MergeReads
<1>6. PassedOver(row) <=> q \notin SourceRows
  BY <1>1, <1>2, PassedOverRows
<1>7. Taken' = {r \in SourceRows : r[1] < k \/ (r[1] = k /\ r[2] < n + 1)}
  BY <1>2, <1>3 DEF Taken
<1>8. Taken = {r \in SourceRows : r[1] < k \/ (r[1] = k /\ r[2] < n)}
  BY DEF Taken
<1>9. q[1] = k /\ q[2] = n
  OBVIOUS
<1> HIDE DEF k, n, row
<1>10. q \notin Taken
  BY <1>1, <1>5, <1>8, <1>9
<1>11. \A r \in SourceRows : r \in Taken' <=> r \in Taken \/ r = q
  BY <1>1, <1>4, <1>5, <1>7, <1>8
<1>12. CASE q \notin SourceRows
  <2>1. Taken' = Taken
    BY <1>7, <1>8, <1>11, <1>12
  <2> QED BY <1>6, <1>10, <1>12, <2>1 DEF k, n, row
<1>13. CASE q \in SourceRows
  <2>1. Taken' = Taken \cup {q}
    BY <1>7, <1>8, <1>11, <1>13
  <2> QED BY <1>6, <1>10, <1>13, <2>1 DEF k, n, row
<1> QED BY <1>12, <1>13

-----------------------------------------------------------------------------
(***************************************************************************)
(* The counts and the identifiers of the rows taken.                       *)
(***************************************************************************)

Said(rows) == {Identifier(r) : r \in rows} \ {""}

Unnamed(rows) == {r \in rows : Identifier(r) = ""}

OfSheet(rows, k) == {r \in rows : r[1] = k}

\* One more row without an identifier adds to the count of those, and to
\* nothing else.
LEMMA OneMoreUnnamed ==
  ASSUME NEW rows, IsFiniteSet(rows), NEW q, q \notin rows, Identifier(q) = ""
  PROVE  /\ IsFiniteSet(rows \cup {q}) /\ Cardinality(rows \cup {q}) = Cardinality(rows) + 1
         /\ Cardinality(Unnamed(rows \cup {q})) = Cardinality(Unnamed(rows)) + 1
         /\ Twice(rows \cup {q}) <=> Twice(rows)
         /\ \A k : Said(OfSheet(rows \cup {q}, k)) = Said(OfSheet(rows, k))
         /\ Said(rows \cup {q}) = Said(rows)
<1>1. IsFiniteSet(rows \cup {q}) /\ Cardinality(rows \cup {q}) = Cardinality(rows) + 1
  BY FS_AddElement, FS_CardinalityType
<1>2. Cardinality(Unnamed(rows \cup {q})) = Cardinality(Unnamed(rows)) + 1
  <2>1. Unnamed(rows \cup {q}) = Unnamed(rows) \cup {q} /\ q \notin Unnamed(rows)
    BY DEF Unnamed
  <2>2. IsFiniteSet(Unnamed(rows))
    BY FS_Subset DEF Unnamed
  <2> QED BY <2>1, <2>2, FS_AddElement
<1>3. Twice(rows \cup {q}) <=> Twice(rows)
  BY DEF Twice
<1>4. \A k : Said(OfSheet(rows \cup {q}, k)) = Said(OfSheet(rows, k))
  BY DEF Said, OfSheet
<1>5. Said(rows \cup {q}) = Said(rows)
  BY DEF Said
<1> QED BY <1>1, <1>2, <1>3, <1>4, <1>5

\* One more row with an identifier: it comes twice if its sheet had it.
LEMMA OneMoreNamed ==
  ASSUME NEW rows, IsFiniteSet(rows), NEW q, q \notin rows, Identifier(q) # ""
  PROVE  /\ IsFiniteSet(rows \cup {q}) /\ Cardinality(rows \cup {q}) = Cardinality(rows) + 1
         /\ Unnamed(rows \cup {q}) = Unnamed(rows)
         /\ Twice(rows \cup {q}) <=> Twice(rows) \/ Identifier(q) \in Said(OfSheet(rows, q[1]))
         /\ Said(OfSheet(rows \cup {q}, q[1])) = Said(OfSheet(rows, q[1])) \cup {Identifier(q)}
         /\ Said(rows \cup {q}) = Said(rows) \cup {Identifier(q)}
<1>1. IsFiniteSet(rows \cup {q}) /\ Cardinality(rows \cup {q}) = Cardinality(rows) + 1
  BY FS_AddElement, FS_CardinalityType
<1>2. Unnamed(rows \cup {q}) = Unnamed(rows)
  BY DEF Unnamed
<1>3. ASSUME Twice(rows \cup {q}), ~Twice(rows) PROVE Identifier(q) \in Said(OfSheet(rows, q[1]))
  <2>1. PICK r \in rows \cup {q}, s \in rows \cup {q} :
           r # s /\ r[1] = s[1] /\ Identifier(r) # "" /\ Identifier(r) = Identifier(s)
    BY <1>3 DEF Twice
  <2>2. r = q \/ s = q
    BY <1>3, <2>1 DEF Twice
  <2>3. \E x \in rows : x[1] = q[1] /\ Identifier(x) = Identifier(q)
    BY <2>1, <2>2
  <2> QED BY <2>3 DEF Said, OfSheet
<1>4. ASSUME Identifier(q) \in Said(OfSheet(rows, q[1])) PROVE Twice(rows \cup {q})
  <2>1. PICK x \in rows : x[1] = q[1] /\ Identifier(x) = Identifier(q)
    BY <1>4 DEF Said, OfSheet
  <2>2. x \in rows \cup {q} /\ q \in rows \cup {q} /\ x # q
    OBVIOUS
  <2> QED BY <2>1, <2>2 DEF Twice
<1>5. Twice(rows) => Twice(rows \cup {q})
  BY DEF Twice
<1>6. Said(OfSheet(rows \cup {q}, q[1])) = Said(OfSheet(rows, q[1])) \cup {Identifier(q)}
  BY DEF Said, OfSheet
<1>7. Said(rows \cup {q}) = Said(rows) \cup {Identifier(q)}
  BY DEF Said
<1> QED BY <1>1, <1>2, <1>3, <1>4, <1>5, <1>6, <1>7

\* The formulas of the counts under the names used here.
LEMMA Restated ==
  /\ Tallied <=> (merge # None =>
        /\ IsFiniteSet(Taken)
        /\ merge.sourceRows = Cardinality(Taken)
        /\ merge.withoutId = Cardinality(Unnamed(Taken))
        /\ merge.duplicates \in Nat
        /\ merge.duplicates > 0 <=> Twice(Taken))
  /\ Named <=> (merge # None =>
        /\ merge.seen = Said(OfSheet(Taken, merge.sheet))
        /\ {merge.rows[i].id : i \in DOMAIN merge.rows} = Said(Taken))
BY DEF Tallied, Named, Unnamed, Said, OfSheet

\* The counts keep their meaning while the same rows are read.
LEMMA SameMeaning ==
  ASSUME UNCHANGED <<workbook, mapping>>
  PROVE  \A rows : /\ Unnamed(rows)' = Unnamed(rows) /\ Twice(rows)' = Twice(rows)
                   /\ Said(rows)' = Said(rows)
<1>1. \A r : Identifier(r)' = Identifier(r)
  BY SameSource
<1> QED BY <1>1 DEF Unnamed, Twice, Said

\* The merge starts with nothing taken.
LEMMA NothingTaken ==
  ASSUME Content, StartMerge
  PROVE  Taken' = {}
<1>1. /\ UNCHANGED <<workbook, mapping>> /\ mapping # None
      /\ merge'.sheet = 1 /\ merge'.row = mapping.sheets[1].header + 1
  BY MergeStarts
<1>2. SourceRows' = SourceRows
  BY <1>1, SameSource
<1>3. /\ Len(mapping.sheets) \in Nat \ {0} /\ DOMAIN mapping.sheets = 1 .. Len(mapping.sheets)
      /\ \A k \in DOMAIN mapping.sheets : mapping.sheets[k].header \in Nat
  BY <1>1, MergeReads
<1>4. \A r \in SourceRows : /\ r[1] \in Nat /\ ~(r[1] < 1)
                            /\ r[2] \in Nat /\ r[2] > mapping.sheets[r[1]].header
  BY <1>1, <1>3, RowsToMerge
<1>5. mapping.sheets[1].header \in Nat
  BY <1>3
<1>6. Taken' = {r \in SourceRows : r[1] < 1 \/ (r[1] = 1 /\ r[2] < mapping.sheets[1].header + 1)}
  BY <1>1, <1>2 DEF Taken
<1> QED BY <1>4, <1>5, <1>6

\* Going to the next sheet takes no row, and none of the next is taken yet.
LEMMA SheetTaken ==
  ASSUME Content, Cursor, NextSheet
  PROVE  Taken' = Taken /\ OfSheet(Taken, merge.sheet + 1) = {}
<1> DEFINE k == merge.sheet
<1>1. merge # None /\ DOMAIN merge = MergeFields /\ mapping # None /\ merge.row \in Nat
      /\ k \in DOMAIN mapping.sheets
  BY DEF NextSheet, Cursor, Content, OneAtATime
<1>2. /\ UNCHANGED <<workbook, mapping>> /\ SheetIsRead /\ k < Len(mapping.sheets)
      /\ merge'.sheet = k + 1 /\ merge'.row = mapping.sheets[k + 1].header + 1
  BY <1>1, SheetStarts
<1>3. SourceRows' = SourceRows
  BY <1>2, SameSource
<1>4. /\ Len(mapping.sheets) \in Nat /\ DOMAIN mapping.sheets = 1 .. Len(mapping.sheets)
      /\ \A j \in DOMAIN mapping.sheets : mapping.sheets[j].header \in Nat
  BY <1>1, MergeReads
<1>5. k \in Nat /\ k + 1 \in DOMAIN mapping.sheets
  BY <1>1, <1>2, <1>4
<1>6. mapping.sheets[k + 1].header \in Nat
  BY <1>4, <1>5
<1> DEFINE size == Len(SheetNamed(mapping.sheets[k].name).rows)
<1>7. merge.row > size
  BY <1>2 DEF SheetIsRead
<1>15. size \in Nat
  BY <1>1, RowsToMerge
<1>8. \A r \in SourceRows : /\ r[1] \in Nat /\ r[2] \in Nat
                            /\ r[1] = k => r[2] \in 1 .. size
                            /\ r[1] = k + 1 => r[2] > mapping.sheets[k + 1].header
  BY <1>1, RowsToMerge
<1>9. Taken' = {r \in SourceRows : \/ r[1] < k + 1
                                   \/ r[1] = k + 1 /\ r[2] < mapping.sheets[k + 1].header + 1}
  BY <1>2, <1>3 DEF Taken
<1>10. Taken = {r \in SourceRows : r[1] < k \/ (r[1] = k /\ r[2] < merge.row)}
  BY DEF Taken
<1>11. ASSUME NEW r \in SourceRows PROVE r \in Taken' <=> r \in Taken
  <2> HIDE DEF size, k
  <2>1. r[1] \in Nat /\ r[2] \in Nat
    BY <1>8
  <2>2. r \in Taken' <=> r[1] < k + 1
    BY <1>5, <1>6, <1>8, <1>9, <2>1
  <2>3. r[1] = k => r[2] < merge.row
    <3>1. SUFFICES ASSUME r[1] = k PROVE r[2] < merge.row
      OBVIOUS
    <3>2. r[2] \in 1 .. size
      BY <1>8, <3>1
    <3> QED BY <1>1, <1>7, <1>15, <2>1, <3>2
  <2> QED BY <1>5, <1>10, <2>1, <2>2, <2>3
<1>12. Taken' = Taken
  BY <1>9, <1>10, <1>11
<1>13. OfSheet(Taken, k + 1) = {}
  BY <1>5, <1>8, <1>10 DEF OfSheet
<1> QED BY <1>12, <1>13

\* At the end of the last sheet, all is taken.
LEMMA AllTaken ==
  ASSUME Content, Cursor, FinishMerge
  PROVE  Taken = SourceRows
<1> DEFINE k == merge.sheet
           size == Len(SheetNamed(mapping.sheets[k].name).rows)
<1>1. merge # None /\ mapping # None /\ merge.row \in Nat /\ k = Len(mapping.sheets) /\ merge.row > size
  BY DEF FinishMerge, SheetIsRead, Cursor, Content, OneAtATime
<1>2. k \in Nat
  BY <1>1, MergeReads
<1>5. size \in Nat
  BY <1>1, RowsToMerge DEF Cursor
<1>3. \A r \in SourceRows : /\ r[1] \in 1 .. k /\ r[2] \in Nat
                            /\ r[1] = k => r[2] \in 1 .. size
  BY <1>1, RowsToMerge
<1> HIDE DEF k, size
<1>4. ASSUME NEW r \in SourceRows PROVE r[1] < k \/ (r[1] = k /\ r[2] < merge.row)
  <2>1. r[1] \in 1 .. k /\ r[2] \in Nat
    BY <1>3
  <2>2. CASE r[1] = k
    <3>1. r[2] \in 1 .. size
      BY <1>3, <2>2
    <3> QED BY <1>1, <1>5, <2>1, <2>2, <3>1
  <2>3. CASE r[1] # k
    BY <1>2, <2>1, <2>3
  <2> QED BY <2>2, <2>3
<1> QED BY <1>4 DEF Taken, k

LEMMA TalliedStep ==
  ASSUME SpelledAsOne, IInv, Tallied, Named, [Next]_vars
  PROVE  Tallied' /\ Named'
<1>1. Content /\ Cursor /\ TableGrows
  BY DEF IInv
<1> DEFINE Goal(rows) ==
      /\ IsFiniteSet(rows)
      /\ merge'.sourceRows = Cardinality(rows)
      /\ merge'.withoutId = Cardinality(Unnamed(rows))
      /\ merge'.duplicates \in Nat
      /\ merge'.duplicates > 0 <=> Twice(rows)
      /\ merge'.seen = Said(OfSheet(rows, merge'.sheet))
      /\ {merge'.rows[i].id : i \in DOMAIN merge'.rows} = Said(rows)
<1>8. ASSUME UNCHANGED <<workbook, mapping>>, NEW rows, Taken' = rows, Goal(rows)
      PROVE  Tallied' /\ Named'
  <2>1. \A r : Identifier(r)' = Identifier(r)
    BY <1>8, SameSource
  <2>2. Tallied'
    BY <1>8, <2>1 DEF Tallied, Unnamed, Twice
  <2>3. Named'
    BY <1>8, <2>1 DEF Named, Said, OfSheet
  <2> QED BY <2>2, <2>3
<1>2. CASE UNCHANGED <<workbook, mapping, merge>>
  <2>1. Taken' = Taken
    BY <1>2, SameSource DEF Taken
  <2> QED BY <1>2, <2>1, SameMeaning, SameSource, ZenonT(60) DEF Tallied, Named
<1>3. CASE merge' = None
  BY <1>3 DEF Tallied, Named
<1>4. CASE StartMerge
  <2>1. /\ UNCHANGED <<workbook, mapping>> /\ merge'.seen = {} /\ merge'.rows = <<>>
        /\ merge'.sourceRows = 0 /\ merge'.withoutId = 0 /\ merge'.duplicates = 0
    BY <1>4, MergeStarts
  <2>2. Taken' = {}
    BY <1>1, <1>4, NothingTaken
  <2>3. IsFiniteSet({}) /\ Cardinality({}) = 0
    BY FS_EmptySet
  <2>4. Unnamed({}) = {} /\ ~Twice({}) /\ Said({}) = {} /\ OfSheet({}, 1) = {}
    BY DEF Unnamed, Twice, Said, OfSheet
  <2>5. merge'.sheet = 1 /\ {merge'.rows[i].id : i \in DOMAIN merge'.rows} = {}
    BY <1>4, <2>1, MergeStarts
  <2>6. Goal({})
    <3>1. merge'.duplicates \in Nat /\ (merge'.duplicates > 0 <=> Twice({}))
      BY <2>1, <2>4
    <3>2. merge'.seen = Said(OfSheet({}, merge'.sheet))
      BY <2>1, <2>4, <2>5
    <3>3. merge'.sourceRows = Cardinality({}) /\ merge'.withoutId = Cardinality(Unnamed({}))
      BY <2>1, <2>3, <2>4
    <3> QED BY <2>3, <2>4, <2>5, <3>1, <3>2, <3>3
  <2> QED BY <1>8, <2>1, <2>2, <2>6
<1>5. CASE NextSheet
  <2>1. merge # None /\ DOMAIN merge = MergeFields
    BY <1>1, <1>5 DEF NextSheet, Cursor
  <2>2. /\ UNCHANGED <<workbook, mapping>> /\ merge'.sheet = merge.sheet + 1
        /\ merge'.seen = {} /\ merge'.rows = merge.rows
        /\ merge'.sourceRows = merge.sourceRows /\ merge'.withoutId = merge.withoutId
        /\ merge'.duplicates = merge.duplicates
    BY <1>5, <2>1, SheetStarts
  <2>3. Taken' = Taken /\ OfSheet(Taken, merge.sheet + 1) = {}
    BY <1>1, <1>5, SheetTaken
  <2>4. /\ IsFiniteSet(Taken)
        /\ merge.sourceRows = Cardinality(Taken)
        /\ merge.withoutId = Cardinality(Unnamed(Taken))
        /\ merge.duplicates \in Nat
        /\ merge.duplicates > 0 <=> Twice(Taken)
        /\ {merge.rows[i].id : i \in DOMAIN merge.rows} = Said(Taken)
    BY <2>1, Restated
  <2>5. Said({}) = {}
    BY DEF Said
  <2>6. Goal(Taken)
    BY <2>2, <2>3, <2>4, <2>5
  <2> QED BY <1>8, <2>2, <2>3, <2>6
<1>6. CASE MergeRow
  <2> DEFINE q == <<merge.sheet, merge.row>>
             sheet == SheetNamed(mapping.sheets[merge.sheet].name)
             row == sheet.rows[merge.row]
             id == Ident[row.cells[IdColumn(mapping, sheet.name).pos]]
  <2>1. merge # None /\ DOMAIN merge = MergeFields
    BY <1>1, <1>6, Zenon DEF MergeRow, Cursor
  <2>2. UNCHANGED <<workbook, mapping>> /\ merge'.sheet = merge.sheet /\ q[1] = merge.sheet
    BY <1>6, <2>1, RowTaken, Zenon
  <2>3. /\ q \notin Taken /\ id = Identifier(q)
        /\ PassedOver(row) => Taken' = Taken
        /\ ~PassedOver(row) => Taken' = Taken \cup {q}
    BY <1>1, <1>6, <2>1, TakenGrows, IdentifierRead, Zenon
  <2>4. /\ IsFiniteSet(Taken)
        /\ merge.sourceRows = Cardinality(Taken)
        /\ merge.withoutId = Cardinality(Unnamed(Taken))
        /\ merge.duplicates \in Nat
        /\ merge.duplicates > 0 <=> Twice(Taken)
        /\ merge.seen = Said(OfSheet(Taken, merge.sheet))
        /\ {merge.rows[i].id : i \in DOMAIN merge.rows} = Said(Taken)
    BY <2>1, Restated
  <2>5. ASSUME NEW rows, Taken' = rows, Goal(rows) PROVE Tallied' /\ Named'
    BY <1>8, <2>2, <2>5
  <2>6. CASE /\ PassedOver(row)
             /\ merge'.seen = merge.seen /\ merge'.rows = merge.rows /\ merge'.rank = merge.rank
             /\ merge'.sourceRows = merge.sourceRows /\ merge'.withoutId = merge.withoutId
             /\ merge'.duplicates = merge.duplicates
    <3>1. Goal(Taken)
      BY <2>2, <2>4, <2>6
    <3> QED BY <2>3, <2>5, <2>6, <3>1, Zenon
  <2>7. CASE /\ ~PassedOver(row) /\ id = ""
             /\ merge'.seen = merge.seen /\ merge'.rows = merge.rows /\ merge'.rank = merge.rank
             /\ merge'.sourceRows = merge.sourceRows + 1
             /\ merge'.withoutId = merge.withoutId + 1
             /\ merge'.duplicates = merge.duplicates
    <3> HIDE DEF q, row, id
    <3>1. /\ IsFiniteSet(Taken \cup {q}) /\ Cardinality(Taken \cup {q}) = Cardinality(Taken) + 1
          /\ Cardinality(Unnamed(Taken \cup {q})) = Cardinality(Unnamed(Taken)) + 1
          /\ Twice(Taken \cup {q}) <=> Twice(Taken)
          /\ \A k : Said(OfSheet(Taken \cup {q}, k)) = Said(OfSheet(Taken, k))
          /\ Said(Taken \cup {q}) = Said(Taken)
      BY <2>3, <2>4, <2>7, OneMoreUnnamed
    <3>2. Goal(Taken \cup {q})
      <4>1. merge'.duplicates \in Nat /\ (merge'.duplicates > 0 <=> Twice(Taken \cup {q}))
        BY <2>4, <2>7, <3>1
      <4>2. merge'.seen = Said(OfSheet(Taken \cup {q}, merge'.sheet))
        BY <2>2, <2>4, <2>7, <3>1
      <4>3. /\ merge'.sourceRows = Cardinality(Taken \cup {q})
            /\ merge'.withoutId = Cardinality(Unnamed(Taken \cup {q}))
        BY <2>4, <2>7, <3>1
      <4>4. {merge'.rows[i].id : i \in DOMAIN merge'.rows} = Said(Taken \cup {q})
        BY <2>4, <2>7, <3>1, ZenonT(60)
      <4> QED BY <3>1, <4>1, <4>2, <4>3, <4>4
    <3> QED BY <2>3, <2>5, <2>7, <3>2
  <2> DEFINE more == Taken \cup {q}
  <2>8. ASSUME id # ""
        PROVE  /\ IsFiniteSet(more) /\ Cardinality(more) = Cardinality(Taken) + 1
               /\ Unnamed(more) = Unnamed(Taken)
               /\ Twice(more) <=> Twice(Taken) \/ id \in merge.seen
               /\ Said(OfSheet(more, merge.sheet)) = merge.seen \cup {id}
               /\ Said(more) = Said(Taken) \cup {id}
    <3> HIDE DEF q, id
    <3>1. /\ IsFiniteSet(Taken \cup {q}) /\ Cardinality(Taken \cup {q}) = Cardinality(Taken) + 1
          /\ Unnamed(Taken \cup {q}) = Unnamed(Taken)
          /\ Twice(Taken \cup {q}) <=> Twice(Taken) \/ Identifier(q) \in Said(OfSheet(Taken, q[1]))
          /\ Said(OfSheet(Taken \cup {q}, q[1])) = Said(OfSheet(Taken, q[1])) \cup {Identifier(q)}
          /\ Said(Taken \cup {q}) = Said(Taken) \cup {Identifier(q)}
      BY <2>3, <2>4, <2>8, OneMoreNamed
    <3> QED BY <2>2, <2>3, <2>4, <3>1
  <2>9. CASE /\ ~PassedOver(row) /\ id # "" /\ id \in merge.seen
             /\ merge'.seen = merge.seen /\ merge'.rows = merge.rows /\ merge'.rank = merge.rank
             /\ merge'.sourceRows = merge.sourceRows + 1
             /\ merge'.withoutId = merge.withoutId
             /\ merge'.duplicates = merge.duplicates + 1
    <3>1. id \in Said(Taken)
      BY <2>4, <2>9, Zenon DEF Said, OfSheet
    <3> HIDE DEF more, row, id
    <3>2. merge.seen \cup {id} = merge.seen /\ Said(Taken) \cup {id} = Said(Taken)
      BY <2>9, <3>1
    <3>3. Goal(more)
      <4>1. Twice(more)
        BY <2>8, <2>9
      <4>2. merge'.duplicates \in Nat /\ merge'.duplicates > 0
        <5>1. merge.duplicates \in Nat /\ merge'.duplicates = merge.duplicates + 1
          BY <2>4, <2>9
        <5> QED BY <5>1
      <4>3. merge'.seen = Said(OfSheet(more, merge'.sheet))
        BY <2>2, <2>8, <2>9, <3>2
      <4>4. {merge'.rows[i].id : i \in DOMAIN merge'.rows} = Said(more)
        BY <2>4, <2>8, <2>9, <3>2
      <4>5. IsFiniteSet(more) /\ merge'.sourceRows = Cardinality(more)
        BY <2>4, <2>8, <2>9
      <4>6. merge'.withoutId = Cardinality(Unnamed(more))
        BY <2>4, <2>8, <2>9
      <4> QED BY <4>1, <4>2, <4>3, <4>4, <4>5, <4>6
    <3>4. Taken' = more
      BY <2>3, <2>9 DEF more
    <3> QED BY <2>5, <3>3, <3>4
  <2>10. CASE /\ ~PassedOver(row) /\ id # "" /\ id \notin merge.seen
              /\ merge'.seen = merge.seen \cup {id} /\ merge'.rank = merge.rank + 1
              /\ merge'.rows = WithRow(merge.rows, merge.rank + 1, id, row.cells, sheet.name)
              /\ merge'.sourceRows = merge.sourceRows + 1
              /\ merge'.withoutId = merge.withoutId
              /\ merge'.duplicates = merge.duplicates
    <3>1. {merge'.rows[i].id : i \in DOMAIN merge'.rows} = Said(Taken) \cup {id}
      <4> DEFINE rows == merge.rows
                 new == WithRow(rows, merge.rank + 1, id, row.cells, sheet.name)
      <4>1. /\ rows \in Seq(Range(rows))
            /\ \A i \in DOMAIN rows : DOMAIN rows[i] = {"rank", "id", "values"}
        BY <1>1, <2>1 DEF TableGrows
      <4> HIDE DEF row, sheet, id, rows
      <4>2. PICK n \in Nat :
              /\ DOMAIN new = 1 .. n /\ DOMAIN rows = 1 .. Len(rows) /\ Len(rows) \in Nat
              /\ \A i \in DOMAIN rows : i \in DOMAIN new /\ new[i].id = rows[i].id
              /\ \/ n = Len(rows) /\ \E i \in DOMAIN rows : rows[i].id = id
                 \/ n = Len(rows) + 1 /\ new[n].id = id
        BY <4>1, RowWritten
      <4> HIDE DEF new
      <4>3. \A i \in 1 .. n : i \in DOMAIN rows \/ new[i].id = id
        <5>1. Len(rows) \in Nat /\ (n = Len(rows) \/ n = Len(rows) + 1)
          BY <4>2, Zenon
        <5>2. \A i \in 1 .. n : i \in 1 .. Len(rows) \/ (i = n /\ n = Len(rows) + 1)
          BY <5>1
        <5>3. n = Len(rows) + 1 => n # Len(rows)
          BY <5>1
        <5> QED BY <4>2, <5>2, <5>3
      <4>4. id \in {new[i].id : i \in DOMAIN new}
        <5>1. CASE n = Len(rows) /\ \E i \in DOMAIN rows : rows[i].id = id
          BY <4>2, <5>1
        <5>2. CASE n = Len(rows) + 1 /\ new[n].id = id
          <6>1. n \in DOMAIN new
            BY <4>2, <5>2
          <6> QED BY <5>2, <6>1
        <5> QED BY <4>2, <5>1, <5>2, Zenon
      <4>5. {new[i].id : i \in DOMAIN new} = {rows[i].id : i \in DOMAIN rows} \cup {id}
        BY <4>2, <4>3, <4>4
      <4> QED BY <2>4, <2>10, <4>5, ZenonT(60) DEF new, rows
    <3> HIDE DEF more, row, id, sheet
    <3>2. Goal(more)
      BY <2>2, <2>4, <2>8, <2>10, <3>1
    <3>3. Taken' = more
      BY <2>3, <2>10 DEF more
    <3> QED BY <2>5, <3>2, <3>3
  <2> QED BY <1>6, <2>1, <2>6, <2>7, <2>9, <2>10, RowTaken, Zenon
<1>7. \/ UNCHANGED <<workbook, mapping, merge>> \/ merge' = None
      \/ StartMerge \/ NextSheet \/ MergeRow
  BY StepsOfALot DEF Carried, Replaced, Diagnose, NoLongerMapped, Remapped, FinishMerge, products
<1> QED BY <1>2, <1>3, <1>4, <1>5, <1>6, <1>7

\* The property under the names used here.
LEMMA AccountRestated ==
  EveryRowIsAccountedFor <=> (fusion # None =>
      /\ fusion.sourceRows = Cardinality(SourceRows)
      /\ fusion.withoutId = Cardinality(Unnamed(SourceRows))
      /\ fusion.blocked <=> Twice(SourceRows)
      /\ ~fusion.blocked =>
            {fusion.table.rows[i].id : i \in DOMAIN fusion.table.rows} = Said(SourceRows))
<1> DEFINE id == [r \in SourceRows |-> IdAt(r[1], r[2])]
<1>1. \A r \in SourceRows : id[r] = Identifier(r)
  BY DEF Identifier
<1>2. DOMAIN id = SourceRows
  OBVIOUS
<1> HIDE DEF id
<1>3. {r \in SourceRows : id[r] = ""} = Unnamed(SourceRows)
  BY <1>1 DEF Unnamed
<1>4. Range(id) \ {""} = Said(SourceRows)
  BY <1>1, <1>2 DEF Range, Said
<1>5. (\E r, s \in SourceRows : r # s /\ r[1] = s[1] /\ id[r] # "" /\ id[r] = id[s])
        <=> Twice(SourceRows)
  BY <1>1, ZenonT(60) DEF Twice
<1> QED BY <1>3, <1>4, <1>5 DEF EveryRowIsAccountedFor, id

LEMMA AccountStep ==
  ASSUME IInv, Tallied, Named, EveryRowIsAccountedFor, [Next]_vars
  PROVE  EveryRowIsAccountedFor'
<1>1. Content /\ Cursor /\ TableGrows
  BY DEF IInv
<1>2. CASE fusion' = None
  BY <1>2 DEF EveryRowIsAccountedFor
<1> DEFINE Goal ==
      /\ fusion'.sourceRows = Cardinality(SourceRows)
      /\ fusion'.withoutId = Cardinality(Unnamed(SourceRows))
      /\ fusion'.blocked <=> Twice(SourceRows)
      /\ ~fusion'.blocked =>
            {fusion'.table.rows[i].id : i \in DOMAIN fusion'.table.rows} = Said(SourceRows)
<1>3. ASSUME UNCHANGED <<workbook, mapping>>, Goal PROVE EveryRowIsAccountedFor'
  <2>1. SourceRows' = SourceRows /\ \A r : Identifier(r)' = Identifier(r)
    BY <1>3, SameSource
  <2>2. /\ Unnamed(SourceRows)' = Unnamed(SourceRows) /\ Said(SourceRows)' = Said(SourceRows)
        /\ Twice(SourceRows)' <=> Twice(SourceRows)
    BY <2>1 DEF Unnamed, Said, Twice
  <2>3. (fusion # None =>
           /\ fusion.sourceRows = Cardinality(SourceRows)
           /\ fusion.withoutId = Cardinality(Unnamed(SourceRows))
           /\ fusion.blocked <=> Twice(SourceRows)
           /\ ~fusion.blocked =>
                {fusion.table.rows[i].id : i \in DOMAIN fusion.table.rows} = Said(SourceRows))'
        => EveryRowIsAccountedFor'
    BY AccountRestated, PTL
  <2> QED BY <1>3, <2>1, <2>2, <2>3
<1>4. CASE UNCHANGED <<workbook, mapping, fusion>> /\ fusion # None
  <2>1. Goal
    BY <1>4, AccountRestated
  <2> QED BY <1>3, <1>4, <2>1
<1>5. CASE FinishMerge
  <2>1. merge # None /\ DOMAIN merge = MergeFields
    BY <1>1, <1>5 DEF FinishMerge, Cursor
  <2>2. /\ UNCHANGED <<workbook, mapping>>
        /\ fusion'.blocked <=> merge.duplicates > 0
        /\ fusion'.withoutId = merge.withoutId /\ fusion'.sourceRows = merge.sourceRows
    BY <1>1, <1>5, MergeEnds
  <2>3. /\ Taken = SourceRows
        /\ merge.sourceRows = Cardinality(Taken)
        /\ merge.withoutId = Cardinality(Unnamed(Taken))
        /\ merge.duplicates > 0 <=> Twice(Taken)
        /\ {merge.rows[i].id : i \in DOMAIN merge.rows} = Said(Taken)
    BY <1>1, <1>5, <2>1, AllTaken, Restated
  <2>4. ASSUME ~fusion'.blocked
        PROVE  {fusion'.table.rows[i].id : i \in DOMAIN fusion'.table.rows} = Said(SourceRows)
    <3> DEFINE rows == fusion'.table.rows
    <3>1. \A i \in DOMAIN merge.rows : DOMAIN merge.rows[i] = {"rank", "id", "values"}
      BY <1>1, <2>1 DEF TableGrows
    <3>2. PICK columns : rows =
            [i \in DOMAIN merge.rows |->
               [merge.rows[i] EXCEPT !.values =
                  Restrict(@, {c.name : c \in Range(KeptColumns(columns, merge.rows))})]]
      BY <1>1, <1>5, <2>4, MergeEnds
    <3> HIDE DEF rows
    <3>3. DOMAIN rows = DOMAIN merge.rows /\ \A i \in DOMAIN rows : rows[i].id = merge.rows[i].id
      BY <3>1, <3>2
    <3>4. {rows[i].id : i \in DOMAIN rows} = Said(SourceRows)
      BY <2>3, <3>3
    <3> QED BY <3>4 DEF rows
  <2>5. Goal
    BY <2>2, <2>3, <2>4
  <2> QED BY <1>3, <2>2, <2>5
<1>6. \/ fusion' = None \/ (UNCHANGED <<workbook, mapping, fusion>> /\ fusion # None)
      \/ FinishMerge
  BY StepsOfALot, Zenon DEF Carried, Replaced, Diagnose, NoLongerMapped, Remapped, StartMerge, NextSheet,
                     MergeRow, products, Content, OneAtATime
<1> QED BY <1>2, <1>4, <1>5, <1>6

\* Every visible row of the workbook is in the merged table under its
\* identifier, or counted as having none, and the merge is refused exactly when
\* a sheet gives an identifier twice (build_flat_merge), for any workbooks
\* whose hidden rows are spelled "1".  Those spelled otherwise are taken for
\* visible ones.
THEOREM RowsAreAccountedFor ==
  ASSUME SpelledAsOne
  PROVE  Spec => []EveryRowIsAccountedFor
<1> DEFINE Counted == Tallied /\ Named /\ EveryRowIsAccountedFor
<1>1. Init => Counted
  BY DEF Init, Tallied, Named, EveryRowIsAccountedFor
<1>2. IInv /\ Counted /\ [Next]_vars => Counted'
  BY TalliedStep, AccountStep
<1>3. Counted => EveryRowIsAccountedFor
  OBVIOUS
<1> QED BY <1>1, <1>2, <1>3, TableInvariance, PTL DEF Spec

-----------------------------------------------------------------------------
(***************************************************************************)
(* The headers of a sheet and the columns made of them                     *)
(* (diagnose_sheet, build_default_mapping).                                *)
(***************************************************************************)

\* A header row is one of the rows.
LEMMA HeaderIsARow ==
  ASSUME NEW sheet, Len(sheet.rows) \in Nat, DetectHeaderRow(sheet) # 0
  PROVE  DetectHeaderRow(sheet) \in 1 .. Len(sheet.rows)
<1> DEFINE l == Len(sheet.rows)
           top == Min({HEADER_SCAN_ROWS, l})
           scanned == {n \in 1 .. top : /\ ~RowIsHidden(sheet.rows[n])
                                        /\ Cardinality(Present(sheet.rows[n])) >= 2}
           score(n) == HeaderScore(sheet.rows[n])
           best == {n \in scanned : \A o \in scanned : ~Beats(score(o), score(n))}
           good == \E n \in best : 5 * score(n).num >= 9 * score(n).den
<1>1. DetectHeaderRow(sheet) = IF good THEN Min(best) ELSE 0
  BY Zenon DEF DetectHeaderRow
<1>2. top \in Nat /\ top <= l
  <2> DEFINE two == {HEADER_SCAN_ROWS, l}
  <2>1. two \in SUBSET Nat /\ two # {} /\ l \in two
    BY LimitAssumption
  <2>2. Min(two) \in two /\ \A j \in two : Min(two) <= j
    <3> HIDE DEF two
    <3> QED BY <2>1, FirstPlace
  <2> QED BY <2>1, <2>2
<1> HIDE DEF top, l
<1>3. scanned \in SUBSET Nat /\ scanned \in SUBSET (1 .. l)
  BY <1>2 DEF l
<1> HIDE DEF scanned, score
<1>4. best \in SUBSET Nat /\ best \in SUBSET (1 .. l)
  BY <1>3
<1>5. good
  BY <1>1
<1>6. best # {}
  BY <1>5
<1> HIDE DEF best, good
<1>7. Min(best) \in best
  BY <1>4, <1>6, FirstPlace
<1> QED BY <1>1, <1>4, <1>5, <1>7 DEF l

\* What is read of the headers of a sheet.
LEMMA HeadersRead ==
  ASSUME NEW sheet, Width(sheet) \in Nat, DetectHeaderRow(sheet) # 0
  PROVE  LET d == ReadDiagnostic(sheet)
             h == DetectHeaderRow(sheet)
             at(n, i) == Canon[sheet.rows[n].cells[i]]
             all == [i \in 1 .. Width(sheet) |-> [pos |-> i, text |-> at(h, i)]]
         IN /\ d.header = h
            /\ d.early <=> h # 1 /\ DataBeforeHeader(sheet, h)
            /\ d.headless <=> \E i \in 1 .. Width(sheet), n \in VisibleDataRows(sheet, h) :
                                 at(h, i) = "" /\ at(n, i) # ""
            /\ d.headers = Picked(all, {i \in DOMAIN all : all[i].text # ""})
            /\ d.ids = Picked(d.headers, {i \in DOMAIN d.headers : IsIdHeader(d.headers[i].text)})
<1> DEFINE h == DetectHeaderRow(sheet)
           data == VisibleDataRows(sheet, h)
           at(n, i) == Canon[sheet.rows[n].cells[i]]
           all == [i \in 1 .. Width(sheet) |-> [pos |-> i, text |-> at(h, i)]]
           headers == Picked(all, {i \in DOMAIN all : all[i].text # ""})
           ids == Picked(headers, {i \in DOMAIN headers : IsIdHeader(headers[i].text)})
           filled == {n \in data : at(n, ids[1].pos) # ""}
           formulas == \E n \in DOMAIN sheet.rows : Range(sheet.rows[n].cells) \cap Formulas # {}
           early == h # 1 /\ DataBeforeHeader(sheet, h)
           hiddenRows == HiddenDataRows(sheet, h) # {}
           headless == \E i \in 1 .. Width(sheet), n \in data : at(h, i) = "" /\ at(n, i) # ""
           alike == \E i, j \in DOMAIN headers : i # j /\ headers[i].text = headers[j].text
           duplicates == IF ids = <<>> THEN 0
                         ELSE Cardinality(filled) - Cardinality({at(n, ids[1].pos) : n \in filled})
           blanks == IF ids = <<>> THEN 0 ELSE Cardinality(data \ filled)
           seen == [UnreadDiagnostic(sheet) EXCEPT
                      !.read = TRUE, !.hiddenColumns = sheet.hiddenColumns,
                      !.merged = sheet.merged, !.formulas = formulas]
           d == ReadDiagnostic(sheet)
<1>1. d = [seen EXCEPT
             !.header = h, !.headers = headers, !.ids = ids, !.early = early,
             !.hiddenRows = hiddenRows, !.headless = headless,
             !.duplicateHeaders = alike, !.duplicates = duplicates, !.blanks = blanks]
  <2>1. d = IF h = 0 THEN seen
            ELSE [seen EXCEPT
                    !.header = h, !.headers = headers, !.ids = ids, !.early = early,
                    !.hiddenRows = hiddenRows, !.headless = headless,
                    !.duplicateHeaders = alike, !.duplicates = duplicates, !.blanks = blanks]
    BY Zenon DEF ReadDiagnostic
  <2> HIDE DEF seen, h, headers, ids, early, hiddenRows, headless, alike, duplicates, blanks
  <2>2. h # 0
    BY DEF h
  <2> QED BY <2>1, <2>2
<1>2. {"header", "headers", "ids", "early", "headless"} \subseteq DOMAIN seen
  BY DEF UnreadDiagnostic
<1> HIDE DEF seen, h, headers, ids, early, hiddenRows, headless, alike, duplicates, blanks
<1>3. /\ d.header = h /\ d.headers = headers /\ d.ids = ids
      /\ d.early = early /\ d.headless = headless
  BY <1>1, <1>2
<1> HIDE DEF d
<1>4. d.ids = Picked(d.headers, {i \in DOMAIN d.headers : IsIdHeader(d.headers[i].text)})
  BY <1>3, Zenon DEF ids
<1>5. d.early <=> h # 1 /\ DataBeforeHeader(sheet, h)
  BY <1>3, Zenon DEF early
<1>6. d.headless <=> \E i \in 1 .. Width(sheet), n \in data : at(h, i) = "" /\ at(n, i) # ""
  BY <1>3, Zenon DEF headless
<1>7. d.headers = Picked(all, {i \in DOMAIN all : all[i].text # ""})
  BY <1>3, Zenon DEF headers
<1> QED BY <1>3, <1>4, <1>5, <1>6, <1>7, Zenon DEF d, h

\* a row as it is read
Row == [hidden : STRING, cells : Seq(Cells)]

\* a sheet as it is read: a rectangle of cells
IsSheet(sheet) ==
    /\ sheet.rows \in Seq(Row)
    /\ \A n \in DOMAIN sheet.rows : Len(sheet.rows[n].cells) = Width(sheet)

\* a header of a diagnosis: its column and its text
Header == [pos : Nat \ {0}, text : Cells]

\* Headers are at columns of their own, one at every column whose cell in the
\* header row is not empty; and one identifier is one header.
LEMMA HeadersOfASheet ==
  ASSUME NEW sheet, IsSheet(sheet), DetectHeaderRow(sheet) # 0
  PROVE  LET d == ReadDiagnostic(sheet)
             h == DetectHeaderRow(sheet)
         IN /\ Width(sheet) \in Nat
            /\ d.headers \in Seq(Header)
            /\ \A i \in 1 .. Width(sheet) : Canon[sheet.rows[h].cells[i]] # ""
                  => \E j \in DOMAIN d.headers : d.headers[j].pos = i
            /\ \A j, k \in DOMAIN d.headers : d.headers[j].pos = d.headers[k].pos => j = k
            /\ \A j \in DOMAIN d.headers : d.headers[j].pos \in 1 .. Width(sheet)
            /\ d.ids # <<>> =>
                  \E j \in DOMAIN d.headers : HeaderRole[d.headers[j].text] = "id_dossier"
            /\ Len(d.ids) \in Nat
            /\ Len(d.ids) <= 1 =>
                  \A j, k \in DOMAIN d.headers :
                     HeaderRole[d.headers[j].text] = "id_dossier"
                       /\ HeaderRole[d.headers[k].text] = "id_dossier" => j = k
<1> DEFINE d == ReadDiagnostic(sheet)
           h == DetectHeaderRow(sheet)
           w == Width(sheet)
           all == [i \in 1 .. w |-> [pos |-> i, text |-> Canon[sheet.rows[h].cells[i]]]]
           P == {i \in DOMAIN all : all[i].text # ""}
           hs == d.headers
           I == {i \in DOMAIN hs : IsIdHeader(hs[i].text)}
<1>1. Len(sheet.rows) \in Nat /\ DOMAIN sheet.rows = 1 .. Len(sheet.rows)
      /\ \A n \in DOMAIN sheet.rows : sheet.rows[n] \in Row
  BY LenProperties DEF IsSheet
<1>2. h \in DOMAIN sheet.rows
  BY <1>1, HeaderIsARow
<1>3. /\ w \in Nat /\ DOMAIN sheet.rows[h].cells = 1 .. w
      /\ \A i \in 1 .. w : sheet.rows[h].cells[i] \in Cells
  <2>1. sheet.rows[h].cells \in Seq(Cells) /\ Len(sheet.rows[h].cells) = w
    BY <1>1, <1>2 DEF IsSheet, Row
  <2> HIDE DEF h, w
  <2> QED BY <2>1, LenProperties
<1>4. hs = Picked(all, P) /\ d.ids = Picked(hs, I)
  <2>1. LET e == ReadDiagnostic(sheet)
            g == DetectHeaderRow(sheet)
            at(n, i) == Canon[sheet.rows[n].cells[i]]
            each == [i \in 1 .. Width(sheet) |-> [pos |-> i, text |-> at(g, i)]]
        IN /\ e.headers = Picked(each, {i \in DOMAIN each : each[i].text # ""})
           /\ e.ids = Picked(e.headers, {i \in DOMAIN e.headers : IsIdHeader(e.headers[i].text)})
    BY <1>3, HeadersRead
  <2> QED BY <2>1, Zenon
<1> HIDE DEF h, w, d, hs
<1>5. \A i \in 1 .. w : Canon[sheet.rows[h].cells[i]] \in Cells
                        /\ Canon[Canon[sheet.rows[h].cells[i]]] = Canon[sheet.rows[h].cells[i]]
  BY <1>3, CellAssumption DEF Conversions
<1>6. DOMAIN all = 1 .. w
      /\ \A i \in 1 .. w : all[i].pos = i /\ all[i].text = Canon[sheet.rows[h].cells[i]]
  OBVIOUS
<1>7. all \in Seq(Header)
  <2>1. \A i \in 1 .. w : all[i] \in Header
    BY <1>5 DEF Header
  <2>2. all \in [1 .. w -> Header]
    BY <2>1
  <2> HIDE DEF all
  <2> QED BY <1>3, <2>2, SeqDef
<1> HIDE DEF all
<1>8. P \in SUBSET (DOMAIN all)
  OBVIOUS
<1> HIDE DEF P
<1>9. hs \in Seq(Header) /\ Cardinality(P) \in Nat /\ Len(hs) = Cardinality(P)
  BY <1>4, <1>7, <1>8, PickedItems
<1>10. PICK f \in [1 .. Cardinality(P) -> P] :
               /\ \A j, k \in 1 .. Cardinality(P) : j < k => f[j] < f[k]
               /\ \A i \in P : \E j \in 1 .. Cardinality(P) : f[j] = i
               /\ \A j \in 1 .. Cardinality(P) : Picked(all, P)[j] = all[f[j]]
  BY <1>7, <1>8, PickedItems, ZenonT(60)
<1>11. DOMAIN hs = 1 .. Cardinality(P)
  BY <1>9, LenProperties
<1>12. \A j \in DOMAIN hs : /\ f[j] \in 1 .. w /\ hs[j].pos = f[j]
                            /\ hs[j].text = Canon[sheet.rows[h].cells[f[j]]]
  BY <1>4, <1>6, <1>8, <1>10, <1>11
<1>13. \A i \in 1 .. w : Canon[sheet.rows[h].cells[i]] # "" => \E j \in DOMAIN hs : hs[j].pos = i
  <2>1. SUFFICES ASSUME NEW i \in 1 .. w, Canon[sheet.rows[h].cells[i]] # ""
                 PROVE  \E j \in DOMAIN hs : hs[j].pos = i
    OBVIOUS
  <2>2. i \in P
    BY <1>6, <2>1 DEF P
  <2>3. PICK j \in 1 .. Cardinality(P) : f[j] = i
    BY <1>10, <2>2
  <2> QED BY <1>11, <1>12, <2>3
<1>14. \A j, k \in DOMAIN hs : hs[j].pos = hs[k].pos => j = k
  <2>1. SUFFICES ASSUME NEW j \in DOMAIN hs, NEW k \in DOMAIN hs, hs[j].pos = hs[k].pos
                 PROVE  j = k
    OBVIOUS
  <2>2. j \in Int /\ k \in Int /\ f[j] \in Int /\ f[k] \in Int /\ f[j] = f[k]
    BY <1>9, <1>11, <1>12, <2>1
  <2>3. ~(j < k) /\ ~(k < j)
    BY <1>10, <1>11, <2>2
  <2> QED BY <2>2, <2>3
<1>15. Len(d.ids) \in Nat
  <2>1. I \in SUBSET (DOMAIN hs)
    OBVIOUS
  <2> HIDE DEF I
  <2> QED BY <1>4, <1>9, <2>1, PickedItems
<1>16. ASSUME Len(d.ids) <= 1, NEW j \in DOMAIN hs, NEW k \in DOMAIN hs,
              HeaderRole[hs[j].text] = "id_dossier", HeaderRole[hs[k].text] = "id_dossier"
       PROVE  j = k
  <2>1. j \in I /\ k \in I
    BY <1>5, <1>12, <1>16 DEF IsIdHeader
  <2>2. I \in SUBSET (DOMAIN hs)
    OBVIOUS
  <2> HIDE DEF I
  <2>3. Cardinality(I) \in Nat /\ Len(d.ids) = Cardinality(I)
    BY <1>4, <1>9, <2>2, PickedItems
  <2>4. PICK g \in [1 .. Cardinality(I) -> I] :
               \A i \in I : \E p \in 1 .. Cardinality(I) : g[p] = i
    BY <1>9, <2>2, PickedItems
  <2>5. PICK p \in 1 .. Cardinality(I) : g[p] = j
    BY <2>1, <2>4
  <2>6. PICK q \in 1 .. Cardinality(I) : g[q] = k
    BY <2>1, <2>4
  <2>7. p = 1 /\ q = 1
    BY <1>16, <2>3
  <2> QED BY <2>5, <2>6, <2>7
<1>17. \A j \in DOMAIN hs : hs[j].pos \in 1 .. w
  BY <1>12
<1>18. ASSUME d.ids # <<>> PROVE \E j \in DOMAIN hs : HeaderRole[hs[j].text] = "id_dossier"
  <2>1. I # {}
    <3>1. SUFFICES ASSUME I = {} PROVE FALSE
      OBVIOUS
    <3>2. Picked(hs, I) = <<>>
      <4> HIDE DEF I
      <4>1. I \in SUBSET (DOMAIN hs) /\ Cardinality(I) = 0
        BY <3>1, FS_EmptySet
      <4>2. Picked(hs, I) \in Seq(Header) /\ Len(Picked(hs, I)) = 0
        BY <1>9, <4>1, PickedItems
      <4> QED BY <4>2, EmptySeq
    <3> QED BY <1>4, <1>18, <3>2
  <2>2. PICK i \in DOMAIN hs : IsIdHeader(hs[i].text)
    BY <2>1
  <2> QED BY <1>5, <1>12, <2>2 DEF IsIdHeader
<1> QED BY <1>3, <1>9, <1>13, <1>14, <1>15, <1>16, <1>17, <1>18 DEF d, hs, h, w

\* A header gives its own column, and with it the system columns if it is the
\* identifier of the first sheet.
LEMMA ColumnsOfOneHeader ==
  ASSUME NEW sheet, NEW first \in BOOLEAN, NEW h \in Header
  PROVE  LET cols == ColumnsOfHeader(sheet, first, h)
         IN /\ cols \in Seq(Range(cols)) /\ 1 \in DOMAIN cols
            /\ cols[1] = SourceColumn(sheet, first, h)
            /\ \A i \in DOMAIN cols :
                  \/ i = 1 /\ cols[i].id = <<sheet.name, h.pos>>
                  \/ /\ first /\ HeaderRole[h.text] = "id_dossier"
                     /\ \/ i = 2 /\ cols[i].id = <<"imageid", 0>>
                        \/ i = 3 /\ cols[i].id = <<"@pathimg", 0>>
            /\ \A i \in DOMAIN cols : i = 1 \/ cols[i] \in {SystemColumns[1], SystemColumns[2]}
            /\ first /\ HeaderRole[h.text] = "id_dossier" =>
                  \A n \in {1, 2} : \E i \in DOMAIN cols : cols[i] = SystemColumns[n]
<1> DEFINE c == SourceColumn(sheet, first, h)
           cols == ColumnsOfHeader(sheet, first, h)
<1>1. c.id = <<sheet.name, h.pos>> /\ c.role = HeaderRole[h.text]
  BY DEF SourceColumn
<1>2. SystemColumns = <<SystemColumns[1], SystemColumns[2]>>
      /\ SystemColumns[1].id = <<"imageid", 0>> /\ SystemColumns[2].id = <<"@pathimg", 0>>
  BY DEF SystemColumns
<1>3. cols = IF c.role = "id_dossier" /\ first THEN <<c>> \o SystemColumns ELSE <<c>>
  BY DEF ColumnsOfHeader
<1> HIDE DEF c, cols
<1> DEFINE s1 == SystemColumns[1]
           s2 == SystemColumns[2]
           S == {c, s1, s2}
           one == <<c>>
           two == <<s1, s2>>
<1>4. CASE c.role = "id_dossier" /\ first
  <2>1. SystemColumns = two /\ s1.id = <<"imageid", 0>> /\ s2.id = <<"@pathimg", 0>>
    BY <1>2
  <2>2. one \in Seq(S) /\ two \in Seq(S) /\ Len(one) = 1 /\ Len(two) = 2
        /\ one[1] = c /\ two[1] = s1 /\ two[2] = s2
    OBVIOUS
  <2>3. cols = one \o two
    BY <1>3, <1>4, <2>1
  <2> HIDE DEF one, two, S, s1, s2
  <2>4. /\ cols \in Seq(S) /\ Len(cols) = 3
        /\ cols[1] = c /\ cols[2] = s1 /\ cols[3] = s2
    <3>1. /\ cols \in Seq(S) /\ Len(cols) = Len(one) + Len(two)
          /\ \A i \in 1 .. Len(one) + Len(two) :
                cols[i] = IF i <= Len(one) THEN one[i] ELSE two[i - Len(one)]
      BY <2>2, <2>3, ConcatProperties
    <3>2. Len(cols) = 3 /\ \A i \in 1 .. 3 : cols[i] = IF i <= 1 THEN one[i] ELSE two[i - 1]
      BY <2>2, <3>1
    <3> QED BY <2>2, <3>1, <3>2
  <2>5. DOMAIN cols = 1 .. 3 /\ cols = [i \in 1 .. 3 |-> cols[i]]
    BY <2>4, LenProperties
  <2>6. cols \in Seq(Range(cols))
    <3>1. cols \in [1 .. 3 -> {cols[i] : i \in DOMAIN cols}]
      BY <2>5
    <3>2. cols \in Seq({cols[i] : i \in DOMAIN cols})
      BY <3>1, SeqDef
    <3> QED BY <3>2 DEF Range
  <2>7. \A i \in DOMAIN cols :
                  \/ i = 1 /\ cols[i].id = <<sheet.name, h.pos>>
                  \/ i = 2 /\ cols[i].id = <<"imageid", 0>>
                  \/ i = 3 /\ cols[i].id = <<"@pathimg", 0>>
    BY <1>1, <2>1, <2>4, <2>5
  <2>8. 1 \in DOMAIN cols /\ first /\ HeaderRole[h.text] = "id_dossier"
    BY <1>1, <1>4, <2>5
  <2>9. /\ \A i \in DOMAIN cols : i = 1 \/ cols[i] \in {s1, s2}
        /\ 2 \in DOMAIN cols /\ cols[2] = s1 /\ 3 \in DOMAIN cols /\ cols[3] = s2
    BY <2>4, <2>5
  <2>10. \A n \in {1, 2} : \E i \in DOMAIN cols : cols[i] = SystemColumns[n]
    BY <2>9 DEF s1, s2
  <2> QED BY <2>4, <2>6, <2>7, <2>8, <2>9, <2>10 DEF c, cols, s1, s2
<1>5. CASE ~(c.role = "id_dossier" /\ first)
  <2>1. cols = one
    BY <1>3, <1>5
  <2>2. one \in Seq({one[i] : i \in DOMAIN one}) /\ DOMAIN one = {1} /\ one[1] = c
    OBVIOUS
  <2>3. cols \in Seq(Range(cols))
    BY <2>1, <2>2 DEF Range
  <2>4. 1 \in DOMAIN cols /\ cols[1] = c /\ \A i \in DOMAIN cols : i = 1
    BY <2>1, <2>2
  <2> QED BY <1>1, <1>5, <2>3, <2>4 DEF c, cols
<1> QED BY <1>4, <1>5

\* headers at columns of their own, one identifier at most
Distinct(headers) ==
    /\ \A j, k \in DOMAIN headers : headers[j].pos = headers[k].pos => j = k
    /\ \A j, k \in DOMAIN headers : HeaderRole[headers[j].text] = "id_dossier"
                                    /\ HeaderRole[headers[k].text] = "id_dossier" => j = k

\* The columns of a sheet are those of its headers, each once.
LEMMA ColumnsOfASheet ==
  ASSUME NEW sheet, sheet.headers \in Seq(Header), NEW first \in BOOLEAN
  PROVE  LET cs == SheetColumns(sheet, first)
         IN /\ cs \in Seq(Range(cs))
            /\ \A j \in DOMAIN sheet.headers : \E p \in DOMAIN cs :
                  cs[p] = SourceColumn(sheet, first, sheet.headers[j])
            /\ \A p \in DOMAIN cs : \/ cs[p].id[1] = sheet.name /\ cs[p].id[2] \in Nat \ {0}
                                    \/ first /\ cs[p].id[2] = 0
            /\ \A p \in DOMAIN cs :
                  \/ cs[p] \in {SystemColumns[1], SystemColumns[2]}
                  \/ \E j \in DOMAIN sheet.headers : cs[p] = SourceColumn(sheet, first, sheet.headers[j])
            /\ first => \A j \in DOMAIN sheet.headers : HeaderRole[sheet.headers[j].text] = "id_dossier" =>
                  \A n \in {1, 2} : \E p \in DOMAIN cs : cs[p] = SystemColumns[n]
            /\ Distinct(sheet.headers) =>
                  \A p, q \in DOMAIN cs : cs[p].id = cs[q].id => p = q
<1> DEFINE hs == sheet.headers
           seqs == [i \in DOMAIN hs |-> ColumnsOfHeader(sheet, first, hs[i])]
           cs == SheetColumns(sheet, first)
           T == UNION {Range(ColumnsOfHeader(sheet, first, hs[i])) : i \in DOMAIN hs}
<1>1. cs = FlattenSeq(seqs)
  BY DEF SheetColumns
<1>2. Len(hs) \in Nat /\ DOMAIN hs = 1 .. Len(hs) /\ \A i \in DOMAIN hs : hs[i] \in Header
  BY LenProperties
<1>3. \A i \in DOMAIN hs :
         LET cols == seqs[i]
         IN /\ cols \in Seq(Range(cols)) /\ 1 \in DOMAIN cols
            /\ cols[1] = SourceColumn(sheet, first, hs[i])
            /\ \A n \in DOMAIN cols :
                  \/ n = 1 /\ cols[n].id = <<sheet.name, hs[i].pos>>
                  \/ /\ first /\ HeaderRole[hs[i].text] = "id_dossier"
                     /\ \/ n = 2 /\ cols[n].id = <<"imageid", 0>>
                        \/ n = 3 /\ cols[n].id = <<"@pathimg", 0>>
            /\ \A n \in DOMAIN cols : n = 1 \/ cols[n] \in {SystemColumns[1], SystemColumns[2]}
            /\ first /\ HeaderRole[hs[i].text] = "id_dossier" =>
                  \A e \in {1, 2} : \E n \in DOMAIN cols : cols[n] = SystemColumns[e]
  <2>1. SUFFICES ASSUME NEW i \in DOMAIN hs
                 PROVE  LET cols == seqs[i]
         IN /\ cols \in Seq(Range(cols)) /\ 1 \in DOMAIN cols
            /\ cols[1] = SourceColumn(sheet, first, hs[i])
            /\ \A n \in DOMAIN cols :
                  \/ n = 1 /\ cols[n].id = <<sheet.name, hs[i].pos>>
                  \/ /\ first /\ HeaderRole[hs[i].text] = "id_dossier"
                     /\ \/ n = 2 /\ cols[n].id = <<"imageid", 0>>
                        \/ n = 3 /\ cols[n].id = <<"@pathimg", 0>>
            /\ \A n \in DOMAIN cols : n = 1 \/ cols[n] \in {SystemColumns[1], SystemColumns[2]}
            /\ first /\ HeaderRole[hs[i].text] = "id_dossier" =>
                  \A e \in {1, 2} : \E n \in DOMAIN cols : cols[n] = SystemColumns[e]
    OBVIOUS
  <2>2. hs[i] \in Header /\ seqs[i] = ColumnsOfHeader(sheet, first, hs[i])
    BY <1>2
  <2> DEFINE x == hs[i]
  <2>3. LET cols == ColumnsOfHeader(sheet, first, x)
        IN /\ cols \in Seq(Range(cols)) /\ 1 \in DOMAIN cols
           /\ cols[1] = SourceColumn(sheet, first, x)
           /\ \A n \in DOMAIN cols :
                  \/ n = 1 /\ cols[n].id = <<sheet.name, x.pos>>
                  \/ /\ first /\ HeaderRole[x.text] = "id_dossier"
                     /\ \/ n = 2 /\ cols[n].id = <<"imageid", 0>>
                        \/ n = 3 /\ cols[n].id = <<"@pathimg", 0>>
           /\ \A n \in DOMAIN cols : n = 1 \/ cols[n] \in {SystemColumns[1], SystemColumns[2]}
           /\ first /\ HeaderRole[x.text] = "id_dossier" =>
                  \A e \in {1, 2} : \E n \in DOMAIN cols : cols[n] = SystemColumns[e]
    <3>1. x \in Header
      BY <2>2
    <3> HIDE DEF x
    <3> QED BY <3>1, ColumnsOfOneHeader
  <2> HIDE DEF seqs
  <2> QED BY <2>2, <2>3
<1>4. seqs \in Seq(Seq(T))
  <2>1. \A i \in DOMAIN hs : Range(seqs[i]) \in SUBSET T
    OBVIOUS
  <2>2. ASSUME NEW i \in DOMAIN hs PROVE seqs[i] \in Seq(T)
    <3> DEFINE s == seqs[i]
               R == Range(s)
    <3>1. s \in Seq(R) /\ R \in SUBSET T
      BY <1>3, <2>1
    <3> HIDE DEF T, s, R
    <3>2. s \in Seq(T)
      BY <3>1
    <3> QED BY <3>2 DEF s
  <2>3. seqs \in [1 .. Len(hs) -> Seq(T)]
    BY <1>2, <2>2
  <2> HIDE DEF T, seqs
  <2> QED BY <1>2, <2>3, SeqDef
<1>5. DOMAIN seqs = DOMAIN hs
  OBVIOUS
<1> HIDE DEF seqs, T, hs, cs
<1>6. cs \in Seq(T)
  BY <1>1, <1>4, Flattens
<1>7. PICK at : IsFlat(cs, seqs, Len(seqs), at)
  BY <1>1, <1>4, Flattens
<1>8. Len(cs) \in Nat /\ DOMAIN cs = 1 .. Len(cs) /\ Len(seqs) = Len(hs) /\ DOMAIN seqs = 1 .. Len(seqs)
  <2>1. Len(cs) \in Nat /\ DOMAIN cs = 1 .. Len(cs)
    BY <1>6, LenProperties
  <2>2. Len(seqs) \in Nat /\ DOMAIN seqs = 1 .. Len(seqs)
    BY <1>4, LenProperties
  <2> QED BY <1>2, <1>5, <2>1, <2>2
<1>9. cs \in Seq(Range(cs))
  <2> DEFINE R == {cs[i] : i \in DOMAIN cs}
  <2>1. cs = [i \in 1 .. Len(cs) |-> cs[i]]
    BY <1>6, <1>8, LenProperties
  <2>2. cs \in [1 .. Len(cs) -> R]
    BY <1>8, <2>1
  <2> HIDE DEF R
  <2>3. cs \in Seq(R)
    BY <1>8, <2>2, SeqDef
  <2> QED BY <2>3 DEF Range, R
<1>10. \A p \in DOMAIN cs : /\ at[p] \in Places(seqs, Len(seqs))
                            /\ cs[p] = seqs[at[p][1]][at[p][2]]
  BY <1>7, <1>8 DEF IsFlat
<1>11. \A k, i : k \in DOMAIN seqs /\ i \in Nat /\ i \in DOMAIN seqs[k]
           => \E p \in DOMAIN cs : at[p] = <<k, i>>
  <2>1. SUFFICES ASSUME NEW k \in DOMAIN seqs, NEW i \in Nat, i \in DOMAIN seqs[k]
                 PROVE  \E p \in DOMAIN cs : at[p] = <<k, i>>
    OBVIOUS
  <2>2. <<k, i>> \in Places(seqs, Len(seqs))
    BY <1>8, <2>1 DEF Places
  <2> QED BY <1>7, <1>8, <2>2 DEF IsFlat
<1>12. ASSUME NEW p \in DOMAIN cs
       PROVE  /\ at[p][1] \in DOMAIN hs /\ at[p][2] \in DOMAIN seqs[at[p][1]]
              /\ at[p] = <<at[p][1], at[p][2]>>
  BY <1>5, <1>8, <1>10 DEF Places
<1>13. \A p, q \in DOMAIN cs : at[p] = at[q] => p = q
  BY <1>7, <1>8 DEF IsFlat
<1>14. ASSUME NEW j \in DOMAIN hs PROVE \E p \in DOMAIN cs : cs[p] = SourceColumn(sheet, first, hs[j])
  <2>1. PICK p \in DOMAIN cs : at[p] = <<j, 1>>
    BY <1>3, <1>5, <1>11
  <2>2. cs[p] = seqs[j][1]
    BY <1>10, <2>1
  <2> QED BY <1>3, <2>2
<1>15. ASSUME NEW p \in DOMAIN cs
       PROVE  \/ cs[p].id[1] = sheet.name /\ cs[p].id[2] \in Nat \ {0}
              \/ first /\ cs[p].id[2] = 0
  <2>1. hs[at[p][1]].pos \in Nat \ {0}
    BY <1>2, <1>12 DEF Header
  <2> QED BY <1>3, <1>10, <1>12, <2>1, SMTT(40)
<1>16. ASSUME Distinct(hs), NEW p \in DOMAIN cs, NEW q \in DOMAIN cs, cs[p].id = cs[q].id
       PROVE  p = q
  <2> DEFINE k == at[p][1]
             i == at[p][2]
             l == at[q][1]
             j == at[q][2]
             Place(x, y, id) ==
                  \/ y = 1 /\ id = <<sheet.name, hs[x].pos>>
                  \/ /\ HeaderRole[hs[x].text] = "id_dossier"
                     /\ \/ y = 2 /\ id = <<"imageid", 0>>
                        \/ y = 3 /\ id = <<"@pathimg", 0>>
  <2>1. k \in DOMAIN hs /\ l \in DOMAIN hs /\ at[p] = <<k, i>> /\ at[q] = <<l, j>>
    BY <1>12
  <2>2. Place(k, i, cs[p].id) /\ Place(l, j, cs[q].id)
    <3>1. /\ i \in DOMAIN seqs[k] /\ cs[p] = seqs[k][i]
          /\ j \in DOMAIN seqs[l] /\ cs[q] = seqs[l][j]
      BY <1>10, <1>12
    <3> HIDE DEF k, i, l, j
    <3> QED BY <1>3, <2>1, <3>1, SMTT(40)
  <2>3. hs[k].pos # 0 /\ hs[l].pos # 0
    BY <1>2, <2>1 DEF Header
  <2> DEFINE id == cs[p].id
  <2>4. Place(k, i, id) /\ Place(l, j, id)
    BY <1>16, <2>2
  <2> HIDE DEF k, i, l, j, id
  <2>5. CASE i = 1
    <3>1. id = <<sheet.name, hs[k].pos>>
      BY <2>4, <2>5
    <3>2. j = 1 /\ id = <<sheet.name, hs[l].pos>>
      BY <2>3, <2>4, <3>1
    <3>3. hs[k].pos = hs[l].pos
      BY <3>1, <3>2
    <3>4. k = l
      BY <1>16, <2>1, <3>3 DEF Distinct
    <3> QED BY <1>13, <2>1, <2>5, <3>2, <3>4
  <2>6. CASE i # 1
    <3>1. HeaderRole[hs[k].text] = "id_dossier"
          /\ \/ i = 2 /\ id = <<"imageid", 0>>
             \/ i = 3 /\ id = <<"@pathimg", 0>>
      BY <2>4, <2>6
    <3>2. id # <<sheet.name, hs[l].pos>>
      <4>1. id[2] = 0
        BY <3>1
      <4> QED BY <2>3, <4>1
    <3>3. HeaderRole[hs[l].text] = "id_dossier"
          /\ \/ j = 2 /\ id = <<"imageid", 0>>
             \/ j = 3 /\ id = <<"@pathimg", 0>>
      BY <2>4, <3>2
    <3>4. i = j
      <4>1. <<"imageid", 0>>[1] = "imageid" /\ <<"@pathimg", 0>>[1] = "@pathimg"
        OBVIOUS
      <4> QED BY <3>1, <3>3, <4>1
    <3>5. k = l
      BY <1>16, <2>1, <3>1, <3>3 DEF Distinct
    <3> QED BY <1>13, <2>1, <3>4, <3>5
  <2> QED BY <2>5, <2>6
<1>17. ASSUME NEW p \in DOMAIN cs
       PROVE  \/ cs[p] \in {SystemColumns[1], SystemColumns[2]}
              \/ \E j \in DOMAIN hs : cs[p] = SourceColumn(sheet, first, hs[j])
  BY <1>3, <1>10, <1>12
<1>18. ASSUME first, NEW j \in DOMAIN hs, HeaderRole[hs[j].text] = "id_dossier", NEW n \in {1, 2}
       PROVE  \E p \in DOMAIN cs : cs[p] = SystemColumns[n]
  <2>1. PICK i \in DOMAIN seqs[j] : seqs[j][i] = SystemColumns[n]
    BY <1>3, <1>18
  <2>2. i \in Nat
    BY <1>3, LenProperties
  <2>3. PICK p \in DOMAIN cs : at[p] = <<j, i>>
    BY <1>5, <1>11, <2>2
  <2> QED BY <1>10, <2>1, <2>3
<1> QED BY <1>9, <1>14, <1>15, <1>16, <1>17, <1>18 DEF hs, cs

\* The sheets of a workbook are rectangles, and have names of their own.
LEMMA SheetsOfAWorkbook ==
  ASSUME NEW w \in Workbooks
  PROVE  /\ Len(w) \in Nat /\ DOMAIN w = 1 .. Len(w)
         /\ \A j \in DOMAIN w : IsSheet(w[j])
         /\ \A j, k \in DOMAIN w : w[j].name = w[k].name => j = k
<1> DEFINE Sheet == [name : STRING, shown : BOOLEAN, hiddenColumns : BOOLEAN, merged : BOOLEAN,
                     rows : Seq(Row)]
<1>1. /\ w \in Seq(Sheet)
      /\ \A k \in DOMAIN w : \A n \in DOMAIN w[k].rows :
            Len(w[k].rows[n].cells) = Width(w[k])
      /\ \A j, k \in DOMAIN w : w[j].name = w[k].name => j = k
  BY WorkbookAssumption DEF Row
<1>2. /\ Len(w) \in Nat /\ DOMAIN w = 1 .. Len(w)
      /\ \A j \in DOMAIN w : w[j] \in Sheet
  <2> HIDE DEF Sheet
  <2> QED BY <1>1, LenProperties
<1>3. \A j \in DOMAIN w : w[j].rows \in Seq(Row)
  BY <1>2
<1>4. \A j \in DOMAIN w : IsSheet(w[j])
  BY <1>1, <1>3 DEF IsSheet
<1> QED BY <1>1, <1>2, <1>4

\* A sheet whose header was found was read.
LEMMA SheetWithHeader ==
  ASSUME NEW sheet, DiagnoseSheet(sheet).header # 0
  PROVE  /\ DiagnoseSheet(sheet) = ReadDiagnostic(sheet)
         /\ DetectHeaderRow(sheet) # 0
<1>1. UnreadDiagnostic(sheet).header = 0
  BY UnreadFields
<1>2. [UnreadDiagnostic(sheet) EXCEPT !.ignored = TRUE].header = 0
  BY DEF UnreadDiagnostic
<1>3. DiagnoseSheet(sheet) = ReadDiagnostic(sheet)
  BY <1>1, <1>2 DEF DiagnoseSheet
<1>4. DetectHeaderRow(sheet) # 0
  <2>1. SUFFICES ASSUME DetectHeaderRow(sheet) = 0 PROVE FALSE
    OBVIOUS
  <2> DEFINE formulas == \E n \in DOMAIN sheet.rows : Range(sheet.rows[n].cells) \cap Formulas # {}
             seen == [UnreadDiagnostic(sheet) EXCEPT
                        !.read = TRUE, !.hiddenColumns = sheet.hiddenColumns,
                        !.merged = sheet.merged, !.formulas = formulas]
  <2>2. ReadDiagnostic(sheet) = seen
    BY <2>1, Zenon DEF ReadDiagnostic
  <2> HIDE DEF formulas
  <2>3. seen.header = 0
    BY DEF UnreadDiagnostic
  <2> QED BY <1>3, <2>2, <2>3
<1> QED BY <1>3, <1>4

\* What the mapping is built from: the sheets of the workbook that have a
\* header and are not refused, each once and with one identifier at most.
LEMMA SheetsToMap ==
  ASSUME NEW w \in Workbooks
  PROVE  LET D == DiagnoseWorkbook(w)
             u == UsefulSheets(D)
         IN /\ Len(u) \in Nat /\ DOMAIN u = 1 .. Len(u)
            /\ DOMAIN D.sheets = DOMAIN w
            /\ \A k \in DOMAIN u :
                  /\ u[k].headers \in Seq(Header) /\ Distinct(u[k].headers)
                  /\ \E j \in DOMAIN u[k].headers : HeaderRole[u[k].headers[j].text] = "id_dossier"
                  /\ \E j \in DOMAIN w :
                        /\ u[k].name = w[j].name
                        /\ \A i \in DOMAIN u[k].headers : u[k].headers[i].pos \in 1 .. Width(w[j])
            /\ \A k, l \in DOMAIN u : u[k].name = u[l].name => k = l
            /\ \A j \in DOMAIN w :
                  ~D.sheets[j].ignored /\ SheetImportable(D.sheets[j]) /\ D.sheets[j].header # 0
                     => \E k \in DOMAIN u : u[k] = D.sheets[j]
<1> DEFINE D == DiagnoseWorkbook(w)
           S == {D.sheets[k] : k \in DOMAIN D.sheets}
           places == {k \in DOMAIN D.sheets : /\ ~D.sheets[k].ignored /\ SheetImportable(D.sheets[k])
                                              /\ D.sheets[k].header # 0}
           u == UsefulSheets(D)
           stopped == \E k \in DOMAIN w : LimitsExceeded(w[k])
           sheets == [k \in DOMAIN w |-> IF stopped THEN UnreadDiagnostic(w[k]) ELSE DiagnoseSheet(w[k])]
<1>1. D.sheets = sheets
  BY DEF DiagnoseWorkbook
<1>2. DOMAIN sheets = DOMAIN w /\ sheets = [k \in DOMAIN w |-> sheets[k]]
  OBVIOUS
<1>3. \A k \in DOMAIN w : /\ sheets[k] = UnreadDiagnostic(w[k]) \/ sheets[k] = DiagnoseSheet(w[k])
                          /\ sheets[k].name = w[k].name
  <2>1. \A k \in DOMAIN w : UnreadDiagnostic(w[k]).name = w[k].name
    BY UnreadFields
  <2>2. \A k \in DOMAIN w : DiagnoseSheet(w[k]).name = w[k].name
    BY SheetKinds
  <2>3. \A k \in DOMAIN w : sheets[k] = UnreadDiagnostic(w[k]) \/ sheets[k] = DiagnoseSheet(w[k])
    OBVIOUS
  <2> HIDE DEF sheets
  <2> QED BY <2>1, <2>2, <2>3
<1> HIDE DEF D, sheets, stopped
<1>4. D.sheets \in Seq(S)
  <2>1. Len(w) \in Nat /\ DOMAIN w = 1 .. Len(w)
    BY SheetsOfAWorkbook
  <2>2. D.sheets \in [1 .. Len(w) -> S]
    BY <1>1, <1>2, <2>1
  <2> HIDE DEF S
  <2> QED BY <2>1, <2>2, SeqDef
<1>5. u = Picked(D.sheets, places)
  BY DEF UsefulSheets
<1>6. places \in SUBSET (DOMAIN D.sheets)
  OBVIOUS
<1> HIDE DEF S, places, u
<1>7. u \in Seq(S) /\ Len(u) \in Nat /\ DOMAIN u = 1 .. Len(u) /\ Len(u) = Cardinality(places)
  BY <1>4, <1>5, <1>6, PickedItems, LenProperties
<1>8. PICK f \in [1 .. Cardinality(places) -> places] :
               /\ \A j, k \in 1 .. Cardinality(places) : j < k => f[j] < f[k]
               /\ \A i \in places : \E j \in 1 .. Cardinality(places) : f[j] = i
               /\ \A j \in 1 .. Cardinality(places) : Picked(D.sheets, places)[j] = D.sheets[f[j]]
  BY <1>4, <1>6, PickedItems, ZenonT(60)
<1>9. \A k \in DOMAIN u : f[k] \in places /\ f[k] \in DOMAIN w /\ u[k] = sheets[f[k]]
  BY <1>1, <1>2, <1>5, <1>6, <1>7, <1>8
<1>10. ASSUME NEW k \in DOMAIN u
       PROVE  /\ u[k].headers \in Seq(Header) /\ Distinct(u[k].headers)
              /\ \E j \in DOMAIN u[k].headers : HeaderRole[u[k].headers[j].text] = "id_dossier"
              /\ \E j \in DOMAIN w :
                    /\ u[k].name = w[j].name
                    /\ \A i \in DOMAIN u[k].headers : u[k].headers[i].pos \in 1 .. Width(w[j])
  <2> DEFINE j == f[k]
             d == sheets[j]
  <2>1. j \in DOMAIN w /\ u[k] = d /\ SheetImportable(d) /\ d.header # 0
    BY <1>1, <1>9 DEF places
  <2> HIDE DEF j
  <2>2. d = DiagnoseSheet(w[j])
    <3>1. UnreadDiagnostic(w[j]).header = 0
      BY UnreadFields
    <3> QED BY <1>3, <2>1, <3>1
  <2>3. d = ReadDiagnostic(w[j]) /\ DetectHeaderRow(w[j]) # 0
    <3> HIDE DEF d
    <3> QED BY <2>1, <2>2, SheetWithHeader
  <2>4. IsSheet(w[j])
    BY <2>1, SheetsOfAWorkbook
  <2> HIDE DEF d
  <2>5. d.read
    BY <2>3, ReadFields
  <2>6. /\ d.headers \in Seq(Header) /\ Len(d.ids) \in Nat
        /\ \A i, l \in DOMAIN d.headers : d.headers[i].pos = d.headers[l].pos => i = l
        /\ \A i \in DOMAIN d.headers : d.headers[i].pos \in 1 .. Width(w[j])
        /\ d.ids # <<>> => \E i \in DOMAIN d.headers : HeaderRole[d.headers[i].text] = "id_dossier"
        /\ Len(d.ids) <= 1 =>
              \A i, l \in DOMAIN d.headers :
                 HeaderRole[d.headers[i].text] = "id_dossier"
                   /\ HeaderRole[d.headers[l].text] = "id_dossier" => i = l
    BY <2>3, <2>4, HeadersOfASheet
  <2>7. ~(Len(d.ids) > 1) /\ d.ids # <<>>
    BY <2>1, <2>5 DEF SheetImportable, SheetBlockers
  <2>8. Len(d.ids) <= 1
    BY <2>6, <2>7
  <2>9. Distinct(d.headers)
    BY <2>6, <2>8 DEF Distinct
  <2>10. d.name = w[j].name
    BY <1>3, <2>1 DEF d
  <2> QED BY <2>1, <2>6, <2>7, <2>9, <2>10
<1>11. ASSUME NEW k \in DOMAIN u, NEW l \in DOMAIN u, u[k].name = u[l].name
       PROVE  k = l
  <2>1. f[k] = f[l]
    <3>1. w[f[k]].name = w[f[l]].name
      BY <1>3, <1>9, <1>11
    <3> QED BY <1>9, <3>1, SheetsOfAWorkbook
  <2>2. k \in Int /\ l \in Int /\ f[k] \in Int /\ f[l] \in Int
    BY <1>7, <1>9, SheetsOfAWorkbook
  <2>3. ~(k < l) /\ ~(l < k)
    BY <1>7, <1>8, <2>1, <2>2
  <2> QED BY <2>2, <2>3
<1>12. ASSUME NEW j \in DOMAIN w, ~D.sheets[j].ignored, SheetImportable(D.sheets[j]), D.sheets[j].header # 0
       PROVE  \E k \in DOMAIN u : u[k] = D.sheets[j]
  <2>1. j \in places
    BY <1>1, <1>2, <1>12 DEF places
  <2>2. PICK k \in 1 .. Cardinality(places) : f[k] = j
    BY <1>8, <2>1
  <2>3. k \in DOMAIN u /\ u[k] = sheets[f[k]]
    BY <1>7, <1>9
  <2> QED BY <1>1, <2>2, <2>3
<1>13. DOMAIN D.sheets = DOMAIN w
  BY <1>1, <1>2
<1> QED BY <1>7, <1>10, <1>11, <1>12, <1>13 DEF D, u

\* The default mapping has a column for each header of each sheet, and no
\* identifier of a column twice.
LEMMA DefaultColumns ==
  ASSUME NEW w \in Workbooks
  PROVE  LET u == UsefulSheets(DiagnoseWorkbook(w))
             m == DefaultMapping(DiagnoseWorkbook(w))
         IN /\ \A k \in DOMAIN u : \A j \in DOMAIN u[k].headers :
                  <<u[k].name, u[k].headers[j].pos>> \in ColumnIds(m)
            /\ m.columns \in Seq(Range(m.columns))
            /\ \A p \in DOMAIN m.columns :
                  \/ m.columns[p] \in {SystemColumns[1], SystemColumns[2]}
                  \/ \E k \in DOMAIN u : \E j \in DOMAIN u[k].headers :
                        m.columns[p] = SourceColumn(u[k], k = 1, u[k].headers[j])
            /\ \A k \in DOMAIN u : \A j \in DOMAIN u[k].headers : \E p \in DOMAIN m.columns :
                  m.columns[p] = SourceColumn(u[k], k = 1, u[k].headers[j])
            /\ u # <<>> => \A n \in {1, 2} : \E p \in DOMAIN m.columns : m.columns[p] = SystemColumns[n]
            /\ \A p, q \in DOMAIN m.columns : m.columns[p].id = m.columns[q].id => p = q
<1> DEFINE D == DiagnoseWorkbook(w)
           u == UsefulSheets(D)
           m == DefaultMapping(D)
           sc(k) == SheetColumns(u[k], k = 1)
           seqs == [k \in DOMAIN u |-> sc(k)]
           cs == m.columns
           T == UNION {Range(sc(k)) : k \in DOMAIN u}
<1>1. cs = FlattenSeq(seqs)
  BY DEF DefaultMapping
<1>2. /\ Len(u) \in Nat /\ DOMAIN u = 1 .. Len(u)
      /\ \A k \in DOMAIN u : u[k].headers \in Seq(Header) /\ Distinct(u[k].headers)
      /\ \A k \in DOMAIN u : \E j \in DOMAIN u[k].headers :
            HeaderRole[u[k].headers[j].text] = "id_dossier"
      /\ \A k, l \in DOMAIN u : u[k].name = u[l].name => k = l
  BY SheetsToMap
<1> HIDE DEF u, cs
<1>3. ASSUME NEW k \in DOMAIN u
      PROVE  /\ sc(k) \in Seq(Range(sc(k)))
             /\ \A j \in DOMAIN u[k].headers : \E p \in DOMAIN sc(k) :
                   sc(k)[p] = SourceColumn(u[k], k = 1, u[k].headers[j])
             /\ \A p \in DOMAIN sc(k) :
                   \/ sc(k)[p].id[1] = u[k].name /\ sc(k)[p].id[2] \in Nat \ {0}
                   \/ k = 1 /\ sc(k)[p].id[2] = 0
             /\ \A p \in DOMAIN sc(k) :
                   \/ sc(k)[p] \in {SystemColumns[1], SystemColumns[2]}
                   \/ \E j \in DOMAIN u[k].headers : sc(k)[p] = SourceColumn(u[k], k = 1, u[k].headers[j])
             /\ k = 1 => \A n \in {1, 2} : \E p \in DOMAIN sc(k) : sc(k)[p] = SystemColumns[n]
             /\ \A p, q \in DOMAIN sc(k) : sc(k)[p].id = sc(k)[q].id => p = q
  <2> DEFINE sheet == u[k]
             first == k = 1
  <2>1. sheet.headers \in Seq(Header) /\ Distinct(sheet.headers) /\ first \in BOOLEAN
    BY <1>2
  <2>2. LET c == SheetColumns(sheet, first)
        IN /\ c \in Seq(Range(c))
           /\ \A j \in DOMAIN sheet.headers : \E p \in DOMAIN c :
                 c[p] = SourceColumn(sheet, first, sheet.headers[j])
           /\ \A p \in DOMAIN c : \/ c[p].id[1] = sheet.name /\ c[p].id[2] \in Nat \ {0}
                                  \/ first /\ c[p].id[2] = 0
           /\ \A p \in DOMAIN c :
                  \/ c[p] \in {SystemColumns[1], SystemColumns[2]}
                  \/ \E j \in DOMAIN sheet.headers : c[p] = SourceColumn(sheet, first, sheet.headers[j])
           /\ first => \A j \in DOMAIN sheet.headers : HeaderRole[sheet.headers[j].text] = "id_dossier" =>
                  \A n \in {1, 2} : \E p \in DOMAIN c : c[p] = SystemColumns[n]
           /\ Distinct(sheet.headers) =>
                 \A p, q \in DOMAIN c : c[p].id = c[q].id => p = q
    <3> HIDE DEF sheet, first
    <3> QED BY <2>1, ColumnsOfASheet
  <2>3. \E j \in DOMAIN sheet.headers : HeaderRole[sheet.headers[j].text] = "id_dossier"
    BY <1>2
  <2>4. k = 1 => \A n \in {1, 2} : \E p \in DOMAIN sc(k) : sc(k)[p] = SystemColumns[n]
    BY <2>2, <2>3, Zenon
  <2> QED BY <2>1, <2>2, <2>4
<1> HIDE DEF sc
<1>16. \A k \in DOMAIN u : \A p \in DOMAIN sc(k) :
          \/ sc(k)[p] \in {SystemColumns[1], SystemColumns[2]}
          \/ \E j \in DOMAIN u[k].headers : sc(k)[p] = SourceColumn(u[k], k = 1, u[k].headers[j])
  BY <1>3, Zenon
<1>17. 1 \in DOMAIN u => \A n \in {1, 2} : \E p \in DOMAIN sc(1) : sc(1)[p] = SystemColumns[n]
  BY <1>3
<1>14. \A k \in DOMAIN u : \A p \in DOMAIN sc(k) :
          \/ sc(k)[p].id[1] = u[k].name /\ sc(k)[p].id[2] \in Nat \ {0}
          \/ k = 1 /\ sc(k)[p].id[2] = 0
  BY <1>3, Zenon
<1>15. \A k \in DOMAIN u : \A p, q \in DOMAIN sc(k) : sc(k)[p].id = sc(k)[q].id => p = q
  BY <1>3, Zenon
<1>4. seqs \in Seq(Seq(T))
  <2>1. ASSUME NEW k \in DOMAIN u PROVE seqs[k] \in Seq(T)
    <3> DEFINE s == sc(k)
               R == Range(s)
    <3>1. s \in Seq(R) /\ R \in SUBSET T /\ seqs[k] = s
      BY <1>3
    <3> HIDE DEF T, s, R, seqs
    <3> QED BY <3>1
  <2>2. seqs \in [1 .. Len(u) -> Seq(T)]
    BY <1>2, <2>1
  <2> HIDE DEF T, seqs
  <2> QED BY <1>2, <2>2, SeqDef
<1>5. DOMAIN seqs = DOMAIN u /\ \A k \in DOMAIN u : seqs[k] = sc(k)
  OBVIOUS
<1> HIDE DEF seqs, T
<1>6. cs \in Seq(T)
  BY <1>1, <1>4, Flattens
<1>7. PICK at : IsFlat(cs, seqs, Len(seqs), at)
  BY <1>1, <1>4, Flattens
<1>8. Len(cs) \in Nat /\ DOMAIN cs = 1 .. Len(cs) /\ DOMAIN seqs = 1 .. Len(seqs)
  BY <1>4, <1>6, LenProperties
<1>9. \A p \in DOMAIN cs : /\ at[p] \in Places(seqs, Len(seqs))
                           /\ cs[p] = seqs[at[p][1]][at[p][2]]
  BY <1>7, <1>8 DEF IsFlat
<1>10. ASSUME NEW p \in DOMAIN cs
       PROVE  /\ at[p][1] \in DOMAIN u /\ at[p][2] \in DOMAIN sc(at[p][1])
              /\ at[p] = <<at[p][1], at[p][2]>> /\ cs[p] = sc(at[p][1])[at[p][2]]
  BY <1>5, <1>8, <1>9 DEF Places
<1>18. ASSUME NEW k \in DOMAIN u, NEW i \in DOMAIN sc(k)
       PROVE  \E p \in DOMAIN cs : cs[p] = sc(k)[i]
  <2>1. i \in Nat
    BY <1>3, LenProperties
  <2>2. <<k, i>> \in Places(seqs, Len(seqs))
    BY <1>5, <1>8, <2>1 DEF Places
  <2>3. PICK p \in DOMAIN cs : at[p] = <<k, i>>
    BY <1>7, <1>8, <2>2 DEF IsFlat
  <2> QED BY <1>5, <1>9, <2>3
<1>11. ASSUME NEW k \in DOMAIN u, NEW j \in DOMAIN u[k].headers
       PROVE  <<u[k].name, u[k].headers[j].pos>> \in ColumnIds(m)
  <2>1. PICK i \in DOMAIN sc(k) : sc(k)[i] = SourceColumn(u[k], k = 1, u[k].headers[j])
    BY <1>3
  <2>2. PICK p \in DOMAIN cs : cs[p] = SourceColumn(u[k], k = 1, u[k].headers[j])
    BY <1>18, <2>1
  <2>3. cs[p].id = <<u[k].name, u[k].headers[j].pos>>
    BY <2>2 DEF SourceColumn
  <2>4. cs[p] \in Range(m.columns)
    BY DEF Range, cs
  <2> HIDE DEF m
  <2> QED BY <2>3, <2>4 DEF ColumnIds
<1>12. ASSUME NEW p \in DOMAIN cs, NEW q \in DOMAIN cs, cs[p].id = cs[q].id
       PROVE  p = q
  <2> DEFINE k == at[p][1]
             i == at[p][2]
             l == at[q][1]
             j == at[q][2]
             id == cs[p].id
  <2>1. /\ k \in DOMAIN u /\ i \in DOMAIN sc(k) /\ at[p] = <<k, i>> /\ id = sc(k)[i].id
        /\ l \in DOMAIN u /\ j \in DOMAIN sc(l) /\ at[q] = <<l, j>> /\ id = sc(l)[j].id
    BY <1>10, <1>12
  <2> HIDE DEF k, i, l, j, id
  <2>2. k = l
    <3>1. \/ id[1] = u[k].name /\ id[2] \in Nat \ {0}
          \/ k = 1 /\ id[2] = 0
      BY <1>14, <2>1
    <3>2. \/ id[1] = u[l].name /\ id[2] \in Nat \ {0}
          \/ l = 1 /\ id[2] = 0
      BY <1>14, <2>1
    <3> QED BY <1>2, <2>1, <3>1, <3>2
  <2>3. i = j
    BY <1>15, <2>1, <2>2
  <2>4. at[p] = at[q]
    BY <2>1, <2>2, <2>3
  <2> QED BY <1>7, <1>8, <2>4 DEF IsFlat
<1>13. cs \in Seq(Range(cs))
  <2> DEFINE R == {cs[i] : i \in DOMAIN cs}
  <2>1. cs = [i \in 1 .. Len(cs) |-> cs[i]]
    BY <1>6, <1>8, LenProperties
  <2>2. cs \in [1 .. Len(cs) -> R]
    BY <1>8, <2>1
  <2> HIDE DEF R
  <2>3. cs \in Seq(R)
    BY <1>8, <2>2, SeqDef
  <2> QED BY <2>3 DEF Range, R
<1>19. ASSUME NEW p \in DOMAIN cs
       PROVE  \/ cs[p] \in {SystemColumns[1], SystemColumns[2]}
              \/ \E k \in DOMAIN u : \E j \in DOMAIN u[k].headers :
                    cs[p] = SourceColumn(u[k], k = 1, u[k].headers[j])
  BY <1>10, <1>16
<1>20. ASSUME NEW k \in DOMAIN u, NEW j \in DOMAIN u[k].headers
       PROVE  \E p \in DOMAIN cs : cs[p] = SourceColumn(u[k], k = 1, u[k].headers[j])
  <2>1. PICK i \in DOMAIN sc(k) : sc(k)[i] = SourceColumn(u[k], k = 1, u[k].headers[j])
    BY <1>3
  <2> QED BY <1>18, <2>1
<1>21. ASSUME u # <<>>, NEW n \in {1, 2} PROVE \E p \in DOMAIN cs : cs[p] = SystemColumns[n]
  <2>1. 1 \in DOMAIN u
    <3>1. Len(u) # 0
      BY <1>2, <1>21, SheetsToMap DEF u, D
    <3> QED BY <1>2, <3>1
  <2> QED BY <1>17, <1>18, <2>1
<1> QED BY <1>11, <1>12, <1>13, <1>19, <1>20, <1>21 DEF D, u, m, cs

\* Every visible cell of an accepted workbook is in a header row or below one,
\* in a column of the mapping.
LEMMA CellsAreMapped ==
  ASSUME NEW w \in Workbooks, DiagnoseWorkbook(w).importable,
         NEW k \in DOMAIN w, NEW n \in DOMAIN w[k].rows, ~RowIsHidden(w[k].rows[n]),
         NEW i \in Present(w[k].rows[n])
  PROVE  /\ n >= DiagnoseWorkbook(w).sheets[k].header
         /\ <<w[k].name, i>> \in ColumnIds(DefaultMapping(DiagnoseWorkbook(w)))
<1> DEFINE D == DiagnoseWorkbook(w)
           u == UsefulSheets(D)
           stopped == \E j \in DOMAIN w : LimitsExceeded(w[j])
           sheets == [j \in DOMAIN w |-> IF stopped THEN UnreadDiagnostic(w[j]) ELSE DiagnoseSheet(w[j])]
           sheet == w[k]
           d == ReadDiagnostic(sheet)
           h == DetectHeaderRow(sheet)
<1>1. D.sheets = sheets /\ \A j \in DOMAIN sheets : SheetImportable(sheets[j])
  <2> HIDE DEF stopped
  <2>1. D = [sheets |-> sheets, collisions |-> CsvHeaderCollisions(sheets),
             importable |-> /\ \A j \in DOMAIN sheets : SheetImportable(sheets[j])
                            /\ CsvHeaderCollisions(sheets) = {}]
    BY Zenon DEF DiagnoseWorkbook, stopped
  <2>2. D.importable
    OBVIOUS
  <2> HIDE DEF D, sheets
  <2> QED BY <2>1, <2>2
<1>2. ~stopped
  <2>1. SUFFICES ASSUME NEW j \in DOMAIN w, LimitsExceeded(w[j]) PROVE FALSE
    OBVIOUS
  <2>2. sheets[j] = UnreadDiagnostic(w[j])
    BY <2>1
  <2>3. sheets[j].limits
    BY <2>1, <2>2, UnreadFields
  <2>4. SheetImportable(sheets[j])
    BY <1>1
  <2> HIDE DEF sheets
  <2> QED BY <2>3, <2>4 DEF SheetImportable, SheetBlockers
<1>3. sheets[k] = DiagnoseSheet(sheet) /\ SheetImportable(sheets[k])
  BY <1>1, <1>2
<1> HIDE DEF D, sheets, stopped, sheet
<1>4. DiagnoseSheet(sheet) = d
  <2>1. ~LimitsExceeded(sheet)
    BY <1>2 DEF stopped, sheet
  <2>2. ~ \A o \in DOMAIN sheet.rows : Present(sheet.rows[o]) = {}
    BY DEF sheet
  <2> QED BY <2>1, <2>2 DEF DiagnoseSheet
<1>5. d.read /\ ~d.ignored /\ d.header \in Nat
  BY ReadFields
<1>6. /\ d.header # 0 /\ ~d.early /\ ~d.headless
  <2>1. SheetBlockers(d) = {}
    BY <1>3, <1>4 DEF SheetImportable
  <2> HIDE DEF d
  <2> QED BY <1>5, <2>1 DEF SheetBlockers
<1>7. h # 0
  BY <1>4, <1>6, SheetWithHeader
<1>8. IsSheet(sheet)
  BY SheetsOfAWorkbook DEF sheet
<1>9. /\ Width(sheet) \in Nat
      /\ \A x \in 1 .. Width(sheet) : Canon[sheet.rows[h].cells[x]] # ""
            => \E j \in DOMAIN d.headers : d.headers[j].pos = x
  BY <1>7, <1>8, HeadersOfASheet
<1>10. /\ d.header = h
       /\ d.early <=> h # 1 /\ DataBeforeHeader(sheet, h)
       /\ d.headless <=> \E x \in 1 .. Width(sheet), y \in VisibleDataRows(sheet, h) :
                            Canon[sheet.rows[h].cells[x]] = "" /\ Canon[sheet.rows[y].cells[x]] # ""
  BY <1>7, <1>9, HeadersRead
<1>11. /\ Len(sheet.rows) \in Nat /\ n \in 1 .. Len(sheet.rows)
       /\ i \in 1 .. Width(sheet) /\ Canon[sheet.rows[n].cells[i]] # ""
  <2>1. /\ Len(sheet.rows) \in Nat /\ DOMAIN sheet.rows = 1 .. Len(sheet.rows)
        /\ sheet.rows[n] \in Row /\ Len(sheet.rows[n].cells) = Width(sheet)
    BY <1>8, LenProperties DEF IsSheet, sheet
  <2>2. sheet.rows[n].cells \in Seq(Cells)
    BY <2>1 DEF Row
  <2>3. DOMAIN sheet.rows[n].cells = 1 .. Width(sheet)
    BY <2>1, <2>2, LenProperties
  <2>4. i \in DOMAIN sheet.rows[n].cells /\ Canon[sheet.rows[n].cells[i]] # ""
    BY DEF Present, sheet
  <2>5. n \in DOMAIN sheet.rows
    BY DEF sheet
  <2> QED BY <2>1, <2>3, <2>4, <2>5
<1>12. ~RowIsHidden(sheet.rows[n]) /\ Present(sheet.rows[n]) # {}
  BY DEF sheet
<1> HIDE DEF d, h
<1>13. h \in Nat /\ Len(sheet.rows) \in Nat /\ n \in Nat /\ 1 <= n /\ n <= Len(sheet.rows)
  <2>1. n \in 1 .. Len(sheet.rows) /\ Len(sheet.rows) \in Nat
    BY <1>11
  <2>2. h = d.header
    BY <1>10, Zenon
  <2>3. h \in Nat
    BY <1>5, <2>2, Zenon
  <2>4. n \in Nat /\ 1 <= n /\ n <= Len(sheet.rows)
    BY <2>1
  <2> QED BY <2>1, <2>3, <2>4
<1>14. n >= h
  <2>1. SUFFICES ASSUME n < h PROVE FALSE
    BY <1>13
  <2>2. n \in 1 .. h - 1 /\ h # 1
    BY <1>13, <2>1
  <2>3. DataBeforeHeader(sheet, h)
    BY <1>12, <2>2 DEF DataBeforeHeader
  <2> QED BY <1>6, <1>10, <2>2, <2>3
<1>15. Canon[sheet.rows[h].cells[i]] # ""
  <2>1. CASE n = h
    BY <1>11, <2>1
  <2>2. CASE n # h
    <3>1. n \in h + 1 .. Len(sheet.rows)
      BY <1>13, <1>14, <2>2
    <3>2. n \in VisibleDataRows(sheet, h)
      BY <1>12, <3>1 DEF VisibleDataRows
    <3> QED BY <1>6, <1>10, <1>11, <3>2
  <2> QED BY <2>1, <2>2
<1>16. PICK j \in DOMAIN d.headers : d.headers[j].pos = i
  BY <1>9, <1>11, <1>15 DEF d, h
<1>17. D.sheets[k] = d
  BY <1>1, <1>3, <1>4
<1>18. PICK x \in DOMAIN u : u[x] = d
  BY <1>3, <1>4, <1>5, <1>6, <1>17, SheetsToMap DEF D
<1>19. d.name = sheet.name
  BY ReadFields DEF d
<1>20. <<u[x].name, u[x].headers[j].pos>> \in ColumnIds(DefaultMapping(D))
  BY <1>16, <1>18, DefaultColumns DEF D
<1> QED BY <1>10, <1>14, <1>16, <1>17, <1>18, <1>19, <1>20 DEF D, sheet

\* The default mapping of an accepted workbook offers a column for all that is
\* visible in it (build_default_mapping, diagnose_sheet), for whatever workbook
\* of rectangular sheets.
THEOREM AcceptedDataHasItsColumn == Spec => []AcceptedDataIsMapped
<1>1. Init => Content
  BY ContentInit
<1>2. Content /\ [Next]_vars => Content'
  BY ContentStep
<1>3. Content => AcceptedDataIsMapped
  <2>1. SUFFICES ASSUME Content, diagnosis # None, diagnosis.importable,
                        NEW k \in DOMAIN workbook, NEW n \in DOMAIN workbook[k].rows,
                        ~RowIsHidden(workbook[k].rows[n]), NEW i \in Present(workbook[k].rows[n])
                 PROVE  /\ n >= diagnosis.sheets[k].header
                        /\ <<workbook[k].name, i>> \in ColumnIds(Default)
    BY DEF AcceptedDataIsMapped
  <2>2. workbook \in Workbooks /\ diagnosis = DiagnoseWorkbook(workbook)
    BY <2>1 DEF Content, Diagnosed
  <2> QED BY <2>1, <2>2, CellsAreMapped DEF Default
<1> QED BY <1>1, <1>2, <1>3, PTL DEF Spec

-----------------------------------------------------------------------------
(***************************************************************************)
(* The profiles (apply_profile_to_default_mapping).                        *)
(***************************************************************************)

\* The columns of a default mapping follow from its structure.
LEMMA SameStructure ==
  ASSUME NEW D, NEW E, DefaultMapping(D).structure = DefaultMapping(E).structure
  PROVE  DefaultMapping(D).columns = DefaultMapping(E).columns
<1> DEFINE a == UsefulSheets(D)
           b == UsefulSheets(E)
           Told(u) == [k \in DOMAIN u |->
                         [name |-> u[k].name, headers |-> u[k].headers,
                          ids |-> {u[k].ids[i].pos : i \in DOMAIN u[k].ids}]]
           Made(u) == [k \in DOMAIN u |-> SheetColumns(u[k], k = 1)]
<1>1. Told(a) = Told(b)
  BY DEF DefaultMapping, Structure
<1>2. /\ DefaultMapping(D).columns = FlattenSeq(Made(a))
      /\ DefaultMapping(E).columns = FlattenSeq(Made(b))
  BY DEF DefaultMapping
<1> HIDE DEF a, b
<1>3. DOMAIN a = DOMAIN b
  <2>1. DOMAIN Told(a) = DOMAIN a /\ DOMAIN Told(b) = DOMAIN b
    OBVIOUS
  <2> HIDE DEF Told
  <2> QED BY <1>1, <2>1
<1>4. ASSUME NEW k \in DOMAIN a
      PROVE  SheetColumns(a[k], k = 1) = SheetColumns(b[k], k = 1)
  <2>1. Told(a)[k].name = a[k].name /\ Told(a)[k].headers = a[k].headers
    OBVIOUS
  <2>2. Told(b)[k].name = b[k].name /\ Told(b)[k].headers = b[k].headers
    BY <1>3
  <2>3. a[k].name = b[k].name /\ a[k].headers = b[k].headers
    <3> HIDE DEF Told
    <3> QED BY <1>1, <2>1, <2>2
  <2> DEFINE x == a[k]
             y == b[k]
             first == k = 1
  <2>4. x.name = y.name /\ x.headers = y.headers
    BY <2>3
  <2> HIDE DEF x, y, first
  <2>5. \A h : SourceColumn(x, first, h) = SourceColumn(y, first, h)
    BY <2>4 DEF SourceColumn
  <2>6. \A h : ColumnsOfHeader(x, first, h) = ColumnsOfHeader(y, first, h)
    BY <2>5 DEF ColumnsOfHeader
  <2>7. SheetColumns(x, first) = SheetColumns(y, first)
    BY <2>4, <2>6 DEF SheetColumns
  <2> QED BY <2>7 DEF x, y, first
<1>5. Made(a) = Made(b)
  BY <1>3, <1>4
<1> QED BY <1>2, <1>5

\* The letter of a submitted name is the column's, a name that was cleaned is
\* kept as it is, and an empty one stands for the default name
\* (clean_submitted_csv_name).
IsColumn(c) ==
    /\ DOMAIN c = {"id", "system", "sheet", "pos", "header", "role", "exported", "name"}
    /\ \/ c.system \/ c.role = "id_dossier"
       \/ \E h \in Cells : c.name = DefaultName([text |-> h, pos |-> c.pos])

LEMMA SubmittedNames ==
  ASSUME NEW c, IsColumn(c), ~c.system, c.role # "id_dossier", NEW name
  PROVE  LET n == SubmittedName(c, name)
         IN /\ n[1] = c.pos
            /\ n[2] # "" => SubmittedName(c, n) = n
            /\ n[2] = "" => SubmittedName(c, n) = c.name
<1> DEFINE clean(b) == IF b \in UserBodies THEN CleanBody[b] ELSE b
           body(n) == IF n[2] = "" THEN c.name[2] ELSE n[2]
<1>1. \A n : SubmittedName(c, n) = <<c.pos, clean(body(n))>>
  BY DEF SubmittedName
<1>2. PICK h \in Cells : c.name = DefaultName([text |-> h, pos |-> c.pos])
  BY DEF IsColumn
<1> DEFINE d == IF HeaderBody[h] = "" THEN NoSuggestion ELSE HeaderBody[h]
<1>3. c.name = <<c.pos, d>>
  BY <1>2 DEF DefaultName
<1>4. d \in UserBodies => CleanBody[d] = d
  <2>1. d \in {HeaderBody[x] : x \in Cells} \cup {NoSuggestion}
    OBVIOUS
  <2> HIDE DEF d
  <2> QED BY <2>1, MappingAssumption
<1>5. ASSUME NEW b
      PROVE  clean(clean(b)) = clean(b)
  <2>1. CASE b \in UserBodies
    <3>1. CleanBody[b] \in {CleanBody[u] : u \in UserBodies}
      BY <2>1
    <3>2. CleanBody[b] \in UserBodies => CleanBody[CleanBody[b]] = CleanBody[b]
      BY <3>1, MappingAssumption
    <3> QED BY <2>1, <3>2
  <2>2. CASE b \notin UserBodies
    BY <2>2
  <2> QED BY <2>1, <2>2
<1> HIDE DEF d
<1>6. c.name[2] = d /\ clean(d) = d
  BY <1>3, <1>4
<1> DEFINE n == SubmittedName(c, name)
<1>7. n[1] = c.pos /\ n[2] = clean(body(name)) /\ n = <<c.pos, n[2]>>
  <2>1. n = <<c.pos, clean(body(name))>>
    BY <1>1
  <2> HIDE DEF n, clean, body
  <2> QED BY <2>1
<1> HIDE DEF clean, n
<1>8. n[2] # "" => SubmittedName(c, n) = n
  BY <1>1, <1>5, <1>7
<1>9. n[2] = "" => SubmittedName(c, n) = c.name
  BY <1>1, <1>3, <1>6
<1> QED BY <1>7, <1>8, <1>9 DEF n

\* The columns, as what was submitted makes them of those of a default mapping.
Submitted(cs, s) ==
    [i \in DOMAIN cs |->
        IF cs[i].system \/ cs[i].role = "id_dossier" THEN cs[i]
        ELSE [cs[i] EXCEPT !.exported = s.choices[cs[i].id].exported,
                           !.role = s.choices[cs[i].id].role,
                           !.name = SubmittedName(cs[i], s.choices[cs[i].id].name)]]

\* A submission changes nothing but the columns.
LEMMA SubmittedColumns ==
  ASSUME NEW default, "columns" \in DOMAIN default, NEW s
  PROVE  LET m == FromSubmission(default, s)
         IN /\ DOMAIN m = DOMAIN default
            /\ \A f \in DOMAIN default \ {"columns"} : m[f] = default[f]
            /\ m.columns = Submitted(default.columns, s)
BY DEF FromSubmission, Submitted

LEMMA SubmittedSeq ==
  ASSUME NEW cs, cs \in Seq(Range(cs)), NEW s
  PROVE  Submitted(cs, s) \in Seq(Range(Submitted(cs, s)))
<1> DEFINE ms == Submitted(cs, s)
           R == {ms[i] : i \in DOMAIN ms}
<1>1. Len(cs) \in Nat /\ DOMAIN cs = 1 .. Len(cs)
  BY LenProperties
<1>2. DOMAIN ms = DOMAIN cs /\ ms = [i \in DOMAIN cs |-> ms[i]]
  BY DEF Submitted
<1> HIDE DEF ms
<1>3. ms \in [1 .. Len(cs) -> R]
  BY <1>1, <1>2
<1> HIDE DEF R
<1>4. ms \in Seq(R)
  BY <1>1, <1>3, SeqDef
<1> QED BY <1>4 DEF Range, R, ms

\* Columns keep their identifiers.
LEMMA SameIds ==
  ASSUME NEW default, "columns" \in DOMAIN default, NEW s
  PROVE  LET m == FromSubmission(default, s)
         IN /\ DOMAIN m.columns = DOMAIN default.columns
            /\ \A i \in DOMAIN m.columns : m.columns[i].id = default.columns[i].id
            /\ ColumnIds(m) = ColumnIds(default)
<1> DEFINE m == FromSubmission(default, s)
           cs == default.columns
           ms == m.columns
<1>1. ms = Submitted(cs, s)
  BY SubmittedColumns
<1> HIDE DEF m, cs, ms
<1>2. DOMAIN ms = DOMAIN cs
  BY <1>1 DEF Submitted
<1>3. ASSUME NEW i \in DOMAIN ms PROVE ms[i].id = cs[i].id
  <2>1. \/ ms[i] = cs[i]
        \/ \E e, r, n : ms[i] = [cs[i] EXCEPT !.exported = e, !.role = r, !.name = n]
    BY <1>1, <1>2 DEF Submitted
  <2>2. ASSUME NEW e, NEW r, NEW n, ms[i] = [cs[i] EXCEPT !.exported = e, !.role = r, !.name = n]
        PROVE  ms[i].id = cs[i].id
    BY <2>2
  <2> QED BY <2>1, <2>2
<1>4. {c.id : c \in Range(ms)} = {c.id : c \in Range(cs)}
  BY <1>2, <1>3 DEF Range
<1> QED BY <1>2, <1>3, <1>4 DEF m, cs, ms, ColumnIds

\* Something is chosen for each column.
LEMMA ChosenIds ==
  ASSUME NEW m
  PROVE  DOMAIN ChoicesOf(m) = {m.columns[i].id : i \in DOMAIN m.columns}
BY DEF ChoicesOf, ColumnIds, Range

\* What is chosen for a column, when no other column has its identifier.
LEMMA ChoicesAt ==
  ASSUME NEW m, NEW i \in DOMAIN m.columns,
         \A p, q \in DOMAIN m.columns : m.columns[p].id = m.columns[q].id => p = q
  PROVE  LET c == m.columns[i]
         IN /\ c.id \in ColumnIds(m)
            /\ ChoicesOf(m)[c.id] = [exported |-> c.exported, role |-> c.role, name |-> c.name]
<1> DEFINE ms == m.columns
           id == ms[i].id
           y == CHOOSE x \in Range(ms) : x.id = id
<1>1. ms[i] \in Range(ms) /\ id \in ColumnIds(m)
  BY DEF Range, ColumnIds
<1>2. ASSUME NEW x \in Range(ms), x.id = id PROVE x = ms[i]
  <2>1. PICK j \in DOMAIN ms : x = ms[j]
    BY DEF Range
  <2> QED BY <1>2, <2>1
<1>3. y \in Range(ms) /\ y.id = id
  BY <1>1
<1>4. y = ms[i]
  BY <1>2, <1>3
<1>5. ChoicesOf(m)[id] = [exported |-> y.exported, role |-> y.role, name |-> y.name]
  BY <1>1 DEF ChoicesOf
<1> QED BY <1>1, <1>4, <1>5

\* A column that takes again what another version of it was given is that
\* version, but for its name.
LEMMA ChosenAgain ==
  ASSUME NEW c, IsColumn(c), NEW e, NEW r, NEW n, NEW k
  PROVE  LET x == [c EXCEPT !.exported = e, !.role = r, !.name = n]
         IN /\ x.exported = e /\ x.role = r /\ x.name = n
            /\ [c EXCEPT !.exported = e, !.role = r, !.name = k] = [x EXCEPT !.name = k]
            /\ DOMAIN x = DOMAIN c /\ x.id = c.id
BY DEF IsColumn

\* A profile gives back the columns it was saved from; one whose saved name is
\* empty takes its default name.
Replays(first, saved, default) ==
    LET submission == ProfileSubmission(default, ProfileFrom(saved))
        replayed == FromSubmission(default, submission)
    IN /\ Acceptable(default, submission)
       /\ DOMAIN replayed.columns = DOMAIN first.columns
       /\ DOMAIN saved.columns = DOMAIN first.columns
       /\ \A i \in DOMAIN first.columns :
             LET c == first.columns[i]
                 x == saved.columns[i]
                 y == replayed.columns[i]
             IN /\ x.id = c.id /\ y.id = c.id
                /\ \/ y = x
                   \/ x.name[2] = "" /\ ~c.system /\ y = [x EXCEPT !.name = c.name]

LEMMA ProfileReplays ==
  ASSUME NEW first, NEW s, NEW default,
         "columns" \in DOMAIN first, "columns" \in DOMAIN default,
         default.columns = first.columns,
         \A i \in DOMAIN first.columns : IsColumn(first.columns[i]),
         \A p, q \in DOMAIN first.columns : first.columns[p].id = first.columns[q].id => p = q
  PROVE  Replays(first, FromSubmission(first, s), default)
<1> DEFINE saved == FromSubmission(first, s)
           p == ProfileFrom(saved)
           submission == ProfileSubmission(default, p)
           replayed == FromSubmission(default, submission)
           cs == first.columns
           ms == saved.columns
           chosen == ChoicesOf(saved)
<1>1. ColumnIds(default) = ColumnIds(first)
  BY DEF ColumnIds
<1>2. /\ submission.structure = default.structure
      /\ DOMAIN submission.choices = ColumnIds(default)
      /\ \A id \in ColumnIds(default) : id \in DOMAIN p.choices => submission.choices[id] = p.choices[id]
  BY DEF ProfileSubmission
<1>3. Acceptable(default, submission)
  BY <1>2 DEF Acceptable
<1>4. ms = Submitted(cs, s)
  BY SubmittedColumns
<1>5. /\ DOMAIN ms = DOMAIN cs
      /\ \A i \in DOMAIN ms : ms[i].id = cs[i].id
      /\ ColumnIds(saved) = ColumnIds(first)
  BY Zenon, SameIds
<1>6. replayed.columns = Submitted(cs, submission)
  <2> HIDE DEF submission
  <2> QED BY SubmittedColumns
<1>7. /\ DOMAIN replayed.columns = DOMAIN cs
      /\ \A i \in DOMAIN replayed.columns : replayed.columns[i].id = cs[i].id
  <2> HIDE DEF submission
  <2>1. /\ DOMAIN replayed.columns = DOMAIN default.columns
        /\ \A i \in DOMAIN replayed.columns : replayed.columns[i].id = default.columns[i].id
    BY SameIds, Zenon
  <2> HIDE DEF replayed
  <2> QED BY <2>1
<1>8. p.choices = chosen /\ DOMAIN chosen = ColumnIds(saved)
  BY DEF ProfileFrom, ChoicesOf
<1>9. \A i, j \in DOMAIN ms : ms[i].id = ms[j].id => i = j
  BY <1>5
<1>10. ASSUME NEW i \in DOMAIN ms
       PROVE  chosen[ms[i].id] = [exported |-> ms[i].exported, role |-> ms[i].role, name |-> ms[i].name]
              /\ ms[i].id \in ColumnIds(saved)
  <2> HIDE DEF saved
  <2> QED BY <1>9, ChoicesAt
<1> HIDE DEF saved, p, submission, replayed, ms, chosen
<1>11. ASSUME NEW i \in DOMAIN cs
       PROVE  LET ch == submission.choices[cs[i].id]
              IN ch.exported = ms[i].exported /\ ch.role = ms[i].role /\ ch.name = ms[i].name
  <2>1. submission.choices[cs[i].id] = chosen[ms[i].id]
    BY <1>1, <1>2, <1>5, <1>8, <1>10
  <2>2. chosen[ms[i].id] = [exported |-> ms[i].exported, role |-> ms[i].role, name |-> ms[i].name]
    BY <1>5, <1>10
  <2> QED BY <2>1, <2>2
<1>12. ASSUME NEW i \in DOMAIN cs
       PROVE  \/ replayed.columns[i] = ms[i]
              \/ /\ ms[i].name[2] = "" /\ ~cs[i].system
                 /\ replayed.columns[i] = [ms[i] EXCEPT !.name = cs[i].name]
  <2> DEFINE c == cs[i]
             ch == submission.choices[c.id]
             old == s.choices[c.id]
             n == SubmittedName(c, old.name)
  <2>1. CASE c.system \/ c.role = "id_dossier"
    BY <1>4, <1>6, <2>1 DEF Submitted
  <2>2. CASE ~(c.system \/ c.role = "id_dossier")
    <3>1. ms[i] = [c EXCEPT !.exported = old.exported, !.role = old.role, !.name = n]
      BY <1>4, <2>2 DEF Submitted
    <3>2. replayed.columns[i] = [c EXCEPT !.exported = ch.exported, !.role = ch.role,
                                          !.name = SubmittedName(c, ch.name)]
      BY <1>6, <2>2 DEF Submitted
    <3>3. ch.exported = ms[i].exported /\ ch.role = ms[i].role /\ ch.name = ms[i].name
      BY <1>11
    <3>4. IsColumn(c)
      OBVIOUS
    <3>5. /\ n[2] # "" => SubmittedName(c, n) = n
          /\ n[2] = "" => SubmittedName(c, n) = c.name
      BY <2>2, <3>4, SubmittedNames
    <3> HIDE DEF c, ch, old, n
    <3>6. /\ ms[i].exported = old.exported /\ ms[i].role = old.role /\ ms[i].name = n
          /\ \A k : [c EXCEPT !.exported = old.exported, !.role = old.role, !.name = k]
                    = [ms[i] EXCEPT !.name = k]
      <4> DEFINE x == [c EXCEPT !.exported = old.exported, !.role = old.role, !.name = n]
      <4>1. x.exported = old.exported /\ x.role = old.role /\ x.name = n
        BY <3>4 DEF IsColumn
      <4>2. ASSUME NEW k
            PROVE  [c EXCEPT !.exported = old.exported, !.role = old.role, !.name = k]
                   = [x EXCEPT !.name = k]
        BY <3>4, ChosenAgain
      <4> HIDE DEF x
      <4> QED BY <3>1, <4>1, <4>2 DEF x
    <3>7. replayed.columns[i] = [ms[i] EXCEPT !.name = SubmittedName(c, n)]
      BY <3>2, <3>3, <3>6
    <3>8. [ms[i] EXCEPT !.name = n] = ms[i]
      BY <3>1, <3>6
    <3> QED BY <2>2, <3>5, <3>6, <3>7, <3>8 DEF c
  <2> QED BY <2>1, <2>2
<1> QED BY <1>3, <1>5, <1>7, <1>12 DEF saved, p, submission, replayed, ms, Replays

\* A validated mapping is one the user made of the default mapping of the
\* workbook; a profile was saved from such a mapping of some workbook.
IsMappingOf(m, w) ==
    /\ ValidationErrors(m) = {}
    /\ \E s : m = FromSubmission(DefaultMapping(DiagnoseWorkbook(w)), s)

\* The two invariants the profiles need.
MappingIsSubmitted == mapping # None => IsMappingOf(mapping, workbook)

ProfileIsSaved ==
    profile # None => \E w \in Workbooks : \E m : IsMappingOf(m, w) /\ profile = ProfileFrom(m)

\* What a step does to the mapping and to the profile.
LEMMA MappingSteps ==
  ASSUME Content, [Next]_vars
  PROVE  /\ \/ mapping' = None
            \/ UNCHANGED <<workbook, mapping>>
            \/ IsMappingOf(mapping', workbook) /\ UNCHANGED workbook
         /\ \/ UNCHANGED profile
            \/ mapping # None /\ profile' = ProfileFrom(mapping)
<1> DEFINE Goal == /\ \/ mapping' = None
                      \/ UNCHANGED <<workbook, mapping>>
                      \/ IsMappingOf(mapping', workbook) /\ UNCHANGED workbook
                   /\ \/ UNCHANGED profile
                      \/ mapping # None /\ profile' = ProfileFrom(mapping)
<1>1. ASSUME NEW w \in Redeposits, Deposit(w) PROVE Goal
  BY <1>1 DEF Deposit
<1>2. ASSUME NEW s, SaveDraft(Default, s, "draft") PROVE Goal
  BY <1>2 DEF SaveDraft
<1>3. ASSUME NEW s \in Submissions(Default), ValidateMapping(Default, s), MappingReady PROVE Goal
  <2> DEFINE m == FromSubmission(Default, s)
  <2>1. mapping' = m /\ ValidationErrors(m) = {} /\ UNCHANGED <<workbook, profile>>
    BY <1>3 DEF ValidateMapping
  <2>2. Default = DefaultMapping(DiagnoseWorkbook(workbook))
    BY <1>3 DEF Default, MappingReady, Content, Diagnosed
  <2>3. \E x : m = FromSubmission(DefaultMapping(DiagnoseWorkbook(workbook)), x)
    BY <2>2
  <2> HIDE DEF m
  <2>4. IsMappingOf(mapping', workbook)
    BY <2>1, <2>3 DEF IsMappingOf
  <2> QED BY <2>1, <2>4
<1>4. ASSUME NEW s, RefuseMapping(Default, s) PROVE Goal
  BY <1>4 DEF RefuseMapping
<1>5. ASSUME SaveProfile PROVE Goal
  BY <1>5 DEF SaveProfile
<1>6. ASSUME ApplyProfile PROVE Goal
  BY <1>6 DEF ApplyProfile, SaveDraft
<1>7. ASSUME \/ Diagnose \/ StartMerge \/ MergeRow \/ NextSheet \/ FinishMerge
             \/ Normalize \/ VerifyContract \/ (\E d \in Decisions : Sort(d)) \/ ValidatePreview
      PROVE  Goal
  BY <1>7, Zenon DEF Diagnose, StartMerge, MergeRow, NextSheet, FinishMerge,
              Normalize, VerifyContract, Sort, ValidatePreview
<1>8. CASE UNCHANGED vars
  BY <1>8 DEF vars
<1>9. ASSUME Next PROVE Goal
  <2>1. ASSUME MappingReady, NEW s \in Submissions(Default),
               SaveDraft(Default, s, "draft") \/ ValidateMapping(Default, s) \/ RefuseMapping(Default, s)
        PROVE  Goal
    BY <1>2, <1>3, <1>4, <2>1
  <2>2. \/ \E w \in Redeposits : Deposit(w)
        \/ MappingReady /\ \E s \in Submissions(Default) :
              SaveDraft(Default, s, "draft") \/ ValidateMapping(Default, s) \/ RefuseMapping(Default, s)
        \/ SaveProfile \/ ApplyProfile
        \/ Diagnose \/ StartMerge \/ MergeRow \/ NextSheet \/ FinishMerge
        \/ Normalize \/ VerifyContract \/ (\E d \in Decisions : Sort(d)) \/ ValidatePreview
    BY <1>9 DEF Next
  <2> HIDE DEF Goal
  <2> QED BY <1>1, <1>5, <1>6, <1>7, <2>1, <2>2
<1> QED BY <1>8, <1>9

\* Every step keeps them.
LEMMA SavedStep ==
  ASSUME Content, MappingIsSubmitted, ProfileIsSaved, [Next]_vars
  PROVE  MappingIsSubmitted' /\ ProfileIsSaved'
<1>1. MappingIsSubmitted'
  <2>1. SUFFICES ASSUME mapping' # None' PROVE IsMappingOf(mapping', workbook')
    BY DEF MappingIsSubmitted, IsMappingOf
  <2>2. None' = None
    BY DEF None
  <2>3. CASE UNCHANGED <<workbook, mapping>>
    BY <2>1, <2>2, <2>3 DEF MappingIsSubmitted
  <2> QED BY <2>1, <2>2, <2>3, MappingSteps
<1>2. ProfileIsSaved'
  <2>1. CASE UNCHANGED profile
    BY <2>1 DEF ProfileIsSaved
  <2>2. CASE mapping # None /\ profile' = ProfileFrom(mapping)
    <3>1. workbook \in Workbooks /\ IsMappingOf(mapping, workbook)
      BY <2>2 DEF Content, MappingIsSubmitted
    <3> QED BY <2>2, <3>1 DEF ProfileIsSaved
  <2> QED BY <2>1, <2>2, MappingSteps
<1> QED BY <1>1, <1>2

\* Every column of a default mapping is one of the system or of a header.
LEMMA DefaultIsColumn ==
  ASSUME NEW w \in Workbooks, NEW i \in DOMAIN DefaultMapping(DiagnoseWorkbook(w)).columns
  PROVE  IsColumn(DefaultMapping(DiagnoseWorkbook(w)).columns[i])
<1> DEFINE u == UsefulSheets(DiagnoseWorkbook(w))
           m == DefaultMapping(DiagnoseWorkbook(w))
           c == m.columns[i]
<1>1. \/ c \in {SystemColumns[1], SystemColumns[2]}
      \/ \E k \in DOMAIN u : \E j \in DOMAIN u[k].headers : c = SourceColumn(u[k], k = 1, u[k].headers[j])
  BY DefaultColumns
<1>2. ASSUME NEW k \in DOMAIN u, NEW j \in DOMAIN u[k].headers
      PROVE  u[k].headers[j].text \in Cells
  <2>1. u[k].headers \in Seq(Header)
    BY SheetsToMap
  <2>2. u[k].headers[j] \in Header
    BY <2>1, LenProperties
  <2> QED BY <2>2 DEF Header
<1> HIDE DEF u, c
<1>3. ASSUME c \in {SystemColumns[1], SystemColumns[2]}
      PROVE  IsColumn(c)
  <2>1. IsColumn(SystemColumns[1])
    BY DEF SystemColumns, IsColumn
  <2>2. IsColumn(SystemColumns[2])
    BY DEF SystemColumns, IsColumn
  <2> QED BY <1>3, <2>1, <2>2
<1>4. ASSUME NEW k \in DOMAIN u, NEW j \in DOMAIN u[k].headers,
             c = SourceColumn(u[k], k = 1, u[k].headers[j])
      PROVE  IsColumn(c)
  <2> DEFINE h == u[k].headers[j]
             first == k = 1
  <2> HIDE DEF h, first
  <2>1. c = SourceColumn(u[k], first, h) /\ h.text \in Cells
    BY <1>2, <1>4 DEF h, first
  <2>2. /\ DOMAIN c = {"id", "system", "sheet", "pos", "header", "role", "exported", "name"}
        /\ c.pos = h.pos
        /\ c.role # "id_dossier" => c.name = DefaultName(h)
    BY <2>1 DEF SourceColumn
  <2>3. DefaultName(h) = DefaultName([text |-> h.text, pos |-> h.pos])
    BY DEF DefaultName
  <2> QED BY <2>1, <2>2, <2>3 DEF IsColumn
<1> QED BY <1>1, <1>3, <1>4 DEF c

\* The exported columns of two mappings are the same, once they export the
\* same places with the same columns there.
LEMMA SameExported ==
  ASSUME NEW m, NEW o, NEW S, m.columns \in Seq(S), DOMAIN o.columns = DOMAIN m.columns,
         \A i \in DOMAIN m.columns : /\ o.columns[i].exported = m.columns[i].exported
                                     /\ m.columns[i].exported => o.columns[i] = m.columns[i]
  PROVE  Exported(o) = Exported(m) /\ ValidationErrors(o) = ValidationErrors(m)
<1> DEFINE P == {i \in DOMAIN m.columns : m.columns[i].exported}
           at(j) == PlaceOf(P, j)
<1>1. P = {i \in DOMAIN o.columns : o.columns[i].exported}
  OBVIOUS
<1>2. \A j \in 1 .. Cardinality(P) : at(j) \in P
  <2>1. P \in SUBSET (DOMAIN m.columns)
    OBVIOUS
  <2> HIDE DEF P
  <2> QED BY <2>1, PickedPlaces, Zenon
<1>3. \A i \in P : m.columns[i] = o.columns[i]
  OBVIOUS
<1>4. Exported(m) = Picked(m.columns, P) /\ Exported(o) = Picked(o.columns, P)
  BY <1>1 DEF Exported
<1>5. /\ Picked(m.columns, P) = [j \in 1 .. Cardinality(P) |-> m.columns[at(j)]]
      /\ Picked(o.columns, P) = [j \in 1 .. Cardinality(P) |-> o.columns[at(j)]]
  BY DEF Picked, PlaceOf
<1> HIDE DEF P, at
<1>6. Exported(o) = Exported(m)
  BY <1>2, <1>3, <1>4, <1>5
<1> QED BY <1>6 DEF ValidationErrors

\* The exported columns of a mapping that can be validated have a name.
LEMMA ExportedAreNamed ==
  ASSUME NEW m, NEW S, m.columns \in Seq(S), ValidationErrors(m) = {},
         NEW i \in DOMAIN m.columns, m.columns[i].exported
  PROVE  m.columns[i].name[2] # ""
<1> DEFINE P == {j \in DOMAIN m.columns : m.columns[j].exported}
           ex == Exported(m)
           named == {j \in DOMAIN ex : ex[j].name[2] # ""}
<1>1. ex = Picked(m.columns, P) /\ P \in SUBSET (DOMAIN m.columns) /\ i \in P
  BY DEF Exported
<1>2. named = DOMAIN ex
  <2>1. SUFFICES ASSUME named # DOMAIN ex PROVE "name_missing" \in ValidationErrors(m)
    OBVIOUS
  <2> QED BY <2>1 DEF ValidationErrors
<1> HIDE DEF P, ex
<1>3. \E j \in DOMAIN ex : ex[j] = m.columns[i]
  <2> DEFINE n == Cardinality(P)
  <2>1. ex \in Seq(S) /\ n \in Nat /\ Len(ex) = n
    BY <1>1, PickedItems
  <2>2. \E f \in [1 .. n -> P] : /\ \A k \in P : \E j \in 1 .. n : f[j] = k
                                 /\ \A j \in 1 .. n : ex[j] = m.columns[f[j]]
    BY <1>1, PickedItems, SMTT(40)
  <2>3. DOMAIN ex = 1 .. n
    BY <2>1, LenProperties
  <2> HIDE DEF n
  <2> QED BY <1>1, <2>2, <2>3
<1> QED BY <1>2, <1>3

\* A profile that is compatible with a workbook gives back, in that workbook,
\* the mapping it was saved from, and this mapping can be validated
\* (apply_profile_to_default_mapping): a structure leaves no choice to the
\* columns, no two columns share an identifier, and cleaning a cleaned name
\* leaves it as it is.  A column left out of the CSV under no name takes its
\* default name.
THEOREM ProfilesReplayTheirMapping == Spec => []ProfileReplaysItsMapping
<1> DEFINE Kept == MappingIsSubmitted /\ ProfileIsSaved
<1>1. Init => Content /\ Kept
  <2>1. Init => MappingIsSubmitted /\ ProfileIsSaved
    BY DEF Init, MappingIsSubmitted, ProfileIsSaved
  <2> QED BY <2>1, ContentInit
<1>2. Content /\ Kept /\ [Next]_vars => (Content /\ Kept)'
  BY ContentStep, SavedStep
<1>3. Content /\ Kept => ProfileReplaysItsMapping
  <2>1. SUFFICES ASSUME Content, Kept, profile # None, diagnosis # None, Compatible(Default, profile)
                 PROVE  LET submission == ProfileSubmission(Default, profile)
                            replayed == FromSubmission(Default, submission)
                            saved == profile.choices
                            again == ChoicesOf(replayed)
                        IN /\ Acceptable(Default, submission)
                           /\ DOMAIN again = DOMAIN saved
                           /\ \A id \in DOMAIN saved :
                                 \/ again[id] = saved[id]
                                 \/ /\ ~saved[id].exported /\ saved[id].name[2] = ""
                                    /\ again[id] = [saved[id] EXCEPT !.name = ChoicesOf(Default)[id].name]
                           /\ ValidationErrors(replayed) = {}
    BY DEF ProfileReplaysItsMapping
  <2>2. PICK w \in Workbooks : \E m : IsMappingOf(m, w) /\ profile = ProfileFrom(m)
    BY <2>1 DEF ProfileIsSaved
  <2>3. PICK saved : IsMappingOf(saved, w) /\ profile = ProfileFrom(saved)
    BY <2>2
  <2> DEFINE first == DefaultMapping(DiagnoseWorkbook(w))
  <2>4. PICK s : saved = FromSubmission(first, s)
    BY <2>3 DEF IsMappingOf
  <2>5. \A D : {"structure", "columns"} \subseteq DOMAIN DefaultMapping(D)
    BY DEF DefaultMapping
  <2>6. Default.structure = first.structure
    <3>1. profile.structure = saved.structure
      BY <2>3 DEF ProfileFrom
    <3>2. saved.structure = first.structure
      <4>1. {"structure", "columns"} \subseteq DOMAIN first
        BY <2>5
      <4> HIDE DEF first
      <4> QED BY <2>4, <4>1, SubmittedColumns
    <3> QED BY <2>1, <3>1, <3>2 DEF Compatible
  <2>7. Default.columns = first.columns
    BY <2>6, SameStructure DEF Default
  <2>8. \A p, q \in DOMAIN first.columns : first.columns[p].id = first.columns[q].id => p = q
    BY DefaultColumns
  <2>9. "columns" \in DOMAIN first /\ "columns" \in DOMAIN Default
    BY <2>5 DEF Default
  <2>10. \A i \in DOMAIN first.columns : IsColumn(first.columns[i])
    BY DefaultIsColumn
  <2>11. saved.columns \in Seq(Range(saved.columns))
    <3>1. first.columns \in Seq(Range(first.columns))
      BY DefaultColumns
    <3>2. saved.columns = Submitted(first.columns, s)
      BY <2>4, <2>9, SubmittedColumns
    <3> HIDE DEF first
    <3> QED BY <3>1, <3>2, SubmittedSeq
  <2> HIDE DEF first
  <2> DEFINE submission == ProfileSubmission(Default, profile)
             replayed == FromSubmission(Default, submission)
             cs == first.columns
             ms == saved.columns
             rs == replayed.columns
  <2>12. /\ Acceptable(Default, submission) /\ DOMAIN rs = DOMAIN cs /\ DOMAIN ms = DOMAIN cs
         /\ \A i \in DOMAIN cs :
               /\ ms[i].id = cs[i].id /\ rs[i].id = cs[i].id
               /\ \/ rs[i] = ms[i]
                  \/ ms[i].name[2] = "" /\ ~cs[i].system /\ rs[i] = [ms[i] EXCEPT !.name = cs[i].name]
    <3>1. Replays(first, saved, Default)
      BY <2>4, <2>7, <2>8, <2>9, <2>10, ProfileReplays
    <3> QED BY <2>3, <3>1 DEF Replays
  <2> HIDE DEF submission, replayed, cs, ms, rs
  <2>13. \A i \in DOMAIN cs : ms[i].id = cs[i].id /\ rs[i].id = cs[i].id
    BY <2>12
  <2>20. DOMAIN rs = DOMAIN cs /\ DOMAIN ms = DOMAIN cs
    BY <2>12
  <2>21. saved.columns = ms /\ replayed.columns = rs /\ Default.columns = cs
    BY <2>7 DEF ms, rs, cs
  <2>14. profile.choices = ChoicesOf(saved) /\ ValidationErrors(saved) = {}
    BY <2>3 DEF ProfileFrom, IsMappingOf
  <2>15. ASSUME NEW i \in DOMAIN cs
         PROVE  /\ ChoicesOf(saved)[cs[i].id] = [exported |-> ms[i].exported, role |-> ms[i].role,
                                                 name |-> ms[i].name]
                /\ ChoicesOf(replayed)[cs[i].id] = [exported |-> rs[i].exported, role |-> rs[i].role,
                                                    name |-> rs[i].name]
                /\ ChoicesOf(Default)[cs[i].id].name = cs[i].name
    <3>1. /\ \A p, q \in DOMAIN cs : cs[p].id = cs[q].id => p = q
          /\ \A p, q \in DOMAIN ms : ms[p].id = ms[q].id => p = q
          /\ \A p, q \in DOMAIN rs : rs[p].id = rs[q].id => p = q
      BY <2>8, <2>12, <2>13 DEF cs
    <3>2. ChoicesOf(saved)[ms[i].id] = [exported |-> ms[i].exported, role |-> ms[i].role,
                                        name |-> ms[i].name]
      BY <2>20, <2>21, <3>1, ChoicesAt
    <3>3. ChoicesOf(replayed)[rs[i].id] = [exported |-> rs[i].exported, role |-> rs[i].role,
                                           name |-> rs[i].name]
      BY <2>20, <2>21, <3>1, ChoicesAt
    <3>4. ChoicesOf(Default)[cs[i].id] = [exported |-> cs[i].exported, role |-> cs[i].role,
                                          name |-> cs[i].name]
      BY <2>20, <2>21, <3>1, ChoicesAt
    <3> QED BY <2>13, <3>2, <3>3, <3>4
  <2>16. ASSUME NEW i \in DOMAIN cs, rs[i] # ms[i]
         PROVE  /\ ~ms[i].exported /\ rs[i].exported = ms[i].exported /\ rs[i].role = ms[i].role
                /\ rs[i].name = cs[i].name
    <3>1. ms[i].name[2] = "" /\ rs[i] = [ms[i] EXCEPT !.name = cs[i].name] /\ ~cs[i].system
      BY <2>12, <2>16
    <3>2. ~ms[i].exported
      <4>1. ms \in Seq(Range(ms)) /\ i \in DOMAIN ms
        BY <2>11, <2>20, <2>21
      <4> QED BY <2>14, <2>21, <3>1, <4>1, ExportedAreNamed
    <3>3. {"exported", "role", "name"} \subseteq DOMAIN ms[i]
      <4>1. ms = Submitted(cs, s)
        BY <2>4, <2>9, SubmittedColumns DEF cs, ms
      <4>2. DOMAIN ms[i] = DOMAIN cs[i]
        BY <4>1 DEF Submitted
      <4>3. IsColumn(cs[i])
        BY <2>10 DEF cs
      <4> QED BY <4>2, <4>3 DEF IsColumn
    <3> QED BY <3>1, <3>2, <3>3
  <2>17. ASSUME NEW id \in DOMAIN ChoicesOf(saved)
         PROVE  LET a == ChoicesOf(replayed)[id]
                    b == ChoicesOf(saved)[id]
                IN \/ a = b
                   \/ /\ ~b.exported /\ b.name[2] = ""
                      /\ a = [b EXCEPT !.name = ChoicesOf(Default)[id].name]
    <3>1. PICK i \in DOMAIN cs : id = cs[i].id
      <4>1. DOMAIN ChoicesOf(saved) = {ms[i].id : i \in DOMAIN ms}
        BY ChosenIds DEF ms
      <4> QED BY <2>13, <2>20, <4>1
    <3>2. /\ ChoicesOf(saved)[id] = [exported |-> ms[i].exported, role |-> ms[i].role,
                                     name |-> ms[i].name]
          /\ ChoicesOf(replayed)[id] = [exported |-> rs[i].exported, role |-> rs[i].role,
                                        name |-> rs[i].name]
          /\ ChoicesOf(Default)[id].name = cs[i].name
      BY <2>15, <3>1
    <3>3. CASE rs[i] = ms[i]
      BY <3>2, <3>3
    <3>4. CASE rs[i] # ms[i]
      <4>1. /\ ~ms[i].exported /\ rs[i].exported = ms[i].exported /\ rs[i].role = ms[i].role
            /\ rs[i].name = cs[i].name /\ ms[i].name[2] = ""
        BY <2>12, <2>16, <3>4
      <4> DEFINE b == [exported |-> ms[i].exported, role |-> ms[i].role, name |-> ms[i].name]
      <4>2. /\ ~b.exported /\ b.name[2] = ""
            /\ [b EXCEPT !.name = cs[i].name]
               = [exported |-> ms[i].exported, role |-> ms[i].role, name |-> cs[i].name]
        <5>1. b.exported = ms[i].exported /\ b.name = ms[i].name
          OBVIOUS
        <5>2. \A e, r, n, k : [[exported |-> e, role |-> r, name |-> n] EXCEPT !.name = k]
                              = [exported |-> e, role |-> r, name |-> k]
          OBVIOUS
        <5>3. [b EXCEPT !.name = cs[i].name]
              = [exported |-> ms[i].exported, role |-> ms[i].role, name |-> cs[i].name]
          BY <5>2, Zenon
        <5> HIDE DEF b
        <5> QED BY <4>1, <5>1, <5>3
      <4>3. ChoicesOf(replayed)[id] = [exported |-> ms[i].exported, role |-> ms[i].role, name |-> cs[i].name]
        BY <3>2, <4>1
      <4> HIDE DEF b
      <4>4. ChoicesOf(saved)[id] = b
        BY <3>2 DEF b
      <4> QED BY <3>2, <4>2, <4>3, <4>4
    <3> QED BY <3>3, <3>4
  <2>18. DOMAIN ChoicesOf(replayed) = DOMAIN ChoicesOf(saved)
    <3>1. /\ DOMAIN ChoicesOf(saved) = {ms[i].id : i \in DOMAIN ms}
          /\ DOMAIN ChoicesOf(replayed) = {rs[i].id : i \in DOMAIN rs}
      BY ChosenIds DEF ms, rs
    <3> QED BY <2>13, <2>20, <3>1
  <2>19. ValidationErrors(replayed) = ValidationErrors(saved)
    <3>1. \A i \in DOMAIN ms : rs[i].exported = ms[i].exported /\ (ms[i].exported => rs[i] = ms[i])
      BY <2>12, <2>16
    <3> QED BY <2>11, <2>12, <3>1, SameExported DEF ms, rs
  <2> QED BY <2>12, <2>14, <2>17, <2>18, <2>19 DEF submission, replayed
<1> QED BY <1>1, <1>2, <1>3, PTL DEF Spec

-----------------------------------------------------------------------------
(***************************************************************************)
(* The order of the rows of a sorted table (sorting.py).                   *)
(***************************************************************************)

\* a strict total order on a set, and what is before an item
IsTotalOrder(S, less) ==
    /\ \A x \in S : <<x, x>> \notin less
    /\ \A x, y, z \in S : <<x, y>> \in less /\ <<y, z>> \in less => <<x, z>> \in less
    /\ \A x, y \in S : x # y => <<x, y>> \in less \/ <<y, x>> \in less

ItemsBefore(S, less, x) == {y \in S : <<y, x>> \in less}

\* The items of a finite set have 0, 1, 2... items before them.
LEMMA NumberedInOrder ==
  ASSUME NEW S, IsFiniteSet(S), NEW less, IsTotalOrder(S, less)
  PROVE  /\ Cardinality(S) \in Nat
         /\ \A x \in S : Cardinality(ItemsBefore(S, less, x)) \in 0 .. Cardinality(S) - 1
         /\ \A x, y \in S : Cardinality(ItemsBefore(S, less, x)) = Cardinality(ItemsBefore(S, less, y))
                              => x = y
         /\ \A i \in 1 .. Cardinality(S) :
               \E x \in S : Cardinality(ItemsBefore(S, less, x)) = i - 1
<1> DEFINE before(x) == {y \in S : <<y, x>> \in less}
           c == Cardinality(S)
           r == [x \in S |-> Cardinality(before(x)) + 1]
<1>1. c \in Nat
  BY FS_CardinalityType
<1>2. ASSUME NEW x \in S
      PROVE  IsFiniteSet(before(x)) /\ Cardinality(before(x)) \in 0 .. c - 1
  <2>1. before(x) \in SUBSET S /\ x \notin before(x)
    BY DEF IsTotalOrder
  <2>2. IsFiniteSet(before(x)) /\ Cardinality(before(x)) <= c /\ Cardinality(before(x)) # c
    BY <2>1, FS_Subset
  <2>3. Cardinality(before(x)) \in Nat
    BY <2>2, FS_CardinalityType
  <2> HIDE DEF before, c
  <2> QED BY <1>1, <2>2, <2>3
<1>3. ASSUME NEW x \in S, NEW y \in S, <<x, y>> \in less
      PROVE  Cardinality(before(x)) < Cardinality(before(y))
  <2>1. before(x) \in SUBSET before(y) /\ x \in before(y) /\ x \notin before(x)
    BY <1>3 DEF IsTotalOrder
  <2>2. Cardinality(before(x)) <= Cardinality(before(y)) /\ Cardinality(before(x)) # Cardinality(before(y))
    BY <1>2, <2>1, FS_Subset
  <2>3. Cardinality(before(x)) \in 0 .. c - 1 /\ Cardinality(before(y)) \in 0 .. c - 1
    BY <1>2
  <2> HIDE DEF before, c
  <2> QED BY <1>1, <2>2, <2>3
<1>4. ASSUME NEW x \in S, NEW y \in S, Cardinality(before(x)) = Cardinality(before(y))
      PROVE  x = y
  <2>1. Cardinality(before(x)) \in 0 .. c - 1 /\ Cardinality(before(y)) \in 0 .. c - 1
    BY <1>2
  <2>2. ~(<<x, y>> \in less) /\ ~(<<y, x>> \in less)
    <3>1. ~(Cardinality(before(x)) < Cardinality(before(y)))
          /\ ~(Cardinality(before(y)) < Cardinality(before(x)))
      <4> HIDE DEF before, c
      <4> QED BY <1>1, <1>4, <2>1
    <3> HIDE DEF before
    <3> QED BY <1>3, <3>1
  <2> QED BY <2>2 DEF IsTotalOrder
<1>5. r \in Injection(S, 1 .. c)
  <2>1. \A x \in S : r[x] = Cardinality(before(x)) + 1
    OBVIOUS
  <2>2. \A x \in S : r[x] \in 1 .. c
    <3> HIDE DEF r, before, c
    <3> QED BY <1>1, <1>2, <2>1
  <2>3. r \in [S -> 1 .. c]
    BY <2>2
  <2>4. \A x, y \in S : r[x] = r[y] => x = y
    <3>1. SUFFICES ASSUME NEW x \in S, NEW y \in S, r[x] = r[y] PROVE x = y
      OBVIOUS
    <3>2. Cardinality(before(x)) \in Int /\ Cardinality(before(y)) \in Int
      <4> HIDE DEF before, c
      <4> QED BY <1>1, <1>2
    <3>3. Cardinality(before(x)) = Cardinality(before(y))
      <4> HIDE DEF r, before
      <4> QED BY <2>1, <3>1, <3>2
    <3> QED BY <1>4, <3>3
  <2> HIDE DEF r
  <2> QED BY <2>3, <2>4 DEF Injection, IsInjective
<1>6. r \in Surjection(S, 1 .. c)
  <2>1. IsFiniteSet(1 .. c) /\ Cardinality(1 .. c) = c
    BY <1>1, FS_Interval
  <2> HIDE DEF r
  <2> QED BY <1>1, <1>5, <2>1, FS_Injection
<1>7. ASSUME NEW i \in 1 .. c
      PROVE  \E x \in S : Cardinality(before(x)) = i - 1
  <2>1. PICK x \in S : r[x] = i
    BY <1>6 DEF Surjection
  <2>2. r[x] = Cardinality(before(x)) + 1
    OBVIOUS
  <2>3. Cardinality(before(x)) \in 0 .. c - 1
    BY <1>2
  <2> HIDE DEF r, before, c
  <2>4. Cardinality(before(x)) = i - 1
    BY <1>1, <2>1, <2>2, <2>3
  <2> QED BY <2>4
<1>8. \A x : ItemsBefore(S, less, x) = before(x)
  BY DEF ItemsBefore
<1> HIDE DEF before
<1> QED BY <1>1, <1>2, <1>4, <1>7, <1>8

\* Keys of six numbers are in a total order (KeyBefore).
LEMMA KeysAreOrdered ==
  ASSUME NEW a \in [1 .. 6 -> Int], NEW b \in [1 .. 6 -> Int], NEW c \in [1 .. 6 -> Int]
  PROVE  /\ ~KeyBefore(a, a)
         /\ KeyBefore(a, b) /\ KeyBefore(b, c) => KeyBefore(a, c)
         /\ a # b => KeyBefore(a, b) \/ KeyBefore(b, a)
<1>1. ~KeyBefore(a, a)
  BY DEF KeyBefore
<1>2. ASSUME KeyBefore(a, b), KeyBefore(b, c) PROVE KeyBefore(a, c)
  <2>1. PICK j \in 1 .. 6 : a[j] < b[j] /\ \A l \in 1 .. j - 1 : a[l] = b[l]
    BY <1>2 DEF KeyBefore
  <2>2. PICK k \in 1 .. 6 : b[k] < c[k] /\ \A l \in 1 .. k - 1 : b[l] = c[l]
    BY <1>2 DEF KeyBefore
  <2>3. CASE j < k
    <3>1. b[j] = c[j] /\ \A l \in 1 .. j - 1 : a[l] = c[l]
      BY <2>1, <2>2, <2>3
    <3> QED BY <2>1, <3>1 DEF KeyBefore
  <2>4. CASE k < j
    <3>1. a[k] = b[k] /\ \A l \in 1 .. k - 1 : a[l] = c[l]
      BY <2>1, <2>2, <2>4
    <3> QED BY <2>2, <3>1 DEF KeyBefore
  <2>5. CASE k = j
    <3>1. a[k] < c[k] /\ \A l \in 1 .. k - 1 : a[l] = c[l]
      BY <2>1, <2>2, <2>5
    <3> QED BY <3>1 DEF KeyBefore
  <2> QED BY <2>3, <2>4, <2>5
<1>3. ASSUME a # b PROVE KeyBefore(a, b) \/ KeyBefore(b, a)
  <2> DEFINE apart == {k \in 1 .. 6 : a[k] # b[k]}
  <2>1. apart \in SUBSET Nat /\ apart # {}
    BY <1>3
  <2> DEFINE k == Min(apart)
  <2>2. k \in apart /\ \A l \in apart : k <= l
    BY <2>1, FirstPlace
  <2>3. k \in 1 .. 6 /\ a[k] # b[k] /\ \A l \in 1 .. k - 1 : a[l] = b[l]
    <3> HIDE DEF k
    <3>1. k \in 1 .. 6 /\ a[k] # b[k]
      BY <2>2
    <3>2. ASSUME NEW l \in 1 .. k - 1 PROVE a[l] = b[l]
      <4>1. l \in 1 .. 6 /\ ~(k <= l)
        BY <3>1
      <4> QED BY <2>2, <4>1
    <3> QED BY <3>1, <3>2
  <2> HIDE DEF k
  <2>4. a[k] < b[k] \/ b[k] < a[k]
    BY <2>3
  <2> QED BY <2>3, <2>4 DEF KeyBefore
<1> QED BY <1>1, <1>2, <1>3

\* rows that can be put in order: their ranks tell them apart, and what they
\* are sorted by is cells
Sortable(rows, decision) ==
    /\ IsFiniteSet(rows)
    /\ \A r \in rows : r.rank \in Int
    /\ \A r, s \in rows : r.rank = s.rank => r = s
    /\ decision # "ordre_source" =>
          \A r \in rows : {r.values[RegionColumns[1].name], r.values[DepartmentColumns[1].name]}
                             \subseteq Cells

\* The key of a row is six numbers, the last of which is its rank.
LEMMA KeyOfARow ==
  ASSUME NEW r, r.rank \in Int,
         r.values[RegionColumns[1].name] \in Cells, r.values[DepartmentColumns[1].name] \in Cells
  PROVE  SortKey(r) \in [1 .. 6 -> Int] /\ SortKey(r)[6] = r.rank
<1> DEFINE g == r.values[RegionColumns[1].name]
           d == r.values[DepartmentColumns[1].name]
           a == IF g = "" THEN 1 ELSE 0
           b == Fold[g]
           e == IF Number[d] < 0 THEN 1 ELSE 0
           f == IF Number[d] < 0 THEN 0 ELSE Number[d]
           h == Fold[d]
<1>1. {a, b, e, f, h, r.rank} \subseteq Int
  <2>1. Fold[g] \in Int /\ Fold[d] \in Int /\ Number[d] \in Int
    BY TableAssumption
  <2> HIDE DEF g, d
  <2> QED BY <2>1
<1>2. SortKey(r) = <<a, b, e, f, h, r.rank>>
  BY DEF SortKey
<1> HIDE DEF a, b, e, f, h
<1> QED BY <1>1, <1>2

\* The rows are numbered in their order, each once.
LEMMA RowsInOrder ==
  ASSUME NEW rows, NEW decision, Sortable(rows, decision)
  PROVE  LET o == Ordered(rows, decision)
         IN /\ Cardinality(rows) \in Nat /\ DOMAIN o = 1 .. Cardinality(rows)
            /\ \A i \in DOMAIN o : o[i] \in rows
            /\ \A r \in rows : \E i \in DOMAIN o : o[i] = r
            /\ \A i, j \in DOMAIN o : o[i] = o[j] => i = j
<1> DEFINE o == Ordered(rows, decision)
           less == {p \in rows \X rows : Before(decision, p[1], p[2])}
           before(x) == ItemsBefore(rows, less, x)
<1>1. \A x, y \in rows : <<x, y>> \in less <=> Before(decision, x, y)
  OBVIOUS
<1>2. /\ \A x \in rows : ~Before(decision, x, x)
      /\ \A x, y, z \in rows : Before(decision, x, y) /\ Before(decision, y, z) => Before(decision, x, z)
      /\ \A x, y \in rows : x # y => Before(decision, x, y) \/ Before(decision, y, x)
  <2>1. CASE decision = "ordre_source"
    BY <2>1 DEF Before, Sortable
  <2>2. CASE decision # "ordre_source"
    <3>1. \A x \in rows : SortKey(x) \in [1 .. 6 -> Int] /\ SortKey(x)[6] = x.rank
      BY <2>2, KeyOfARow DEF Sortable
    <3>2. \A x, y \in rows : Before(decision, x, y) <=> KeyBefore(SortKey(x), SortKey(y))
      BY <2>2 DEF Before
    <3>3. \A x, y \in rows : x # y => SortKey(x) # SortKey(y)
      BY <3>1 DEF Sortable
    <3>4. ASSUME NEW x \in rows, NEW y \in rows, NEW z \in rows
          PROVE  /\ ~KeyBefore(SortKey(x), SortKey(x))
                 /\ KeyBefore(SortKey(x), SortKey(y)) /\ KeyBefore(SortKey(y), SortKey(z))
                       => KeyBefore(SortKey(x), SortKey(z))
                 /\ SortKey(x) # SortKey(y)
                       => KeyBefore(SortKey(x), SortKey(y)) \/ KeyBefore(SortKey(y), SortKey(x))
      BY <3>1, KeysAreOrdered
    <3> QED BY <3>2, <3>3, <3>4
  <2> QED BY <2>1, <2>2
<1>3. IsTotalOrder(rows, less)
  <2> HIDE DEF less
  <2> QED BY <1>1, <1>2 DEF IsTotalOrder
<1> HIDE DEF less
<1>4. /\ Cardinality(rows) \in Nat
      /\ \A x \in rows : Cardinality(before(x)) \in 0 .. Cardinality(rows) - 1
      /\ \A x, y \in rows : Cardinality(before(x)) = Cardinality(before(y)) => x = y
      /\ \A i \in 1 .. Cardinality(rows) : \E x \in rows : Cardinality(before(x)) = i - 1
  <2>1. IsFiniteSet(rows)
    BY DEF Sortable
  <2> QED BY <1>3, <2>1, NumberedInOrder
<1>5. \A x \in rows : {s \in rows : Before(decision, s, x)} = before(x)
  BY <1>1 DEF ItemsBefore
<1>6. DOMAIN o = 1 .. Cardinality(rows)
  BY DEF Ordered
<1>7. ASSUME NEW i \in 1 .. Cardinality(rows)
      PROVE  o[i] \in rows /\ Cardinality(before(o[i])) = i - 1
  <2>1. o[i] = CHOOSE r \in rows : Cardinality({s \in rows : Before(decision, s, r)}) = i - 1
    BY DEF Ordered
  <2>2. \E r \in rows : Cardinality({s \in rows : Before(decision, s, r)}) = i - 1
    BY <1>4, <1>5
  <2> HIDE DEF o
  <2>3. o[i] \in rows /\ Cardinality({s \in rows : Before(decision, s, o[i])}) = i - 1
    BY <2>1, <2>2
  <2> QED BY <1>5, <2>3
<1> HIDE DEF o, before
<1>8. ASSUME NEW r \in rows PROVE \E i \in DOMAIN o : o[i] = r
  <2> DEFINE i == Cardinality(before(r)) + 1
  <2>1. i \in 1 .. Cardinality(rows)
    BY <1>4
  <2>2. o[i] \in rows /\ Cardinality(before(o[i])) = Cardinality(before(r))
    <3>1. Cardinality(before(r)) \in Int
      BY <1>4
    <3> QED BY <1>7, <2>1, <3>1
  <2> QED BY <1>4, <1>6, <2>1, <2>2
<1>9. ASSUME NEW i \in DOMAIN o, NEW j \in DOMAIN o, o[i] = o[j] PROVE i = j
  <2>1. i - 1 = j - 1 /\ i \in Int /\ j \in Int
    BY <1>4, <1>6, <1>7, <1>9
  <2> QED BY <2>1
<1> QED BY <1>4, <1>6, <1>7, <1>8, <1>9 DEF o

-----------------------------------------------------------------------------
(***************************************************************************)
(* The columns of a mapping, and what the merge reads by them.             *)
(***************************************************************************)

\* The columns of a mapping are the two of the system and columns of sheets of
\* the workbook, whose names have their letter but for the identifiers; every
\* sheet to read has an identifier column.
ReadsWorkbook(m, w) ==
    LET cs == m.columns
    IN /\ cs \in Seq(Range(cs))
       /\ \A c \in Range(cs) :
             \/ c \in {SystemColumns[1], SystemColumns[2]}
             \/ /\ ~c.system
                /\ (c.role = "id_dossier" /\ c.name = IdName) \/ c.name[1] = c.pos
                /\ \E j \in DOMAIN w : c.sheet = w[j].name /\ c.pos \in 1 .. Width(w[j])
       /\ \A k \in DOMAIN m.sheets : \E c \in Range(cs) :
             ~c.system /\ c.sheet = m.sheets[k].name /\ c.role = "id_dossier"

LEMMA MappingReadsWorkbook ==
  ASSUME NEW w \in Workbooks, NEW m, IsMappingOf(m, w)
  PROVE  ReadsWorkbook(m, w)
<1> DEFINE D == DiagnoseWorkbook(w)
           u == UsefulSheets(D)
           default == DefaultMapping(D)
           ds == default.columns
           cs == m.columns
<1>1. PICK s : m = FromSubmission(default, s)
  BY DEF IsMappingOf
<1>2. /\ {"columns", "sheets"} \subseteq DOMAIN default
      /\ default.sheets = [k \in DOMAIN u |-> [name |-> u[k].name, header |-> u[k].header]]
  BY DEF DefaultMapping
<1>3. /\ \A k \in DOMAIN u :
            /\ \E j \in DOMAIN u[k].headers : HeaderRole[u[k].headers[j].text] = "id_dossier"
            /\ \E j \in DOMAIN w :
                  /\ u[k].name = w[j].name
                  /\ \A i \in DOMAIN u[k].headers : u[k].headers[i].pos \in 1 .. Width(w[j])
  BY SheetsToMap
<1>4. /\ ds \in Seq(Range(ds))
      /\ \A p \in DOMAIN ds :
            \/ ds[p] \in {SystemColumns[1], SystemColumns[2]}
            \/ \E k \in DOMAIN u : \E j \in DOMAIN u[k].headers :
                  ds[p] = SourceColumn(u[k], k = 1, u[k].headers[j])
      /\ \A k \in DOMAIN u : \A j \in DOMAIN u[k].headers : \E p \in DOMAIN ds :
            ds[p] = SourceColumn(u[k], k = 1, u[k].headers[j])
  BY DefaultColumns
<1> HIDE DEF u, default
<1>5. cs = Submitted(ds, s) /\ m.sheets = default.sheets
  BY <1>1, <1>2, SubmittedColumns
<1>6. DOMAIN cs = DOMAIN ds
      /\ \A p \in DOMAIN ds :
            cs[p] = IF ds[p].system \/ ds[p].role = "id_dossier" THEN ds[p]
                    ELSE [ds[p] EXCEPT !.exported = s.choices[ds[p].id].exported,
                                       !.role = s.choices[ds[p].id].role,
                                       !.name = SubmittedName(ds[p], s.choices[ds[p].id].name)]
  BY <1>5, Zenon DEF Submitted
<1> HIDE DEF cs
<1>7. cs \in Seq(Range(cs))
  BY <1>4, <1>5, SubmittedSeq
<1>8. ASSUME NEW k \in DOMAIN u, NEW j \in DOMAIN u[k].headers
      PROVE  LET c == SourceColumn(u[k], k = 1, u[k].headers[j])
             IN /\ ~c.system /\ c.sheet = u[k].name /\ c.pos = u[k].headers[j].pos
                /\ c.role = HeaderRole[u[k].headers[j].text]
                /\ c.role = "id_dossier" => c.name = IdName
                /\ c.role # "id_dossier" => c.name[1] = c.pos
                /\ DOMAIN c = {"id", "system", "sheet", "pos", "header", "role", "exported", "name"}
  BY DEF SourceColumn, DefaultName
<1>9. SystemColumns[1].system /\ SystemColumns[2].system
  BY DEF SystemColumns
<1>10. ASSUME NEW p \in DOMAIN cs
       PROVE  LET c == cs[p]
              IN \/ c \in {SystemColumns[1], SystemColumns[2]}
                 \/ /\ ~c.system
                    /\ (c.role = "id_dossier" /\ c.name = IdName) \/ c.name[1] = c.pos
                    /\ \E j \in DOMAIN w : c.sheet = w[j].name /\ c.pos \in 1 .. Width(w[j])
  <2>1. CASE ds[p] \in {SystemColumns[1], SystemColumns[2]}
    BY <1>6, <1>9, <2>1
  <2>2. CASE ds[p] \notin {SystemColumns[1], SystemColumns[2]}
    <3> DEFINE c == cs[p]
               d == ds[p]
    <3>1. PICK k \in DOMAIN u :
             \E j \in DOMAIN u[k].headers : d = SourceColumn(u[k], k = 1, u[k].headers[j])
      BY <1>4, <1>6, <2>2
    <3>2. PICK j \in DOMAIN u[k].headers : d = SourceColumn(u[k], k = 1, u[k].headers[j])
      BY <3>1
    <3>3. /\ ~d.system /\ d.sheet = u[k].name /\ d.pos = u[k].headers[j].pos
          /\ d.role = "id_dossier" => d.name = IdName
          /\ d.role # "id_dossier" => d.name[1] = d.pos
          /\ DOMAIN d = {"id", "system", "sheet", "pos", "header", "role", "exported", "name"}
      BY <1>8, <3>2
    <3>4. d \in Range(ds) /\ c = IF d.system \/ d.role = "id_dossier" THEN d
                    ELSE [d EXCEPT !.exported = s.choices[d.id].exported,
                                   !.role = s.choices[d.id].role,
                                   !.name = SubmittedName(d, s.choices[d.id].name)]
      BY <1>6 DEF Range
    <3>5. SubmittedName(d, s.choices[d.id].name)[1] = d.pos
      BY DEF SubmittedName
    <3> HIDE DEF c, d
    <3>6. ~c.system /\ c.sheet = d.sheet /\ c.pos = d.pos
      BY <3>3, <3>4
    <3>7. (c.role = "id_dossier" /\ c.name = IdName) \/ c.name[1] = c.pos
      BY <3>3, <3>4, <3>5, <3>6
    <3>8. \E i \in DOMAIN w : d.sheet = w[i].name /\ d.pos \in 1 .. Width(w[i])
      BY <1>3, <3>3
    <3>9. \E i \in DOMAIN w : c.sheet = w[i].name /\ c.pos \in 1 .. Width(w[i])
      BY <3>6, <3>8
    <3> QED BY <3>6, <3>7, <3>9 DEF c
  <2> QED BY <2>1, <2>2
<1>11. ASSUME NEW k \in DOMAIN m.sheets
       PROVE  \E c \in Range(cs) : ~c.system /\ c.sheet = m.sheets[k].name /\ c.role = "id_dossier"
  <2>1. k \in DOMAIN u /\ m.sheets[k].name = u[k].name
    BY <1>2, <1>5
  <2>2. PICK j \in DOMAIN u[k].headers : HeaderRole[u[k].headers[j].text] = "id_dossier"
    BY <1>3, <2>1
  <2>3. PICK p \in DOMAIN ds : ds[p] = SourceColumn(u[k], k = 1, u[k].headers[j])
    BY <1>4, <2>1
  <2>4. ~ds[p].system /\ ds[p].sheet = m.sheets[k].name /\ ds[p].role = "id_dossier"
    BY <1>8, <2>1, <2>2, <2>3
  <2>5. cs[p] = ds[p] /\ cs[p] \in Range(cs)
    BY <1>6, <2>4 DEF Range
  <2> QED BY <2>4, <2>5
<1>12. \A c \in Range(cs) : \E p \in DOMAIN cs : c = cs[p]
  BY DEF Range
<1> QED BY <1>7, <1>10, <1>11, <1>12 DEF ReadsWorkbook, cs

\* The exported columns have names of their own, and one is the identifier
\* (mapping_validation_errors).
LEMMA ExportedColumns ==
  ASSUME NEW m, NEW w, ReadsWorkbook(m, w), ValidationErrors(m) = {}
  PROVE  LET ex == Exported(m)
         IN /\ ex \in Seq(Range(m.columns)) /\ Len(ex) \in Nat /\ DOMAIN ex = 1 .. Len(ex)
            /\ \A i \in DOMAIN ex : ex[i] \in Range(m.columns)
            /\ \A i, j \in DOMAIN ex : ex[i].name = ex[j].name => i = j
            /\ \E i \in DOMAIN ex : ex[i].name = IdName
<1> DEFINE cs == m.columns
           P == {i \in DOMAIN cs : cs[i].exported}
           ex == Exported(m)
           named == {i \in DOMAIN ex : ex[i].name[2] # ""}
           ids == {i \in DOMAIN ex : ex[i].name = IdName}
<1>1. cs \in Seq(Range(cs)) /\ P \in SUBSET (DOMAIN cs) /\ ex = Picked(cs, P)
  BY DEF ReadsWorkbook, Exported
<1>2. ex \in Seq(Range(cs))
  <2> HIDE DEF cs, P, ex
  <2> QED BY <1>1, PickedItems
<1>3. Len(ex) \in Nat /\ DOMAIN ex = 1 .. Len(ex) /\ \A i \in DOMAIN ex : ex[i] \in Range(cs)
  <2> HIDE DEF cs, ex
  <2> QED BY <1>2, LenProperties
<1>4. named = DOMAIN ex
  <2>1. SUFFICES ASSUME named # DOMAIN ex PROVE "name_missing" \in ValidationErrors(m)
    OBVIOUS
  <2> QED BY <2>1 DEF ValidationErrors
<1>5. ASSUME NEW i \in DOMAIN ex, NEW j \in DOMAIN ex, ex[i].name = ex[j].name, i # j
      PROVE  FALSE
  <2>1. \E a, b \in named : a # b /\ ex[a].name = ex[b].name
    <3> HIDE DEF ex
    <3> QED BY <1>4, <1>5
  <2>2. "collision" \in ValidationErrors(m)
    BY <2>1 DEF ValidationErrors
  <2> QED BY <2>2
<1>6. \E i \in DOMAIN ex : ex[i].name = IdName
  <2>1. SUFFICES ASSUME ids = {} PROVE FALSE
    OBVIOUS
  <2>2. Cardinality(ids) # 1
    <3> HIDE DEF ids
    <3> QED BY <2>1, FS_EmptySet
  <2>3. "id_invalid" \in ValidationErrors(m)
    BY <2>2 DEF ValidationErrors
  <2> QED BY <2>3
<1> QED BY <1>2, <1>3, <1>5, <1>6 DEF ex, cs

\* Every sheet of a mapping has a column of identifiers.
LEMMA IdColumnOfASheet ==
  ASSUME NEW m, NEW w, ReadsWorkbook(m, w), NEW k \in DOMAIN m.sheets
  PROVE  LET c == IdColumn(m, m.sheets[k].name)
         IN c \in Range(m.columns) /\ c.sheet = m.sheets[k].name /\ c.role = "id_dossier"
<1> DEFINE cs == m.columns
           P == {i \in DOMAIN cs : cs[i].sheet = m.sheets[k].name /\ cs[i].role = "id_dossier"}
           s == Picked(cs, P)
           n == Cardinality(P)
<1>1. cs \in Seq(Range(cs)) /\ P \in SUBSET (DOMAIN cs) /\ IdColumn(m, m.sheets[k].name) = Last(s)
  BY DEF ReadsWorkbook, IdColumn
<1>2. \E i : i \in P
  BY DEF ReadsWorkbook, Range
<1>3. \A i \in P : cs[i] \in Range(cs) /\ cs[i].sheet = m.sheets[k].name /\ cs[i].role = "id_dossier"
  BY DEF Range
<1> HIDE DEF cs, P
<1>4. n \in Nat /\ Len(s) = n
  BY <1>1, PickedItems
<1>5. PICK f \in [1 .. n -> P] : /\ \A i \in P : \E j \in 1 .. n : f[j] = i
                                 /\ \A j \in 1 .. n : s[j] = cs[f[j]]
  BY <1>1, PickedItems, SMTT(40)
<1>6. n \in 1 .. n
  BY <1>2, <1>4, <1>5
<1>7. Last(s) = cs[f[n]] /\ f[n] \in P
  BY <1>4, <1>5, <1>6 DEF Last
<1> QED BY <1>1, <1>3, <1>7 DEF cs

\* What is read of a row in a column of its sheet, and its identifier, are
\* cells.
LEMMA CellsAreRead ==
  ASSUME Content, MappingIsSubmitted, mapping # None, NEW k \in DOMAIN mapping.sheets,
         NEW n \in DOMAIN SheetNamed(mapping.sheets[k].name).rows
  PROVE  /\ \A c \in Range(mapping.columns) : ~c.system /\ c.sheet = mapping.sheets[k].name
                => RowAt(k, n)[c.pos] \in Cells
         /\ IdAt(k, n) \in Cells /\ Ident[IdAt(k, n)] = IdAt(k, n)
<1> DEFINE name == mapping.sheets[k].name
           sheet == SheetNamed(name)
<1>1. workbook \in Workbooks /\ ReadsWorkbook(mapping, workbook)
  BY MappingReadsWorkbook DEF Content, MappingIsSubmitted
<1>2. PICK i \in DOMAIN workbook : sheet = workbook[i]
  BY MergeReads
<1>3. sheet.name = name
  BY MergeReads
<1> HIDE DEF sheet
<1>4. RowAt(k, n) = sheet.rows[n].cells
  BY DEF RowAt, sheet
<1>5. /\ sheet.rows[n].cells \in Seq(Cells) /\ Len(sheet.rows[n].cells) = Width(sheet)
  <2>1. sheet.rows \in Seq(Row) /\ Len(sheet.rows[n].cells) = Width(sheet)
    BY <1>1, <1>2, SheetsOfAWorkbook DEF IsSheet, sheet
  <2>2. sheet.rows[n] \in Row
    BY <2>1, LenProperties DEF sheet
  <2> QED BY <2>1, <2>2 DEF Row
<1>6. ASSUME NEW c \in Range(mapping.columns), ~c.system, c.sheet = name
      PROVE  RowAt(k, n)[c.pos] \in Cells
  <2>1. SystemColumns[1].system /\ SystemColumns[2].system
    BY DEF SystemColumns
  <2>2. PICK j \in DOMAIN workbook : c.sheet = workbook[j].name /\ c.pos \in 1 .. Width(workbook[j])
    BY <1>1, <1>6, <2>1 DEF ReadsWorkbook
  <2>3. workbook[j] = sheet
    BY <1>1, <1>2, <1>3, <1>6, <2>2, SheetsOfAWorkbook
  <2>4. c.pos \in 1 .. Len(sheet.rows[n].cells)
    BY <1>5, <2>2, <2>3
  <2>5. sheet.rows[n].cells[c.pos] \in Cells
    BY <1>5, <2>4, LenProperties
  <2> QED BY <1>4, <2>5
<1>7. IdAt(k, n) \in Cells /\ Ident[IdAt(k, n)] = IdAt(k, n)
  <2> DEFINE c == IdColumn(mapping, name)
  <2>1. c \in Range(mapping.columns) /\ c.sheet = name /\ c.role = "id_dossier"
    BY <1>1, IdColumnOfASheet
  <2>2. ~c.system
    <3>1. SystemColumns[1].role # "id_dossier" /\ SystemColumns[2].role # "id_dossier"
      BY DEF SystemColumns
    <3> QED BY <1>1, <2>1, <3>1 DEF ReadsWorkbook
  <2> DEFINE cell == RowAt(k, n)[c.pos]
  <2>3. cell \in Cells /\ IdAt(k, n) = Ident[cell]
    BY <1>6, <2>1, <2>2 DEF IdAt
  <2> HIDE DEF cell
  <2> QED BY <2>3, CellAssumption DEF Conversions
<1> QED BY <1>6, <1>7

-----------------------------------------------------------------------------
(***************************************************************************)
(* The tables: what is kept of the columns and of the rows.                *)
(***************************************************************************)
ColumnNames(columns) == {c.name : c \in Range(columns)}

\* columns with names of their own, the identifier among them
IsColumns(columns) ==
    /\ columns \in Seq(Range(columns))
    /\ \A i, j \in DOMAIN columns : columns[i].name = columns[j].name => i = j
    /\ IdName \in ColumnNames(columns)

\* rows with a cell in each of these columns, in the order of their ranks
IsRows(rows, names) ==
    /\ \E n \in Nat : DOMAIN rows = 1 .. n
    /\ \A i \in DOMAIN rows : /\ DOMAIN rows[i] = {"rank", "id", "values"}
                              /\ rows[i].rank \in Nat
                              /\ rows[i].values \in [names -> Cells]
    /\ \A i, j \in DOMAIN rows : i < j => rows[i].rank < rows[j].rank

IsTable(t) == IsColumns(t.columns) /\ IsRows(t.rows, ColumnNames(t.columns))

\* the columns that stay, by their place
StayingPlaces(columns, rows) ==
    {j \in DOMAIN columns : \/ columns[j].name \in SpecialNames
                            \/ \E i \in DOMAIN rows : rows[i].values[columns[j].name] # ""}

\* The columns kept are columns with names of their own, the identifier among
\* them.
LEMMA ColumnsKept ==
  ASSUME NEW columns, NEW rows, IsColumns(columns)
  PROVE  LET kept == KeptColumns(columns, rows)
         IN /\ IsColumns(kept)
            /\ \A c \in Range(kept) : c \in Range(columns)
<1> DEFINE P == StayingPlaces(columns, rows)
           n == Cardinality(P)
           kept == Picked(columns, P)
<1>1. KeptColumns(columns, rows) = kept
  BY DEF KeptColumns, StayingPlaces
<1>2. columns \in Seq(Range(columns)) /\ P \in SUBSET (DOMAIN columns)
  BY DEF IsColumns, StayingPlaces
<1>3. PICK i0 \in DOMAIN columns : columns[i0].name = IdName
  BY DEF IsColumns, ColumnNames, Range
<1>4. i0 \in P
  BY <1>3 DEF StayingPlaces, SpecialNames
<1> HIDE DEF P
<1>5. kept \in Seq(Range(columns)) /\ n \in Nat /\ Len(kept) = n
  BY <1>2, PickedItems
<1>6. PICK f \in [1 .. n -> P] : /\ \A j, k \in 1 .. n : j < k => f[j] < f[k]
                                 /\ \A i \in P : \E j \in 1 .. n : f[j] = i
                                 /\ \A j \in 1 .. n : kept[j] = columns[f[j]]
  BY <1>2, PickedItems, ZenonT(60)
<1>7. DOMAIN kept = 1 .. n
  BY <1>5, LenProperties
<1>8. kept \in Seq(Range(kept))
  <2>1. kept = [j \in 1 .. n |-> kept[j]] /\ \A j \in 1 .. n : kept[j] \in Range(kept)
    BY <1>5, <1>7, LenProperties DEF Range
  <2> HIDE DEF kept
  <2>2. kept \in [1 .. n -> Range(kept)]
    BY <2>1, Zenon
  <2> QED BY <1>5, <2>2, SeqDef
<1> HIDE DEF kept
<1>9. ASSUME NEW i \in DOMAIN kept, NEW j \in DOMAIN kept, kept[i].name = kept[j].name
      PROVE  i = j
  <2>1. f[i] = f[j]
    <3>1. f[i] \in DOMAIN columns /\ f[j] \in DOMAIN columns /\ columns[f[i]].name = columns[f[j]].name
      BY <1>2, <1>6, <1>7, <1>9
    <3> QED BY <3>1 DEF IsColumns
  <2>2. i \in 1 .. n /\ j \in 1 .. n /\ f[i] \in Int
    <3>1. DOMAIN columns \in SUBSET Int
      BY <1>2, LenProperties
    <3> QED BY <1>2, <1>6, <1>7, <3>1
  <2>3. ~(f[i] < f[j]) /\ ~(f[j] < f[i])
    BY <2>1, <2>2
  <2>4. ~(i < j) /\ ~(j < i)
    BY <1>6, <2>2, <2>3
  <2> QED BY <1>5, <2>2, <2>4
<1>10. IdName \in ColumnNames(kept)
  <2>1. PICK j \in 1 .. n : f[j] = i0
    BY <1>4, <1>6
  <2>2. kept[j] \in Range(kept) /\ kept[j].name = IdName
    BY <1>3, <1>6, <1>7, <2>1 DEF Range
  <2> QED BY <2>2 DEF ColumnNames
<1>11. \A c \in Range(kept) : c \in Range(columns)
  BY <1>2, <1>6, <1>7 DEF Range
<1> QED BY <1>1, <1>8, <1>9, <1>10, <1>11 DEF IsColumns

\* A table without its empty columns is a table, that says the same.
LEMMA TableKept ==
  ASSUME NEW columns, NEW rows, NEW removed,
         IsColumns(columns), IsRows(rows, ColumnNames(columns))
  PROVE  LET t == TableOf(columns, rows, removed)
         IN /\ IsTable(t)
            /\ t.columns = KeptColumns(columns, rows)
            /\ t.removed = removed + Len(columns) - Len(t.columns)
            /\ ColumnNames(t.columns) \in SUBSET ColumnNames(columns)
            /\ DOMAIN t.rows = DOMAIN rows
            /\ \A i \in DOMAIN rows :
                  /\ t.rows[i].rank = rows[i].rank /\ t.rows[i].id = rows[i].id
                  /\ \A n \in ColumnNames(t.columns) : t.rows[i].values[n] = rows[i].values[n]
<1> DEFINE t == TableOf(columns, rows, removed)
           kept == KeptColumns(columns, rows)
           names == ColumnNames(kept)
           trim(i) == [rows[i] EXCEPT !.values = Restrict(@, names)]
<1>1. t = [columns |-> kept, rows |-> [i \in DOMAIN rows |-> trim(i)],
           removed |-> removed + Len(columns) - Len(kept)]
  BY DEF TableOf, ColumnNames
<1>2. IsColumns(kept) /\ \A c \in Range(kept) : c \in Range(columns)
  BY ColumnsKept
<1>3. names \in SUBSET ColumnNames(columns)
  BY <1>2 DEF ColumnNames
<1> HIDE DEF kept, names
<1>4. /\ t.columns = kept /\ t.removed = removed + Len(columns) - Len(kept)
      /\ DOMAIN t.rows = DOMAIN rows /\ \A i \in DOMAIN rows : t.rows[i] = trim(i)
  BY <1>1
<1>5. ASSUME NEW i \in DOMAIN rows
      PROVE  /\ DOMAIN trim(i) = {"rank", "id", "values"}
             /\ trim(i).rank = rows[i].rank /\ trim(i).id = rows[i].id
             /\ trim(i).values = Restrict(rows[i].values, names)
             /\ rows[i].rank \in Nat /\ rows[i].values \in [ColumnNames(columns) -> Cells]
  BY DEF IsRows
<1> HIDE DEF t, trim
<1>6. ASSUME NEW i \in DOMAIN rows
      PROVE  /\ t.rows[i].values \in [names -> Cells]
             /\ \A n \in names : t.rows[i].values[n] = rows[i].values[n]
  <2> DEFINE v == rows[i].values
  <2>1. t.rows[i].values = [x \in names |-> v[x]]
    BY <1>4, <1>5 DEF Restrict
  <2>2. v \in [ColumnNames(columns) -> Cells]
    BY <1>5
  <2> HIDE DEF v
  <2>3. \A x \in names : v[x] \in Cells
    BY <1>3, <2>2
  <2>4. t.rows[i].values \in [names -> Cells] /\ \A x \in names : t.rows[i].values[x] = v[x]
    BY <2>1, <2>3
  <2> QED BY <2>4 DEF v
<1>7. IsRows(t.rows, names)
  <2>1. \E n \in Nat : DOMAIN t.rows = 1 .. n
    BY <1>4 DEF IsRows
  <2>2. \A i \in DOMAIN t.rows : /\ DOMAIN t.rows[i] = {"rank", "id", "values"}
                                 /\ t.rows[i].rank \in Nat
                                 /\ t.rows[i].values \in [names -> Cells]
    BY <1>4, <1>5, <1>6
  <2>3. \A i, j \in DOMAIN rows : i < j => rows[i].rank < rows[j].rank
    BY DEF IsRows
  <2>4. \A i, j \in DOMAIN t.rows : i < j => t.rows[i].rank < t.rows[j].rank
    BY <1>4, <1>5, <2>3
  <2> QED BY <2>1, <2>2, <2>4 DEF IsRows
<1>8. IsTable(t)
  BY <1>2, <1>4, <1>7 DEF IsTable, names
<1> QED BY <1>3, <1>4, <1>5, <1>6, <1>8 DEF t, kept, names

-----------------------------------------------------------------------------
(***************************************************************************)
(* The table after normalisation (normalize_flat_merge), by the action     *)
(* Normalize.                                                              *)
(***************************************************************************)
RolesIn(columns) ==
    [n \in ColumnNames(columns) |-> (CHOOSE c \in Range(columns) : c.name = n).role]

NormalValues(values, columns) ==
    [n \in ColumnNames(columns) |-> NormalValue(values[n], RolesIn(columns)[n])]

NormalRows(from) ==
    [i \in DOMAIN from.rows |->
        LET values == NormalValues(from.rows[i].values, from.columns)
        IN [from.rows[i] EXCEPT !.values = values, !.id = values[IdName]]]

NormalTable(from) == TableOf(from.columns, NormalRows(from), from.removed)

LEMMA TableIsNormalised ==
  ASSUME Normalize
  PROVE  normal'.table = NormalTable(fusion.table)
<1> DEFINE from == fusion.table
           roleOf == [n \in {c.name : c \in Range(from.columns)} |->
                        (CHOOSE c \in Range(from.columns) : c.name = n).role]
           rows == [i \in DOMAIN from.rows |->
                      LET values == [n \in DOMAIN roleOf |->
                                       NormalValue(from.rows[i].values[n], roleOf[n])]
                      IN [from.rows[i] EXCEPT !.values = values, !.id = values[IdName]]]
<1>1. roleOf = RolesIn(from.columns) /\ DOMAIN roleOf = ColumnNames(from.columns)
  BY DEF RolesIn, ColumnNames
<1>2. normal'.table = TableOf(from.columns, rows, from.removed)
  BY Zenon DEF Normalize
<1> HIDE DEF roleOf
<1>3. rows = NormalRows(from)
  BY <1>1 DEF NormalRows, NormalValues
<1> HIDE DEF rows
<1> QED BY <1>2, <1>3 DEF NormalTable

\* A normalised cell is a cell.
LEMMA NormalCells ==
  ASSUME NEW cell \in Cells, NEW role
  PROVE  NormalValue(cell, role) \in Cells
<1>1. Ident[cell] \in Cells /\ "" \in Cells
  BY CellAssumption DEF Conversions
<1>2. \A c \in Cells : Text[c] \in Cells /\ DateText[c] \in Cells
  BY TableAssumption, ZenonT(60)
<1> QED BY <1>1, <1>2 DEF NormalValue

\* The role of a name is that of its column.
LEMMA RoleOfAColumn ==
  ASSUME NEW columns, IsColumns(columns), NEW c \in Range(columns)
  PROVE  c.name \in ColumnNames(columns) /\ RolesIn(columns)[c.name] = c.role
<1> DEFINE d == CHOOSE x \in Range(columns) : x.name = c.name
<1>1. d \in Range(columns) /\ d.name = c.name
  OBVIOUS
<1>2. d = c
  <2> HIDE DEF d
  <2> QED BY <1>1 DEF IsColumns, Range
<1>3. c.name \in ColumnNames(columns)
  BY DEF ColumnNames
<1>4. RolesIn(columns)[c.name] = d.role
  BY <1>3 DEF RolesIn
<1> QED BY <1>2, <1>3, <1>4

\* The normalised table is a table; a row has the identifier its cell says and
\* in each column left the normalised cell.
LEMMA NormalTableKept ==
  ASSUME NEW from, IsTable(from)
  PROVE  LET n == NormalTable(from)
         IN /\ IsTable(n)
            /\ n.columns = KeptColumns(from.columns, NormalRows(from))
            /\ n.removed = from.removed + Len(from.columns) - Len(n.columns)
            /\ DOMAIN n.rows = DOMAIN from.rows
            /\ \A i \in DOMAIN n.rows :
                  /\ n.rows[i].rank = from.rows[i].rank
                  /\ n.rows[i].id = n.rows[i].values[IdName]
                  /\ \A c \in Range(n.columns) :
                        n.rows[i].values[c.name] = NormalValue(from.rows[i].values[c.name], c.role)
<1> DEFINE n == NormalTable(from)
           columns == from.columns
           names == ColumnNames(columns)
           rows == NormalRows(from)
           v(i) == NormalValues(from.rows[i].values, columns)
<1>1. IsColumns(columns) /\ IsRows(from.rows, names) /\ IdName \in names
  BY DEF IsTable, IsColumns
<1>2. /\ DOMAIN rows = DOMAIN from.rows
      /\ \A i \in DOMAIN from.rows : rows[i] = [from.rows[i] EXCEPT !.values = v(i), !.id = v(i)[IdName]]
  BY DEF NormalRows
<1>3. ASSUME NEW i \in DOMAIN from.rows
      PROVE  v(i) \in [names -> Cells]
             /\ \A x \in names : v(i)[x] = NormalValue(from.rows[i].values[x], RolesIn(columns)[x])
  <2> DEFINE u == from.rows[i].values
             w == v(i)
  <2>1. u \in [names -> Cells]
    BY <1>1 DEF IsRows
  <2>2. w = [x \in names |-> NormalValue(u[x], RolesIn(columns)[x])]
    BY DEF NormalValues
  <2> HIDE DEF u, w, names
  <2>3. \A x \in names : NormalValue(u[x], RolesIn(columns)[x]) \in Cells
    BY <2>1, NormalCells
  <2>4. w \in [names -> Cells] /\ \A x \in names : w[x] = NormalValue(u[x], RolesIn(columns)[x])
    BY <2>2, <2>3
  <2> QED BY <2>4 DEF u, w, names
<1> HIDE DEF rows, v, names, columns
<1>4. ASSUME NEW i \in DOMAIN from.rows
      PROVE  /\ DOMAIN rows[i] = {"rank", "id", "values"}
             /\ rows[i].rank = from.rows[i].rank /\ rows[i].rank \in Nat
             /\ rows[i].id = v(i)[IdName] /\ rows[i].values = v(i)
  <2>1. DOMAIN from.rows[i] = {"rank", "id", "values"} /\ from.rows[i].rank \in Nat
    BY <1>1 DEF IsRows
  <2> QED BY <1>2, <2>1
<1>5. IsRows(rows, names)
  <2>1. \E k \in Nat : DOMAIN rows = 1 .. k
    BY <1>1, <1>2 DEF IsRows
  <2>2. \A i, j \in DOMAIN from.rows : i < j => from.rows[i].rank < from.rows[j].rank
    BY <1>1 DEF IsRows
  <2>3. \A i, j \in DOMAIN rows : i < j => rows[i].rank < rows[j].rank
    BY <1>2, <1>4, <2>2
  <2>4. \A i \in DOMAIN rows : /\ DOMAIN rows[i] = {"rank", "id", "values"}
                               /\ rows[i].rank \in Nat
                               /\ rows[i].values \in [names -> Cells]
    <3>1. DOMAIN rows = DOMAIN from.rows
      BY <1>2
    <3>2. \A i \in DOMAIN from.rows : v(i) \in [names -> Cells]
      BY <1>3
    <3> QED BY <1>4, <3>1, <3>2
  <2> QED BY <2>1, <2>3, <2>4 DEF IsRows
<1>6. n = TableOf(columns, rows, from.removed)
  BY DEF NormalTable, columns, rows
<1> HIDE DEF n
<1>7. /\ IsTable(n) /\ n.columns = KeptColumns(columns, rows)
      /\ n.removed = from.removed + Len(columns) - Len(n.columns)
      /\ ColumnNames(n.columns) \in SUBSET names
      /\ DOMAIN n.rows = DOMAIN rows
      /\ \A i \in DOMAIN rows :
            /\ n.rows[i].rank = rows[i].rank /\ n.rows[i].id = rows[i].id
            /\ \A x \in ColumnNames(n.columns) : n.rows[i].values[x] = rows[i].values[x]
  BY <1>1, <1>5, <1>6, TableKept DEF names
<1>8. /\ IdName \in ColumnNames(n.columns)
      /\ \A c \in Range(n.columns) :
            c.name \in ColumnNames(n.columns) /\ RolesIn(columns)[c.name] = c.role
  <2>1. \A c \in Range(n.columns) : c \in Range(columns)
    BY <1>1, <1>7, ColumnsKept
  <2>2. IdName \in ColumnNames(n.columns) /\ \A c \in Range(n.columns) : c.name \in ColumnNames(n.columns)
    BY <1>7 DEF IsTable, IsColumns, ColumnNames
  <2> QED BY <1>1, <2>1, <2>2, RoleOfAColumn
<1>9. ASSUME NEW i \in DOMAIN n.rows
      PROVE  /\ n.rows[i].rank = from.rows[i].rank
             /\ n.rows[i].id = n.rows[i].values[IdName]
             /\ \A c \in Range(n.columns) :
                   n.rows[i].values[c.name] = NormalValue(from.rows[i].values[c.name], c.role)
  <2>1. i \in DOMAIN rows /\ i \in DOMAIN from.rows
    BY <1>2, <1>7
  <2>2. /\ rows[i].rank = from.rows[i].rank /\ rows[i].id = v(i)[IdName] /\ rows[i].values = v(i)
    BY <1>4, <2>1
  <2>3. \A x \in names : v(i)[x] = NormalValue(from.rows[i].values[x], RolesIn(columns)[x])
    BY <1>3, <2>1
  <2>4. \A x \in ColumnNames(n.columns) : x \in names /\ n.rows[i].values[x] = v(i)[x]
    BY <1>7, <2>1, <2>2
  <2> QED BY <1>7, <1>8, <2>1, <2>2, <2>3, <2>4
<1> QED BY <1>2, <1>7, <1>9 DEF n, columns, rows

-----------------------------------------------------------------------------
(***************************************************************************)
(* What a row writes into the table (build_flat_merge).                    *)
(***************************************************************************)

\* the columns a row of a sheet writes
IsCopied(c, sheet) == ~c.system /\ c.role # "id_dossier" /\ c.sheet = sheet

ExportedNames == ColumnNames(Exported(mapping))

\* what the rows had of an identifier in a column before
WasSaid(rows, id, c, cell) ==
    \/ \E o \in DOMAIN rows : rows[o].id = id /\ cell = rows[o].values[c.name]
    \/ /\ \A o \in DOMAIN rows : rows[o].id # id
       /\ cell = IF c.name = IdName THEN id ELSE ""

\* The place of the last copied column of a name.
LastNamed(columns, name) ==
    LET I == {j \in 1 .. Len(columns) : columns[j].name = name}
    IN IF I # {} THEN Max(I) ELSE 0

\* A name is looked up among the columns of the sheet: it is that of one of
\* them, or of none.
LEMMA CopiedColumn ==
  ASSUME NEW m, NEW w, ReadsWorkbook(m, w), ValidationErrors(m) = {}, NEW sheet,
         NEW c \in Range(Exported(m))
  PROVE  LET copied == CopiedColumns(m, sheet)
             at == LastNamed(copied, c.name)
         IN IF IsCopied(c, sheet) THEN at # 0 /\ copied[at] = c ELSE at = 0
<1> DEFINE ex == Exported(m)
           P == {i \in DOMAIN ex : IsCopied(ex[i], sheet)}
           n == Cardinality(P)
           copied == CopiedColumns(m, sheet)
           I == {j \in 1 .. Len(copied) : copied[j].name = c.name}
<1>1. /\ ex \in Seq(Range(m.columns)) /\ Len(ex) \in Nat /\ DOMAIN ex = 1 .. Len(ex)
      /\ \A i, j \in DOMAIN ex : ex[i].name = ex[j].name => i = j
  BY ExportedColumns
<1>2. copied = Picked(ex, P) /\ P \in SUBSET (DOMAIN ex)
  BY DEF CopiedColumns, IsCopied
<1>3. PICK k \in DOMAIN ex : ex[k] = c
  BY DEF Range
<1>4. k \in P <=> IsCopied(c, sheet)
  BY <1>3
<1> HIDE DEF ex, P, copied
<1>5. n \in Nat /\ Len(copied) = n
  BY <1>1, <1>2, PickedItems
<1>6. PICK f \in [1 .. n -> P] : /\ \A j, l \in 1 .. n : j < l => f[j] < f[l]
                                 /\ \A i \in P : \E j \in 1 .. n : f[j] = i
                                 /\ \A j \in 1 .. n : copied[j] = ex[f[j]]
  <2>1. \E f \in [1 .. n -> P] : /\ \A j, l \in 1 .. n : j < l => f[j] < f[l]
                                 /\ \A i \in P : \E j \in 1 .. n : f[j] = i
                                 /\ \A j \in 1 .. n : Picked(ex, P)[j] = ex[f[j]]
    <3>1. ex \in Seq(Range(m.columns)) /\ P \in SUBSET (DOMAIN ex)
      BY <1>1, <1>2
    <3> QED BY <3>1, PickedItems, SMTT(40)
  <2> QED BY <1>2, <2>1
<1>7. ASSUME NEW j \in I PROVE f[j] = k
  <2>1. j \in 1 .. n /\ ex[f[j]].name = ex[k].name /\ f[j] \in DOMAIN ex
    BY <1>2, <1>3, <1>5, <1>6
  <2> QED BY <1>1, <2>1
<1>8. LastNamed(copied, c.name) = IF I # {} THEN Max(I) ELSE 0
  BY DEF LastNamed
<1>9. CASE IsCopied(c, sheet)
  <2>1. PICK j \in 1 .. n : f[j] = k
    BY <1>4, <1>6, <1>9
  <2>2. copied[j] = c /\ j \in I
    BY <1>3, <1>5, <1>6, <2>1
  <2>3. \A l \in I : l = j
    <3>1. SUFFICES ASSUME NEW l \in I, l # j PROVE FALSE
      OBVIOUS
    <3>2. l \in 1 .. n /\ f[l] = f[j] /\ f[j] \in Int
      BY <1>1, <1>2, <1>5, <1>6, <1>7, <2>1
    <3>3. l < j \/ j < l
      BY <1>5, <3>1, <3>2
    <3>4. f[l] < f[j] \/ f[j] < f[l]
      BY <1>6, <3>2, <3>3
    <3> QED BY <3>2, <3>4
  <2> HIDE DEF I
  <2>4. I = {j}
    BY <2>2, <2>3
  <2>5. Max(I) = j
    <3>1. j \in Int
      OBVIOUS
    <3> QED BY <2>4, <3>1 DEF Max
  <2> QED BY <1>8, <1>9, <2>1, <2>2, <2>4, <2>5 DEF copied
<1>10. CASE ~IsCopied(c, sheet)
  <2>1. I = {}
    <3>1. SUFFICES ASSUME NEW j \in I PROVE FALSE
      OBVIOUS
    <3>2. f[j] = k /\ f[j] \in P
      BY <1>5, <1>6, <1>7
    <3> QED BY <1>4, <1>10, <3>2
  <2> HIDE DEF I
  <2> QED BY <1>8, <1>10, <2>1 DEF copied
<1> QED BY <1>9, <1>10

\* A row writes the cells of its sheet's columns into the row of its
\* identifier and leaves there what the others had said; the other rows stay.
LEMMA RowValues ==
  ASSUME ReadsWorkbook(mapping, workbook), ValidationErrors(mapping) = {},
         NEW rows, rows \in Seq(Range(rows)),
         \A i \in DOMAIN rows : /\ DOMAIN rows[i] = {"rank", "id", "values"}
                                /\ DOMAIN rows[i].values = ExportedNames,
         \A i, j \in DOMAIN rows : rows[i].id = rows[j].id => i = j,
         NEW rank, NEW id, NEW cells, NEW sheet
  PROVE  LET new == WithRow(rows, rank, id, cells, sheet)
         IN \A i \in DOMAIN new :
               \/ i \in DOMAIN rows /\ new[i] = rows[i] /\ rows[i].id # id
               \/ /\ new[i].id = id
                  /\ new[i].values = [n \in ExportedNames |-> new[i].values[n]]
                  /\ \A c \in Range(Exported(mapping)) :
                        /\ IsCopied(c, sheet) => new[i].values[c.name] = cells[c.pos]
                        /\ ~IsCopied(c, sheet) => WasSaid(rows, id, c, new[i].values[c.name])
<1> DEFINE same == {i \in 1 .. Len(rows) : rows[i].id = id}
           old == RowOf(rows, id)
           at == IF old = 0 THEN Len(rows) + 1 ELSE old
           base == IF old = 0
                   THEN [rank |-> rank, id |-> id, values |-> [EmptyValues EXCEPT ![IdName] = id]]
                   ELSE rows[old]
           copied == CopiedColumns(mapping, sheet)
           written == [n \in DOMAIN base.values |->
                         LET from == SelectLastInSeq(copied, LAMBDA c : c.name = n)
                         IN IF from = 0 THEN base.values[n] ELSE cells[copied[from].pos]]
           size == Max({Len(rows), at})
           new == WithRow(rows, rank, id, cells, sheet)
<1>1. Len(rows) \in Nat /\ DOMAIN rows = 1 .. Len(rows)
  BY LenProperties
<1>2. new = [i \in 1 .. size |-> IF i = at THEN [base EXCEPT !.values = written] ELSE rows[i]]
  BY Zenon DEF WithRow
<1>3. \/ old = 0 /\ \A i \in DOMAIN rows : rows[i].id # id
      \/ old \in DOMAIN rows /\ rows[old].id = id
  <2>1. old = IF same # {} THEN Min(same) ELSE 0
    BY DEF RowOf, SelectInSeq
  <2>2. same \in SUBSET Nat
    BY <1>1
  <2>3. CASE same = {}
    BY <1>1, <2>1, <2>3
  <2>4. CASE same # {}
    <3> HIDE DEF old, same
    <3>1. Min(same) \in same
      BY <2>2, <2>4, FirstPlace
    <3>2. old \in same
      BY <2>1, <2>4, <3>1
    <3> QED BY <1>1, <3>2 DEF same
  <2> QED BY <2>3, <2>4
<1>4. \A n \in DOMAIN base.values :
         written[n] = IF LastNamed(copied, n) = 0 THEN base.values[n]
                      ELSE cells[copied[LastNamed(copied, n)].pos]
  <2>1. \A n : SelectLastInSeq(copied, LAMBDA c : c.name = n) = LastNamed(copied, n)
    BY DEF SelectLastInSeq, LastNamed
  <2> HIDE DEF base, copied
  <2> QED BY <2>1
<1>5. written = [n \in DOMAIN base.values |-> written[n]]
  OBVIOUS
<1> HIDE DEF same, old, written
<1>6. \/ old = 0 /\ size = Len(rows) + 1
      \/ old # 0 /\ size = Len(rows)
  <2>1. at \in Nat /\ (IF old = 0 THEN at = Len(rows) + 1 ELSE at <= Len(rows))
    BY <1>1, <1>3
  <2> HIDE DEF at
  <2>2. \E x \in {Len(rows), at} : \A y \in {Len(rows), at} : x >= y
    BY <1>1, <2>1
  <2>3. size \in {Len(rows), at} /\ \A y \in {Len(rows), at} : size >= y
    BY <2>2 DEF Max
  <2> QED BY <1>1, <2>1, <2>3
<1>7. /\ DOMAIN base = {"rank", "id", "values"} /\ base.id = id
      /\ DOMAIN base.values = ExportedNames
      /\ \A c \in Range(Exported(mapping)) : WasSaid(rows, id, c, base.values[c.name])
  <2>1. CASE old = 0
    <3> DEFINE v == [EmptyValues EXCEPT ![IdName] = id]
    <3>1. EmptyValues = [n \in ExportedNames |-> ""]
      BY DEF EmptyValues, ExportedNames, ColumnNames
    <3>2. DOMAIN v = ExportedNames /\ \A n \in ExportedNames : v[n] = IF n = IdName THEN id ELSE ""
      BY <3>1
    <3>3. DOMAIN base = {"rank", "id", "values"} /\ base.id = id /\ base.values = v
      BY <2>1
    <3> HIDE DEF v, base
    <3>4. \A c \in Range(Exported(mapping)) : c.name \in ExportedNames
      BY DEF ExportedNames, ColumnNames
    <3>5. \A o \in DOMAIN rows : rows[o].id # id
      BY <1>1, <1>3, <2>1
    <3>6. ASSUME NEW c \in Range(Exported(mapping)) PROVE WasSaid(rows, id, c, base.values[c.name])
      <4>1. base.values[c.name] = IF c.name = IdName THEN id ELSE ""
        BY <3>2, <3>3, <3>4
      <4> QED BY <3>5, <4>1 DEF WasSaid
    <3> QED BY <3>2, <3>3, <3>6
  <2>2. CASE old # 0
    <3>1. base = rows[old] /\ old \in DOMAIN rows /\ rows[old].id = id
      BY <1>3, <2>2
    <3> HIDE DEF base
    <3>2. ASSUME NEW c PROVE WasSaid(rows, id, c, base.values[c.name])
      BY <3>1 DEF WasSaid
    <3> QED BY <3>1, <3>2
  <2> QED BY <2>1, <2>2
<1> DEFINE touched == [base EXCEPT !.values = written]
<1>8. touched.id = id /\ touched.values = written
  <2> HIDE DEF base
  <2> QED BY <1>7
<1> HIDE DEF base, size, new, touched
<1>9. DOMAIN new = 1 .. size /\ \A i \in 1 .. size : new[i] = IF i = at THEN touched ELSE rows[i]
  BY <1>2 DEF touched
<1> HIDE DEF copied
<1>10. ASSUME NEW i \in DOMAIN new, i # at
       PROVE  i \in DOMAIN rows /\ new[i] = rows[i] /\ rows[i].id # id
  <2>1. i \in DOMAIN rows
    BY <1>1, <1>6, <1>9, <1>10
  <2>2. rows[i].id # id
    BY <1>3, <1>10, <2>1
  <2> QED BY <1>9, <1>10, <2>1, <2>2
<1>11. ASSUME NEW i \in DOMAIN new, i = at
       PROVE  /\ new[i].id = id
              /\ new[i].values = [n \in ExportedNames |-> new[i].values[n]]
              /\ \A c \in Range(Exported(mapping)) :
                    /\ IsCopied(c, sheet) => new[i].values[c.name] = cells[c.pos]
                    /\ ~IsCopied(c, sheet) => WasSaid(rows, id, c, new[i].values[c.name])
  <2>1. new[i] = touched
    BY <1>9, <1>11
  <2>2. ASSUME NEW c \in Range(Exported(mapping))
        PROVE  /\ IsCopied(c, sheet) => written[c.name] = cells[c.pos]
               /\ ~IsCopied(c, sheet) => WasSaid(rows, id, c, written[c.name])
    <3>1. IF IsCopied(c, sheet)
          THEN LastNamed(copied, c.name) # 0 /\ copied[LastNamed(copied, c.name)] = c
          ELSE LastNamed(copied, c.name) = 0
      BY CopiedColumn DEF copied
    <3>2. c.name \in DOMAIN base.values
      BY <1>7 DEF ExportedNames, ColumnNames
    <3> QED BY <1>4, <1>7, <3>1, <3>2
  <2>3. new[i].id = id /\ new[i].values = written
    BY <1>7, <1>8, <2>1
  <2>4. written = [n \in ExportedNames |-> written[n]]
    BY <1>5, <1>7
  <2> QED BY <2>2, <2>3, <2>4
<1> QED BY <1>10, <1>11 DEF new

-----------------------------------------------------------------------------
(***************************************************************************)
(* Cells all along.  The merged rows have a cell in each exported column,  *)
(* and what comes after the merge follows from its table.                  *)
(***************************************************************************)
Filled == merge # None =>
             \A i \in DOMAIN merge.rows : merge.rows[i].values \in [ExportedNames -> Cells]

\* The exported columns have names of their own, the identifier among them.
LEMMA ColumnsExported ==
  ASSUME Content, MappingIsSubmitted, mapping # None
  PROVE  /\ ReadsWorkbook(mapping, workbook) /\ ValidationErrors(mapping) = {}
         /\ IsColumns(Exported(mapping))
         /\ \A c \in Range(Exported(mapping)) : c \in Range(mapping.columns)
<1> DEFINE ex == Exported(mapping)
<1>1. ReadsWorkbook(mapping, workbook) /\ ValidationErrors(mapping) = {}
  BY MappingReadsWorkbook DEF Content, MappingIsSubmitted, IsMappingOf
<1>2. /\ ex \in Seq(Range(mapping.columns)) /\ Len(ex) \in Nat /\ DOMAIN ex = 1 .. Len(ex)
      /\ \A i \in DOMAIN ex : ex[i] \in Range(mapping.columns)
      /\ \A i, j \in DOMAIN ex : ex[i].name = ex[j].name => i = j
      /\ \E i \in DOMAIN ex : ex[i].name = IdName
  BY <1>1, ExportedColumns
<1> HIDE DEF ex
<1>3. ex \in Seq(Range(ex))
  <2>1. ex = [i \in 1 .. Len(ex) |-> ex[i]]
    BY <1>2, SeqDef
  <2>2. \A i \in 1 .. Len(ex) : ex[i] \in Range(ex)
    BY <1>2 DEF Range
  <2>3. ex \in [1 .. Len(ex) -> Range(ex)]
    BY <2>1, <2>2, Zenon
  <2> QED BY <1>2, <2>3, SeqDef
<1>4. IdName \in ColumnNames(ex) /\ \A c \in Range(ex) : c \in Range(mapping.columns)
  BY <1>2 DEF ColumnNames, Range
<1> QED BY <1>1, <1>2, <1>3, <1>4 DEF IsColumns, ex

\* A row that is taken gives cells.
LEMMA CellsTaken ==
  ASSUME IInv, MappingIsSubmitted, MergeRow
  PROVE  LET k == merge.sheet
             n == merge.row
             sheet == SheetNamed(mapping.sheets[k].name)
             id == Ident[sheet.rows[n].cells[IdColumn(mapping, sheet.name).pos]]
         IN /\ merge # None /\ DOMAIN merge = MergeFields /\ mapping # None
            /\ k \in DOMAIN mapping.sheets /\ sheet.name = mapping.sheets[k].name
            /\ n \in DOMAIN sheet.rows
            /\ sheet.rows[n].cells = RowAt(k, n) /\ id = Identifier(<<k, n>>)
            /\ id \in Cells /\ Ident[id] = id
            /\ \A c \in Range(Exported(mapping)) : IsCopied(c, sheet.name) => RowAt(k, n)[c.pos] \in Cells
<1> DEFINE k == merge.sheet
           n == merge.row
           sheet == SheetNamed(mapping.sheets[k].name)
           id == Ident[sheet.rows[n].cells[IdColumn(mapping, sheet.name).pos]]
<1>1. Content /\ Cursor /\ merge # None /\ DOMAIN merge = MergeFields /\ mapping # None
      /\ k \in DOMAIN mapping.sheets
  BY Zenon DEF IInv, MergeRow, Content, OneAtATime, Cursor
<1>2. n \in DOMAIN sheet.rows
  BY <1>1, RowTaken, Zenon
<1>3. sheet.name = mapping.sheets[k].name
  BY <1>1, MergeReads
<1>4. sheet.rows[n].cells = RowAt(k, n)
  BY DEF RowAt
<1>5. id = Identifier(<<k, n>>)
  BY <1>1, IdentifierRead, Zenon
<1>6. Identifier(<<k, n>>) = IdAt(k, n)
  BY DEF Identifier
<1>7. IdAt(k, n) \in Cells /\ Ident[IdAt(k, n)] = IdAt(k, n)
  BY <1>1, <1>2, CellsAreRead
<1>8. ASSUME NEW c \in Range(Exported(mapping)), IsCopied(c, sheet.name)
      PROVE  RowAt(k, n)[c.pos] \in Cells
  <2>1. c \in Range(mapping.columns)
    BY <1>1, ColumnsExported
  <2>2. ~c.system /\ c.sheet = mapping.sheets[k].name
    BY <1>3, <1>8 DEF IsCopied
  <2> QED BY <1>1, <1>2, <2>1, <2>2, CellsAreRead
<1> HIDE DEF sheet, id, n, k
<1> QED BY <1>1, <1>2, <1>3, <1>4, <1>5, <1>6, <1>7, <1>8 DEF sheet, id, n, k

LEMMA FilledStep ==
  ASSUME IInv, MappingIsSubmitted, Filled, [Next]_vars
  PROVE  Filled'
<1>1. CASE UNCHANGED <<merge, mapping>>
  BY <1>1 DEF Filled, ExportedNames, Exported
<1>2. CASE merge' = None
  BY <1>2 DEF Filled
<1>3. CASE StartMerge
  <2>1. DOMAIN merge'.rows = {}
    BY <1>3, MergeStarts, EmptySeq
  <2> QED BY <2>1 DEF Filled
<1>4. ASSUME merge # None, merge'.rows = merge.rows, mapping' = mapping PROVE Filled'
  BY <1>4 DEF Filled, ExportedNames, Exported
<1>5. CASE MergeRow
  <2> DEFINE sheet == SheetNamed(mapping.sheets[merge.sheet].name)
             row == sheet.rows[merge.row]
             id == Ident[row.cells[IdColumn(mapping, sheet.name).pos]]
             rows == merge.rows
             new == WithRow(rows, merge.rank + 1, id, row.cells, sheet.name)
  <2>1. /\ merge # None /\ DOMAIN merge = MergeFields /\ mapping # None
        /\ row.cells = RowAt(merge.sheet, merge.row) /\ id \in Cells
        /\ \A c \in Range(Exported(mapping)) : IsCopied(c, sheet.name) => row.cells[c.pos] \in Cells
    BY <1>5, CellsTaken, Zenon
  <2>2. mapping' = mapping /\ (merge'.rows = rows \/ merge'.rows = new)
    BY <1>5, <2>1, RowTaken, Zenon
  <2>3. CASE merge'.rows = rows
    BY <1>4, <2>1, <2>2, <2>3
  <2>4. CASE merge'.rows = new
    <3>1. /\ rows \in Seq(Range(rows))
          /\ \A i \in DOMAIN rows : DOMAIN rows[i] = {"rank", "id", "values"}
          /\ OneEach(rows)
      BY <2>1 DEF IInv, TableGrows
    <3>2. \A i \in DOMAIN rows : rows[i].values \in [ExportedNames -> Cells]
      BY <2>1 DEF Filled
    <3>3. ReadsWorkbook(mapping, workbook) /\ ValidationErrors(mapping) = {}
      BY <2>1, ColumnsExported DEF IInv
    <3> HIDE DEF sheet, row, id, rows
    <3>4. \A i, j \in DOMAIN rows : rows[i].id = rows[j].id => i = j
      <4>1. DOMAIN rows = 1 .. Len(rows) /\ Len(rows) \in Nat
        BY <3>1, LenProperties
      <4> QED BY <3>1, <4>1 DEF OneEach
    <3>5. \A i \in DOMAIN rows : DOMAIN rows[i].values = ExportedNames
      BY <3>2
    <3>6. \A i \in DOMAIN new :
               \/ i \in DOMAIN rows /\ new[i] = rows[i] /\ rows[i].id # id
               \/ /\ new[i].id = id
                  /\ new[i].values = [n \in ExportedNames |-> new[i].values[n]]
                  /\ \A c \in Range(Exported(mapping)) :
                        /\ IsCopied(c, sheet.name) => new[i].values[c.name] = row.cells[c.pos]
                        /\ ~IsCopied(c, sheet.name) => WasSaid(rows, id, c, new[i].values[c.name])
      BY <3>1, <3>3, <3>4, <3>5, RowValues
    <3> HIDE DEF new
    <3>7. ASSUME NEW i \in DOMAIN new PROVE new[i].values \in [ExportedNames -> Cells]
      <4>1. CASE i \in DOMAIN rows /\ new[i] = rows[i]
        BY <3>2, <4>1
      <4>2. CASE /\ new[i].values = [n \in ExportedNames |-> new[i].values[n]]
                 /\ \A c \in Range(Exported(mapping)) :
                        /\ IsCopied(c, sheet.name) => new[i].values[c.name] = row.cells[c.pos]
                        /\ ~IsCopied(c, sheet.name) => WasSaid(rows, id, c, new[i].values[c.name])
        <5> DEFINE v == new[i].values
        <5>1. ASSUME NEW c \in Range(Exported(mapping)) PROVE v[c.name] \in Cells
          <6>1. CASE IsCopied(c, sheet.name)
            BY <2>1, <4>2, <6>1
          <6>2. CASE ~IsCopied(c, sheet.name)
            <7>1. WasSaid(rows, id, c, v[c.name])
              BY <4>2, <6>2
            <7>2. c.name \in ExportedNames /\ "" \in Cells
              BY CellAssumption DEF ExportedNames, ColumnNames
            <7>3. \A o \in DOMAIN rows : rows[o].values[c.name] \in Cells
              BY <3>2, <7>2
            <7> QED BY <2>1, <7>1, <7>2, <7>3 DEF WasSaid
          <6> QED BY <6>1, <6>2
        <5>2. \A n \in ExportedNames : v[n] \in Cells
          BY <5>1 DEF ExportedNames, ColumnNames
        <5>3. v = [n \in ExportedNames |-> v[n]]
          BY <4>2
        <5> HIDE DEF v
        <5>4. v \in [ExportedNames -> Cells]
          BY <5>2, <5>3
        <5> QED BY <5>4 DEF v
      <4> QED BY <3>6, <4>1, <4>2
    <3>8. ExportedNames' = ExportedNames
      BY <2>2 DEF ExportedNames, Exported
    <3> QED BY <2>4, <3>7, <3>8 DEF Filled
  <2> QED BY <2>2, <2>3, <2>4, Zenon
<1>6. CASE NextSheet
  <2>1. merge # None /\ DOMAIN merge = MergeFields
    BY <1>6 DEF NextSheet, Cursor, IInv
  <2> QED BY <1>4, <1>6, <2>1, SheetStarts
<1>7. UNCHANGED <<merge, mapping>> \/ merge' = None \/ StartMerge \/ MergeRow \/ NextSheet
  BY StepsOfALot DEF Carried, Replaced, Diagnose, NoLongerMapped, Remapped, FinishMerge, products,
                     IInv, Content, OneAtATime
<1> QED BY <1>1, <1>2, <1>3, <1>5, <1>6, <1>7

\* the rows the merged table was made of
MergedAs(rows) == /\ IsRows(rows, ExportedNames)
                  /\ fusion.table = TableOf(Exported(mapping), rows, 0)

Merged == fusion # None /\ ~fusion.blocked => \E rows : MergedAs(rows)

\* each later product is made of the one before it
Contract(table) == Issues(HeadersOf(table), Grid(HeadersOf(table), table.rows))

Normalised == normal # None => /\ fusion # None /\ ~fusion.blocked
                               /\ normal.table = NormalTable(fusion.table)

Verified == report # None => normal # None /\ report.issues = Contract(normal.table)

Sorted == sort # None =>
             /\ normal # None /\ sort.decision \in Decisions
             /\ sort.decision = "tri_region_departement" => Detection = "detected"
             /\ sort.rows = Ordered(Range(normal.table.rows), sort.decision)

Previewed == csv # None => /\ PreviewReady
                           /\ csv = [headers |-> HeadersOf(normal.table), grid |-> PreviewGrid]

Derived == Merged /\ Normalised /\ Verified /\ Sorted /\ Previewed

\* What a step does to the table and to what is made of it.
Emptied == fusion' = None /\ normal' = None /\ report' = None /\ sort' = None /\ csv' = None

LEMMA TableSteps ==
  ASSUME [Next]_vars
  PROVE  \/ Emptied
         \/ fusion = None /\ UNCHANGED products
         \/ UNCHANGED <<workbook, mapping, products>>
         \/ FinishMerge \/ Normalize \/ VerifyContract
         \/ (\E d \in Decisions : Sort(d)) \/ ValidatePreview
<1>1. ASSUME NEW w \in Redeposits, Deposit(w) PROVE Emptied
  BY <1>1 DEF Deposit, DownstreamGone, Emptied
<1>2. ASSUME NEW s, SaveDraft(Default, s, "draft"), SubmissionBound
      PROVE  fusion = None /\ UNCHANGED products
  BY <1>2 DEF SaveDraft, SubmissionBound
<1>3. ASSUME NEW s, ValidateMapping(Default, s) PROVE Emptied
  BY <1>3 DEF ValidateMapping, DownstreamGone, Emptied
<1>4. ASSUME NEW s, RefuseMapping(Default, s) PROVE UNCHANGED <<workbook, mapping, products>>
  BY <1>4 DEF RefuseMapping
<1>5. ASSUME SaveProfile PROVE UNCHANGED <<workbook, mapping, products>>
  BY <1>5 DEF SaveProfile
<1>6. ASSUME ApplyProfile PROVE fusion = None /\ UNCHANGED products
  BY <1>6 DEF ApplyProfile, SaveDraft, SubmissionBound
<1>7. ASSUME Diagnose \/ StartMerge \/ MergeRow \/ NextSheet
      PROVE  UNCHANGED <<workbook, mapping, products>>
  BY <1>7, Zenon DEF Diagnose, StartMerge, MergeRow, NextSheet
<1>8. CASE UNCHANGED vars
  BY <1>8 DEF vars
<1>9. CASE Next
  <2>1. ASSUME SubmissionBound, NEW s \in Submissions(Default),
               SaveDraft(Default, s, "draft") \/ ValidateMapping(Default, s) \/ RefuseMapping(Default, s)
        PROVE  \/ Emptied
               \/ fusion = None /\ UNCHANGED products
               \/ UNCHANGED <<workbook, mapping, products>>
    BY <1>2, <1>3, <1>4, <2>1
  <2>2. \/ \E w \in Redeposits : Deposit(w)
        \/ SubmissionBound /\ \E s \in Submissions(Default) :
              SaveDraft(Default, s, "draft") \/ ValidateMapping(Default, s) \/ RefuseMapping(Default, s)
        \/ SaveProfile \/ ApplyProfile
        \/ Diagnose \/ StartMerge \/ MergeRow \/ NextSheet \/ FinishMerge
        \/ Normalize \/ VerifyContract \/ (\E d \in Decisions : Sort(d)) \/ ValidatePreview
    BY <1>9 DEF Next
  <2> QED BY <1>1, <1>5, <1>6, <1>7, <2>1, <2>2
<1> QED BY <1>8, <1>9

\* The table of a merge that ends is that of its rows.
LEMMA MergedTable ==
  ASSUME IInv, MappingIsSubmitted, Filled, FinishMerge
  PROVE  /\ Merged' /\ IsRows(merge.rows, ExportedNames)
         /\ ~fusion'.blocked => fusion'.table = TableOf(Exported(mapping), merge.rows, 0)
<1> DEFINE table == TableOf(Exported(mapping), merge.rows, 0)
           rows == merge.rows
<1>1. /\ merge # None /\ UNCHANGED <<workbook, mapping>>
      /\ fusion' = [blocked |-> merge.duplicates > 0, withoutId |-> merge.withoutId,
                    sourceRows |-> merge.sourceRows,
                    table |-> IF merge.duplicates > 0 THEN None ELSE table]
  BY Zenon DEF FinishMerge
<1> HIDE DEF table
<1>2. ~fusion'.blocked => fusion'.table = table
  BY <1>1
<1>3. IsRows(rows, ExportedNames)
  <2>1. /\ rows \in Seq(Range(rows)) /\ merge.rank \in Nat
        /\ \A i \in DOMAIN rows : /\ DOMAIN rows[i] = {"rank", "id", "values"}
                                  /\ rows[i].rank \in 1 .. merge.rank
        /\ OneEach(rows)
    BY <1>1 DEF IInv, TableGrows
  <2>2. \A i \in DOMAIN rows : rows[i].values \in [ExportedNames -> Cells]
    BY <1>1 DEF Filled
  <2> HIDE DEF rows
  <2>3. Len(rows) \in Nat /\ DOMAIN rows = 1 .. Len(rows)
    BY <2>1, LenProperties
  <2>4. \A i \in DOMAIN rows : rows[i].rank \in Nat
    BY <2>1
  <2>5. \A i, j \in DOMAIN rows : i < j => rows[i].rank < rows[j].rank
    BY <2>1 DEF OneEach
  <2> QED BY <2>1, <2>2, <2>3, <2>4, <2>5 DEF IsRows
<1>4. ExportedNames' = ExportedNames /\ Exported(mapping)' = Exported(mapping)
  BY <1>1 DEF ExportedNames, Exported
<1>5. Merged'
  <2>1. SUFFICES ASSUME ~fusion'.blocked PROVE \E r : MergedAs(r)'
    BY DEF Merged
  <2>2. IsRows(rows, ExportedNames') /\ fusion'.table = TableOf(Exported(mapping)', rows, 0)
    BY <1>2, <1>3, <1>4, <2>1 DEF table
  <2> HIDE DEF rows
  <2> QED BY <2>2 DEF MergedAs
<1> QED BY <1>2, <1>3, <1>5 DEF table

\* The order of the rows and the preview go by the normalised table.
LEMMA SameOrder ==
  ASSUME UNCHANGED normal
  PROVE  /\ Detection' = Detection
         /\ \A rows, decision : Ordered(rows, decision)' = Ordered(rows, decision)
<1>1. RegionColumns' = RegionColumns
  BY DEF RegionColumns
<1>2. DepartmentColumns' = DepartmentColumns
  BY DEF DepartmentColumns
<1>3. Detection' = Detection
  BY <1>1, <1>2 DEF Detection
<1>4. \A r : SortKey(r)' = SortKey(r)
  BY <1>1, <1>2 DEF SortKey
<1>5. \A d, r, s : Before(d, r, s)' <=> Before(d, r, s)
  BY <1>4 DEF Before
<1>6. \A rows, d, r : {s \in rows : Before(d, s, r)}' = {s \in rows : Before(d, s, r)}
  BY <1>5
<1>7. ASSUME NEW rows, NEW d PROVE Ordered(rows, d)' = Ordered(rows, d)
  <2> DEFINE b(r) == {s \in rows : Before(d, s, r)}
  <2>1. \A r : b(r)' = b(r)
    BY <1>6
  <2>2. Ordered(rows, d) = [i \in 1 .. Cardinality(rows) |-> CHOOSE r \in rows : Cardinality(b(r)) = i - 1]
    BY DEF Ordered
  <2>3. Ordered(rows, d)' = [i \in 1 .. Cardinality(rows) |-> CHOOSE r \in rows : Cardinality(b(r)') = i - 1]
    BY DEF Ordered
  <2> HIDE DEF b
  <2> QED BY <2>1, <2>2, <2>3
<1> QED BY <1>3, <1>7

LEMMA SamePreview ==
  ASSUME UNCHANGED <<normal, sort>>
  PROVE  PreviewGrid' = PreviewGrid
BY DEF PreviewGrid

LEMMA DerivedInit ==
  Init => Filled /\ Derived
BY DEF Init, Filled, Derived, Merged, Normalised, Verified, Sorted, Previewed

LEMMA DerivedStep ==
  ASSUME IInv, MappingIsSubmitted, Filled, Derived, [Next]_vars
  PROVE  Derived'
<1> USE DEF Derived
<1>1. CASE Emptied
  BY <1>1 DEF Emptied, Merged, Normalised, Verified, Sorted, Previewed
<1>2. CASE UNCHANGED <<workbook, mapping, products>>
  <2>1. UNCHANGED <<mapping, fusion, normal, report, sort, csv>>
    BY <1>2 DEF products
  <2>2. Merged'
    <3>1. \A rows : MergedAs(rows) => MergedAs(rows)'
      BY <2>1 DEF MergedAs, ExportedNames, Exported
    <3> QED BY <2>1, <3>1 DEF Merged
  <2>3. Normalised' /\ Verified'
    BY <2>1 DEF Normalised, Verified
  <2>4. Sorted'
    BY <2>1, SameOrder DEF Sorted
  <2>5. Previewed'
    BY <2>1, SamePreview DEF Previewed, PreviewReady
  <2> QED BY <2>2, <2>3, <2>4, <2>5
<1>3. CASE fusion = None /\ UNCHANGED products
  BY <1>3 DEF products, Merged, Normalised, Verified, Sorted, Previewed, PreviewReady
<1>4. CASE FinishMerge
  <2>1. fusion = None /\ UNCHANGED <<normal, report, sort, csv>>
    BY <1>4 DEF FinishMerge, IInv, Content, OneAtATime
  <2>2. normal = None /\ report = None /\ sort = None /\ csv = None
    BY <2>1 DEF Normalised, Verified, Sorted, Previewed, PreviewReady
  <2>3. Normalised' /\ Verified' /\ Sorted' /\ Previewed'
    BY <2>1, <2>2 DEF Normalised, Verified, Sorted, Previewed
  <2> QED BY <1>4, <2>3, MergedTable
<1>5. ASSUME UNCHANGED <<mapping, fusion>> PROVE Merged'
  <2>1. \A rows : MergedAs(rows) => MergedAs(rows)'
    BY <1>5 DEF MergedAs, ExportedNames, Exported
  <2> QED BY <1>5, <2>1 DEF Merged
<1>6. CASE Normalize
  <2>1. /\ normal = None /\ fusion # None /\ ~fusion.blocked
        /\ UNCHANGED <<mapping, fusion, report, sort, csv>>
    BY <1>6 DEF Normalize
  <2>2. report = None /\ sort = None /\ csv = None
    BY <2>1 DEF Verified, Sorted, Previewed, PreviewReady
  <2>3. Normalised'
    BY <1>6, <2>1, TableIsNormalised DEF Normalised
  <2>4. Verified' /\ Sorted' /\ Previewed'
    BY <2>1, <2>2 DEF Verified, Sorted, Previewed
  <2> QED BY <1>5, <2>1, <2>3, <2>4
<1>7. CASE VerifyContract
  <2>1. /\ normal # None /\ report = None /\ UNCHANGED <<mapping, fusion, normal, sort, csv>>
        /\ report'.issues = Contract(normal.table)
    BY <1>7 DEF VerifyContract, Contract
  <2>2. csv = None
    BY <2>1 DEF Previewed, PreviewReady
  <2>3. Normalised' /\ Verified'
    BY <2>1 DEF Normalised, Verified
  <2>4. Sorted'
    BY <2>1, SameOrder DEF Sorted
  <2>5. Previewed'
    BY <2>1, <2>2 DEF Previewed
  <2> QED BY <1>5, <2>1, <2>3, <2>4, <2>5
<1>8. ASSUME NEW d \in Decisions, Sort(d) PROVE Derived'
  <2>1. /\ normal # None /\ (d = "tri_region_departement" => Detection = "detected")
        /\ sort'.decision = d /\ sort'.rows = Ordered(Range(normal.table.rows), d)
        /\ csv' = None /\ UNCHANGED <<mapping, fusion, normal, report>>
    BY <1>8 DEF Sort
  <2>2. Normalised' /\ Verified' /\ Previewed'
    BY <2>1 DEF Normalised, Verified, Previewed
  <2>3. Sorted'
    BY <2>1, SameOrder DEF Sorted
  <2> QED BY <1>5, <2>1, <2>2, <2>3
<1>9. CASE ValidatePreview
  <2>1. /\ PreviewReady /\ UNCHANGED <<mapping, fusion, normal, report, sort>>
        /\ csv' = [headers |-> HeadersOf(normal.table), grid |-> PreviewGrid]
    BY <1>9 DEF ValidatePreview
  <2>2. Normalised' /\ Verified'
    BY <2>1 DEF Normalised, Verified
  <2>3. Sorted'
    BY <2>1, SameOrder DEF Sorted
  <2>4. Previewed'
    BY <2>1, SamePreview DEF Previewed, PreviewReady
  <2> QED BY <1>5, <2>1, <2>2, <2>3, <2>4
<1> QED BY <1>1, <1>2, <1>3, <1>4, <1>6, <1>7, <1>8, <1>9, TableSteps

\* The tables of the merge and of the normalisation are tables.
LEMMA TablesOfALot ==
  ASSUME Content, MappingIsSubmitted, Derived
  PROVE  /\ fusion # None /\ ~fusion.blocked => mapping # None /\ IsTable(fusion.table)
         /\ normal # None =>
               /\ fusion # None /\ ~fusion.blocked /\ IsTable(normal.table)
               /\ \A i \in DOMAIN normal.table.rows :
                     normal.table.rows[i].id = normal.table.rows[i].values[IdName]
<1>1. ASSUME fusion # None, ~fusion.blocked PROVE mapping # None /\ IsTable(fusion.table)
  <2>1. mapping # None
    BY <1>1 DEF Content, OneAtATime
  <2>2. IsColumns(Exported(mapping))
    BY <2>1, ColumnsExported
  <2>3. PICK rows : IsRows(rows, ColumnNames(Exported(mapping)))
                    /\ fusion.table = TableOf(Exported(mapping), rows, 0)
    BY <1>1 DEF Derived, Merged, MergedAs, ExportedNames
  <2> QED BY <2>1, <2>2, <2>3, TableKept
<1>2. ASSUME normal # None
      PROVE  /\ fusion # None /\ ~fusion.blocked /\ IsTable(normal.table)
             /\ \A i \in DOMAIN normal.table.rows :
                   normal.table.rows[i].id = normal.table.rows[i].values[IdName]
  <2>1. fusion # None /\ ~fusion.blocked /\ normal.table = NormalTable(fusion.table)
    BY <1>2 DEF Derived, Normalised
  <2>2. IsTable(fusion.table)
    BY <1>1, <2>1
  <2> DEFINE n == NormalTable(fusion.table)
  <2>3. IsTable(n) /\ \A i \in DOMAIN n.rows : n.rows[i].id = n.rows[i].values[IdName]
    BY <2>2, NormalTableKept
  <2> HIDE DEF n
  <2>4. normal.table = n
    BY <2>1 DEF n
  <2> QED BY <2>1, <2>3, <2>4
<1> QED BY <1>1, <1>2

\* The rows of a table can be put in the order the sort was asked.
LEMMA TableIsSortable ==
  ASSUME normal # None, IsTable(normal.table), NEW d \in Decisions,
         d = "tri_region_departement" => Detection = "detected"
  PROVE  Sortable(Range(normal.table.rows), d)
<1> DEFINE rows == normal.table.rows
           columns == normal.table.columns
           names == ColumnNames(columns)
<1>1. IsRows(rows, names) /\ columns \in Seq(Range(columns))
  BY DEF IsTable, IsColumns
<1>2. PICK n \in Nat : DOMAIN rows = 1 .. n
  BY <1>1 DEF IsRows
<1>3. IsFiniteSet(Range(rows))
  <2> DEFINE f == [i \in 1 .. n |-> rows[i]]
  <2>1. f \in Surjection(1 .. n, Range(rows))
    BY <1>2 DEF Surjection, Range
  <2>2. IsFiniteSet(1 .. n)
    BY FS_Interval
  <2> HIDE DEF f, rows
  <2> QED BY <2>1, <2>2, FS_Surjection
<1>4. \A r \in Range(rows) : r.rank \in Int /\ r.values \in [names -> Cells]
  BY <1>1 DEF IsRows, Range
<1>5. \A r, s \in Range(rows) : r.rank = s.rank => r = s
  <2>1. SUFFICES ASSUME NEW i \in DOMAIN rows, NEW j \in DOMAIN rows, rows[i].rank = rows[j].rank
                 PROVE  i = j
    BY DEF Range
  <2> HIDE DEF rows
  <2>2. i \in Int /\ j \in Int /\ rows[i].rank \in Int
    BY <1>1, <1>2 DEF IsRows
  <2>3. ~(rows[i].rank < rows[j].rank) /\ ~(rows[j].rank < rows[i].rank)
    BY <2>1, <2>2
  <2>4. ~(i < j) /\ ~(j < i)
    BY <1>1, <2>3 DEF IsRows
  <2> QED BY <2>2, <2>4
<1>6. ASSUME d # "ordre_source"
      PROVE  {RegionColumns[1].name, DepartmentColumns[1].name} \subseteq names
  <2>1. Len(RegionColumns) = 1 /\ Len(DepartmentColumns) = 1
    BY <1>6 DEF Decisions, Detection
  <2> DEFINE P == {j \in DOMAIN columns : columns[j].role = "region"}
             Q == {j \in DOMAIN columns :
                      /\ columns[j].role = "departement"
                      /\ {columns[j].header, columns[j].name[2]} \cap Postal = {}}
  <2>2. /\ RegionColumns = Picked(columns, P) /\ DepartmentColumns = Picked(columns, Q)
        /\ P \in SUBSET (DOMAIN columns) /\ Q \in SUBSET (DOMAIN columns)
    BY DEF RegionColumns, DepartmentColumns
  <2> HIDE DEF P, Q, columns
  <2>3. RegionColumns \in Seq(Range(columns)) /\ DepartmentColumns \in Seq(Range(columns))
    BY <1>1, <2>2, PickedItems
  <2>4. RegionColumns[1] \in Range(columns) /\ DepartmentColumns[1] \in Range(columns)
    BY <2>1, <2>3, LenProperties, SMTT(40)
  <2> QED BY <2>4 DEF ColumnNames
<1> HIDE DEF rows, names
<1>7. ASSUME d # "ordre_source", NEW r \in Range(rows)
      PROVE  {r.values[RegionColumns[1].name], r.values[DepartmentColumns[1].name]} \subseteq Cells
  BY <1>4, <1>6, <1>7
<1> QED BY <1>3, <1>4, <1>5, <1>7 DEF Sortable, rows

\* A value shown in the CSV is never empty, and shown once more it is the same.
LEMMA ShownTwice ==
  \A v : OrPlaceholder(v) # "" /\ OrPlaceholder(OrPlaceholder(v)) = OrPlaceholder(v)
BY DEF OrPlaceholder, Placeholder

\* A row of the preview shows of the row what the contract saw, or the name of
\* its image.
LEMMA RowPreviewed ==
  ASSUME NEW r, DOMAIN r = {"rank", "id", "values"}, NEW n \in DOMAIN r.values
  PROVE  PreviewRow(r).values[n] =
            IF n = ImageName /\ r.id # "" THEN ImageId[r.id]
            ELSE IF n = PathName /\ r.id # "" THEN PathImg[ImageId[r.id]]
            ELSE OrPlaceholder(r.values[n])
BY DEF PreviewRow

\* What the contract accepts in the rows of a table it accepts in the preview.
LEMMA AcceptedAgain ==
  ASSUME normal # None, IsTable(normal.table),
         \A i \in DOMAIN normal.table.rows :
            normal.table.rows[i].id = normal.table.rows[i].values[IdName],
         Sorted, sort # None, Contract(normal.table) = {}
  PROVE  Issues(HeadersOf(normal.table), PreviewGrid) = {}
<1> DEFINE t == normal.table
           h == HeadersOf(t)
           g == Grid(h, t.rows)
           names == ColumnNames(t.columns)
           rows == Range(t.rows)
<1>1. /\ IsPrefix(<<IdName, ImageName, PathName>>, h) /\ IsInjective(h)
      /\ \A i \in DOMAIN g : "" \notin Range(g[i]) /\ Range(g[i]) \cap Forbidden = {}
  BY DEF Contract, Issues
<1>2. /\ IsColumns(t.columns) /\ IsRows(t.rows, names)
      /\ DOMAIN h = DOMAIN t.columns /\ \A j \in DOMAIN h : h[j] \in names
  BY DEF IsTable, HeadersOf, ColumnNames, Range
<1>3. ASSUME NEW i \in DOMAIN sort.rows PROVE sort.rows[i] \in rows
  <2>1. /\ sort.decision \in Decisions
        /\ sort.decision = "tri_region_departement" => Detection = "detected"
        /\ sort.rows = Ordered(rows, sort.decision)
    BY DEF Sorted
  <2>2. Sortable(rows, sort.decision)
    BY <2>1, TableIsSortable
  <2> HIDE DEF rows
  <2> QED BY <2>1, <2>2, RowsInOrder
<1>4. ASSUME NEW r \in rows
      PROVE  /\ DOMAIN r = {"rank", "id", "values"} /\ DOMAIN r.values = names /\ r.id \in Cells
             /\ \E k \in DOMAIN t.rows : r = t.rows[k]
  <2>1. PICK k \in DOMAIN t.rows : r = t.rows[k]
    BY DEF Range
  <2>2. r.values \in [names -> Cells] /\ r.id = r.values[IdName] /\ IdName \in names
    BY <1>2, <2>1 DEF IsRows, IsColumns
  <2> QED BY <1>2, <2>1, <2>2 DEF IsRows
<1>5. /\ DOMAIN PreviewGrid = DOMAIN sort.rows
      /\ \A i \in DOMAIN sort.rows :
            /\ DOMAIN PreviewGrid[i] = DOMAIN h
            /\ \A j \in DOMAIN h :
                  PreviewGrid[i][j] = OrPlaceholder(PreviewRow(sort.rows[i]).values[h[j]])
  BY DEF PreviewGrid, Grid
<1>6. /\ DOMAIN g = DOMAIN t.rows
      /\ \A k \in DOMAIN t.rows :
            DOMAIN g[k] = DOMAIN h /\ \A j \in DOMAIN h : g[k][j] = OrPlaceholder(t.rows[k].values[h[j]])
  BY DEF Grid
<1> HIDE DEF g, h, names, rows, t
<1>7. ASSUME NEW i \in DOMAIN sort.rows, NEW j \in DOMAIN h
      PROVE  PreviewGrid[i][j] \notin {""} \cup Forbidden
  <2> DEFINE r == sort.rows[i]
             n == h[j]
             v == PreviewRow(r).values[n]
  <2>1. r \in rows /\ n \in names
    BY <1>2, <1>3
  <2>2. /\ DOMAIN r = {"rank", "id", "values"} /\ n \in DOMAIN r.values /\ r.id \in Cells
        /\ \E k \in DOMAIN t.rows : r = t.rows[k]
    BY <1>4, <2>1
  <2>3. v = IF n = ImageName /\ r.id # "" THEN ImageId[r.id]
            ELSE IF n = PathName /\ r.id # "" THEN PathImg[ImageId[r.id]]
            ELSE OrPlaceholder(r.values[n])
    <3> HIDE DEF r, n
    <3> QED BY <2>2, RowPreviewed
  <2>4. PreviewGrid[i][j] = OrPlaceholder(v)
    BY <1>5
  <2> HIDE DEF r, n, v
  <2>5. CASE v \in {ImageId[r.id], PathImg[ImageId[r.id]]}
    <3>1. v \notin {""} \cup Forbidden
      BY <2>2, <2>5, TableAssumption
    <3> QED BY <2>4, <3>1 DEF OrPlaceholder
  <2>6. CASE v = OrPlaceholder(r.values[n])
    <3>1. PICK k \in DOMAIN t.rows : r = t.rows[k]
      BY <2>2
    <3>2. PreviewGrid[i][j] = OrPlaceholder(t.rows[k].values[n]) /\ PreviewGrid[i][j] # ""
      BY <2>4, <2>6, <3>1, ShownTwice
    <3>3. PreviewGrid[i][j] = g[k][j] /\ g[k][j] \in Range(g[k]) /\ k \in DOMAIN g
      BY <1>6, <3>2 DEF Range, n
    <3> QED BY <1>1, <3>2, <3>3
  <2> QED BY <2>3, <2>5, <2>6
<1>8. ASSUME NEW i \in DOMAIN PreviewGrid
      PROVE  "" \notin Range(PreviewGrid[i]) /\ Range(PreviewGrid[i]) \cap Forbidden = {}
  <2> DEFINE cells == Range(PreviewGrid[i])
  <2>1. \A x \in cells : x # "" /\ x \notin Forbidden
    <3>1. \A j \in DOMAIN h : PreviewGrid[i][j] # "" /\ PreviewGrid[i][j] \notin Forbidden
      BY <1>5, <1>7
    <3>2. DOMAIN PreviewGrid[i] = DOMAIN h
      BY <1>5
    <3> QED BY <3>1, <3>2 DEF Range
  <2> HIDE DEF cells
  <2>2. "" \notin cells /\ cells \cap Forbidden = {}
    BY <2>1
  <2> QED BY <2>2 DEF cells
<1>9. Issues(h, PreviewGrid) = {}
  BY <1>1, <1>8 DEF Issues
<1> QED BY <1>9 DEF h, t

\* What the contract accepted before the sort and the naming of the images it
\* accepts again at the validation of the preview, for whatever workbook,
\* mapping and decision (verify_indesign_csv_bytes, csv_preview.py).
THEOREM VerifiedStaysAccepted == Spec => []VerifiedContentIsAccepted
<1> DEFINE I == /\ IInv /\ MappingIsSubmitted /\ ProfileIsSaved
                /\ Filled /\ Derived
<1>1. Init => I
  BY IInvInit, DerivedInit DEF Init, MappingIsSubmitted, ProfileIsSaved
<1>2. I /\ [Next]_vars => I'
  <2>1. I /\ [Next]_vars => IInv'
    BY ContentStep, CursorStep, TableGrowsStep, TableIsDoneStep DEF IInv
  <2>2. I /\ [Next]_vars => MappingIsSubmitted' /\ ProfileIsSaved'
    BY SavedStep DEF IInv
  <2>3. I /\ [Next]_vars => Filled' /\ Derived'
    BY FilledStep, DerivedStep
  <2> QED BY <2>1, <2>2, <2>3
<1>3. I => VerifiedContentIsAccepted
  <2>1. SUFFICES ASSUME I, PreviewReady PROVE Issues(HeadersOf(normal.table), PreviewGrid) = {}
    BY DEF VerifiedContentIsAccepted
  <2>2. /\ report # None /\ sort # None /\ normal # None /\ Sorted
        /\ Contract(normal.table) = {}
    BY <2>1 DEF PreviewReady, Derived, Verified, Sorted
  <2>3. /\ IsTable(normal.table)
        /\ \A i \in DOMAIN normal.table.rows :
              normal.table.rows[i].id = normal.table.rows[i].values[IdName]
    BY <2>1, <2>2, TablesOfALot DEF IInv
  <2> QED BY <2>2, <2>3, AcceptedAgain
<1> QED BY <1>1, <1>2, <1>3, PTL DEF Spec

-----------------------------------------------------------------------------
(***************************************************************************)
(* What the merged table tells.  Its cell in a column of a sheet is that   *)
(* of the identifier's row in this sheet, or empty if it has none.         *)
(***************************************************************************)
Gives(r, id, c) == mapping.sheets[r[1]].name = c.sheet /\ Identifier(r) = id

TellsCell(T, id, c, cell) ==
    IF ~c.system /\ c.role # "id_dossier"
    THEN \/ \E r \in T : Gives(r, id, c) /\ cell = RowAt(r[1], r[2])[c.pos]
         \/ cell = "" /\ \A r \in T : ~Gives(r, id, c)
    ELSE cell = IF c.name = IdName THEN id ELSE ""

Tells(T, rows) ==
    \A i \in DOMAIN rows : \A c \in Range(Exported(mapping)) :
        TellsCell(T, rows[i].id, c, rows[i].values[c.name])

Told == merge # None /\ merge.duplicates = 0 => Tells(Taken, merge.rows)

\* the rows the merged table was made of, and they tell the workbook
ToldBy(rows) == MergedAs(rows) /\ OneEach(rows) /\ Tells(SourceRows, rows)

AllTold == fusion # None /\ ~fusion.blocked => \E rows : ToldBy(rows)

\* Only the identifier of the system and its two columns have no letter.
LEMMA NamesOfColumns ==
  ASSUME NEW m, NEW w, ReadsWorkbook(m, w), NEW c \in Range(m.columns)
  PROVE  /\ c.name = IdName => ~c.system /\ c.role = "id_dossier"
         /\ c.name \in {ImageName, PathName} <=> c.system
         /\ c.name \in SpecialNames /\ c.name # IdName => c.system
<1>1. ImageName # IdName /\ PathName # IdName
  BY DEF ImageName, IdName, PathName
<1>2. CASE c \in {SystemColumns[1], SystemColumns[2]}
  <2>1. c.system /\ c.name \in {ImageName, PathName}
    <3>1. SystemColumns[1].system /\ SystemColumns[1].name = ImageName
      BY DEF SystemColumns
    <3>2. SystemColumns[2].system /\ SystemColumns[2].name = PathName
      BY DEF SystemColumns
    <3> QED BY <1>2, <3>1, <3>2
  <2>2. c.name # IdName
    BY <1>1, <2>1
  <2>3. c.name = IdName => ~c.system /\ c.role = "id_dossier"
    BY <2>2
  <2>4. c.name \in {ImageName, PathName} <=> c.system
    BY <2>1
  <2>5. c.name \in SpecialNames /\ c.name # IdName => c.system
    BY <2>1
  <2> QED BY <2>3, <2>4, <2>5
<1>3. CASE /\ ~c.system
           /\ (c.role = "id_dossier" /\ c.name = IdName) \/ c.name[1] = c.pos
           /\ \E j \in DOMAIN w : c.sheet = w[j].name /\ c.pos \in 1 .. Width(w[j])
  <2>1. c.pos # 0
    BY <1>3
  <2>2. CASE c.role = "id_dossier" /\ c.name = IdName
    BY <1>1, <1>3, <2>2
  <2>3. CASE c.name[1] = c.pos
    <3>1. c.name \notin {IdName, ImageName, PathName}
      BY <2>1, <2>3 DEF IdName, ImageName, PathName
    <3> QED BY <1>3, <3>1 DEF SpecialNames
  <2> QED BY <1>3, <2>2, <2>3
<1> QED BY <1>2, <1>3 DEF ReadsWorkbook

\* A row that gives nothing of an identifier changes nothing that is told of
\* it.
LEMMA StillTold ==
  ASSUME NEW T, NEW q, NEW id, NEW c, NEW cell, ~Gives(q, id, c), TellsCell(T, id, c, cell)
  PROVE  TellsCell(T \cup {q}, id, c, cell)
BY DEF TellsCell

\* What is told keeps its meaning while the workbook and the mapping stay.
LEMMA SameTale ==
  ASSUME UNCHANGED <<workbook, mapping>>
  PROVE  \A T, rows : Tells(T, rows)' <=> Tells(T, rows)
<1>1. \A r : Identifier(r)' = Identifier(r)
  BY SameSource
<1>2. \A r : RowAt(r[1], r[2])' = RowAt(r[1], r[2])
  BY SameSource DEF RowAt
<1>3. \A r, id, c : Gives(r, id, c)' <=> Gives(r, id, c)
  BY <1>1 DEF Gives
<1>4. \A T, id, c, cell : TellsCell(T, id, c, cell)' <=> TellsCell(T, id, c, cell)
  BY <1>2, <1>3, ZenonT(60) DEF TellsCell
<1>5. Exported(mapping)' = Exported(mapping)
  BY DEF Exported
<1> QED BY <1>4, <1>5 DEF Tells

\* A row of an identifier tells what it did of it, and what the row just taken
\* gives.
LEMMA NewlyTold ==
  ASSUME NEW T, NEW rows, Tells(T, rows), {rows[i].id : i \in DOMAIN rows} = Said(T),
         NEW q, NEW id, id = Identifier(q), id # "",
         NEW c \in Range(Exported(mapping)),
         c.name = IdName => ~c.system /\ c.role = "id_dossier",
         NEW sheet, sheet = mapping.sheets[q[1]].name, NEW cell,
         IsCopied(c, sheet) => cell = RowAt(q[1], q[2])[c.pos],
         ~IsCopied(c, sheet) => WasSaid(rows, id, c, cell)
  PROVE  TellsCell(T \cup {q}, id, c, cell)
<1>1. CASE IsCopied(c, sheet)
  <2>1. /\ ~c.system /\ c.role # "id_dossier" /\ Gives(q, id, c)
        /\ cell = RowAt(q[1], q[2])[c.pos]
    BY <1>1 DEF IsCopied, Gives
  <2> QED BY <2>1 DEF TellsCell
<1>2. CASE ~IsCopied(c, sheet)
  <2>1. TellsCell(T, id, c, cell)
    <3>1. CASE \E o \in DOMAIN rows : rows[o].id = id /\ cell = rows[o].values[c.name]
      BY <3>1 DEF Tells
    <3>2. CASE /\ \A o \in DOMAIN rows : rows[o].id # id
               /\ cell = IF c.name = IdName THEN id ELSE ""
      <4>1. id \notin Said(T)
        BY <3>2
      <4>2. \A r \in T : ~Gives(r, id, c)
        BY <4>1 DEF Said, Gives
      <4> QED BY <3>2, <4>2 DEF TellsCell
    <3> QED BY <1>2, <3>1, <3>2 DEF WasSaid
  <2>2. CASE ~c.system /\ c.role # "id_dossier"
    <3>1. ~Gives(q, id, c)
      BY <1>2, <2>2 DEF IsCopied, Gives
    <3> QED BY <2>1, <3>1, StillTold
  <2>3. CASE ~(~c.system /\ c.role # "id_dossier")
    BY <2>1, <2>3 DEF TellsCell
  <2> QED BY <2>2, <2>3
<1> QED BY <1>1, <1>2

\* With each row the merge reads, its table tells the rows taken.
LEMMA RowTold ==
  ASSUME SpelledAsOne, IInv, MappingIsSubmitted, Tallied, Named, Filled, Told, MergeRow,
         merge'.duplicates = 0
  PROVE  Tells(Taken', merge'.rows)
<1> DEFINE q == <<merge.sheet, merge.row>>
           sheet == SheetNamed(mapping.sheets[merge.sheet].name)
           row == sheet.rows[merge.row]
           id == Ident[row.cells[IdColumn(mapping, sheet.name).pos]]
           rows == merge.rows
           new == WithRow(rows, merge.rank + 1, id, row.cells, sheet.name)
<1>1. Content /\ Cursor /\ TableGrows
  BY DEF IInv
<1>2. /\ merge # None /\ DOMAIN merge = MergeFields /\ mapping # None
      /\ sheet.name = mapping.sheets[q[1]].name
      /\ row.cells = RowAt(q[1], q[2]) /\ id = Identifier(q)
  BY CellsTaken, Zenon
<1>3. /\ PassedOver(row) => Taken' = Taken
      /\ ~PassedOver(row) => Taken' = Taken \cup {q}
  BY <1>1, TakenGrows
<1>4. merge.duplicates \in Nat /\ {rows[i].id : i \in DOMAIN rows} = Said(Taken)
  BY <1>2, Restated
<1>5. \/ PassedOver(row) /\ merge'.rows = rows /\ merge'.duplicates = merge.duplicates
      \/ /\ ~PassedOver(row) /\ id = ""
         /\ merge'.rows = rows /\ merge'.duplicates = merge.duplicates
      \/ ~PassedOver(row) /\ id # "" /\ merge'.duplicates = merge.duplicates + 1
      \/ /\ ~PassedOver(row) /\ id # ""
         /\ merge'.rows = new /\ merge'.duplicates = merge.duplicates
  BY <1>2, RowTaken
<1> HIDE DEF q, sheet, row, id, new
<1>6. merge'.duplicates # merge.duplicates + 1
  BY <1>4
<1>7. Tells(Taken, rows)
  BY <1>2, <1>5, <1>6 DEF Told
<1>8. \A c \in Range(Exported(mapping)) : c.name = IdName => ~c.system /\ c.role = "id_dossier"
  BY <1>1, <1>2, ColumnsExported, NamesOfColumns
<1>9. ASSUME NEW i \in DOMAIN rows, rows[i].id # id, NEW c \in Range(Exported(mapping))
      PROVE  TellsCell(Taken \cup {q}, rows[i].id, c, rows[i].values[c.name])
  <2>1. ~Gives(q, rows[i].id, c)
    BY <1>2, <1>9 DEF Gives
  <2>2. TellsCell(Taken, rows[i].id, c, rows[i].values[c.name])
    BY <1>7 DEF Tells
  <2> QED BY <2>1, <2>2, StillTold
<1>10. CASE PassedOver(row) /\ merge'.rows = rows
  BY <1>3, <1>7, <1>10
<1>11. CASE ~PassedOver(row) /\ id = "" /\ merge'.rows = rows
  <2>1. \A i \in DOMAIN rows : rows[i].id # id
    BY <1>4, <1>11 DEF Said
  <2>2. Tells(Taken \cup {q}, rows)
    BY <1>9, <2>1 DEF Tells
  <2> QED BY <1>3, <1>11, <2>2
<1>12. CASE ~PassedOver(row) /\ id # "" /\ merge'.rows = new
  <2>1. /\ rows \in Seq(Range(rows))
        /\ \A i \in DOMAIN rows : DOMAIN rows[i] = {"rank", "id", "values"}
        /\ OneEach(rows)
    BY <1>1, <1>2 DEF TableGrows
  <2>2. \A i \in DOMAIN rows : DOMAIN rows[i].values = ExportedNames
    BY <1>2 DEF Filled
  <2>3. ReadsWorkbook(mapping, workbook) /\ ValidationErrors(mapping) = {}
    BY <1>1, <1>2, ColumnsExported
  <2> HIDE DEF rows
  <2>4. \A i, j \in DOMAIN rows : rows[i].id = rows[j].id => i = j
    <3>1. DOMAIN rows = 1 .. Len(rows) /\ Len(rows) \in Nat
      BY <2>1, LenProperties
    <3> QED BY <2>1, <3>1 DEF OneEach
  <2>5. \A i \in DOMAIN new :
           \/ i \in DOMAIN rows /\ new[i] = rows[i] /\ rows[i].id # id
           \/ /\ new[i].id = id
              /\ new[i].values = [n \in ExportedNames |-> new[i].values[n]]
              /\ \A c \in Range(Exported(mapping)) :
                    /\ IsCopied(c, sheet.name) => new[i].values[c.name] = row.cells[c.pos]
                    /\ ~IsCopied(c, sheet.name) => WasSaid(rows, id, c, new[i].values[c.name])
    BY <2>1, <2>2, <2>3, <2>4, RowValues DEF new
  <2>6. ASSUME NEW i \in DOMAIN new, NEW c \in Range(Exported(mapping))
        PROVE  TellsCell(Taken \cup {q}, new[i].id, c, new[i].values[c.name])
    <3>1. CASE i \in DOMAIN rows /\ new[i] = rows[i] /\ rows[i].id # id
      BY <1>9, <3>1
    <3>2. CASE /\ new[i].id = id
               /\ \A d \in Range(Exported(mapping)) :
                     /\ IsCopied(d, sheet.name) => new[i].values[d.name] = row.cells[d.pos]
                     /\ ~IsCopied(d, sheet.name) => WasSaid(rows, id, d, new[i].values[d.name])
      <4> DEFINE cell == new[i].values[c.name]
      <4>1. /\ IsCopied(c, sheet.name) => cell = RowAt(q[1], q[2])[c.pos]
            /\ ~IsCopied(c, sheet.name) => WasSaid(rows, id, c, cell)
        BY <1>2, <3>2
      <4> HIDE DEF cell
      <4>2. TellsCell(Taken \cup {q}, id, c, cell)
        BY <1>2, <1>4, <1>7, <1>8, <1>12, <4>1, NewlyTold
      <4> QED BY <3>2, <4>2 DEF cell
    <3> QED BY <2>5, <3>1, <3>2
  <2>7. Tells(Taken \cup {q}, new)
    BY <2>6 DEF Tells
  <2> QED BY <1>3, <1>12, <2>7
<1> QED BY <1>5, <1>6, <1>10, <1>11, <1>12

LEMMA ToldStep ==
  ASSUME SpelledAsOne, IInv, MappingIsSubmitted, Tallied, Named, Filled, Told, [Next]_vars
  PROVE  Told'
<1>1. Content /\ Cursor
  BY DEF IInv
<1>2. ASSUME UNCHANGED <<workbook, mapping>>, merge'.duplicates = 0 => Tells(Taken', merge'.rows)
      PROVE  Told'
  <2>1. \A T, rows : Tells(T, rows)' <=> Tells(T, rows)
    BY <1>2, SameTale
  <2> QED BY <1>2, <2>1 DEF Told
<1>3. CASE UNCHANGED <<workbook, mapping, merge>>
  <2>1. Taken' = Taken
    BY <1>3, SameSource DEF Taken
  <2> QED BY <1>3, <2>1, SameTale DEF Told
<1>4. CASE merge' = None
  BY <1>4 DEF Told
<1>5. CASE StartMerge
  <2>1. DOMAIN merge'.rows = {}
    BY <1>5, MergeStarts, EmptySeq
  <2>2. Tells(Taken', merge'.rows)
    BY <2>1 DEF Tells
  <2> QED BY <1>2, <1>5, <2>2, MergeStarts
<1>6. CASE NextSheet
  <2>1. merge # None /\ DOMAIN merge = MergeFields
    BY <1>1, <1>6 DEF NextSheet, Cursor
  <2>2. UNCHANGED <<workbook, mapping>> /\ merge'.rows = merge.rows
        /\ merge'.duplicates = merge.duplicates
    BY <1>6, <2>1, SheetStarts
  <2>3. Taken' = Taken
    BY <1>1, <1>6, SheetTaken
  <2>4. merge.duplicates = 0 => Tells(Taken, merge.rows)
    BY <2>1 DEF Told
  <2>5. merge'.duplicates = 0 => Tells(Taken', merge'.rows)
    BY <2>2, <2>3, <2>4
  <2> QED BY <1>2, <2>2, <2>5
<1>7. CASE MergeRow
  <2>1. UNCHANGED <<workbook, mapping>>
    BY <1>7, Zenon DEF MergeRow
  <2>2. merge'.duplicates = 0 => Tells(Taken', merge'.rows)
    BY <1>7, RowTold
  <2> QED BY <1>2, <2>1, <2>2
<1>8. \/ UNCHANGED <<workbook, mapping, merge>> \/ merge' = None
      \/ StartMerge \/ NextSheet \/ MergeRow
  BY StepsOfALot DEF Carried, Replaced, Diagnose, NoLongerMapped, Remapped, FinishMerge, products
<1> QED BY <1>3, <1>4, <1>5, <1>6, <1>7, <1>8

LEMMA AllToldStep ==
  ASSUME IInv, MappingIsSubmitted, Tallied, Filled, Told, AllTold, [Next]_vars
  PROVE  AllTold'
<1>1. Content /\ Cursor /\ TableGrows
  BY DEF IInv
<1>2. CASE fusion' = None
  BY <1>2 DEF AllTold
<1>3. ASSUME UNCHANGED <<workbook, mapping>>
      PROVE  /\ SourceRows' = SourceRows /\ ExportedNames' = ExportedNames
             /\ Exported(mapping)' = Exported(mapping)
             /\ \A T, rows : Tells(T, rows)' <=> Tells(T, rows)
  BY <1>3, SameSource, SameTale DEF ExportedNames, Exported
<1>4. CASE UNCHANGED <<workbook, mapping, fusion>> /\ fusion # None
  <2>1. SUFFICES ASSUME ~fusion.blocked PROVE \E rows : ToldBy(rows)'
    BY <1>4 DEF AllTold
  <2>2. PICK rows : ToldBy(rows)
    BY <1>4, <2>1 DEF AllTold
  <2>3. MergedAs(rows)'
    BY <1>3, <1>4, <2>2 DEF ToldBy, MergedAs
  <2>4. Tells(SourceRows, rows)'
    BY <1>3, <1>4, <2>2 DEF ToldBy
  <2>5. ToldBy(rows)'
    BY <2>2, <2>3, <2>4 DEF ToldBy
  <2> QED BY <2>5
<1>5. CASE FinishMerge
  <2>1. SUFFICES ASSUME ~fusion'.blocked PROVE \E r : ToldBy(r)'
    BY DEF AllTold
  <2> PICK rows : rows = merge.rows
    OBVIOUS
  <2>2. merge # None /\ UNCHANGED <<workbook, mapping>> /\ (fusion'.blocked <=> merge.duplicates > 0)
    BY <1>1, <1>5, MergeEnds
  <2>3. merge.duplicates = 0
    <3>1. merge.duplicates \in Nat
      BY <2>2 DEF Tallied
    <3>2. ~(merge.duplicates > 0)
      BY <2>1, <2>2
    <3> QED BY <3>1, <3>2
  <2>4. Taken = SourceRows
    BY <1>1, <1>5, AllTaken
  <2>5. Tells(SourceRows, rows) /\ OneEach(rows)
    BY <1>1, <2>2, <2>3, <2>4 DEF Told, TableGrows
  <2>6. IsRows(rows, ExportedNames) /\ fusion'.table = TableOf(Exported(mapping), rows, 0)
    BY <1>5, <2>1, MergedTable
  <2>7. MergedAs(rows)'
    BY <1>3, <2>2, <2>6 DEF MergedAs
  <2>8. Tells(SourceRows, rows)'
    BY <1>3, <2>2, <2>5
  <2>9. ToldBy(rows)'
    BY <2>5, <2>7, <2>8 DEF ToldBy
  <2> QED BY <2>9
<1>6. \/ fusion' = None \/ (UNCHANGED <<workbook, mapping, fusion>> /\ fusion # None)
      \/ FinishMerge
  BY StepsOfALot, Zenon DEF Carried, Replaced, Diagnose, NoLongerMapped, Remapped, StartMerge, NextSheet,
                     MergeRow, products, Content, OneAtATime
<1> QED BY <1>2, <1>4, <1>5, <1>6

-----------------------------------------------------------------------------
(***************************************************************************)
(* What the CSV tells.  Columns are left out twice, of the merged table    *)
(* and of the normalised one: those left are the columns that say          *)
(* something.                                                              *)
(***************************************************************************)

\* f numbers the places of P in their order
Numbers(f, n, P) == /\ f \in [1 .. n -> P]
                    /\ \A j, k \in 1 .. n : j < k => f[j] < f[k]
                    /\ \A i \in P : \E j \in 1 .. n : f[j] = i

\* Places are numbered in one way.
LEMMA NumberedOnce ==
  ASSUME NEW P \in SUBSET Nat, NEW n \in Nat, NEW m \in Nat, NEW f, NEW g,
         Numbers(f, n, P), Numbers(g, m, P)
  PROVE  n = m /\ f = g
<1> DEFINE D == {j \in Nat : j \in 1 .. n /\ j \in 1 .. m /\ f[j] # g[j]}
<1>1. \A j \in 1 .. n : f[j] \in Nat
  BY DEF Numbers
<1>2. \A j \in 1 .. m : g[j] \in Nat
  BY DEF Numbers
<1>3. D = {}
  <2>1. SUFFICES ASSUME D # {} PROVE FALSE
    OBVIOUS
  <2>2. PICK j \in D : \A k \in D : j <= k
    <3>1. D \in SUBSET Nat
      OBVIOUS
    <3> HIDE DEF D
    <3> QED BY <2>1, <3>1, FirstPlace
  <2>3. j \in 1 .. n /\ j \in 1 .. m /\ f[j] # g[j]
    OBVIOUS
  <2>4. \A k \in 1 .. j - 1 : f[k] = g[k]
    BY <2>2
  <2>5. g[j] < f[j]
    <3>1. PICK k \in 1 .. m : g[k] = f[j]
      BY <2>3 DEF Numbers
    <3>2. ~(k < j)
      <4>1. SUFFICES ASSUME k < j PROVE FALSE
        OBVIOUS
      <4>2. f[k] = f[j] /\ f[k] < f[j]
        BY <2>3, <2>4, <3>1, <4>1 DEF Numbers
      <4> QED BY <1>1, <2>3, <4>2
    <3>3. j < k
      BY <2>3, <3>1, <3>2
    <3> QED BY <2>3, <3>1, <3>3 DEF Numbers
  <2>6. f[j] < g[j]
    <3>1. PICK k \in 1 .. n : f[k] = g[j]
      BY <2>3 DEF Numbers
    <3>2. ~(k < j)
      <4>1. SUFFICES ASSUME k < j PROVE FALSE
        OBVIOUS
      <4>2. g[k] = g[j] /\ g[k] < g[j]
        BY <2>3, <2>4, <3>1, <4>1 DEF Numbers
      <4> QED BY <1>2, <2>3, <4>2
    <3>3. j < k
      BY <2>3, <3>1, <3>2
    <3> QED BY <2>3, <3>1, <3>3 DEF Numbers
  <2> QED BY <1>1, <1>2, <2>3, <2>5, <2>6
<1>4. \A j \in Nat : j \in 1 .. n /\ j \in 1 .. m => f[j] = g[j]
  BY <1>3
<1>5. ~(n < m)
  <2>1. SUFFICES ASSUME n < m PROVE FALSE
    OBVIOUS
  <2>2. n + 1 \in 1 .. m
    BY <2>1
  <2>3. PICK k \in 1 .. n : f[k] = g[n + 1]
    BY <2>2 DEF Numbers
  <2>4. f[k] = g[k] /\ g[k] < g[n + 1]
    BY <1>4, <2>1, <2>2 DEF Numbers
  <2> QED BY <1>2, <2>2, <2>3, <2>4
<1>6. ~(m < n)
  <2>1. SUFFICES ASSUME m < n PROVE FALSE
    OBVIOUS
  <2>2. m + 1 \in 1 .. n
    BY <2>1
  <2>3. PICK k \in 1 .. m : g[k] = f[m + 1]
    BY <2>2 DEF Numbers
  <2>4. f[k] = g[k] /\ f[k] < f[m + 1]
    BY <1>4, <2>1, <2>2 DEF Numbers
  <2> QED BY <1>1, <2>2, <2>3, <2>4
<1>7. n = m
  BY <1>5, <1>6
<1>8. \A j \in 1 .. n : f[j] = g[j]
  BY <1>4, <1>7
<1> QED BY <1>7, <1>8 DEF Numbers

\* What is picked, by the numbering of its places.
LEMMA PickedByNumber ==
  ASSUME NEW S, NEW s \in Seq(S), NEW P \in SUBSET (DOMAIN s)
  PROVE  /\ P \in SUBSET Nat /\ Cardinality(P) \in Nat
         /\ Picked(s, P) \in Seq(S) /\ DOMAIN Picked(s, P) = 1 .. Cardinality(P)
         /\ \E f : /\ Numbers(f, Cardinality(P), P)
                   /\ Picked(s, P) = [j \in 1 .. Cardinality(P) |-> s[f[j]]]
<1> DEFINE n == Cardinality(P)
           t == Picked(s, P)
<1>1. t \in Seq(S) /\ n \in Nat /\ Len(t) = n
  BY PickedItems
<1>2. P \in SUBSET Nat
  BY LenProperties
<1>3. PICK f \in [1 .. n -> P] : /\ \A j, k \in 1 .. n : j < k => f[j] < f[k]
                                 /\ \A i \in P : \E j \in 1 .. n : f[j] = i
                                 /\ \A j \in 1 .. n : t[j] = s[f[j]]
  BY PickedItems, ZenonT(60)
<1> HIDE DEF t, n
<1>4. t = [j \in 1 .. n |-> t[j]] /\ DOMAIN t = 1 .. n
  BY <1>1, SeqDef
<1>5. Numbers(f, n, P) /\ t = [j \in 1 .. n |-> s[f[j]]]
  BY <1>3, <1>4 DEF Numbers
<1> QED BY <1>1, <1>2, <1>4, <1>5 DEF t, n

\* Picking twice is picking once what is picked both times.
LEMMA PickedTwice ==
  ASSUME NEW S, NEW s \in Seq(S), \A i, j \in DOMAIN s : s[i] = s[j] => i = j,
         NEW P \in SUBSET (DOMAIN s), NEW Q \in SUBSET (DOMAIN Picked(s, P)),
         NEW R \in SUBSET (DOMAIN s),
         \A i \in DOMAIN s : i \in R <=> i \in P /\ \E j \in Q : Picked(s, P)[j] = s[i]
  PROVE  Picked(Picked(s, P), Q) = Picked(s, R)
<1> DEFINE t == Picked(s, P)
           n == Cardinality(P)
           m == Cardinality(Q)
           l == Cardinality(R)
<1>1. t \in Seq(S) /\ DOMAIN t = 1 .. n /\ n \in Nat /\ P \in SUBSET Nat
  BY PickedByNumber
<1>2. PICK f : Numbers(f, n, P) /\ t = [j \in 1 .. n |-> s[f[j]]]
  BY PickedByNumber
<1> HIDE DEF t
<1>3. m \in Nat /\ Q \in SUBSET (1 .. n)
  BY <1>1, PickedByNumber DEF t
<1>4. PICK g : Numbers(g, m, Q) /\ Picked(t, Q) = [j \in 1 .. m |-> t[g[j]]]
  <2>1. Q \in SUBSET (DOMAIN t)
    BY DEF t
  <2> QED BY <1>1, <2>1, PickedByNumber, SMTT(40)
<1>5. l \in Nat /\ R \in SUBSET Nat
  BY PickedByNumber
<1>6. PICK h : Numbers(h, l, R) /\ Picked(s, R) = [j \in 1 .. l |-> s[h[j]]]
  BY PickedByNumber
<1>7. \A i \in DOMAIN s : i \in R <=> i \in P /\ \E j \in Q : t[j] = s[i]
  BY DEF t
<1> HIDE DEF n, m, l
<1> DEFINE fg == [j \in 1 .. m |-> f[g[j]]]
<1>8. ASSUME NEW j \in 1 .. m
      PROVE  /\ g[j] \in Q /\ g[j] \in 1 .. n /\ f[g[j]] \in P
             /\ t[g[j]] = s[f[g[j]]] /\ f[g[j]] \in R
  <2>1. g[j] \in Q /\ g[j] \in 1 .. n
    BY <1>3, <1>4 DEF Numbers
  <2>2. f[g[j]] \in P /\ t[g[j]] = s[f[g[j]]]
    BY <1>2, <2>1 DEF Numbers
  <2> QED BY <1>7, <2>1, <2>2
<1>9. Numbers(fg, m, R)
  <2>1. fg \in [1 .. m -> R]
    BY <1>8
  <2>2. ASSUME NEW j \in 1 .. m, NEW k \in 1 .. m, j < k PROVE fg[j] < fg[k]
    <3>1. g[j] < g[k]
      BY <1>4, <2>2 DEF Numbers
    <3>2. f[g[j]] < f[g[k]]
      BY <1>2, <1>8, <3>1 DEF Numbers
    <3> QED BY <3>2
  <2>3. ASSUME NEW i \in R PROVE \E j \in 1 .. m : fg[j] = i
    <3>1. PICK k \in Q : t[k] = s[i]
      BY <1>7
    <3>2. f[k] \in DOMAIN s /\ s[f[k]] = s[i]
      BY <1>2, <1>3, <3>1 DEF Numbers
    <3>3. f[k] = i
      BY <3>2
    <3>4. PICK j \in 1 .. m : g[j] = k
      BY <1>4 DEF Numbers
    <3> QED BY <3>3, <3>4
  <2> HIDE DEF fg
  <2> QED BY <2>1, <2>2, <2>3 DEF Numbers
<1>10. m = l /\ fg = h
  <2> HIDE DEF fg
  <2> QED BY <1>3, <1>5, <1>6, <1>9, NumberedOnce
<1>11. \A j \in 1 .. m : t[g[j]] = s[h[j]]
  BY <1>8, <1>10
<1>12. [j \in 1 .. m |-> t[g[j]]] = [j \in 1 .. l |-> s[h[j]]]
  BY <1>10, <1>11
<1> QED BY <1>4, <1>6, <1>12 DEF t

\* Two sheets of a mapping have two names.
LEMMA SheetsAreNamed ==
  ASSUME Content, mapping # None
  PROVE  \A j, k \in DOMAIN mapping.sheets : mapping.sheets[j].name = mapping.sheets[k].name => j = k
<1> DEFINE u == UsefulSheets(DiagnoseWorkbook(workbook))
<1>1. mapping.sheets = [k \in DOMAIN u |-> [name |-> u[k].name, header |-> u[k].header]]
  BY DEF Content, Mapped, Diagnosed, DefaultMapping
<1>2. \A k, l \in DOMAIN u : u[k].name = u[l].name => k = l
  BY SheetsToMap DEF Content
<1> HIDE DEF u
<1> QED BY <1>1, <1>2

\* What is expected of an identifier in a column is what the merged table
\* tells of it, normalised.
LEMMA ExpectedIsTold ==
  ASSUME Content, mapping # None, ~Twice(SourceRows), NEW id, id # "",
         NEW c, ~c.system, c.role # "id_dossier", c.name \notin SpecialNames,
         NEW cell, TellsCell(SourceRows, id, c, cell)
  PROVE  Expected(id, c) = NormalValue(cell, c.role)
<1> DEFINE sources == {r \in SourceRows : Gives(r, id, c)}
           one(s) == CHOOSE x \in s : TRUE
           chosen == one(sources)
           expected == IF sources = {} THEN "" ELSE RowAt(chosen[1], chosen[2])[c.pos]
<1>1. sources = {r \in SourceRows : /\ mapping.sheets[r[1]].name = c.sheet
                                    /\ IdAt(r[1], r[2]) = id}
  BY DEF Gives, Identifier
<1>2. Expected(id, c) = NormalValue(expected, c.role)
  <2>1. c.name # IdName /\ c.name # ImageName /\ c.name # PathName
    BY DEF SpecialNames
  <2> DEFINE src == {r \in SourceRows : /\ mapping.sheets[r[1]].name = c.sheet
                                       /\ IdAt(r[1], r[2]) = id}
             cell0 == IF src = {} THEN ""
                      ELSE LET r == CHOOSE x \in src : TRUE IN RowAt(r[1], r[2])[c.pos]
  <2>2. Expected(id, c) = NormalValue(cell0, c.role)
    <3>1. Expected(id, c) =
             IF c.name = IdName THEN Text[id]
             ELSE IF c.name = ImageName THEN ImageId[Text[id]]
             ELSE IF c.name = PathName THEN PathImg[ImageId[Text[id]]]
             ELSE NormalValue(cell0, c.role)
      BY Zenon DEF Expected
    <3> HIDE DEF cell0
    <3> QED BY <2>1, <3>1
  <2>3. cell0 = expected
    <3>1. cell0 = IF src = {} THEN "" ELSE RowAt(one(src)[1], one(src)[2])[c.pos]
      BY Zenon
    <3> HIDE DEF src, cell0, sources, one
    <3>2. src = sources
      BY <1>1 DEF src
    <3> QED BY <3>1, <3>2
  <2> QED BY <2>2, <2>3, Zenon
<1>3. expected = cell
  <2>1. CASE sources = {}
    BY <2>1 DEF TellsCell
  <2>2. CASE sources # {}
    <3>1. chosen \in sources
      BY <2>2
    <3>2. PICK r \in SourceRows : Gives(r, id, c) /\ cell = RowAt(r[1], r[2])[c.pos]
      BY <2>2 DEF TellsCell
    <3> HIDE DEF chosen
    <3>3. chosen \in SourceRows /\ Gives(chosen, id, c)
      BY <3>1
    <3>4. r[1] \in DOMAIN mapping.sheets /\ chosen[1] \in DOMAIN mapping.sheets
      BY <3>2, <3>3, RowsToMerge, MergeReads
    <3>5. r[1] = chosen[1]
      BY <3>2, <3>3, <3>4, SheetsAreNamed DEF Gives
    <3>6. r = chosen
      BY <3>2, <3>3, <3>5 DEF Twice, Gives
    <3> QED BY <2>2, <3>2, <3>6
  <2> QED BY <2>1, <2>2
<1> QED BY <1>2, <1>3

\* The identifiers of the rows to merge are cells, as they are written.
LEMMA IdentifiersAreCells ==
  ASSUME Content, MappingIsSubmitted, mapping # None, NEW id \in Said(SourceRows)
  PROVE  id \in Cells /\ Ident[id] = id /\ id # ""
<1>1. PICK r \in SourceRows : id = Identifier(r) /\ id # ""
  BY DEF Said
<1>2. /\ r[1] \in DOMAIN mapping.sheets
      /\ r[2] \in 1 .. Len(SheetNamed(mapping.sheets[r[1]].name).rows)
  BY RowsToMerge, MergeReads
<1>3. r[2] \in DOMAIN SheetNamed(mapping.sheets[r[1]].name).rows
  <2> DEFINE sheet == SheetNamed(mapping.sheets[r[1]].name)
  <2>1. sheet \in {workbook[j] : j \in DOMAIN workbook}
    BY <1>2, MergeReads
  <2>2. sheet.rows \in Seq(Row)
    BY <2>1, SheetsOfAWorkbook DEF Content, IsSheet
  <2> HIDE DEF sheet
  <2>3. DOMAIN sheet.rows = 1 .. Len(sheet.rows)
    BY <2>2, LenProperties
  <2> QED BY <1>2, <2>3 DEF sheet
<1>4. IdAt(r[1], r[2]) \in Cells /\ Ident[IdAt(r[1], r[2])] = IdAt(r[1], r[2])
  BY <1>2, <1>3, CellsAreRead
<1> QED BY <1>1, <1>4 DEF Identifier

\* The merged table is made of these rows.
LEMMA MergedTableOf ==
  ASSUME Content, MappingIsSubmitted, fusion # None, NEW rows, ToldBy(rows)
  PROVE  LET t == fusion.table
             ex == Exported(mapping)
         IN /\ mapping # None /\ IsColumns(ex) /\ IsTable(t)
            /\ t.columns = KeptColumns(ex, rows)
            /\ t.removed = Len(ex) - Len(t.columns)
            /\ DOMAIN t.rows = DOMAIN rows
            /\ \A i \in DOMAIN rows :
                  /\ t.rows[i].rank = rows[i].rank /\ t.rows[i].id = rows[i].id
                  /\ \A c \in Range(t.columns) : t.rows[i].values[c.name] = rows[i].values[c.name]
<1> DEFINE ex == Exported(mapping)
           t == TableOf(ex, rows, 0)
<1>1. mapping # None
  BY DEF Content, OneAtATime
<1>2. IsColumns(ex)
  BY <1>1, ColumnsExported
<1>3. IsRows(rows, ColumnNames(ex)) /\ fusion.table = t
  BY DEF ToldBy, MergedAs, ExportedNames
<1> HIDE DEF ex
<1>4. /\ IsTable(t)
      /\ t.columns = KeptColumns(ex, rows)
      /\ t.removed = 0 + Len(ex) - Len(t.columns)
      /\ DOMAIN t.rows = DOMAIN rows
      /\ \A i \in DOMAIN rows :
            /\ t.rows[i].rank = rows[i].rank /\ t.rows[i].id = rows[i].id
            /\ \A n \in ColumnNames(t.columns) : t.rows[i].values[n] = rows[i].values[n]
  BY <1>2, <1>3, TableKept
<1>5. Len(ex) \in Nat /\ Len(t.columns) \in Nat
  <2> HIDE DEF t
  <2> QED BY <1>2, <1>4, LenProperties DEF IsColumns, IsTable
<1> HIDE DEF t
<1>6. t.removed = Len(ex) - Len(t.columns)
  BY <1>4, <1>5
<1>7. \A c \in Range(t.columns) : c.name \in ColumnNames(t.columns)
  BY DEF ColumnNames
<1> QED BY <1>1, <1>2, <1>3, <1>4, <1>6, <1>7 DEF ex

\* What these rows say: their identifiers, and under the other columns what
\* is expected of them.
LEMMA MergedTells ==
  ASSUME Content, MappingIsSubmitted, EveryRowIsAccountedFor, fusion # None, ~fusion.blocked,
         NEW rows, ToldBy(rows)
  PROVE  /\ {rows[i].id : i \in DOMAIN rows} = Identifiers
         /\ \A i \in DOMAIN rows :
               /\ rows[i].id \in Cells /\ Ident[rows[i].id] = rows[i].id /\ rows[i].id # ""
               /\ \A c \in Range(Exported(mapping)) :
                     /\ c.name = IdName => c.role = "id_dossier" /\ rows[i].values[c.name] = rows[i].id
                     /\ c.role = "id_dossier" /\ c.name \notin SpecialNames => rows[i].values[c.name] = ""
                     /\ c.role # "id_dossier" /\ c.name \notin SpecialNames
                          => Expected(rows[i].id, c) = NormalValue(rows[i].values[c.name], c.role)
<1> DEFINE ex == Exported(mapping)
<1>1. /\ mapping # None
      /\ DOMAIN fusion.table.rows = DOMAIN rows
      /\ \A i \in DOMAIN rows : fusion.table.rows[i].id = rows[i].id
  BY MergedTableOf
<1>2. /\ ~Twice(SourceRows)
      /\ {fusion.table.rows[i].id : i \in DOMAIN fusion.table.rows} = Said(SourceRows)
  BY AccountRestated
<1>3. Identifiers = Said(SourceRows)
  BY DEF Identifiers, Said, Identifier
<1>4. {rows[i].id : i \in DOMAIN rows} = Said(SourceRows)
  BY <1>1, <1>2
<1>5. ReadsWorkbook(mapping, workbook) /\ \A c \in Range(ex) : c \in Range(mapping.columns)
  BY <1>1, ColumnsExported
<1> HIDE DEF ex
<1>6. ASSUME NEW i \in DOMAIN rows, NEW c \in Range(ex)
      PROVE  /\ c.name = IdName => c.role = "id_dossier" /\ rows[i].values[c.name] = rows[i].id
             /\ c.role = "id_dossier" /\ c.name \notin SpecialNames => rows[i].values[c.name] = ""
             /\ c.role # "id_dossier" /\ c.name \notin SpecialNames
                  => Expected(rows[i].id, c) = NormalValue(rows[i].values[c.name], c.role)
  <2> DEFINE id == rows[i].id
             cell == rows[i].values[c.name]
  <2>1. /\ c.name = IdName => ~c.system /\ c.role = "id_dossier"
        /\ c.name \in {ImageName, PathName} <=> c.system
    BY <1>5, NamesOfColumns
  <2>2. TellsCell(SourceRows, id, c, cell)
    BY DEF ToldBy, Tells, ex
  <2>3. id # ""
    BY <1>4 DEF Said
  <2> HIDE DEF id, cell
  <2>4. c.name = IdName => cell = id
    BY <2>1, <2>2 DEF TellsCell
  <2>5. c.role = "id_dossier" /\ c.name \notin SpecialNames => cell = ""
    BY <2>2 DEF TellsCell, SpecialNames
  <2>6. ASSUME c.role # "id_dossier", c.name \notin SpecialNames
        PROVE  Expected(id, c) = NormalValue(cell, c.role)
    <3>1. ~c.system
      BY <2>1, <2>6 DEF SpecialNames
    <3> QED BY <1>1, <1>2, <2>2, <2>3, <2>6, <3>1, ExpectedIsTold
  <2> QED BY <2>1, <2>4, <2>5, <2>6 DEF id, cell
<1>7. \A i \in DOMAIN rows : rows[i].id \in Said(SourceRows)
  BY <1>4
<1>8. \A i \in DOMAIN rows : rows[i].id \in Cells /\ Ident[rows[i].id] = rows[i].id /\ rows[i].id # ""
  BY <1>1, <1>7, IdentifiersAreCells
<1> QED BY <1>3, <1>4, <1>6, <1>8 DEF ex

\* What the normalised rows say of the merged ones.
LEMMA NormalRowsSay ==
  ASSUME NEW from, IsTable(from)
  PROVE  /\ DOMAIN NormalRows(from) = DOMAIN from.rows
         /\ \A i \in DOMAIN from.rows : \A c \in Range(from.columns) :
               NormalRows(from)[i].values[c.name] = NormalValue(from.rows[i].values[c.name], c.role)
<1> DEFINE rows == NormalRows(from)
           v(i) == NormalValues(from.rows[i].values, from.columns)
<1>1. /\ DOMAIN rows = DOMAIN from.rows
      /\ \A i \in DOMAIN from.rows : rows[i] = [from.rows[i] EXCEPT !.values = v(i), !.id = v(i)[IdName]]
  BY DEF NormalRows
<1>2. \A i \in DOMAIN from.rows : DOMAIN from.rows[i] = {"rank", "id", "values"}
  BY DEF IsTable, IsRows
<1>3. \A i, c : c.name \in ColumnNames(from.columns) =>
         v(i)[c.name] = NormalValue(from.rows[i].values[c.name], RolesIn(from.columns)[c.name])
  BY DEF NormalValues
<1> HIDE DEF rows, v
<1>4. \A i \in DOMAIN from.rows : rows[i].values = v(i)
  BY <1>1, <1>2
<1>5. \A c \in Range(from.columns) :
         c.name \in ColumnNames(from.columns) /\ RolesIn(from.columns)[c.name] = c.role
  BY RoleOfAColumn DEF IsTable
<1>6. \A i \in DOMAIN from.rows : \A c \in Range(from.columns) :
         rows[i].values[c.name] = NormalValue(from.rows[i].values[c.name], c.role)
  BY <1>3, <1>4, <1>5
<1> QED BY <1>1, <1>6 DEF rows

\* a column that says something of an identifier
Says(c) == \/ c.name \in SpecialNames
           \/ /\ c.role # "id_dossier"
              /\ \E id \in Identifiers : Expected(id, c) # ""

SayingPlaces == {j \in DOMAIN Exported(mapping) : Says(Exported(mapping)[j])}

\* Nothing is left of an empty cell.
LEMMA NothingIsNormal ==
  \A role : NormalValue("", role) = ""
BY CellAssumption DEF Conversions, NormalValue

\* The columns left after the two passes are those that say something, and the
\* others are counted.
LEMMA ColumnsThatSay ==
  ASSUME Content, MappingIsSubmitted, EveryRowIsAccountedFor, fusion # None, ~fusion.blocked,
         NEW rows, ToldBy(rows), normal # None, normal.table = NormalTable(fusion.table)
  PROVE  /\ normal.table.columns = Picked(Exported(mapping), SayingPlaces)
         /\ normal.table.removed = Len(Exported(mapping)) - Len(normal.table.columns)
<1> DEFINE from == fusion.table
           ex == Exported(mapping)
           P == StayingPlaces(ex, rows)
           t == Picked(ex, P)
           Q == StayingPlaces(t, NormalRows(from))
           R == {j \in DOMAIN ex : Says(ex[j])}
<1>1. /\ IsColumns(ex) /\ IsTable(from)
      /\ from.columns = KeptColumns(ex, rows)
      /\ from.removed = Len(ex) - Len(from.columns)
      /\ DOMAIN from.rows = DOMAIN rows
      /\ \A i \in DOMAIN rows :
            /\ from.rows[i].rank = rows[i].rank /\ from.rows[i].id = rows[i].id
            /\ \A c \in Range(from.columns) : from.rows[i].values[c.name] = rows[i].values[c.name]
  BY MergedTableOf
<1>2. /\ {rows[i].id : i \in DOMAIN rows} = Identifiers
      /\ \A i \in DOMAIN rows : \A c \in Range(ex) :
            /\ c.role = "id_dossier" /\ c.name \notin SpecialNames => rows[i].values[c.name] = ""
            /\ c.role # "id_dossier" /\ c.name \notin SpecialNames
                  => Expected(rows[i].id, c) = NormalValue(rows[i].values[c.name], c.role)
  BY MergedTells
<1>3. from.columns = t
  BY <1>1 DEF KeptColumns, StayingPlaces
<1>4. /\ normal.table.columns = KeptColumns(from.columns, NormalRows(from))
      /\ normal.table.removed = from.removed + Len(from.columns) - Len(normal.table.columns)
      /\ IsTable(normal.table)
  BY <1>1, NormalTableKept
<1>5. normal.table.columns = Picked(t, Q)
  BY <1>3, <1>4, Zenon DEF KeptColumns, StayingPlaces
<1>6. DOMAIN NormalRows(from) = DOMAIN rows
      /\ \A i \in DOMAIN rows : \A c \in Range(t) :
            NormalRows(from)[i].values[c.name] = NormalValue(rows[i].values[c.name], c.role)
  <2>1. /\ DOMAIN NormalRows(from) = DOMAIN from.rows
        /\ \A i \in DOMAIN from.rows : \A c \in Range(from.columns) :
              NormalRows(from)[i].values[c.name] = NormalValue(from.rows[i].values[c.name], c.role)
    BY <1>1, NormalRowsSay
  <2> HIDE DEF from, t
  <2> QED BY <1>1, <1>3, <2>1
<1>7. ex \in Seq(Range(ex)) /\ \A i, j \in DOMAIN ex : ex[i] = ex[j] => i = j
  BY <1>1 DEF IsColumns
<1>8. P \in SUBSET (DOMAIN ex) /\ R \in SUBSET (DOMAIN ex) /\ Q \in SUBSET (DOMAIN t)
  BY DEF StayingPlaces
<1>9. /\ \A i \in DOMAIN ex : i \in P <=> \/ ex[i].name \in SpecialNames
                                          \/ \E k \in DOMAIN rows : rows[k].values[ex[i].name] # ""
      /\ \A i \in DOMAIN ex : i \in R <=> Says(ex[i])
      /\ \A j \in DOMAIN t :
            j \in Q <=> \/ t[j].name \in SpecialNames
                        \/ \E k \in DOMAIN rows : NormalRows(from)[k].values[t[j].name] # ""
  BY <1>6, Zenon DEF StayingPlaces
<1>10. \A i \in P : \E j \in DOMAIN t : t[j] = ex[i]
  <2>1. PICK f : /\ Numbers(f, Cardinality(P), P)
                 /\ t = [j \in 1 .. Cardinality(P) |-> ex[f[j]]]
    <3> HIDE DEF P, ex
    <3> QED BY <1>7, <1>8, PickedByNumber
  <2> HIDE DEF t, P, ex
  <2> QED BY <2>1 DEF Numbers
<1> HIDE DEF P, Q, R, t, ex, from
<1>11. ASSUME NEW i \in R PROVE i \in P /\ \E j \in Q : t[j] = ex[i]
  <2> DEFINE c == ex[i]
  <2>1. i \in DOMAIN ex /\ c \in Range(ex) /\ Says(c)
    BY <1>8, <1>9 DEF Range
  <2>2. CASE c.name \in SpecialNames
    <3>1. i \in P
      BY <1>9, <2>1, <2>2
    <3>2. PICK j \in DOMAIN t : t[j] = c
      BY <1>10, <3>1
    <3> QED BY <1>9, <2>2, <3>1, <3>2
  <2>3. CASE c.name \notin SpecialNames
    <3>1. PICK id \in Identifiers : c.role # "id_dossier" /\ Expected(id, c) # ""
      BY <2>1, <2>3 DEF Says
    <3>2. PICK k \in DOMAIN rows : rows[k].id = id
      BY <1>2
    <3>3. NormalValue(rows[k].values[c.name], c.role) # ""
      BY <1>2, <2>1, <2>3, <3>1, <3>2
    <3>4. rows[k].values[c.name] # ""
      BY <3>3, NothingIsNormal
    <3>5. i \in P
      BY <1>9, <2>1, <3>4
    <3>6. PICK j \in DOMAIN t : t[j] = c
      BY <1>10, <3>5
    <3>7. NormalRows(from)[k].values[c.name] # ""
      <4>1. c \in Range(t)
        BY <3>6 DEF Range
      <4> QED BY <1>6, <3>3, <4>1
    <3>8. j \in Q
      BY <1>9, <3>6, <3>7
    <3> QED BY <3>5, <3>6, <3>8
  <2> QED BY <2>2, <2>3
<1>12. ASSUME NEW i \in DOMAIN ex, NEW j \in Q, t[j] = ex[i] PROVE i \in R
  <2> DEFINE c == ex[i]
  <2>1. j \in DOMAIN t /\ c \in Range(t) /\ c \in Range(ex)
    BY <1>8, <1>12 DEF Range
  <2>2. CASE c.name \in SpecialNames
    BY <1>9, <2>2 DEF Says
  <2>3. CASE c.name \notin SpecialNames
    <3>1. PICK k \in DOMAIN rows : NormalRows(from)[k].values[c.name] # ""
      BY <1>9, <1>12, <2>1, <2>3
    <3>2. NormalValue(rows[k].values[c.name], c.role) # ""
      BY <1>6, <2>1, <3>1
    <3>3. rows[k].values[c.name] # ""
      BY <3>2, NothingIsNormal
    <3>4. c.role # "id_dossier"
      BY <1>2, <2>1, <2>3, <3>3
    <3>5. Expected(rows[k].id, c) # "" /\ rows[k].id \in Identifiers
      BY <1>2, <2>1, <2>3, <3>2, <3>4
    <3> QED BY <1>9, <3>4, <3>5 DEF Says
  <2> QED BY <2>2, <2>3
<1>13. Picked(t, Q) = Picked(ex, R)
  <2>1. \A i \in DOMAIN ex : i \in R <=> i \in P /\ \E j \in Q : t[j] = ex[i]
    BY <1>8, <1>11, <1>12
  <2> QED BY <1>7, <1>8, <2>1, PickedTwice DEF t
<1>14. normal.table.removed = Len(ex) - Len(normal.table.columns)
  <2>1. Len(ex) \in Nat /\ Len(from.columns) \in Nat /\ Len(normal.table.columns) \in Nat
    BY <1>1, <1>4, LenProperties DEF IsTable, IsColumns
  <2> QED BY <1>1, <1>4, <2>1 DEF from
<1> QED BY <1>5, <1>13, <1>14 DEF R, ex, SayingPlaces

\* the identifier of a row of the CSV, by its rank in the merged table
IdOf(i) == (CHOOSE r \in Range(fusion.table.rows) : r.rank = sort.rows[i].rank).id

\* The sorted rows are those of the normalised table, each once.
LEMMA RowsSorted ==
  ASSUME normal # None, IsTable(normal.table), Sorted, sort # None
  PROVE  /\ \E n \in Nat : DOMAIN sort.rows = 1 .. n
         /\ \A i \in DOMAIN sort.rows : \E k \in DOMAIN normal.table.rows : sort.rows[i] = normal.table.rows[k]
         /\ \A k \in DOMAIN normal.table.rows : \E i \in DOMAIN sort.rows : sort.rows[i] = normal.table.rows[k]
         /\ \A i, j \in DOMAIN sort.rows : sort.rows[i] = sort.rows[j] => i = j
<1> DEFINE rows == Range(normal.table.rows)
           d == sort.decision
<1>1. /\ d \in Decisions /\ (d = "tri_region_departement" => Detection = "detected")
      /\ sort.rows = Ordered(rows, d)
  BY DEF Sorted
<1>2. Sortable(rows, d)
  BY <1>1, TableIsSortable
<1> HIDE DEF rows, d
<1>3. /\ Cardinality(rows) \in Nat /\ DOMAIN sort.rows = 1 .. Cardinality(rows)
      /\ \A i \in DOMAIN sort.rows : sort.rows[i] \in rows
      /\ \A r \in rows : \E i \in DOMAIN sort.rows : sort.rows[i] = r
      /\ \A i, j \in DOMAIN sort.rows : sort.rows[i] = sort.rows[j] => i = j
  BY <1>1, <1>2, RowsInOrder
<1>4. /\ \A r \in rows : \E k \in DOMAIN normal.table.rows : r = normal.table.rows[k]
      /\ \A k \in DOMAIN normal.table.rows : normal.table.rows[k] \in rows
  BY DEF rows, Range
<1> QED BY <1>3, <1>4

\* A row of the CSV is that of one of the merged rows, and the rank gives its
\* identifier.
LEMMA RowOfTheCsv ==
  ASSUME Content, MappingIsSubmitted, fusion # None, NEW rows, ToldBy(rows),
         normal # None, normal.table = NormalTable(fusion.table), Sorted, sort # None
  PROVE  /\ \A i \in DOMAIN sort.rows :
               \E k \in DOMAIN rows : sort.rows[i] = normal.table.rows[k] /\ IdOf(i) = rows[k].id
         /\ \A k \in DOMAIN rows :
               \E i \in DOMAIN sort.rows : sort.rows[i] = normal.table.rows[k] /\ IdOf(i) = rows[k].id
<1> DEFINE from == fusion.table
           table == normal.table
<1>1. /\ IsTable(from) /\ DOMAIN from.rows = DOMAIN rows
      /\ \A i \in DOMAIN rows : from.rows[i].rank = rows[i].rank /\ from.rows[i].id = rows[i].id
  BY MergedTableOf
<1>2. /\ IsTable(table) /\ DOMAIN table.rows = DOMAIN from.rows
      /\ \A i \in DOMAIN table.rows : table.rows[i].rank = from.rows[i].rank
  <2> DEFINE n == NormalTable(from)
  <2>1. /\ IsTable(n) /\ DOMAIN n.rows = DOMAIN from.rows
        /\ \A i \in DOMAIN n.rows : n.rows[i].rank = from.rows[i].rank
    BY <1>1, NormalTableKept
  <2>2. table = n
    OBVIOUS
  <2> HIDE DEF n, table
  <2> QED BY <2>1, <2>2
<1>3. \A j, k \in DOMAIN rows : from.rows[j].rank = from.rows[k].rank => j = k
  <2>1. /\ \E n \in Nat : DOMAIN rows = 1 .. n
        /\ \A k \in DOMAIN rows : from.rows[k].rank \in Nat
        /\ \A j, k \in DOMAIN rows : j < k => from.rows[j].rank < from.rows[k].rank
    BY <1>1 DEF IsTable, IsRows
  <2> HIDE DEF from
  <2>2. ASSUME NEW j \in DOMAIN rows, NEW k \in DOMAIN rows, from.rows[j].rank = from.rows[k].rank
        PROVE  j = k
    <3>1. j \in Int /\ k \in Int /\ from.rows[j].rank \in Int /\ from.rows[k].rank \in Int
      BY <2>1
    <3>2. ~(from.rows[j].rank < from.rows[k].rank) /\ ~(from.rows[k].rank < from.rows[j].rank)
      BY <2>2, <3>1
    <3>3. ~(j < k) /\ ~(k < j)
      BY <2>1, <3>2
    <3> QED BY <3>1, <3>3
  <2> QED BY <2>2
<1>4. ASSUME NEW i \in DOMAIN sort.rows, NEW k \in DOMAIN rows, sort.rows[i] = table.rows[k]
      PROVE  IdOf(i) = rows[k].id
  <2> DEFINE r == CHOOSE x \in Range(from.rows) : x.rank = sort.rows[i].rank
  <2>1. from.rows[k] \in Range(from.rows) /\ from.rows[k].rank = sort.rows[i].rank
    BY <1>1, <1>2, <1>4 DEF Range
  <2>2. r \in Range(from.rows) /\ r.rank = sort.rows[i].rank
    BY <2>1
  <2>3. IdOf(i) = r.id
    BY DEF IdOf
  <2> HIDE DEF r
  <2>4. PICK l \in DOMAIN rows : r = from.rows[l]
    BY <1>1, <2>2 DEF Range
  <2>5. l = k
    BY <1>3, <2>1, <2>2, <2>4
  <2> QED BY <1>1, <2>3, <2>4, <2>5
<1>5. /\ \A i \in DOMAIN sort.rows : \E k \in DOMAIN rows : sort.rows[i] = table.rows[k]
      /\ \A k \in DOMAIN rows : \E i \in DOMAIN sort.rows : sort.rows[i] = table.rows[k]
  BY <1>1, <1>2, RowsSorted
<1> QED BY <1>4, <1>5

\* There is a row for each identifier.
LEMMA RowForEach ==
  ASSUME Content, MappingIsSubmitted, EveryRowIsAccountedFor, fusion # None, ~fusion.blocked,
         NEW rows, ToldBy(rows),
         normal # None, normal.table = NormalTable(fusion.table), Sorted, sort # None
  PROVE  /\ {IdOf(i) : i \in DOMAIN sort.rows} = Identifiers
         /\ Cardinality(Identifiers) \in Nat /\ DOMAIN sort.rows = 1 .. Cardinality(Identifiers)
<1>1. {rows[k].id : k \in DOMAIN rows} = Identifiers
  BY MergedTells
<1>2. /\ \A i \in DOMAIN sort.rows :
            \E k \in DOMAIN rows : sort.rows[i] = normal.table.rows[k] /\ IdOf(i) = rows[k].id
      /\ \A k \in DOMAIN rows :
            \E i \in DOMAIN sort.rows : sort.rows[i] = normal.table.rows[k] /\ IdOf(i) = rows[k].id
  BY RowOfTheCsv
<1>3. {IdOf(i) : i \in DOMAIN sort.rows} = Identifiers
  BY <1>1, <1>2
<1>4. /\ \E n \in Nat : DOMAIN sort.rows = 1 .. n
      /\ \A i, j \in DOMAIN sort.rows : sort.rows[i] = sort.rows[j] => i = j
  <2>1. IsTable(fusion.table)
    BY MergedTableOf
  <2>2. IsTable(normal.table)
    BY <2>1, NormalTableKept
  <2> QED BY <2>2, RowsSorted
<1>5. PICK n \in Nat : DOMAIN sort.rows = 1 .. n
  BY <1>4
<1>6. ASSUME NEW i \in 1 .. n, NEW j \in 1 .. n, IdOf(i) = IdOf(j) PROVE i = j
  <2>1. PICK k \in DOMAIN rows : sort.rows[i] = normal.table.rows[k] /\ IdOf(i) = rows[k].id
    BY <1>2, <1>5
  <2>2. PICK l \in DOMAIN rows : sort.rows[j] = normal.table.rows[l] /\ IdOf(j) = rows[l].id
    BY <1>2, <1>5
  <2>3. k = l
    <3>1. k \in Int /\ l \in Int
      BY DEF ToldBy, MergedAs, IsRows
    <3>2. ~(k < l) /\ ~(l < k)
      BY <1>6, <2>1, <2>2 DEF ToldBy, OneEach
    <3> QED BY <3>1, <3>2
  <2> QED BY <1>4, <1>5, <2>1, <2>2, <2>3
<1> DEFINE f == [i \in 1 .. n |-> IdOf(i)]
<1>7. f \in Bijection(1 .. n, Identifiers)
  <2>1. \A id \in Identifiers : \E i \in 1 .. n : IdOf(i) = id
    BY <1>3, <1>5
  <2>2. \A i \in 1 .. n : IdOf(i) \in Identifiers
    BY <1>3, <1>5
  <2>3. f \in [1 .. n -> Identifiers]
    BY <2>2
  <2>4. \A i, j \in 1 .. n : f[i] = f[j] => i = j
    BY <1>6
  <2>5. \A id \in Identifiers : \E i \in 1 .. n : f[i] = id
    BY <2>1
  <2> HIDE DEF f
  <2> QED BY <2>3, <2>4, <2>5 DEF Bijection, Injection, Surjection, IsInjective
<1>8. Cardinality(Identifiers) = n
  <2> HIDE DEF f
  <2>1. IsFiniteSet(1 .. n) /\ Cardinality(1 .. n) = n
    <3>1. /\ IsFiniteSet(1 .. n)
          /\ Cardinality(1 .. n) = IF 1 > n THEN 0 ELSE n - 1 + 1
      BY FS_Interval
    <3> QED BY <3>1
  <2> QED BY <1>7, <2>1, FS_Bijection DEF ExistsBijection
<1> QED BY <1>3, <1>5, <1>8

\* What is expected under the three special columns.
LEMMA SpecialExpected ==
  ASSUME NEW id, NEW c
  PROVE  /\ c.name = IdName => Expected(id, c) = Text[id]
         /\ c.name = ImageName => Expected(id, c) = ImageId[Text[id]]
         /\ c.name = PathName => Expected(id, c) = PathImg[ImageId[Text[id]]]
<1> DEFINE src == {r \in SourceRows : /\ mapping.sheets[r[1]].name = c.sheet
                                     /\ IdAt(r[1], r[2]) = id}
           cell == IF src = {} THEN ""
                   ELSE LET r == CHOOSE x \in src : TRUE IN RowAt(r[1], r[2])[c.pos]
<1>1. Expected(id, c) =
         IF c.name = IdName THEN Text[id]
         ELSE IF c.name = ImageName THEN ImageId[Text[id]]
         ELSE IF c.name = PathName THEN PathImg[ImageId[Text[id]]]
         ELSE NormalValue(cell, c.role)
  BY Zenon DEF Expected
<1> HIDE DEF cell
<1>2. IdName # ImageName /\ IdName # PathName /\ ImageName # PathName
  BY DEF IdName, ImageName, PathName
<1> QED BY <1>1, <1>2

\* A normalised identifier still says something.
LEMMA IdentifierNormalised ==
  ASSUME NEW id \in Cells, Ident[id] = id, id # ""
  PROVE  NormalValue(id, "id_dossier") = Text[id] /\ Text[id] # ""
<1>1. Text[Ident[id]] # ""
  BY TableAssumption
<1> QED BY <1>1 DEF NormalValue, SensitiveRoles

\* What a row of the normalised table has, by its place among the merged ones.
LEMMA NormalRow ==
  ASSUME Content, MappingIsSubmitted, EveryRowIsAccountedFor, fusion # None, ~fusion.blocked,
         NEW rows, ToldBy(rows), normal # None, normal.table = NormalTable(fusion.table),
         NEW k \in DOMAIN rows
  PROVE  LET r == normal.table.rows[k]
             id == rows[k].id
         IN /\ DOMAIN r = {"rank", "id", "values"} /\ DOMAIN r.values = ColumnNames(normal.table.columns)
            /\ r.id = Text[id] /\ r.id # "" /\ r.values[IdName] = Text[id]
            /\ \A c \in Range(normal.table.columns) :
                  /\ c \in Range(Exported(mapping))
                  /\ c.name \notin SpecialNames => r.values[c.name] = Expected(id, c)
<1> DEFINE from == fusion.table
           table == normal.table
           ex == Exported(mapping)
           id == rows[k].id
           r == table.rows[k]
<1>1. /\ IsColumns(ex) /\ IsTable(from) /\ from.columns = KeptColumns(ex, rows)
      /\ DOMAIN from.rows = DOMAIN rows
      /\ \A i \in DOMAIN rows :
            /\ from.rows[i].rank = rows[i].rank /\ from.rows[i].id = rows[i].id
            /\ \A c \in Range(from.columns) : from.rows[i].values[c.name] = rows[i].values[c.name]
  BY MergedTableOf
<1>2. /\ rows[k].id \in Cells /\ Ident[rows[k].id] = rows[k].id /\ rows[k].id # ""
      /\ \A c \in Range(ex) :
            /\ c.name = IdName => c.role = "id_dossier" /\ rows[k].values[c.name] = rows[k].id
            /\ c.role # "id_dossier" /\ c.name \notin SpecialNames
                 => Expected(rows[k].id, c) = NormalValue(rows[k].values[c.name], c.role)
  BY MergedTells
<1>3. /\ IsTable(table) /\ table.columns = KeptColumns(from.columns, NormalRows(from))
      /\ DOMAIN table.rows = DOMAIN from.rows
      /\ \A i \in DOMAIN table.rows :
            /\ table.rows[i].id = table.rows[i].values[IdName]
            /\ \A c \in Range(table.columns) :
                  table.rows[i].values[c.name] = NormalValue(from.rows[i].values[c.name], c.role)
  <2> DEFINE n == NormalTable(from)
  <2>1. /\ IsTable(n) /\ n.columns = KeptColumns(from.columns, NormalRows(from))
        /\ DOMAIN n.rows = DOMAIN from.rows
        /\ \A i \in DOMAIN n.rows :
              /\ n.rows[i].rank = from.rows[i].rank
              /\ n.rows[i].id = n.rows[i].values[IdName]
              /\ \A c \in Range(n.columns) :
                    n.rows[i].values[c.name] = NormalValue(from.rows[i].values[c.name], c.role)
    BY <1>1, NormalTableKept
  <2>2. table = n
    OBVIOUS
  <2> HIDE DEF n, table
  <2> QED BY <2>1, <2>2
<1>4. table.columns = Picked(ex, SayingPlaces)
  BY ColumnsThatSay
<1> HIDE DEF from, table, ex
<1>5. \A c \in Range(table.columns) : c \in Range(from.columns) /\ c \in Range(ex)
  <2>1. IsColumns(from.columns)
    BY <1>1 DEF IsTable
  <2>2. \A c \in Range(table.columns) : c \in Range(from.columns)
    BY <1>3, <2>1, ColumnsKept
  <2>3. \A c \in Range(from.columns) : c \in Range(ex)
    BY <1>1, ColumnsKept
  <2> QED BY <2>2, <2>3
<1>6. \A c \in Range(table.columns) : Says(c)
  <2>1. ex \in Seq(Range(ex)) /\ SayingPlaces \in SUBSET (DOMAIN ex)
    BY <1>1 DEF IsColumns, SayingPlaces, ex
  <2>2. PICK f : /\ Numbers(f, Cardinality(SayingPlaces), SayingPlaces)
                 /\ Picked(ex, SayingPlaces) = [j \in 1 .. Cardinality(SayingPlaces) |-> ex[f[j]]]
    BY <2>1, PickedByNumber
  <2>3. \A i \in SayingPlaces : Says(ex[i])
    BY DEF SayingPlaces, ex
  <2>4. \A j \in 1 .. Cardinality(SayingPlaces) : f[j] \in SayingPlaces
    BY <2>2 DEF Numbers
  <2> QED BY <1>4, <2>2, <2>3, <2>4 DEF Range
<1>7. \A c \in Range(table.columns) : r.values[c.name] = NormalValue(rows[k].values[c.name], c.role)
  BY <1>1, <1>3, <1>5
<1>8. r.values[IdName] = Text[id] /\ r.id = Text[id] /\ Text[id] # ""
  <2>1. PICK c \in Range(table.columns) : c.name = IdName
    BY <1>3 DEF IsTable, IsColumns, ColumnNames
  <2>2. c.role = "id_dossier" /\ rows[k].values[c.name] = rows[k].id
    BY <1>2, <1>5, <2>1
  <2>3. NormalValue(rows[k].id, "id_dossier") = Text[rows[k].id] /\ Text[rows[k].id] # ""
    BY <1>2, IdentifierNormalised
  <2>4. r.values[IdName] = Text[id]
    BY <1>7, <2>1, <2>2, <2>3
  <2>5. r.id = r.values[IdName]
    BY <1>1, <1>3
  <2> QED BY <2>3, <2>4, <2>5
<1>9. ASSUME NEW c \in Range(table.columns), c.name \notin SpecialNames
      PROVE  r.values[c.name] = Expected(id, c)
  <2>1. c.role # "id_dossier"
    BY <1>6, <1>9 DEF Says
  <2> QED BY <1>2, <1>5, <1>7, <1>9, <2>1
<1>10. DOMAIN r = {"rank", "id", "values"} /\ DOMAIN r.values = ColumnNames(table.columns)
  <2>1. k \in DOMAIN table.rows
    BY <1>1, <1>3
  <2>2. DOMAIN r = {"rank", "id", "values"} /\ r.values \in [ColumnNames(table.columns) -> Cells]
    BY <1>3, <2>1 DEF IsTable, IsRows
  <2> QED BY <2>2
<1> QED BY <1>5, <1>8, <1>9, <1>10 DEF table, ex

\* A cell of the CSV is what is expected of the row's identifier in the column.
LEMMA CellOfTheCsv ==
  ASSUME Content, MappingIsSubmitted, EveryRowIsAccountedFor, fusion # None, ~fusion.blocked,
         NEW rows, ToldBy(rows), normal # None, normal.table = NormalTable(fusion.table),
         Sorted, sort # None, NEW i \in DOMAIN sort.rows, NEW c \in Range(normal.table.columns)
  PROVE  OrPlaceholder(PreviewRow(sort.rows[i]).values[c.name]) = OrPlaceholder(Expected(IdOf(i), c))
<1>1. PICK k \in DOMAIN rows : sort.rows[i] = normal.table.rows[k] /\ IdOf(i) = rows[k].id
  BY RowOfTheCsv
<1> DEFINE r == normal.table.rows[k]
           id == rows[k].id
<1>2. /\ DOMAIN r = {"rank", "id", "values"} /\ DOMAIN r.values = ColumnNames(normal.table.columns)
      /\ r.id = Text[id] /\ r.id # "" /\ r.values[IdName] = Text[id]
      /\ \A x \in Range(normal.table.columns) :
            /\ x \in Range(Exported(mapping))
            /\ x.name \notin SpecialNames => r.values[x.name] = Expected(id, x)
  BY NormalRow
<1> HIDE DEF r, id
<1>3. c.name \in DOMAIN r.values
  BY <1>2 DEF ColumnNames
<1>4. PreviewRow(r).values[c.name] =
         IF c.name = ImageName /\ r.id # "" THEN ImageId[r.id]
         ELSE IF c.name = PathName /\ r.id # "" THEN PathImg[ImageId[r.id]]
         ELSE OrPlaceholder(r.values[c.name])
  BY <1>2, <1>3, RowPreviewed
<1>5. ImageName # IdName /\ PathName # IdName /\ ImageName # PathName
  BY DEF ImageName, IdName, PathName
<1> SUFFICES OrPlaceholder(PreviewRow(r).values[c.name]) = OrPlaceholder(Expected(id, c))
  BY <1>1 DEF r, id
<1>6. CASE c.name = IdName
  BY <1>2, <1>4, <1>5, <1>6, SpecialExpected, ShownTwice
<1>7. CASE c.name = ImageName
  BY <1>2, <1>4, <1>7, SpecialExpected
<1>8. CASE c.name = PathName
  BY <1>2, <1>4, <1>5, <1>8, SpecialExpected
<1>9. CASE c.name \notin SpecialNames
  <2>1. PreviewRow(r).values[c.name] = OrPlaceholder(r.values[c.name])
    BY <1>4, <1>9 DEF SpecialNames
  <2> QED BY <1>2, <1>9, <2>1, ShownTwice
<1> QED BY <1>6, <1>7, <1>8, <1>9 DEF SpecialNames

\* The validated CSV tells the workbook when the merged table does.
LEMMA CsvTells ==
  ASSUME Content, MappingIsSubmitted, EveryRowIsAccountedFor, Derived, AllTold
  PROVE  CsvTellsTheWorkbook
<1> SUFFICES ASSUME csv # None PROVE CsvTellsTheWorkbook
  BY DEF CsvTellsTheWorkbook
<1>1. /\ sort # None /\ report # None
      /\ csv.headers = HeadersOf(normal.table) /\ csv.grid = PreviewGrid
  BY DEF Derived, Previewed, PreviewReady
<1>2. /\ normal # None /\ fusion # None /\ ~fusion.blocked
      /\ normal.table = NormalTable(fusion.table) /\ Sorted
  BY <1>1 DEF Derived, Verified, Normalised
<1>3. PICK rows : ToldBy(rows)
  BY <1>2 DEF AllTold
<1> DEFINE columns == Exported(mapping)
           ids == Identifiers
           kept == Picked(columns, SayingPlaces)
           h == HeadersOf(normal.table)
           N == Cardinality(ids)
<1>4. /\ normal.table.columns = kept
      /\ normal.table.removed = Len(columns) - Len(kept)
  BY <1>2, <1>3, ColumnsThatSay
<1>5. h = [j \in DOMAIN kept |-> kept[j].name]
  BY <1>4 DEF HeadersOf
<1>6. /\ {IdOf(i) : i \in DOMAIN sort.rows} = ids
      /\ N \in Nat /\ DOMAIN sort.rows = 1 .. N
  BY <1>2, <1>3, <1>1, RowForEach
<1>7. /\ DOMAIN PreviewGrid = DOMAIN sort.rows
      /\ \A i \in DOMAIN sort.rows :
            PreviewGrid[i] = [j \in DOMAIN h |-> OrPlaceholder(PreviewRow(sort.rows[i]).values[h[j]])]
  BY DEF PreviewGrid, Grid
<1> HIDE DEF columns, ids, kept, h, N
<1>8. ASSUME NEW i \in DOMAIN sort.rows
      PROVE  PreviewGrid[i] = [j \in DOMAIN kept |-> OrPlaceholder(Expected(IdOf(i), kept[j]))]
  <2>1. ASSUME NEW j \in DOMAIN kept
        PROVE  OrPlaceholder(PreviewRow(sort.rows[i]).values[h[j]]) = OrPlaceholder(Expected(IdOf(i), kept[j]))
    <3> DEFINE c == kept[j]
    <3>1. c \in Range(normal.table.columns) /\ h[j] = c.name
      BY <1>4, <1>5 DEF Range
    <3> HIDE DEF c
    <3>2. OrPlaceholder(PreviewRow(sort.rows[i]).values[c.name]) = OrPlaceholder(Expected(IdOf(i), c))
      BY <1>1, <1>2, <1>3, <3>1, CellOfTheCsv
    <3> QED BY <3>1, <3>2 DEF c
  <2>2. DOMAIN h = DOMAIN kept
    BY <1>5
  <2>3. PreviewGrid[i] = [j \in DOMAIN kept |-> OrPlaceholder(PreviewRow(sort.rows[i]).values[h[j]])]
    BY <1>7, <2>2
  <2> QED BY <2>1, <2>3
<1>9. DOMAIN csv.grid = 1 .. N /\ Len(csv.grid) = N
  <2> DEFINE g == csv.grid
  <2>1. DOMAIN g = 1 .. N /\ g = [i \in 1 .. N |-> g[i]]
    <3>1. PreviewGrid = [i \in DOMAIN PreviewGrid |-> PreviewGrid[i]]
      BY DEF PreviewGrid, Grid
    <3> QED BY <1>1, <1>6, <1>7, <3>1
  <2> HIDE DEF g
  <2>2. \A i \in 1 .. N : g[i] \in Range(g)
    BY <2>1 DEF Range
  <2>3. g \in [1 .. N -> Range(g)]
    BY <2>1, <2>2, Zenon
  <2>4. g \in Seq(Range(g))
    BY <1>6, <2>3, SeqDef
  <2>5. Len(g) = N
    BY <1>6, <2>1, <2>4, LenProperties
  <2> QED BY <2>1, <2>5 DEF g
<1> DEFINE says(c) == \/ c.name \in SpecialNames
                      \/ /\ c.role # "id_dossier"
                         /\ \E id \in ids : Expected(id, c) # ""
           left == Picked(columns, {j \in DOMAIN columns : says(columns[j])})
           idOf(i) == (CHOOSE r \in Range(fusion.table.rows) : r.rank = sort.rows[i].rank).id
<1>10. left = kept
  BY DEF kept, columns, ids, Says, SayingPlaces
<1>11. \A i : idOf(i) = IdOf(i)
  BY DEF IdOf
<1>12. CsvTellsTheWorkbook <=>
         /\ csv.headers = [j \in DOMAIN left |-> left[j].name]
         /\ normal.table.removed = Len(columns) - Len(left)
         /\ Len(csv.grid) = Cardinality(ids)
         /\ {idOf(i) : i \in DOMAIN csv.grid} = ids
         /\ \A i \in DOMAIN csv.grid :
               csv.grid[i] = [j \in DOMAIN left |-> OrPlaceholder(Expected(idOf(i), left[j]))]
  BY Zenon DEF CsvTellsTheWorkbook, columns, ids
<1> HIDE DEF left, idOf
<1>13. {idOf(i) : i \in DOMAIN csv.grid} = ids
  BY <1>6, <1>9, <1>11
<1>14. ASSUME NEW i \in DOMAIN csv.grid
       PROVE  csv.grid[i] = [j \in DOMAIN left |-> OrPlaceholder(Expected(idOf(i), left[j]))]
  <2>1. csv.grid[i] = [j \in DOMAIN kept |-> OrPlaceholder(Expected(IdOf(i), kept[j]))]
    BY <1>1, <1>6, <1>8, <1>9
  <2> QED BY <1>10, <1>11, <2>1
<1>15. csv.headers = [j \in DOMAIN left |-> left[j].name]
  BY <1>1, <1>5, <1>10 DEF h
<1>16. normal.table.removed = Len(columns) - Len(left) /\ Len(csv.grid) = Cardinality(ids)
  BY <1>4, <1>9, <1>10 DEF N
<1> QED BY <1>12, <1>13, <1>14, <1>15, <1>16

\* The validated CSV says what the workbook says: a line per identifier and in
\* each column the normalised cell of its row in the column's sheet, and no
\* column is left out but those that say nothing (build_flat_merge,
\* normalize_flat_merge, csv_preview.py), for any workbooks whose hidden rows
\* are spelled "1", whatever the mapping and the order asked for.
THEOREM CsvTellsWhatWasRead ==
  ASSUME SpelledAsOne
  PROVE  Spec => []CsvTellsTheWorkbook
<1> DEFINE I == /\ IInv /\ MappingIsSubmitted /\ ProfileIsSaved /\ Filled /\ Derived
                /\ Tallied /\ Named /\ EveryRowIsAccountedFor /\ Told /\ AllTold
<1>1. Init => I
  <2>1. Init => IInv /\ Filled /\ Derived
    BY IInvInit, DerivedInit
  <2>2. Init => /\ MappingIsSubmitted /\ ProfileIsSaved
                /\ Tallied /\ Named /\ EveryRowIsAccountedFor /\ Told /\ AllTold
    BY DEF Init, MappingIsSubmitted, ProfileIsSaved, Tallied, Named, EveryRowIsAccountedFor,
           Told, AllTold
  <2> QED BY <2>1, <2>2
<1>2. I /\ [Next]_vars => I'
  <2>1. I /\ [Next]_vars => IInv'
    BY ContentStep, CursorStep, TableGrowsStep, TableIsDoneStep DEF IInv
  <2>2. I /\ [Next]_vars => MappingIsSubmitted' /\ ProfileIsSaved'
    BY SavedStep DEF IInv
  <2>3. I /\ [Next]_vars => Filled' /\ Derived'
    BY FilledStep, DerivedStep
  <2>4. I /\ [Next]_vars => Tallied' /\ Named' /\ EveryRowIsAccountedFor'
    BY TalliedStep, AccountStep
  <2>5. I /\ [Next]_vars => Told' /\ AllTold'
    BY ToldStep, AllToldStep
  <2> QED BY <2>1, <2>2, <2>3, <2>4, <2>5
<1>3. I => CsvTellsTheWorkbook
  BY CsvTells DEF IInv
<1> QED BY <1>1, <1>2, <1>3, PTL DEF Spec
=============================================================================
