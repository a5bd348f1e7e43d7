--------------------------- MODULE SequenceLemmas ---------------------------
(***************************************************************************)
(* What the proofs need to know of the naturals, of the ranks of the       *)
(* elements of a finite set of them, and of FlattenSeq.  The induction     *)
(* principle is stated for a set instead of a predicate, so that a         *)
(* first-order prover can use it.                                          *)
(***************************************************************************)
EXTENDS Integers, SequencesExt, FiniteSetTheorems, SequenceTheorems,
        WellFoundedInduction, TLAPS

\* A set of naturals that is not empty has a least element.
LEMMA NatMin ==
  ASSUME NEW S \in SUBSET Nat, S # {}
  PROVE  \E m \in S : \A k \in S : m <= k
<1> DEFINE D == {0 .. n : n \in S}
<1>1. D \subseteq FiniteSubsetsOf(Nat)
  <2> SUFFICES ASSUME NEW n \in S PROVE 0 .. n \in FiniteSubsetsOf(Nat)
    OBVIOUS
  <2>1. IsFiniteSet(0 .. n)
    BY FS_Interval
  <2>2. QED
    BY <2>1 DEF FiniteSubsetsOf
<1>2. D # {}
  OBVIOUS
<1>3. IsWellFoundedOn(StrictSubsetOrdering(Nat), FiniteSubsetsOf(Nat))
  BY FS_StrictSubsetOrderingWellFounded
<1>4. PICK x \in D : \A y \in D : ~(<<y, x>> \in StrictSubsetOrdering(Nat))
  <2> HIDE DEF D
  <2>1. QED
    BY <1>1, <1>2, <1>3, WFMin
<1>5. PICK m \in S : x = 0 .. m
  OBVIOUS
<1>6. ASSUME NEW k \in S PROVE m <= k
  <2> SUFFICES ASSUME k < m PROVE FALSE
    OBVIOUS
  <2>1. 0 .. k \in D
    OBVIOUS
  <2>2. 0 .. k \subseteq x /\ 0 .. k # x
    <3>1. m \in x /\ m \notin 0 .. k
      BY <1>5
    <3>2. QED
      BY <3>1, <1>5
  <2>3. <<0 .. k, x>> \in StrictSubsetOrdering(Nat)
    BY <1>1, <1>4, <2>1, <2>2 DEF StrictSubsetOrdering
  <2>4. QED
    BY <1>4, <2>1, <2>3
<1>7. QED
  BY <1>6

\* Induction over the naturals.
LEMMA SetInduction ==
  ASSUME NEW S, 0 \in S, \A n \in Nat : n \in S => n + 1 \in S
  PROVE  \A n \in Nat : n \in S
<1> SUFFICES ASSUME NEW n \in Nat, n \notin S PROVE FALSE
  OBVIOUS
<1>1. PICK m \in Nat \ S : \A k \in Nat \ S : m <= k
  BY NatMin
<1>2. m > 0 /\ m - 1 \in Nat
  OBVIOUS
<1>3. m - 1 \in S
  BY <1>1, <1>2
<1>4. QED
  BY <1>1, <1>2, <1>3
-----------------------------------------------------------------------------
\* f[i] is what the first i sequences of s are together, for i up to k.
FlatItem(f, s, i) == IF i = 1 THEN s[i] ELSE f[i - 1] \o s[i]

FlatUpTo(f, s, k) == f = [i \in 1 .. k |-> FlatItem(f, s, i)]

LEMMA FlatNext ==
  ASSUME NEW f, NEW s, NEW i \in Nat, i # 1, NEW j \in Nat, j = i - 1
  PROVE  FlatItem(f, s, i) = f[j] \o s[i]
BY Zenon DEF FlatItem

LEMMA FlatAt ==
  ASSUME NEW f, NEW s, NEW k \in Nat, FlatUpTo(f, s, k), NEW i \in Nat,
         1 <= i, i <= k
  PROVE  f[i] = FlatItem(f, s, i)
BY DEF FlatUpTo

\* The function that FlattenSeq recurs on exists.
LEMMA FlatExists ==
  ASSUME NEW T, NEW s \in Seq(Seq(T))
  PROVE  \A k \in Nat : k <= Len(s) => \E f : FlatUpTo(f, s, k)
<1> DEFINE S == {k \in Nat : k <= Len(s) => \E f : FlatUpTo(f, s, k)}
<1>1. 0 \in S
  <2>1. FlatUpTo([i \in 1 .. 0 |-> 0], s, 0)
    BY DEF FlatUpTo
  <2>2. QED
    BY <2>1
<1>2. ASSUME NEW k \in Nat, k \in S PROVE k + 1 \in S
  <2> SUFFICES ASSUME k + 1 <= Len(s) PROVE \E f : FlatUpTo(f, s, k + 1)
    OBVIOUS
  <2>1. PICK f : FlatUpTo(f, s, k)
    BY <1>2
  <2> DEFINE last == FlatItem(f, s, k + 1)
             g    == [i \in 1 .. k + 1 |-> IF i = k + 1 THEN last ELSE f[i]]
  <2>2. ASSUME NEW i \in 1 .. k + 1 PROVE g[i] = FlatItem(g, s, i)
    <3>1. i # 1 => g[i - 1] = f[i - 1]
      OBVIOUS
    <3>2. FlatItem(g, s, i) = FlatItem(f, s, i)
      BY <3>1 DEF FlatItem
    <3>3. CASE i = k + 1
      BY <3>2, <3>3
    <3>4. CASE i # k + 1
      <4>1. f[i] = FlatItem(f, s, i)
        BY <3>4, <2>1, FlatAt
      <4>2. QED
        BY <4>1, <3>2, <3>4
    <3>5. QED
      BY <3>3, <3>4
  <2>3. FlatUpTo(g, s, k + 1)
    <3> HIDE DEF last
    <3>1. QED
      BY <2>2 DEF FlatUpTo
  <2>4. QED
    BY <2>3
<1>3. \A k \in Nat : k \in S
  <2> HIDE DEF S
  <2>1. QED
    BY <1>1, <1>2, SetInduction
<1>4. QED
  BY <1>3

\* It holds sequences, and what it is up to k does not depend on what follows.
LEMMA FlatUnique ==
  ASSUME NEW T, NEW s \in Seq(Seq(T)), NEW t \in Seq(Seq(T)),
         NEW f, NEW g, NEW k \in Nat, NEW l \in Nat,
         k <= l, k <= Len(s), l <= Len(t),
         \A i \in 1 .. k : s[i] = t[i],
         FlatUpTo(f, s, k), FlatUpTo(g, t, l)
  PROVE  \A i \in 1 .. k : f[i] = g[i] /\ f[i] \in Seq(T)
<1> DEFINE S == {i \in Nat : i \in 1 .. k => f[i] = g[i] /\ f[i] \in Seq(T)}
<1>1. 0 \in S
  OBVIOUS
<1>2. ASSUME NEW i \in Nat, i \in S PROVE i + 1 \in S
  <2> SUFFICES ASSUME NEW j \in 1 .. k, j = i + 1
               PROVE  f[j] = g[j] /\ f[j] \in Seq(T)
    OBVIOUS
  <2>1. f[j] = FlatItem(f, s, j) /\ g[j] = FlatItem(g, t, j)
    BY FlatAt
  <2>2. /\ f[j] = IF j = 1 THEN s[j] ELSE f[j - 1] \o s[j]
        /\ g[j] = IF j = 1 THEN t[j] ELSE g[j - 1] \o t[j]
    BY <2>1 DEF FlatItem
  <2>3. s[j] = t[j] /\ s[j] \in Seq(T) /\ j - 1 = i
    OBVIOUS
  <2>4. CASE i # 0
    <3>1. f[i] = g[i] /\ f[i] \in Seq(T)
      BY <1>2, <2>4
    <3>2. f[i] \o s[j] \in Seq(T)
      BY <3>1, <2>3, ConcatProperties
    <3>3. QED
      BY <2>1, <2>2, <2>3, <2>4, <3>1, <3>2
  <2>5. CASE i = 0
    BY <2>1, <2>2, <2>3, <2>5
  <2>6. QED
    BY <2>4, <2>5
<1>3. \A i \in Nat : i \in S
  <2> HIDE DEF S
  <2>1. QED
    BY <1>1, <1>2, SetInduction
<1>4. QED
  BY <1>3


LEMMA FlattenIs ==
  ASSUME NEW T, NEW s \in Seq(Seq(T)), Len(s) # 0
  PROVE  \E f : FlatUpTo(f, s, Len(s)) /\ FlattenSeq(s) = f[Len(s)]
<1> DEFINE F == CHOOSE f : FlatUpTo(f, s, Len(s))
<1>1. Len(s) \in Nat
  BY LenProperties
<1>2. FlatUpTo(F, s, Len(s))
  <2>1. \E f : FlatUpTo(f, s, Len(s))
    BY <1>1, FlatExists
  <2>2. QED
    BY <2>1
<1>3. FlattenSeq(s) = F[Len(s)]
  <2>1. FlattenSeq(s) =
          (CHOOSE f : f = [i \in 1 .. Len(s) |->
                             IF i = 1 THEN s[i] ELSE f[i - 1] \o s[i]])[Len(s)]
    BY Zenon DEF FlattenSeq
  <2>2. QED
    BY <2>1, Zenon DEF FlatUpTo, FlatItem
<1>4. QED
  <2> HIDE DEF F
  <2>1. QED
    BY <1>2, <1>3

\* Flattening a sequence of sequences gives a sequence, and one more sequence
\* comes last.
LEMMA FlattenAppend ==
  ASSUME NEW T, NEW s \in Seq(Seq(T)), NEW x \in Seq(T)
  PROVE  /\ FlattenSeq(s) \in Seq(T)
         /\ FlattenSeq(Append(s, x)) = FlattenSeq(s) \o x
<1> DEFINE t == Append(s, x)
           l == Len(s)
<1>1. l \in Nat
  BY LenProperties
<1>2. t \in Seq(Seq(T)) /\ Len(t) = l + 1 /\ t[l + 1] = x /\ \A i \in 1 .. l : s[i] = t[i]
  BY AppendProperties
<1>3. PICK g : FlatUpTo(g, t, l + 1) /\ FlattenSeq(t) = g[l + 1]
  <2>1. Len(t) # 0
    BY <1>1, <1>2
  <2>2. \E g : FlatUpTo(g, t, Len(t)) /\ FlattenSeq(t) = g[Len(t)]
    <3> HIDE DEF t
    <3>1. QED
      BY <1>2, <2>1, FlattenIs
  <2>3. QED
    BY <2>2, <1>2
<1>4. g[l + 1] = FlatItem(g, t, l + 1)
  BY <1>1, <1>3, FlatAt
<1>5. CASE l = 0
  <2>1. s = <<>> /\ FlattenSeq(s) = s
    BY <1>5 DEF FlattenSeq
  <2>2. g[l + 1] = x
    BY <1>2, <1>4, <1>5 DEF FlatItem
  <2>3. FlattenSeq(t) = x
    BY <1>3, <2>2
  <2>4. <<>> \o x = x
    BY ConcatEmptySeq
  <2>5. FlattenSeq(s) \o x = x
    BY <2>1, <2>4
  <2>6. FlattenSeq(s) \in Seq(T)
    BY <2>1, EmptySeq
  <2>7. QED
    BY <2>3, <2>5, <2>6
<1>6. CASE l # 0
  <2>1. PICK f : FlatUpTo(f, s, l) /\ FlattenSeq(s) = f[l]
    BY <1>6, FlattenIs
  <2>2. \A i \in 1 .. l : f[i] = g[i] /\ f[i] \in Seq(T)
    <3> HIDE DEF l, t
    <3>1. l <= l + 1 /\ l <= Len(s) /\ l + 1 <= Len(t) /\ l + 1 \in Nat
      BY <1>1, <1>2 DEF l
    <3>2. QED
      BY <1>1, <1>2, <1>3, <2>1, <3>1, FlatUnique
  <2>3. f[l] = g[l] /\ f[l] \in Seq(T)
    BY <1>1, <1>6, <2>2
  <2>4. g[l + 1] = g[l] \o x
    <3>1. l + 1 # 1 /\ l + 1 - 1 = l
      BY <1>1, <1>6
    <3>2. FlatItem(g, t, l + 1) = g[l] \o t[l + 1]
      <4> HIDE DEF l, t
      <4>1. PICK i \in Nat : i = l + 1
        BY <1>1
      <4>2. i # 1 /\ l = i - 1
        BY <1>1, <1>6, <4>1
      <4>3. FlatItem(g, t, i) = g[l] \o t[i]
        BY <1>1, <4>2, FlatNext
      <4>4. QED
        BY <4>1, <4>3
    <3>3. QED
      BY <1>2, <1>4, <3>1, <3>2
  <2>5. QED
    BY <1>3, <2>1, <2>3, <2>4
<1>7. QED
  BY <1>5, <1>6

\* An element before a sequence.
LEMMA PushIs ==
  ASSUME NEW S, NEW x \in S, NEW s \in Seq(S)
  PROVE  /\ <<x>> \o s \in Seq(S) /\ Len(<<x>> \o s) = Len(s) + 1
         /\ (<<x>> \o s)[1] = x
         /\ \A i \in 2 .. Len(s) + 1 : (<<x>> \o s)[i] = s[i - 1]
<1>1. <<x>> \in Seq(S) /\ Len(<<x>>) = 1 /\ <<x>>[1] = x
  OBVIOUS
<1>2. Len(s) \in Nat
  BY LenProperties
<1>3. PICK f \in Seq(S) : f = <<x>> /\ Len(f) = 1 /\ f[1] = x
  BY <1>1
<1>4. /\ f \o s \in Seq(S) /\ Len(f \o s) = 1 + Len(s)
      /\ \A i \in 1 .. 1 + Len(s) : (f \o s)[i] = IF i <= 1 THEN f[i] ELSE s[i - 1]
  BY <1>3, ConcatProperties
<1>5. QED
  BY <1>2, <1>3, <1>4

\* A set of naturals up to a bound that is not empty has a greatest element.
LEMMA NatMax ==
  ASSUME NEW b \in Nat, NEW S \in SUBSET (0 .. b), S # {}
  PROVE  \E m \in S : \A k \in S : k <= m
<1> DEFINE T == {b - k : k \in S}
<1>1. T \in SUBSET Nat /\ T # {}
  <2>1. \A k \in S : b - k \in Nat
    OBVIOUS
  <2>2. QED
    BY <2>1
<1>2. PICK l \in T : \A k \in T : l <= k
  <2> HIDE DEF T
  <2>1. QED
    BY <1>1, NatMin
<1>3. PICK m \in S : l = b - m
  OBVIOUS
<1>4. ASSUME NEW k \in S PROVE k <= m
  <2>1. b - k \in T
    OBVIOUS
  <2>2. b - m <= b - k /\ k \in Nat /\ m \in Nat
    BY <1>2, <1>3, <2>1
  <2>3. QED
    BY <2>2
<1>5. QED
  BY <1>4

\* The first n elements of a sequence.
LEMMA TakeIs ==
  ASSUME NEW S, NEW s \in Seq(S), NEW n \in Nat, n <= Len(s)
  PROVE  /\ SubSeq(s, 1, n) \in Seq(S) /\ Len(SubSeq(s, 1, n)) = n
         /\ \A i \in 1 .. n : SubSeq(s, 1, n)[i] = s[i]
<1>1. Len(s) \in Nat /\ \A i \in 1 .. n : s[i] \in S
  BY LenProperties, ElementOfSeq
<1>2. /\ SubSeq(s, 1, n) \in Seq(S)
      /\ Len(SubSeq(s, 1, n)) = IF 1 <= n THEN n - 1 + 1 ELSE 0
      /\ \A i \in 1 .. n - 1 + 1 : SubSeq(s, 1, n)[i] = s[1 + i - 1]
  BY <1>1, SubSeqProperties
<1>3. QED
  BY <1>2

\* What is left of a sequence from the element m on.
LEMMA DropIs ==
  ASSUME NEW S, NEW s \in Seq(S), NEW m \in Nat, 1 <= m
  PROVE  /\ SubSeq(s, m, Len(s)) \in Seq(S)
         /\ m > Len(s) => SubSeq(s, m, Len(s)) = <<>>
         /\ m <= Len(s) =>
              /\ Len(SubSeq(s, m, Len(s))) = Len(s) - m + 1
              /\ \A i \in 1 .. Len(s) - m + 1 : SubSeq(s, m, Len(s))[i] = s[m + i - 1]
<1>1. Len(s) \in Nat /\ \A i \in m .. Len(s) : s[i] \in S
  BY LenProperties, ElementOfSeq
<1>2. /\ SubSeq(s, m, Len(s)) \in Seq(S)
      /\ Len(SubSeq(s, m, Len(s))) = IF m <= Len(s) THEN Len(s) - m + 1 ELSE 0
      /\ \A i \in 1 .. Len(s) - m + 1 : SubSeq(s, m, Len(s))[i] = s[m + i - 1]
  BY <1>1, SubSeqProperties
<1>3. m > Len(s) => SubSeq(s, m, Len(s)) = <<>>
  BY <1>1, SubSeqEmpty
<1>4. QED
  BY <1>2, <1>3

LEMMA SeqWiden ==
  ASSUME NEW S, NEW T, S \subseteq T PROVE Seq(S) \subseteq Seq(T)
<1> SUFFICES ASSUME NEW s \in Seq(S) PROVE s \in Seq(T)
  OBVIOUS
<1>1. Len(s) \in Nat /\ \A i \in 1 .. Len(s) : s[i] \in T
  BY LenProperties, ElementOfSeq
<1>2. s = [i \in 1 .. Len(s) |-> s[i]]
  BY SeqDef, LenProperties
<1>3. [i \in 1 .. Len(s) |-> s[i]] \in Seq(T)
  BY <1>1, IsASeq
<1>4. QED
  BY <1>2, <1>3

\* A sequence before another.
LEMMA ConcatIs ==
  ASSUME NEW S, NEW s \in Seq(S), NEW t \in Seq(S)
  PROVE  /\ s \o t \in Seq(S) /\ Len(s \o t) = Len(s) + Len(t)
         /\ Len(s \o t) >= Len(s)
         /\ \A i \in 1 .. Len(s) : (s \o t)[i] = s[i]
         /\ \A i \in 1 .. Len(t) : (s \o t)[Len(s) + i] = t[i]
<1>1. Len(s) \in Nat /\ Len(t) \in Nat
  BY LenProperties
<1>2. /\ s \o t \in Seq(S) /\ Len(s \o t) = Len(s) + Len(t)
      /\ \A i \in 1 .. Len(s) + Len(t) :
           (s \o t)[i] = IF i <= Len(s) THEN s[i] ELSE t[i - Len(s)]
  BY ConcatProperties
<1>3. ASSUME NEW i \in 1 .. Len(t) PROVE (s \o t)[Len(s) + i] = t[i]
  <2>1. Len(s) + i \in 1 .. Len(s) + Len(t) /\ ~(Len(s) + i <= Len(s))
        /\ (Len(s) + i) - Len(s) = i
    BY <1>1
  <2>2. QED
    BY <1>2, <2>1
<1>4. QED
  BY <1>1, <1>2, <1>3
-----------------------------------------------------------------------------
(* Counting the elements of a set of numbers from the least.               *)

UpTo(I, i) == {j \in I : j <= i}

LEMMA RankType ==
  ASSUME NEW I \in SUBSET Nat, IsFiniteSet(I), NEW i \in I
  PROVE  /\ IsFiniteSet(UpTo(I, i)) /\ Cardinality(UpTo(I, i)) \in 1 .. Cardinality(I)
<1>1. UpTo(I, i) \subseteq I /\ i \in UpTo(I, i)
  BY DEF UpTo
<1>2. IsFiniteSet(UpTo(I, i)) /\ Cardinality(UpTo(I, i)) <= Cardinality(I)
  BY <1>1, FS_Subset
<1>3. Cardinality(UpTo(I, i)) \in Nat /\ Cardinality(UpTo(I, i)) # 0
  BY <1>1, <1>2, FS_CardinalityType, FS_EmptySet
<1>4. QED
  BY <1>2, <1>3, FS_CardinalityType

\* A greater element has a greater rank.
LEMMA RankOrder ==
  ASSUME NEW I \in SUBSET Nat, IsFiniteSet(I), NEW i \in I, NEW j \in I, i < j
  PROVE  Cardinality(UpTo(I, i)) < Cardinality(UpTo(I, j))
<1>1. UpTo(I, i) \subseteq UpTo(I, j) \ {j} /\ j \in UpTo(I, j)
  <2>1. i \in Nat /\ j \in Nat /\ \A k \in I : k \in Nat
    OBVIOUS
  <2>2. j \in UpTo(I, j)
    BY <2>1 DEF UpTo
  <2>3. ASSUME NEW k \in UpTo(I, i) PROVE k \in UpTo(I, j) \ {j}
    BY <2>1 DEF UpTo
  <2>4. QED
    BY <2>2, <2>3
<1>2. IsFiniteSet(UpTo(I, i)) /\ IsFiniteSet(UpTo(I, j))
      /\ Cardinality(UpTo(I, i)) \in Nat /\ Cardinality(UpTo(I, j)) \in Nat
  BY RankType
<1>3. IsFiniteSet(UpTo(I, j) \ {j}) /\ Cardinality(UpTo(I, j) \ {j}) = Cardinality(UpTo(I, j)) - 1
  BY <1>1, <1>2, FS_RemoveElement
<1>4. Cardinality(UpTo(I, i)) <= Cardinality(UpTo(I, j) \ {j})
  BY <1>1, <1>3, FS_Subset
<1>5. QED
  BY <1>2, <1>3, <1>4

LEMMA RankUnique ==
  ASSUME NEW I \in SUBSET Nat, IsFiniteSet(I), NEW i \in I, NEW j \in I,
         Cardinality(UpTo(I, i)) = Cardinality(UpTo(I, j))
  PROVE  i = j
<1>1. Cardinality(UpTo(I, i)) \in Nat /\ Cardinality(UpTo(I, j)) \in Nat
  BY RankType
<1>2. i \in Nat /\ j \in Nat
  OBVIOUS
<1>3. QED
  BY <1>1, <1>2, RankOrder

\* A finite set of naturals has a greatest element.
LEMMA FiniteMax ==
  ASSUME NEW I \in SUBSET Nat, IsFiniteSet(I), I # {}
  PROVE  \E m \in I : \A j \in I : j <= m
<1> DEFINE S == {n \in Nat : \A J \in SUBSET Nat :
                   IsFiniteSet(J) /\ Cardinality(J) = n => \E b \in Nat : J \subseteq 0 .. b}
<1>1. 0 \in S
  <2>1. \A J : IsFiniteSet(J) /\ Cardinality(J) = 0 => J \subseteq 0 .. 0
    BY FS_EmptySet
  <2>2. QED
    BY <2>1
<1>2. ASSUME NEW n \in Nat, n \in S PROVE n + 1 \in S
  <2> SUFFICES ASSUME NEW J \in SUBSET Nat, IsFiniteSet(J), Cardinality(J) = n + 1
               PROVE  \E b \in Nat : J \subseteq 0 .. b
    OBVIOUS
  <2>1. PICK x : x \in J
    BY FS_EmptySet
  <2>2. IsFiniteSet(J \ {x}) /\ Cardinality(J \ {x}) = n
    <3>1. IsFiniteSet(J \ {x}) /\ Cardinality(J \ {x}) = Cardinality(J) - 1
      BY <2>1, FS_RemoveElement
    <3>2. QED
      BY <3>1
  <2>3. J \ {x} \in SUBSET Nat
    OBVIOUS
  <2>4. PICK b \in Nat : J \ {x} \subseteq 0 .. b
    BY <1>2, <2>2, <2>3
  <2>5. b + x \in Nat /\ J \subseteq 0 .. b + x
    BY <2>1, <2>4
  <2>6. QED
    BY <2>5
<1>3. \A n \in Nat : n \in S
  <2> HIDE DEF S
  <2>1. QED
    BY <1>1, <1>2, SetInduction
<1>4. PICK b \in Nat : I \subseteq 0 .. b
  BY <1>3, FS_CardinalityType
<1>5. QED
  BY <1>4, NatMax

\* There is an element of each rank.
LEMMA RankExists ==
  ASSUME NEW I \in SUBSET Nat, IsFiniteSet(I), NEW k \in 1 .. Cardinality(I)
  PROVE  \E i \in I : Cardinality(UpTo(I, i)) = k
<1> DEFINE Ranks(J) == \A l \in 1 .. Cardinality(J) : \E i \in J : Cardinality(UpTo(J, i)) = l
           S == {n \in Nat : \A J \in SUBSET Nat : IsFiniteSet(J) /\ Cardinality(J) = n => Ranks(J)}
<1>1. 0 \in S
  OBVIOUS
<1>2. ASSUME NEW n \in Nat, n \in S PROVE n + 1 \in S
  <2> SUFFICES ASSUME NEW J \in SUBSET Nat, IsFiniteSet(J), Cardinality(J) = n + 1,
                      NEW l \in 1 .. n + 1
               PROVE  \E i \in J : Cardinality(UpTo(J, i)) = l
    OBVIOUS
  <2>1. PICK m \in J : \A j \in J : j <= m
    <3>1. J # {}
      BY FS_EmptySet
    <3>2. QED
      BY <3>1, FiniteMax
  <2> DEFINE K == J \ {m}
  <2>2. K \in SUBSET Nat /\ IsFiniteSet(K) /\ Cardinality(K) = n
    <3>1. IsFiniteSet(K) /\ Cardinality(K) = Cardinality(J) - 1
      BY FS_RemoveElement
    <3>2. QED
      BY <3>1
  <2>3. Ranks(K)
    BY <1>2, <2>2
  <2>4. CASE l = n + 1
    <3>1. UpTo(J, m) = J
      BY <2>1 DEF UpTo
    <3>2. QED
      BY <2>4, <3>1
  <2>5. CASE l # n + 1
    <3>1. l \in 1 .. Cardinality(K)
      BY <2>2, <2>5
    <3>2. PICK i \in K : Cardinality(UpTo(K, i)) = l
      BY <2>3, <3>1
    <3>3. i < m
      BY <2>1
    <3>4. UpTo(J, i) = UpTo(K, i)
      BY <2>1, <3>3 DEF UpTo
    <3>5. QED
      BY <3>2, <3>4
  <2>6. QED
    BY <2>4, <2>5
<1>3. \A n \in Nat : n \in S
  <2> HIDE DEF S
  <2>1. QED
    BY <1>1, <1>2, SetInduction
<1>4. Cardinality(I) \in Nat
  BY FS_CardinalityType
<1>5. Ranks(I)
  BY <1>3, <1>4
<1>6. QED
  BY <1>5

\* The k-th number of a set is the one of rank k.
Ranked(I, k) == CHOOSE i \in I : Cardinality(UpTo(I, i)) = k

LEMMA RankedIs ==
  ASSUME NEW I \in SUBSET Nat, IsFiniteSet(I), NEW k \in 1 .. Cardinality(I)
  PROVE  Ranked(I, k) \in I /\ Cardinality(UpTo(I, Ranked(I, k))) = k
<1>1. PICK i \in I : Cardinality(UpTo(I, i)) = k
  BY RankExists
<1>2. Ranked(I, k) = CHOOSE j \in I : Cardinality(UpTo(I, j)) = k
  BY DEF Ranked
<1>3. QED
  BY <1>1, <1>2

LEMMA RankedOf ==
  ASSUME NEW I \in SUBSET Nat, IsFiniteSet(I), NEW i \in I, NEW k,
         Cardinality(UpTo(I, i)) = k
  PROVE  Ranked(I, k) = i
<1>1. k \in 1 .. Cardinality(I)
  BY RankType
<1>2. Ranked(I, k) \in I /\ Cardinality(UpTo(I, Ranked(I, k))) = k
  BY <1>1, RankedIs
<1>3. QED
  BY <1>2, RankUnique

\* One more number, behind the others.
LEMMA RankedMore ==
  ASSUME NEW I \in SUBSET Nat, IsFiniteSet(I), NEW m \in Nat, \A i \in I : i < m
  PROVE  /\ IsFiniteSet(I \cup {m}) /\ Cardinality(I \cup {m}) = Cardinality(I) + 1
         /\ Ranked(I \cup {m}, Cardinality(I) + 1) = m
         /\ \A k \in 1 .. Cardinality(I) : Ranked(I \cup {m}, k) = Ranked(I, k)
<1> DEFINE J == I \cup {m}
<1>1. m \notin I /\ J \in SUBSET Nat
  OBVIOUS
<1>2. IsFiniteSet(J) /\ Cardinality(J) = Cardinality(I) + 1
  BY <1>1, FS_AddElement
<1>3. UpTo(J, m) = J
  <2>1. \A i \in J : i <= m
    OBVIOUS
  <2> HIDE DEF J
  <2>2. QED
    BY <2>1 DEF UpTo
<1>4. ASSUME NEW i \in I PROVE UpTo(J, i) = UpTo(I, i)
  <2>1. ~(m <= i)
    OBVIOUS
  <2>2. QED
    BY <2>1 DEF UpTo
<1>5. Ranked(J, Cardinality(I) + 1) = m
  <2>1. m \in J
    OBVIOUS
  <2> HIDE DEF J
  <2>2. QED
    BY <1>1, <1>2, <1>3, <2>1, RankedOf
<1>6. ASSUME NEW k \in 1 .. Cardinality(I) PROVE Ranked(J, k) = Ranked(I, k)
  <2>1. Ranked(I, k) \in I /\ Cardinality(UpTo(I, Ranked(I, k))) = k
    BY RankedIs
  <2>2. Ranked(I, k) \in J /\ Cardinality(UpTo(J, Ranked(I, k))) = k
    BY <1>4, <2>1
  <2> HIDE DEF J
  <2>3. QED
    BY <1>1, <1>2, <2>2, RankedOf
<1>7. QED
  BY <1>2, <1>5, <1>6
-----------------------------------------------------------------------------
(* Parts of sequences.                                                     *)

LEMMA PartIs ==
  ASSUME NEW S, NEW s \in Seq(S), NEW a \in Nat, NEW b \in Nat,
         1 <= a, a <= b + 1, b <= Len(s)
  PROVE  /\ SubSeq(s, a, b) \in Seq(S) /\ Len(SubSeq(s, a, b)) = b + 1 - a
         /\ \A i \in 1 .. b + 1 - a : SubSeq(s, a, b)[i] = s[a + i - 1]
<1>1. Len(s) \in Nat /\ \A i \in 1 .. Len(s) : s[i] \in S
  BY LenProperties, ElementOfSeq
<1>2. CASE a <= b
  <2>1. \A i \in a .. b : s[i] \in S
    BY <1>1
  <2>2. /\ SubSeq(s, a, b) \in Seq(S)
        /\ Len(SubSeq(s, a, b)) = IF a <= b THEN b - a + 1 ELSE 0
        /\ \A i \in 1 .. b - a + 1 : SubSeq(s, a, b)[i] = s[a + i - 1]
    BY <1>1, <2>1, SubSeqProperties
  <2>3. b - a + 1 = b + 1 - a
    OBVIOUS
  <2>4. QED
    BY <1>2, <2>2, <2>3
<1>3. CASE ~(a <= b)
  <2>1. SubSeq(s, a, b) = <<>> /\ b + 1 - a = 0
    BY <1>3, SubSeqEmpty
  <2>2. QED
    BY <2>1, EmptySeq
<1>4. QED
  BY <1>2, <1>3

\* Two parts that meet are one,
LEMMA PartJoin ==
  ASSUME NEW S, NEW s \in Seq(S), NEW a \in Nat, NEW b \in Nat, NEW c \in Nat,
         1 <= a, a <= b + 1, b <= c, c <= Len(s)
  PROVE  SubSeq(s, a, b) \o SubSeq(s, b + 1, c) = SubSeq(s, a, c)
<1> DEFINE p == SubSeq(s, a, b)
           q == SubSeq(s, b + 1, c)
           r == SubSeq(s, a, c)
<1>0. Len(s) \in Nat
  BY LenProperties
<1>1. p \in Seq(S) /\ Len(p) = b + 1 - a /\ \A i \in 1 .. b + 1 - a : p[i] = s[a + i - 1]
  BY <1>0, PartIs
<1>2. q \in Seq(S) /\ Len(q) = c - b /\ \A i \in 1 .. c - b : q[i] = s[b + i]
  <2>1. /\ q \in Seq(S) /\ Len(q) = c + 1 - (b + 1)
        /\ \A i \in 1 .. c + 1 - (b + 1) : q[i] = s[b + 1 + i - 1]
    BY <1>0, PartIs
  <2> HIDE DEF q
  <2>2. c + 1 - (b + 1) = c - b /\ \A i \in Nat : b + 1 + i - 1 = b + i
    OBVIOUS
  <2>3. QED
    BY <2>1, <2>2
<1>3. r \in Seq(S) /\ Len(r) = c + 1 - a /\ \A i \in 1 .. c + 1 - a : r[i] = s[a + i - 1]
  BY <1>0, PartIs
<1> HIDE DEF p, q, r
<1>4. /\ p \o q \in Seq(S) /\ Len(p \o q) = Len(p) + Len(q)
      /\ \A i \in 1 .. Len(p) : (p \o q)[i] = p[i]
      /\ \A i \in 1 .. Len(q) : (p \o q)[Len(p) + i] = q[i]
  <2>1. p \in Seq(S) /\ q \in Seq(S)
    BY <1>1, <1>2
  <2>2. QED
    BY <2>1, ConcatIs
<1>5. ASSUME NEW i \in 1 .. c + 1 - a PROVE (p \o q)[i] = r[i]
  <2>1. CASE i <= b + 1 - a
    BY <1>1, <1>3, <1>4, <2>1
  <2>2. CASE ~(i <= b + 1 - a)
    <3>1. PICK j \in 1 .. c - b : i = b + 1 - a + j
      <4>1. i - (b + 1 - a) \in 1 .. c - b /\ i = b + 1 - a + (i - (b + 1 - a))
        BY <2>2
      <4>2. QED
        BY <4>1
    <3>2. a + i - 1 = b + j
      BY <3>1
    <3>3. (p \o q)[i] = q[j]
      <4>1. j \in 1 .. Len(q) /\ i = Len(p) + j
        BY <1>1, <1>2, <3>1
      <4>2. QED
        BY <1>4, <4>1
    <3>4. r[i] = s[b + j] /\ q[j] = s[b + j]
      BY <1>2, <1>3, <3>2
    <3>5. QED
      BY <3>3, <3>4
  <2>3. QED
    BY <2>1, <2>2
<1>6. Len(p \o q) = c + 1 - a
  BY <1>1, <1>2, <1>4
<1>7. p \o q = r
  BY <1>3, <1>4, <1>5, <1>6, SeqEqual
<1>8. QED
  BY <1>7 DEF p, q, r

\* and a part with the element behind it is one more.
LEMMA PartNext ==
  ASSUME NEW S, NEW s \in Seq(S), NEW a \in Nat, NEW b \in Nat,
         1 <= a, a <= b + 1, b + 1 <= Len(s)
  PROVE  Append(SubSeq(s, a, b), s[b + 1]) = SubSeq(s, a, b + 1)
<1>0. Len(s) \in Nat /\ s[b + 1] \in S
  BY LenProperties, ElementOfSeq
<1> DEFINE p == SubSeq(s, a, b)
           r == SubSeq(s, a, b + 1)
<1>1. p \in Seq(S) /\ Len(p) = b + 1 - a /\ \A i \in 1 .. b + 1 - a : p[i] = s[a + i - 1]
  BY <1>0, PartIs
<1>2. r \in Seq(S) /\ Len(r) = b + 2 - a /\ \A i \in 1 .. b + 2 - a : r[i] = s[a + i - 1]
  <2>1. /\ r \in Seq(S) /\ Len(r) = (b + 1) + 1 - a
        /\ \A i \in 1 .. (b + 1) + 1 - a : r[i] = s[a + i - 1]
    BY <1>0, PartIs
  <2> HIDE DEF r
  <2>2. (b + 1) + 1 - a = b + 2 - a
    OBVIOUS
  <2>3. QED
    BY <2>1, <2>2
<1> HIDE DEF p, r
<1>3. /\ Append(p, s[b + 1]) \in Seq(S) /\ Len(Append(p, s[b + 1])) = Len(p) + 1
      /\ \A i \in 1 .. Len(p) : Append(p, s[b + 1])[i] = p[i]
      /\ Append(p, s[b + 1])[Len(p) + 1] = s[b + 1]
  <2>1. PICK x \in S : x = s[b + 1]
    BY <1>0
  <2>2. p \in Seq(S)
    BY <1>1
  <2>3. QED
    BY <2>1, <2>2, AppendProperties
<1>4. ASSUME NEW i \in 1 .. b + 2 - a PROVE Append(p, s[b + 1])[i] = r[i]
  <2>1. CASE i = b + 2 - a
    BY <1>1, <1>2, <1>3, <2>1
  <2>2. CASE i # b + 2 - a
    <3>1. i \in 1 .. b + 1 - a
      BY <2>2
    <3>2. QED
      BY <1>1, <1>2, <1>3, <3>1
  <2>3. QED
    BY <2>1, <2>2
<1>5. Len(Append(p, s[b + 1])) = b + 2 - a
  BY <1>1, <1>3
<1>6. QED
  BY <1>2, <1>3, <1>4, <1>5, SeqEqual DEF p, r

\* An element behind two sequences that are joined.
Joined(u, v, x) == x = u \o v

LEMMA JoinedMore ==
  ASSUME NEW S, NEW u \in Seq(S), NEW v \in Seq(S), NEW w \in S, NEW x, Joined(u, v, x)
  PROVE  Joined(u, Append(v, w), Append(x, w))
<1>1. <<w>> \in Seq(S)
  OBVIOUS
<1>2. PICK z \in Seq(S) : z = <<w>>
  BY <1>1
<1>3. u \o v \in Seq(S)
  BY ConcatProperties
<1>4. Append(u \o v, w) = (u \o v) \o z
  BY <1>2, <1>3, AppendIsConcat
<1>5. Append(v, w) = v \o z
  BY <1>2, AppendIsConcat
<1>6. (u \o v) \o z = u \o (v \o z)
  BY ConcatAssociative
<1>7. Append(u \o v, w) = u \o Append(v, w)
  BY <1>4, <1>5, <1>6
<1>8. QED
  BY <1>7 DEF Joined

LEMMA JoinedTwice ==
  ASSUME NEW S, NEW u \in Seq(S), NEW v \in Seq(S), NEW w \in Seq(S), NEW x, Joined(u, v, x)
  PROVE  Joined(u, v \o w, x \o w)
<1>1. (u \o v) \o w = u \o (v \o w)
  BY ConcatAssociative
<1>2. QED
  BY <1>1 DEF Joined

\* A sequence in front of those that are flattened.
LEMMA FlattenPush ==
  ASSUME NEW T, NEW x \in Seq(T), NEW s \in Seq(Seq(T))
  PROVE  FlattenSeq(<<x>> \o s) = x \o FlattenSeq(s)
<1> DEFINE S == {n \in Nat : \A t \in Seq(Seq(T)) : Len(t) = n =>
                   FlattenSeq(<<x>> \o t) = x \o FlattenSeq(t)}
<1>1. 0 \in S
  <2> SUFFICES ASSUME NEW t \in Seq(Seq(T)), Len(t) = 0
               PROVE  FlattenSeq(<<x>> \o t) = x \o FlattenSeq(t)
    OBVIOUS
  <2>1. t = <<>> /\ <<>> \in Seq(Seq(T)) /\ FlattenSeq(<<>>) = <<>>
    <3>1. t = <<>>
      BY EmptySeq
    <3>2. FlattenSeq(<<>>) = <<>>
      BY DEF FlattenSeq
    <3>3. QED
      BY <3>1, <3>2, EmptySeq
  <2>2. <<x>> \o t = Append(<<>>, x)
    <3>2. <<x>> \in Seq(Seq(T)) /\ Len(<<x>>) = 1 /\ <<x>>[1] = x
      OBVIOUS
    <3>1. Append(<<>>, x) = <<x>>
      <4>1. PICK e \in Seq(Seq(T)) : e = <<>> /\ Len(e) = 0
        BY <2>1, EmptySeq
      <4>2. Append(e, x) \in Seq(Seq(T)) /\ Len(Append(e, x)) = 1 /\ Append(e, x)[1] = x
        <5>1. /\ Append(e, x) \in Seq(Seq(T)) /\ Len(Append(e, x)) = Len(e) + 1
              /\ Append(e, x)[Len(e) + 1] = x
          BY <4>1, AppendProperties
        <5>2. QED
          BY <4>1, <5>1
      <4>3. Append(e, x) = <<x>>
        <5>1. PICK a, b \in Seq(Seq(T)) : a = Append(e, x) /\ b = <<x>>
          BY <3>2, <4>2
        <5>2. Len(a) = Len(b) /\ \A i \in 1 .. Len(a) : a[i] = b[i]
          BY <3>2, <4>2, <5>1
        <5>3. a = b
          BY <5>2, SeqEqual
        <5>4. QED
          BY <5>1, <5>3
      <4>4. QED
        BY <4>1, <4>3
    <3>3. <<x>> \o <<>> = <<x>>
      BY <3>2, ConcatEmptySeq
    <3>4. QED
      BY <2>1, <3>1, <3>3
  <2>3. FlattenSeq(Append(<<>>, x)) = <<>> \o x
    BY <2>1, FlattenAppend
  <2>4. QED
    BY <2>1, <2>2, <2>3
<1>2. ASSUME NEW n \in Nat, n \in S PROVE n + 1 \in S
  <2>0. PICK m \in Nat : m = n + 1
    OBVIOUS
  <2> SUFFICES ASSUME NEW t \in Seq(Seq(T)), Len(t) = m
               PROVE  FlattenSeq(<<x>> \o t) = x \o FlattenSeq(t)
    BY <2>0
  <2> DEFINE u == SubSeq(t, 1, n)
             y == t[n + 1]
  <2>1. u \in Seq(Seq(T)) /\ Len(u) = n /\ y \in Seq(T) /\ t = Append(u, y)
    <3>0. Len(t) = n + 1
      BY <2>0
    <3>1. u \in Seq(Seq(T)) /\ Len(u) = n
      BY <3>0, TakeIs
    <3>2. y \in Seq(T)
      BY <3>0, ElementOfSeq
    <3>3. Append(SubSeq(t, 1, n), t[n + 1]) = SubSeq(t, 1, n + 1)
      BY <3>0, PartNext
    <3>4. SubSeq(t, 1, n + 1) = t
      <4>1. /\ SubSeq(t, 1, n + 1) \in Seq(Seq(T)) /\ Len(SubSeq(t, 1, n + 1)) = n + 1
            /\ \A i \in 1 .. n + 1 : SubSeq(t, 1, n + 1)[i] = t[i]
        BY <3>0, TakeIs
      <4>2. QED
        BY <3>0, <4>1, SeqEqual
    <3>5. QED
      BY <3>1, <3>2, <3>3, <3>4
  <2> HIDE DEF u, y
  <2>2. FlattenSeq(<<x>> \o u) = x \o FlattenSeq(u)
    BY <1>2, <2>1
  <2>3. <<x>> \o t = Append(<<x>> \o u, y)
    <3> DEFINE v == <<x>> \o t
               w == <<x>> \o u
    <3>1. /\ v \in Seq(Seq(T)) /\ Len(v) = n + 2 /\ v[1] = x
          /\ \A i \in 2 .. n + 2 : v[i] = t[i - 1]
      <4>1. /\ v \in Seq(Seq(T)) /\ Len(v) = Len(t) + 1 /\ v[1] = x
            /\ \A i \in 2 .. Len(t) + 1 : v[i] = t[i - 1]
        BY PushIs
      <4> HIDE DEF v
      <4>2. Len(t) + 1 = n + 2
        BY <2>0
      <4>3. QED
        BY <4>1, <4>2
    <3>2. /\ w \in Seq(Seq(T)) /\ Len(w) = n + 1 /\ w[1] = x
          /\ \A i \in 2 .. n + 1 : w[i] = u[i - 1]
      <4>1. /\ w \in Seq(Seq(T)) /\ Len(w) = Len(u) + 1 /\ w[1] = x
            /\ \A i \in 2 .. Len(u) + 1 : w[i] = u[i - 1]
        BY <2>1, PushIs
      <4> HIDE DEF w
      <4>2. QED
        BY <2>1, <4>1
    <3>3. \A i \in 1 .. n : t[i] = u[i]
      BY <2>1, AppendProperties
    <3>4. t[n + 1] = y
      BY <2>1, AppendProperties
    <3> HIDE DEF v, w
    <3>5. /\ Append(w, y) \in Seq(Seq(T)) /\ Len(Append(w, y)) = n + 2
          /\ \A i \in 1 .. n + 1 : Append(w, y)[i] = w[i]
          /\ Append(w, y)[n + 2] = y
      <4>1. /\ Append(w, y) \in Seq(Seq(T)) /\ Len(Append(w, y)) = Len(w) + 1
            /\ \A i \in 1 .. Len(w) : Append(w, y)[i] = w[i]
            /\ Append(w, y)[Len(w) + 1] = y
        BY <2>1, <3>2, AppendProperties
      <4>2. Len(w) + 1 = n + 2
        BY <3>2
      <4>3. QED
        BY <3>2, <4>1, <4>2
    <3>6. ASSUME NEW i \in 1 .. n + 2 PROVE v[i] = Append(w, y)[i]
      <4>1. CASE i = 1
        BY <3>1, <3>2, <3>5, <4>1
      <4>2. CASE i \in 2 .. n + 1
        <5>1. i \in 1 .. n + 1 /\ i \in 2 .. n + 2 /\ i - 1 \in 1 .. n
          BY <4>2
        <5>2. QED
          BY <3>1, <3>2, <3>3, <3>5, <4>2, <5>1
      <4>3. CASE i = n + 2
        <5>1. i \in 2 .. n + 2 /\ i - 1 = n + 1
          BY <4>3
        <5>2. QED
          BY <3>1, <3>4, <3>5, <4>3, <5>1
      <4>4. i = 1 \/ i \in 2 .. n + 1 \/ i = n + 2
        OBVIOUS
      <4>5. QED
        BY <4>1, <4>2, <4>3, <4>4
    <3>7. v = Append(w, y)
      <4>1. v \in Seq(Seq(T)) /\ Append(w, y) \in Seq(Seq(T)) /\ Len(v) = Len(Append(w, y))
        BY <3>1, <3>5
      <4>2. \A i \in 1 .. Len(v) : v[i] = Append(w, y)[i]
        BY <3>1, <3>6
      <4>3. QED
        BY <4>1, <4>2, SeqEqual
    <3>8. QED
      BY <3>7 DEF v, w
  <2>4. FlattenSeq(Append(<<x>> \o u, y)) = FlattenSeq(<<x>> \o u) \o y
    <3>1. <<x>> \o u \in Seq(Seq(T))
      BY <2>1, PushIs
    <3>2. QED
      BY <2>1, <3>1, FlattenAppend
  <2>5. FlattenSeq(t) = FlattenSeq(u) \o y /\ FlattenSeq(u) \in Seq(T)
    BY <2>1, FlattenAppend
  <2>6. (x \o FlattenSeq(u)) \o y = x \o (FlattenSeq(u) \o y)
    <3>1. Joined(x, FlattenSeq(u), x \o FlattenSeq(u))
      BY DEF Joined
    <3>2. Joined(x, FlattenSeq(u) \o y, (x \o FlattenSeq(u)) \o y)
      BY <2>1, <2>5, <3>1, JoinedTwice
    <3>3. QED
      BY <3>2 DEF Joined
  <2>7. QED
    BY <2>2, <2>3, <2>4, <2>5, <2>6
<1>3. \A n \in Nat : n \in S
  <2> HIDE DEF S
  <2>1. QED
    BY <1>1, <1>2, SetInduction
<1>4. Len(s) \in Nat
  BY LenProperties
<1>5. QED
  BY <1>3, <1>4
=============================================================================
