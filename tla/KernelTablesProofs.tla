------------------------- MODULE KernelTablesProofs -------------------------
(***************************************************************************)
(* Proofs about the page tables of KernelMemory, for all sizes of tables,  *)
(* pools and memories: they are trees, the self-reference reaches what the *)
(* processor walks, the kernel stays mapped, and the four levels act as    *)
(* one flat table for each process.                                        *)
(***************************************************************************)
EXTENDS KernelMemoryProofs
-----------------------------------------------------------------------------
(* Addresses.                                                              *)

Digits == 0 .. TABLE_SIZE - 1

\* The pages that four indices reach.
Reach == 0 .. at(TABLE_SIZE, 0, 0, 0) - 1

LEMMA DigitIs ==
  ASSUME NEW b \in Nat, b > 0, NEW q \in Nat, NEW r \in 0 .. b - 1
  PROVE  /\ q * b + r \in Nat
         /\ (q * b + r) \div b = q
         /\ (q * b + r) % b = r
<1> DEFINE a == q * b + r
<1>1. q * b \in Nat
  OBVIOUS
<1>2. a \in Nat /\ q * b <= a /\ a < q * b + b
  BY <1>1
<1>3. a \div b \in Nat /\ (a \div b) * b <= a /\ a < (a \div b) * b + b
      /\ a % b = a - (a \div b) * b
  BY <1>2
<1>4. a \div b = q
  <2>1. ASSUME NEW d \in Nat, d * b <= a, a < d * b + b PROVE d = q
    BY <1>2, <2>1
  <2>2. QED
    BY <1>3, <2>1
<1>5. QED
  BY <1>1, <1>2, <1>3, <1>4

LEMMA QuotientIs ==
  ASSUME NEW b \in Nat, b > 0, NEW a \in Nat
  PROVE  /\ a \div b \in Nat /\ a % b \in 0 .. b - 1
         /\ a = (a \div b) * b + (a % b)
<1>1. a \div b \in Nat /\ (a \div b) * b <= a /\ a < (a \div b) * b + b
      /\ a % b = a - (a \div b) * b
  OBVIOUS
<1>2. ASSUME NEW d \in Nat, NEW r, d <= a, a < d + b, r = a - d
      PROVE  r \in 0 .. b - 1 /\ a = d + r
  BY <1>2
<1>3. (a \div b) * b \in Nat
  BY <1>1
<1>4. QED
  BY <1>1, <1>2, <1>3

LEMMA LessIsLess ==
  ASSUME NEW b \in Nat, b > 0, NEW q \in Nat, NEW k \in Nat, NEW r \in 0 .. b - 1
  PROVE  q * b + r < k * b <=> q < k
<1>1. CASE q < k
  <2>1. PICK d \in Nat : k = q + 1 + d
    BY <1>1
  <2>2. k * b = q * b + b + d * b /\ d * b \in Nat /\ q * b \in Nat
    BY <2>1
  <2>3. QED
    BY <1>1, <2>2
<1>2. CASE q >= k
  <2>1. PICK d \in Nat : q = k + d
    BY <1>2
  <2>2. q * b = k * b + d * b /\ d * b \in Nat /\ k * b \in Nat
    BY <2>1
  <2>3. QED
    BY <1>2, <2>2
<1>3. QED
  BY <1>1, <1>2

LEMMA SizeIs ==
  TABLE_SIZE \in Nat /\ TABLE_SIZE > 0 /\ TABLE_SIZE >= 8 /\ SELF \in Digits
BY ConstantsAre DEF SELF, Digits

\* What an entry of each level spans.
LEMMA SpanIs ==
  /\ span[PT] = 1 /\ span[PDT] = TABLE_SIZE /\ span[PDPT] = TABLE_SIZE * TABLE_SIZE
  /\ span[PML4] = TABLE_SIZE * TABLE_SIZE * TABLE_SIZE
<1>1. at(0, 0, 0, 1) = 1 /\ at(0, 0, 1, 0) = TABLE_SIZE
  <2>1. ASSUME NEW s \in Nat
        PROVE  ((0 * s + 0) * s + 0) * s + 1 = 1 /\ ((0 * s + 0) * s + 1) * s + 0 = s
    OBVIOUS
  <2>2. QED
    BY <2>1, SizeIs DEF at
<1>2. at(0, 1, 0, 0) = TABLE_SIZE * TABLE_SIZE
  <2>1. ASSUME NEW s \in Nat
        PROVE  ((0 * s + 1) * s + 0) * s + 0 = s * s
    OBVIOUS
  <2>2. QED
    BY <2>1, SizeIs DEF at
<1>3. at(1, 0, 0, 0) = TABLE_SIZE * TABLE_SIZE * TABLE_SIZE
  <2>1. ASSUME NEW s \in Nat
        PROVE  ((1 * s + 0) * s + 0) * s + 0 = s * s * s
    OBVIOUS
  <2>2. QED
    BY <2>1, SizeIs DEF at
<1>4. QED
  BY <1>1, <1>2, <1>3 DEF span, PT, PDT, PDPT, PML4

\* The indices of an address are those it is made of.
LEMMA AtIs ==
  ASSUME NEW i4 \in Digits, NEW i3 \in Digits, NEW i2 \in Digits, NEW i1 \in Digits
  PROVE  LET v == at(i4, i3, i2, i1)
         IN /\ v \in Reach
            /\ index(PML4, v) = i4 /\ index(PDPT, v) = i3
            /\ index(PDT, v) = i2 /\ index(PT, v) = i1
<1> DEFINE s == TABLE_SIZE
           a3 == i4 * s + i3
           a2 == a3 * s + i2
           v == a2 * s + i1
<1>1. v = at(i4, i3, i2, i1)
  BY DEF at
<1>2. /\ s \in Nat /\ s > 0 /\ i4 \in Nat /\ i4 < s
      /\ i3 \in 0 .. s - 1 /\ i2 \in 0 .. s - 1 /\ i1 \in 0 .. s - 1
  BY SizeIs DEF Digits
<1>3. a3 \in Nat /\ a3 % s = i3 /\ a3 \div s = i4
  BY <1>2, DigitIs
<1>4. a2 \in Nat /\ a2 % s = i2 /\ a2 \div s = a3
  <2> HIDE DEF a3, s
  <2>1. QED
    BY <1>2, <1>3, DigitIs
<1>5. v \in Nat /\ v % s = i1 /\ v \div s = a2
  <2> HIDE DEF a2, s
  <2>1. QED
    BY <1>2, <1>4, DigitIs
<1>6. v \div (s * s) = a3
  <2> DEFINE r == i2 * s + i1
  <2>1. ASSUME NEW x \in Nat, NEW a \in Nat, NEW b \in Nat, NEW c \in Nat
        PROVE  (a * x + b) * x + c = a * (x * x) + (b * x + c)
    OBVIOUS
  <2>2. v = a3 * (s * s) + r
    <3> HIDE DEF a3, s
    <3>1. i2 \in Nat /\ i1 \in Nat
      BY <1>2
    <3>2. QED
      BY <1>2, <1>3, <3>1, <2>1
  <2>3. r \in Nat /\ (i2 * s + i1 < s * s <=> i2 < s)
    <3> HIDE DEF s
    <3>1. QED
      BY <1>2, LessIsLess
  <2>4. r \in 0 .. s * s - 1 /\ s * s \in Nat /\ s * s > 0
    <3> HIDE DEF s
    <3>1. s * s \in Nat /\ s * s > 0
      BY <1>2
    <3>2. i2 < s
      BY <1>2
    <3>3. r < s * s
      BY <2>3, <3>2
    <3> HIDE DEF r
    <3>4. QED
      BY <2>3, <3>1, <3>3
  <2> DEFINE b == s * s
  <2> HIDE DEF r, a3, b
  <2>5. (a3 * b + r) \div b = a3
    BY <1>3, <2>4, DigitIs DEF b
  <2>6. QED
    BY <2>2, <2>5 DEF b
<1>7. v \div (s * s * s) = i4
  <2> DEFINE r == (i3 * s + i2) * s + i1
             c == i3 * s + i2
             b == s * s * s
  <2>1. ASSUME NEW x \in Nat, NEW a \in Nat, NEW d \in Nat, NEW e \in Nat, NEW f \in Nat
        PROVE  ((a * x + d) * x + e) * x + f
                 = a * (x * x * x) + ((d * x + e) * x + f)
    OBVIOUS
  <2>2. v = i4 * b + r
    <3> HIDE DEF s
    <3>1. i3 \in Nat /\ i2 \in Nat /\ i1 \in Nat
      BY <1>2
    <3>2. QED
      BY <1>2, <3>1, <2>1
  <2>3. c \in Nat /\ c < s * s
    <3> HIDE DEF s
    <3>1. i3 < s /\ i3 \in Nat
      BY <1>2
    <3>2. c \in Nat
      BY <1>2, DigitIs
    <3>3. i3 * s + i2 < s * s <=> i3 < s
      BY <1>2, <3>1, LessIsLess
    <3>4. QED
      BY <3>1, <3>2, <3>3
  <2>4. r \in Nat /\ r < (s * s) * s
    <3> HIDE DEF s, c
    <3>1. s * s \in Nat
      BY <1>2
    <3>2. c * s + i1 < (s * s) * s <=> c < s * s
      BY <1>2, <2>3, <3>1, LessIsLess
    <3>3. c * s + i1 \in Nat
      BY <1>2, <2>3, DigitIs
    <3>4. QED
      BY <2>3, <3>2, <3>3 DEF c
  <2>5. b \in Nat /\ b > 0
    <3> HIDE DEF s
    <3>1. QED
      BY <1>2
  <2> HIDE DEF r, b
  <2>6. r \in 0 .. b - 1
    <3>1. b = (s * s) * s
      BY DEF b
    <3>2. QED
      BY <2>4, <2>5, <3>1
  <2>7. (i4 * b + r) \div b = i4
    BY <1>2, <2>5, <2>6, DigitIs
  <2>8. QED
    BY <2>2, <2>7 DEF b
<1>8. v < at(s, 0, 0, 0)
  <2>1. v < ((s * s + 0) * s + 0) * s + 0
    <3> HIDE DEF s
    <3>1. i4 * s + i3 < s * s <=> i4 < s
      BY <1>2, LessIsLess
    <3>2. a3 < s * s /\ s * s \in Nat
      BY <1>2, <3>1
    <3> HIDE DEF a3
    <3>3. a3 * s + i2 < (s * s) * s <=> a3 < s * s
      BY <1>2, <1>3, <3>2, LessIsLess
    <3>4. a2 < (s * s) * s /\ (s * s) * s \in Nat
      BY <1>2, <3>2, <3>3
    <3> HIDE DEF a2
    <3>5. a2 * s + i1 < ((s * s) * s) * s <=> a2 < (s * s) * s
      BY <1>2, <1>4, <3>4, LessIsLess
    <3>6. ((s * s + 0) * s + 0) * s + 0 = ((s * s) * s) * s
      BY <1>2
    <3>7. QED
      BY <3>4, <3>5, <3>6
  <2>2. QED
    BY <2>1 DEF at
<1> HIDE DEF v, a2, a3
<1>9. i4 % s = i4
  BY <1>2
<1>10. /\ index(PML4, v) = i4 /\ index(PDPT, v) = i3
       /\ index(PDT, v) = i2 /\ index(PT, v) = i1
  <2>1. v \div 1 = v
    BY <1>5
  <2>2. QED
    BY <1>3, <1>4, <1>5, <1>6, <1>7, <1>9, <2>1, SpanIs DEF index
<1>11. v \in Reach
  <2>1. at(s, 0, 0, 0) \in Nat
    BY <1>2 DEF at
  <2>2. QED
    BY <1>5, <1>8, <2>1 DEF Reach
<1>12. QED
  BY <1>1, <1>10, <1>11

\* An address is made of its indices,
LEMMA IndicesAre ==
  ASSUME NEW v \in Reach
  PROVE  /\ \A level \in Levels : index(level, v) \in Digits
         /\ v = at(index(PML4, v), index(PDPT, v), index(PDT, v), index(PT, v))
<1> DEFINE s == TABLE_SIZE
           q1 == v \div s
           q2 == q1 \div s
           q3 == q2 \div s
<1>1. s \in Nat /\ s > 0 /\ v \in Nat /\ v < at(s, 0, 0, 0)
  <2>1. at(s, 0, 0, 0) \in Nat
    BY SizeIs DEF at
  <2>2. QED
    BY <2>1, SizeIs DEF Reach
<1> HIDE DEF s
<1>2. q1 \in Nat /\ v % s \in 0 .. s - 1 /\ v = q1 * s + (v % s)
  BY <1>1, QuotientIs
<1> HIDE DEF q1
<1>3. q2 \in Nat /\ q1 % s \in 0 .. s - 1 /\ q1 = q2 * s + (q1 % s)
  BY <1>1, <1>2, QuotientIs
<1> HIDE DEF q2
<1>4. q3 \in Nat /\ q2 % s \in 0 .. s - 1 /\ q2 = q3 * s + (q2 % s)
  BY <1>1, <1>3, QuotientIs
<1> HIDE DEF q3
<1>5. v = at(q3, q2 % s, q1 % s, v % s)
  BY <1>2, <1>3, <1>4 DEF at, s
<1>6. q3 < s
  <2>1. at(s, 0, 0, 0) = ((s * s) * s) * s /\ (s * s) * s \in Nat /\ s * s \in Nat
    <3>1. ASSUME NEW x \in Nat PROVE ((x * x + 0) * x + 0) * x + 0 = ((x * x) * x) * x
      OBVIOUS
    <3>2. QED
      BY <1>1, <3>1 DEF at, s
  <2>2. q1 * s + (v % s) < ((s * s) * s) * s <=> q1 < (s * s) * s
    BY <1>1, <1>2, <2>1, LessIsLess
  <2>3. q1 < (s * s) * s
    BY <1>1, <1>2, <2>1, <2>2
  <2>4. q2 * s + (q1 % s) < (s * s) * s <=> q2 < s * s
    BY <1>1, <1>3, <2>1, LessIsLess
  <2>5. q2 < s * s
    BY <1>3, <2>3, <2>4
  <2>6. q3 * s + (q2 % s) < s * s <=> q3 < s
    BY <1>1, <1>4, LessIsLess
  <2>7. QED
    BY <1>4, <2>5, <2>6
<1>7. q3 \in Digits /\ q2 % s \in Digits /\ q1 % s \in Digits /\ v % s \in Digits
  BY <1>1, <1>2, <1>3, <1>4, <1>6 DEF Digits, s
<1>8. /\ index(PML4, v) = q3 /\ index(PDPT, v) = q2 % s
      /\ index(PDT, v) = q1 % s /\ index(PT, v) = v % s
  BY <1>5, <1>7, AtIs
<1>9. \A level \in Levels : level = PML4 \/ level = PDPT \/ level = PDT \/ level = PT
  BY DEF Levels, PML4, PDPT, PDT, PT
<1>10. QED
  BY <1>5, <1>7, <1>8, <1>9

\* and two addresses with the same indices are the same.
SameTable(v, w) ==
  index(PML4, v) = index(PML4, w) /\ index(PDPT, v) = index(PDPT, w)
    /\ index(PDT, v) = index(PDT, w)

LEMMA SameIndices ==
  ASSUME NEW v \in Reach, NEW w \in Reach, SameTable(v, w), index(PT, v) = index(PT, w)
  PROVE  v = w
BY IndicesAre DEF SameTable

\* Addresses that do not use the self-reference.
Plain == {v \in Reach : index(PML4, v) # SELF}

LEMMA PlainAt ==
  ASSUME NEW i4 \in Digits, NEW i3 \in Digits, NEW i2 \in Digits, NEW i1 \in Digits, i4 # SELF
  PROVE  at(i4, i3, i2, i1) \in Plain
BY AtIs DEF Plain

\* The pages of a user.
LEMMA UserPagesAre ==
  /\ CODE = at(0, 0, 2, 0) /\ DATA = at(0, 0, 3, 0)
  /\ HEAP_BASE = at(0, 1, 0, 0) /\ HEAP_BASE + TABLE_SIZE = at(0, 1, 1, 0)
  /\ STACK_TOP = at(0, 4, 0, 0)
  /\ STACK_TOP - 1 = at(0, 3, TABLE_SIZE - 1, TABLE_SIZE - 1)
  /\ STACK_TOP - STACK_PAGES = at(0, 3, TABLE_SIZE - 1, TABLE_SIZE - 2)
<1>1. HEAP_BASE + TABLE_SIZE = at(0, 1, 1, 0)
  <2>1. ASSUME NEW s \in Nat
        PROVE  ((0 * s + 1) * s + 0) * s + 0 + s = ((0 * s + 1) * s + 1) * s + 0
    OBVIOUS
  <2>2. QED
    BY <2>1, SizeIs DEF HEAP_BASE, at
<1>2. STACK_TOP - 1 = at(0, 3, TABLE_SIZE - 1, TABLE_SIZE - 1)
      /\ STACK_TOP - 2 = at(0, 3, TABLE_SIZE - 1, TABLE_SIZE - 2)
  <2>1. ASSUME NEW s \in Nat
        PROVE  /\ (((0 * s + 4) * s + 0) * s + 0) - 1
                    = ((0 * s + 3) * s + (s - 1)) * s + (s - 1)
               /\ (((0 * s + 4) * s + 0) * s + 0) - 2
                    = ((0 * s + 3) * s + (s - 1)) * s + (s - 2)
    OBVIOUS
  <2>2. QED
    BY <2>1, SizeIs DEF STACK_TOP, at
<1>3. QED
  BY <1>1, <1>2 DEF CODE, DATA, HEAP_BASE, STACK_TOP, STACK_PAGES

LEMMA SmallDigits ==
  /\ {0, 1, 2, 3, 4, TABLE_SIZE - 1, TABLE_SIZE - 2} \subseteq Digits
  /\ SELF = TABLE_SIZE - 2 /\ SELF # 0 /\ SELF # TABLE_SIZE - 1 /\ SELF # 1
BY SizeIs DEF SELF, Digits

\* The pages of the kernel: one table of level 2 for all.
Rest(n) == n % TABLE_SIZE
Part(n) == n \div TABLE_SIZE

LEMMA KernelPagesAre ==
  ASSUME NEW n \in 0 .. KERNEL_PAGES - 1
  PROVE  /\ Part(n) \in Digits /\ Rest(n) \in Digits
         /\ VIR_START + n = at(TABLE_SIZE - 1, TABLE_SIZE - 2, Part(n), Rest(n))
<1> DEFINE s == TABLE_SIZE
<1>1. s \in Nat /\ s > 0 /\ n \in Nat /\ n < s * s
  <2>1. KERNEL_PAGES <= s * s /\ s * s \in Nat
    BY BootAssumption, SizeIs
  <2>2. QED
    BY <2>1, SizeIs, ConstantsAre
<1> HIDE DEF s
<1>2. n \div s \in Nat /\ n % s \in 0 .. s - 1 /\ n = (n \div s) * s + (n % s)
  BY <1>1, QuotientIs
<1>3. (n \div s) * s + (n % s) < s * s <=> n \div s < s
  BY <1>1, <1>2, LessIsLess
<1>4. Part(n) \in Digits /\ Rest(n) \in Digits
  BY <1>1, <1>2, <1>3 DEF Digits, s, Part, Rest
<1>5. VIR_START + n = at(s - 1, s - 2, Part(n), Rest(n))
  <2>1. ASSUME NEW x \in Nat, NEW p \in Nat, NEW r \in Nat, NEW k \in Nat, k = p * x + r
        PROVE  (((x - 1) * x + (x - 2)) * x + 0) * x + 0 + k
                 = (((x - 1) * x + (x - 2)) * x + p) * x + r
    BY <2>1
  <2>2. Part(n) \in Nat /\ Rest(n) \in Nat /\ n = Part(n) * s + Rest(n)
    BY <1>1, <1>2 DEF Part, Rest, s
  <2>3. QED
    BY <1>1, <2>1, <2>2 DEF VIR_START, at, s
<1>6. QED
  BY <1>4, <1>5 DEF s
-----------------------------------------------------------------------------
(* The self-reference.                                                     *)

\* One shift.
Shift(vir) == (vir \div TABLE_SIZE) + at(SELF, 0, 0, 0) * TABLE_SIZE

IsShifted(f, vir) == f = [n \in 0 .. PML4 |-> IF n = 0 THEN vir ELSE Shift(f[n - 1])]

LEMMA ShiftsAre ==
  ASSUME NEW vir
  PROVE  /\ self_ref_read_entry_vir(PT, vir) = Shift(vir)
         /\ self_ref_read_entry_vir(PDT, vir) = Shift(Shift(vir))
         /\ self_ref_read_entry_vir(PDPT, vir) = Shift(Shift(Shift(vir)))
         /\ self_ref_read_entry_vir(PML4, vir) = Shift(Shift(Shift(Shift(vir))))
<1> DEFINE v1 == Shift(vir)
           v2 == Shift(v1)
           v3 == Shift(v2)
           v4 == Shift(v3)
           g == [n \in 0 .. PML4 |-> IF n = 0 THEN vir ELSE IF n = 1 THEN v1
                                    ELSE IF n = 2 THEN v2 ELSE IF n = 3 THEN v3 ELSE v4]
           f == CHOOSE h : IsShifted(h, vir)
<1>1. \A level \in Levels : self_ref_read_entry_vir(level, vir) = f[level]
  BY DEF self_ref_read_entry_vir, IsShifted, Shift
<1>2. IsShifted(g, vir)
  <2> HIDE DEF v4
  <2>1. \A n \in 0 .. PML4 : g[n] = IF n = 0 THEN vir ELSE Shift(g[n - 1])
    <3>1. g[0] = vir /\ g[1] = v1 /\ g[2] = v2 /\ g[3] = v3 /\ g[4] = v4
      BY DEF PML4
    <3>2. v4 = Shift(v3)
      BY DEF v4
    <3>3. \A n \in 0 .. PML4 : n = 0 \/ n = 1 \/ n = 2 \/ n = 3 \/ n = 4
      BY DEF PML4
    <3> HIDE DEF g, v3
    <3>4. v3 = Shift(v2)
      BY DEF v3
    <3> HIDE DEF v2
    <3>5. v2 = Shift(v1)
      BY DEF v2
    <3> HIDE DEF v1
    <3>6. v1 = Shift(vir)
      BY DEF v1
    <3>7. QED
      BY <3>1, <3>2, <3>3, <3>4, <3>5, <3>6
  <2>2. g = [n \in 0 .. PML4 |-> g[n]]
    OBVIOUS
  <2> HIDE DEF g
  <2>3. QED
    BY <2>1, <2>2 DEF IsShifted
<1>3. IsShifted(f, vir)
  <2> HIDE DEF g
  <2>1. QED
    BY <1>2
<1> HIDE DEF f, g
<1>4. \A n \in 0 .. PML4 : f[n] = IF n = 0 THEN vir ELSE Shift(f[n - 1])
  BY <1>3 DEF IsShifted
<1>5. f[0] = vir
  BY <1>4 DEF PML4
<1>6. f[1] = v1
  BY <1>4, <1>5 DEF PML4
<1> HIDE DEF v1
<1>7. f[2] = v2
  BY <1>4, <1>6 DEF PML4
<1> HIDE DEF v2
<1>8. f[3] = v3
  BY <1>4, <1>7 DEF PML4
<1> HIDE DEF v3
<1>9. f[4] = v4
  BY <1>4, <1>8 DEF PML4
<1>10. QED
  BY <1>1, <1>6, <1>7, <1>8, <1>9 DEF v1, v2, v3, v4, Levels, PT, PDT, PDPT, PML4

\* It moves every index one place on.
At5(i4, i3, i2, i1, i0) == at(i4, i3, i2, i1) * TABLE_SIZE + i0

LEMMA ShiftIs ==
  ASSUME NEW i4 \in Digits, NEW i3 \in Digits, NEW i2 \in Digits, NEW i1 \in Digits,
         NEW i0 \in Digits
  PROVE  Shift(At5(i4, i3, i2, i1, i0)) = At5(SELF, i4, i3, i2, i1)
<1>1. at(i4, i3, i2, i1) \in Nat /\ TABLE_SIZE \in Nat /\ TABLE_SIZE > 0
      /\ i0 \in 0 .. TABLE_SIZE - 1 /\ SELF \in Nat
      /\ i4 \in Nat /\ i3 \in Nat /\ i2 \in Nat /\ i1 \in Nat
  <2>1. at(i4, i3, i2, i1) \in Reach /\ at(TABLE_SIZE, 0, 0, 0) \in Nat
    BY SizeIs, AtIs DEF at
  <2>2. QED
    BY <2>1, SizeIs DEF Reach, Digits
<1>2. At5(i4, i3, i2, i1, i0) \div TABLE_SIZE = at(i4, i3, i2, i1)
  BY <1>1, DigitIs DEF At5
<1>3. ASSUME NEW s \in Nat, NEW e \in Nat, NEW a \in Nat, NEW b \in Nat, NEW c \in Nat,
             NEW d \in Nat
      PROVE  (((a * s + b) * s + c) * s + d) + (((e * s + 0) * s + 0) * s + 0) * s
               = (((e * s + a) * s + b) * s + c) * s + d
  OBVIOUS
<1>4. QED
  BY <1>1, <1>2, <1>3 DEF Shift, At5, at

\* A processor that starts at a table walks through the entries on the way.
Walk(T, r, v, level) == walk(T, r, v)[level]

LEMMA WalkIs ==
  ASSUME NEW T, NEW r, NEW v
  PROVE  /\ Walk(T, r, v, PML4) = r
         /\ Walk(T, r, v, PDPT) = content(T, r, index(PML4, v)).to
         /\ Walk(T, r, v, PDT) = content(T, Walk(T, r, v, PDPT), index(PDPT, v)).to
         /\ Walk(T, r, v, PT) = content(T, Walk(T, r, v, PDT), index(PDT, v)).to
         /\ translate(T, r, v) = content(T, Walk(T, r, v, PT), index(PT, v))
BY DEF Walk, walk, translate, PML4, PDPT, PDT, PT

\* Through the self-reference it stays at its root, once for each level.
LEMMA SelfRefIs ==
  ASSUME NEW T, NEW r, content(T, r, SELF).to = r, NEW v \in Reach, NEW level \in Levels
  PROVE  self_ref(T, r, level, v) = <<Walk(T, r, v, level), index(level, v)>>
<1> DEFINE i4 == index(PML4, v)
           i3 == index(PDPT, v)
           i2 == index(PDT, v)
           i1 == index(PT, v)
<1>1. /\ i4 \in Digits /\ i3 \in Digits /\ i2 \in Digits /\ i1 \in Digits
      /\ SELF \in Digits /\ 0 \in Digits /\ v = at(i4, i3, i2, i1)
  BY IndicesAre, SizeIs, SmallDigits DEF Levels, PT, PDT, PDPT, PML4
<1> HIDE DEF i4, i3, i2, i1
<1>2. v * TABLE_SIZE = At5(i4, i3, i2, i1, 0)
  <2>1. v * TABLE_SIZE \in Nat
    BY SizeIs DEF Reach
  <2>2. QED
    BY <1>1, <2>1 DEF At5
<1>3. /\ self_ref_read_entry_vir(PT, v * TABLE_SIZE) = At5(SELF, i4, i3, i2, i1)
      /\ self_ref_read_entry_vir(PDT, v * TABLE_SIZE) = At5(SELF, SELF, i4, i3, i2)
      /\ self_ref_read_entry_vir(PDPT, v * TABLE_SIZE) = At5(SELF, SELF, SELF, i4, i3)
      /\ self_ref_read_entry_vir(PML4, v * TABLE_SIZE) = At5(SELF, SELF, SELF, SELF, i4)
  BY <1>1, <1>2, ShiftsAre, ShiftIs
<1>4. ASSUME NEW a \in Digits, NEW b \in Digits, NEW c \in Digits, NEW d \in Digits,
             NEW e \in Digits
      PROVE  /\ At5(a, b, c, d, e) \div TABLE_SIZE = at(a, b, c, d)
             /\ At5(a, b, c, d, e) % TABLE_SIZE = e
  <2>1. at(a, b, c, d) \in Nat /\ e \in 0 .. TABLE_SIZE - 1
    <3>1. at(a, b, c, d) \in Reach /\ at(TABLE_SIZE, 0, 0, 0) \in Nat
      BY SizeIs, AtIs DEF at
    <3>2. QED
      BY <3>1, SizeIs DEF Reach, Digits
  <2>2. QED
    BY <2>1, SizeIs, DigitIs DEF At5
<1>5. ASSUME NEW a \in Digits, NEW b \in Digits, NEW c \in Digits
      PROVE  translate(T, r, at(SELF, a, b, c)).to
               = content(T, content(T, content(T, r, a).to, b).to, c).to
  <2>1. /\ index(PML4, at(SELF, a, b, c)) = SELF /\ index(PDPT, at(SELF, a, b, c)) = a
        /\ index(PDT, at(SELF, a, b, c)) = b /\ index(PT, at(SELF, a, b, c)) = c
    BY <1>1, AtIs
  <2>2. QED
    BY <2>1, WalkIs
<1> DEFINE w(l) == Walk(T, r, v, l)
<1>6. /\ w(PML4) = r /\ w(PDPT) = content(T, r, i4).to
      /\ w(PDT) = content(T, w(PDPT), i3).to /\ w(PT) = content(T, w(PDT), i2).to
  BY WalkIs DEF i4, i3, i2
<1> HIDE DEF w
<1>7. /\ translate(T, r, at(SELF, i4, i3, i2)).to = w(PT)
      /\ translate(T, r, at(SELF, SELF, i4, i3)).to = w(PDT)
      /\ translate(T, r, at(SELF, SELF, SELF, i4)).to = w(PDPT)
      /\ translate(T, r, at(SELF, SELF, SELF, SELF)).to = w(PML4)
  <2>0. {SELF, i4, i3, i2} \subseteq Digits
    BY <1>1
  <2>1. translate(T, r, at(SELF, i4, i3, i2)).to
          = content(T, content(T, content(T, r, i4).to, i3).to, i2).to
    BY <1>5, <2>0
  <2>2. translate(T, r, at(SELF, SELF, i4, i3)).to
          = content(T, content(T, content(T, r, SELF).to, i4).to, i3).to
    BY <1>5, <2>0
  <2>3. translate(T, r, at(SELF, SELF, SELF, i4)).to
          = content(T, content(T, content(T, r, SELF).to, SELF).to, i4).to
    BY <1>5, <2>0
  <2>4. translate(T, r, at(SELF, SELF, SELF, SELF)).to
          = content(T, content(T, content(T, r, SELF).to, SELF).to, SELF).to
    BY <1>5, <2>0
  <2>5. QED
    BY <1>6, <2>1, <2>2, <2>3, <2>4
<1>8. /\ self_ref(T, r, PT, v) = <<w(PT), i1>> /\ self_ref(T, r, PDT, v) = <<w(PDT), i2>>
      /\ self_ref(T, r, PDPT, v) = <<w(PDPT), i3>>
      /\ self_ref(T, r, PML4, v) = <<w(PML4), i4>>
  BY <1>1, <1>3, <1>4, <1>7 DEF self_ref
<1>9. level = PT \/ level = PDT \/ level = PDPT \/ level = PML4
  BY DEF Levels, PT, PDT, PDPT, PML4
<1>10. QED
  BY <1>8, <1>9 DEF i4, i3, i2, i1, w
-----------------------------------------------------------------------------
(* Trees.                                                                  *)

\* Entries that lead to a table of the next level; lev is the level of each.
Inner(lev, t, i) == lev[t] # PT /\ ~(lev[t] = PML4 /\ i = SELF)

IsEntry(T, t, i) == content(T, t, i) # NoEntry

Leading(T, lev) ==
  \A t \in DOMAIN T : \A i :
    IsEntry(T, t, i) /\ Inner(lev, t, i) =>
      /\ content(T, t, i).to \in DOMAIN T
      /\ lev[content(T, t, i).to] = lev[t] - 1
      /\ "P" \in content(T, t, i).bits

\* No two of them lead to the same.
Single(T, lev) ==
  \A t, u \in DOMAIN T : \A i, j :
    /\ IsEntry(T, t, i) /\ Inner(lev, t, i) /\ IsEntry(T, u, j) /\ Inner(lev, u, j)
    /\ content(T, t, i).to = content(T, u, j).to
    => t = u /\ i = j

Selves(T, lev) ==
  \A t \in DOMAIN T : lev[t] = PML4 /\ IsEntry(T, t, SELF) =>
    content(T, t, SELF) = entry(t, {"P"})

\* A page is mapped to one of the kernel or to a frame that is no table.
LeafOk(T, F, e) ==
  /\ e.to \in (0 .. KERNEL_PAGES - 1) \cup (F \ DOMAIN T)
  /\ ~({"COW", "W"} \subseteq e.bits)

Leaves(T, F, lev) ==
  \A t \in DOMAIN T : lev[t] = PT => \A i : LeafOk(T, F, content(T, t, i))

Tree(T, F, lev) ==
  /\ lev \in [DOMAIN T -> Levels]
  /\ Leading(T, lev) /\ Single(T, lev) /\ Selves(T, lev) /\ Leaves(T, F, lev)

\* Tables begin behind page 0.
Tables(T) == 0 \notin DOMAIN T

LEMMA ContentIs ==
  ASSUME NEW T, NEW t, NEW i
  PROVE  /\ t \notin DOMAIN T => ~IsEntry(T, t, i)
         /\ IsEntry(T, t, i) => t \in DOMAIN T /\ i \in DOMAIN T[t]
                                /\ content(T, t, i) = T[t][i]
         /\ ~IsEntry(T, t, i) => content(T, t, i).to = 0
         /\ content(T, t, i).to # 0 => IsEntry(T, t, i)
BY DEF content, IsEntry, NoEntry

LEMMA LevelsAre ==
  /\ PT = 1 /\ PDT = 2 /\ PDPT = 3 /\ PML4 = 4
  /\ Levels = {PT, PDT, PDPT, PML4}
BY DEF PT, PDT, PDPT, PML4, Levels

\* A walk goes down one level with each table.
WalksTo(T, lev, r, v, level) ==
  Walk(T, r, v, level) # 0 =>
    Walk(T, r, v, level) \in DOMAIN T /\ lev[Walk(T, r, v, level)] = level

LEMMA WalkDown ==
  ASSUME NEW T, NEW F, NEW lev, Tree(T, F, lev), Tables(T), NEW v \in Plain,
         NEW r \in DOMAIN T, lev[r] = PML4
  PROVE  \A level \in Levels : WalksTo(T, lev, r, v, level)
<1> DEFINE w(l) == Walk(T, r, v, l)
<1>1. /\ w(PML4) = r /\ w(PDPT) = content(T, r, index(PML4, v)).to
      /\ w(PDT) = content(T, w(PDPT), index(PDPT, v)).to
      /\ w(PT) = content(T, w(PDT), index(PDT, v)).to
  BY WalkIs
<1>2. WalksTo(T, lev, r, v, PML4)
  BY <1>1 DEF WalksTo
<1>3. index(PML4, v) # SELF
  BY DEF Plain
<1> HIDE DEF w
<1>4. ASSUME NEW t \in DOMAIN T, NEW i, Inner(lev, t, i), content(T, t, i).to # 0
      PROVE  content(T, t, i).to \in DOMAIN T /\ lev[content(T, t, i).to] = lev[t] - 1
  BY <1>4, ContentIs DEF Tree, Leading
<1>5. WalksTo(T, lev, r, v, PDPT)
  <2>1. Inner(lev, r, index(PML4, v))
    BY <1>3, LevelsAre DEF Inner
  <2>2. QED
    BY <1>1, <1>4, <2>1, LevelsAre DEF WalksTo, w
<1>6. WalksTo(T, lev, r, v, PDT)
  <2>1. CASE w(PDPT) = 0
    BY <1>1, <2>1, ContentIs DEF WalksTo, Tables, w
  <2>2. CASE w(PDPT) # 0
    <3>1. w(PDPT) \in DOMAIN T /\ lev[w(PDPT)] = PDPT
      BY <1>5, <2>2 DEF WalksTo, w
    <3>2. Inner(lev, w(PDPT), index(PDPT, v))
      BY <3>1, LevelsAre DEF Inner
    <3>3. QED
      BY <1>1, <1>4, <3>1, <3>2, LevelsAre DEF WalksTo, w
  <2>3. QED
    BY <2>1, <2>2
<1>7. WalksTo(T, lev, r, v, PT)
  <2>1. CASE w(PDT) = 0
    BY <1>1, <2>1, ContentIs DEF WalksTo, Tables, w
  <2>2. CASE w(PDT) # 0
    <3>1. w(PDT) \in DOMAIN T /\ lev[w(PDT)] = PDT
      BY <1>6, <2>2 DEF WalksTo, w
    <3>2. Inner(lev, w(PDT), index(PDT, v))
      BY <3>1, LevelsAre DEF Inner
    <3>3. QED
      BY <1>1, <1>4, <3>1, <3>2, LevelsAre DEF WalksTo, w
  <2>3. QED
    BY <2>1, <2>2
<1>8. QED
  BY <1>2, <1>5, <1>6, <1>7, LevelsAre

\* Where a walk arrives it has met a table at each level.
LEMMA WalkMeets ==
  ASSUME NEW T, Tables(T), NEW r, NEW v
  PROVE  /\ Walk(T, r, v, PT) # 0 =>
              Walk(T, r, v, PDT) # 0 /\ IsEntry(T, Walk(T, r, v, PDT), index(PDT, v))
         /\ Walk(T, r, v, PDT) # 0 =>
              Walk(T, r, v, PDPT) # 0 /\ IsEntry(T, Walk(T, r, v, PDPT), index(PDPT, v))
         /\ Walk(T, r, v, PDPT) # 0 => r # 0 /\ IsEntry(T, r, index(PML4, v))
         /\ translate(T, r, v) # NoEntry => Walk(T, r, v, PT) # 0
BY WalkIs, ContentIs DEF Tables, IsEntry

\* A table of the lowest level is that of one address range of one root.
LEMMA WalkSingle ==
  ASSUME NEW T, NEW F, NEW lev, Tree(T, F, lev), Tables(T), NEW v \in Plain, NEW w \in Plain,
         NEW r \in DOMAIN T, lev[r] = PML4, NEW s \in DOMAIN T, lev[s] = PML4,
         Walk(T, r, v, PT) # 0, Walk(T, r, v, PT) = Walk(T, s, w, PT)
  PROVE  r = s /\ SameTable(v, w)
<1> DEFINE a(l) == Walk(T, r, v, l)
           b(l) == Walk(T, s, w, l)
<1>1. /\ a(PDT) # 0 /\ a(PDPT) # 0 /\ IsEntry(T, a(PDT), index(PDT, v))
      /\ IsEntry(T, a(PDPT), index(PDPT, v)) /\ IsEntry(T, r, index(PML4, v))
  BY WalkMeets
<1>2. /\ b(PDT) # 0 /\ b(PDPT) # 0 /\ IsEntry(T, b(PDT), index(PDT, w))
      /\ IsEntry(T, b(PDPT), index(PDPT, w)) /\ IsEntry(T, s, index(PML4, w))
  BY WalkMeets
<1>3. /\ a(PDT) \in DOMAIN T /\ lev[a(PDT)] = PDT /\ a(PDPT) \in DOMAIN T /\ lev[a(PDPT)] = PDPT
  BY <1>1, WalkDown, LevelsAre DEF WalksTo
<1>4. /\ b(PDT) \in DOMAIN T /\ lev[b(PDT)] = PDT /\ b(PDPT) \in DOMAIN T /\ lev[b(PDPT)] = PDPT
  BY <1>2, WalkDown, LevelsAre DEF WalksTo
<1>5. /\ Inner(lev, a(PDT), index(PDT, v)) /\ Inner(lev, b(PDT), index(PDT, w))
      /\ Inner(lev, a(PDPT), index(PDPT, v)) /\ Inner(lev, b(PDPT), index(PDPT, w))
      /\ Inner(lev, r, index(PML4, v)) /\ Inner(lev, s, index(PML4, w))
  BY <1>3, <1>4, LevelsAre DEF Inner, Plain
<1>6. /\ a(PDPT) = content(T, r, index(PML4, v)).to
      /\ a(PDT) = content(T, a(PDPT), index(PDPT, v)).to
      /\ a(PT) = content(T, a(PDT), index(PDT, v)).to
  BY WalkIs
<1>7. /\ b(PDPT) = content(T, s, index(PML4, w)).to
      /\ b(PDT) = content(T, b(PDPT), index(PDPT, w)).to
      /\ b(PT) = content(T, b(PDT), index(PDT, w)).to
  BY WalkIs
<1>8. a(PT) = b(PT)
  OBVIOUS
<1> HIDE DEF a, b
<1>14. ASSUME NEW t \in DOMAIN T, NEW u \in DOMAIN T, NEW i, NEW j,
              IsEntry(T, t, i), Inner(lev, t, i), IsEntry(T, u, j), Inner(lev, u, j),
              content(T, t, i).to = content(T, u, j).to
       PROVE  t = u /\ i = j
  BY <1>14 DEF Tree, Single
<1>9. a(PDT) = b(PDT) /\ index(PDT, v) = index(PDT, w)
  <2>1. content(T, a(PDT), index(PDT, v)).to = content(T, b(PDT), index(PDT, w)).to
    BY <1>6, <1>7, <1>8
  <2>2. QED
    BY <1>1, <1>2, <1>3, <1>4, <1>5, <1>14, <2>1
<1>10. a(PDPT) = b(PDPT) /\ index(PDPT, v) = index(PDPT, w)
  BY <1>1, <1>2, <1>3, <1>4, <1>5, <1>6, <1>7, <1>9, <1>14
<1>11. r = s /\ index(PML4, v) = index(PML4, w)
  <2>1. content(T, r, index(PML4, v)).to = content(T, s, index(PML4, w)).to
    BY <1>6, <1>7, <1>10
  <2>2. QED
    BY <1>1, <1>2, <1>5, <1>14, <2>1
<1>12. QED
  BY <1>9, <1>10, <1>11 DEF SameTable
-----------------------------------------------------------------------------
(* Changes of a tree.                                                      *)

\* More frames are taken.
LEMMA TreeMoreFrames ==
  ASSUME NEW T, NEW F, NEW G, NEW lev, Tree(T, F, lev), F \subseteq G
  PROVE  Tree(T, G, lev)
BY DEF Tree, Leaves, LeafOk

SameContent(T, U) == \A t, i : content(U, t, i) = content(T, t, i)
ChangedAt(T, U, t0, i0, e) ==
  \A t, i : content(U, t, i) = IF t = t0 /\ i = i0 THEN e ELSE content(T, t, i)

\* A level for one more table.
WithLevel(T, lev, n, level) == [t \in DOMAIN T \cup {n} |-> IF t = n THEN level ELSE lev[t]]

HasLevels(D, lev, n, level, l2) ==
  /\ l2 \in [D \cup {n} -> Levels] /\ l2[n] = level
  /\ \A t \in D : l2[t] = lev[t]
  /\ \A t \in D : \A i : Inner(l2, t, i) <=> Inner(lev, t, i)

LEMMA WithLevelIs ==
  ASSUME NEW T, NEW lev, lev \in [DOMAIN T -> Levels], NEW n, n \notin DOMAIN T,
         NEW level \in Levels
  PROVE  HasLevels(DOMAIN T, lev, n, level, WithLevel(T, lev, n, level))
BY DEF WithLevel, Inner, HasLevels

\* A new table without entries, for the root of a child.
LEMMA TreeWithRoot ==
  ASSUME NEW T, NEW F, NEW lev, Tree(T, F, lev), NEW n, n \notin DOMAIN T,
         NEW U, DOMAIN U = DOMAIN T \cup {n}, SameContent(T, U), n \notin F
  PROVE  Tree(U, F, WithLevel(T, lev, n, PML4))
<1> DEFINE l2 == WithLevel(T, lev, n, PML4)
<1>1. /\ l2 \in [DOMAIN U -> Levels] /\ l2[n] = PML4
      /\ \A t \in DOMAIN T : l2[t] = lev[t]
      /\ \A t \in DOMAIN T : \A i : Inner(l2, t, i) <=> Inner(lev, t, i)
  <2>1. lev \in [DOMAIN T -> Levels] /\ PML4 \in Levels
    BY LevelsAre DEF Tree
  <2>2. HasLevels(DOMAIN T, lev, n, PML4, l2)
    BY <2>1, WithLevelIs
  <2> HIDE DEF l2
  <2>3. QED
    BY <2>2 DEF HasLevels
<1> HIDE DEF l2
<1>2. \A t, i : IsEntry(U, t, i) => IsEntry(T, t, i) /\ t \in DOMAIN T
  BY ContentIs DEF SameContent, IsEntry
<1>3. Leading(U, l2)
  BY <1>1, <1>2 DEF Tree, Leading, SameContent
<1>4. Single(U, l2)
  BY <1>1, <1>2 DEF Tree, Single, SameContent
<1>5. Selves(U, l2)
  BY <1>1, <1>2 DEF Tree, Selves, SameContent
<1>6. Leaves(U, F, l2)
  <2>1. F \ DOMAIN U = F \ DOMAIN T
    OBVIOUS
  <2>2. QED
    BY <1>1, <2>1, LevelsAre DEF Tree, Leaves, LeafOk, SameContent
<1>7. QED
  BY <1>1, <1>3, <1>4, <1>5, <1>6 DEF Tree, l2

\* A new table, and the entry that leads to it.
Links(T, U, t0, i0, e) ==
  /\ e.to \notin DOMAIN T /\ e # NoEntry /\ "P" \in e.bits
  /\ DOMAIN U = DOMAIN T \cup {e.to}
  /\ ChangedAt(T, U, t0, i0, e)
  /\ t0 \in DOMAIN T /\ ~IsEntry(T, t0, i0)

LEMMA TreeWithTable ==
  ASSUME NEW T, NEW F, NEW lev, Tree(T, F, lev), NEW t0, NEW i0, NEW U, NEW e,
         Links(T, U, t0, i0, e), Inner(lev, t0, i0), NEW G, F \subseteq G,
         e.to \notin F
  PROVE  Tree(U, G, WithLevel(T, lev, e.to, lev[t0] - 1))
<1> DEFINE n == e.to
           l2 == WithLevel(T, lev, n, lev[t0] - 1)
<1>1. n \notin DOMAIN T /\ DOMAIN U = DOMAIN T \cup {n} /\ t0 \in DOMAIN T /\ t0 # n
  BY DEF Links
<1>2. lev[t0] - 1 \in Levels /\ lev[t0] \in Levels
  BY <1>1, LevelsAre DEF Tree, Inner
<1>3. /\ l2 \in [DOMAIN U -> Levels] /\ l2[n] = lev[t0] - 1
      /\ \A t \in DOMAIN T : l2[t] = lev[t]
      /\ \A t \in DOMAIN T : \A i : Inner(l2, t, i) <=> Inner(lev, t, i)
  <2>1. lev \in [DOMAIN T -> Levels]
    BY DEF Tree
  <2>2. HasLevels(DOMAIN T, lev, n, lev[t0] - 1, l2)
    BY <1>1, <1>2, <2>1, WithLevelIs
  <2> HIDE DEF l2, n
  <2>3. QED
    BY <1>1, <2>2 DEF HasLevels
<1>4. \A t, i : content(U, t, i) = IF t = t0 /\ i = i0 THEN e ELSE content(T, t, i)
  BY DEF Links, ChangedAt
<1>5. e # NoEntry /\ "P" \in e.bits /\ ~IsEntry(T, t0, i0)
  BY DEF Links
<1>6. \A t, i : IsEntry(U, t, i) =>
        t \in DOMAIN T /\ ((t = t0 /\ i = i0) \/ (IsEntry(T, t, i) /\ ~(t = t0 /\ i = i0)))
  BY <1>1, <1>4, <1>5, ContentIs DEF IsEntry
<1> HIDE DEF l2
<1>7. Leading(U, l2)
  <2> SUFFICES ASSUME NEW t \in DOMAIN U, NEW i, IsEntry(U, t, i), Inner(l2, t, i)
               PROVE  /\ content(U, t, i).to \in DOMAIN U
                      /\ l2[content(U, t, i).to] = l2[t] - 1
                      /\ "P" \in content(U, t, i).bits
    BY DEF Leading
  <2>1. CASE t = t0 /\ i = i0
    BY <1>1, <1>3, <1>4, <1>5, <2>1
  <2>2. CASE ~(t = t0 /\ i = i0)
    <3>1. t \in DOMAIN T /\ IsEntry(T, t, i) /\ Inner(lev, t, i)
      BY <1>3, <1>6, <2>2
    <3>2. /\ content(T, t, i).to \in DOMAIN T
          /\ lev[content(T, t, i).to] = lev[t] - 1 /\ "P" \in content(T, t, i).bits
      BY <3>1 DEF Tree, Leading
    <3>3. content(U, t, i) = content(T, t, i)
      BY <1>4, <2>2
    <3>4. QED
      BY <1>1, <1>3, <3>1, <3>2, <3>3
  <2>3. QED
    BY <2>1, <2>2
<1>8. Single(U, l2)
  <2>1. ASSUME NEW t \in DOMAIN T, NEW i, IsEntry(T, t, i), Inner(lev, t, i)
        PROVE  content(T, t, i).to \in DOMAIN T /\ content(T, t, i).to # n
    BY <1>1, <2>1 DEF Tree, Leading
  <2> SUFFICES ASSUME NEW t \in DOMAIN U, NEW u \in DOMAIN U, NEW i, NEW j,
                      IsEntry(U, t, i), Inner(l2, t, i), IsEntry(U, u, j), Inner(l2, u, j),
                      content(U, t, i).to = content(U, u, j).to
               PROVE  t = u /\ i = j
    BY DEF Single
  <2>2. CASE t = t0 /\ i = i0 /\ ~(u = t0 /\ j = i0)
    BY <1>3, <1>4, <1>6, <2>1, <2>2
  <2>3. CASE ~(t = t0 /\ i = i0) /\ u = t0 /\ j = i0
    BY <1>3, <1>4, <1>6, <2>1, <2>3
  <2>4. CASE ~(t = t0 /\ i = i0) /\ ~(u = t0 /\ j = i0)
    <3>1. /\ t \in DOMAIN T /\ IsEntry(T, t, i) /\ Inner(lev, t, i)
          /\ u \in DOMAIN T /\ IsEntry(T, u, j) /\ Inner(lev, u, j)
      BY <1>3, <1>6, <2>4
    <3>2. content(T, t, i).to = content(T, u, j).to
      BY <1>4, <2>4
    <3>3. QED
      BY <3>1, <3>2 DEF Tree, Single
  <2>5. QED
    BY <2>2, <2>3, <2>4
<1>9. Selves(U, l2)
  <2> SUFFICES ASSUME NEW t \in DOMAIN U, l2[t] = PML4, IsEntry(U, t, SELF)
               PROVE  content(U, t, SELF) = entry(t, {"P"})
    BY DEF Selves
  <2>1. t \in DOMAIN T /\ lev[t] = PML4
    BY <1>3, <1>6
  <2>2. ~(t = t0 /\ SELF = i0)
    BY <2>1 DEF Inner
  <2>3. QED
    BY <1>4, <1>6, <2>1, <2>2 DEF Tree, Selves
<1>10. Leaves(U, G, l2)
  <2> SUFFICES ASSUME NEW t \in DOMAIN U, l2[t] = PT, NEW i
               PROVE  LeafOk(U, G, content(U, t, i))
    BY DEF Leaves
  <2>1. CASE t = n
    <3>1. content(U, t, i) = NoEntry
      BY <1>1, <1>4, <2>1, ContentIs DEF IsEntry
    <3>2. 0 \in 0 .. KERNEL_PAGES - 1
      BY ConstantsAre
    <3>3. QED
      BY <3>1, <3>2 DEF LeafOk, NoEntry
  <2>2. CASE t # n
    <3>1. t \in DOMAIN T /\ lev[t] = PT /\ t # t0
      BY <1>1, <1>3, <2>2 DEF Inner
    <3>2. LeafOk(T, F, content(T, t, i))
      BY <3>1 DEF Tree, Leaves
    <3>3. F \ DOMAIN T \subseteq G \ DOMAIN U
      BY <1>1
    <3>4. QED
      BY <1>4, <3>1, <3>2, <3>3 DEF LeafOk
  <2>3. QED
    BY <2>1, <2>2
<1>11. QED
  BY <1>3, <1>7, <1>8, <1>9, <1>10 DEF Tree, l2

\* Entries of one table of the lowest level.
LeavesChange(T, U, F, t0) ==
  /\ DOMAIN U = DOMAIN T
  /\ \A t, i : t # t0 => content(U, t, i) = content(T, t, i)
  /\ \A i : LeafOk(T, F, content(U, t0, i))

LEMMA TreeWithLeaves ==
  ASSUME NEW T, NEW F, NEW lev, Tree(T, F, lev), NEW t0 \in DOMAIN T, lev[t0] = PT, NEW U,
         LeavesChange(T, U, F, t0)
  PROVE  Tree(U, F, lev)
<1>1. /\ DOMAIN U = DOMAIN T
      /\ \A t, i : t # t0 => content(U, t, i) = content(T, t, i)
      /\ \A i : LeafOk(T, F, content(U, t0, i))
  BY DEF LeavesChange
<1>2. \A t, i : Inner(lev, t, i) => t # t0
  BY DEF Inner
<1>3. Leading(U, lev)
  BY <1>1, <1>2 DEF Tree, Leading, IsEntry
<1>4. Single(U, lev)
  BY <1>1, <1>2 DEF Tree, Single, IsEntry
<1>5. Selves(U, lev)
  BY <1>1, LevelsAre DEF Tree, Selves, IsEntry
<1>6. Leaves(U, F, lev)
  BY <1>1 DEF Tree, Leaves, LeafOk
<1>7. QED
  BY <1>1, <1>3, <1>4, <1>5, <1>6 DEF Tree

\* The entry of a root for itself.
LEMMA TreeWithSelf ==
  ASSUME NEW T, NEW F, NEW lev, Tree(T, F, lev), NEW r \in DOMAIN T, lev[r] = PML4, NEW U,
         DOMAIN U = DOMAIN T, ChangedAt(T, U, r, SELF, entry(r, {"P"}))
  PROVE  Tree(U, F, lev)
<1>1. \A t, i : content(U, t, i) = IF t = r /\ i = SELF THEN entry(r, {"P"}) ELSE content(T, t, i)
  BY DEF ChangedAt
<1>2. \A t, i : Inner(lev, t, i) => content(U, t, i) = content(T, t, i)
  BY <1>1 DEF Inner
<1>3. Leading(U, lev)
  BY <1>2 DEF Tree, Leading, IsEntry
<1>4. Single(U, lev)
  BY <1>2 DEF Tree, Single, IsEntry
<1>5. Selves(U, lev)
  BY <1>1 DEF Tree, Selves, IsEntry
<1>6. Leaves(U, F, lev)
  BY <1>1, LevelsAre DEF Tree, Leaves, LeafOk
<1>7. QED
  BY <1>3, <1>4, <1>5, <1>6 DEF Tree
-----------------------------------------------------------------------------
(* What walks make of a change.                                            *)

SameWalk(T, U, r, v) == \A level \in Levels : Walk(U, r, v, level) = Walk(T, r, v, level)

\* What a walk finds at one level does not change.
SameStep(T, U, r, v, level) ==
  content(U, Walk(T, r, v, level), index(level, v)) = content(T, Walk(T, r, v, level), index(level, v))

LEMMA SameSteps ==
  ASSUME NEW T, NEW U, NEW r, NEW v,
         \A level \in {PML4, PDPT, PDT} : SameStep(T, U, r, v, level)
  PROVE  SameWalk(T, U, r, v)
<1>1. Walk(U, r, v, PML4) = Walk(T, r, v, PML4)
  BY WalkIs
<1>2. Walk(U, r, v, PDPT) = Walk(T, r, v, PDPT)
  BY WalkIs DEF SameStep
<1>3. Walk(U, r, v, PDT) = Walk(T, r, v, PDT)
  BY <1>2, WalkIs DEF SameStep
<1>4. Walk(U, r, v, PT) = Walk(T, r, v, PT)
  BY <1>3, WalkIs DEF SameStep
<1>5. QED
  BY <1>1, <1>2, <1>3, <1>4, LevelsAre DEF SameWalk

LEMMA SameContentWalks ==
  ASSUME NEW T, NEW U, SameContent(T, U), NEW r, NEW v
  PROVE  SameWalk(T, U, r, v) /\ translate(U, r, v) = translate(T, r, v)
<1>1. SameWalk(T, U, r, v)
  BY SameSteps DEF SameContent, SameStep
<1>2. QED
  BY <1>1, WalkIs, LevelsAre DEF SameContent, SameWalk

\* A table that nothing is in changes no translation, and no walk that has
\* met tables so far.
Lengthens(T, U, r, v) ==
  \A level \in Levels : Walk(T, r, v, level) # 0 => Walk(U, r, v, level) = Walk(T, r, v, level)

LEMMA LinkWalks ==
  ASSUME NEW T, NEW F, NEW lev, Tree(T, F, lev), Tables(T), NEW t0, NEW i0, NEW U, NEW e,
         Links(T, U, t0, i0, e), Inner(lev, t0, i0),
         NEW r \in DOMAIN T, lev[r] = PML4, NEW v \in Plain
  PROVE  Lengthens(T, U, r, v) /\ translate(U, r, v) = translate(T, r, v)
<1> DEFINE n == e.to
           w(l) == Walk(T, r, v, l)
           x(l) == Walk(U, r, v, l)
           Near(l) == x(l) = w(l) \/ (w(l) = 0 /\ x(l) \in {0, n})
<1>1. \A t, i : content(U, t, i) = IF t = t0 /\ i = i0 THEN e ELSE content(T, t, i)
  BY DEF Links, ChangedAt
<1>2. /\ n \notin DOMAIN T /\ t0 \in DOMAIN T /\ t0 # 0 /\ t0 # n
      /\ content(T, t0, i0) = NoEntry
  BY DEF Links, IsEntry, Tables
<1>3. \A i : content(U, n, i) = NoEntry /\ content(T, n, i) = NoEntry
  BY <1>1, <1>2, ContentIs DEF IsEntry
<1>4. \A i : content(U, 0, i) = NoEntry /\ content(T, 0, i) = NoEntry
  BY <1>1, <1>2, ContentIs DEF IsEntry, Tables
<1>5. NoEntry.to = 0
  BY DEF NoEntry
<1>6. /\ w(PML4) = r /\ w(PDPT) = content(T, w(PML4), index(PML4, v)).to
      /\ w(PDT) = content(T, w(PDPT), index(PDPT, v)).to
      /\ w(PT) = content(T, w(PDT), index(PDT, v)).to
      /\ translate(T, r, v) = content(T, w(PT), index(PT, v))
  BY WalkIs
<1>7. /\ x(PML4) = r /\ x(PDPT) = content(U, x(PML4), index(PML4, v)).to
      /\ x(PDT) = content(U, x(PDPT), index(PDPT, v)).to
      /\ x(PT) = content(U, x(PDT), index(PDT, v)).to
      /\ translate(U, r, v) = content(U, x(PT), index(PT, v))
  BY WalkIs
<1>8. w(PT) # 0 => lev[w(PT)] = PT
  BY WalkDown, LevelsAre DEF WalksTo
<1> HIDE DEF w, x, n
<1>9. ASSUME NEW a, NEW b, b = a \/ (a = 0 /\ b \in {0, n}), NEW i
      PROVE  \/ content(U, b, i).to = content(T, a, i).to
             \/ content(T, a, i).to = 0 /\ content(U, b, i).to \in {0, n}
  <2>1. CASE b = a
    BY <1>1, <1>2, <1>5, <2>1 DEF n
  <2>2. CASE a = 0 /\ b = 0
    BY <1>4, <2>2
  <2>3. CASE a = 0 /\ b = n
    BY <1>3, <1>4, <2>3
  <2>4. QED
    BY <1>9, <2>1, <2>2, <2>3
<1>10. Near(PML4) /\ Near(PDPT) /\ Near(PDT) /\ Near(PT)
  <2>1. Near(PML4)
    BY <1>6, <1>7
  <2>2. Near(PDPT)
    BY <1>6, <1>7, <1>9, <2>1
  <2>3. Near(PDT)
    BY <1>6, <1>7, <1>9, <2>2
  <2>4. Near(PT)
    BY <1>6, <1>7, <1>9, <2>3
  <2>5. QED
    BY <2>1, <2>2, <2>3, <2>4
<1>11. Lengthens(T, U, r, v)
  BY <1>10, LevelsAre DEF Lengthens, w, x
<1>12. translate(U, r, v) = translate(T, r, v)
  <2>1. CASE x(PT) = w(PT)
    <3>1. ~(w(PT) = t0)
      BY <1>2, <1>8 DEF Inner
    <3>2. QED
      BY <1>1, <1>6, <1>7, <2>1, <3>1
  <2>2. CASE w(PT) = 0 /\ x(PT) \in {0, n}
    BY <1>3, <1>4, <1>6, <1>7, <2>2
  <2>3. QED
    BY <1>10, <2>1, <2>2
<1>13. QED
  BY <1>11, <1>12

\* Entries of the lowest level change what is found in their table only.
LEMMA LeavesWalk ==
  ASSUME NEW T, NEW F, NEW lev, Tree(T, F, lev), Tables(T), NEW t0 \in DOMAIN T, lev[t0] = PT,
         NEW U, LeavesChange(T, U, F, t0), NEW r \in DOMAIN T, lev[r] = PML4, NEW v \in Plain
  PROVE  /\ SameWalk(T, U, r, v)
         /\ translate(U, r, v) = content(U, Walk(T, r, v, PT), index(PT, v))
         /\ Walk(T, r, v, PT) # t0 => translate(U, r, v) = translate(T, r, v)
<1>1. \A t, i : t # t0 => content(U, t, i) = content(T, t, i)
  BY DEF LeavesChange
<1>2. t0 # 0
  BY DEF Tables
<1>3. \A level \in {PML4, PDPT, PDT} : Walk(T, r, v, level) # t0
  BY <1>2, WalkDown, LevelsAre DEF WalksTo
<1>4. SameWalk(T, U, r, v)
  BY <1>1, <1>3, SameSteps DEF SameStep
<1>5. Walk(U, r, v, PT) = Walk(T, r, v, PT)
  BY <1>4, LevelsAre DEF SameWalk
<1>6. QED
  BY <1>1, <1>4, <1>5, WalkIs

\* No plain address uses the entry of a root for itself.
LEMMA SelfWalks ==
  ASSUME NEW T, NEW F, NEW lev, Tree(T, F, lev), Tables(T), NEW s \in DOMAIN T, lev[s] = PML4,
         NEW U, NEW e, ChangedAt(T, U, s, SELF, e), NEW r \in DOMAIN T, lev[r] = PML4,
         NEW v \in Plain
  PROVE  SameWalk(T, U, r, v) /\ translate(U, r, v) = translate(T, r, v)
<1>1. \A t, i : ~(t = s /\ i = SELF) => content(U, t, i) = content(T, t, i)
  BY DEF ChangedAt
<1>2. s # 0 /\ index(PML4, v) # SELF
  BY DEF Tables, Plain
<1>3. \A level \in {PDPT, PDT, PT} : Walk(T, r, v, level) # s
  BY <1>2, WalkDown, LevelsAre DEF WalksTo
<1>4. \A level \in {PML4, PDPT, PDT} : SameStep(T, U, r, v, level)
  BY <1>1, <1>2, <1>3, LevelsAre DEF SameStep
<1>5. SameWalk(T, U, r, v)
  BY <1>4, SameSteps
<1>6. Walk(U, r, v, PT) = Walk(T, r, v, PT)
  BY <1>5, LevelsAre DEF SameWalk
<1>7. QED
  BY <1>1, <1>3, <1>5, <1>6, WalkIs
-----------------------------------------------------------------------------
(* Memories with trees.                                                    *)

\* Tables are pages that have been taken, with indices of a table in them.
TablesTaken(m) ==
  DOMAIN m.table \subseteq PagesAt(get_base["KERNPT"], m.used["KERNPT"])
    \cup PagesAt(get_base["USERPT"], m.used["USERPT"]) \cup m.frames
Filled(T) ==
  \A t \in DOMAIN T : \A i \in DOMAIN T[t] : i \in Digits /\ T[t][i] # NoEntry

\* P are roots, tables of the highest level.
Rooting(T, lev, P) == \A r \in P : r \in DOMAIN T /\ lev[r] = PML4

Trees(m, P) ==
  /\ Sound(m) /\ TablesTaken(m) /\ Filled(m.table)
  /\ \E lev : Tree(m.table, m.frames, lev) /\ Rooting(m.table, lev, P)

\* What the processor finds for a page, whether it meets a table at a level on
\* its way, and the entry of a root for itself.
View(m, r, v)       == translate(m.table, r, v)
Reaches(m, r, v, l) == Walk(m.table, r, v, l) # 0
SelfSet(m, r)       == content(m.table, r, SELF) = entry(r, {"P"})

\* Frames that are no tables.
PlainFrames(m) == m.frames \ DOMAIN m.table

\* What steps leave of a memory.
Keeps(m, n, P) ==
  /\ Trees(n, P) /\ m.frames \subseteq n.frames /\ PlainFrames(m) \subseteq PlainFrames(n)
  /\ \A r \in P : SelfSet(m, r) => SelfSet(n, r)
  /\ \A r \in P, v \in Plain, l \in Levels : Reaches(m, r, v, l) => Reaches(n, r, v, l)
SameViews(m, n, P) == \A r \in P, v \in Plain : View(n, r, v) = View(m, r, v)
SetsView(m, n, P, s, w, e) ==
  \A r \in P, v \in Plain : View(n, r, v) = IF r = s /\ v = w THEN e ELSE View(m, r, v)

LEMMA KeepsThen ==
  ASSUME NEW m, NEW n, NEW p, NEW P, Keeps(m, n, P), Keeps(n, p, P)
  PROVE  Keeps(m, p, P)
BY DEF Keeps

LEMMA KeepsNone ==
  ASSUME NEW m, NEW P, Trees(m, P) PROVE Keeps(m, m, P) /\ SameViews(m, m, P)
BY DEF Keeps, SameViews

LEMMA ViewsThen ==
  ASSUME NEW m, NEW n, NEW p, NEW P, SameViews(n, p, P)
  PROVE  /\ SameViews(m, n, P) => SameViews(m, p, P)
         /\ \A s, w, e : SetsView(m, n, P, s, w, e) => SetsView(m, p, P, s, w, e)
BY DEF SameViews, SetsView

LEMMA SetsAfterSame ==
  ASSUME NEW m, NEW n, NEW p, NEW P, SameViews(m, n, P), NEW s, NEW w, NEW e,
         SetsView(n, p, P, s, w, e)
  PROVE  SetsView(m, p, P, s, w, e)
BY DEF SameViews, SetsView

LEMMA NoTableAtZero ==
  ASSUME NEW m, Sound(m) PROVE Tables(m.table)
<1>1. \A t \in TablePages : t # 0
  BY BasesAre, ConstantsAre, NumbersAre DEF TablePages, Pools, Frames, Flags
<1>2. QED
  BY <1>1 DEF Sound, Tables

\* The tables stay, and more pages are taken.
LEMMA SameTablesKeep ==
  ASSUME NEW m, NEW P, Trees(m, P), NEW n, Sound(n), n.table = m.table,
         m.frames \subseteq n.frames,
         \A f \in {"KERNPT", "USERPT"} : m.used[f] \subseteq n.used[f]
  PROVE  Keeps(m, n, P) /\ SameViews(m, n, P)
<1>1. PICK lev : Tree(m.table, m.frames, lev) /\ Rooting(m.table, lev, P)
  BY DEF Trees
<1>2. Tree(n.table, n.frames, lev) /\ Rooting(n.table, lev, P)
  BY <1>1, TreeMoreFrames
<1>3. TablesTaken(n) /\ Filled(n.table)
  BY DEF Trees, TablesTaken, PagesAt
<1>4. Trees(n, P)
  BY <1>2, <1>3 DEF Trees
<1>5. QED
  BY <1>4 DEF Keeps, SameViews, View, Reaches, SelfSet, PlainFrames

\* An entry is written.
IsWritten(m, n, t0, i0, e) ==
  /\ DOMAIN n.table = DOMAIN m.table /\ Sound(n)
  /\ ChangedAt(m.table, n.table, t0, i0, e)
  /\ (Filled(m.table) /\ i0 \in Digits) => Filled(n.table)
  /\ n.used = m.used /\ n.frames = m.frames
  /\ n.halted = FALSE /\ n.global_PML4 = m.global_PML4

LEMMA Written ==
  ASSUME NEW m, Sound(m), ~m.halted, NEW t0 \in DOMAIN m.table, NEW i0, NEW e
  PROVE  IsWritten(m, set_content(m, t0, i0, e), t0, i0, e)
<1> DEFINE row == m.table[t0]
           c == IF e = NoEntry THEN [j \in DOMAIN row \ {i0} |-> row[j]] ELSE put(row, i0, e)
           n == set_content(m, t0, i0, e)
<1>1. n = [m EXCEPT !.table[t0] = IF e = NoEntry THEN [j \in DOMAIN @ \ {i0} |-> @[j]]
                                  ELSE put(@, i0, e)]
  BY DEF set_content
<1>2. n = [m EXCEPT !.table = [m.table EXCEPT ![t0] = c]]
  BY <1>1
<1>3. DOMAIN m = MemFields
  BY DEF Sound
<1>4. \A i : /\ i \in DOMAIN c <=> ((i \in DOMAIN row /\ i # i0) \/ (i = i0 /\ e # NoEntry))
             /\ i \in DOMAIN c => c[i] = IF i = i0 THEN e ELSE row[i]
  <2>1. CASE e = NoEntry
    BY <2>1
  <2>2. CASE e # NoEntry
    BY <2>2 DEF put
  <2>3. QED
    BY <2>1, <2>2
<1> HIDE DEF c, n, row
<1>5. /\ n.table = [m.table EXCEPT ![t0] = c] /\ n.used = m.used /\ n.frames = m.frames
      /\ n.halted = m.halted /\ n.global_PML4 = m.global_PML4
  BY <1>2, <1>3 DEF MemFields
<1>6. /\ DOMAIN n.table = DOMAIN m.table /\ n.table[t0] = c
      /\ \A t \in DOMAIN m.table : t # t0 => n.table[t] = m.table[t]
  BY <1>5
<1>7. ChangedAt(m.table, n.table, t0, i0, e)
  <2>1. ASSUME NEW i PROVE content(n.table, t0, i) = IF i = i0 THEN e ELSE content(m.table, t0, i)
    BY <1>4, <1>6 DEF content, row
  <2>2. ASSUME NEW t, NEW i, t # t0 PROVE content(n.table, t, i) = content(m.table, t, i)
    BY <1>6, <2>2 DEF content
  <2>3. QED
    BY <2>1, <2>2 DEF ChangedAt
<1>8. ASSUME Filled(m.table), i0 \in Digits PROVE Filled(n.table)
  BY <1>4, <1>6, <1>8 DEF Filled, row
<1>9. Sound(n)
  <2>1. Maps(m, set_content(m, t0, i0, e), {})
    BY SetContentIs
  <2>2. QED
    BY <2>1, MapsSound DEF n
<1>10. n.halted = FALSE
  BY <1>5 DEF Sound
<1>11. QED
  BY <1>5, <1>6, <1>7, <1>8, <1>9, <1>10 DEF n, IsWritten

\* An entry of the lowest level.
LEMMA LeafWritten ==
  ASSUME NEW m, NEW P, Trees(m, P), ~m.halted, NEW r \in P, NEW v \in Plain,
         Reaches(m, r, v, PT), NEW e, LeafOk(m.table, m.frames, e)
  PROVE  LET n == set_content(m, Walk(m.table, r, v, PT), index(PT, v), e)
         IN Keeps(m, n, P) /\ SetsView(m, n, P, r, v, e)
<1> DEFINE t0 == Walk(m.table, r, v, PT)
           i0 == index(PT, v)
           n == set_content(m, t0, i0, e)
<1>1. PICK lev : Tree(m.table, m.frames, lev) /\ Rooting(m.table, lev, P)
  BY DEF Trees
<1>2. Tables(m.table) /\ r \in DOMAIN m.table /\ lev[r] = PML4 /\ v \in Reach /\ i0 \in Digits
  BY <1>1, NoTableAtZero, IndicesAre, LevelsAre DEF Trees, Rooting, Plain
<1>3. t0 \in DOMAIN m.table /\ lev[t0] = PT
  BY <1>1, <1>2, WalkDown, LevelsAre DEF WalksTo, Reaches
<1>4. /\ DOMAIN n.table = DOMAIN m.table /\ Sound(n) /\ Filled(n.table)
      /\ ChangedAt(m.table, n.table, t0, i0, e)
      /\ n.used = m.used /\ n.frames = m.frames
  <2> HIDE DEF t0, i0
  <2>1. Sound(m) /\ Filled(m.table)
    BY DEF Trees
  <2>2. IsWritten(m, n, t0, i0, e)
    BY <1>3, <2>1, Written
  <2> HIDE DEF n
  <2>3. QED
    BY <1>2, <2>1, <2>2 DEF IsWritten
<1> HIDE DEF n, t0, i0
<1>5. LeavesChange(m.table, n.table, m.frames, t0)
  BY <1>1, <1>3, <1>4 DEF LeavesChange, ChangedAt, Tree, Leaves
<1>6. Tree(n.table, n.frames, lev) /\ Rooting(n.table, lev, P)
  BY <1>1, <1>3, <1>4, <1>5, TreeWithLeaves DEF Rooting
<1>7. Trees(n, P)
  BY <1>4, <1>6 DEF Trees, TablesTaken
<1>8. ASSUME NEW s \in P, NEW w \in Plain
      PROVE  /\ SameWalk(m.table, n.table, s, w)
             /\ View(n, s, w) = content(n.table, Walk(m.table, s, w, PT), index(PT, w))
             /\ Walk(m.table, s, w, PT) # t0 => View(n, s, w) = View(m, s, w)
  <2>1. s \in DOMAIN m.table /\ lev[s] = PML4
    BY <1>1 DEF Rooting
  <2>2. QED
    BY <1>1, <1>2, <1>3, <1>5, <2>1, LeavesWalk DEF View
<1>9. ASSUME NEW s \in P, NEW w \in Plain, Walk(m.table, s, w, PT) = t0
      PROVE  s = r /\ SameTable(v, w)
  <2>1. s \in DOMAIN m.table /\ lev[s] = PML4 /\ t0 # 0
    BY <1>1, <1>2, <1>3 DEF Rooting, Tables
  <2>2. QED
    BY <1>1, <1>2, <1>9, <2>1, WalkSingle DEF t0
<1>10. SetsView(m, n, P, r, v, e)
  <2> SUFFICES ASSUME NEW s \in P, NEW w \in Plain
               PROVE  View(n, s, w) = IF s = r /\ w = v THEN e ELSE View(m, s, w)
    BY DEF SetsView
  <2>1. CASE Walk(m.table, s, w, PT) # t0
    <3>1. ~(s = r /\ w = v)
      BY <2>1 DEF t0
    <3>2. QED
      BY <1>8, <2>1, <3>1
  <2>2. CASE Walk(m.table, s, w, PT) = t0
    <3>1. s = r /\ SameTable(v, w)
      BY <1>9, <2>2
    <3>2. w = v <=> index(PT, w) = i0
      BY <1>2, <3>1, SameIndices DEF i0, Plain
    <3>3. View(n, s, w) = content(n.table, t0, index(PT, w))
      BY <1>8, <2>2
    <3>4. View(m, s, w) = content(m.table, t0, index(PT, w))
      BY <2>2, WalkIs DEF View
    <3>5. QED
      BY <1>4, <3>1, <3>2, <3>3, <3>4 DEF ChangedAt
  <2>3. QED
    BY <2>1, <2>2
<1>11. \A s \in P : SelfSet(m, s) => SelfSet(n, s)
  <2>1. \A s \in P : s # t0
    BY <1>1, <1>3, LevelsAre DEF Rooting
  <2>2. QED
    BY <1>4, <2>1 DEF ChangedAt, SelfSet
<1>12. Keeps(m, n, P)
  BY <1>4, <1>7, <1>8, <1>11 DEF Keeps, Reaches, SameWalk, PlainFrames
<1>13. QED
  BY <1>10, <1>12 DEF n, t0, i0

\* The table below the entry of an address.
Next1(level) == level - 1

LEMMA WalkNext ==
  ASSUME NEW T, NEW r, NEW v, NEW level \in {PML4, PDPT, PDT}
  PROVE  Walk(T, r, v, Next1(level)) = content(T, Walk(T, r, v, level), index(level, v)).to
BY WalkIs, LevelsAre DEF Next1

\* The entries that a plain address uses above the lowest level.
LEMMA WalkInner ==
  ASSUME NEW T, NEW F, NEW lev, Tree(T, F, lev), Tables(T), NEW r \in DOMAIN T,
         lev[r] = PML4, NEW v \in Plain, NEW level \in {PML4, PDPT, PDT},
         Walk(T, r, v, level) # 0
  PROVE  /\ Walk(T, r, v, level) \in DOMAIN T /\ lev[Walk(T, r, v, level)] = level
         /\ Inner(lev, Walk(T, r, v, level), index(level, v))
         /\ index(level, v) \in Digits
<1>1. Walk(T, r, v, level) \in DOMAIN T /\ lev[Walk(T, r, v, level)] = level
  BY WalkDown, LevelsAre DEF WalksTo
<1>2. index(level, v) \in Digits /\ index(PML4, v) # SELF
  BY IndicesAre, LevelsAre DEF Plain
<1>3. QED
  BY <1>1, <1>2, LevelsAre DEF Inner

\* A table is made for the entry of an address.
IsLinked(m, n, r, v, level, e) ==
  /\ Sound(n) /\ TablesTaken(n) /\ Filled(n.table)
  /\ m.frames \subseteq n.frames /\ e.to \notin m.frames
  /\ Links(m.table, n.table, Walk(m.table, r, v, level), index(level, v), e)

LEMMA LinkKeeps ==
  ASSUME NEW m, NEW P, Trees(m, P), NEW r \in P, NEW v \in Plain,
         NEW level \in {PML4, PDPT, PDT}, Reaches(m, r, v, level),
         NEW n, NEW e, IsLinked(m, n, r, v, level, e)
  PROVE  Keeps(m, n, P) /\ SameViews(m, n, P) /\ Reaches(n, r, v, Next1(level))
<1> DEFINE T == m.table
           U == n.table
           t0 == Walk(T, r, v, level)
           i0 == index(level, v)
<1>1. PICK lev : Tree(T, m.frames, lev) /\ Rooting(T, lev, P)
  BY DEF Trees
<1>2. Tables(T) /\ Tables(U)
  BY NoTableAtZero DEF Trees, IsLinked
<1>3. r \in DOMAIN T /\ lev[r] = PML4
  BY <1>1 DEF Rooting
<1>4. t0 \in DOMAIN T /\ lev[t0] = level /\ Inner(lev, t0, i0)
  BY <1>1, <1>2, <1>3, WalkInner DEF Reaches
<1>5. Links(T, U, t0, i0, e) /\ m.frames \subseteq n.frames /\ e.to \notin m.frames
  BY DEF IsLinked
<1> DEFINE l2 == WithLevel(T, lev, e.to, lev[t0] - 1)
<1>6. Tree(U, n.frames, l2)
  BY <1>1, <1>4, <1>5, TreeWithTable
<1>7. Rooting(U, l2, P)
  <2>1. DOMAIN U = DOMAIN T \cup {e.to} /\ e.to \notin DOMAIN T
    BY <1>5 DEF Links
  <2>2. \A t \in DOMAIN T : l2[t] = lev[t]
    BY <2>1 DEF WithLevel
  <2> HIDE DEF l2
  <2>3. QED
    BY <1>1, <2>1, <2>2 DEF Rooting
<1>8. Trees(n, P)
  <2> HIDE DEF l2
  <2>1. QED
    BY <1>6, <1>7 DEF Trees, IsLinked
<1>9. ASSUME NEW s \in P, NEW w \in Plain
      PROVE  Lengthens(T, U, s, w) /\ translate(U, s, w) = translate(T, s, w)
  <2>1. s \in DOMAIN T /\ lev[s] = PML4
    BY <1>1 DEF Rooting
  <2>2. QED
    BY <1>1, <1>2, <1>4, <1>5, <2>1, LinkWalks
<1>10. SameViews(m, n, P)
  BY <1>9 DEF SameViews, View
<1>11. \A s \in P, w \in Plain, l \in Levels : Reaches(m, s, w, l) => Reaches(n, s, w, l)
  BY <1>9 DEF Reaches, Lengthens
<1>12. \A s \in P : SelfSet(m, s) => SelfSet(n, s)
  <2>1. \A s \in P : ~(s = t0 /\ SELF = i0)
    BY <1>1, <1>4 DEF Rooting, Inner
  <2>2. QED
    BY <1>5, <2>1 DEF Links, ChangedAt, SelfSet
<1>16. PlainFrames(m) \subseteq PlainFrames(n)
  BY <1>5 DEF PlainFrames, Links
<1>13. Keeps(m, n, P)
  BY <1>5, <1>8, <1>11, <1>12, <1>16 DEF Keeps
<1>14. Reaches(n, r, v, Next1(level))
  <2>1. Walk(U, r, v, level) = t0
    BY <1>9, LevelsAre DEF Lengthens, Reaches
  <2>2. content(U, t0, i0) = e /\ e.to \in DOMAIN U
    BY <1>5 DEF Links, ChangedAt
  <2>3. e.to # 0
    BY <1>2, <2>2 DEF Tables
  <2>4. Walk(U, r, v, Next1(level)) = content(U, Walk(U, r, v, level), i0).to
    BY WalkNext
  <2>5. QED
    BY <2>1, <2>2, <2>3, <2>4 DEF Reaches
<1>15. QED
  BY <1>10, <1>13, <1>14

\* Where there is an entry already, there is a table.
LEMMA EntryReaches ==
  ASSUME NEW m, NEW P, Trees(m, P), NEW r \in P, NEW v \in Plain,
         NEW level \in {PML4, PDPT, PDT}, Reaches(m, r, v, level),
         IsEntry(m.table, Walk(m.table, r, v, level), index(level, v))
  PROVE  /\ Reaches(m, r, v, Next1(level))
         /\ "P" \in content(m.table, Walk(m.table, r, v, level), index(level, v)).bits
<1>1. PICK lev : Tree(m.table, m.frames, lev) /\ Rooting(m.table, lev, P)
  BY DEF Trees
<1>2. Tables(m.table) /\ r \in DOMAIN m.table /\ lev[r] = PML4
  BY <1>1, NoTableAtZero DEF Trees, Rooting
<1> DEFINE t == Walk(m.table, r, v, level)
           i == index(level, v)
<1>3. t \in DOMAIN m.table /\ Inner(lev, t, i)
  BY <1>1, <1>2, WalkInner DEF Reaches
<1>4. content(m.table, t, i).to \in DOMAIN m.table /\ "P" \in content(m.table, t, i).bits
  BY <1>1, <1>3 DEF Tree, Leading
<1>5. content(m.table, t, i).to # 0
  BY <1>2, <1>4 DEF Tables
<1>6. QED
  BY <1>4, <1>5, WalkNext DEF Reaches

\* kmalloc of a table.
IsTable(m, n, f, page) ==
  /\ Sound(n) /\ ~m.halted /\ ~n.halted
  /\ n.table = put(m.table, page, <<>>) /\ n.frames = m.frames
  /\ page = get_base[f] + lowest(unused(m, f))
  /\ page \notin DOMAIN m.table /\ page \notin m.frames
  /\ TablesTaken(n)
  /\ \A g \in Flags : m.used[g] \subseteq n.used[g]
  /\ n.global_PML4 = m.global_PML4

PtFlags == {"KERNPT", "USERPT"}

LEMMA TableTaken ==
  ASSUME NEW m, Sound(m), TablesTaken(m), NEW f \in PtFlags, ~kmalloc(m, f).halted
  PROVE  IsTable(m, kmalloc(m, f), f, page_of(m, f))
<1> DEFINE n == kmalloc(m, f)
           x == lowest(unused(m, f))
           page == page_of(m, f)
<1>1. f \in Flags /\ f \in {"KERNPT", "USERPT"}
  BY DEF Flags, PtFlags
<1>2. /\ Takes(m, n, {f}) /\ n.global_PML4 = m.global_PML4 /\ n.frames = m.frames
      /\ ~m.halted /\ unused(m, f) # {} /\ x \in 0 .. NUMBER[f] - 1 /\ x \notin m.used[f]
      /\ n.used[f] = m.used[f] \cup {x}
  BY <1>1, KmallocIs
<1>3. n.table = put(m.table, page, <<>>)
  <2>1. n = [marked(m, f) EXCEPT !.table = put(@, page_of(m, f), <<>>)]
    BY <1>1, <1>2 DEF kmalloc
  <2>2. DOMAIN m = MemFields
    BY DEF Sound
  <2>3. DOMAIN marked(m, f) = MemFields /\ marked(m, f).table = m.table
    BY <2>2 DEF marked, MemFields
  <2>4. QED
    BY <2>1, <2>3 DEF MemFields
<1>4. page = get_base[f] + x
  BY DEF page_of
<1> HIDE DEF n, x, page
<1>5. \A g \in Flags : m.used[g] \subseteq n.used[g]
  BY <1>2 DEF Takes
<1>6. Sound(n)
  BY <1>2 DEF Takes
<1>7. page \notin DOMAIN m.table /\ page \notin m.frames
  <2>1. /\ get_base["KERNPT"] \in Nat /\ get_base["USERPT"] \in Nat
        /\ NUMBER["KERNPT"] \in Nat /\ NUMBER["USERPT"] \in Nat
        /\ get_base["KERNPT"] + NUMBER["KERNPT"] <= get_base["USERPT"]
        /\ get_base["USERPT"] + NUMBER["USERPT"] <= KERNEL_PAGES /\ KERNEL_PAGES \in Nat
    BY BasesAre, NumbersAre, ConstantsAre DEF Flags
  <2>2. \A y \in m.used["KERNPT"] : y \in 0 .. NUMBER["KERNPT"] - 1
    BY DEF Sound, Flags
  <2>3. \A y \in m.used["USERPT"] : y \in 0 .. NUMBER["USERPT"] - 1
    BY DEF Sound, Flags
  <2>4. page \notin m.frames
    <3>1. \A y \in m.frames : y >= KERNEL_PAGES
      BY <2>1, ConstantsAre DEF Sound, Frames
    <3>2. page < KERNEL_PAGES
      BY <1>1, <1>2, <1>4, <2>1
    <3>3. QED
      BY <1>2, <1>4, <2>1, <3>1, <3>2
  <2>5. page \notin PagesAt(get_base["KERNPT"], m.used["KERNPT"])
    BY <1>1, <1>2, <1>4, <2>1, <2>2 DEF PagesAt
  <2>6. page \notin PagesAt(get_base["USERPT"], m.used["USERPT"])
    BY <1>1, <1>2, <1>4, <2>1, <2>2, <2>3 DEF PagesAt
  <2>7. QED
    BY <2>4, <2>5, <2>6 DEF TablesTaken
<1>8. TablesTaken(n)
  <2>1. page \in PagesAt(get_base[f], n.used[f])
    BY <1>2, <1>4 DEF PagesAt
  <2>2. \A g \in Flags : PagesAt(get_base[g], m.used[g]) \subseteq PagesAt(get_base[g], n.used[g])
    BY <1>5 DEF PagesAt
  <2>3. DOMAIN n.table = DOMAIN m.table \cup {page}
    BY <1>3 DEF put
  <2>4. n.frames = m.frames
    BY <1>2
  <2>5. QED
    BY <1>1, <2>1, <2>2, <2>3, <2>4 DEF TablesTaken, Flags
<1>9. n.halted = FALSE \/ n.halted = TRUE
  BY <1>6 DEF Sound
<1>10. QED
  BY <1>2, <1>3, <1>4, <1>5, <1>6, <1>7, <1>8 DEF IsTable, n, x, page

\* What it makes of the tables.
LEMMA NewTableHolds ==
  ASSUME NEW T, NEW page, page \notin DOMAIN T, NEW U, U = put(T, page, <<>>)
  PROVE  /\ DOMAIN U = DOMAIN T \cup {page} /\ SameContent(T, U)
         /\ Filled(T) => Filled(U)
<1>1. /\ DOMAIN U = DOMAIN T \cup {page} /\ U[page] = <<>>
      /\ \A t \in DOMAIN T : U[t] = T[t]
  BY DEF put
<1>2. DOMAIN <<>> = {}
  OBVIOUS
<1>3. SameContent(T, U)
  BY <1>1, <1>2 DEF SameContent, content
<1>4. Filled(T) => Filled(U)
  BY <1>1, <1>2 DEF Filled
<1>5. QED
  BY <1>1, <1>3, <1>4

LEMMA LeafStaysOk ==
  ASSUME NEW m, NEW n, NEW P, Keeps(m, n, P), NEW e, LeafOk(m.table, m.frames, e)
  PROVE  LeafOk(n.table, n.frames, e)
BY DEF Keeps, PlainFrames, LeafOk

\* set_pdpt, set_pdt and set_pt.
IsMade(m, n, P, page, level) ==
  /\ Keeps(m, n, P) /\ SameViews(m, n, P) /\ ~m.halted
  /\ n.global_PML4 = m.global_PML4 /\ Reaches(n, m.global_PML4, page, Next1(level))

LEMMA TableMade ==
  ASSUME NEW m, NEW P, Trees(m, P), m.global_PML4 \in P, NEW page \in Plain,
         NEW level \in {PML4, PDPT, PDT}, Reaches(m, m.global_PML4, page, level),
         NEW flag \in PtFlags, NEW map, ~with_table(m, level, page, flag, map).halted
  PROVE  IsMade(m, with_table(m, level, page, flag, map), P, page, level)
<1> DEFINE g == m.global_PML4
           t == Walk(m.table, g, page, level)
           i == index(level, page)
           user == IF map = "USER_MAP" THEN {"U"} ELSE {}
           e == entry(page_of(m, flag), {"P", "W"} \cup user)
           a == kmalloc(m, flag)
           n == with_table(m, level, page, flag, map)
<1>1. n = IF m.halted \/ IsEntry(m.table, t, i) THEN m ELSE set_content(a, t, i, e)
  BY DEF with_table, Walk, IsEntry
<1>2. CASE m.halted
  BY <1>1, <1>2
<1>3. CASE ~m.halted /\ IsEntry(m.table, t, i)
  <2>1. n = m
    BY <1>1, <1>3
  <2>2. Reaches(m, g, page, Next1(level))
    BY <1>3, EntryReaches
  <2> HIDE DEF n
  <2>3. QED
    BY <1>3, <2>1, <2>2, KeepsNone DEF IsMade, n
<1>4. CASE ~m.halted /\ ~IsEntry(m.table, t, i)
  <2>1. n = set_content(a, t, i, e)
    BY <1>1, <1>4
  <2>2. Sound(m) /\ TablesTaken(m) /\ Filled(m.table)
    BY DEF Trees
  <2>3. Sound(a) /\ flag \in Flags
    <3>1. flag \in Flags
      BY DEF PtFlags, Flags
    <3>2. Takes(m, a, {flag})
      BY <2>2, <3>1, KmallocIs
    <3>3. QED
      BY <3>1, <3>2 DEF Takes
  <2> HIDE DEF n, a
  <2>4. ~a.halted
    <3>1. set_content(a, t, i, e).halted = a.halted
      BY <2>3, SetContentIs
    <3>2. QED
      BY <2>1, <3>1 DEF n
  <2>5. IsTable(m, a, flag, page_of(m, flag))
    BY <2>2, <2>4, TableTaken DEF a
  <2> DEFINE new == page_of(m, flag)
  <2> HIDE DEF new, t, i
  <2>6. /\ DOMAIN a.table = DOMAIN m.table \cup {new} /\ SameContent(m.table, a.table)
        /\ Filled(a.table) /\ new \notin DOMAIN m.table /\ new \notin m.frames
        /\ a.frames = m.frames /\ TablesTaken(a) /\ a.global_PML4 = g
    <3>1. a.table = put(m.table, new, <<>>) /\ new \notin DOMAIN m.table
      BY <2>5 DEF IsTable, new
    <3>2. /\ DOMAIN a.table = DOMAIN m.table \cup {new} /\ SameContent(m.table, a.table)
          /\ Filled(a.table)
      BY <2>2, <3>1, NewTableHolds
    <3>3. QED
      BY <2>5, <3>1, <3>2 DEF IsTable, new
  <2>7. t \in DOMAIN m.table /\ i \in Digits
    <3>1. PICK lev : Tree(m.table, m.frames, lev) /\ Rooting(m.table, lev, P)
      BY DEF Trees
    <3>2. Tables(m.table) /\ g \in DOMAIN m.table /\ lev[g] = PML4
      BY <2>2, <3>1, NoTableAtZero DEF Rooting
    <3>3. QED
      BY <3>1, <3>2, WalkInner DEF Reaches, t, i
  <2>8. IsWritten(a, n, t, i, e)
    <3>1. t \in DOMAIN a.table
      BY <2>6, <2>7
    <3>2. QED
      BY <2>1, <2>3, <2>4, <3>1, Written
  <2>9. e.to = new /\ e # NoEntry /\ "P" \in e.bits
    BY DEF new, entry, NoEntry
  <2> HIDE DEF e
  <2>10. Links(m.table, n.table, t, i, e)
    <3>1. DOMAIN n.table = DOMAIN a.table /\ ChangedAt(a.table, n.table, t, i, e)
      BY <2>8 DEF IsWritten
    <3>2. ChangedAt(m.table, n.table, t, i, e)
      BY <2>6, <3>1 DEF ChangedAt, SameContent
    <3>3. QED
      BY <1>4, <2>6, <2>7, <2>9, <3>1, <3>2 DEF Links
  <2>11. /\ Sound(n) /\ Filled(n.table) /\ n.frames = m.frames /\ n.global_PML4 = g
         /\ n.used = a.used /\ DOMAIN n.table = DOMAIN a.table
    BY <2>6, <2>7, <2>8 DEF IsWritten
  <2>12. TablesTaken(n)
    BY <2>6, <2>11 DEF TablesTaken
  <2>13. IsLinked(m, n, g, page, level, e)
    BY <2>6, <2>9, <2>10, <2>11, <2>12 DEF IsLinked, t, i
  <2>14. Keeps(m, n, P) /\ SameViews(m, n, P) /\ Reaches(n, g, page, Next1(level))
    BY <2>13, LinkKeeps
  <2>15. QED
    BY <1>4, <2>11, <2>14 DEF IsMade, n
<1>5. QED
  BY <1>2, <1>3, <1>4

\* The entry of a root for itself.
LEMMA SelfWritten ==
  ASSUME NEW m, NEW P, Trees(m, P), ~m.halted, m.global_PML4 \in P
  PROVE  LET n == self_referenced(m)
         IN Keeps(m, n, P) /\ SameViews(m, n, P) /\ SelfSet(n, m.global_PML4)
<1> DEFINE g == m.global_PML4
           e == entry(g, {"P"})
           n == self_referenced(m)
<1>1. PICK lev : Tree(m.table, m.frames, lev) /\ Rooting(m.table, lev, P)
  BY DEF Trees
<1>2. Tables(m.table) /\ g \in DOMAIN m.table /\ lev[g] = PML4
  BY <1>1, NoTableAtZero DEF Trees, Rooting
<1>3. IsWritten(m, n, g, SELF, e)
  <2>1. Sound(m)
    BY DEF Trees
  <2> HIDE DEF g, e
  <2>2. IsWritten(m, set_content(m, g, SELF, e), g, SELF, e)
    BY <1>2, <2>1, Written
  <2>3. QED
    BY <2>2 DEF self_referenced, g, e
<1> HIDE DEF n
<1>4. /\ DOMAIN n.table = DOMAIN m.table /\ Sound(n) /\ n.used = m.used /\ n.frames = m.frames
      /\ ChangedAt(m.table, n.table, g, SELF, e) /\ Filled(n.table)
  BY <1>3, SizeIs DEF IsWritten, Trees
<1>5. Tree(n.table, n.frames, lev) /\ Rooting(n.table, lev, P)
  BY <1>1, <1>2, <1>4, TreeWithSelf DEF Rooting
<1>6. Trees(n, P)
  BY <1>4, <1>5 DEF Trees, TablesTaken
<1>7. ASSUME NEW s \in P, NEW w \in Plain
      PROVE  SameWalk(m.table, n.table, s, w) /\ View(n, s, w) = View(m, s, w)
  <2>1. s \in DOMAIN m.table /\ lev[s] = PML4
    BY <1>1 DEF Rooting
  <2>2. QED
    BY <1>1, <1>2, <1>4, <2>1, SelfWalks DEF View
<1>8. \A s \in P : SelfSet(m, s) => SelfSet(n, s)
  BY <1>4 DEF ChangedAt, SelfSet
<1>9. SelfSet(n, g)
  BY <1>4 DEF ChangedAt, SelfSet
<1>10. Keeps(m, n, P) /\ SameViews(m, n, P)
  BY <1>4, <1>6, <1>7, <1>8 DEF Keeps, SameViews, Reaches, SameWalk, PlainFrames
<1>11. QED
  BY <1>9, <1>10 DEF n

\* map_virmem_to_phymem.
IsMapped(m, n, P, page, e) ==
  /\ Keeps(m, n, P) /\ ~m.halted
  /\ SetsView(m, n, P, m.global_PML4, page, e)
  /\ Reaches(n, m.global_PML4, page, PT) /\ SelfSet(n, m.global_PML4)
  /\ n.global_PML4 = m.global_PML4

LEMMA RootReaches ==
  ASSUME NEW m, NEW P, Trees(m, P), NEW r \in P, NEW v
  PROVE  Reaches(m, r, v, PML4) /\ r \in DOMAIN m.table
BY WalkIs, NoTableAtZero DEF Trees, Rooting, Tables, Reaches

LEMMA MapSets ==
  ASSUME NEW m, NEW P, Trees(m, P), m.global_PML4 \in P, NEW page \in Plain, NEW e,
         LeafOk(m.table, m.frames, e), NEW flag \in PtFlags, NEW map,
         ~map_virmem_to_phymem(m, page, e, flag, map).halted
  PROVE  IsMapped(m, map_virmem_to_phymem(m, page, e, flag, map), P, page, e)
<1> DEFINE g == m.global_PML4
           a == with_table(m, PML4, page, flag, map)
           b == with_table(a, PDPT, page, flag, map)
           c == with_table(b, PDT, page, flag, map)
           d == with_entry(c, page, e)
           n == self_referenced(d)
<1>1. n = map_virmem_to_phymem(m, page, e, flag, map)
  BY DEF map_virmem_to_phymem
<1>2. flag \in Flags /\ Sound(m)
  BY DEF PtFlags, Flags, Trees
<1>3. Sound(a)
  BY <1>2, WithTableIs, MapsSound
<1>4. Sound(b)
  <2> HIDE DEF a
  <2>1. QED
    BY <1>2, <1>3, WithTableIs, MapsSound
<1>5. Sound(c)
  <2> HIDE DEF a, b
  <2>1. QED
    BY <1>2, <1>4, WithTableIs, MapsSound
<1> HIDE DEF a, b
<1>6. d = set_content(c, Walk(c.table, c.global_PML4, page, PT), index(PT, page), e)
  BY DEF with_entry, Walk
<1> HIDE DEF c
<1>7. Sound(d) /\ d.halted = c.halted /\ d.global_PML4 = c.global_PML4
  BY <1>5, <1>6, SetContentIs, MapsSound
<1> HIDE DEF d
<1>8. n.halted = d.halted /\ n.global_PML4 = d.global_PML4
  BY <1>7, SetContentIs, MapsSound DEF self_referenced
<1>9. ~c.halted
  BY <1>1, <1>7, <1>8
<1>10. ~b.halted
  <2>1. Takes(b, c, {flag})
    BY <1>2, <1>4, WithTableIs, MapsSound DEF c
  <2>2. QED
    BY <1>9, <2>1 DEF Takes
<1>11. ~a.halted
  <2>1. Takes(a, b, {flag})
    BY <1>2, <1>3, WithTableIs, MapsSound DEF b
  <2>2. QED
    BY <1>10, <2>1 DEF Takes
<1>12. IsMade(m, a, P, page, PML4)
  BY <1>11, RootReaches, TableMade DEF a
<1>13. Trees(a, P) /\ a.global_PML4 = g /\ Reaches(a, g, page, PDPT) /\ ~m.halted
  BY <1>12, LevelsAre DEF IsMade, Keeps, Next1
<1>14. IsMade(a, b, P, page, PDPT)
  BY <1>10, <1>13, TableMade DEF b
<1>15. Trees(b, P) /\ b.global_PML4 = g /\ Reaches(b, g, page, PDT)
  BY <1>13, <1>14, LevelsAre DEF IsMade, Keeps, Next1
<1>16. IsMade(b, c, P, page, PDT)
  BY <1>9, <1>15, TableMade DEF c
<1>17. Trees(c, P) /\ c.global_PML4 = g /\ Reaches(c, g, page, PT)
  BY <1>15, <1>16, LevelsAre DEF IsMade, Keeps, Next1
<1>18. Keeps(m, c, P) /\ SameViews(m, c, P)
  BY <1>12, <1>14, <1>16, KeepsThen, ViewsThen DEF IsMade
<1>19. Keeps(c, d, P) /\ SetsView(c, d, P, g, page, e)
  <2>1. LeafOk(c.table, c.frames, e)
    BY <1>18, LeafStaysOk
  <2>2. QED
    BY <1>6, <1>9, <1>17, <2>1, LeafWritten
<1>20. Keeps(d, n, P) /\ SameViews(d, n, P) /\ SelfSet(n, g)
  BY <1>7, <1>9, <1>17, <1>19, SelfWritten DEF Keeps
<1> HIDE DEF n
<1>21. Keeps(m, n, P)
  BY <1>18, <1>19, <1>20, KeepsThen
<1>22. SetsView(m, n, P, g, page, e)
  BY <1>18, <1>19, <1>20, SetsAfterSame, ViewsThen
<1>23. Reaches(n, g, page, PT)
  BY <1>17, <1>19, <1>20, LevelsAre DEF Keeps
<1>24. n.global_PML4 = g
  BY <1>7, <1>8, <1>17
<1>25. IsMapped(m, n, P, page, e)
  BY <1>13, <1>20, <1>21, <1>22, <1>23, <1>24 DEF IsMapped
<1>26. QED
  BY <1>1, <1>25
-----------------------------------------------------------------------------
(* The kernel's pages.                                                     *)

LEMMA WalkOfSame ==
  ASSUME NEW T, NEW r, NEW v, NEW w, SameTable(v, w)
  PROVE  Walk(T, r, v, PT) = Walk(T, r, w, PT)
BY WalkIs DEF SameTable

\* Those that one table maps.
PartStart(k) == VIR_START + k * TABLE_SIZE
PartPages(k) == {PartStart(k) + j : j \in Digits}
Parts == KERNEL_PAGES \div TABLE_SIZE

LEMMA PartsAre ==
  /\ Parts \in Nat /\ Parts * TABLE_SIZE = KERNEL_PAGES
  /\ \A k \in 0 .. Parts - 1, j \in Digits :
       /\ k * TABLE_SIZE + j \in 0 .. KERNEL_PAGES - 1
       /\ Part(k * TABLE_SIZE + j) = k /\ Rest(k * TABLE_SIZE + j) = j
<1> DEFINE s == TABLE_SIZE
<1>1. s \in Nat /\ s > 0 /\ KERNEL_PAGES \in Nat /\ KERNEL_PAGES % s = 0
  BY SizeIs, KernelMemoryAssumption
<1>2. Parts \in Nat /\ KERNEL_PAGES = Parts * s + (KERNEL_PAGES % s)
  <2> HIDE DEF s
  <2>1. QED
    BY <1>1, QuotientIs DEF Parts, s
<1> HIDE DEF s
<1>3. Parts * s = KERNEL_PAGES
  BY <1>1, <1>2
<1>4. ASSUME NEW k \in 0 .. Parts - 1, NEW j \in Digits
      PROVE  /\ k * s + j \in 0 .. KERNEL_PAGES - 1
             /\ (k * s + j) \div s = k /\ (k * s + j) % s = j
  <2>1. k \in Nat /\ k < Parts /\ j \in 0 .. s - 1
    BY <1>2 DEF Digits, s
  <2>2. k * s + j < Parts * s
    BY <1>1, <1>2, <2>1, LessIsLess
  <2>3. k * s + j \in Nat /\ (k * s + j) \div s = k /\ (k * s + j) % s = j
    BY <1>1, <2>1, DigitIs
  <2>4. QED
    BY <1>1, <1>3, <2>2, <2>3
<1>5. QED
  BY <1>2, <1>3, <1>4 DEF Part, Rest, s

LEMMA PartStartIs ==
  ASSUME NEW k \in 0 .. Parts - 1
  PROVE  /\ PartStart(k) \in Plain /\ VIR_START \in Nat
         /\ \A j \in Digits : /\ PartStart(k) + j = VIR_START + (k * TABLE_SIZE + j)
                              /\ PartStart(k) + j \in Plain
                              /\ SameTable(PartStart(k), PartStart(k) + j)
                              /\ index(PT, PartStart(k) + j) = j
         /\ \A w \in Plain : SameTable(PartStart(k), w) => w = PartStart(k) + index(PT, w)
<1>1. VIR_START \in Nat /\ k * TABLE_SIZE \in Nat
  <2>1. k \in Nat
    BY PartsAre
  <2>2. at(TABLE_SIZE - 1, TABLE_SIZE - 2, 0, 0) \in Reach /\ at(TABLE_SIZE, 0, 0, 0) \in Nat
    BY SizeIs, AtIs, SmallDigits DEF at
  <2>3. QED
    BY <2>1, <2>2, SizeIs DEF VIR_START, Reach
<1>2. ASSUME NEW j \in Digits
      PROVE  /\ PartStart(k) + j = VIR_START + (k * TABLE_SIZE + j)
             /\ k \in Digits
             /\ PartStart(k) + j = at(TABLE_SIZE - 1, TABLE_SIZE - 2, k, j)
  <2>1. PartStart(k) + j = VIR_START + (k * TABLE_SIZE + j)
    BY <1>1 DEF PartStart, Digits
  <2>2. k * TABLE_SIZE + j \in 0 .. KERNEL_PAGES - 1 /\ Part(k * TABLE_SIZE + j) = k
        /\ Rest(k * TABLE_SIZE + j) = j
    BY PartsAre
  <2>3. QED
    BY <2>1, <2>2, KernelPagesAre
<1>3. ASSUME NEW j \in Digits
      PROVE  /\ PartStart(k) + j \in Plain /\ index(PT, PartStart(k) + j) = j
             /\ index(PML4, PartStart(k) + j) = TABLE_SIZE - 1
             /\ index(PDPT, PartStart(k) + j) = TABLE_SIZE - 2
             /\ index(PDT, PartStart(k) + j) = k
  BY <1>2, AtIs, PlainAt, SmallDigits
<1>4. PartStart(k) + 0 = PartStart(k) /\ 0 \in Digits
  BY <1>1, SmallDigits DEF PartStart
<1>5. /\ PartStart(k) \in Plain /\ index(PML4, PartStart(k)) = TABLE_SIZE - 1
      /\ index(PDPT, PartStart(k)) = TABLE_SIZE - 2 /\ index(PDT, PartStart(k)) = k
  BY <1>3, <1>4
<1>6. ASSUME NEW w \in Plain, SameTable(PartStart(k), w)
      PROVE  w = PartStart(k) + index(PT, w)
  <2>1. index(PT, w) \in Digits /\ w \in Reach
    BY IndicesAre, LevelsAre DEF Plain
  <2>2. SameTable(w, PartStart(k) + index(PT, w))
    BY <1>3, <1>5, <1>6, <2>1 DEF SameTable
  <2>3. PartStart(k) + index(PT, w) \in Reach /\ index(PT, PartStart(k) + index(PT, w)) = index(PT, w)
    BY <1>3, <2>1 DEF Plain
  <2>4. QED
    BY <2>1, <2>2, <2>3, SameIndices
<1>7. \A j \in Digits : SameTable(PartStart(k), PartStart(k) + j)
  BY <1>3, <1>5 DEF SameTable
<1>8. QED
  BY <1>1, <1>2, <1>3, <1>5, <1>6, <1>7

KernelEntry(v) == entry(v - VIR_START, {"P", "W"})

SetsPart(m, n, P, k) ==
  \A r \in P, v \in Plain :
    View(n, r, v) = IF r = m.global_PML4 /\ v \in PartPages(k) THEN KernelEntry(v)
                    ELSE View(m, r, v)

KernelEntryOk(T, F) ==
  \A n \in 0 .. KERNEL_PAGES - 1 : LeafOk(T, F, entry(n, {"P", "W"}))

LEMMA KernelEntriesOk ==
  ASSUME NEW T, NEW F PROVE KernelEntryOk(T, F)
BY DEF KernelEntryOk, LeafOk, entry

\* A table is filled.
IsRest(m, n, t0, first) ==
  /\ DOMAIN n.table = DOMAIN m.table /\ Sound(n) /\ n.used = m.used /\ n.frames = m.frames
  /\ n.global_PML4 = m.global_PML4 /\ n.halted = m.halted
  /\ \A t, i : t # t0 => content(n.table, t, i) = content(m.table, t, i)
  /\ \A i \in Digits : content(n.table, t0, i) = entry(first + i, {"P", "W"})
  /\ \A i : i \notin Digits => content(n.table, t0, i) = NoEntry
  /\ Filled(m.table) => Filled(n.table)

LEMMA RestWritten ==
  ASSUME NEW m, Sound(m), ~m.halted, NEW first,
         Walk(m.table, m.global_PML4, VIR_START + first, PT) \in DOMAIN m.table
  PROVE  IsRest(m, map_rest(m, first), Walk(m.table, m.global_PML4, VIR_START + first, PT), first)
<1> DEFINE t0 == Walk(m.table, m.global_PML4, VIR_START + first, PT)
           row == [j \in 0 .. TABLE_SIZE - 1 |-> entry(first + j, {"P", "W"})]
           n == [m EXCEPT !.table[t0] = row]
<1>1. map_rest(m, first) = n
  BY DEF map_rest, Walk
<1>2. DOMAIN m = MemFields
  BY DEF Sound
<1>3. /\ DOMAIN row = Digits
      /\ \A i \in Digits : row[i] = entry(first + i, {"P", "W"}) /\ row[i] # NoEntry
  BY DEF Digits, entry, NoEntry
<1>4. Sound(n)
  BY <1>1, MapRestIs, MapsSound
<1> HIDE DEF row
<1>5. /\ n.table = [m.table EXCEPT ![t0] = row] /\ n.used = m.used /\ n.frames = m.frames
      /\ n.halted = m.halted /\ n.global_PML4 = m.global_PML4
  BY <1>2 DEF MemFields
<1> HIDE DEF n, t0
<1>6. t0 \in DOMAIN m.table
  BY DEF t0
<1>7. /\ DOMAIN n.table = DOMAIN m.table /\ n.table[t0] = row
      /\ \A t \in DOMAIN m.table : t # t0 => n.table[t] = m.table[t]
  BY <1>5, <1>6
<1>8. \A t, i : t # t0 => content(n.table, t, i) = content(m.table, t, i)
  BY <1>7 DEF content
<1>9. /\ \A i \in Digits : content(n.table, t0, i) = entry(first + i, {"P", "W"})
      /\ \A i : i \notin Digits => content(n.table, t0, i) = NoEntry
  BY <1>3, <1>6, <1>7 DEF content
<1>10. Filled(m.table) => Filled(n.table)
  BY <1>3, <1>7 DEF Filled
<1>11. IsRest(m, n, t0, first)
  BY <1>4, <1>5, <1>7, <1>8, <1>9, <1>10 DEF IsRest
<1>12. QED
  BY <1>1, <1>11 DEF t0

LEMMA RestSets ==
  ASSUME NEW m, NEW P, Trees(m, P), ~m.halted, m.global_PML4 \in P,
         NEW k \in 0 .. Parts - 1, Reaches(m, m.global_PML4, PartStart(k), PT)
  PROVE  LET n == map_rest(m, k * TABLE_SIZE)
         IN /\ Keeps(m, n, P) /\ SetsPart(m, n, P, k)
            /\ n.global_PML4 = m.global_PML4 /\ n.halted = m.halted
<1> DEFINE g == m.global_PML4
           first == k * TABLE_SIZE
           t0 == Walk(m.table, g, PartStart(k), PT)
           n == map_rest(m, first)
<1>1. PICK lev : Tree(m.table, m.frames, lev) /\ Rooting(m.table, lev, P)
  BY DEF Trees
<1>2. Tables(m.table) /\ g \in DOMAIN m.table /\ lev[g] = PML4 /\ PartStart(k) \in Plain
  BY <1>1, NoTableAtZero, PartStartIs DEF Trees, Rooting
<1>3. t0 \in DOMAIN m.table /\ lev[t0] = PT /\ t0 # 0
  BY <1>1, <1>2, WalkDown, LevelsAre DEF WalksTo, Reaches
<1>4. IsRest(m, n, t0, first)
  BY <1>3, RestWritten DEF Trees, PartStart
<1> HIDE DEF n, t0, first
<1>5. LeavesChange(m.table, n.table, m.frames, t0)
  <2>1. ASSUME NEW i PROVE LeafOk(m.table, m.frames, content(n.table, t0, i))
    <3>1. CASE i \in Digits
      <4>1. first + i \in 0 .. KERNEL_PAGES - 1
        BY <3>1, PartsAre DEF first
      <4>2. QED
        BY <1>4, <3>1, <4>1, KernelEntriesOk DEF IsRest, KernelEntryOk
    <3>2. CASE i \notin Digits
      BY <1>4, <3>2, ConstantsAre DEF IsRest, LeafOk, NoEntry
    <3>3. QED
      BY <3>1, <3>2
  <2>2. QED
    BY <1>4, <2>1 DEF LeavesChange, IsRest
<1>6. Tree(n.table, n.frames, lev) /\ Rooting(n.table, lev, P)
  BY <1>1, <1>3, <1>4, <1>5, TreeWithLeaves DEF Rooting, IsRest
<1>7. Trees(n, P)
  BY <1>4, <1>6 DEF Trees, TablesTaken, IsRest
<1>8. ASSUME NEW s \in P, NEW w \in Plain
      PROVE  /\ SameWalk(m.table, n.table, s, w)
             /\ View(n, s, w) = content(n.table, Walk(m.table, s, w, PT), index(PT, w))
             /\ Walk(m.table, s, w, PT) # t0 => View(n, s, w) = View(m, s, w)
  <2>1. s \in DOMAIN m.table /\ lev[s] = PML4
    BY <1>1 DEF Rooting
  <2>2. QED
    BY <1>1, <1>2, <1>3, <1>5, <2>1, LeavesWalk DEF View
<1>9. SetsPart(m, n, P, k)
  <2> SUFFICES ASSUME NEW s \in P, NEW w \in Plain
               PROVE  View(n, s, w) = IF s = g /\ w \in PartPages(k) THEN KernelEntry(w)
                                      ELSE View(m, s, w)
    BY DEF SetsPart
  <2>1. CASE Walk(m.table, s, w, PT) = t0
    <3>1. s \in DOMAIN m.table /\ lev[s] = PML4
      BY <1>1 DEF Rooting
    <3>2. s = g /\ SameTable(PartStart(k), w)
      BY <1>1, <1>2, <1>3, <2>1, <3>1, WalkSingle DEF t0
    <3>3. w = PartStart(k) + index(PT, w) /\ index(PT, w) \in Digits
      BY <3>2, PartStartIs, IndicesAre, LevelsAre DEF Plain
    <3>4. w \in PartPages(k)
      BY <3>3 DEF PartPages
    <3>5. w = VIR_START + (first + index(PT, w)) /\ first + index(PT, w) \in Nat
          /\ VIR_START \in Nat
      BY <3>3, PartStartIs, PartsAre DEF first
    <3>6. w - VIR_START = first + index(PT, w)
      BY <3>5
    <3>7. View(n, s, w) = entry(first + index(PT, w), {"P", "W"})
      BY <1>4, <1>8, <2>1, <3>3 DEF IsRest
    <3>8. QED
      BY <3>2, <3>4, <3>6, <3>7 DEF KernelEntry
  <2>2. CASE Walk(m.table, s, w, PT) # t0
    <3>1. ~(s = g /\ w \in PartPages(k))
      <4>1. ASSUME s = g, NEW j \in Digits, w = PartStart(k) + j PROVE FALSE
        BY <2>2, <4>1, PartStartIs, WalkOfSame DEF t0
      <4>2. QED
        BY <4>1 DEF PartPages
    <3>2. QED
      BY <1>8, <2>2, <3>1
  <2>3. QED
    BY <2>1, <2>2
<1>10. \A s \in P : SelfSet(m, s) => SelfSet(n, s)
  <2>1. \A s \in P : s # t0
    BY <1>1, <1>3, LevelsAre DEF Rooting
  <2>2. QED
    BY <1>4, <2>1 DEF IsRest, SelfSet
<1>11. Keeps(m, n, P)
  BY <1>4, <1>7, <1>8, <1>10 DEF Keeps, Reaches, SameWalk, PlainFrames, IsRest
<1>12. n.global_PML4 = m.global_PML4 /\ n.halted = m.halted
  BY <1>4 DEF IsRest
<1>13. QED
  BY <1>9, <1>11, <1>12 DEF n, first

\* One table of map_kernel, and all of them.
SetsKernel(m, n, P, k) ==
  \A r \in P, v \in Plain :
    View(n, r, v) =
      IF r = m.global_PML4 /\ \E x \in 0 .. k * TABLE_SIZE - 1 : v = VIR_START + x
      THEN KernelEntry(v) ELSE View(m, r, v)

IsPart(m, n, P, k) ==
  /\ Keeps(m, n, P) /\ SetsPart(m, n, P, k) /\ SelfSet(n, m.global_PML4)
  /\ n.global_PML4 = m.global_PML4 /\ ~m.halted

LEMMA PartSets ==
  ASSUME NEW m, NEW P, Trees(m, P), m.global_PML4 \in P, NEW k \in 0 .. Parts - 1,
         NEW flag \in PtFlags, ~KernelPart(m, k + 1, flag).halted
  PROVE  IsPart(m, KernelPart(m, k + 1, flag), P, k)
<1> DEFINE g == m.global_PML4
           e == entry(k * TABLE_SIZE, {"P", "W"})
           a == map_virmem_to_phymem(m, PartStart(k), e, flag, "KERN_MAP")
           n == map_rest(a, k * TABLE_SIZE)
<1>1. k \in Nat /\ (k + 1) - 1 = k
  BY PartsAre
<1>2. n = KernelPart(m, k + 1, flag)
  BY <1>1 DEF KernelPart, PartStart
<1>3. PartStart(k) \in Plain
  BY PartStartIs
<1>4. LeafOk(m.table, m.frames, e)
  <2>1. 0 \in Digits /\ k * TABLE_SIZE + 0 = k * TABLE_SIZE
    BY <1>1, SmallDigits, SizeIs
  <2>2. k * TABLE_SIZE \in 0 .. KERNEL_PAGES - 1
    BY <2>1, PartsAre
  <2>3. QED
    BY <2>2, KernelEntriesOk DEF KernelEntryOk
<1>5. Sound(m) /\ flag \in Flags
  BY DEF Trees, PtFlags, Flags
<1>6. ~a.halted
  <2>1. Sound(a)
    BY <1>5, MapIs, MapsSound
  <2> HIDE DEF a
  <2>2. Takes(a, n, {})
    BY <2>1, MapRestIs, MapsSound
  <2>3. QED
    BY <1>2, <2>2 DEF Takes
<1> HIDE DEF e
<1>7. IsMapped(m, a, P, PartStart(k), e)
  BY <1>3, <1>4, <1>6, MapSets
<1> HIDE DEF a
<1>8. /\ Trees(a, P) /\ a.global_PML4 = g /\ Reaches(a, g, PartStart(k), PT) /\ ~m.halted
      /\ Keeps(m, a, P) /\ SelfSet(a, g) /\ SetsView(m, a, P, g, PartStart(k), e)
  BY <1>7 DEF IsMapped, Keeps
<1>9. Keeps(a, n, P) /\ SetsPart(a, n, P, k) /\ n.global_PML4 = g
  BY <1>6, <1>8, RestSets
<1> HIDE DEF n
<1>10. Keeps(m, n, P) /\ SelfSet(n, g)
  BY <1>8, <1>9, KeepsThen DEF Keeps
<1>11. SetsPart(m, n, P, k)
  <2>1. PartStart(k) \in PartPages(k)
    <3>1. PartStart(k) + 0 = PartStart(k) /\ 0 \in Digits
      BY <1>1, PartStartIs, SmallDigits, SizeIs DEF PartStart
    <3>2. QED
      BY <3>1 DEF PartPages
  <2>2. QED
    BY <1>8, <1>9, <2>1 DEF SetsPart, SetsView
<1>12. QED
  BY <1>2, <1>8, <1>9, <1>10, <1>11 DEF IsPart

KernelPages(k) == {VIR_START + x : x \in 0 .. k * TABLE_SIZE - 1}

LEMMA KernelPagesOfParts ==
  ASSUME NEW k \in 0 .. Parts - 1
  PROVE  KernelPages(k + 1) = KernelPages(k) \cup PartPages(k)
<1>1. k \in Nat /\ TABLE_SIZE \in Nat /\ VIR_START \in Nat
  BY PartsAre, PartStartIs, SizeIs
<1>2. k * TABLE_SIZE \in Nat /\ (k + 1) * TABLE_SIZE = k * TABLE_SIZE + TABLE_SIZE
  BY <1>1
<1> DEFINE a == k * TABLE_SIZE
           c == (k + 1) * TABLE_SIZE
<1>7. a \in Nat /\ c = a + TABLE_SIZE
  BY <1>2
<1>3. ASSUME NEW x \in 0 .. (k + 1) * TABLE_SIZE - 1
      PROVE  VIR_START + x \in KernelPages(k) \cup PartPages(k)
  <2>1. CASE x < a
    <3>1. x \in 0 .. k * TABLE_SIZE - 1
      BY <1>2, <2>1
    <3>2. QED
      BY <3>1 DEF KernelPages
  <2>2. CASE x >= a
    <3>0. x \in 0 .. c - 1
      OBVIOUS
    <3> HIDE DEF a, c
    <3>1. a \in Nat /\ x \in 0 .. a + TABLE_SIZE - 1
      BY <1>1, <1>7, <3>0
    <3>2. x - a \in Digits /\ VIR_START + a + (x - a) = VIR_START + x
      BY <1>1, <2>2, <3>1 DEF Digits
    <3>3. QED
      BY <3>2 DEF PartPages, PartStart, a
  <2>3. QED
    BY <1>2, <2>1, <2>2
<1>4. ASSUME NEW x \in 0 .. k * TABLE_SIZE - 1 PROVE VIR_START + x \in KernelPages(k + 1)
  <2>1. x \in 0 .. (k + 1) * TABLE_SIZE - 1
    BY <1>1, <1>2
  <2>2. QED
    BY <2>1 DEF KernelPages
<1>5. ASSUME NEW j \in Digits PROVE PartStart(k) + j \in KernelPages(k + 1)
  <2> HIDE DEF a, c
  <2>1. a \in Nat /\ j \in 0 .. TABLE_SIZE - 1
    BY <1>2 DEF a, Digits
  <2>2. a + j \in 0 .. a + TABLE_SIZE - 1
    BY <1>1, <2>1
  <2>3. a + j \in 0 .. (k + 1) * TABLE_SIZE - 1
    <3>1. a + j \in 0 .. c - 1
      BY <1>1, <1>7, <2>2
    <3>2. QED
      BY <3>1 DEF c
  <2>4. PartStart(k) + j = VIR_START + (a + j)
    BY <1>1, <2>1 DEF PartStart, a
  <2>5. QED
    BY <2>3, <2>4 DEF KernelPages
<1>6. QED
  BY <1>3, <1>4, <1>5 DEF KernelPages, PartPages

IsKernelMapped(m, n, P) ==
  /\ Keeps(m, n, P) /\ SetsKernel(m, n, P, Parts) /\ SelfSet(n, m.global_PML4)
  /\ n.global_PML4 = m.global_PML4 /\ ~m.halted

\* map_kernel.
LEMMA MapKernelSets ==
  ASSUME NEW m, NEW P, Trees(m, P), m.global_PML4 \in P, NEW flag \in PtFlags,
         ~map_kernel(m, flag).halted
  PROVE  IsKernelMapped(m, map_kernel(m, flag), P)
<1> DEFINE F == CHOOSE f : KernelUpTo(f, m, flag, Parts)
           Ok(n, k) == /\ Keeps(m, n, P) /\ SetsKernel(m, n, P, k)
                       /\ k > 0 => SelfSet(n, m.global_PML4)
                       /\ n.global_PML4 = m.global_PML4 /\ ~m.halted
<1>1. Parts \in Nat /\ flag \in Flags /\ Sound(m)
  BY PartsAre DEF PtFlags, Flags, Trees
<1>2. map_kernel(m, flag) = F[Parts]
  BY Zenon DEF map_kernel, KernelUpTo, KernelItem, KernelPart, Parts
<1>3. KernelUpTo(F, m, flag, Parts)
  BY <1>1, KernelExists
<1> HIDE DEF F
<1> DEFINE S == {i \in Nat : i <= Parts => Sound(F[i]) /\ (~F[i].halted => Ok(F[i], i))}
<1>4. 0 \in S
  <2>1. F[0] = KernelItem(F, m, flag, 0)
    BY <1>1, <1>3, KernelAt
  <2>2. F[0] = m
    BY <2>1 DEF KernelItem
  <2>3. Keeps(m, m, P) /\ SameViews(m, m, P)
    BY KernelPartIs, KeepsNone
  <2>4. 0 * TABLE_SIZE = 0 /\ 0 .. 0 - 1 = {}
    BY SizeIs
  <2>5. SetsKernel(m, m, P, 0)
    BY <2>4 DEF SetsKernel
  <2>6. QED
    BY <1>1, <2>2, <2>3, <2>5
<1>5. ASSUME NEW i \in Nat, i \in S PROVE i + 1 \in S
  <2> SUFFICES ASSUME i + 1 <= Parts
               PROVE  Sound(F[i + 1]) /\ (~F[i + 1].halted => Ok(F[i + 1], i + 1))
    OBVIOUS
  <2>1. Sound(F[i]) /\ (~F[i].halted => Ok(F[i], i))
    BY <1>1, <1>5
  <2>2. F[i + 1] = KernelItem(F, m, flag, i + 1)
    BY <1>1, <1>3, KernelAt
  <2>3. F[i + 1] = KernelPart(F[i], i + 1, flag)
    BY <2>2 DEF KernelItem
  <2>4. Sound(F[i + 1]) /\ Takes(F[i], F[i + 1], {flag})
    BY <1>1, <2>1, <2>3, KernelPartIs, MapsSound
  <2>5. ASSUME ~F[i + 1].halted PROVE Ok(F[i + 1], i + 1)
    <3>1. Ok(F[i], i)
      BY <2>1, <2>4, <2>5 DEF Takes
    <3>2. Trees(F[i], P) /\ F[i].global_PML4 = m.global_PML4 /\ i \in 0 .. Parts - 1
      BY <1>1, <3>1 DEF Keeps
    <3>3. IsPart(F[i], F[i + 1], P, i)
      BY <2>3, <2>5, <3>2, PartSets
    <3>4. Keeps(m, F[i + 1], P)
      BY <3>1, <3>3, KeepsThen DEF IsPart
    <3>5. SetsKernel(m, F[i + 1], P, i + 1)
      <4>1. KernelPages(i + 1) = KernelPages(i) \cup PartPages(i)
        BY <3>2, KernelPagesOfParts
      <4>2. \A r \in P, v \in Plain :
              View(F[i + 1], r, v) = IF r = m.global_PML4 /\ v \in PartPages(i)
                                     THEN KernelEntry(v) ELSE View(F[i], r, v)
        BY <3>2, <3>3 DEF IsPart, SetsPart
      <4>3. \A r \in P, v \in Plain :
              View(F[i], r, v) = IF r = m.global_PML4 /\ v \in KernelPages(i)
                                 THEN KernelEntry(v) ELSE View(m, r, v)
        BY <3>1 DEF SetsKernel, KernelPages
      <4>4. \A r \in P, v \in Plain :
              View(F[i + 1], r, v) = IF r = m.global_PML4 /\ v \in KernelPages(i + 1)
                                     THEN KernelEntry(v) ELSE View(m, r, v)
        BY <4>1, <4>2, <4>3
      <4>5. QED
        BY <4>4 DEF SetsKernel, KernelPages
    <3>6. QED
      BY <3>1, <3>2, <3>3, <3>4, <3>5 DEF IsPart
  <2>6. QED
    BY <2>4, <2>5
<1>6. \A i \in Nat : i \in S
  <2> HIDE DEF S
  <2>1. QED
    BY <1>4, <1>5, SetInduction
<1>7. Ok(F[Parts], Parts)
  BY <1>1, <1>2, <1>6
<1>8. Parts > 0
  <2>1. KERNEL_PAGES > 0
    BY ConstantsAre
  <2>2. ASSUME Parts = 0 PROVE FALSE
    BY <2>1, <2>2, PartsAre, SizeIs
  <2>3. QED
    BY <1>1, <2>2
<1>9. QED
  BY <1>2, <1>7, <1>8 DEF IsKernelMapped
-----------------------------------------------------------------------------
(* Frames, and entries written through the self-reference.                 *)

Own(f) == entry(f, {"P", "W", "U"})

\* What is mapped is a page of the kernel, or a frame that is no table.
LEMMA ViewIsOk ==
  ASSUME NEW m, NEW P, Trees(m, P), NEW r \in P, NEW v \in Plain
  PROVE  LeafOk(m.table, m.frames, View(m, r, v))
<1>1. PICK lev : Tree(m.table, m.frames, lev) /\ Rooting(m.table, lev, P)
  BY DEF Trees
<1>2. Tables(m.table) /\ r \in DOMAIN m.table /\ lev[r] = PML4
  BY <1>1, NoTableAtZero DEF Trees, Rooting
<1> DEFINE t == Walk(m.table, r, v, PT)
<1>3. View(m, r, v) = content(m.table, t, index(PT, v))
  BY WalkIs DEF View
<1>4. CASE t = 0
  <2>1. ~IsEntry(m.table, t, index(PT, v))
    BY <1>2, <1>4, ContentIs DEF Tables
  <2> HIDE DEF t
  <2>2. View(m, r, v) = NoEntry
    BY <1>3, <2>1 DEF IsEntry
  <2>3. QED
    BY <2>2, ConstantsAre DEF LeafOk, NoEntry
<1>5. CASE t # 0
  <2>1. t \in DOMAIN m.table /\ lev[t] = PT
    BY <1>1, <1>2, <1>5, WalkDown, LevelsAre DEF WalksTo
  <2> HIDE DEF t
  <2>2. QED
    BY <1>1, <1>3, <2>1 DEF Tree, Leaves
<1>6. QED
  BY <1>4, <1>5

\* A frame is taken.
IsTaken(m, n, P, f) ==
  /\ Keeps(m, n, P) /\ SameViews(m, n, P)
  /\ n.table = m.table /\ n.used = m.used /\ n.frames = m.frames \cup {f}
  /\ n.halted = m.halted /\ n.global_PML4 = m.global_PML4
  /\ f \in Frames /\ f \notin m.frames /\ f \notin DOMAIN m.table
  /\ LeafOk(n.table, n.frames, Own(f))

LEMMA FrameTaken ==
  ASSUME NEW m, NEW P, Trees(m, P), ~m.halted, free_frames(m) # {}
  PROVE  IsTaken(m, take_frame(m), P, new_frame(m))
<1> DEFINE f == new_frame(m)
           n == take_frame(m)
<1>1. f \in Frames /\ f \notin m.frames /\ f # 0
  BY NewFrameIs
<1>2. Sound(m) /\ DOMAIN m = MemFields
  BY DEF Trees, Sound
<1>3. n.frames = m.frames \cup {f}
  BY <1>1, <1>2 DEF take_frame, MemFields
<1>4. Sound(n) /\ n.table = m.table /\ n.used = m.used /\ n.halted = m.halted
      /\ n.global_PML4 = m.global_PML4
  BY <1>2, TakeFrameIs DEF Takes
<1> HIDE DEF n, f
<1>5. Keeps(m, n, P) /\ SameViews(m, n, P)
  BY <1>3, <1>4, SameTablesKeep
<1>6. f \notin DOMAIN m.table
  <2>1. DOMAIN m.table \subseteq PagesAt(get_base["KERNPT"], m.used["KERNPT"])
          \cup PagesAt(get_base["USERPT"], m.used["USERPT"]) \cup m.frames
    BY DEF Trees, TablesTaken
  <2>2. /\ PagesAt(get_base["KERNPT"], m.used["KERNPT"]) \subseteq Pools
        /\ PagesAt(get_base["USERPT"], m.used["USERPT"]) \subseteq Pools
    <3>1. \A g \in Flags : \A i \in m.used[g] : get_base[g] + i \in Pools
      BY <1>2, PagesAre DEF Sound
    <3>2. QED
      BY <3>1 DEF PagesAt, Flags
  <2>3. f \notin Pools
    BY <1>1, BasesAre, NumbersAre, ConstantsAre DEF Pools, Frames
  <2>4. QED
    BY <1>1, <2>1, <2>2, <2>3
<1>7. LeafOk(n.table, n.frames, Own(f))
  BY <1>3, <1>4, <1>6 DEF LeafOk, Own, entry
<1>8. IsTaken(m, n, P, f)
  BY <1>1, <1>3, <1>4, <1>5, <1>6, <1>7 DEF IsTaken
<1>9. QED
  BY <1>8 DEF n, f

\* A page is mapped to a new frame.
IsGiven(m, n, P, s, w) ==
  /\ Keeps(m, n, P) /\ ~m.halted /\ n.global_PML4 = m.global_PML4
  /\ SetsView(m, n, P, s, w, Own(new_frame(m)))
  /\ n.frames = m.frames \cup {new_frame(m)}
  /\ new_frame(m) \in Frames \ m.frames

LEMMA UmallocSets ==
  ASSUME NEW m, NEW P, Trees(m, P), m.global_PML4 \in P, NEW page \in Plain,
         free_frames(m) # {}, ~umalloc(m, page).halted
  PROVE  IsGiven(m, umalloc(m, page), P, m.global_PML4, page)
<1> DEFINE f == new_frame(m)
           a == take_frame(m)
           n == map_virmem_to_phymem(a, page, Own(f), "USERPT", "USER_MAP")
<1>1. umalloc(m, page) = n
  BY DEF umalloc, Own
<1>2. "USERPT" \in PtFlags /\ "USERPT" \in Flags /\ Sound(m)
  BY DEF PtFlags, Flags, Trees
<1>3. Takes(m, a, {}) /\ Sound(a) /\ a.halted = m.halted
  BY <1>2, TakeFrameIs DEF Takes
<1> HIDE DEF a, f
<1>4. Maps(a, n, {"USERPT"})
  BY <1>2, <1>3, MapIs
<1>5. ~a.halted /\ n.frames = a.frames
  BY <1>1, <1>4, MapsSound DEF Takes
<1>6. IsTaken(m, a, P, f)
  BY <1>3, <1>5, FrameTaken DEF a, f
<1>7. IsMapped(a, n, P, page, Own(f))
  BY <1>1, <1>2, <1>5, <1>6, MapSets DEF IsTaken, Keeps
<1> HIDE DEF n
<1>8. Keeps(m, n, P)
  BY <1>6, <1>7, KeepsThen DEF IsTaken, IsMapped
<1>9. SetsView(m, n, P, m.global_PML4, page, Own(f))
  BY <1>6, <1>7, SetsAfterSame DEF IsTaken, IsMapped
<1>10. IsGiven(m, n, P, m.global_PML4, page)
  BY <1>3, <1>5, <1>6, <1>7, <1>8, <1>9 DEF IsGiven, IsTaken, IsMapped, f
<1>11. QED
  BY <1>1, <1>10

\* Reads and writes through the self-reference.
LEMMA SelfReads ==
  ASSUME NEW m, NEW r, SelfSet(m, r), NEW v \in Reach, NEW level \in Levels
  PROVE  /\ self_ref(m.table, r, level, v) = <<Walk(m.table, r, v, level), index(level, v)>>
         /\ self_ref_read(m, r, level, v) = content(m.table, Walk(m.table, r, v, level), index(level, v))
         /\ \A e : self_ref_write(m, r, level, v, e) =
                     set_content(m, Walk(m.table, r, v, level), index(level, v), e)
<1>1. content(m.table, r, SELF).to = r
  BY DEF SelfSet, entry
<1>2. self_ref(m.table, r, level, v) = <<Walk(m.table, r, v, level), index(level, v)>>
  BY <1>1, SelfRefIs
<1>3. QED
  BY <1>2 DEF self_ref_read, self_ref_write

LEMMA SelfReadsView ==
  ASSUME NEW m, NEW r, SelfSet(m, r), NEW v \in Plain
  PROVE  self_ref_read(m, r, PT, v) = View(m, r, v)
BY SelfReads, WalkIs, LevelsAre DEF View, Plain

IsStored(m, n, P, r, v, e) ==
  /\ Keeps(m, n, P) /\ SetsView(m, n, P, r, v, e)
  /\ n.frames = m.frames /\ n.used = m.used /\ n.global_PML4 = m.global_PML4 /\ ~n.halted

LEMMA SelfStores ==
  ASSUME NEW m, NEW P, Trees(m, P), ~m.halted, NEW r \in P, SelfSet(m, r), NEW v \in Plain,
         Reaches(m, r, v, PT), NEW e, LeafOk(m.table, m.frames, e)
  PROVE  IsStored(m, self_ref_write(m, r, PT, v, e), P, r, v, e)
<1> DEFINE n == set_content(m, Walk(m.table, r, v, PT), index(PT, v), e)
<1>1. self_ref_write(m, r, PT, v, e) = n
  BY SelfReads, LevelsAre DEF Plain
<1>2. Keeps(m, n, P) /\ SetsView(m, n, P, r, v, e)
  BY LeafWritten
<1>3. Sound(m)
  BY DEF Trees
<1>4. Maps(m, n, {}) /\ n.halted = m.halted /\ n.used = m.used
  BY <1>3, SetContentIs
<1> HIDE DEF n
<1>5. n.frames = m.frames /\ n.global_PML4 = m.global_PML4
  BY <1>4, MapsSound
<1>6. QED
  BY <1>1, <1>2, <1>4, <1>5 DEF IsStored
-----------------------------------------------------------------------------
(* exec.                                                                   *)

\* exec unmaps the first page of the kernel.
Seen == Plain \ {VIR_START}

SetsSeen(m, n, P, s, w, e) ==
  \A r \in P, v \in Seen : View(n, r, v) = IF r = s /\ v = w THEN e ELSE View(m, r, v)

LEMMA SeenIs ==
  ASSUME NEW m, NEW n, NEW P, NEW s, NEW w, NEW e, SetsView(m, n, P, s, w, e)
  PROVE  SetsSeen(m, n, P, s, w, e)
BY DEF SetsView, SetsSeen, Seen

LEMMA KernelPlain ==
  /\ Parts > 0 /\ KERNEL_PAGES > 1 /\ VIR_START \in Nat
  /\ VIR_START \in Plain /\ SameTable(VIR_START, VIR_START + 1)
  /\ \A n \in 0 .. KERNEL_PAGES - 1 : VIR_START + n \in Plain
  /\ \A n \in 1 .. KERNEL_PAGES - 1 : VIR_START + n \in Seen
<1>1. KERNEL_PAGES > 1
  BY ConstantsAre
<1>2. Parts > 0
  <2>1. ASSUME Parts = 0 PROVE FALSE
    BY <1>1, <2>1, PartsAre, SizeIs
  <2>2. QED
    BY <2>1, PartsAre
<1>3. 0 \in 0 .. Parts - 1 /\ 1 \in Digits /\ 0 * TABLE_SIZE = 0
  BY <1>2, PartsAre, SizeIs DEF Digits
<1>4. PartStart(0) \in Plain /\ SameTable(PartStart(0), PartStart(0) + 1) /\ VIR_START \in Nat
  BY <1>3, PartStartIs
<1>5. PartStart(0) = VIR_START
  BY <1>3, <1>4 DEF PartStart
<1>6. \A n \in 0 .. KERNEL_PAGES - 1 : VIR_START + n \in Plain
  BY KernelPagesAre, PlainAt, SmallDigits
<1>7. \A n \in 1 .. KERNEL_PAGES - 1 : VIR_START + n \in Seen
  BY <1>1, <1>4, <1>6, ConstantsAre DEF Seen
<1>8. QED
  BY <1>1, <1>2, <1>4, <1>5, <1>6, <1>7

LEMMA MappedReaches ==
  ASSUME NEW m, Sound(m), NEW r, NEW v, View(m, r, v) # NoEntry
  PROVE  Reaches(m, r, v, PT)
BY NoTableAtZero, WalkMeets DEF View, Reaches

\* The pages that a program has when it starts.
LEMMA UserPagesPlain ==
  /\ {CODE, DATA, HEAP_BASE, HEAP_BASE + TABLE_SIZE, STACK_TOP, STACK_TOP - 1,
      STACK_TOP - STACK_PAGES} \subseteq Seen
  /\ \A v \in UserPages : \A n \in 0 .. KERNEL_PAGES - 1 : v # VIR_START + n
  /\ UserPages \subseteq Seen
<1> DEFINE U == {CODE, DATA, HEAP_BASE, HEAP_BASE + TABLE_SIZE, STACK_TOP, STACK_TOP - 1,
                 STACK_TOP - STACK_PAGES}
<1>1. \A v \in U : v \in Plain /\ index(PML4, v) = 0
  <2>1. ASSUME NEW a \in Digits, NEW b \in Digits, NEW c \in Digits
        PROVE  at(0, a, b, c) \in Plain /\ index(PML4, at(0, a, b, c)) = 0
    <3>1. 0 \in Digits /\ 0 # SELF
      BY SmallDigits
    <3>2. QED
      BY <3>1, PlainAt, AtIs
  <2>2. /\ at(0, 0, 2, 0) \in Plain /\ index(PML4, at(0, 0, 2, 0)) = 0
        /\ at(0, 0, 3, 0) \in Plain /\ index(PML4, at(0, 0, 3, 0)) = 0
        /\ at(0, 1, 0, 0) \in Plain /\ index(PML4, at(0, 1, 0, 0)) = 0
        /\ at(0, 1, 1, 0) \in Plain /\ index(PML4, at(0, 1, 1, 0)) = 0
        /\ at(0, 4, 0, 0) \in Plain /\ index(PML4, at(0, 4, 0, 0)) = 0
    BY <2>1, SmallDigits
  <2>3. \A z \in {TABLE_SIZE - 1, TABLE_SIZE - 2} :
          at(0, 3, TABLE_SIZE - 1, z) \in Plain /\ index(PML4, at(0, 3, TABLE_SIZE - 1, z)) = 0
    BY <2>1, SmallDigits
  <2>4. QED
    BY <2>2, <2>3, UserPagesAre
<1>2. \A n \in 0 .. KERNEL_PAGES - 1 : index(PML4, VIR_START + n) = TABLE_SIZE - 1
  BY KernelPagesAre, SmallDigits, AtIs
<1>3. TABLE_SIZE - 1 # 0
  BY SizeIs
<1>4. \A v \in U : \A n \in 0 .. KERNEL_PAGES - 1 : v # VIR_START + n
  <2> HIDE DEF U
  <2>1. SUFFICES ASSUME NEW v \in U, NEW n \in 0 .. KERNEL_PAGES - 1, v = VIR_START + n PROVE FALSE
    OBVIOUS
  <2>2. index(PML4, v) = 0 /\ index(PML4, VIR_START + n) = TABLE_SIZE - 1
    BY <1>1, <1>2
  <2>3. QED
    BY <1>3, <2>1, <2>2
<1>5. 0 \in 0 .. KERNEL_PAGES - 1 /\ VIR_START + 0 = VIR_START
  BY KernelPlain, ConstantsAre
<1>6. U \subseteq Seen
  BY <1>1, <1>4, <1>5 DEF Seen
<1>7. UserPages = U
  BY DEF UserPages
<1>8. QED
  BY <1>4, <1>6, <1>7

\* new_stack: the page below the top of the stack gets a new frame.
IsStack(m, n, P, r) ==
  /\ Keeps(m, n, P) /\ SetsSeen(m, n, P, r, STACK_TOP - 1, Own(new_frame(m)))
  /\ n.frames = m.frames \cup {new_frame(m)} /\ n.used = m.used
  /\ n.global_PML4 = m.global_PML4 /\ ~n.halted
  /\ new_frame(m) \in Frames \ m.frames

LEMMA NoEntryOk ==
  ASSUME NEW T, NEW F PROVE LeafOk(T, F, NoEntry)
BY ConstantsAre DEF LeafOk, NoEntry

LEMMA NewStackSets ==
  ASSUME NEW m, NEW P, Trees(m, P), ~m.halted, free_frames(m) # {}, NEW r \in P, SelfSet(m, r),
         View(m, r, STACK_TOP - 1) # NoEntry, View(m, r, VIR_START + 1) # NoEntry
  PROVE  IsStack(m, new_stack(m, r), P, r)
<1> DEFINE f == new_frame(m)
           a == take_frame(m)
           b == self_ref_write(a, r, PT, VIR_START, Own(f))
           c == self_ref_write(b, r, PT, STACK_TOP - 1, self_ref_read(b, r, PT, VIR_START))
           d == self_ref_write(c, r, PT, VIR_START, NoEntry)
<1>1. new_stack(m, r) = d
  BY DEF new_stack, moved_to_stack, Own
<1>2. /\ VIR_START \in Plain /\ STACK_TOP - 1 \in Plain /\ STACK_TOP - 1 # VIR_START
      /\ SameTable(VIR_START, VIR_START + 1) /\ Sound(m)
  BY KernelPlain, UserPagesPlain DEF Seen, Trees
<1>3. Reaches(m, r, VIR_START, PT) /\ Reaches(m, r, STACK_TOP - 1, PT)
  <2>1. Reaches(m, r, VIR_START + 1, PT)
    BY <1>2, MappedReaches
  <2>2. QED
    BY <1>2, <2>1, MappedReaches, WalkOfSame DEF Reaches
<1>4. IsTaken(m, a, P, f)
  BY FrameTaken
<1> HIDE DEF a, f
<1>5. /\ Trees(a, P) /\ ~a.halted /\ SelfSet(a, r)
      /\ Reaches(a, r, VIR_START, PT) /\ Reaches(a, r, STACK_TOP - 1, PT)
      /\ LeafOk(a.table, a.frames, Own(f))
  BY <1>2, <1>3, <1>4, LevelsAre DEF IsTaken, Keeps
<1>6. IsStored(a, b, P, r, VIR_START, Own(f))
  BY <1>2, <1>5, SelfStores
<1> HIDE DEF b
<1>7. /\ Trees(b, P) /\ ~b.halted /\ SelfSet(b, r)
      /\ Reaches(b, r, VIR_START, PT) /\ Reaches(b, r, STACK_TOP - 1, PT)
  BY <1>2, <1>5, <1>6, LevelsAre DEF IsStored, Keeps
<1>8. self_ref_read(b, r, PT, VIR_START) = Own(f)
  BY <1>2, <1>6, <1>7, SelfReadsView DEF IsStored, SetsView
<1>9. LeafOk(b.table, b.frames, Own(f))
  BY <1>5, <1>6, LeafStaysOk DEF IsStored
<1>10. IsStored(b, c, P, r, STACK_TOP - 1, Own(f))
  BY <1>2, <1>7, <1>8, <1>9, SelfStores
<1> HIDE DEF c
<1>11. Trees(c, P) /\ ~c.halted /\ SelfSet(c, r) /\ Reaches(c, r, VIR_START, PT)
  BY <1>2, <1>7, <1>10, LevelsAre DEF IsStored, Keeps
<1>12. IsStored(c, d, P, r, VIR_START, NoEntry)
  BY <1>2, <1>11, NoEntryOk, SelfStores
<1> HIDE DEF d
<1>13. Keeps(m, d, P)
  BY <1>4, <1>6, <1>10, <1>12, KeepsThen DEF IsTaken, IsStored
<1>14. SetsSeen(m, d, P, r, STACK_TOP - 1, Own(f))
  BY <1>2, <1>4, <1>6, <1>10, <1>12
     DEF IsTaken, IsStored, SameViews, SetsView, SetsSeen, Seen
<1>15. /\ d.frames = m.frames \cup {f} /\ d.used = m.used /\ d.global_PML4 = m.global_PML4
       /\ ~d.halted /\ f \in Frames \ m.frames
  BY <1>4, <1>6, <1>10, <1>12 DEF IsTaken, IsStored
<1>16. QED
  BY <1>1, <1>13, <1>14, <1>15 DEF IsStack, f
-----------------------------------------------------------------------------
(* Pages of the other pools.                                               *)

\* Steps that change no table, and take none.
SameTables(m, n) ==
  /\ Sound(n) /\ n.table = m.table /\ n.frames = m.frames /\ n.global_PML4 = m.global_PML4
  /\ \A f \in PtFlags : n.used[f] = m.used[f]
  /\ m.halted => n.halted

LEMMA SameTablesThen ==
  ASSUME NEW m, NEW n, NEW p, SameTables(m, n), SameTables(n, p)
  PROVE  SameTables(m, p)
BY DEF SameTables

LEMMA SameTablesSet ==
  ASSUME NEW m, NEW P, Trees(m, P), NEW n, SameTables(m, n)
  PROVE  Keeps(m, n, P) /\ SameViews(m, n, P)
<1>1. \A f \in {"KERNPT", "USERPT"} : m.used[f] \subseteq n.used[f]
  BY DEF SameTables, PtFlags
<1>2. QED
  BY <1>1, SameTablesKeep DEF SameTables

LEMMA KmallocOther ==
  ASSUME NEW m, Sound(m), NEW f \in Flags \ PtFlags
  PROVE  SameTables(m, kmalloc(m, f))
<1> DEFINE n == kmalloc(m, f)
<1>1. Takes(m, n, {f}) /\ n.global_PML4 = m.global_PML4 /\ n.frames = m.frames
  BY KmallocIs
<1>2. n.table = m.table
  <2>1. DOMAIN m = MemFields
    BY DEF Sound
  <2>2. CASE m.halted \/ unused(m, f) = {}
    BY <2>1, <2>2 DEF kmalloc, MemFields
  <2>3. CASE ~(m.halted \/ unused(m, f) = {})
    BY <2>1, <2>3 DEF kmalloc, marked, PtFlags, MemFields
  <2>4. QED
    BY <2>2, <2>3
<1> HIDE DEF n
<1>3. QED
  BY <1>1, <1>2 DEF SameTables, Takes, PtFlags, Flags, n

LEMMA KmallocsOther ==
  ASSUME NEW m, Sound(m), NEW f \in Flags \ PtFlags
  PROVE  \A k \in Nat : SameTables(m, kmallocs(m, f, k))
<1> DEFINE p(k) == kmallocs(m, f, k)
           S == {k \in Nat : SameTables(m, p(k))}
<1>1. 0 \in S
  <2>1. p(0) = m
    BY KmallocsAre
  <2> HIDE DEF p
  <2>2. QED
    BY <2>1 DEF SameTables
<1>2. ASSUME NEW k \in Nat, k \in S PROVE k + 1 \in S
  <2>1. p(k + 1) = kmalloc(p(k), f)
    BY KmallocsAre
  <2> HIDE DEF p
  <2>2. SameTables(m, p(k)) /\ Sound(p(k))
    BY <1>2 DEF SameTables
  <2>3. SameTables(p(k), p(k + 1))
    BY <2>1, <2>2, KmallocOther
  <2>4. QED
    BY <2>2, <2>3, SameTablesThen
<1>3. \A k \in Nat : k \in S
  <2> HIDE DEF S
  <2>1. QED
    BY <1>1, <1>2, SetInduction
<1>4. QED
  BY <1>3

\* The pages of a new task.
LEMMA TaskPagesOther ==
  ASSUME NEW m, Sound(m)
  PROVE  SameTables(m, task_pages(m))
<1> DEFINE a == kmalloc(m, "TASK")
           b == kmalloc(a, "KSTACK")
           c == kmalloc(b, "MM")
           n == kmallocs(c, "VMA", AREAS)
<1>1. task_pages(m) = n
  BY DEF task_pages
<1>2. {"TASK", "KSTACK", "MM", "VMA"} \subseteq Flags \ PtFlags /\ AREAS \in Nat
  BY DEF Flags, PtFlags, AREAS
<1>3. SameTables(m, a) /\ Sound(a)
  BY <1>2, KmallocOther DEF SameTables
<1> HIDE DEF a
<1>4. SameTables(a, b) /\ Sound(b)
  BY <1>2, <1>3, KmallocOther DEF SameTables
<1> HIDE DEF b
<1>5. SameTables(b, c) /\ Sound(c)
  BY <1>2, <1>4, KmallocOther DEF SameTables
<1> HIDE DEF c
<1>6. SameTables(c, n)
  BY <1>2, <1>5, KmallocsOther
<1> HIDE DEF n
<1>7. QED
  BY <1>1, <1>3, <1>4, <1>5, <1>6, SameTablesThen

\* load_elf: a program gets new frames for its pages, in the table that
\* global_PML4 names.
IsLoaded(m, n, P) ==
  /\ Keeps(m, n, P) /\ n.global_PML4 = m.global_PML4 /\ ~m.halted
  /\ \E f, h \in Frames \ m.frames :
       /\ f # h /\ n.frames = m.frames \cup {f, h}
       /\ \A r \in P, v \in Plain :
            View(n, r, v) = IF r = m.global_PML4 /\ v = CODE THEN Own(f)
                            ELSE IF r = m.global_PML4 /\ v = DATA THEN Own(h)
                            ELSE View(m, r, v)

LEMMA CodeIsNotData == CODE # DATA
<1>1. index(PDT, CODE) = 2 /\ index(PDT, DATA) = 3
  BY UserPagesAre, SmallDigits, AtIs
<1>2. QED
  BY <1>1

LEMMA LoadElfSets ==
  ASSUME NEW m, NEW P, Trees(m, P), m.global_PML4 \in P, HasFree(m, 2), ~load_elf(m).halted
  PROVE  IsLoaded(m, load_elf(m), P)
<1> DEFINE g == m.global_PML4
           a == kmalloc(m, "FILE")
           b == umalloc(a, CODE)
           c == umalloc(b, DATA)
<1>1. load_elf(m) = c
  BY DEF load_elf
<1>2. Sound(m) /\ "FILE" \in Flags \ PtFlags /\ CODE \in Plain /\ DATA \in Plain
  BY UserPagesPlain DEF Trees, Flags, PtFlags, Seen
<1>3. SameTables(m, a) /\ Sound(a)
  BY <1>2, KmallocOther DEF SameTables
<1> HIDE DEF a
<1>4. Takes(a, b, {"USERPT"}) /\ Sound(b)
  BY <1>3, UmallocIs DEF Takes
<1>5. ~b.halted
  <2> HIDE DEF b
  <2>1. Takes(b, c, {"USERPT"})
    BY <1>4, UmallocIs
  <2>2. QED
    BY <1>1, <2>1 DEF Takes
<1>6. ~a.halted /\ ~m.halted
  BY <1>3, <1>4, <1>5 DEF Takes, SameTables
<1>7. /\ Keeps(m, a, P) /\ SameViews(m, a, P) /\ Trees(a, P) /\ a.global_PML4 = g
      /\ HasFree(a, 1 + 1) /\ a.frames = m.frames
  BY <1>3, SameTablesSet DEF SameTables, Keeps, HasFree, free_frames
<1>8. free_frames(a) # {}
  <2>1. HasFree(a, 1)
    BY <1>7, FreeIsFinite DEF HasFree
  <2>2. QED
    BY <2>1, FreeIsFinite
<1>9. IsGiven(a, b, P, g, CODE)
  BY <1>2, <1>5, <1>7, <1>8, UmallocSets
<1>10. free_frames(b) # {}
  <2>1. b.frames \subseteq a.frames \cup {new_frame(a)}
    BY <1>9 DEF IsGiven
  <2> HIDE DEF b
  <2>2. HasFree(b, 1)
    BY <1>7, <2>1, FreeAfter
  <2>3. QED
    BY <2>2, FreeIsFinite
<1> HIDE DEF b
<1>11. Trees(b, P) /\ b.global_PML4 = g
  BY <1>7, <1>9 DEF IsGiven, Keeps
<1>12. IsGiven(b, c, P, g, DATA)
  BY <1>1, <1>2, <1>10, <1>11, UmallocSets
<1> HIDE DEF c
<1>13. Keeps(m, c, P) /\ c.global_PML4 = g
  BY <1>7, <1>9, <1>11, <1>12, KeepsThen DEF IsGiven
<1> DEFINE f == new_frame(a)
           h == new_frame(b)
<1>14. f \in Frames \ m.frames /\ h \in Frames \ m.frames /\ f # h /\ c.frames = m.frames \cup {f, h}
  BY <1>7, <1>9, <1>12 DEF IsGiven
<1> HIDE DEF f, h
<1>15. \A r \in P, v \in Plain :
         View(c, r, v) = IF r = g /\ v = CODE THEN Own(f)
                         ELSE IF r = g /\ v = DATA THEN Own(h) ELSE View(m, r, v)
  BY <1>7, <1>9, <1>12, CodeIsNotData DEF IsGiven, SetsView, SameViews, f, h
<1>16. IsLoaded(m, c, P)
  BY <1>6, <1>13, <1>14, <1>15 DEF IsLoaded
<1>17. QED
  BY <1>1, <1>16
-----------------------------------------------------------------------------
(* fork.                                                                   *)

\* The first table of a child.
IsChild(m, n, P, c) ==
  /\ Trees(n, P \cup {c}) /\ Keeps(m, n, P) /\ SameViews(m, n, P)
  /\ c \notin P /\ c \notin m.frames /\ n.frames = m.frames /\ n.global_PML4 = c /\ ~m.halted
  /\ \A v \in Plain : View(n, c, v) = NoEntry

LEMMA ChildMade ==
  ASSUME NEW m, NEW P, Trees(m, P), ~changes(kmalloc(m, "USERPT"), page_of(m, "USERPT")).halted
  PROVE  IsChild(m, changes(kmalloc(m, "USERPT"), page_of(m, "USERPT")), P, page_of(m, "USERPT"))
<1> DEFINE c == page_of(m, "USERPT")
           k == kmalloc(m, "USERPT")
           n == [k EXCEPT !.global_PML4 = c]
<1>1. Sound(m) /\ TablesTaken(m) /\ Filled(m.table) /\ "USERPT" \in PtFlags /\ "USERPT" \in Flags
  BY DEF Trees, PtFlags, Flags
<1>2. ~k.halted
  BY DEF changes
<1>3. changes(k, c) = n
  BY <1>2 DEF changes
<1>4. IsTable(m, k, "USERPT", c)
  BY <1>1, <1>2, TableTaken
<1> HIDE DEF k, c
<1>5. Sound(k) /\ DOMAIN k = MemFields
  BY <1>4 DEF IsTable, Sound
<1>6. /\ DOMAIN n = MemFields /\ n.used = k.used /\ n.table = k.table /\ n.frames = k.frames
      /\ n.halted = k.halted /\ n.global_PML4 = c
  BY <1>5 DEF MemFields
<1> HIDE DEF n
<1>7. Sound(n) /\ TablesTaken(n)
  BY <1>4, <1>5, <1>6 DEF Sound, IsTable, TablesTaken
<1>8. n.table = put(m.table, c, <<>>) /\ c \notin DOMAIN m.table /\ c \notin m.frames
      /\ n.frames = m.frames /\ ~m.halted /\ ~n.halted
  BY <1>4, <1>6 DEF IsTable
<1>9. DOMAIN n.table = DOMAIN m.table \cup {c} /\ SameContent(m.table, n.table) /\ Filled(n.table)
  BY <1>1, <1>8, NewTableHolds
<1>10. PICK lev : Tree(m.table, m.frames, lev) /\ Rooting(m.table, lev, P)
  BY DEF Trees
<1>11. Tree(n.table, n.frames, WithLevel(m.table, lev, c, PML4))
  BY <1>8, <1>9, <1>10, TreeWithRoot
<1>12. Rooting(n.table, WithLevel(m.table, lev, c, PML4), P \cup {c})
  BY <1>8, <1>9, <1>10 DEF Rooting, WithLevel
<1>13. Trees(n, P \cup {c})
  BY <1>7, <1>9, <1>11, <1>12 DEF Trees
<1>14. c \notin P
  BY <1>8, <1>10 DEF Rooting
<1>15. \A r, v : SameWalk(m.table, n.table, r, v) /\ View(n, r, v) = View(m, r, v)
  BY <1>9, SameContentWalks DEF View
<1>16. Trees(n, P)
  BY <1>13 DEF Trees, Rooting
<1>17. \A r \in P : SelfSet(m, r) => SelfSet(n, r)
  BY <1>9 DEF SelfSet, SameContent
<1>18. Keeps(m, n, P) /\ SameViews(m, n, P)
  BY <1>8, <1>9, <1>15, <1>16, <1>17 DEF Keeps, SameViews, SameWalk, Reaches, PlainFrames
<1>19. ASSUME NEW v \in Plain PROVE View(n, c, v) = NoEntry
  <2> DEFINE T == n.table
  <2>1. Tables(T) /\ Tables(m.table)
    BY <1>1, <1>7, NoTableAtZero
  <2> HIDE DEF T
  <2>2. \A i : content(T, c, i) = NoEntry /\ content(T, 0, i) = NoEntry
    <3>1. \A i : content(m.table, c, i) = NoEntry /\ content(m.table, 0, i) = NoEntry
      BY <1>8, <2>1, ContentIs DEF IsEntry, Tables
    <3>2. QED
      BY <1>9, <3>1 DEF SameContent, T
  <2>3. NoEntry.to = 0
    BY DEF NoEntry
  <2>4. Walk(T, c, v, PT) = 0
    BY <2>2, <2>3, WalkIs
  <2>5. translate(T, c, v) = NoEntry
    BY <2>2, <2>4, WalkIs
  <2>6. QED
    BY <2>5 DEF View, T
<1>20. IsChild(m, n, P, c)
  BY <1>6, <1>8, <1>13, <1>14, <1>18, <1>19 DEF IsChild
<1>21. QED
  BY <1>3, <1>20 DEF k, c

\* An entry as fork leaves it in both tables.
Cow(e) == entry(e.to, (e.bits \ {"W"}) \cup {"COW"})
Marked(e) == IF e = NoEntry THEN NoEntry ELSE Cow(e)

LEMMA CowIs ==
  ASSUME NEW e
  PROVE  /\ Cow(Cow(e)) = Cow(e) /\ Cow(e) # NoEntry
         /\ \A T, F : LeafOk(T, F, e) => LeafOk(T, F, Cow(e))
         /\ Cow(e).to = e.to /\ "W" \notin Cow(e).bits
<1>1. Cow(e).to = e.to /\ Cow(e).bits = (e.bits \ {"W"}) \cup {"COW"}
  BY DEF Cow, entry
<1>2. Cow(Cow(e)) = Cow(e)
  <2>1. ((Cow(e).bits \ {"W"}) \cup {"COW"}) = (e.bits \ {"W"}) \cup {"COW"}
    BY <1>1
  <2>2. Cow(Cow(e)) = entry(Cow(e).to, (Cow(e).bits \ {"W"}) \cup {"COW"})
    BY DEF Cow
  <2>3. QED
    BY <1>1, <2>1, <2>2 DEF Cow
<1>3. Cow(e) # NoEntry
  BY <1>1 DEF NoEntry
<1>4. QED
  BY <1>1, <1>2, <1>3 DEF LeafOk

\* A page that the child shares: where there is none, nothing changes.
IsShared(m, n, P, r, c, page) ==
  /\ Keeps(m, n, P) /\ n.frames = m.frames /\ n.global_PML4 = c /\ ~m.halted
  /\ \A s \in P, v \in Plain :
       View(n, s, v) =
         IF v = page /\ s \in {r, c} /\ View(m, r, v) # NoEntry THEN Cow(View(m, r, v))
         ELSE View(m, s, v)

LEMMA ChildShared ==
  ASSUME NEW m, NEW P, Trees(m, P), NEW c, m.global_PML4 = c, c \in P, cr3 \in P,
         SelfSet(m, cr3), NEW page \in Plain, ~child_shares(m, page).halted
  PROVE  IsShared(m, child_shares(m, page), P, cr3, c, page)
<1> DEFINE r == cr3
           e == View(m, r, page)
           a == self_ref_write(m, r, PT, page, Cow(e))
           b == map_virmem_to_phymem(a, page, Cow(e), "USERPT", "USER_MAP")
<1>0. DOMAIN m = MemFields /\ Sound(m)
  BY DEF Trees, Sound
<1>1. /\ self_ref_read(m, r, PT, page) = e
      /\ self_ref(m.table, r, PT, page)[1] = Walk(m.table, r, page, PT)
  <2>1. self_ref_read(m, r, PT, page) = e
    BY SelfReadsView
  <2>2. self_ref(m.table, r, PT, page) = <<Walk(m.table, r, page, PT), index(PT, page)>>
    BY SelfReads, LevelsAre DEF Plain
  <2>3. QED
    BY <2>1, <2>2
<1>2. shared(m, page, e) = b
  BY DEF shared, Cow
<1> HIDE DEF b, a, e
<1>3. child_shares(m, page) = IF m.halted \/ Walk(m.table, r, page, PT) = 0
                              THEN [m EXCEPT !.halted = TRUE]
                              ELSE IF e = NoEntry THEN m ELSE b
  BY <1>1, <1>2 DEF child_shares
<1>4. ~m.halted /\ Walk(m.table, r, page, PT) # 0
  <2>1. [m EXCEPT !.halted = TRUE].halted
    BY <1>0 DEF MemFields
  <2>2. QED
    BY <1>3, <2>1
<1>5. CASE e = NoEntry
  <2>1. child_shares(m, page) = m
    BY <1>3, <1>4, <1>5
  <2>2. Keeps(m, m, P)
    BY KeepsNone
  <2>3. QED
    BY <1>4, <1>5, <2>1, <2>2 DEF IsShared, e
<1>6. CASE e # NoEntry
  <2>1. child_shares(m, page) = b /\ ~b.halted
    BY <1>3, <1>4, <1>6
  <2>2. LeafOk(m.table, m.frames, Cow(e))
    <3>1. LeafOk(m.table, m.frames, e)
      BY ViewIsOk DEF e
    <3>2. QED
      BY <3>1, CowIs
  <2>3. IsStored(m, a, P, r, page, Cow(e))
    BY <1>4, <2>2, SelfStores DEF Reaches, a
  <2>4. Trees(a, P) /\ a.global_PML4 = c /\ LeafOk(a.table, a.frames, Cow(e))
    BY <2>2, <2>3, LeafStaysOk DEF IsStored, Keeps
  <2>5. "USERPT" \in PtFlags /\ "USERPT" \in Flags
    BY DEF PtFlags, Flags
  <2>6. IsMapped(a, b, P, page, Cow(e))
    BY <2>1, <2>4, <2>5, MapSets DEF b
  <2>7. b.frames = a.frames
    BY <2>4, <2>5, MapIs, MapsSound DEF b, Trees
  <2>8. Keeps(m, b, P)
    BY <2>3, <2>6, KeepsThen DEF IsStored, IsMapped
  <2>9. \A s \in P, v \in Plain :
          View(b, s, v) = IF v = page /\ s \in {r, c} /\ View(m, r, v) # NoEntry
                          THEN Cow(View(m, r, v)) ELSE View(m, s, v)
    BY <1>6, <2>3, <2>4, <2>6 DEF IsStored, IsMapped, SetsView, e
  <2>10. b.global_PML4 = c /\ b.frames = m.frames
    BY <2>3, <2>4, <2>6, <2>7 DEF IsStored, IsMapped
  <2>11. QED
    BY <1>4, <2>1, <2>8, <2>9, <2>10 DEF IsShared
<1>7. QED
  BY <1>5, <1>6
-----------------------------------------------------------------------------
(* The pages of the areas.                                                 *)

HeapEnds == {HEAP_BASE + 1, HEAP_BASE + 1 + TABLE_SIZE}

\* What fork goes through when the heap ends at e.
AreaOf(e) == {CODE, DATA} \cup {HEAP_BASE + j : j \in 0 .. e - HEAP_BASE - 1}
               \cup {STACK_TOP - STACK_PAGES, STACK_TOP - 1, STACK_TOP}

LEMMA AreaPagesOf ==
  ASSUME NEW e \in HeapEnds, task[current].vm_end = e
  PROVE  /\ Len(area_pages) \in Nat
         /\ {area_pages[i] : i \in 1 .. Len(area_pages)} = AreaOf(e)
<1> DEFINE k == e - HEAP_BASE
           a == <<CODE, DATA>>
           b == [i \in 1 .. k |-> HEAP_BASE + i - 1]
           c == [i \in 1 .. 3 |-> STACK_TOP - 2 + i - 1]
           s == a \o b \o c
           N == 5 + k
<1>1. k \in Nat /\ HEAP_BASE \in Nat /\ STACK_TOP \in Nat /\ CODE \in Nat /\ DATA \in Nat
  BY AddressesAre, SizeIs DEF HeapEnds
<1>2. area_pages = s
  BY DEF area_pages, STACK_PAGES
<1> HIDE DEF k
<1>3. a \in Seq(Int) /\ b \in Seq(Int) /\ c \in Seq(Int) /\ Len(a) = 2 /\ Len(b) = k /\ Len(c) = 3
  BY <1>1
<1>4. /\ a[1] = CODE /\ a[2] = DATA
      /\ \A i \in 1 .. k : b[i] = HEAP_BASE + i - 1
      /\ c[1] = STACK_TOP - 2 /\ c[2] = STACK_TOP - 1 /\ c[3] = STACK_TOP
  BY <1>1
<1> HIDE DEF a, b, c
<1> DEFINE d == a \o b
<1>5. d \in Seq(Int) /\ Len(d) = 2 + k
  <2>1. a \o b \in Seq(Int) /\ Len(a \o b) = Len(a) + Len(b)
    BY <1>3, ConcatProperties
  <2>2. QED
    BY <1>1, <1>3, <2>1
<1>6. d[1] = CODE /\ d[2] = DATA /\ \A i \in 1 .. k : d[2 + i] = HEAP_BASE + i - 1
  <2>1. \A i \in 1 .. Len(a) + Len(b) : d[i] = IF i <= Len(a) THEN a[i] ELSE b[i - Len(a)]
    BY <1>3, ConcatProperties
  <2> HIDE DEF d
  <2>2. \A i \in 1 .. k : 2 + i \in 1 .. 2 + k /\ ~(2 + i <= 2) /\ 2 + i - 2 = i
    BY <1>1
  <2>3. QED
    BY <1>1, <1>3, <1>4, <2>1, <2>2
<1> HIDE DEF d
<1>7. s = d \o c
  BY DEF d
<1> HIDE DEF s
<1>0. /\ Len(s) = Len(d) + Len(c)
      /\ \A i \in 1 .. Len(d) + Len(c) : s[i] = IF i <= Len(d) THEN d[i] ELSE c[i - Len(d)]
  BY <1>3, <1>5, <1>7, ConcatProperties
<1>8. Len(s) = 5 + k
  BY <1>0, <1>1, <1>3, <1>5
<1>9. \A i \in 1 .. 2 + k : s[i] = d[i]
  BY <1>0, <1>1, <1>3, <1>5
<1>10. s[2 + k + 1] = c[1] /\ s[2 + k + 2] = c[2] /\ s[2 + k + 3] = c[3]
  BY <1>0, <1>1, <1>3, <1>5
<1>11. ASSUME NEW i \in 1 .. N PROVE s[i] \in AreaOf(e)
  <2>1. i \in {1, 2} \/ i \in 3 .. 2 + k \/ i \in {2 + k + 1, 2 + k + 2, 2 + k + 3}
    BY <1>1
  <2>2. CASE i \in {1, 2}
    BY <1>1, <1>6, <1>9, <2>2 DEF AreaOf
  <2>3. CASE i \in 3 .. 2 + k
    <3>1. i - 2 \in 1 .. k /\ 2 + (i - 2) = i /\ i \in 1 .. 2 + k /\ i - 3 \in 0 .. k - 1
      BY <1>1, <2>3
    <3>2. s[i] = HEAP_BASE + (i - 2) - 1
      BY <1>6, <1>9, <3>1
    <3>3. s[i] = HEAP_BASE + (i - 3)
      BY <1>1, <2>3, <3>2
    <3>4. QED
      BY <3>1, <3>3 DEF AreaOf, k
  <2>4. CASE i \in {2 + k + 1, 2 + k + 2, 2 + k + 3}
    BY <1>4, <1>10, <2>4 DEF AreaOf, STACK_PAGES
  <2>5. QED
    BY <2>1, <2>2, <2>3, <2>4
<1>12. ASSUME NEW v \in AreaOf(e) PROVE \E i \in 1 .. N : v = s[i]
  <2>1. CASE v \in {CODE, DATA}
    <3>1. 1 \in 1 .. N /\ 2 \in 1 .. N /\ 1 \in 1 .. 2 + k /\ 2 \in 1 .. 2 + k
      BY <1>1
    <3>2. s[1] = CODE /\ s[2] = DATA
      BY <1>6, <1>9, <3>1
    <3>3. QED
      BY <2>1, <3>1, <3>2
  <2>2. CASE v \in {HEAP_BASE + j : j \in 0 .. e - HEAP_BASE - 1}
    <3>1. PICK j \in 0 .. k - 1 : v = HEAP_BASE + j
      BY <2>2 DEF k
    <3>2. j + 1 \in 1 .. k /\ 2 + (j + 1) \in 1 .. 2 + k /\ 2 + (j + 1) \in 1 .. N
          /\ HEAP_BASE + (j + 1) - 1 = HEAP_BASE + j
      BY <1>1, <3>1
    <3>3. s[2 + (j + 1)] = v
      BY <1>6, <1>9, <3>1, <3>2
    <3>4. QED
      BY <3>2, <3>3
  <2>3. CASE v \in {STACK_TOP - STACK_PAGES, STACK_TOP - 1, STACK_TOP}
    <3>1. 2 + k + 1 \in 1 .. N /\ 2 + k + 2 \in 1 .. N /\ 2 + k + 3 \in 1 .. N
      BY <1>1
    <3>2. STACK_TOP - STACK_PAGES = STACK_TOP - 2
      BY DEF STACK_PAGES
    <3>3. QED
      BY <1>4, <1>10, <2>3, <3>1, <3>2
  <2>4. QED
    BY <2>1, <2>2, <2>3 DEF AreaOf
<1>13. N \in Nat /\ Len(s) = N
  BY <1>1, <1>8
<1> HIDE DEF N
<1>14. {s[i] : i \in 1 .. N} = AreaOf(e)
  BY <1>11, <1>12
<1>15. QED
  BY <1>2, <1>13, <1>14

\* They are user pages, each in the table of one that every program has.
BasePages == {CODE, DATA, HEAP_BASE, STACK_TOP - 1, STACK_TOP}

LEMMA AreasPlain ==
  ASSUME NEW e \in HeapEnds, NEW v \in AreaOf(e)
  PROVE  /\ v \in Seen /\ \A n \in 0 .. KERNEL_PAGES - 1 : v # VIR_START + n
         /\ e = HEAP_BASE + 1 => \E w \in BasePages : SameTable(v, w)
<1>1. ASSUME v \in UserPages
      PROVE  v \in Seen /\ \A n \in 0 .. KERNEL_PAGES - 1 : v # VIR_START + n
  BY <1>1, UserPagesPlain
<1>2. ASSUME NEW w \in BasePages, v = w PROVE \E x \in BasePages : SameTable(v, x)
  BY <1>2 DEF SameTable
<1>3. CASE v \in {CODE, DATA, STACK_TOP - 1, STACK_TOP}
  BY <1>1, <1>2, <1>3 DEF UserPages, BasePages
<1>4. CASE v = STACK_TOP - STACK_PAGES
  <2>1. SameTable(STACK_TOP - STACK_PAGES, STACK_TOP - 1)
    <3>1. TABLE_SIZE - 1 \in Digits /\ TABLE_SIZE - 2 \in Digits /\ 0 \in Digits /\ 3 \in Digits
      BY SmallDigits
    <3> DEFINE x == at(0, 3, TABLE_SIZE - 1, TABLE_SIZE - 1)
               y == at(0, 3, TABLE_SIZE - 1, TABLE_SIZE - 2)
    <3>2. /\ index(PML4, x) = 0 /\ index(PDPT, x) = 3 /\ index(PDT, x) = TABLE_SIZE - 1
          /\ index(PML4, y) = 0 /\ index(PDPT, y) = 3 /\ index(PDT, y) = TABLE_SIZE - 1
      BY <3>1, AtIs
    <3> HIDE DEF x, y
    <3>3. SameTable(y, x)
      BY <3>2 DEF SameTable
    <3>4. QED
      BY <3>3, UserPagesAre DEF x, y
  <2>2. QED
    BY <1>1, <1>4, <2>1 DEF UserPages, BasePages
<1>5. CASE v \in {HEAP_BASE + j : j \in 0 .. e - HEAP_BASE - 1}
  <2>1. PICK j \in 0 .. e - HEAP_BASE - 1 : v = HEAP_BASE + j
    BY <1>5
  <2>2. HEAP_BASE \in Nat /\ j \in 0 .. TABLE_SIZE
    BY <2>1, AddressesAre, SizeIs DEF HeapEnds
  <2>3. CASE j = TABLE_SIZE
    <3>1. v \in UserPages
      BY <2>1, <2>3 DEF UserPages
    <3>2. e # HEAP_BASE + 1
      BY <2>1, <2>2, <2>3, SizeIs
    <3>3. QED
      BY <1>1, <3>1, <3>2
  <2>4. CASE j # TABLE_SIZE
    <3>1. j \in Digits
      BY <2>2, <2>4, SizeIs DEF Digits
    <3>2. v = at(0, 1, 0, j)
      <4>1. at(0, 1, 0, j) = at(0, 1, 0, 0) + j
        BY <2>2, SizeIs DEF at
      <4>2. QED
        BY <2>1, <4>1, UserPagesAre
    <3>3. 0 \in Digits /\ 1 \in Digits /\ 0 # SELF
      BY SmallDigits
    <3>4. v \in Plain /\ index(PML4, v) = 0 /\ index(PDPT, v) = 1 /\ index(PDT, v) = 0
      BY <3>1, <3>2, <3>3, PlainAt, AtIs
    <3>5. index(PML4, HEAP_BASE) = 0 /\ index(PDPT, HEAP_BASE) = 1 /\ index(PDT, HEAP_BASE) = 0
      BY <3>3, AtIs, UserPagesAre
    <3>6. \A n \in 0 .. KERNEL_PAGES - 1 : index(PML4, VIR_START + n) = TABLE_SIZE - 1
      BY KernelPagesAre, SmallDigits, AtIs
    <3>7. \A n \in 0 .. KERNEL_PAGES - 1 : v # VIR_START + n
      <4>1. SUFFICES ASSUME NEW n \in 0 .. KERNEL_PAGES - 1, v = VIR_START + n PROVE FALSE
        OBVIOUS
      <4>2. index(PML4, VIR_START + n) = TABLE_SIZE - 1
        BY <3>6
      <4>3. QED
        BY <3>4, <4>1, <4>2, SizeIs
    <3>8. 0 \in 0 .. KERNEL_PAGES - 1 /\ VIR_START + 0 = VIR_START
      BY KernelPlain, ConstantsAre
    <3>9. v \in Seen
      BY <3>4, <3>7, <3>8 DEF Seen
    <3>10. SameTable(v, HEAP_BASE) /\ HEAP_BASE \in BasePages
      BY <3>4, <3>5 DEF SameTable, BasePages
    <3>11. QED
      BY <3>7, <3>9, <3>10
  <2>5. QED
    BY <2>3, <2>4
<1>6. QED
  BY <1>3, <1>4, <1>5 DEF AreaOf
-----------------------------------------------------------------------------
(* The tables of a child.                                                  *)

\* The pages in A are shared by the child c with r.
Shares(m, n, P, r, c, A) ==
  /\ Keeps(m, n, P) /\ n.frames = m.frames /\ n.global_PML4 = c /\ ~m.halted
  /\ \A s \in P, v \in Plain :
       View(n, s, v) =
         IF v \in A /\ s \in {r, c} /\ View(m, r, v) # NoEntry THEN Cow(View(m, r, v))
         ELSE View(m, s, v)

LEMMA SharesMore ==
  ASSUME NEW m, NEW n, NEW p, NEW P, NEW r \in P, NEW c \in P, NEW A, NEW page \in Plain,
         Shares(m, n, P, r, c, A), IsShared(n, p, P, r, c, page)
  PROVE  Shares(m, p, P, r, c, A \cup {page})
<1>1. Keeps(m, p, P) /\ p.frames = m.frames /\ p.global_PML4 = c /\ ~m.halted
  BY KeepsThen DEF Shares, IsShared
<1>2. ASSUME NEW s \in P, NEW v \in Plain
      PROVE  View(p, s, v) =
               IF v \in A \cup {page} /\ s \in {r, c} /\ View(m, r, v) # NoEntry
               THEN Cow(View(m, r, v)) ELSE View(m, s, v)
  <2> DEFINE e == View(m, r, v)
  <2>1. /\ View(n, r, v) = IF v \in A /\ e # NoEntry THEN Cow(e) ELSE e
        /\ View(n, s, v) = IF v \in A /\ s \in {r, c} /\ e # NoEntry THEN Cow(e) ELSE View(m, s, v)
    BY DEF Shares
  <2>2. View(p, s, v) = IF v = page /\ s \in {r, c} /\ View(n, r, v) # NoEntry
                        THEN Cow(View(n, r, v)) ELSE View(n, s, v)
    BY DEF IsShared
  <2>3. Cow(Cow(e)) = Cow(e) /\ Cow(e) # NoEntry
    BY CowIs
  <2> HIDE DEF e
  <2>4. View(p, s, v) = IF v \in A \cup {page} /\ s \in {r, c} /\ e # NoEntry
                        THEN Cow(e) ELSE View(m, s, v)
    BY <2>1, <2>2, <2>3
  <2>5. QED
    BY <2>4 DEF e
<1>3. QED
  BY <1>1, <1>2 DEF Shares

\* set_child_pt.
IsForked(m, n, P, r, c, A) ==
  /\ Trees(n, P \cup {c}) /\ Keeps(m, n, P) /\ SelfSet(n, c) /\ c \notin P
  /\ n.frames = m.frames /\ n.global_PML4 = c /\ ~m.halted
  /\ \A s \in P, v \in Plain :
       View(n, s, v) = IF s = r /\ v \in A THEN Marked(View(m, s, v)) ELSE View(m, s, v)
  /\ \A v \in Plain :
       View(n, c, v) = IF v \in KernelPages(Parts) THEN KernelEntry(v)
                       ELSE IF v \in A THEN Marked(View(m, r, v)) ELSE NoEntry

LEMMA AllKernelPages ==
  KernelPages(Parts) = {VIR_START + n : n \in 0 .. KERNEL_PAGES - 1}
BY PartsAre DEF KernelPages

\* The halts of its steps go on to the end.
LEMMA ForkTables ==
  ASSUME NEW m, NEW P, Trees(m, P), cr3 \in P, SelfSet(m, cr3),
         task[current].vm_end \in HeapEnds, ~set_child_pt(m).halted
  PROVE  IsForked(m, set_child_pt(m), P, cr3, page_of(m, "USERPT"), AreaOf(task[current].vm_end))
<1> DEFINE c == page_of(m, "USERPT")
           r == cr3
           Q == P \cup {c}
           E == task[current].vm_end
           A == AreaOf(E)
           child == changes(kmalloc(m, "USERPT"), c)
           first == map_kernel(child, "USERPT")
           K == Len(area_pages)
           F == CHOOSE f : SharesUpTo(f, first, area_pages, K)
           pages == area_pages
           Done(i) == {pages[j] : j \in 1 .. i}
<1>1. set_child_pt(m) = F[K]
  BY Zenon DEF set_child_pt, SharesUpTo, SharesItem
<1>2. K \in Nat /\ {pages[j] : j \in 1 .. K} = A
  BY AreaPagesOf
<1>3. \A v \in A : v \in Plain /\ \A n \in 0 .. KERNEL_PAGES - 1 : v # VIR_START + n
  BY AreasPlain DEF Seen
<1>4. "USERPT" \in PtFlags /\ "USERPT" \in Flags /\ Sound(m)
  BY DEF PtFlags, Flags, Trees
<1>5. Sound(child)
  <2> DEFINE k == kmalloc(m, "USERPT")
  <2>1. Sound(k)
    BY <1>4, KmallocIs DEF Takes
  <2> HIDE DEF k
  <2>2. DOMAIN [k EXCEPT !.global_PML4 = c] = DOMAIN k /\ Sound([k EXCEPT !.global_PML4 = c])
    BY <2>1 DEF Sound, MemFields
  <2>3. QED
    BY <2>1, <2>2 DEF changes, k
<1>6. SharesUpTo(F, first, pages, K)
  BY <1>2, SharesExists
<1> HIDE DEF F, child
<1>7. Sound(first) /\ Takes(child, first, {"USERPT"}) /\ first.frames = child.frames
  BY <1>4, <1>5, MapKernelIs, MapsSound
<1> HIDE DEF first
<1>8. F[0] = first
  BY <1>2, <1>6, SharesAt DEF SharesItem
<1>9. ASSUME NEW i \in Nat, i < K
      PROVE  F[i + 1] = child_shares(F[i], pages[i + 1])
  <2>1. i + 1 \in 0 .. K /\ i + 1 # 0 /\ i + 1 - 1 = i
    BY <1>2, <1>9
  <2>2. F[i + 1] = SharesItem(F, first, pages, i + 1)
    BY <1>2, <1>6, <2>1, SharesAt
  <2>3. QED
    BY <2>1, <2>2 DEF SharesItem
<1> HIDE DEF K
<1> DEFINE S == {i \in Nat : i <= K =>
                   /\ Sound(F[i])
                   /\ ~F[i].halted => ~first.halted
                   /\ ~F[i].halted /\ Trees(first, Q) /\ first.global_PML4 = c /\ SelfSet(first, r)
                        => Shares(first, F[i], Q, r, c, Done(i))}
<1>10. 0 \in S
  <2>1. Trees(first, Q) => Keeps(first, first, Q)
    BY KeepsNone
  <2>2. Done(0) = {}
    OBVIOUS
  <2> HIDE DEF Done
  <2>3. QED
    BY <1>7, <1>8, <2>1, <2>2 DEF Shares
<1>11. ASSUME NEW i \in Nat, i \in S PROVE i + 1 \in S
  <2> SUFFICES ASSUME i + 1 <= K
               PROVE  /\ Sound(F[i + 1])
                      /\ ~F[i + 1].halted => ~first.halted
                      /\ ~F[i + 1].halted /\ Trees(first, Q) /\ first.global_PML4 = c
                           /\ SelfSet(first, r)
                           => Shares(first, F[i + 1], Q, r, c, Done(i + 1))
    OBVIOUS
  <2>1. i < K /\ i + 1 \in 1 .. K /\ K \in Nat
    BY <1>2 DEF K
  <2>2. F[i + 1] = child_shares(F[i], pages[i + 1])
    BY <1>9, <2>1
  <2>3. /\ Sound(F[i]) /\ (~F[i].halted => ~first.halted)
        /\ ~F[i].halted /\ Trees(first, Q) /\ first.global_PML4 = c /\ SelfSet(first, r)
             => Shares(first, F[i], Q, r, c, Done(i))
    <3>1. i <= K
      BY <2>1
    <3> HIDE DEF Done
    <3>2. QED
      BY <1>11, <3>1
  <2>4. Sound(F[i + 1]) /\ (F[i].halted => F[i + 1].halted)
    BY <2>2, <2>3, ChildSharesIs, MapsSound DEF Takes
  <2>5. ASSUME ~F[i + 1].halted, Trees(first, Q), first.global_PML4 = c, SelfSet(first, r)
        PROVE  Shares(first, F[i + 1], Q, r, c, Done(i + 1))
    <3> HIDE DEF Done
    <3>1. Shares(first, F[i], Q, r, c, Done(i))
      BY <2>3, <2>4, <2>5
    <3>2. Trees(F[i], Q) /\ F[i].global_PML4 = c /\ SelfSet(F[i], r)
      BY <2>5, <3>1 DEF Shares, Keeps
    <3>3. pages[i + 1] \in Plain
      <4>1. pages[i + 1] \in {pages[j] : j \in 1 .. K}
        BY <2>1
      <4>2. QED
        BY <1>2, <1>3, <4>1
    <3>4. IsShared(F[i], F[i + 1], Q, r, c, pages[i + 1])
      BY <2>2, <2>5, <3>2, <3>3, ChildShared
    <3>5. Shares(first, F[i + 1], Q, r, c, Done(i) \cup {pages[i + 1]})
      BY <3>1, <3>3, <3>4, SharesMore
    <3>6. Done(i) \cup {pages[i + 1]} = Done(i + 1)
      <4>1. 1 .. i + 1 = 1 .. i \cup {i + 1}
        OBVIOUS
      <4>2. QED
        BY <4>1 DEF Done
    <3>7. QED
      BY <3>5, <3>6
  <2>6. QED
    BY <2>3, <2>4, <2>5
<1>12. \A i \in Nat : i \in S
  <2> HIDE DEF S
  <2>1. QED
    BY <1>10, <1>11, SetInduction
<1>13. ~F[K].halted /\ K \in Nat
  BY <1>1, <1>2 DEF K
<1>14. ~first.halted /\ (Trees(first, Q) /\ first.global_PML4 = c /\ SelfSet(first, r)
                           => Shares(first, F[K], Q, r, c, Done(K)))
  BY <1>12, <1>13
<1>15. IsChild(m, child, P, c)
  <2>1. ~child.halted
    BY <1>7, <1>14 DEF Takes
  <2>2. QED
    BY <2>1, ChildMade DEF child
<1>16. IsKernelMapped(child, first, Q)
  BY <1>4, <1>14, <1>15, MapKernelSets DEF IsChild, first
<1>17. Keeps(child, first, Q) /\ SelfSet(first, c) /\ first.global_PML4 = c /\ Trees(first, Q)
  BY <1>15, <1>16 DEF IsChild, IsKernelMapped, Keeps
<1>18. SelfSet(first, r)
  BY <1>15, <1>17 DEF IsChild, Keeps
<1>19. Shares(first, F[K], Q, r, c, A)
  BY <1>2, <1>14, <1>17, <1>18 DEF K
<1> DEFINE n == F[K]
<1>20. Trees(n, Q) /\ SelfSet(n, c) /\ c \notin P /\ n.frames = m.frames /\ n.global_PML4 = c
       /\ ~m.halted
  BY <1>7, <1>15, <1>17, <1>19 DEF Shares, Keeps, IsChild
<1>21. Keeps(m, n, P)
  <2>1. Keeps(child, n, Q)
    BY <1>17, <1>19, KeepsThen DEF Shares
  <2> HIDE DEF n
  <2>2. Keeps(child, n, P)
    BY <2>1 DEF Keeps, Trees, Rooting
  <2>3. QED
    BY <1>15, <2>2, KeepsThen DEF IsChild
<1> HIDE DEF n
<1>22. \A s \in Q, v \in Plain :
         /\ View(n, s, v) = IF v \in A /\ s \in {r, c} /\ View(first, r, v) # NoEntry
                            THEN Cow(View(first, r, v)) ELSE View(first, s, v)
         /\ View(first, s, v) = IF s = c /\ v \in KernelPages(Parts) THEN KernelEntry(v)
                                ELSE View(child, s, v)
  BY <1>15, <1>16, <1>19 DEF Shares, IsKernelMapped, SetsKernel, KernelPages, IsChild, n
<1>23. /\ \A s \in P, v \in Plain : View(child, s, v) = View(m, s, v)
       /\ \A v \in Plain : View(child, c, v) = NoEntry
  BY <1>15 DEF IsChild, SameViews
<1>24. \A v \in A : v \notin KernelPages(Parts)
  BY <1>3, AllKernelPages
<1> HIDE DEF A, c
<1>25. r \in P /\ r # c
  BY <1>20
<1>26. ASSUME NEW s \in P, NEW v \in Plain
       PROVE  View(n, s, v) = IF s = r /\ v \in A THEN Marked(View(m, s, v)) ELSE View(m, s, v)
  <2>1. s # c /\ s \in Q
    BY <1>20
  <2>2. View(first, s, v) = View(m, s, v) /\ View(first, r, v) = View(m, r, v)
    BY <1>22, <1>23, <1>25, <2>1
  <2>3. QED
    BY <1>22, <2>1, <2>2 DEF Marked
<1>27. ASSUME NEW v \in Plain
       PROVE  View(n, c, v) = IF v \in KernelPages(Parts) THEN KernelEntry(v)
                              ELSE IF v \in A THEN Marked(View(m, r, v)) ELSE NoEntry
  <2>1. c \in Q /\ r \in Q
    BY <1>25
  <2>2. View(first, r, v) = View(m, r, v)
    BY <1>22, <1>23, <1>25, <2>1
  <2>3. View(first, c, v) = IF v \in KernelPages(Parts) THEN KernelEntry(v) ELSE NoEntry
    BY <1>22, <1>23, <2>1
  <2>4. QED
    BY <1>22, <1>24, <2>1, <2>2, <2>3 DEF Marked
<1>28. IsForked(m, n, P, r, c, A)
  BY <1>20, <1>21, <1>26, <1>27 DEF IsForked
<1>29. QED
  BY <1>1, <1>28 DEF n, c, A
-----------------------------------------------------------------------------
(* Demand paging, and the store to a shared page.                          *)

\* A table in a frame.
IsFrameTable(m, n, f) ==
  /\ Sound(n) /\ n.table = put(m.table, f, <<>>) /\ n.used = m.used
  /\ n.frames = m.frames \cup {f} /\ n.halted = m.halted /\ n.global_PML4 = m.global_PML4

LEMMA FrameTable ==
  ASSUME NEW m, NEW a, NEW P, NEW f, IsTaken(m, a, P, f)
  PROVE  IsFrameTable(m, [a EXCEPT !.table = put(@, f, <<>>)], f)
<1> DEFINE T == put(a.table, f, <<>>)
           n == [a EXCEPT !.table = T]
<1>1. /\ Sound(a) /\ a.table = m.table /\ a.used = m.used /\ a.frames = m.frames \cup {f}
      /\ a.halted = m.halted /\ a.global_PML4 = m.global_PML4 /\ f \in Frames
  BY DEF IsTaken, Keeps, Trees
<1>2. DOMAIN T = DOMAIN a.table \cup {f} /\ T = put(m.table, f, <<>>)
  BY <1>1 DEF put
<1> HIDE DEF T
<1>3. /\ DOMAIN n = MemFields /\ n.table = T /\ n.used = a.used /\ n.frames = a.frames
      /\ n.halted = a.halted /\ n.global_PML4 = a.global_PML4
  BY <1>1 DEF Sound, MemFields
<1> HIDE DEF n
<1>4. Sound(n)
  BY <1>1, <1>2, <1>3 DEF Sound, TablePages
<1>5. QED
  BY <1>1, <1>2, <1>3, <1>4 DEF IsFrameTable, n, T

\* One level of the handler, above the page.
IsStep(m, n, P, r, page, level) ==
  /\ Keeps(m, n, P) /\ SameViews(m, n, P) /\ Reaches(n, r, page, Next1(level))
  /\ n.global_PML4 = m.global_PML4 /\ n.used = m.used /\ ~n.halted
  /\ n.frames \subseteq m.frames \cup {new_frame(m)}

LEMMA TableDemanded ==
  ASSUME NEW m, NEW P, Trees(m, P), ~m.halted, cr3 \in P, SelfSet(m, cr3), NEW page \in Plain,
         NEW level \in {PML4, PDPT, PDT}, Reaches(m, cr3, page, level), free_frames(m) # {},
         ~IsEntry(m.table, Walk(m.table, cr3, page, level), index(level, page))
  PROVE  IsStep(m, demanded(m, level, page), P, cr3, page, level)
<1> DEFINE r == cr3
           f == new_frame(m)
           a == take_frame(m)
           b == [a EXCEPT !.table = put(@, f, <<>>)]
           n == self_ref_write(b, r, level, page, Own(f))
           t0 == Walk(m.table, r, page, level)
           i0 == index(level, page)
<1>1. level # PT /\ level \in Levels
  BY LevelsAre
<1>2. demanded(m, level, page) = n
  BY <1>1 DEF demanded, user_entry, Own
<1>3. IsTaken(m, a, P, f)
  BY FrameTaken
<1> HIDE DEF a, f
<1>4. IsFrameTable(m, b, f)
  BY <1>3, FrameTable
<1> HIDE DEF b
<1>5. f \notin DOMAIN m.table /\ f \notin m.frames /\ f \in Frames
  BY <1>3 DEF IsTaken
<1>6. DOMAIN b.table = DOMAIN m.table \cup {f} /\ SameContent(m.table, b.table) /\ Filled(b.table)
  BY <1>4, <1>5, NewTableHolds DEF Trees, IsFrameTable
<1>7. SelfSet(b, r) /\ Walk(b.table, r, page, level) = t0
  BY <1>1, <1>6, SameContentWalks DEF SelfSet, SameContent, SameWalk
<1>8. n = set_content(b, t0, i0, Own(f))
  BY <1>1, <1>7, SelfReads DEF Plain
<1>9. PICK lev : Tree(m.table, m.frames, lev) /\ Rooting(m.table, lev, P)
  BY DEF Trees
<1>10. t0 \in DOMAIN m.table /\ i0 \in Digits
  <2>1. Tables(m.table) /\ r \in DOMAIN m.table /\ lev[r] = PML4
    BY <1>9, NoTableAtZero DEF Trees, Rooting
  <2>2. QED
    BY <1>9, <2>1, WalkInner DEF Reaches
<1> HIDE DEF t0, i0, n
<1>11. IsWritten(b, n, t0, i0, Own(f))
  BY <1>4, <1>6, <1>8, <1>10, Written DEF IsFrameTable
<1>12. Links(m.table, n.table, t0, i0, Own(f))
  <2>1. ChangedAt(m.table, n.table, t0, i0, Own(f))
    BY <1>6, <1>11 DEF IsWritten, ChangedAt, SameContent
  <2>2. Own(f).to = f /\ Own(f) # NoEntry /\ "P" \in Own(f).bits
    BY DEF Own, entry, NoEntry
  <2>3. ~IsEntry(m.table, t0, i0)
    BY DEF t0, i0
  <2>4. QED
    BY <1>5, <1>6, <1>10, <1>11, <2>1, <2>2, <2>3 DEF Links, IsWritten
<1>13. Sound(n) /\ TablesTaken(n) /\ Filled(n.table)
  <2>1. Sound(n) /\ Filled(n.table) /\ n.used = m.used /\ n.frames = m.frames \cup {f}
        /\ DOMAIN n.table = DOMAIN m.table \cup {f}
    BY <1>4, <1>6, <1>10, <1>11 DEF IsWritten, IsFrameTable
  <2>2. TablesTaken(m)
    BY DEF Trees
  <2>3. QED
    BY <2>1, <2>2 DEF TablesTaken
<1>14. n.frames = m.frames \cup {f} /\ n.used = m.used /\ n.global_PML4 = m.global_PML4 /\ ~n.halted
  BY <1>4, <1>11 DEF IsWritten, IsFrameTable
<1>15. IsLinked(m, n, r, page, level, Own(f))
  BY <1>5, <1>12, <1>13, <1>14 DEF IsLinked, Own, entry, t0, i0
<1>16. Keeps(m, n, P) /\ SameViews(m, n, P) /\ Reaches(n, r, page, Next1(level))
  BY <1>15, LinkKeeps
<1>17. QED
  BY <1>2, <1>14, <1>16 DEF IsStep, f

LEMMA LevelDemanded ==
  ASSUME NEW m, NEW P, Trees(m, P), ~m.halted, cr3 \in P, SelfSet(m, cr3), NEW page \in Plain,
         NEW level \in {PML4, PDPT, PDT}, Reaches(m, cr3, page, level), free_frames(m) # {}
  PROVE  IsStep(m, Demand(m, level, page), P, cr3, page, level)
<1> DEFINE t0 == Walk(m.table, cr3, page, level)
           i0 == index(level, page)
<1>1. self_ref_read(m, cr3, level, page) = content(m.table, t0, i0)
  BY SelfReads, LevelsAre DEF Plain
<1>2. CASE IsEntry(m.table, t0, i0)
  <2>1. Reaches(m, cr3, page, Next1(level)) /\ "P" \in content(m.table, t0, i0).bits
    BY <1>2, EntryReaches
  <2>2. Demand(m, level, page) = m
    BY <1>1, <2>1 DEF Demand
  <2>3. Keeps(m, m, P) /\ SameViews(m, m, P)
    BY KeepsNone
  <2>4. QED
    BY <2>1, <2>2, <2>3 DEF IsStep
<1>3. CASE ~IsEntry(m.table, t0, i0)
  <2>1. content(m.table, t0, i0) = NoEntry
    BY <1>3 DEF IsEntry
  <2> HIDE DEF t0, i0
  <2>2. "P" \notin content(m.table, t0, i0).bits
    BY <2>1 DEF NoEntry
  <2>3. Demand(m, level, page) = demanded(m, level, page)
    BY <1>1, <2>2 DEF Demand
  <2>4. QED
    BY <1>3, <2>3, TableDemanded DEF t0, i0
<1>4. QED
  BY <1>2, <1>3

\* The page, and the whole handler.
IsDemanded(m, n, P, r, page) ==
  /\ Keeps(m, n, P) /\ n.global_PML4 = m.global_PML4 /\ n.used = m.used /\ ~n.halted
  /\ \E f \in Frames \ m.frames : SetsView(m, n, P, r, page, Own(f))

LEMMA PageDemanded ==
  ASSUME NEW m, NEW P, Trees(m, P), ~m.halted, cr3 \in P, SelfSet(m, cr3), NEW page \in Plain,
         Reaches(m, cr3, page, PT), free_frames(m) # {}, View(m, cr3, page) = NoEntry
  PROVE  IsDemanded(m, Demand(m, PT, page), P, cr3, page)
<1> DEFINE r == cr3
           f == new_frame(m)
           a == take_frame(m)
           n == self_ref_write(a, r, PT, page, Own(f))
<1>1. Demand(m, PT, page) = n
  <2>1. self_ref_read(m, r, PT, page) = NoEntry
    BY SelfReadsView
  <2>2. "P" \notin NoEntry.bits
    BY DEF NoEntry
  <2>3. QED
    BY <2>1, <2>2 DEF Demand, demanded, user_entry, Own
<1>2. IsTaken(m, a, P, f)
  BY FrameTaken
<1> HIDE DEF a, f
<1>3. Trees(a, P) /\ ~a.halted /\ SelfSet(a, r) /\ Reaches(a, r, page, PT)
      /\ LeafOk(a.table, a.frames, Own(f))
  BY <1>2, LevelsAre DEF IsTaken, Keeps
<1>4. IsStored(a, n, P, r, page, Own(f))
  BY <1>3, SelfStores
<1> HIDE DEF n
<1>5. Keeps(m, n, P)
  BY <1>2, <1>4, KeepsThen DEF IsTaken, IsStored
<1>6. SetsView(m, n, P, r, page, Own(f)) /\ f \in Frames \ m.frames
  BY <1>2, <1>4, SetsAfterSame DEF IsTaken, IsStored
<1>7. n.global_PML4 = m.global_PML4 /\ n.used = m.used /\ ~n.halted
  BY <1>2, <1>4 DEF IsTaken, IsStored
<1>8. QED
  BY <1>1, <1>5, <1>6, <1>7 DEF IsDemanded

LEMMA HasFreeOne ==
  ASSUME NEW m, NEW n \in Nat, HasFree(m, n + 1) PROVE free_frames(m) # {}
<1>1. HasFree(m, 1)
  BY FreeIsFinite DEF HasFree
<1>2. QED
  BY <1>1, FreeIsFinite

LEMMA HandledSets ==
  ASSUME NEW P, Trees(Memory, P), cr3 \in P, SelfSet(Memory, cr3), NEW page \in Plain,
         HasFree(Memory, 4), View(Memory, cr3, page) = NoEntry
  PROVE  IsDemanded(Memory, Handled(page), P, cr3, page)
<1> DEFINE m == Memory
           r == cr3
           d4 == Demand(m, 4, page)
           d3 == Demand(d4, 3, page)
           d2 == Demand(d3, 2, page)
           d1 == Demand(d2, 1, page)
<1>1. Handled(page) = d1 /\ PML4 = 4 /\ PDPT = 3 /\ PDT = 2 /\ PT = 1
      /\ Next1(4) = 3 /\ Next1(3) = 2 /\ Next1(2) = 1
  BY LevelsAre DEF Handled, Next1
<1>2. ~m.halted
  BY MemoryIs
<1> HIDE DEF m
<1>3. Trees(m, P) /\ SelfSet(m, r) /\ HasFree(m, 3 + 1) /\ View(m, r, page) = NoEntry
      /\ Reaches(m, r, page, PML4)
  BY RootReaches DEF m
<1>4. IsStep(m, d4, P, r, page, PML4)
  BY <1>1, <1>2, <1>3, HasFreeOne, LevelDemanded
<1> HIDE DEF d4
<1>5. HasFree(d4, 2 + 1)
  BY <1>3, <1>4, FreeAfter DEF IsStep
<1>6. /\ Trees(d4, P) /\ SelfSet(d4, r) /\ View(d4, r, page) = NoEntry /\ ~d4.halted
      /\ Reaches(d4, r, page, PDPT)
  BY <1>1, <1>3, <1>4 DEF IsStep, Keeps, SameViews
<1>7. IsStep(d4, d3, P, r, page, PDPT)
  BY <1>1, <1>5, <1>6, HasFreeOne, LevelDemanded
<1> HIDE DEF d3
<1>8. HasFree(d3, 1 + 1)
  BY <1>5, <1>7, FreeAfter DEF IsStep
<1>9. /\ Trees(d3, P) /\ SelfSet(d3, r) /\ View(d3, r, page) = NoEntry /\ ~d3.halted
      /\ Reaches(d3, r, page, PDT)
  BY <1>1, <1>6, <1>7 DEF IsStep, Keeps, SameViews
<1>10. IsStep(d3, d2, P, r, page, PDT)
  BY <1>1, <1>8, <1>9, HasFreeOne, LevelDemanded
<1> HIDE DEF d2
<1>11. HasFree(d2, 0 + 1)
  BY <1>8, <1>10, FreeAfter DEF IsStep
<1>12. /\ Trees(d2, P) /\ SelfSet(d2, r) /\ View(d2, r, page) = NoEntry /\ ~d2.halted
       /\ Reaches(d2, r, page, PT)
  BY <1>1, <1>9, <1>10 DEF IsStep, Keeps, SameViews
<1>13. IsDemanded(d2, d1, P, r, page)
  BY <1>1, <1>11, <1>12, HasFreeOne, PageDemanded
<1> HIDE DEF d1
<1>14. Keeps(m, d2, P) /\ SameViews(m, d2, P)
  BY <1>4, <1>7, <1>10, KeepsThen, ViewsThen DEF IsStep
<1>15. Keeps(m, d1, P)
  BY <1>13, <1>14, KeepsThen DEF IsDemanded
<1>16. m.frames \subseteq d2.frames
  BY <1>14 DEF Keeps
<1>17. \E f \in Frames \ m.frames : SetsView(m, d1, P, r, page, Own(f))
  <2>1. PICK f \in Frames \ d2.frames : SetsView(d2, d1, P, r, page, Own(f))
    BY <1>13 DEF IsDemanded
  <2>2. SetsView(m, d1, P, r, page, Own(f)) /\ f \in Frames \ m.frames
    BY <1>14, <1>16, <2>1, SetsAfterSame
  <2>3. QED
    BY <2>2
<1>18. d1.global_PML4 = m.global_PML4 /\ d1.used = m.used /\ ~d1.halted
  BY <1>4, <1>7, <1>10, <1>13 DEF IsStep, IsDemanded
<1>19. IsDemanded(m, d1, P, r, page)
  BY <1>15, <1>17, <1>18 DEF IsDemanded
<1>20. QED
  BY <1>1, <1>19 DEF m

\* A store to a shared page: the page gets a new frame, and the kernel's second
\* page, at which the frame is filled, its entry back.
IsReplaced(m, n, P, r, page, f) ==
  /\ Keeps(m, n, P) /\ SetsView(m, n, P, r, page, Own(f))
  /\ n.used = m.used /\ n.global_PML4 = m.global_PML4 /\ ~n.halted

Copied(m, r, page) ==
  LET a == take_frame(m)
      b == self_ref_write(a, r, PT, VIR_START + 1, user_entry(m))
      c == self_ref_write(b, r, PT, page, user_entry(m))
  IN self_ref_write(c, r, PT, VIR_START + 1, self_ref_read(a, r, PT, VIR_START + 1))

LEMMA CopySets ==
  ASSUME NEW m, NEW P, Trees(m, P), ~m.halted, NEW r \in P, SelfSet(m, r), free_frames(m) # {},
         NEW page \in Plain, page # VIR_START + 1,
         View(m, r, page) # NoEntry, View(m, r, VIR_START + 1) # NoEntry
  PROVE  IsReplaced(m, Copied(m, r, page), P, r, page, new_frame(m))
         /\ new_frame(m) \in Frames \ m.frames
<1> DEFINE f == new_frame(m)
           w == VIR_START + 1
           a == take_frame(m)
           b == self_ref_write(a, r, PT, w, Own(f))
           c == self_ref_write(b, r, PT, page, Own(f))
           e == View(m, r, w)
           d == self_ref_write(c, r, PT, w, e)
<1>1. w \in Plain /\ Sound(m)
  BY KernelPlain, ConstantsAre DEF Seen, Trees
<1> HIDE DEF w
<1>2. Reaches(m, r, w, PT) /\ Reaches(m, r, page, PT) /\ LeafOk(m.table, m.frames, e)
  BY <1>1, MappedReaches, ViewIsOk DEF w
<1>3. IsTaken(m, a, P, f)
  BY FrameTaken
<1>4. user_entry(m) = Own(f)
  BY DEF user_entry, Own
<1> HIDE DEF a, f
<1>5. /\ Trees(a, P) /\ ~a.halted /\ SelfSet(a, r) /\ Reaches(a, r, w, PT) /\ Reaches(a, r, page, PT)
      /\ LeafOk(a.table, a.frames, Own(f)) /\ View(a, r, w) = e
  BY <1>1, <1>2, <1>3, LevelsAre DEF IsTaken, Keeps, SameViews
<1>6. self_ref_read(a, r, PT, w) = e
  BY <1>1, <1>5, SelfReadsView
<1>7. Copied(m, r, page) = d
  BY <1>4, <1>6 DEF Copied, a, w
<1>8. LeafOk(a.table, a.frames, e)
  BY <1>1, <1>5, ViewIsOk
<1> HIDE DEF e
<1>9. IsStored(a, b, P, r, w, Own(f))
  BY <1>1, <1>5, SelfStores
<1> HIDE DEF b
<1>10. /\ Trees(b, P) /\ ~b.halted /\ SelfSet(b, r) /\ Reaches(b, r, w, PT) /\ Reaches(b, r, page, PT)
       /\ LeafOk(b.table, b.frames, Own(f)) /\ LeafOk(b.table, b.frames, e)
  BY <1>1, <1>5, <1>8, <1>9, LevelsAre, LeafStaysOk DEF IsStored, Keeps
<1>11. IsStored(b, c, P, r, page, Own(f))
  BY <1>10, SelfStores
<1> HIDE DEF c
<1>12. /\ Trees(c, P) /\ ~c.halted /\ SelfSet(c, r) /\ Reaches(c, r, w, PT)
       /\ LeafOk(c.table, c.frames, e)
  BY <1>1, <1>10, <1>11, LevelsAre, LeafStaysOk DEF IsStored, Keeps
<1>13. IsStored(c, d, P, r, w, e)
  BY <1>1, <1>12, SelfStores
<1> HIDE DEF d
<1>14. Keeps(m, d, P)
  BY <1>3, <1>9, <1>11, <1>13, KeepsThen DEF IsTaken, IsStored
<1>15. page # w
  BY DEF w
<1>16. SetsView(m, d, P, r, page, Own(f))
  BY <1>1, <1>3, <1>5, <1>9, <1>11, <1>13, <1>15
     DEF IsTaken, IsStored, SameViews, SetsView
<1>17. d.used = m.used /\ d.global_PML4 = m.global_PML4 /\ ~d.halted /\ f \in Frames \ m.frames
  BY <1>3, <1>9, <1>11, <1>13 DEF IsTaken, IsStored
<1>18. IsReplaced(m, d, P, r, page, f)
  BY <1>14, <1>16, <1>17 DEF IsReplaced
<1>19. QED
  BY <1>7, <1>17, <1>18 DEF f

\* Or it keeps its frame, whose last user it is.
LEMMA KeptSets ==
  ASSUME NEW m, NEW P, Trees(m, P), ~m.halted, NEW r \in P, SelfSet(m, r), NEW page \in Plain,
         View(m, r, page) # NoEntry
  PROVE  IsReplaced(m, self_ref_write(m, r, PT, page, Own(View(m, r, page).to)), P, r, page,
                    View(m, r, page).to)
<1> DEFINE f == View(m, r, page).to
<1>1. Reaches(m, r, page, PT) /\ Sound(m)
  BY MappedReaches DEF Trees
<1>2. LeafOk(m.table, m.frames, View(m, r, page))
  BY ViewIsOk
<1>3. LeafOk(m.table, m.frames, Own(f))
  BY <1>2 DEF LeafOk, Own, entry
<1> HIDE DEF f
<1>4. IsStored(m, self_ref_write(m, r, PT, page, Own(f)), P, r, page, Own(f))
  BY <1>1, <1>3, SelfStores
<1>5. QED
  BY <1>4 DEF IsStored, IsReplaced, f

\* clean_dead frees no table.
LEMMA CleanDeadTables ==
  ASSUME NEW m, Sound(m), NEW dead
  PROVE  SameTables(m, clean_dead(m, dead))
<1>1. ASSUME NEW n, Sound(n), NEW f \in Flags \ PtFlags, NEW addrs
      PROVE  SameTables(n, kfree(n, f, addrs)) /\ Sound(kfree(n, f, addrs))
  <2> DEFINE p == kfree(n, f, addrs)
  <2>1. Frees(n, p, f, addrs)
    BY <1>1, KfreeIs
  <2>2. p.table = n.table
    BY <1>1 DEF kfree, Sound, MemFields
  <2> HIDE DEF p
  <2>3. /\ Sound(p) /\ p.frames = n.frames /\ p.global_PML4 = n.global_PML4
        /\ \A g \in Flags : g # f => p.used[g] = n.used[g]
    BY <2>1, MapsSound DEF Frees, Takes
  <2>4. SameTables(n, p)
    BY <1>1, <2>1, <2>2, <2>3 DEF SameTables, Frees, PtFlags, Flags
  <2>5. QED
    BY <2>3, <2>4 DEF p
<1> DEFINE a == kfree(m, "KSTACK", {task[t].init_kern : t \in dead})
           b == kfree(a, "VMA", UNION {areas(t) : t \in dead})
           c == kfree(b, "MM", {task[t].mm : t \in dead})
           d == kfree(c, "TASK", {get_base["TASK"] + t : t \in dead})
<1>2. clean_dead(m, dead) = d
  BY DEF clean_dead
<1>3. {"KSTACK", "VMA", "MM", "TASK"} \subseteq Flags \ PtFlags
  BY DEF Flags, PtFlags
<1>4. SameTables(m, a) /\ Sound(a)
  BY <1>1, <1>3
<1> HIDE DEF a
<1>5. SameTables(a, b) /\ Sound(b)
  BY <1>1, <1>3, <1>4
<1> HIDE DEF b
<1>6. SameTables(b, c) /\ Sound(c)
  BY <1>1, <1>3, <1>5
<1> HIDE DEF c
<1>7. SameTables(c, d)
  BY <1>1, <1>3, <1>6
<1> HIDE DEF d
<1>8. QED
  BY <1>2, <1>4, <1>5, <1>6, <1>7, SameTablesThen
-----------------------------------------------------------------------------
(* The invariant.                                                          *)

\* Every root leads to itself, and to the pages of the kernel but the first.
Served(m, P) ==
  /\ Trees(m, P)
  /\ \A r \in P : SelfSet(m, r)
  /\ \A r \in P : \A x \in 1 .. KERNEL_PAGES - 1 : View(m, r, VIR_START + x) = entry(x, {"P", "W"})

\* A program has its pages.
Programs(m, R) == \A r \in R : \A v \in BasePages : View(m, r, v) # NoEntry

AllRoots  == Roots \cup {global_PML4}
UserRoots == {task[t].cr3 : t \in Users}

\* The users have tables of their own.
RootsDiffer == \A t, u \in Users : t # u => task[t].cr3 # task[u].cr3
HeapsEnd    == \A t \in Users : task[t].brk \in HeapEnds /\ task[t].vm_end \in HeapEnds

TablesInv ==
  ~halted => /\ Served(Memory, AllRoots) /\ Programs(Memory, UserRoots)
             /\ RootsDiffer /\ HeapsEnd

LEMMA ServedLess ==
  ASSUME NEW m, NEW P, NEW Q, Q \subseteq P, Served(m, P)
  PROVE  Served(m, Q)
BY DEF Served, Trees, Rooting

\* The memory that a call leaves.
SameMemory(m, n) ==
  /\ Sound(n) /\ n.table = m.table /\ n.used = m.used /\ n.frames = m.frames
  /\ n.global_PML4 = m.global_PML4 /\ ~n.halted

LEMMA NextMemory ==
  ASSUME NEW m, Sound(m), ~m.halted, becomes(m)
  PROVE  SameMemory(m, Memory') /\ SameMemory(Memory', m)
<1>1. /\ DOMAIN Memory' = MemFields /\ Memory'.used = used' /\ Memory'.table = table'
      /\ Memory'.frames = frames' /\ Memory'.global_PML4 = global_PML4' /\ Memory'.halted = FALSE
  BY DEF Memory, MemFields
<1> DEFINE n == Memory'
<1> HIDE DEF n
<1>2. /\ DOMAIN n = MemFields /\ n.used = m.used /\ n.table = m.table
      /\ n.frames = m.frames /\ n.global_PML4 = m.global_PML4 /\ n.halted = FALSE
  BY <1>1 DEF becomes, n
<1>3. SameMemory(m, n) /\ SameMemory(n, m)
  BY <1>2 DEF SameMemory, Sound
<1>4. QED
  BY <1>3 DEF n

LEMMA SameMemoryServed ==
  ASSUME NEW m, NEW n, NEW P, SameMemory(m, n), Served(m, P)
  PROVE  Served(n, P)
<1>1. Keeps(m, n, P) /\ SameViews(m, n, P)
  BY SameTablesKeep DEF SameMemory, Served
<1>2. \A r, v : View(n, r, v) = View(m, r, v)
  BY DEF SameMemory, View
<1>3. QED
  BY <1>1, <1>2 DEF Served, Keeps

\* What is to be shown of a call.
LEMMA TablesNext ==
  ASSUME NEW m, ~m.halted, becomes(m), NEW P, Served(m, P), AllRoots' \subseteq P,
         Programs(m, UserRoots'), RootsDiffer', HeapsEnd'
  PROVE  TablesInv' /\ \A r, v : View(Memory', r, v) = View(m, r, v)
<1>1. SameMemory(m, Memory')
  BY NextMemory DEF Served, Trees
<1> DEFINE n == Memory'
           R == AllRoots'
           U == UserRoots'
<1>2. SameMemory(m, n) /\ R \subseteq P /\ Programs(m, U)
  BY <1>1
<1> HIDE DEF n, R, U
<1>3. Served(n, R)
  BY <1>2, SameMemoryServed, ServedLess
<1>4. \A r, v : View(n, r, v) = View(m, r, v)
  BY <1>2 DEF SameMemory, View
<1>5. Programs(n, U)
  BY <1>2, <1>4 DEF Programs
<1>6. TablesInv'
  BY <1>3, <1>5 DEF TablesInv, n, R, U
<1>7. QED
  BY <1>4, <1>6 DEF n

\* A call keeps the kernel's pages when it changes pages of the user only.
LEMMA ServedStays ==
  ASSUME NEW m, NEW n, NEW P, Served(m, P), Keeps(m, n, P),
         \A r \in P : \A x \in 1 .. KERNEL_PAGES - 1 :
           View(n, r, VIR_START + x) = View(m, r, VIR_START + x)
  PROVE  Served(n, P)
BY DEF Served, Keeps

\* No task but the roots' is changed.
RootsStay ==
  /\ Tasks' \subseteq Tasks /\ \A t \in Tasks' : task'[t].cr3 = task[t].cr3
  /\ global_PML4' = global_PML4
  /\ \A t \in Users' : task'[t].brk \in HeapEnds /\ task'[t].vm_end \in HeapEnds

LEMMA TablesNextOld ==
  ASSUME ~halted, TablesInv, NEW m, ~m.halted, becomes(m), RootsStay, Served(m, AllRoots),
         Programs(m, UserRoots)
  PROVE  TablesInv' /\ \A r, v : View(Memory', r, v) = View(m, r, v)
<1>1. Users' \subseteq Users
  BY DEF RootsStay, Users
<1>2. AllRoots' \subseteq AllRoots /\ UserRoots' \subseteq UserRoots
  BY <1>1 DEF RootsStay, AllRoots, UserRoots, Roots, Users
<1>3. RootsDiffer' /\ HeapsEnd'
  BY <1>1 DEF RootsStay, RootsDiffer, HeapsEnd, TablesInv, Users
<1>4. Programs(m, UserRoots')
  BY <1>2 DEF Programs
<1>5. QED
  BY <1>2, <1>3, <1>4, TablesNext
-----------------------------------------------------------------------------
(* The steps.                                                              *)

LEMMA CurrentServed ==
  ASSUME PoolInv, TablesInv, calls
  PROVE  /\ ~halted /\ Served(Memory, AllRoots) /\ Trees(Memory, AllRoots) /\ ~Memory.halted
         /\ current \in Users /\ cr3 \in UserRoots /\ cr3 \in AllRoots
         /\ SelfSet(Memory, cr3) /\ Memory.global_PML4 = global_PML4 /\ global_PML4 \in AllRoots
         /\ View(Memory, cr3, VIR_START + 1) # NoEntry
         /\ \A v \in BasePages : View(Memory, cr3, v) # NoEntry
         /\ task[current].vm_end \in HeapEnds
         /\ Programs(Memory, UserRoots) /\ UserRoots \subseteq AllRoots
<1>1. ~halted /\ current \in Users /\ ~Memory.halted /\ Memory.global_PML4 = global_PML4
  BY MemoryIs DEF calls
<1>2. Served(Memory, AllRoots) /\ Programs(Memory, UserRoots) /\ HeapsEnd
  BY <1>1 DEF TablesInv
<1>3. cr3 \in UserRoots /\ UserRoots \subseteq AllRoots /\ global_PML4 \in AllRoots
  BY <1>1 DEF UserRoots, AllRoots, Roots, Users, cr3
<1>4. 1 \in 1 .. KERNEL_PAGES - 1
  BY KernelPlain, ConstantsAre
<1>5. View(Memory, cr3, VIR_START + 1) = entry(1, {"P", "W"})
  BY <1>2, <1>3, <1>4 DEF Served
<1>6. entry(1, {"P", "W"}) # NoEntry
  BY DEF entry, NoEntry
<1>7. QED
  BY <1>1, <1>2, <1>3, <1>5, <1>6 DEF Served, Programs, HeapsEnd

\* A call that changes no table.
LEMMA SameTablesStep ==
  ASSUME ~halted, TablesInv, NEW m, ~m.halted, becomes(m), SameTables(Memory, m), RootsStay
  PROVE  TablesInv' /\ \A r, v : View(Memory', r, v) = View(Memory, r, v)
<1>1. Served(Memory, AllRoots) /\ Programs(Memory, UserRoots)
  BY DEF TablesInv
<1>2. Keeps(Memory, m, AllRoots)
  BY <1>1, SameTablesSet DEF Served
<1>3. \A r, v : View(m, r, v) = View(Memory, r, v)
  BY DEF SameTables, View
<1>4. Served(m, AllRoots) /\ Programs(m, UserRoots)
  BY <1>1, <1>2, <1>3, ServedStays DEF Programs
<1>5. QED
  BY <1>3, <1>4, TablesNextOld

LEMMA NothingTaken ==
  ASSUME PoolInv, TablesInv, ~halted, UNCHANGED <<ram, halted>>, RootsStay
  PROVE  TablesInv' /\ \A r, v : View(Memory', r, v) = View(Memory, r, v)
<1>1. becomes(Memory) /\ Sound(Memory)
  BY MemoryStays DEF Takes
<1>2. SameTables(Memory, Memory) /\ ~Memory.halted
  BY <1>1, MemoryIs DEF SameTables
<1>3. QED
  BY <1>1, <1>2, SameTablesStep

\* The tasks stay, or one of them gets a new record with the old table.
KeepsRoot(r, s) ==
  s.cr3 = r.cr3 /\ s.brk \in HeapEnds /\ s.vm_end \in HeapEnds /\ s # NoTask

LEMMA RootsOfSame ==
  ASSUME PoolInv, TablesInv, ~halted, task' = task, global_PML4' = global_PML4
  PROVE  RootsStay
BY DEF RootsStay, Tasks, Users, TablesInv, HeapsEnd

LEMMA RootsOfChange ==
  ASSUME PoolInv, TablesInv, ~halted, global_PML4' = global_PML4,
         NEW c \in Users, NEW s, KeepsRoot(task[c], s), task' = [task EXCEPT ![c] = s]
  PROVE  RootsStay
<1>1. DOMAIN task = Slots /\ c \in Tasks /\ task[c] # NoTask
  BY DEF PoolInv, TasksTyped, Users, Tasks
<1>2. \A t \in Slots : task'[t] = IF t = c THEN s ELSE task[t]
  BY <1>1 DEF Tasks
<1>3. Tasks' = Tasks /\ Users' = Users
  BY <1>1, <1>2 DEF Tasks, Users, KeepsRoot
<1>4. QED
  BY <1>2, <1>3 DEF RootsStay, KeepsRoot, Tasks, Users, TablesInv, HeapsEnd

LEMMA UserRecord ==
  ASSUME PoolInv, TablesInv, ~halted, NEW c \in Users
  PROVE  /\ DOMAIN task[c] = TaskFields /\ task[c].brk \in HeapEnds /\ task[c].vm_end \in HeapEnds
         /\ DOMAIN NoTask # TaskFields
<1>1. DOMAIN NoTask = {"state"}
  BY DEF NoTask
<1>2. QED
  BY <1>1 DEF PoolInv, TasksTyped, Users, TablesInv, HeapsEnd, TaskFields

\* Calls that leave the tables as they are.
QuietTables ==
  ~halted' /\ TablesInv' /\ RootsStay /\ \A r, v : View(Memory', r, v) = View(Memory, r, v)

LEMMA ExitTables ==
  ASSUME PoolInv, TablesInv, do_exit PROVE QuietTables
<1> DEFINE s == [task[current] EXCEPT !.state = "ended"]
<1>1. calls /\ UNCHANGED <<ram, halted>> /\ task' = [task EXCEPT ![current].state = "ended"]
  BY DEF do_exit
<1>2. ~halted /\ current \in Users
  BY <1>1, CurrentServed
<1>3. KeepsRoot(task[current], s)
  BY <1>2, UserRecord DEF KeepsRoot, TaskFields
<1>4. task' = [task EXCEPT ![current] = s] /\ global_PML4' = global_PML4
  BY <1>1 DEF ram
<1> HIDE DEF s
<1>5. RootsStay
  BY <1>2, <1>3, <1>4, RootsOfChange
<1>6. QED
  BY <1>1, <1>2, <1>5, NothingTaken DEF QuietTables

LEMMA KillTables ==
  ASSUME PoolInv, TablesInv, NEW t \in Users, do_kill(t) PROVE QuietTables
<1> DEFINE s == [task[t] EXCEPT !.state = "ended"]
<1>1. calls /\ UNCHANGED <<ram, halted>> /\ task' = [task EXCEPT ![t].state = "ended"]
  BY DEF do_kill
<1>2. ~halted
  BY <1>1, CurrentServed
<1>3. KeepsRoot(task[t], s)
  BY <1>2, UserRecord DEF KeepsRoot, TaskFields
<1>4. task' = [task EXCEPT ![t] = s] /\ global_PML4' = global_PML4
  BY <1>1 DEF ram
<1> HIDE DEF s
<1>5. RootsStay
  BY <1>2, <1>3, <1>4, RootsOfChange
<1>6. QED
  BY <1>1, <1>2, <1>5, NothingTaken DEF QuietTables

LEMMA SbrkTables ==
  ASSUME PoolInv, TablesInv, NEW n \in INCREMENTS, do_sbrk(n) PROVE QuietTables
<1> DEFINE b == task[current].brk + n
           s == [task[current] EXCEPT !.brk = b, !.vm_end = b]
<1>1. calls /\ UNCHANGED <<ram, halted>> /\ current = INIT /\ task[INIT].brk = HEAP_BASE + 1
      /\ task' = [task EXCEPT ![current].brk = @ + n,
                              ![current].vm_end = task[current].brk + n]
  BY DEF do_sbrk
<1>2. ~halted /\ current \in Users
  BY <1>1, CurrentServed
<1>3. b \in HeapEnds
  BY <1>1 DEF INCREMENTS, HeapEnds
<1>4. KeepsRoot(task[current], s)
  BY <1>2, <1>3, UserRecord DEF KeepsRoot, TaskFields
<1>5. DOMAIN task = Slots /\ current \in Slots /\ DOMAIN task[current] = TaskFields
  BY <1>2, UserRecord DEF PoolInv, TasksTyped, Users, Tasks
<1>6. task' = [task EXCEPT ![current] = s] /\ global_PML4' = global_PML4
  BY <1>1, <1>5 DEF ram
<1> HIDE DEF s
<1>7. RootsStay
  BY <1>2, <1>4, <1>6, RootsOfChange
<1>8. QED
  BY <1>1, <1>2, <1>7, NothingTaken DEF QuietTables

LEMMA ScheduleTables ==
  ASSUME PoolInv, TablesInv, schedule PROVE QuietTables
<1>1. ~halted /\ UNCHANGED <<ram, task, halted>> /\ global_PML4' = global_PML4
  BY DEF schedule, ram
<1>2. QED
  BY <1>1, RootsOfSame, NothingTaken DEF QuietTables

LEMMA PsTables ==
  ASSUME PoolInv, TablesInv, NEW dead \in SUBSET Ended, do_ps(dead) PROVE QuietTables
<1> DEFINE m == clean_dead(Memory, dead)
<1>1. /\ calls /\ becomes(m)
      /\ task' = [t \in Slots |-> IF t \in dead THEN NoTask ELSE task[t]]
  BY DEF do_ps
<1>2. ~halted
  BY <1>1, CurrentServed
<1>3. dead \in SUBSET Users
  BY DEF Ended
<1>4. halted' = FALSE
  BY <1>1, <1>2, <1>3, CleanDeadIs
<1>5. Sound(Memory)
  BY MemorySound DEF PoolInv
<1>6. SameTables(Memory, m)
  BY <1>5, CleanDeadTables
<1> HIDE DEF m
<1>7. ~m.halted /\ global_PML4' = global_PML4
  BY <1>1, <1>4, <1>6, MemoryIs DEF becomes, SameTables
<1>8. /\ Tasks' = Tasks \ dead /\ \A t \in Tasks \ dead : task'[t] = task[t]
  BY <1>1 DEF Tasks
<1>9. RootsStay
  BY <1>2, <1>7, <1>8 DEF RootsStay, Users, TablesInv, HeapsEnd
<1>10. QED
  BY <1>1, <1>2, <1>4, <1>6, <1>7, <1>9, SameTablesStep DEF QuietTables

\* exec, which may fail when the stack has been replaced.
StackReplaced(m, n, P, r) ==
  \E f \in Frames \ m.frames : SetsSeen(m, n, P, r, STACK_TOP - 1, Own(f))

Replaced(m, n, P, r, g) ==
  \E f, h, k \in Frames \ m.frames :
    /\ f # h /\ f # k /\ h # k
    /\ \A s \in P, v \in Seen :
         View(n, s, v) = IF s = g /\ v = CODE THEN Own(h)
                         ELSE IF s = g /\ v = DATA THEN Own(k)
                         ELSE IF s = r /\ v = STACK_TOP - 1 THEN Own(f)
                         ELSE View(m, s, v)

\* Pages of programs that have been given a frame.
LEMMA OwnIs ==
  ASSUME NEW f PROVE Own(f) # NoEntry /\ Own(f).to = f /\ Own(f).bits = {"P", "W", "U"}
BY DEF Own, entry, NoEntry

LEMMA BasePagesAre ==
  /\ BasePages \subseteq UserPages /\ UserPages \subseteq Seen /\ BasePages \subseteq Seen
  /\ STACK_TOP - 1 \in BasePages /\ CODE \in UserPages /\ DATA \in UserPages
  /\ \A x \in 1 .. KERNEL_PAGES - 1 :
       VIR_START + x \in Seen /\ VIR_START + x \in Plain /\ VIR_START + x \notin UserPages
<1>1. BasePages \subseteq UserPages /\ CODE \in UserPages /\ DATA \in UserPages
      /\ STACK_TOP - 1 \in BasePages
  BY DEF BasePages, UserPages
<1>2. UserPages \subseteq Seen /\ \A v \in UserPages : \A n \in 0 .. KERNEL_PAGES - 1 : v # VIR_START + n
  BY UserPagesPlain
<1>3. \A x \in 1 .. KERNEL_PAGES - 1 : VIR_START + x \in Seen /\ VIR_START + x \in Plain
  BY KernelPlain DEF Seen
<1>4. \A x \in 1 .. KERNEL_PAGES - 1 : x \in 0 .. KERNEL_PAGES - 1
  BY ConstantsAre
<1>5. QED
  BY <1>1, <1>2, <1>3, <1>4

\* What a call may do to the views of the pages of users.
LEMMA ProgramsStay ==
  ASSUME NEW m, NEW n, NEW P, NEW R, R \subseteq P, Programs(m, R),
         \A s \in P, v \in BasePages : View(n, s, v) = View(m, s, v) \/ View(n, s, v) # NoEntry
  PROVE  Programs(n, R)
BY DEF Programs

LEMMA ExecFailsTables ==
  ASSUME PoolInv, TablesInv, do_execv_fails
  PROVE  ~halted' /\ TablesInv' /\ RootsStay /\ StackReplaced(Memory, Memory', AllRoots, cr3)
         /\ current \in Users /\ cr3 \in AllRoots
<1> DEFINE m == Memory
           P == AllRoots
           n == new_stack(m, cr3)
           s == [task[current] EXCEPT !.brk = HEAP_BASE + 1]
<1>1. becomes(n) /\ calls /\ HasFree(m, 3 + 1)
      /\ task' = [task EXCEPT ![current].brk = HEAP_BASE + 1]
  BY DEF do_execv_fails, allocates, HasFree, FRAMES_OF_A_CALL
<1>2. /\ ~halted /\ Served(m, P) /\ Trees(m, P) /\ ~m.halted /\ current \in Users /\ cr3 \in P
      /\ SelfSet(m, cr3) /\ m.global_PML4 = global_PML4 /\ View(m, cr3, VIR_START + 1) # NoEntry
      /\ View(m, cr3, STACK_TOP - 1) # NoEntry /\ Programs(m, UserRoots) /\ UserRoots \subseteq P
  BY <1>1, CurrentServed, BasePagesAre
<1>3. KeepsRoot(task[current], s)
  BY <1>2, UserRecord DEF KeepsRoot, TaskFields, HeapEnds
<1>4. task' = [task EXCEPT ![current] = s]
  BY <1>1
<1>5. free_frames(m) # {}
  BY <1>1, HasFreeOne
<1>6. IsStack(m, n, P, cr3)
  BY <1>2, <1>5, NewStackSets
<1> HIDE DEF m, n, s, P
<1>7. global_PML4' = global_PML4
  BY <1>1, <1>2, <1>6 DEF becomes, IsStack
<1>8. RootsStay
  BY <1>2, <1>3, <1>4, <1>7, RootsOfChange
<1>9. \A r \in P, v \in Seen : View(n, r, v) = IF r = cr3 /\ v = STACK_TOP - 1
                                               THEN Own(new_frame(m)) ELSE View(m, r, v)
  BY <1>6 DEF IsStack, SetsSeen
<1>10. Served(n, P)
  <2>1. \A r \in P : \A x \in 1 .. KERNEL_PAGES - 1 :
          View(n, r, VIR_START + x) = View(m, r, VIR_START + x)
    BY <1>9, BasePagesAre
  <2>2. QED
    BY <1>2, <1>6, <2>1, ServedStays DEF IsStack
<1>11. Programs(n, UserRoots)
  BY <1>2, <1>9, BasePagesAre, OwnIs, ProgramsStay
<1>12. TablesInv' /\ \A r, v : View(Memory', r, v) = View(n, r, v)
  BY <1>1, <1>2, <1>6, <1>8, <1>10, <1>11, TablesNextOld DEF IsStack, P
<1>13. StackReplaced(m, Memory', P, cr3)
  BY <1>6, <1>9, <1>12 DEF StackReplaced, SetsSeen, IsStack
<1>14. ~halted'
  BY <1>1, <1>6 DEF becomes, IsStack
<1>15. QED
  BY <1>2, <1>8, <1>12, <1>13, <1>14 DEF m, P

LEMMA ExecTables ==
  ASSUME PoolInv, TablesInv, do_execv, ~halted'
  PROVE  TablesInv' /\ RootsStay /\ Replaced(Memory, Memory', AllRoots, cr3, global_PML4)
         /\ current \in Users /\ cr3 \in AllRoots /\ global_PML4 \in AllRoots
<1> DEFINE m == Memory
           P == AllRoots
           a == new_stack(m, cr3)
           n == load_elf(a)
           s == [task[current] EXCEPT !.brk = HEAP_BASE + 1, !.vm_end = HEAP_BASE + 1]
<1>1. becomes(n) /\ calls /\ HasFree(m, 3 + 1)
      /\ task' = IF n.halted THEN task
                 ELSE [task EXCEPT ![current].brk = HEAP_BASE + 1,
                                   ![current].vm_end = HEAP_BASE + 1]
  BY DEF do_execv, allocates, HasFree, FRAMES_OF_A_CALL
<1>2. /\ ~halted /\ Served(m, P) /\ Trees(m, P) /\ ~m.halted /\ current \in Users /\ cr3 \in P
      /\ SelfSet(m, cr3) /\ m.global_PML4 = global_PML4 /\ View(m, cr3, VIR_START + 1) # NoEntry
      /\ View(m, cr3, STACK_TOP - 1) # NoEntry /\ Programs(m, UserRoots) /\ UserRoots \subseteq P
      /\ global_PML4 \in P
  BY <1>1, CurrentServed, BasePagesAre
<1>3. KeepsRoot(task[current], s)
  BY <1>2, UserRecord DEF KeepsRoot, TaskFields, HeapEnds
<1>4. ~n.halted
  BY <1>1 DEF becomes
<1>5. task' = [task EXCEPT ![current] = s]
  <2>1. DOMAIN task = Slots /\ current \in Slots
    BY <1>2 DEF PoolInv, TasksTyped, Users, Tasks
  <2> HIDE DEF n
  <2>2. QED
    BY <1>1, <1>4, <2>1
<1>6. free_frames(m) # {}
  BY <1>1, HasFreeOne
<1>7. IsStack(m, a, P, cr3)
  BY <1>2, <1>6, NewStackSets
<1> HIDE DEF m, a, s, P
<1>8. HasFree(a, 2)
  <2>1. HasFree(a, 3)
    BY <1>1, <1>7, FreeAfter DEF IsStack
  <2>2. QED
    BY <2>1, FreeIsFinite DEF HasFree
<1>9. IsLoaded(a, n, P)
  BY <1>2, <1>4, <1>7, <1>8, LoadElfSets DEF IsStack, Keeps
<1> HIDE DEF n
<1>10. Keeps(m, n, P) /\ n.global_PML4 = global_PML4 /\ a.global_PML4 = global_PML4
  BY <1>2, <1>7, <1>9, KeepsThen DEF IsStack, IsLoaded
<1>11. global_PML4' = global_PML4
  BY <1>1, <1>10 DEF becomes
<1>12. RootsStay
  BY <1>2, <1>3, <1>5, <1>11, RootsOfChange
<1> DEFINE f == new_frame(m)
           g == global_PML4
<1>13. PICK h, k \in Frames \ a.frames :
         /\ h # k /\ n.frames = a.frames \cup {h, k}
         /\ \A r \in P, v \in Plain :
              View(n, r, v) = IF r = g /\ v = CODE THEN Own(h)
                              ELSE IF r = g /\ v = DATA THEN Own(k) ELSE View(a, r, v)
  BY <1>9, <1>10 DEF IsLoaded
<1>14. /\ \A r \in P, v \in Seen :
            View(a, r, v) = IF r = cr3 /\ v = STACK_TOP - 1 THEN Own(f) ELSE View(m, r, v)
       /\ a.frames = m.frames \cup {f} /\ f \in Frames \ m.frames
  BY <1>7 DEF IsStack, SetsSeen
<1> HIDE DEF f, g
<1>15. f # h /\ f # k /\ h \in Frames \ m.frames /\ k \in Frames \ m.frames
  BY <1>13, <1>14
<1>16. \A r \in P, v \in Seen :
         View(n, r, v) = IF r = g /\ v = CODE THEN Own(h)
                         ELSE IF r = g /\ v = DATA THEN Own(k)
                         ELSE IF r = cr3 /\ v = STACK_TOP - 1 THEN Own(f)
                         ELSE View(m, r, v)
  BY <1>13, <1>14 DEF Seen
<1>17. Served(n, P)
  <2>1. \A r \in P : \A x \in 1 .. KERNEL_PAGES - 1 :
          View(n, r, VIR_START + x) = View(m, r, VIR_START + x)
    <3>1. \A x \in 1 .. KERNEL_PAGES - 1 :
            /\ VIR_START + x \in Seen
            /\ VIR_START + x # CODE /\ VIR_START + x # DATA /\ VIR_START + x # STACK_TOP - 1
      BY BasePagesAre
    <3>2. QED
      BY <1>16, <3>1
  <2>2. QED
    BY <1>2, <1>10, <2>1, ServedStays
<1>18. Programs(n, UserRoots)
  <2>1. \A r \in P, v \in BasePages : View(n, r, v) = View(m, r, v) \/ View(n, r, v) # NoEntry
    BY <1>16, BasePagesAre, OwnIs
  <2>2. QED
    BY <1>2, <2>1, ProgramsStay
<1>19. TablesInv' /\ \A r, v : View(Memory', r, v) = View(n, r, v)
  BY <1>1, <1>2, <1>4, <1>12, <1>17, <1>18, TablesNextOld DEF P
<1>20. Replaced(m, Memory', P, cr3, g)
  BY <1>13, <1>14, <1>15, <1>16, <1>19 DEF Replaced
<1>21. QED
  BY <1>2, <1>12, <1>19, <1>20 DEF m, P, g

\* A fault: one page gets a new frame, or its own one again.
PageSet(m, n, P, r, v, F) == \E f \in F : SetsView(m, n, P, r, v, Own(f))

LEMMA AccessibleIs ==
  ASSUME task[current].vm_end \in HeapEnds, NEW page \in accessible
  PROVE  page \in {HEAP_BASE, HEAP_BASE + TABLE_SIZE} /\ page \in UserPages /\ page \in Seen
<1>1. HEAP_BASE \in Nat /\ TABLE_SIZE \in Nat
  BY AddressesAre, SizeIs
<1>2. page \in {HEAP_BASE, HEAP_BASE + TABLE_SIZE}
  BY <1>1 DEF accessible, HeapEnds
<1>3. page \in UserPages
  BY <1>2 DEF UserPages
<1>4. QED
  BY <1>2, <1>3, BasePagesAre

\* Both faults change one page of the running task.
LEMMA FaultTables ==
  ASSUME PoolInv, TablesInv, calls, UNCHANGED task, NEW page \in accessible, NEW n, NEW f,
         becomes(n), Keeps(Memory, n, AllRoots), SetsView(Memory, n, AllRoots, cr3, page, Own(f)),
         n.global_PML4 = global_PML4, ~n.halted
  PROVE  ~halted' /\ TablesInv' /\ RootsStay /\ SetsView(Memory, Memory', AllRoots, cr3, page, Own(f))
<1> DEFINE m == Memory
           P == AllRoots
<1>1. /\ ~halted /\ Served(m, P) /\ cr3 \in P /\ Programs(m, UserRoots) /\ UserRoots \subseteq P
      /\ page \in UserPages
  BY CurrentServed, AccessibleIs
<1>2. RootsStay
  BY <1>1, RootsOfSame DEF becomes
<1> HIDE DEF m, P
<1>3. \A r \in P, v \in Plain : View(n, r, v) = IF r = cr3 /\ v = page THEN Own(f) ELSE View(m, r, v)
  BY DEF SetsView, m, P
<1>4. Served(n, P)
  <2>1. \A r \in P : \A x \in 1 .. KERNEL_PAGES - 1 :
          View(n, r, VIR_START + x) = View(m, r, VIR_START + x)
    BY <1>1, <1>3, BasePagesAre
  <2>2. QED
    BY <1>1, <2>1, ServedStays DEF m, P
<1>5. Programs(n, UserRoots)
  <2>1. \A r \in P, v \in BasePages : View(n, r, v) = View(m, r, v) \/ View(n, r, v) # NoEntry
    BY <1>3, BasePagesAre, OwnIs DEF Seen
  <2>2. QED
    BY <1>1, <2>1, ProgramsStay
<1>6. TablesInv' /\ \A r, v : View(Memory', r, v) = View(n, r, v)
  BY <1>1, <1>2, <1>4, <1>5, TablesNextOld DEF P
<1>7. ~halted'
  BY DEF becomes
<1>8. QED
  BY <1>2, <1>3, <1>6, <1>7 DEF SetsView, m, P

LEMMA DemandTables ==
  ASSUME PoolInv, TablesInv, NEW page \in accessible, demand_paging(page)
  PROVE  ~halted' /\ TablesInv' /\ RootsStay /\ PageSet(Memory, Memory', AllRoots, cr3, page, Frames \ frames)
         /\ current \in Users /\ View(Memory, cr3, page) = NoEntry /\ page \in UserPages
         /\ page \in {HEAP_BASE, HEAP_BASE + TABLE_SIZE}
<1> DEFINE F == CHOOSE g : IsDown(g, page)
           n == Handled(page)
<1>1. allocates /\ calls /\ becomes(F[PT]) /\ UNCHANGED <<task, current>>
      /\ translate(table, cr3, page) = NoEntry
  BY Zenon DEF demand_paging, IsDown, DownItem, Demand, allocates
<1>2. F[PT] = Handled(page)
  BY DownIs
<1> HIDE DEF F
<1>3. HasFree(Memory, 4)
  BY <1>1 DEF allocates, HasFree, FRAMES_OF_A_CALL
<1>4. View(Memory, cr3, page) = NoEntry
  BY <1>1, MemoryIs DEF View
<1>5. /\ Trees(Memory, AllRoots) /\ cr3 \in AllRoots /\ SelfSet(Memory, cr3) /\ current \in Users
      /\ page \in UserPages /\ page \in Plain /\ page \in {HEAP_BASE, HEAP_BASE + TABLE_SIZE}
      /\ Memory.global_PML4 = global_PML4
  BY <1>1, CurrentServed, AccessibleIs DEF Seen
<1>6. IsDemanded(Memory, n, AllRoots, cr3, page)
  BY <1>3, <1>4, <1>5, HandledSets
<1>7. becomes(n)
  BY <1>1, <1>2
<1> HIDE DEF n
<1>8. PICK f \in Frames \ frames : SetsView(Memory, n, AllRoots, cr3, page, Own(f))
  BY <1>6, MemoryIs DEF IsDemanded
<1>9. Keeps(Memory, n, AllRoots) /\ n.global_PML4 = global_PML4 /\ ~n.halted
  BY <1>5, <1>6 DEF IsDemanded
<1>10. ~halted' /\ TablesInv' /\ RootsStay /\ SetsView(Memory, Memory', AllRoots, cr3, page, Own(f))
  BY <1>1, <1>7, <1>8, <1>9, FaultTables
<1>11. QED
  BY <1>4, <1>5, <1>10 DEF PageSet

LEMMA CopyTables ==
  ASSUME PoolInv, TablesInv, NEW page \in accessible, NEW b \in BOOLEAN, copy_on_write(page, b)
  PROVE  ~halted' /\ TablesInv' /\ RootsStay
         /\ PageSet(Memory, Memory', AllRoots, cr3, page,
                    (Frames \ frames) \cup {View(Memory, cr3, page).to})
         /\ current \in Users /\ "COW" \in View(Memory, cr3, page).bits /\ page \in UserPages
<1> DEFINE m == Memory
           P == AllRoots
           e == View(m, cr3, page)
           p == Copied(m, cr3, page)
           q == self_ref_write(m, cr3, PT, page, Own(e.to))
           old == self_ref_read(m, cr3, PT, page)
           n == IF b THEN p ELSE q
<1>1. allocates /\ calls /\ UNCHANGED <<task, current>> /\ "COW" \in old.bits
      /\ becomes(IF b THEN p ELSE self_ref_write(m, cr3, PT, page, Own(old.to)))
  BY DEF copy_on_write, allocates, Copied, put_back, Own
<1>2. /\ Trees(m, P) /\ ~m.halted /\ cr3 \in P /\ SelfSet(m, cr3) /\ current \in Users
      /\ m.global_PML4 = global_PML4 /\ View(m, cr3, VIR_START + 1) # NoEntry
      /\ page \in UserPages /\ page \in Plain /\ m.frames = frames
  BY <1>1, CurrentServed, AccessibleIs, MemoryIs DEF Seen
<1>3. old = e
  BY <1>2, SelfReadsView
<1>4. becomes(n) /\ "COW" \in e.bits
  BY <1>1, <1>3
<1>5. HasFree(m, 3 + 1)
  BY <1>1 DEF allocates, HasFree, FRAMES_OF_A_CALL
<1> HIDE DEF m, P, e, p, q
<1>6. e # NoEntry
  BY <1>4 DEF NoEntry
<1>7. page # VIR_START + 1
  <2>1. 1 \in 1 .. KERNEL_PAGES - 1
    BY KernelPlain, ConstantsAre
  <2>2. QED
    BY <1>2, <2>1, BasePagesAre
<1>8. PICK f \in (Frames \ frames) \cup {e.to} : IsReplaced(m, n, P, cr3, page, f)
  <2>1. IsReplaced(m, q, P, cr3, page, e.to)
    BY <1>2, <1>6, KeptSets DEF e, q
  <2>2. IsReplaced(m, p, P, cr3, page, new_frame(m)) /\ new_frame(m) \in Frames \ frames
    BY <1>2, <1>5, <1>6, <1>7, HasFreeOne, CopySets DEF e, p
  <2>3. QED
    BY <2>1, <2>2
<1> HIDE DEF n
<1>9. Keeps(m, n, P) /\ SetsView(m, n, P, cr3, page, Own(f)) /\ n.global_PML4 = global_PML4 /\ ~n.halted
  BY <1>2, <1>8 DEF IsReplaced
<1>10. ~halted' /\ TablesInv' /\ RootsStay /\ SetsView(m, Memory', P, cr3, page, Own(f))
  BY <1>1, <1>4, <1>9, FaultTables DEF m, P
<1>11. QED
  BY <1>2, <1>4, <1>8, <1>10 DEF PageSet, m, P, e

\* fork: a task with a new table, which shares the pages of the areas.
ForkedViews(m, n, P, r, root, A) ==
  /\ \A s \in P, v \in Plain :
       View(n, s, v) = IF s = r /\ v \in A THEN Marked(View(m, s, v)) ELSE View(m, s, v)
  /\ \A v \in Plain :
       View(n, root, v) = IF v \in KernelPages(Parts) THEN KernelEntry(v)
                          ELSE IF v \in A THEN Marked(View(m, r, v)) ELSE NoEntry

NewTask(c, root) ==
  /\ c \in Slots \ Tasks /\ c # IDLE /\ Tasks' = Tasks \cup {c} /\ Users' = Users \cup {c}
  /\ task'[c].cr3 = root /\ \A t \in Tasks : task'[t] = task[t]
  /\ global_PML4' = root /\ root \notin AllRoots
  /\ task'[c].brk \in HeapEnds /\ task'[c].vm_end \in HeapEnds

LEMMA BaseInArea ==
  ASSUME NEW e \in HeapEnds PROVE BasePages \subseteq AreaOf(e)
<1>1. HEAP_BASE \in Nat /\ TABLE_SIZE \in Nat
  BY AddressesAre, SizeIs
<1>2. 0 \in 0 .. e - HEAP_BASE - 1 /\ HEAP_BASE + 0 = HEAP_BASE
  BY <1>1 DEF HeapEnds
<1>3. HEAP_BASE \in {HEAP_BASE + j : j \in 0 .. e - HEAP_BASE - 1}
  BY <1>2
<1>4. QED
  BY <1>3 DEF BasePages, AreaOf

LEMMA MarkedIs ==
  ASSUME NEW e PROVE Marked(e) = NoEntry <=> e = NoEntry
BY CowIs DEF Marked

LEMMA ForkedServed ==
  ASSUME NEW m, NEW n, NEW P, NEW r \in P, NEW c, NEW e \in HeapEnds, NEW R, R \subseteq P, r \in R,
         Served(m, P), Programs(m, R), IsForked(m, n, P, r, c, AreaOf(e))
  PROVE  Served(n, P \cup {c}) /\ Programs(n, R \cup {c})
<1> DEFINE A == AreaOf(e)
<1>1. /\ Trees(n, P \cup {c}) /\ Keeps(m, n, P) /\ SelfSet(n, c)
      /\ \A s \in P, v \in Plain :
           View(n, s, v) = IF s = r /\ v \in A THEN Marked(View(m, s, v)) ELSE View(m, s, v)
      /\ \A v \in Plain :
           View(n, c, v) = IF v \in KernelPages(Parts) THEN KernelEntry(v)
                           ELSE IF v \in A THEN Marked(View(m, r, v)) ELSE NoEntry
  BY DEF IsForked
<1>2. \A x \in 1 .. KERNEL_PAGES - 1 :
        /\ VIR_START + x \in Plain /\ VIR_START + x \notin A
        /\ VIR_START + x \in KernelPages(Parts) /\ KernelEntry(VIR_START + x) = entry(x, {"P", "W"})
  <2> SUFFICES ASSUME NEW x \in 1 .. KERNEL_PAGES - 1
               PROVE /\ VIR_START + x \in Plain /\ VIR_START + x \notin A
                     /\ VIR_START + x \in KernelPages(Parts)
                     /\ KernelEntry(VIR_START + x) = entry(x, {"P", "W"})
    OBVIOUS
  <2>1. VIR_START \in Nat /\ x \in 0 .. KERNEL_PAGES - 1 /\ VIR_START + x \in Plain
        /\ (VIR_START + x) - VIR_START = x
    BY KernelPlain, ConstantsAre
  <2>2. VIR_START + x \notin A
    BY <2>1, AreasPlain
  <2>3. VIR_START + x \in KernelPages(Parts)
    BY <2>1, AllKernelPages
  <2>4. QED
    BY <2>1, <2>2, <2>3 DEF KernelEntry
<1>3. \A v \in BasePages : v \in Plain /\ v \in A /\ v \notin KernelPages(Parts)
  <2> SUFFICES ASSUME NEW v \in BasePages PROVE v \in Plain /\ v \in A /\ v \notin KernelPages(Parts)
    OBVIOUS
  <2>1. v \in A
    BY BaseInArea
  <2>2. v \in Plain /\ \A x \in 0 .. KERNEL_PAGES - 1 : v # VIR_START + x
    BY <2>1, AreasPlain DEF Seen
  <2>3. QED
    BY <2>1, <2>2, AllKernelPages
<1> HIDE DEF A
<1>4. ASSUME NEW s \in P \cup {c}
      PROVE  SelfSet(n, s) /\ \A x \in 1 .. KERNEL_PAGES - 1 : View(n, s, VIR_START + x) = entry(x, {"P", "W"})
  <2>1. CASE s = c
    BY <1>1, <1>2, <2>1
  <2>2. CASE s \in P
    <3>1. SelfSet(n, s)
      BY <1>1, <2>2 DEF Served, Keeps
    <3>2. \A x \in 1 .. KERNEL_PAGES - 1 : View(n, s, VIR_START + x) = View(m, s, VIR_START + x)
      BY <1>1, <1>2, <2>2
    <3>3. QED
      BY <2>2, <3>1, <3>2 DEF Served
  <2>3. QED
    BY <2>1, <2>2
<1>5. Served(n, P \cup {c})
  BY <1>1, <1>4 DEF Served
<1>6. ASSUME NEW s \in R \cup {c}, NEW v \in BasePages PROVE View(n, s, v) # NoEntry
  <2>1. View(m, r, v) # NoEntry /\ (s \in R => View(m, s, v) # NoEntry)
    BY <1>6 DEF Programs
  <2>2. CASE s = c
    BY <1>1, <1>3, <2>1, <2>2, MarkedIs
  <2>3. CASE s \in R
    BY <1>1, <1>3, <2>1, <2>3, MarkedIs
  <2>4. QED
    BY <2>2, <2>3
<1>7. QED
  BY <1>5, <1>6 DEF Programs

LEMMA ForkTablesStep ==
  ASSUME PoolInv, TablesInv, do_fork, ~halted'
  PROVE  /\ TablesInv' /\ current \in Users /\ cr3 \in AllRoots
         /\ task[current].vm_end \in HeapEnds
         /\ \E c, root : NewTask(c, root)
              /\ ForkedViews(Memory, Memory', AllRoots, cr3, root, AreaOf(task[current].vm_end))
<1> DEFINE m == Memory
           P == AllRoots
           a == task_pages(m)
           n == set_child_pt(a)
           c == Given(m, "TASK")
           root == page_of(a, "USERPT")
           e == task[current].vm_end
           r == new_task(m, n.global_PML4, task[current].brk, e)
<1>1. /\ calls /\ becomes(n)
      /\ task' = IF n.halted THEN task ELSE [task EXCEPT ![c] = r]
  BY DEF do_fork, Given
<1>2. /\ ~halted /\ Served(m, P) /\ Trees(m, P) /\ current \in Users /\ cr3 \in P /\ cr3 \in UserRoots
      /\ SelfSet(m, cr3) /\ Programs(m, UserRoots) /\ UserRoots \subseteq P
      /\ e \in HeapEnds /\ task[current].brk \in HeapEnds /\ Sound(m) /\ m.used = used
  BY <1>1, CurrentServed, UserRecord, MemorySound, MemoryIs DEF PoolInv
<1>3. ~n.halted
  BY <1>1 DEF becomes
<1>4. SameTables(m, a)
  BY <1>2, TaskPagesOther
<1>5. ~a.halted => c \in 0 .. NUMBER["TASK"] - 1 /\ c \notin used["TASK"]
  BY <1>2, TaskPagesAre
<1>6. /\ DOMAIN r = TaskFields /\ r.cr3 = n.global_PML4 /\ r.brk = task[current].brk /\ r.vm_end = e
  BY DEF new_task, TaskFields
<1> HIDE DEF m, a, r, c, root
<1>7. Trees(a, P) /\ Keeps(m, a, P) /\ SelfSet(a, cr3) /\ \A s, v : View(a, s, v) = View(m, s, v)
  BY <1>2, <1>4, SameTablesSet DEF Keeps, SameTables, View
<1>8. IsForked(a, n, P, cr3, root, AreaOf(e))
  BY <1>2, <1>3, <1>7, ForkTables DEF root, e
<1> HIDE DEF n, e, P
<1>9. ~a.halted /\ n.global_PML4 = root /\ root \notin P
  BY <1>8 DEF IsForked
<1>10. c \in Slots /\ c \notin Tasks /\ c # IDLE
  <2>1. NUMBER["TASK"] = PROCESS_NUMBER
    BY NumbersAre
  <2>2. used["TASK"] = Tasks /\ IDLE \in Tasks
    BY <1>2 DEF PoolInv, PagesHeld, TasksTyped
  <2>3. QED
    BY <1>5, <1>9, <2>1, <2>2 DEF Slots
<1>11. task' = [task EXCEPT ![c] = r] /\ DOMAIN task = Slots
  BY <1>1, <1>3 DEF PoolInv, TasksTyped
<1>12. NewTask(c, root)
  <2>1. r # NoTask
    <3>1. DOMAIN NoTask = {"state"}
      BY DEF NoTask
    <3>2. QED
      BY <1>6, <3>1 DEF TaskFields
  <2>2. task'[c] = r /\ \A t \in Slots : t # c => task'[t] = task[t]
    BY <1>10, <1>11
  <2>3. Tasks' = Tasks \cup {c} /\ \A t \in Tasks : task'[t] = task[t]
    BY <1>10, <2>1, <2>2 DEF Tasks
  <2>4. Users' = Users \cup {c}
    BY <1>10, <2>3 DEF Users
  <2>5. global_PML4' = root
    BY <1>1, <1>9 DEF becomes
  <2>6. QED
    BY <1>2, <1>6, <1>9, <1>10, <2>2, <2>3, <2>4, <2>5 DEF NewTask, P
<1>13. Served(a, P) /\ Programs(a, UserRoots)
  <2>1. Served(a, P)
    BY <1>2, <1>7, ServedStays
  <2>2. QED
    BY <1>2, <1>7, <2>1 DEF Programs
<1>14. Served(n, P \cup {root}) /\ Programs(n, UserRoots \cup {root})
  BY <1>2, <1>8, <1>13, ForkedServed
<1>15. AllRoots' \subseteq P \cup {root} /\ UserRoots' = UserRoots \cup {root}
  <2>1. /\ Tasks' = Tasks \cup {c} /\ Users' = Users \cup {c} /\ Users \subseteq Tasks
        /\ task'[c].cr3 = root /\ global_PML4' = root /\ \A t \in Tasks : task'[t] = task[t]
    BY <1>12 DEF NewTask, Users
  <2>2. UserRoots' = UserRoots \cup {root}
    BY <2>1 DEF UserRoots
  <2>3. AllRoots' \subseteq P \cup {root}
    <3>1. \A t \in Tasks' : task'[t].cr3 \in {task[u].cr3 : u \in Tasks} \cup {root}
      BY <2>1
    <3>2. Roots' \subseteq Roots \cup {root}
      BY <3>1 DEF Roots
    <3>3. QED
      BY <2>1, <3>2 DEF AllRoots, P
  <2>4. QED
    BY <2>2, <2>3
<1>16. RootsDiffer' /\ HeapsEnd'
  <2>1. /\ Users' = Users \cup {c} /\ c \notin Users /\ \A t \in Users : task'[t] = task[t]
        /\ task'[c].cr3 = root /\ \A t \in Users : task[t].cr3 # root
        /\ task'[c].brk \in HeapEnds /\ task'[c].vm_end \in HeapEnds
    BY <1>12 DEF NewTask, Users, AllRoots, Roots
  <2>2. RootsDiffer /\ HeapsEnd
    BY <1>2 DEF TablesInv
  <2>3. RootsDiffer'
    BY <2>1, <2>2 DEF RootsDiffer
  <2>4. HeapsEnd'
    BY <2>1, <2>2 DEF HeapsEnd
  <2>5. QED
    BY <2>3, <2>4
<1>17. Programs(n, UserRoots')
  BY <1>14, <1>15
<1>18. TablesInv' /\ \A s, v : View(Memory', s, v) = View(n, s, v)
  BY <1>1, <1>3, <1>14, <1>15, <1>16, <1>17, TablesNext
<1>19. ForkedViews(m, Memory', P, cr3, root, AreaOf(e))
  BY <1>7, <1>8, <1>18 DEF IsForked, ForkedViews
<1>20. QED
  BY <1>2, <1>12, <1>18, <1>19 DEF m, P, e
-----------------------------------------------------------------------------
(* The boot.                                                               *)

\* The tables while the boot goes on: the pages of A have frames of their own,
\* and k frames are left.
Boots(m, g, A, k) ==
  /\ Served(m, {g}) /\ ~m.halted /\ m.global_PML4 = g /\ HasFree(m, k)
  /\ \A v \in A : View(m, g, v).to \in m.frames /\ View(m, g, v) = Own(View(m, g, v).to)
  /\ \A v, w \in A : View(m, g, v).to = View(m, g, w).to => v = w
  /\ \A v \in UserPages \ A : View(m, g, v) = NoEntry

LEMMA BootsSame ==
  ASSUME NEW m, NEW g, NEW A, NEW k, Boots(m, g, A, k), NEW n, SameTables(m, n), ~n.halted
  PROVE  Boots(n, g, A, k)
<1>1. Keeps(m, n, {g})
  BY SameTablesSet DEF Boots, Served
<1>2. /\ n.frames = m.frames /\ n.global_PML4 = g /\ \A r, v : View(n, r, v) = View(m, r, v)
      /\ free_frames(n) = free_frames(m)
  BY DEF SameTables, Boots, View, free_frames
<1>3. Served(n, {g})
  BY <1>1, <1>2, ServedStays DEF Boots
<1>4. HasFree(n, k)
  BY <1>2 DEF Boots, HasFree
<1>5. QED
  BY <1>2, <1>3, <1>4 DEF Boots

\* A page gets a new frame.
BootsSet(m, n, g, page, f) ==
  /\ Keeps(m, n, {g}) /\ n.global_PML4 = m.global_PML4 /\ ~n.halted
  /\ SetsSeen(m, n, {g}, g, page, Own(f))
  /\ n.frames = m.frames \cup {f} /\ f = new_frame(m) /\ f \notin m.frames

LEMMA BootsOne ==
  ASSUME NEW m, NEW g, NEW A, A \subseteq UserPages, NEW k \in Nat, Boots(m, g, A, k + 1),
         NEW n, NEW page \in UserPages, NEW f, BootsSet(m, n, g, page, f)
  PROVE  Boots(n, g, A \cup {page}, k)
<1>1. \A v \in Seen : View(n, g, v) = IF v = page THEN Own(f) ELSE View(m, g, v)
  BY DEF BootsSet, SetsSeen
<1>2. Served(n, {g})
  <2>1. \A x \in 1 .. KERNEL_PAGES - 1 : View(n, g, VIR_START + x) = View(m, g, VIR_START + x)
    BY <1>1, BasePagesAre
  <2>2. QED
    BY <2>1, ServedStays DEF Boots, BootsSet
<1>3. HasFree(n, k)
  BY FreeAfter DEF BootsSet, Boots
<1>4. \A v \in UserPages : View(n, g, v) = IF v = page THEN Own(f) ELSE View(m, g, v)
  BY <1>1, BasePagesAre
<1>5. ASSUME NEW v \in A \cup {page}
      PROVE  View(n, g, v).to \in n.frames /\ View(n, g, v) = Own(View(n, g, v).to)
  BY <1>4, OwnIs DEF Boots, BootsSet
<1>6. ASSUME NEW v \in A \cup {page}, NEW w \in A \cup {page}, View(n, g, v).to = View(n, g, w).to
      PROVE  v = w
  <2>1. \A x \in A : View(m, g, x).to \in m.frames
    BY DEF Boots
  <2>2. f \notin m.frames /\ Own(f).to = f
    BY OwnIs DEF BootsSet
  <2>3. CASE v = page
    BY <1>4, <1>6, <2>1, <2>2, <2>3
  <2>4. CASE w = page
    BY <1>4, <1>6, <2>1, <2>2, <2>4
  <2>5. CASE v # page /\ w # page
    <3>1. v \in A /\ w \in A /\ View(m, g, v).to = View(m, g, w).to
      BY <1>4, <1>6, <2>5
    <3>2. QED
      BY <3>1 DEF Boots
  <2>6. QED
    BY <2>3, <2>4, <2>5
<1>7. \A v \in UserPages \ (A \cup {page}) : View(n, g, v) = NoEntry
  BY <1>4 DEF Boots
<1>8. ~n.halted /\ n.global_PML4 = g
  BY DEF BootsSet, Boots
<1>9. QED
  BY <1>2, <1>3, <1>5, <1>6, <1>7, <1>8 DEF Boots

LEMMA BootsMapped ==
  ASSUME NEW m, NEW g, NEW A, A \subseteq UserPages, NEW k \in Nat, Boots(m, g, A, k + 1),
         NEW page \in UserPages, ~umalloc(m, page).halted
  PROVE  Boots(umalloc(m, page), g, A \cup {page}, k)
<1> DEFINE n == umalloc(m, page)
<1>1. Trees(m, {g}) /\ m.global_PML4 = g /\ page \in Plain
  BY BasePagesAre DEF Boots, Served, Seen
<1>2. free_frames(m) # {}
  BY HasFreeOne DEF Boots
<1>3. IsGiven(m, n, {g}, g, page)
  BY <1>1, <1>2, UmallocSets
<1> HIDE DEF n
<1>4. SetsSeen(m, n, {g}, g, page, Own(new_frame(m)))
  BY <1>3, SeenIs DEF IsGiven
<1>5. BootsSet(m, n, g, page, new_frame(m))
  BY <1>3, <1>4 DEF IsGiven, BootsSet, n
<1>6. QED
  BY <1>5, BootsOne DEF n

LEMMA BootsStack ==
  ASSUME NEW m, NEW g, NEW A, A \subseteq UserPages, NEW k \in Nat, Boots(m, g, A, k + 1),
         STACK_TOP - 1 \in A
  PROVE  Boots(new_stack(m, g), g, A, k)
<1> DEFINE n == new_stack(m, g)
<1>1. Trees(m, {g}) /\ SelfSet(m, g) /\ ~m.halted
  BY DEF Boots, Served
<1>2. View(m, g, STACK_TOP - 1) # NoEntry
  BY OwnIs DEF Boots
<1>3. View(m, g, VIR_START + 1) # NoEntry
  <2>1. 1 \in 1 .. KERNEL_PAGES - 1 /\ entry(1, {"P", "W"}) # NoEntry
    BY KernelPlain, ConstantsAre DEF entry, NoEntry
  <2>2. QED
    BY <2>1 DEF Boots, Served
<1>4. IsStack(m, n, {g}, g)
  BY <1>1, <1>2, <1>3, HasFreeOne, NewStackSets DEF Boots
<1> HIDE DEF n
<1>5. BootsSet(m, n, g, STACK_TOP - 1, new_frame(m))
  BY <1>4 DEF IsStack, BootsSet
<1>6. Boots(n, g, A \cup {STACK_TOP - 1}, k)
  BY <1>5, BootsOne
<1>7. A \cup {STACK_TOP - 1} = A
  OBVIOUS
<1>8. QED
  BY <1>6, <1>7 DEF n

\* init_mm: the first table.
LEMMA FirstTable ==
  ASSUME NEW m, m = kmalloc(Empty, "KERNPT"), ~m.halted
  PROVE  /\ Trees(m, {m.global_PML4}) /\ m.frames = {}
         /\ \A v \in Plain : View(m, m.global_PML4, v) = NoEntry
<1> DEFINE U == [f \in Flags |-> {}]
           r == [used |-> U]
           E == Empty
<1>1. Sound(E) /\ E.table = <<>> /\ E.frames = {} /\ E.used = U /\ E.global_PML4 = page_of(r, "KERNPT")
  BY EmptyIs DEF Empty
<1>2. r.used = U
  OBVIOUS
<1> HIDE DEF U, r
<1>3. page_of(E, "KERNPT") = E.global_PML4
  BY <1>1, <1>2 DEF page_of, unused
<1> HIDE DEF E
<1>4. DOMAIN E.table = {}
  BY <1>1
<1>5. TablesTaken(E) /\ Filled(E.table) /\ "KERNPT" \in PtFlags
  BY <1>4 DEF TablesTaken, Filled, PtFlags
<1> DEFINE g == page_of(E, "KERNPT")
<1>6. IsTable(E, m, "KERNPT", g)
  BY <1>1, <1>5, TableTaken DEF E
<1> HIDE DEF g
<1>7. /\ m.table = put(E.table, g, <<>>) /\ Sound(m) /\ TablesTaken(m) /\ m.frames = {}
      /\ g \notin DOMAIN E.table /\ g \notin E.frames /\ m.global_PML4 = g
  BY <1>1, <1>3, <1>6 DEF IsTable, g
<1>8. DOMAIN m.table = DOMAIN E.table \cup {g} /\ SameContent(E.table, m.table) /\ Filled(m.table)
  <2>1. g \notin DOMAIN E.table /\ m.table = put(E.table, g, <<>>) /\ Filled(E.table)
    BY <1>5, <1>7
  <2>2. QED
    BY <2>1, NewTableHolds
<1> DEFINE lev == [t \in {} |-> PML4]
<1>9. Tree(E.table, E.frames, lev)
  <2>1. lev \in [{} -> Levels]
    OBVIOUS
  <2> HIDE DEF lev
  <2>2. QED
    BY <1>4, <2>1 DEF Tree, Leading, Single, Selves, Leaves
<1> HIDE DEF lev
<1> DEFINE l2 == WithLevel(E.table, lev, g, PML4)
<1>10. Tree(m.table, m.frames, l2)
  BY <1>1, <1>7, <1>8, <1>9, TreeWithRoot
<1>11. l2[g] = PML4
  BY DEF WithLevel
<1>12. Trees(m, {g})
  BY <1>7, <1>8, <1>10, <1>11 DEF Trees, Rooting
<1>13. ASSUME NEW v \in Plain PROVE View(m, g, v) = NoEntry
  <2> DEFINE T == m.table
  <2>1. \A t, i : content(T, t, i) = NoEntry
    <3>1. \A t, i : ~IsEntry(E.table, t, i)
      BY <1>4, ContentIs
    <3>2. QED
      BY <1>8, <3>1 DEF SameContent, IsEntry
  <2> HIDE DEF T
  <2>2. translate(T, g, v) = NoEntry
    BY <2>1, WalkIs
  <2>3. QED
    BY <2>2 DEF View, T
<1>14. QED
  BY <1>7, <1>12, <1>13

LEMMA KernelBoots ==
  ASSUME NEW m, m = kmalloc(Empty, "KERNPT"), NEW n, n = map_kernel(m, "KERNPT"), ~n.halted
  PROVE  Boots(n, n.global_PML4, {}, 6)
<1> DEFINE g == m.global_PML4
<1>1. Sound(m) /\ "KERNPT" \in Flags /\ "KERNPT" \in PtFlags
  BY EmptyIs DEF Takes, Flags, PtFlags
<1>2. Takes(m, n, {"KERNPT"}) /\ n.frames = m.frames
  BY <1>1, MapKernelIs, MapsSound
<1>3. ~m.halted
  BY <1>2 DEF Takes
<1>4. /\ Trees(m, {g}) /\ m.frames = {} /\ \A v \in Plain : View(m, g, v) = NoEntry
  BY <1>3, FirstTable
<1>5. IsKernelMapped(m, n, {g})
  BY <1>1, <1>4, MapKernelSets
<1> HIDE DEF g
<1>6. /\ Trees(n, {g}) /\ SelfSet(n, g) /\ n.global_PML4 = g
      /\ \A v \in Plain : View(n, g, v) = IF v \in KernelPages(Parts) THEN KernelEntry(v)
                                          ELSE View(m, g, v)
  BY <1>5 DEF IsKernelMapped, Keeps, SetsKernel, KernelPages, g
<1>7. ASSUME NEW x \in 1 .. KERNEL_PAGES - 1
      PROVE  View(n, g, VIR_START + x) = entry(x, {"P", "W"})
  <2>1. VIR_START \in Nat /\ x \in 0 .. KERNEL_PAGES - 1 /\ VIR_START + x \in Plain
        /\ (VIR_START + x) - VIR_START = x
    BY KernelPlain, ConstantsAre
  <2>2. VIR_START + x \in KernelPages(Parts)
    BY <2>1, AllKernelPages
  <2>3. QED
    BY <1>6, <2>1, <2>2 DEF KernelEntry
<1>8. Served(n, {g})
  BY <1>6, <1>7 DEF Served
<1>9. ASSUME NEW v \in UserPages PROVE View(n, g, v) = NoEntry
  <2>1. v \in Plain /\ \A x \in 0 .. KERNEL_PAGES - 1 : v # VIR_START + x
    BY UserPagesPlain DEF Seen
  <2>2. v \notin KernelPages(Parts)
    BY <2>1, AllKernelPages
  <2>3. QED
    BY <1>4, <1>6, <2>1, <2>2
<1>10. HasFree(n, 6)
  <2>1. free_frames(n) = KERNEL_PAGES .. PAGE_NUM - 1
    BY <1>2, <1>4 DEF free_frames
  <2>2. Cardinality(KERNEL_PAGES .. PAGE_NUM - 1) =
          IF KERNEL_PAGES > PAGE_NUM - 1 THEN 0 ELSE PAGE_NUM - 1 - KERNEL_PAGES + 1
    BY ConstantsAre, FS_Interval
  <2>3. KERNEL_PAGES + 6 <= PAGE_NUM
    BY BootAssumption
  <2>4. QED
    BY <2>1, <2>2, <2>3, ConstantsAre DEF HasFree
<1>11. QED
  BY <1>6, <1>8, <1>9, <1>10 DEF Boots

\* The pages of a program differ.
LEMMA PagesDiffer ==
  /\ CODE # DATA /\ UserPages \ BasePages = {HEAP_BASE + TABLE_SIZE, STACK_TOP - STACK_PAGES}
  /\ STACK_TOP - STACK_PAGES \notin {CODE, DATA, HEAP_BASE, HEAP_BASE + TABLE_SIZE, STACK_TOP - 1, STACK_TOP}
  /\ {CODE, DATA} \cap {HEAP_BASE, HEAP_BASE + TABLE_SIZE, STACK_TOP - 1, STACK_TOP} = {}
  /\ {HEAP_BASE, HEAP_BASE + TABLE_SIZE} \cap {STACK_TOP - 1, STACK_TOP} = {}
<1>1. CODE # DATA
  BY CodeIsNotData
<1>2. /\ HEAP_BASE \in Nat /\ STACK_TOP \in Nat /\ TABLE_SIZE \in Nat /\ TABLE_SIZE > 0
      /\ STACK_TOP - STACK_PAGES = STACK_TOP - 2
  BY AddressesAre, SizeIs DEF STACK_PAGES
<1>3. /\ index(PDPT, CODE) = 0 /\ index(PDPT, DATA) = 0
      /\ index(PDPT, HEAP_BASE) = 1 /\ index(PDPT, HEAP_BASE + TABLE_SIZE) = 1
      /\ index(PDPT, STACK_TOP) = 4 /\ index(PDPT, STACK_TOP - 1) = 3
      /\ index(PDPT, STACK_TOP - STACK_PAGES) = 3
  <2>1. ASSUME NEW a \in Digits, NEW b \in Digits, NEW c \in Digits
        PROVE  index(PDPT, at(0, a, b, c)) = a
    BY SmallDigits, AtIs
  <2>2. /\ index(PDPT, at(0, 0, 2, 0)) = 0 /\ index(PDPT, at(0, 0, 3, 0)) = 0
        /\ index(PDPT, at(0, 1, 0, 0)) = 1 /\ index(PDPT, at(0, 1, 1, 0)) = 1
        /\ index(PDPT, at(0, 4, 0, 0)) = 4
    BY <2>1, SmallDigits
  <2>3. \A z \in {TABLE_SIZE - 1, TABLE_SIZE - 2} :
          index(PDPT, at(0, 3, TABLE_SIZE - 1, z)) = 3
    BY <2>1, SmallDigits
  <2>4. QED
    BY <2>2, <2>3, UserPagesAre
<1>4. HEAP_BASE + TABLE_SIZE # HEAP_BASE /\ STACK_TOP - 2 # STACK_TOP - 1 /\ STACK_TOP - 2 # STACK_TOP
  BY <1>2
<1>5. STACK_TOP - STACK_PAGES \notin {CODE, DATA, HEAP_BASE, HEAP_BASE + TABLE_SIZE, STACK_TOP - 1, STACK_TOP}
  BY <1>2, <1>3, <1>4
<1>6. /\ {CODE, DATA} \cap {HEAP_BASE, HEAP_BASE + TABLE_SIZE, STACK_TOP - 1, STACK_TOP} = {}
      /\ {HEAP_BASE, HEAP_BASE + TABLE_SIZE} \cap {STACK_TOP - 1, STACK_TOP} = {}
  BY <1>3
<1>7. HEAP_BASE + TABLE_SIZE \notin BasePages /\ STACK_TOP - STACK_PAGES \notin BasePages
  BY <1>4, <1>5, <1>6 DEF BasePages
<1>8. UserPages = BasePages \cup {HEAP_BASE + TABLE_SIZE, STACK_TOP - STACK_PAGES}
  BY DEF UserPages, BasePages
<1>9. QED
  BY <1>1, <1>5, <1>6, <1>7, <1>8

LEMMA BootTables ==
  ASSUME NEW m, m = started(booted), ~m.halted
  PROVE  Boots(m, m.global_PML4, BasePages, 0)
<1> DEFINE m0 == kmalloc(Empty, "KERNPT")
           m1 == map_kernel(m0, "KERNPT")
           m2 == kmallocs(m1, "TASK", 2)
           m3 == kmallocs(m2, "KSTACK", 2)
           m4 == kmalloc(m3, "MM")
           m5 == kmallocs(m4, "VMA", AREAS)
           m6 == umalloc(m5, HEAP_BASE)
           m7 == umalloc(m6, STACK_TOP)
           m8 == umalloc(m7, STACK_TOP - 1)
           m9 == new_stack(m8, m8.global_PML4)
           a  == kmalloc(m9, "FILE")
           b  == umalloc(a, CODE)
           c  == umalloc(b, DATA)
           g  == m1.global_PML4
<1>1. m = c
  BY DEF started, booted, Empty, load_elf
<1>2. /\ {"TASK", "KSTACK", "MM", "VMA", "FILE"} \subseteq Flags \ PtFlags
      /\ AREAS \in Nat /\ 2 \in Nat /\ "KERNPT" \in Flags
  BY DEF Flags, AREAS, PtFlags
<1>3. Sound(m0)
  BY EmptyIs DEF Takes
<1>4. Sound(m1) /\ (~m1.halted => Boots(m1, g, {}, 6))
  <2>1. Sound(m1)
    <3> HIDE DEF m0
    <3>1. QED
      BY <1>2, <1>3, MapKernelIs, MapsSound DEF Takes
  <2>2. ~m1.halted => Boots(m1, m1.global_PML4, {}, 6)
    BY KernelBoots
  <2>3. QED
    BY <2>1, <2>2
<1> HIDE DEF m1
<1>5. SameTables(m1, m2) /\ Sound(m2)
  BY <1>2, <1>4, KmallocsOther DEF SameTables
<1> HIDE DEF m2
<1>6. SameTables(m2, m3) /\ Sound(m3)
  BY <1>2, <1>5, KmallocsOther DEF SameTables
<1> HIDE DEF m3
<1>7. SameTables(m3, m4) /\ Sound(m4)
  BY <1>2, <1>6, KmallocOther DEF SameTables
<1> HIDE DEF m4
<1>8. SameTables(m4, m5) /\ Sound(m5)
  BY <1>2, <1>7, KmallocsOther DEF SameTables
<1> HIDE DEF m5
<1>9. Takes(m5, m6, {"USERPT"}) /\ Sound(m6)
  BY <1>8, UmallocIs DEF Takes
<1>10. Takes(m6, m7, {"USERPT"}) /\ Sound(m7)
  <2> HIDE DEF m6
  <2>1. QED
    BY <1>9, UmallocIs DEF Takes
<1>11. Takes(m7, m8, {"USERPT"}) /\ Sound(m8)
  <2> HIDE DEF m7
  <2>1. QED
    BY <1>10, UmallocIs DEF Takes
<1>12. Takes(m8, m9, {}) /\ Sound(m9)
  <2> HIDE DEF m8
  <2>1. QED
    BY <1>11, NewStackIs DEF Takes
<1>13. SameTables(m9, a) /\ Sound(a)
  <2> HIDE DEF m9
  <2>1. QED
    BY <1>2, <1>12, KmallocOther DEF SameTables
<1>14. Takes(a, b, {"USERPT"}) /\ Sound(b)
  <2> HIDE DEF a
  <2>1. QED
    BY <1>13, UmallocIs DEF Takes
<1>15. Takes(b, c, {"USERPT"})
  <2> HIDE DEF b
  <2>1. QED
    BY <1>14, UmallocIs DEF Takes
<1>16. ~b.halted /\ ~a.halted /\ ~m9.halted /\ ~m8.halted /\ ~m7.halted /\ ~m6.halted
       /\ ~m5.halted /\ ~m4.halted /\ ~m3.halted /\ ~m2.halted /\ ~m1.halted /\ ~c.halted
  <2> HIDE DEF m6, m7, m8, m9, a, b, c
  <2>1. QED
    BY <1>1, <1>5, <1>6, <1>7, <1>8, <1>9, <1>10, <1>11, <1>12, <1>13, <1>14, <1>15
       DEF Takes, SameTables
<1> HIDE DEF g
<1>17. Boots(m5, g, {}, 5 + 1)
  <2>1. SameTables(m1, m5)
    BY <1>5, <1>6, <1>7, <1>8, SameTablesThen
  <2>2. QED
    BY <1>4, <1>16, <2>1, BootsSame
<1>18. Boots(m6, g, {HEAP_BASE}, 4 + 1)
  <2>1. {} \subseteq UserPages /\ HEAP_BASE \in UserPages /\ {} \cup {HEAP_BASE} = {HEAP_BASE}
    BY DEF UserPages
  <2>2. QED
    BY <1>16, <1>17, <2>1, BootsMapped
<1> HIDE DEF m6
<1>19. Boots(m7, g, {HEAP_BASE, STACK_TOP}, 3 + 1)
  <2>1. {HEAP_BASE} \subseteq UserPages /\ STACK_TOP \in UserPages
        /\ {HEAP_BASE} \cup {STACK_TOP} = {HEAP_BASE, STACK_TOP}
    BY DEF UserPages
  <2>2. QED
    BY <1>16, <1>18, <2>1, BootsMapped
<1> HIDE DEF m7
<1>20. Boots(m8, g, {HEAP_BASE, STACK_TOP, STACK_TOP - 1}, 2 + 1)
  <2>1. {HEAP_BASE, STACK_TOP} \subseteq UserPages /\ STACK_TOP - 1 \in UserPages
        /\ {HEAP_BASE, STACK_TOP} \cup {STACK_TOP - 1} = {HEAP_BASE, STACK_TOP, STACK_TOP - 1}
    BY DEF UserPages
  <2>2. QED
    BY <1>16, <1>19, <2>1, BootsMapped
<1> HIDE DEF m8
<1> DEFINE A == {HEAP_BASE, STACK_TOP, STACK_TOP - 1}
<1>21. A \subseteq UserPages /\ STACK_TOP - 1 \in A
  BY DEF UserPages
<1>22. Boots(m8, g, A, 2 + 1)
  BY <1>20
<1> HIDE DEF A
<1>23. m8.global_PML4 = g
  BY <1>22 DEF Boots
<1>24. Boots(m9, g, A, 1 + 1)
  BY <1>21, <1>22, <1>23, BootsStack
<1> HIDE DEF m9
<1>25. Boots(a, g, A, 1 + 1)
  BY <1>13, <1>16, <1>24, BootsSame
<1> HIDE DEF a
<1>26. Boots(b, g, A \cup {CODE}, 0 + 1) /\ A \cup {CODE} \subseteq UserPages
  <2>1. CODE \in UserPages
    BY BasePagesAre
  <2>2. QED
    BY <1>16, <1>21, <1>25, <2>1, BootsMapped
<1> HIDE DEF b
<1>27. Boots(c, g, (A \cup {CODE}) \cup {DATA}, 0)
  BY <1>16, <1>26, BasePagesAre, BootsMapped
<1> HIDE DEF c
<1>28. (A \cup {CODE}) \cup {DATA} = BasePages
  BY DEF BasePages, A
<1>29. c.global_PML4 = g
  BY <1>27 DEF Boots
<1>30. QED
  BY <1>1, <1>27, <1>28, <1>29

\* The idle thread and init have the first table.
LEMMA TablesAtStart ==
  ASSUME Init
  PROVE  TablesInv /\ (~halted => Boots(Memory, global_PML4, BasePages, 0))
         /\ Users = {INIT} /\ task[INIT].cr3 = global_PML4
<1> DEFINE m == started(booted)
<1>1. /\ used = m.used /\ table = m.table /\ frames = m.frames
      /\ global_PML4 = m.global_PML4 /\ halted = m.halted
      /\ task = [t \in Slots |-> first_task(t, m.global_PML4)]
  BY DEF Init
<1>2. Sound(m)
  BY StartedIs
<1> HIDE DEF m
<1>3. Users = {INIT} /\ Tasks = {IDLE, INIT}
  BY FirstTasks
<1>4. IDLE \in Slots /\ INIT \in Slots /\ IDLE # INIT
  BY ConstantsAre DEF Slots, IDLE, INIT
<1>5. /\ task[IDLE].cr3 = global_PML4 /\ task[INIT].cr3 = global_PML4
      /\ task[INIT].brk = HEAP_BASE + 1 /\ task[INIT].vm_end = HEAP_BASE + 1
  BY <1>1, <1>4 DEF first_task
<1>6. AllRoots = {global_PML4} /\ UserRoots = {global_PML4} /\ RootsDiffer /\ HeapsEnd
  BY <1>3, <1>5 DEF AllRoots, Roots, UserRoots, RootsDiffer, HeapsEnd, HeapEnds
<1>7. ASSUME ~halted PROVE Boots(Memory, global_PML4, BasePages, 0)
  <2>1. Boots(m, global_PML4, BasePages, 0)
    BY <1>1, <1>7, BootTables DEF m
  <2>2. SameTables(m, Memory) /\ ~Memory.halted
    <3>1. Sound(Memory)
      BY <1>1, <1>2, MemoryIs DEF Sound
    <3>2. QED
      BY <1>1, <1>7, <3>1, MemoryIs DEF SameTables
  <2>3. QED
    BY <2>1, <2>2, BootsSame
<1>8. ASSUME ~halted PROVE Served(Memory, {global_PML4}) /\ Programs(Memory, {global_PML4})
  BY <1>7, <1>8, OwnIs DEF Boots, Programs
<1>9. TablesInv
  BY <1>6, <1>8 DEF TablesInv
<1>10. QED
  BY <1>3, <1>5, <1>7, <1>9

LEMMA TablesStep ==
  ASSUME PoolInv, TablesInv, [Next]_vars
  PROVE  TablesInv'
<1>1. CASE halted'
  BY <1>1 DEF TablesInv
<1>2. CASE ~halted' /\ UNCHANGED vars
  <2>1. UNCHANGED <<ram, halted>> /\ task' = task /\ global_PML4' = global_PML4 /\ ~halted
    BY <1>2 DEF vars, ram
  <2>2. RootsStay
    BY <2>1, RootsOfSame
  <2>3. QED
    BY <2>1, <2>2, NothingTaken
<1>3. CASE ~halted' /\ Next
  <2>1. CASE do_fork
    BY <1>3, <2>1, ForkTablesStep
  <2>2. CASE do_execv
    BY <1>3, <2>2, ExecTables
  <2>3. CASE do_execv_fails
    BY <2>3, ExecFailsTables
  <2>4. CASE do_exit
    BY <2>4, ExitTables DEF QuietTables
  <2>5. CASE schedule
    BY <2>5, ScheduleTables DEF QuietTables
  <2>6. CASE \E n \in INCREMENTS : do_sbrk(n)
    BY <2>6, SbrkTables DEF QuietTables
  <2>7. CASE \E page \in accessible : demand_paging(page)
    BY <2>7, DemandTables
  <2>8. CASE \E page \in accessible, b \in BOOLEAN : copy_on_write(page, b)
    BY <2>8, CopyTables
  <2>9. CASE \E t \in Users : do_kill(t)
    BY <2>9, KillTables DEF QuietTables
  <2>10. CASE \E dead \in SUBSET Ended : do_ps(dead)
    BY <2>10, PsTables DEF QuietTables
  <2>11. QED
    BY <1>3, <2>1, <2>2, <2>3, <2>4, <2>5, <2>6, <2>7, <2>8, <2>9, <2>10 DEF Next
<1>4. QED
  BY <1>1, <1>2, <1>3

\* The tables keep their form, and each task that runs a program its pages.
THEOREM TablesAlways == Spec => [](PoolInv /\ TablesInv)
<1>1. Spec => []PoolInv
  BY PoolsAlways
<1>2. Init => TablesInv
  BY TablesAtStart
<1>3. PoolInv /\ TablesInv /\ [Next]_vars => TablesInv'
  BY TablesStep
<1>4. QED
  BY <1>1, <1>2, <1>3, PTL DEF Spec
-----------------------------------------------------------------------------
(* What holds in the invariant.                                            *)

LEMMA KernelEntriesThere ==
  ASSUME NEW m, NEW r, NEW P, Served(m, P), r \in P, NEW k \in 0 .. Parts - 1,
         NEW j \in Digits, k * TABLE_SIZE + j > 0
  PROVE  m.table[Walk(m.table, r, PartStart(k), PT)][j] = entry(k * TABLE_SIZE + j, {"P", "W"})
<1> DEFINE x == k * TABLE_SIZE + j
           w == VIR_START + x
           t == Walk(m.table, r, PartStart(k), PT)
<1>1. k * TABLE_SIZE + j \in 0 .. KERNEL_PAGES - 1
  BY PartsAre
<1>2. x \in 1 .. KERNEL_PAGES - 1
  BY <1>1, ConstantsAre
<1>3. w = PartStart(k) + j
  BY PartStartIs
<1>4. SameTable(PartStart(k), PartStart(k) + j) /\ index(PT, PartStart(k) + j) = j
  BY PartStartIs
<1>5. View(m, r, w) = entry(x, {"P", "W"})
  BY <1>2 DEF Served
<1>6. Walk(m.table, r, w, PT) = t
  BY <1>3, <1>4, WalkOfSame
<1>7. View(m, r, w) = content(m.table, t, j)
  BY <1>3, <1>4, <1>6, WalkIs DEF View
<1>8. entry(x, {"P", "W"}) # NoEntry
  BY DEF entry, NoEntry
<1> HIDE DEF x, w, t
<1>9. content(m.table, t, j) = m.table[t][j]
  BY <1>5, <1>7, <1>8 DEF content
<1>10. QED
  BY <1>5, <1>7, <1>9 DEF x, t

\* The kernel sees its memory at VIR_START in every process, for tables and
\* memories of any size: the temporary mappings of exec and of copy-on-write
\* leave no trace in it, but for the first page, which exec unmaps.
THEOREM KernelStaysMapped == Spec => []KernelIsMapped
<1>1. PoolInv /\ TablesInv => KernelIsMapped
  <2>1. SUFFICES ASSUME TablesInv, ~halted, NEW r \in Roots,
                        NEW k \in 0 .. KERNEL_PAGES \div TABLE_SIZE - 1,
                        NEW j \in 0 .. TABLE_SIZE - 1, k * TABLE_SIZE + j > 0
                 PROVE  table[walk(table, r, VIR_START + k * TABLE_SIZE)[PT]][j]
                          = entry(k * TABLE_SIZE + j, {"P", "W"})
    BY DEF KernelIsMapped
  <2>2. Served(Memory, AllRoots) /\ r \in AllRoots
    BY <2>1 DEF TablesInv, AllRoots
  <2>3. k \in 0 .. Parts - 1 /\ j \in Digits
    BY DEF Parts, Digits
  <2>4. Memory.table = table
    BY MemoryIs
  <2>5. QED
    BY <2>1, <2>2, <2>3, <2>4, KernelEntriesThere DEF Walk, PartStart
<1>2. QED
  BY <1>1, TablesAlways, PTL

\* The address that the kernel computes for an entry leads to the entry that
\* the processor uses, in the table of every process and at each level.
THEOREM SelfReferenceAlwaysReaches == Spec => []SelfReferenceReachesTable
<1>1. PoolInv /\ TablesInv => SelfReferenceReachesTable
  <2>1. SUFFICES ASSUME TablesInv, ~halted, NEW r \in Roots,
                        NEW v \in UserPages \cup {VIR_START}, NEW level \in Levels
                 PROVE  self_ref(table, r, level, v) = <<walk(table, r, v)[level], index(level, v)>>
    BY DEF SelfReferenceReachesTable
  <2>2. Served(Memory, AllRoots) /\ r \in AllRoots
    BY <2>1 DEF TablesInv, AllRoots
  <2>3. SelfSet(Memory, r) /\ Memory.table = table
    BY <2>2, MemoryIs DEF Served
  <2>4. v \in Reach
    BY UserPagesPlain, KernelPlain DEF Seen, Plain
  <2>5. QED
    BY <2>3, <2>4, SelfReads DEF Walk
<1>2. QED
  BY <1>1, TablesAlways, PTL
-----------------------------------------------------------------------------
(* The entries that lead to tables.                                        *)

OfPml4(r) == entries_of({r}) \ {<<r, SELF>>}
OfPdpt(r) == entries_of(leads_to(OfPml4(r)))
OfPdt(r)  == entries_of(leads_to(OfPdpt(r)))
LinksOf(r) == OfPml4(r) \cup OfPdpt(r) \cup OfPdt(r)
AllLinks   == UNION {LinksOf(r) : r \in Roots}

\* An entry of a table at a level that leads to one of the next.
LinkAt(lev, e, d) ==
  /\ e = <<e[1], e[2]>> /\ e[1] \in DOMAIN table /\ e[2] \in Digits /\ lev[e[1]] = d
  /\ IsEntry(table, e[1], e[2]) /\ Inner(lev, e[1], e[2])
  /\ content(table, e[1], e[2]) = table[e[1]][e[2]]

LEMMA EntriesAre ==
  ASSUME NEW S PROVE \A e : e \in entries_of(S) <=> \E t \in S : \E i \in DOMAIN table[t] : e = <<t, i>>
BY DEF entries_of

LEMMA EntryIsContent ==
  ASSUME Filled(table), NEW t \in DOMAIN table, NEW i \in DOMAIN table[t]
  PROVE  i \in Digits /\ IsEntry(table, t, i) /\ content(table, t, i) = table[t][i]
BY DEF Filled, IsEntry, content

LEMMA EntriesLink ==
  ASSUME NEW lev, NEW F, Tree(table, F, lev), Filled(table), NEW d \in {PDPT, PDT},
         NEW S, \A t \in S : t \in DOMAIN table /\ lev[t] = d
  PROVE  \A e \in entries_of(S) : LinkAt(lev, e, d)
<1> SUFFICES ASSUME NEW e \in entries_of(S) PROVE LinkAt(lev, e, d)
  OBVIOUS
<1>0. PICK t \in S : \E i \in DOMAIN table[t] : e = <<t, i>>
  BY EntriesAre
<1>1. PICK i \in DOMAIN table[t] : e = <<t, i>>
  BY <1>0
<1>2. t \in DOMAIN table /\ lev[t] = d
  OBVIOUS
<1>3. i \in Digits /\ IsEntry(table, t, i) /\ content(table, t, i) = table[t][i]
  BY <1>2, EntryIsContent
<1>4. Inner(lev, t, i)
  BY <1>2, LevelsAre DEF Inner
<1>5. e[1] = t /\ e[2] = i
  BY <1>1
<1>6. QED
  BY <1>1, <1>2, <1>3, <1>4, <1>5 DEF LinkAt

LEMMA RootLinks ==
  ASSUME NEW lev, NEW F, Tree(table, F, lev), Filled(table),
         NEW r \in DOMAIN table, lev[r] = PML4
  PROVE  \A e \in OfPml4(r) : LinkAt(lev, e, PML4)
<1> SUFFICES ASSUME NEW e \in OfPml4(r) PROVE LinkAt(lev, e, PML4)
  OBVIOUS
<1>0. PICK t \in {r} : \E i \in DOMAIN table[t] : e = <<t, i>>
  BY EntriesAre DEF OfPml4
<1>1. PICK i \in DOMAIN table[t] : e = <<t, i>>
  BY <1>0
<1>2. t = r /\ i # SELF
  BY <1>1 DEF OfPml4
<1>3. i \in Digits /\ IsEntry(table, r, i) /\ content(table, r, i) = table[r][i]
  BY <1>2, EntryIsContent
<1>4. Inner(lev, r, i)
  BY <1>2, LevelsAre DEF Inner
<1>5. e[1] = r /\ e[2] = i
  BY <1>1, <1>2
<1>6. QED
  BY <1>1, <1>2, <1>3, <1>4, <1>5 DEF LinkAt

LEMMA LinksLead ==
  ASSUME NEW lev, NEW F, Tree(table, F, lev), NEW d, NEW E, \A e \in E : LinkAt(lev, e, d)
  PROVE  \A t \in leads_to(E) : t \in DOMAIN table /\ lev[t] = d - 1
<1> SUFFICES ASSUME NEW t \in leads_to(E) PROVE t \in DOMAIN table /\ lev[t] = d - 1
  OBVIOUS
<1>1. PICK e \in E : t = table[e[1]][e[2]].to
  BY DEF leads_to
<1>2. LinkAt(lev, e, d)
  OBVIOUS
<1>3. e[1] \in DOMAIN table
  BY <1>2 DEF LinkAt
<1>4. t = content(table, e[1], e[2]).to
  BY <1>1, <1>2 DEF LinkAt
<1>5. QED
  BY <1>2, <1>3, <1>4 DEF LinkAt, Tree, Leading

\* Three levels of them, the tables of the lowest below.
LEMMA LinksAre ==
  ASSUME NEW lev, NEW F, Tree(table, F, lev), Filled(table),
         NEW r \in DOMAIN table, lev[r] = PML4
  PROVE  /\ \A e \in OfPml4(r) : LinkAt(lev, e, PML4)
         /\ \A e \in OfPdpt(r) : LinkAt(lev, e, PDPT)
         /\ \A e \in OfPdt(r) : LinkAt(lev, e, PDT)
         /\ \A t \in leads_to(OfPdt(r)) : t \in DOMAIN table /\ lev[t] = PT
<1>0. PML4 - 1 = PDPT /\ PDPT - 1 = PDT /\ PDT - 1 = PT
  BY DEF PML4, PDPT, PDT, PT
<1>1. \A e \in OfPml4(r) : LinkAt(lev, e, PML4)
  BY RootLinks
<1>2. \A t \in leads_to(OfPml4(r)) : t \in DOMAIN table /\ lev[t] = PDPT
  BY <1>0, <1>1, LinksLead
<1>3. \A e \in OfPdpt(r) : LinkAt(lev, e, PDPT)
  BY <1>2, EntriesLink DEF OfPdpt
<1>4. \A t \in leads_to(OfPdpt(r)) : t \in DOMAIN table /\ lev[t] = PDT
  BY <1>0, <1>3, LinksLead
<1>5. \A e \in OfPdt(r) : LinkAt(lev, e, PDT)
  BY <1>4, EntriesLink DEF OfPdt
<1>6. \A t \in leads_to(OfPdt(r)) : t \in DOMAIN table /\ lev[t] = PT
  BY <1>0, <1>5, LinksLead
<1>7. QED
  BY <1>1, <1>3, <1>5, <1>6

AnyLink(lev, e) == \E d \in {PML4, PDPT, PDT} : LinkAt(lev, e, d)

LEMMA AllLinksAre ==
  ASSUME NEW lev, NEW F, Tree(table, F, lev), Filled(table), Rooting(table, lev, Roots)
  PROVE  \A e \in AllLinks : AnyLink(lev, e)
<1> SUFFICES ASSUME NEW r \in Roots, NEW e \in LinksOf(r) PROVE AnyLink(lev, e)
  BY DEF AllLinks
<1>1. r \in DOMAIN table /\ lev[r] = PML4
  BY DEF Rooting
<1>2. LinkAt(lev, e, PML4) \/ LinkAt(lev, e, PDPT) \/ LinkAt(lev, e, PDT)
  BY <1>1, LinksAre DEF LinksOf
<1>3. QED
  BY <1>2 DEF AnyLink

\* The entries of the tables that they lead to are links or leaves.
LEMMA OthersAreLeaves ==
  ASSUME NEW lev, NEW F, Tree(table, F, lev), Filled(table), Rooting(table, lev, Roots),
         NEW e \in entries_of(leads_to(AllLinks)) \ AllLinks
  PROVE  LeafOk(table, F, table[e[1]][e[2]])
<1>0. PICK t \in leads_to(AllLinks) : \E i \in DOMAIN table[t] : e = <<t, i>>
  BY EntriesAre
<1>1. PICK i \in DOMAIN table[t] : e = <<t, i>>
  BY <1>0
<1>2. PICK x \in AllLinks : t = table[x[1]][x[2]].to
  BY DEF leads_to
<1>3. PICK r \in Roots : x \in LinksOf(r)
  BY DEF AllLinks
<1>4. r \in DOMAIN table /\ lev[r] = PML4
  BY DEF Rooting
<1>5. e \in entries_of({t})
  BY <1>1, EntriesAre
<1>6. \A E : x \in E => e \in entries_of(leads_to(E))
  <2> SUFFICES ASSUME NEW E, x \in E PROVE e \in entries_of(leads_to(E))
    OBVIOUS
  <2>1. t \in leads_to(E)
    BY <1>2 DEF leads_to
  <2>2. QED
    BY <1>1, <2>1, EntriesAre
<1>7. e \notin LinksOf(r)
  BY DEF AllLinks
<1>8. x \notin OfPml4(r) /\ x \notin OfPdpt(r)
  BY <1>6, <1>7 DEF LinksOf, OfPdpt, OfPdt
<1>9. x \in OfPdt(r)
  BY <1>3, <1>8 DEF LinksOf
<1>10. t \in DOMAIN table /\ lev[t] = PT
  <2>1. t \in leads_to(OfPdt(r))
    BY <1>2, <1>9 DEF leads_to
  <2>2. QED
    BY <1>4, <2>1, LinksAre
<1>11. content(table, t, i) = table[t][i]
  BY <1>1, <1>10, EntryIsContent
<1>12. LeafOk(table, F, content(table, t, i))
  BY <1>10 DEF Tree, Leaves
<1>13. e[1] = t /\ e[2] = i
  BY <1>1
<1>14. QED
  BY <1>11, <1>12, <1>13

LEMMA RootsAndLinksCount ==
  ASSUME NEW lev, Sound(Memory), Tree(table, frames, lev), Filled(table), Rooting(table, lev, Roots)
  PROVE  Cardinality(leads_to(AllLinks) \cup Roots) = Cardinality(AllLinks) + Cardinality(Roots)
<1> DEFINE A == AllLinks
           B == leads_to(AllLinks)
           f == [e \in A |-> table[e[1]][e[2]].to]
<1>1. \A e \in A : AnyLink(lev, e)
  BY AllLinksAre
<1>2. \A e \in A : /\ e = <<e[1], e[2]>> /\ e[1] \in DOMAIN table /\ e[2] \in Digits
                   /\ IsEntry(table, e[1], e[2]) /\ Inner(lev, e[1], e[2])
                   /\ f[e] = content(table, e[1], e[2]).to
  <2> SUFFICES ASSUME NEW e \in A
               PROVE /\ e = <<e[1], e[2]>> /\ e[1] \in DOMAIN table /\ e[2] \in Digits
                     /\ IsEntry(table, e[1], e[2]) /\ Inner(lev, e[1], e[2])
                     /\ f[e] = content(table, e[1], e[2]).to
    OBVIOUS
  <2>1. PICK d : LinkAt(lev, e, d)
    BY <1>1 DEF AnyLink
  <2>2. f[e] = table[e[1]][e[2]].to
    OBVIOUS
  <2>3. QED
    BY <2>1, <2>2 DEF LinkAt
<1>3. DOMAIN table \subseteq KMALLOC_BASE .. PAGE_NUM - 1 /\ IsFiniteSet(DOMAIN table)
  <2>1. DOMAIN table \subseteq TablePages
    BY MemoryIs DEF Sound
  <2>2. TablePages \subseteq KMALLOC_BASE .. PAGE_NUM - 1
    <3>1. get_base["KERNPT"] = KMALLOC_BASE /\ get_base["FILE"] \in Nat
          /\ get_base["FILE"] + PROCESS_NUMBER <= KERNEL_PAGES
      BY BasesAre, NumbersAre DEF Flags
    <3>2. QED
      BY <3>1, ConstantsAre DEF TablePages, Pools, Frames
  <2>3. IsFiniteSet(KMALLOC_BASE .. PAGE_NUM - 1)
    BY ConstantsAre, FS_Interval
  <2>4. QED
    BY <2>1, <2>2, <2>3, FS_Subset
<1>5. f \in Surjection(A, B)
  BY DEF Surjection, leads_to
<1>6. \A e, x \in A : f[e] = f[x] => e = x
  <2> SUFFICES ASSUME NEW e \in A, NEW x \in A, f[e] = f[x] PROVE e = x
    OBVIOUS
  <2>1. /\ e = <<e[1], e[2]>> /\ e[1] \in DOMAIN table
        /\ IsEntry(table, e[1], e[2]) /\ Inner(lev, e[1], e[2])
        /\ f[e] = content(table, e[1], e[2]).to
    BY <1>2
  <2>2. /\ x = <<x[1], x[2]>> /\ x[1] \in DOMAIN table
        /\ IsEntry(table, x[1], x[2]) /\ Inner(lev, x[1], x[2])
        /\ f[x] = content(table, x[1], x[2]).to
    BY <1>2
  <2>3. Single(table, lev) /\ content(table, e[1], e[2]).to = content(table, x[1], x[2]).to
    BY <2>1, <2>2 DEF Tree
  <2>4. e[1] = x[1] /\ e[2] = x[2]
    BY <2>1, <2>2, <2>3 DEF Single
  <2>5. QED
    BY <2>1, <2>2, <2>4
<1> HIDE DEF A, B, f
<1>7. f \in Injection(A, B)
  BY <1>5, <1>6 DEF Surjection, Injection, IsInjective
<1>4. B \subseteq DOMAIN table
  <2> SUFFICES ASSUME NEW r \in B PROVE r \in DOMAIN table
    OBVIOUS
  <2>1. PICK e \in A : r = f[e]
    BY <1>5 DEF Surjection
  <2>2. /\ e[1] \in DOMAIN table /\ IsEntry(table, e[1], e[2]) /\ Inner(lev, e[1], e[2])
        /\ r = content(table, e[1], e[2]).to
    BY <1>2, <2>1
  <2>3. QED
    BY <2>2 DEF Tree, Leading
<1>14. IsFiniteSet(A)
  <2>1. IsFiniteSet(B)
    BY <1>3, <1>4, FS_Subset
  <2>2. QED
    BY <1>7, <2>1, FS_Injection
<1>8. IsFiniteSet(B) /\ Cardinality(B) = Cardinality(A)
  BY <1>5, <1>7, <1>14, FS_Surjection
<1>9. IsFiniteSet(Roots)
  BY <1>3, FS_Subset DEF Rooting
<1>10. B \cap Roots = {}
  <2> SUFFICES ASSUME NEW r \in Roots, r \in B PROVE FALSE
    OBVIOUS
  <2>1. PICK e \in A : r = f[e]
    BY <1>5 DEF Surjection
  <2>2. /\ e[1] \in DOMAIN table /\ IsEntry(table, e[1], e[2]) /\ Inner(lev, e[1], e[2])
        /\ r = content(table, e[1], e[2]).to
    BY <1>2, <2>1
  <2>3. lev[r] = lev[e[1]] - 1 /\ lev[e[1]] \in Levels
    BY <2>2 DEF Tree, Leading
  <2>4. lev[r] = PML4
    BY DEF Rooting
  <2>5. QED
    BY <2>3, <2>4, LevelsAre
<1>11. Cardinality(B \cup Roots) = Cardinality(A) + Cardinality(Roots)
  <2>1. Cardinality(B \cap Roots) = 0
    BY <1>10, FS_EmptySet
  <2>2. Cardinality(B) \in Nat /\ Cardinality(Roots) \in Nat
    BY <1>8, <1>9, FS_CardinalityType
  <2>3. Cardinality(B \cup Roots) = Cardinality(B) + Cardinality(Roots) - Cardinality(B \cap Roots)
    BY <1>8, <1>9, FS_Union
  <2>4. QED
    BY <1>8, <2>1, <2>2, <2>3
<1>12. QED
  BY <1>11 DEF A, B

\* The tables of the processes are trees, however many there are: no entry
\* leads to the table of another, and a program has no page of one.
THEOREM TablesStayTrees == Spec => []TablesAreTrees
<1>1. PoolInv /\ TablesInv => TablesAreTrees
  <2> DEFINE A == AllLinks
             X == leads_to(entries_of(leads_to(A)) \ A)
  <2>1. SUFFICES ASSUME PoolInv, TablesInv, ~halted
                 PROVE  /\ Cardinality(leads_to(A) \cup Roots) = Cardinality(A) + Cardinality(Roots)
                        /\ X \cap frames \cap (leads_to(A) \cup Roots) = {}
    BY DEF TablesAreTrees, AllLinks, LinksOf, OfPml4, OfPdpt, OfPdt
  <2>2. Trees(Memory, AllRoots) /\ Memory.table = table /\ Memory.frames = frames
    BY <2>1, MemoryIs DEF TablesInv, Served
  <2>3. PICK lev : Tree(table, frames, lev) /\ Rooting(table, lev, AllRoots)
    BY <2>2 DEF Trees
  <2>4. Filled(table) /\ Sound(Memory) /\ Rooting(table, lev, Roots)
    BY <2>2, <2>3 DEF Trees, Rooting, AllRoots
  <2>5. Cardinality(leads_to(A) \cup Roots) = Cardinality(A) + Cardinality(Roots)
    BY <2>3, <2>4, RootsAndLinksCount
  <2>6. \A e \in entries_of(leads_to(A)) \ A : LeafOk(table, frames, table[e[1]][e[2]])
    BY <2>3, <2>4, OthersAreLeaves
  <2>7. frames \subseteq Frames
    BY <2>2, <2>4 DEF Sound
  <2>8. \A f \in X : f \notin frames \/ f \notin DOMAIN table
    <3> SUFFICES ASSUME NEW f \in X PROVE f \notin frames \/ f \notin DOMAIN table
      OBVIOUS
    <3>1. PICK e \in entries_of(leads_to(A)) \ A : f = table[e[1]][e[2]].to
      BY DEF leads_to
    <3>2. LeafOk(table, frames, table[e[1]][e[2]])
      BY <2>6
    <3>3. f \in (0 .. KERNEL_PAGES - 1) \cup (frames \ DOMAIN table)
      BY <3>1, <3>2 DEF LeafOk
    <3>4. QED
      BY <2>7, <3>3, ConstantsAre DEF Frames
  <2>9. leads_to(A) \cup Roots \subseteq DOMAIN table
    <3>1. \A e \in A : AnyLink(lev, e)
      BY <2>3, <2>4, AllLinksAre
    <3>2. ASSUME NEW e \in A PROVE table[e[1]][e[2]].to \in DOMAIN table
      <4>1. PICK d : LinkAt(lev, e, d)
        BY <3>1 DEF AnyLink
      <4>2. e[1] \in DOMAIN table /\ IsEntry(table, e[1], e[2]) /\ Inner(lev, e[1], e[2])
            /\ content(table, e[1], e[2]) = table[e[1]][e[2]]
        BY <4>1 DEF LinkAt
      <4>3. content(table, e[1], e[2]).to \in DOMAIN table
        BY <2>3, <4>2 DEF Tree, Leading
      <4>4. QED
        BY <4>2, <4>3
    <3>3. QED
      BY <2>4, <3>2 DEF leads_to, Rooting
  <2>10. QED
    BY <2>5, <2>8, <2>9
<1>2. QED
  BY <1>1, TablesAlways, PTL
-----------------------------------------------------------------------------
(* Why the machine halts.                                                  *)

Spent(U) == \E f \in Flags : Cardinality(U[f]) = NUMBER[f]

\* Steps that halt when a pool is spent only, and do nothing once halted.
Stops(m, n) ==
  /\ Sound(n) /\ (m.halted => n.halted /\ n.used = m.used)
  /\ n.halted => m.halted \/ Spent(n.used)

LEMMA StopsThen ==
  ASSUME NEW m, NEW n, NEW p, Stops(m, n), Stops(n, p)
  PROVE  Stops(m, p)
BY DEF Stops

LEMMA StopsNone ==
  ASSUME NEW m, Sound(m), NEW n, Sound(n), n.halted = m.halted, n.used = m.used
  PROVE  Stops(m, n)
BY DEF Stops

LEMMA StopsSound ==
  ASSUME NEW m, NEW n, Stops(m, n) PROVE Sound(n)
BY DEF Stops

LEMMA KmallocStops ==
  ASSUME NEW m, Sound(m), NEW f \in Flags
  PROVE  Stops(m, kmalloc(m, f))
<1> DEFINE n == kmalloc(m, f)
           h == [m EXCEPT !.halted = TRUE]
<1>1. Sound(n)
  BY KmallocIs DEF Takes
<1>2. h.halted /\ h.used = m.used
  BY DEF Sound, MemFields
<1>3. CASE m.halted
  <2>1. n = h
    BY <1>3 DEF kmalloc
  <2>2. QED
    BY <1>1, <1>2, <1>3, <2>1 DEF Stops
<1>4. CASE ~m.halted /\ unused(m, f) = {}
  <2>1. n = h
    BY <1>4 DEF kmalloc
  <2>2. m.used[f] \subseteq 0 .. NUMBER[f] - 1
    BY DEF Sound
  <2>3. m.used[f] = 0 .. NUMBER[f] - 1 /\ NUMBER[f] \in Nat
    BY <1>4, <2>2, NumbersAre DEF unused
  <2>4. Cardinality(0 .. NUMBER[f] - 1) = IF 0 > NUMBER[f] - 1 THEN 0 ELSE NUMBER[f] - 1 - 0 + 1
    <3> DEFINE u == NUMBER[f] - 1
    <3>1. u \in Int
      BY <2>3
    <3> HIDE DEF u
    <3>2. Cardinality(0 .. u) = IF 0 > u THEN 0 ELSE u - 0 + 1
      BY <3>1, FS_Interval
    <3>3. QED
      BY <3>2 DEF u
  <2>5. Cardinality(m.used[f]) = NUMBER[f]
    BY <2>3, <2>4
  <2>6. QED
    BY <1>1, <1>2, <1>4, <2>1, <2>5 DEF Stops, Spent
<1>5. CASE ~m.halted /\ unused(m, f) # {}
  BY <1>1, <1>5, KmallocHalts DEF Stops
<1>6. QED
  BY <1>3, <1>4, <1>5

LEMMA SetContentStops ==
  ASSUME NEW m, Sound(m), NEW t, NEW i, NEW e
  PROVE  Stops(m, set_content(m, t, i, e))
<1>1. Maps(m, set_content(m, t, i, e), {}) /\ set_content(m, t, i, e).halted = m.halted
      /\ set_content(m, t, i, e).used = m.used
  BY SetContentIs
<1>2. QED
  BY <1>1, MapsSound, StopsNone

LEMMA WithTableStops ==
  ASSUME NEW m, Sound(m), NEW level, NEW page, NEW flag \in Flags, NEW map
  PROVE  Stops(m, with_table(m, level, page, flag, map))
<1> DEFINE t == walk(m.table, m.global_PML4, page)[level]
           user == IF map = "USER_MAP" THEN {"U"} ELSE {}
           k == kmalloc(m, flag)
           e == entry(page_of(m, flag), {"P", "W"} \cup user)
           n == set_content(k, t, index(level, page), e)
<1>1. with_table(m, level, page, flag, map) = m \/ with_table(m, level, page, flag, map) = n
  BY DEF with_table
<1>2. Stops(m, k)
  BY KmallocStops
<1>3. Sound(k)
  BY <1>2, StopsSound
<1> HIDE DEF k, t, e
<1>4. Stops(k, n)
  BY <1>3, SetContentStops
<1> HIDE DEF n
<1>5. Stops(m, n)
  BY <1>2, <1>4, StopsThen
<1>6. QED
  BY <1>1, <1>5, StopsNone

LEMMA MapStops ==
  ASSUME NEW m, Sound(m), NEW page, NEW e, NEW flag \in Flags, NEW map
  PROVE  Stops(m, map_virmem_to_phymem(m, page, e, flag, map))
<1> DEFINE a == with_table(m, PML4, page, flag, map)
           b == with_table(a, PDPT, page, flag, map)
           c == with_table(b, PDT, page, flag, map)
           d == with_entry(c, page, e)
           n == self_referenced(d)
<1>1. map_virmem_to_phymem(m, page, e, flag, map) = n
  BY DEF map_virmem_to_phymem
<1>2. Stops(m, a) /\ Sound(a)
  BY WithTableStops, StopsSound
<1> HIDE DEF a
<1>3. Stops(a, b) /\ Sound(b)
  BY <1>2, WithTableStops, StopsSound
<1> HIDE DEF b
<1>4. Stops(b, c) /\ Sound(c)
  BY <1>3, WithTableStops, StopsSound
<1> HIDE DEF c
<1>5. Stops(c, d)
  BY <1>4, SetContentStops DEF with_entry
<1>6. Sound(d)
  BY <1>5, StopsSound
<1> HIDE DEF d
<1>7. Stops(d, n)
  BY <1>6, SetContentStops DEF self_referenced
<1> HIDE DEF n
<1>8. Stops(m, b) /\ Stops(b, d)
  BY <1>2, <1>3, <1>4, <1>5, StopsThen
<1>9. Stops(m, d)
  BY <1>8, StopsThen
<1>10. QED
  BY <1>1, <1>7, <1>9, StopsThen

LEMMA KernelPartStops ==
  ASSUME NEW n, Sound(n), NEW i, NEW flag \in Flags
  PROVE  Stops(n, KernelPart(n, i, flag))
<1> DEFINE p == map_virmem_to_phymem(n, VIR_START + (i - 1) * TABLE_SIZE,
                  entry((i - 1) * TABLE_SIZE, {"P", "W"}), flag, "KERN_MAP")
           q == map_rest(p, (i - 1) * TABLE_SIZE)
<1>1. Stops(n, p)
  BY MapStops
<1> HIDE DEF p
<1>2. Sound(p)
  BY <1>1, StopsSound
<1>3. q.halted = p.halted /\ q.used = p.used
  BY <1>2, TableWritten DEF map_rest
<1>4. Sound(q)
  BY <1>2, MapRestIs, MapsSound
<1>5. Stops(p, q)
  BY <1>2, <1>3, <1>4, StopsNone
<1>6. QED
  BY <1>1, <1>5, StopsThen DEF KernelPart, p

LEMMA MapKernelStops ==
  ASSUME NEW m, Sound(m), NEW flag \in Flags
  PROVE  Stops(m, map_kernel(m, flag))
<1> DEFINE K == KERNEL_PAGES \div TABLE_SIZE
           F == CHOOSE f : KernelUpTo(f, m, flag, K)
<1>1. K \in Nat
  BY ConstantsAre
<1>2. map_kernel(m, flag) = F[K]
  BY Zenon DEF map_kernel, KernelUpTo, KernelItem, KernelPart
<1> HIDE DEF K
<1>3. KernelUpTo(F, m, flag, K)
  BY <1>1, KernelExists
<1> HIDE DEF F
<1> DEFINE S == {i \in Nat : i <= K => Stops(m, F[i])}
<1>4. 0 \in S
  <2>1. F[0] = KernelItem(F, m, flag, 0)
    BY <1>1, <1>3, KernelAt
  <2>2. F[0] = m
    BY <2>1 DEF KernelItem
  <2>3. QED
    BY <2>2, StopsNone
<1>5. ASSUME NEW i \in Nat, i \in S PROVE i + 1 \in S
  <2> SUFFICES ASSUME i + 1 <= K PROVE Stops(m, F[i + 1])
    OBVIOUS
  <2>1. Stops(m, F[i])
    BY <1>1, <1>5
  <2>2. F[i + 1] = KernelItem(F, m, flag, i + 1)
    BY <1>1, <1>3, KernelAt
  <2>3. F[i + 1] = KernelPart(F[i], i + 1, flag)
    BY <2>2 DEF KernelItem
  <2>4. Stops(F[i], KernelPart(F[i], i + 1, flag))
    BY <2>1, StopsSound, KernelPartStops
  <2>5. QED
    BY <2>1, <2>3, <2>4, StopsThen
<1>6. \A i \in Nat : i \in S
  <2> HIDE DEF S
  <2>1. QED
    BY <1>4, <1>5, SetInduction
<1>7. Stops(m, F[K])
  BY <1>1, <1>6
<1>8. QED
  BY <1>2, <1>7

LEMMA KmallocsStop ==
  ASSUME NEW m, Sound(m), NEW f \in Flags
  PROVE  \A k \in Nat : Stops(m, kmallocs(m, f, k))
<1> DEFINE p(k) == kmallocs(m, f, k)
           S == {k \in Nat : Stops(m, p(k))}
<1>1. \A k \in Nat : p(0) = m /\ p(k + 1) = kmalloc(p(k), f)
  BY KmallocsAre
<1> HIDE DEF p
<1>2. 0 \in S
  BY <1>1, StopsNone
<1>3. ASSUME NEW k \in Nat, k \in S PROVE k + 1 \in S
  <2>1. Stops(m, p(k))
    BY <1>3
  <2>2. Stops(p(k), p(k + 1))
    BY <1>1, <2>1, StopsSound, KmallocStops
  <2>3. QED
    BY <2>1, <2>2, StopsThen
<1>4. \A k \in Nat : k \in S
  <2> HIDE DEF S
  <2>1. QED
    BY <1>2, <1>3, SetInduction
<1>5. QED
  BY <1>4 DEF p

LEMMA UmallocStops ==
  ASSUME NEW m, Sound(m), NEW page
  PROVE  Stops(m, umalloc(m, page))
<1> DEFINE a == take_frame(m)
           e == entry(new_frame(m), {"P", "W", "U"})
<1>1. Sound(a) /\ a.halted = m.halted /\ a.used = m.used
  BY TakeFrameIs DEF Takes
<1>2. Stops(m, a)
  BY <1>1, StopsNone
<1> HIDE DEF a, e
<1>3. Stops(a, map_virmem_to_phymem(a, page, e, "USERPT", "USER_MAP"))
  BY <1>1, MapStops DEF Flags
<1>4. QED
  BY <1>2, <1>3, StopsThen DEF umalloc, a, e

LEMMA SelfWriteStops ==
  ASSUME NEW m, Sound(m), NEW root, NEW level, NEW page, NEW e
  PROVE  Stops(m, self_ref_write(m, root, level, page, e))
BY SetContentStops DEF self_ref_write

LEMMA NewStackStops ==
  ASSUME NEW m, Sound(m), NEW root
  PROVE  Stops(m, new_stack(m, root))
<1> DEFINE a == take_frame(m)
           b == self_ref_write(a, root, PT, VIR_START, entry(new_frame(m), {"P", "W", "U"}))
           c == self_ref_write(b, root, PT, STACK_TOP - 1, self_ref_read(b, root, PT, VIR_START))
           d == self_ref_write(c, root, PT, VIR_START, NoEntry)
<1>1. new_stack(m, root) = d
  BY DEF new_stack, moved_to_stack
<1>2. Sound(a) /\ a.halted = m.halted /\ a.used = m.used
  BY TakeFrameIs DEF Takes
<1>3. Stops(m, a)
  BY <1>2, StopsNone
<1> HIDE DEF a
<1>4. Stops(a, b) /\ Sound(b)
  BY <1>2, SelfWriteStops, StopsSound
<1> HIDE DEF b
<1>5. Stops(b, c) /\ Sound(c)
  BY <1>4, SelfWriteStops, StopsSound
<1> HIDE DEF c
<1>6. Stops(c, d)
  BY <1>5, SelfWriteStops
<1> HIDE DEF d
<1>7. Stops(m, b) /\ Stops(b, d)
  BY <1>3, <1>4, <1>5, <1>6, StopsThen
<1>8. QED
  BY <1>1, <1>7, StopsThen

LEMMA LoadElfStops ==
  ASSUME NEW m, Sound(m) PROVE Stops(m, load_elf(m))
<1> DEFINE a == kmalloc(m, "FILE")
           b == umalloc(a, CODE)
           c == umalloc(b, DATA)
<1>1. Stops(m, a) /\ Sound(a)
  BY KmallocStops, StopsSound DEF Flags
<1> HIDE DEF a
<1>2. Stops(a, b) /\ Sound(b)
  BY <1>1, UmallocStops, StopsSound
<1> HIDE DEF b
<1>3. Stops(b, c)
  BY <1>2, UmallocStops
<1> HIDE DEF c
<1>4. Stops(m, b)
  BY <1>1, <1>2, StopsThen
<1>5. QED
  BY <1>3, <1>4, StopsThen DEF load_elf, a, b, c

LEMMA TaskPagesStop ==
  ASSUME NEW m, Sound(m) PROVE Stops(m, task_pages(m))
<1> DEFINE a == kmalloc(m, "TASK")
           b == kmalloc(a, "KSTACK")
           c == kmalloc(b, "MM")
           n == kmallocs(c, "VMA", AREAS)
<1>1. /\ "TASK" \in Flags /\ "KSTACK" \in Flags /\ "MM" \in Flags /\ "VMA" \in Flags /\ AREAS \in Nat
  BY DEF Flags, AREAS
<1>2. Stops(m, a) /\ Sound(a)
  BY <1>1, KmallocStops, StopsSound
<1> HIDE DEF a
<1>3. Stops(a, b) /\ Sound(b)
  BY <1>1, <1>2, KmallocStops, StopsSound
<1> HIDE DEF b
<1>4. Stops(b, c) /\ Sound(c)
  BY <1>1, <1>3, KmallocStops, StopsSound
<1> HIDE DEF c
<1>5. Stops(c, n)
  BY <1>1, <1>4, KmallocsStop
<1> HIDE DEF n
<1>6. Stops(m, b) /\ Stops(b, n)
  BY <1>2, <1>3, <1>4, <1>5, StopsThen
<1>7. QED
  BY <1>6, StopsThen DEF task_pages, a, b, c, n

LEMMA ChildSharesStops ==
  ASSUME NEW m, Sound(m), NEW page \in Plain,
         ~m.halted => SelfSet(m, cr3) /\ Reaches(m, cr3, page, PT)
  PROVE  Stops(m, child_shares(m, page))
<1> DEFINE e == self_ref_read(m, cr3, PT, page)
           c == entry(e.to, (e.bits \ {"W"}) \cup {"COW"})
           a == self_ref_write(m, cr3, PT, page, c)
           b == map_virmem_to_phymem(a, page, c, "USERPT", "USER_MAP")
           h == [m EXCEPT !.halted = TRUE]
<1>1. child_shares(m, page) = IF m.halted \/ self_ref(m.table, cr3, PT, page)[1] = 0 THEN h
                              ELSE IF e = NoEntry THEN m ELSE b
  BY DEF child_shares, shared
<1>2. CASE m.halted
  <2>1. h.halted /\ h.used = m.used
    BY DEF Sound, MemFields
  <2>2. child_shares(m, page) = h /\ Sound(child_shares(m, page))
    BY <1>1, <1>2, ChildSharesIs, MapsSound
  <2>3. QED
    BY <1>2, <2>1, <2>2, StopsNone DEF Sound
<1>3. CASE ~m.halted
  <2>1. self_ref(m.table, cr3, PT, page) = <<Walk(m.table, cr3, page, PT), index(PT, page)>>
    BY <1>3, SelfReads, LevelsAre DEF Plain
  <2>2. self_ref(m.table, cr3, PT, page)[1] # 0
    BY <1>3, <2>1 DEF Reaches
  <2>3. child_shares(m, page) \in {m, b}
    BY <1>1, <1>3, <2>2
  <2>4. Stops(m, a)
    BY SelfWriteStops
  <2> HIDE DEF a, c, e
  <2>5. Stops(a, b)
    BY <2>4, StopsSound, MapStops DEF Flags
  <2> HIDE DEF b
  <2>6. Stops(m, b)
    BY <2>4, <2>5, StopsThen
  <2>7. QED
    BY <2>3, <2>6, StopsNone
<1>4. QED
  BY <1>2, <1>3

\* A program whose heap fits one table has a table for each page of its areas.
LEMMA AreasReached ==
  ASSUME NEW m, Sound(m), NEW r, \A v \in BasePages : View(m, r, v) # NoEntry,
         NEW v \in AreaOf(HEAP_BASE + 1)
  PROVE  Reaches(m, r, v, PT)
<1>1. HEAP_BASE + 1 \in HeapEnds
  BY DEF HeapEnds
<1>2. PICK w \in BasePages : SameTable(v, w)
  BY <1>1, AreasPlain
<1>3. Reaches(m, r, w, PT)
  BY <1>2, MappedReaches
<1>4. QED
  BY <1>2, <1>3, WalkOfSame DEF Reaches

LEMMA SetChildPtStops ==
  ASSUME NEW m, NEW P, Sound(m), cr3 \in P, task[current].vm_end = HEAP_BASE + 1,
         ~m.halted => /\ Trees(m, P) /\ SelfSet(m, cr3)
                      /\ \A v \in BasePages : View(m, cr3, v) # NoEntry
  PROVE  Stops(m, set_child_pt(m))
<1> DEFINE c == page_of(m, "USERPT")
           r == cr3
           Q == P \cup {c}
           E == task[current].vm_end
           A == AreaOf(E)
           k == kmalloc(m, "USERPT")
           child == changes(k, c)
           first == map_kernel(child, "USERPT")
           K == Len(area_pages)
           F == CHOOSE f : SharesUpTo(f, first, area_pages, K)
           pages == area_pages
<1>0. E \in HeapEnds
  BY DEF HeapEnds
<1>1. set_child_pt(m) = F[K]
  BY Zenon DEF set_child_pt, SharesUpTo, SharesItem
<1>2. K \in Nat /\ {pages[j] : j \in 1 .. K} = A
  BY <1>0, AreaPagesOf
<1>3. \A v \in A : v \in Plain
  BY <1>0, AreasPlain DEF Seen
<1>4. "USERPT" \in PtFlags /\ "USERPT" \in Flags
  BY DEF PtFlags, Flags
<1>5. Stops(m, k) /\ Sound(k)
  BY <1>4, KmallocStops, StopsSound
<1>6. Stops(m, child) /\ Sound(child)
  <2> HIDE DEF k, c
  <2> DEFINE x == [k EXCEPT !.global_PML4 = c]
  <2>1. DOMAIN x = DOMAIN k /\ x.used = k.used /\ x.table = k.table /\ x.frames = k.frames
        /\ x.halted = k.halted
    BY <1>5 DEF Sound, MemFields
  <2> HIDE DEF x
  <2>2. Sound(x)
    BY <1>5, <2>1 DEF Sound
  <2>3. Stops(k, x) /\ Stops(k, k)
    BY <1>5, <2>1, <2>2, StopsNone
  <2>4. child \in {k, x}
    BY DEF changes, x
  <2>5. QED
    BY <1>5, <2>3, <2>4, StopsThen, StopsSound
<1>7. SharesUpTo(F, first, pages, K)
  BY <1>2, SharesExists
<1> HIDE DEF F
<1>8. ASSUME ~child.halted
      PROVE  /\ IsChild(m, child, P, c) /\ ~m.halted /\ SelfSet(child, r)
             /\ \A v \in A : Reaches(child, r, v, PT)
  <2>1. ~m.halted
    BY <1>6, <1>8 DEF Stops
  <2>2. IsChild(m, child, P, c)
    BY <1>8, <2>1, ChildMade
  <2>3. Keeps(m, child, P)
    BY <2>2 DEF IsChild
  <2>4. \A v \in A : Reaches(m, r, v, PT)
    BY <2>1, AreasReached
  <2> HIDE DEF child, c, A
  <2>5. QED
    BY <1>3, <2>1, <2>2, <2>3, <2>4, LevelsAre DEF Keeps
<1> HIDE DEF child, k
<1>9. Stops(child, first) /\ Sound(first)
  BY <1>4, <1>6, MapKernelStops, StopsSound
<1>10. ASSUME ~first.halted
       PROVE  /\ Trees(first, Q) /\ first.global_PML4 = c /\ SelfSet(first, r)
              /\ \A v \in A : Reaches(first, r, v, PT)
  <2>1. ~child.halted
    BY <1>9, <1>10 DEF Stops
  <2>2. IsChild(m, child, P, c) /\ SelfSet(child, r) /\ \A v \in A : Reaches(child, r, v, PT)
    BY <1>8, <2>1
  <2>3. Trees(child, Q) /\ child.global_PML4 = c
    BY <2>2 DEF IsChild
  <2>4. IsKernelMapped(child, first, Q)
    BY <1>4, <1>10, <2>3, MapKernelSets
  <2> HIDE DEF first, A
  <2>5. QED
    BY <1>3, <2>2, <2>3, <2>4, LevelsAre DEF IsKernelMapped, Keeps
<1> HIDE DEF first
<1>11. F[0] = first
  BY <1>2, <1>7, SharesAt DEF SharesItem
<1>12. ASSUME NEW i \in Nat, i < K
       PROVE  F[i + 1] = child_shares(F[i], pages[i + 1])
  <2>1. i + 1 \in 0 .. K /\ i + 1 # 0 /\ i + 1 - 1 = i
    BY <1>2, <1>12
  <2>2. F[i + 1] = SharesItem(F, first, pages, i + 1)
    BY <1>2, <1>7, <2>1, SharesAt
  <2>3. QED
    BY <2>1, <2>2 DEF SharesItem
<1> HIDE DEF K
<1> DEFINE S == {i \in Nat : i <= K =>
                   /\ Stops(first, F[i])
                   /\ ~F[i].halted => Keeps(first, F[i], Q) /\ F[i].global_PML4 = c}
<1>13. 0 \in S
  <2>1. ~first.halted => Keeps(first, first, Q)
    BY <1>10, KeepsNone
  <2>2. Stops(first, first)
    BY <1>9, StopsNone
  <2>3. QED
    BY <1>10, <1>11, <2>1, <2>2
<1>14. ASSUME NEW i \in Nat, i \in S PROVE i + 1 \in S
  <2> SUFFICES ASSUME i + 1 <= K
               PROVE  /\ Stops(first, F[i + 1])
                      /\ ~F[i + 1].halted => Keeps(first, F[i + 1], Q) /\ F[i + 1].global_PML4 = c
    OBVIOUS
  <2>1. i < K /\ i + 1 \in 1 .. K /\ i <= K
    BY <1>2 DEF K
  <2>2. F[i + 1] = child_shares(F[i], pages[i + 1])
    BY <1>12, <2>1
  <2>3. Stops(first, F[i]) /\ (~F[i].halted => Keeps(first, F[i], Q) /\ F[i].global_PML4 = c)
    BY <1>14, <2>1
  <2>4. pages[i + 1] \in A /\ pages[i + 1] \in Plain
    <3>1. pages[i + 1] \in {pages[j] : j \in 1 .. K}
      BY <2>1
    <3>2. QED
      BY <1>2, <1>3, <3>1 DEF K
  <2>5. ~F[i].halted => /\ ~first.halted /\ Trees(F[i], Q) /\ SelfSet(F[i], r)
                        /\ Reaches(F[i], r, pages[i + 1], PT)
    <3> SUFFICES ASSUME ~F[i].halted
                 PROVE  /\ ~first.halted /\ Trees(F[i], Q) /\ SelfSet(F[i], r)
                        /\ Reaches(F[i], r, pages[i + 1], PT)
      OBVIOUS
    <3>1. ~first.halted /\ Keeps(first, F[i], Q)
      BY <2>3 DEF Stops
    <3>2. SelfSet(first, r) /\ Reaches(first, r, pages[i + 1], PT)
      BY <1>10, <2>4, <3>1
    <3>3. QED
      BY <2>4, <3>1, <3>2, LevelsAre DEF Keeps
  <2>6. Stops(F[i], F[i + 1])
    BY <2>2, <2>3, <2>4, <2>5, StopsSound, ChildSharesStops
  <2>7. ASSUME ~F[i + 1].halted
        PROVE  Keeps(first, F[i + 1], Q) /\ F[i + 1].global_PML4 = c
    <3>1. ~F[i].halted
      BY <2>6, <2>7 DEF Stops
    <3>2. IsShared(F[i], F[i + 1], Q, r, c, pages[i + 1])
      BY <2>2, <2>3, <2>4, <2>5, <2>7, <3>1, ChildShared
    <3>3. Keeps(F[i], F[i + 1], Q) /\ F[i + 1].global_PML4 = c
      BY <3>2 DEF IsShared
    <3>4. QED
      BY <2>3, <3>1, <3>3, KeepsThen
  <2>8. QED
    BY <2>3, <2>6, <2>7, StopsThen
<1>15. \A i \in Nat : i \in S
  <2> HIDE DEF S
  <2>1. QED
    BY <1>13, <1>14, SetInduction
<1>16. Stops(first, F[K])
  BY <1>2, <1>15 DEF K
<1>17. Stops(m, first)
  BY <1>6, <1>9, StopsThen
<1>18. QED
  BY <1>1, <1>16, <1>17, StopsThen DEF K

LEMMA StartStops == Stops(Empty, started(booted)) /\ ~Empty.halted
<1> DEFINE m0 == kmalloc(Empty, "KERNPT")
           m1 == map_kernel(m0, "KERNPT")
           m2 == kmallocs(m1, "TASK", 2)
           m3 == kmallocs(m2, "KSTACK", 2)
           m4 == kmalloc(m3, "MM")
           m5 == kmallocs(m4, "VMA", AREAS)
           m6 == umalloc(m5, HEAP_BASE)
           m7 == umalloc(m6, STACK_TOP)
           m8 == umalloc(m7, STACK_TOP - 1)
           m9 == new_stack(m8, m8.global_PML4)
           m  == load_elf(m9)
<1>1. started(booted) = m
  BY DEF started, booted, Empty
<1>2. /\ "KERNPT" \in Flags /\ "TASK" \in Flags /\ "KSTACK" \in Flags /\ "MM" \in Flags
      /\ "VMA" \in Flags /\ AREAS \in Nat /\ 2 \in Nat
  BY DEF Flags, AREAS
<1>3. Sound(Empty) /\ ~Empty.halted
  BY EmptyIs DEF Empty
<1>4. Stops(Empty, m0) /\ Sound(m0)
  BY <1>2, <1>3, KmallocStops, StopsSound
<1> HIDE DEF m0
<1>5. Stops(m0, m1) /\ Sound(m1)
  BY <1>2, <1>4, MapKernelStops, StopsSound
<1> HIDE DEF m1
<1>6. Stops(m1, m2) /\ Sound(m2)
  BY <1>2, <1>5, KmallocsStop, StopsSound
<1> HIDE DEF m2
<1>7. Stops(m2, m3) /\ Sound(m3)
  BY <1>2, <1>6, KmallocsStop, StopsSound
<1> HIDE DEF m3
<1>8. Stops(m3, m4) /\ Sound(m4)
  BY <1>2, <1>7, KmallocStops, StopsSound
<1> HIDE DEF m4
<1>9. Stops(m4, m5) /\ Sound(m5)
  BY <1>2, <1>8, KmallocsStop, StopsSound
<1> HIDE DEF m5
<1>10. Stops(m5, m6) /\ Sound(m6)
  BY <1>9, UmallocStops, StopsSound
<1> HIDE DEF m6
<1>11. Stops(m6, m7) /\ Sound(m7)
  BY <1>10, UmallocStops, StopsSound
<1> HIDE DEF m7
<1>12. Stops(m7, m8) /\ Sound(m8)
  BY <1>11, UmallocStops, StopsSound
<1> HIDE DEF m8
<1>13. Stops(m8, m9) /\ Sound(m9)
  BY <1>12, NewStackStops, StopsSound
<1> HIDE DEF m9
<1>14. Stops(m9, m)
  BY <1>13, LoadElfStops
<1> HIDE DEF m
<1>15. Stops(Empty, m1) /\ Stops(m1, m3) /\ Stops(m3, m5) /\ Stops(m5, m7) /\ Stops(m7, m9)
  BY <1>4, <1>5, <1>6, <1>7, <1>8, <1>9, <1>10, <1>11, <1>12, <1>13, StopsThen
<1>16. Stops(Empty, m3) /\ Stops(m3, m7) /\ Stops(m7, m)
  BY <1>14, <1>15, StopsThen
<1>17. Stops(Empty, m7)
  BY <1>16, StopsThen
<1>18. QED
  BY <1>1, <1>3, <1>16, <1>17, StopsThen

\* The machine goes on, or it stops within a fork or an exec.
LEMMA HaltsStep ==
  ASSUME PoolInv, TablesInv, HaltsOnlyWhenSpent, [Next]_vars
  PROVE  HaltsOnlyWhenSpent'
<1>1. CASE ~halted'
  BY <1>1 DEF HaltsOnlyWhenSpent
<1>2. CASE UNCHANGED vars
  BY <1>2 DEF HaltsOnlyWhenSpent, vars
<1>3. CASE halted' /\ do_fork
  <2> DEFINE a == task_pages(Memory)
             m == set_child_pt(a)
  <2>1. calls /\ becomes(m) /\ task' = task /\ current' = current /\ m.halted
    BY <1>3 DEF do_fork, becomes
  <2>2. /\ Sound(Memory) /\ ~halted /\ ~Memory.halted /\ Trees(Memory, AllRoots) /\ cr3 \in AllRoots
        /\ SelfSet(Memory, cr3) /\ task[current].vm_end \in HeapEnds
        /\ \A v \in BasePages : View(Memory, cr3, v) # NoEntry
    BY <2>1, CurrentServed, MemorySound DEF PoolInv
  <2>3. CASE task[current].vm_end = HEAP_BASE + 1
    <3>1. Stops(Memory, a) /\ Sound(a)
      BY <2>2, TaskPagesStop, StopsSound
    <3>2. SameTables(Memory, a)
      BY <2>2, TaskPagesOther
    <3> HIDE DEF a
    <3>3. /\ Trees(a, AllRoots) /\ SelfSet(a, cr3)
          /\ \A v \in BasePages : View(a, cr3, v) # NoEntry
      <4>1. Keeps(Memory, a, AllRoots)
        BY <2>2, <3>2, SameTablesSet
      <4>2. \A v : View(a, cr3, v) = View(Memory, cr3, v)
        BY <3>2 DEF SameTables, View
      <4>3. QED
        BY <2>2, <4>1, <4>2 DEF Keeps
    <3>4. Stops(a, m)
      BY <2>2, <2>3, <3>1, <3>3, SetChildPtStops
    <3> HIDE DEF m
    <3>5. Stops(Memory, m)
      BY <3>1, <3>4, StopsThen
    <3>6. Spent(m.used)
      BY <2>1, <2>2, <3>5 DEF Stops
    <3>7. QED
      BY <2>1, <3>6 DEF Spent, HaltsOnlyWhenSpent, becomes
  <2>4. CASE task[current].vm_end # HEAP_BASE + 1
    <3>1. task[current].vm_end = HEAP_BASE + 1 + TABLE_SIZE
      BY <2>2, <2>4 DEF HeapEnds
    <3>2. HEAP_BASE + 1 + TABLE_SIZE > HEAP_BASE + TABLE_SIZE
      BY AddressesAre, ConstantsAre
    <3>3. task'[current'].vm_end > HEAP_BASE + TABLE_SIZE
      BY <2>1, <3>1, <3>2
    <3>4. QED
      BY <3>3 DEF HaltsOnlyWhenSpent
  <2>5. QED
    BY <2>3, <2>4
<1>4. CASE halted' /\ do_execv
  <2> DEFINE a == new_stack(Memory, cr3)
             m == load_elf(a)
  <2>1. calls /\ becomes(m) /\ m.halted
    BY <1>4 DEF do_execv, allocates, becomes
  <2>2. Sound(Memory) /\ ~Memory.halted
    BY <2>1, CurrentServed, MemorySound DEF PoolInv
  <2>3. Stops(Memory, a) /\ Sound(a)
    BY <2>2, NewStackStops, StopsSound
  <2> HIDE DEF a
  <2>4. Stops(a, m)
    BY <2>3, LoadElfStops
  <2> HIDE DEF m
  <2>5. Stops(Memory, m)
    BY <2>3, <2>4, StopsThen
  <2>6. Spent(m.used)
    BY <2>1, <2>2, <2>5 DEF Stops
  <2>7. QED
    BY <2>1, <2>6 DEF Spent, HaltsOnlyWhenSpent, becomes
<1>5. CASE halted' /\ Next /\ ~do_fork /\ ~do_execv
  <2>1. CASE do_execv_fails
    BY <1>5, <2>1, ExecFailsTables
  <2>2. CASE do_exit
    BY <1>5, <2>2, ExitTables DEF QuietTables
  <2>3. CASE schedule
    BY <1>5, <2>3, ScheduleTables DEF QuietTables
  <2>4. CASE \E n \in INCREMENTS : do_sbrk(n)
    BY <1>5, <2>4, SbrkTables DEF QuietTables
  <2>5. CASE \E page \in accessible : demand_paging(page)
    BY <1>5, <2>5, DemandTables
  <2>6. CASE \E page \in accessible, b \in BOOLEAN : copy_on_write(page, b)
    BY <1>5, <2>6, CopyTables
  <2>7. CASE \E t \in Users : do_kill(t)
    BY <1>5, <2>7, KillTables DEF QuietTables
  <2>8. CASE \E dead \in SUBSET Ended : do_ps(dead)
    BY <1>5, <2>8, PsTables DEF QuietTables
  <2>9. QED
    BY <1>5, <2>1, <2>2, <2>3, <2>4, <2>5, <2>6, <2>7, <2>8 DEF Next
<1>6. QED
  BY <1>1, <1>2, <1>3, <1>4, <1>5

\* The machine stops when a pool is spent, or in a fork by a process whose heap
\* is larger than what one table maps, and for no other reason: no call and no
\* fault misses a table that it counts on.
THEOREM OnlySpentPoolsHalt == Spec => []HaltsOnlyWhenSpent
<1>1. Init => HaltsOnlyWhenSpent
  <2> SUFFICES ASSUME Init, halted PROVE \E f \in Flags : Cardinality(used[f]) = NUMBER[f]
    BY DEF HaltsOnlyWhenSpent
  <2>1. used = started(booted).used /\ started(booted).halted
    BY DEF Init
  <2>2. Spent(used)
    BY <2>1, StartStops DEF Stops
  <2>3. QED
    BY <2>2 DEF Spent
<1>2. PoolInv /\ TablesInv /\ HaltsOnlyWhenSpent /\ [Next]_vars => HaltsOnlyWhenSpent'
  BY HaltsStep
<1>3. QED
  BY <1>1, <1>2, TablesAlways, PTL DEF Spec
-----------------------------------------------------------------------------
(* The flat table of a process.                                            *)

nextIn(T, S, i)        == {T[t][i] : t \in {u \in S : i \in DOMAIN T[u]}}
belowIn(T, S, level, v) == {e.to : e \in nextIn(T, S, index(level, v))}
entriesIn(T, r, v) ==
  nextIn(T, belowIn(T, belowIn(T, belowIn(T, {r}, PML4, v), PDPT, v), PDT, v), index(PT, v))

FlatIn(T, r) ==
  [v \in {w \in UserPages : entriesIn(T, r, w) # {}} |->
     flat_entry(CHOOSE e \in entriesIn(T, r, v) : TRUE)]

FlatOf(m, r) ==
  [v \in {w \in UserPages : View(m, r, w) # NoEntry} |-> flat_entry(View(m, r, v))]

\* No table, or one.
JustOne(S, t) == IF t = 0 THEN S = {} ELSE S = {t}

LEMMA NextOfOne ==
  ASSUME NEW T, Filled(T), Tables(T), NEW S, NEW t, JustOne(S, t), t # 0 => t \in DOMAIN T, NEW i
  PROVE  nextIn(T, S, i) = IF IsEntry(T, t, i) THEN {content(T, t, i)} ELSE {}
<1>1. CASE t = 0
  <2>1. ~IsEntry(T, t, i)
    BY <1>1, ContentIs DEF Tables
  <2>2. S = {}
    BY <1>1 DEF JustOne
  <2>3. QED
    BY <2>1, <2>2 DEF nextIn
<1>2. CASE t # 0 /\ i \in DOMAIN T[t]
  <2>1. S = {t} /\ t \in DOMAIN T
    BY <1>2 DEF JustOne
  <2>2. content(T, t, i) = T[t][i] /\ IsEntry(T, t, i)
    BY <1>2, <2>1 DEF content, IsEntry, Filled
  <2>3. nextIn(T, S, i) = {T[t][i]}
    BY <1>2, <2>1 DEF nextIn
  <2>4. QED
    BY <2>2, <2>3
<1>3. CASE t # 0 /\ i \notin DOMAIN T[t]
  <2>1. S = {t}
    BY <1>3 DEF JustOne
  <2>2. ~IsEntry(T, t, i)
    BY <1>3, ContentIs
  <2>3. nextIn(T, S, i) = {}
    BY <1>3, <2>1 DEF nextIn
  <2>4. QED
    BY <2>2, <2>3
<1>4. QED
  BY <1>1, <1>2, <1>3

\* One level down.
LEMMA BelowOne ==
  ASSUME NEW T, NEW F, NEW lev, Tree(T, F, lev), Filled(T), Tables(T),
         NEW r \in DOMAIN T, lev[r] = PML4, NEW v \in Plain, NEW level \in {PML4, PDPT, PDT},
         NEW S, JustOne(S, Walk(T, r, v, level))
  PROVE  JustOne(belowIn(T, S, level, v), Walk(T, r, v, Next1(level)))
<1> DEFINE t == Walk(T, r, v, level)
           i == index(level, v)
           N == nextIn(T, S, i)
<1>1. Walk(T, r, v, Next1(level)) = content(T, t, i).to
  BY WalkNext
<1>2. t # 0 => t \in DOMAIN T /\ Inner(lev, t, i)
  BY WalkInner
<1>3. N = IF IsEntry(T, t, i) THEN {content(T, t, i)} ELSE {}
  BY <1>2, NextOfOne
<1>4. belowIn(T, S, level, v) = {e.to : e \in N}
  BY DEF belowIn
<1> HIDE DEF N, t, i
<1>5. CASE IsEntry(T, t, i)
  <2>1. t \in DOMAIN T /\ t # 0
    BY <1>5, ContentIs DEF Tables
  <2>2. content(T, t, i).to \in DOMAIN T
    BY <1>2, <1>5, <2>1 DEF Tree, Leading
  <2>3. content(T, t, i).to # 0
    BY <2>2 DEF Tables
  <2>4. belowIn(T, S, level, v) = {content(T, t, i).to}
    BY <1>3, <1>4, <1>5
  <2>5. QED
    BY <1>1, <2>3, <2>4 DEF JustOne, t, i
<1>6. CASE ~IsEntry(T, t, i)
  <2>1. content(T, t, i).to = 0
    BY <1>6, ContentIs
  <2>2. belowIn(T, S, level, v) = {}
    BY <1>3, <1>4, <1>6
  <2>3. QED
    BY <1>1, <2>1, <2>2 DEF JustOne, t, i
<1>7. QED
  BY <1>5, <1>6

LEMMA EntriesInAre ==
  ASSUME NEW m, NEW P, Trees(m, P), NEW r \in P, NEW v \in Plain
  PROVE  entriesIn(m.table, r, v) = IF View(m, r, v) = NoEntry THEN {} ELSE {View(m, r, v)}
<1> DEFINE T == m.table
           a == belowIn(T, {r}, PML4, v)
           b == belowIn(T, a, PDPT, v)
           c == belowIn(T, b, PDT, v)
<1>1. PICK lev : Tree(T, m.frames, lev) /\ Rooting(T, lev, P)
  BY DEF Trees
<1>2. Filled(T) /\ Tables(T) /\ r \in DOMAIN T /\ lev[r] = PML4 /\ r # 0
  BY <1>1, NoTableAtZero DEF Trees, Rooting, Tables
<1>3. entriesIn(T, r, v) = nextIn(T, c, index(PT, v))
  BY DEF entriesIn
<1> HIDE DEF T, a, b, c
<1>4. JustOne({r}, Walk(T, r, v, PML4))
  BY <1>2, WalkIs DEF JustOne
<1>5. Next1(PML4) = PDPT /\ Next1(PDPT) = PDT /\ Next1(PDT) = PT
  BY DEF Next1, PML4, PDPT, PDT, PT
<1>6. JustOne(a, Walk(T, r, v, PDPT))
  BY <1>1, <1>2, <1>4, <1>5, BelowOne DEF a
<1>7. JustOne(b, Walk(T, r, v, PDT))
  BY <1>1, <1>2, <1>5, <1>6, BelowOne DEF b
<1>8. JustOne(c, Walk(T, r, v, PT))
  BY <1>1, <1>2, <1>5, <1>7, BelowOne DEF c
<1>9. Walk(T, r, v, PT) # 0 => Walk(T, r, v, PT) \in DOMAIN T
  BY <1>1, <1>2, WalkDown, LevelsAre DEF WalksTo
<1>10. nextIn(T, c, index(PT, v)) =
         IF IsEntry(T, Walk(T, r, v, PT), index(PT, v))
         THEN {content(T, Walk(T, r, v, PT), index(PT, v))} ELSE {}
  BY <1>2, <1>8, <1>9, NextOfOne
<1>11. View(m, r, v) = content(T, Walk(T, r, v, PT), index(PT, v))
  BY WalkIs DEF View, T
<1>12. QED
  BY <1>3, <1>10, <1>11 DEF IsEntry, T

LEMMA FlatIs ==
  ASSUME NEW m, NEW P, Trees(m, P), NEW r \in P
  PROVE  FlatIn(m.table, r) = FlatOf(m, r)
<1> DEFINE E(v) == entriesIn(m.table, r, v)
           W(v) == View(m, r, v)
<1>1. \A v \in UserPages : E(v) = IF W(v) = NoEntry THEN {} ELSE {W(v)}
  BY EntriesInAre, UserPagesPlain DEF Seen
<1>2. FlatIn(m.table, r) = [v \in {w \in UserPages : E(w) # {}} |->
                              flat_entry(CHOOSE e \in E(v) : TRUE)]
  BY DEF FlatIn
<1>3. FlatOf(m, r) = [v \in {w \in UserPages : W(w) # NoEntry} |-> flat_entry(W(v))]
  BY DEF FlatOf
<1> HIDE DEF E, W
<1>4. {w \in UserPages : E(w) # {}} = {w \in UserPages : W(w) # NoEntry}
  BY <1>1
<1>5. ASSUME NEW v \in UserPages, W(v) # NoEntry
      PROVE  (CHOOSE e \in E(v) : TRUE) = W(v)
  <2>1. E(v) = {W(v)}
    BY <1>1, <1>5
  <2>2. QED
    BY <2>1
<1>6. QED
  BY <1>2, <1>3, <1>4, <1>5

\* What the model calls the flat tables.
flats == [t \in IF halted THEN {} ELSE Users |-> flat_table(task[t].cr3)]
lasts == {t \in IF halted THEN {} ELSE Users : task[t].cr3 = global_PML4}

LEMMA FlatTableIs ==
  /\ \A r : flat_table(r) = FlatIn(table, r)
  /\ flats = [t \in IF halted THEN {} ELSE Users |-> FlatIn(table, task[t].cr3)]
  /\ flats' = [t \in IF halted' THEN {} ELSE Users' |-> FlatIn(table', task'[t].cr3)]
BY DEF flats, flat_table, FlatIn, entries_for, entriesIn, below, belowIn, next_level, nextIn

LEMMA FlatsAre ==
  ASSUME TablesInv, ~halted
  PROVE  flats = [t \in Users |-> FlatOf(Memory, task[t].cr3)]
         /\ lasts = {t \in Users : task[t].cr3 = global_PML4}
<1>1. Trees(Memory, AllRoots) /\ Memory.table = table
  BY MemoryIs DEF TablesInv, Served
<1>2. \A t \in Users : FlatIn(table, task[t].cr3) = FlatOf(Memory, task[t].cr3)
  BY <1>1, FlatIs DEF AllRoots, Roots, Users
<1>3. QED
  BY <1>2, FlatTableIs DEF lasts

LEMMA FlatsNext ==
  ASSUME TablesInv', ~halted'
  PROVE  flats' = [t \in Users' |-> FlatOf(Memory', task'[t].cr3)]
         /\ lasts' = {t \in Users' : task'[t].cr3 = global_PML4'}
<1>1. Trees(Memory', AllRoots') /\ Memory'.table = table'
  BY MemoryIs DEF TablesInv, Served, Memory
<1>2. \A t \in Users' : task'[t].cr3 \in AllRoots'
  BY DEF AllRoots, Roots, Users
<1>3. \A r \in AllRoots' : FlatIn(Memory'.table, r) = FlatOf(Memory', r)
  BY <1>1, FlatIs
<1>4. \A t \in Users' : FlatIn(table', task'[t].cr3) = FlatOf(Memory', task'[t].cr3)
  BY <1>1, <1>2, <1>3
<1>5. QED
  BY <1>4, FlatTableIs DEF lasts

LEMMA FlatsHalted == ASSUME halted' PROVE DOMAIN flats' = {} /\ lasts' = {}
BY FlatTableIs DEF lasts

\* What the pages of a table become.
LEMMA FlatSame ==
  ASSUME NEW m, NEW n, NEW r, \A v \in UserPages : View(n, r, v) = View(m, r, v)
  PROVE  FlatOf(n, r) = FlatOf(m, r)
<1> DEFINE D(x) == {w \in UserPages : View(x, r, w) # NoEntry}
<1>1. D(n) = D(m)
  OBVIOUS
<1>2. \A v \in D(m) : View(n, r, v) = View(m, r, v)
  OBVIOUS
<1>3. FlatOf(n, r) = [v \in D(n) |-> flat_entry(View(n, r, v))]
      /\ FlatOf(m, r) = [v \in D(m) |-> flat_entry(View(m, r, v))]
  BY DEF FlatOf
<1> HIDE DEF D
<1>4. QED
  BY <1>1, <1>2, <1>3

LEMMA FlatOfAt ==
  ASSUME NEW m, NEW r
  PROVE  /\ DOMAIN FlatOf(m, r) = {w \in UserPages : View(m, r, w) # NoEntry}
         /\ \A v \in UserPages : View(m, r, v) # NoEntry =>
              FlatOf(m, r)[v] = flat_entry(View(m, r, v))
BY DEF FlatOf

LEMMA FlatOfForm ==
  ASSUME NEW m, NEW r
  PROVE  FlatOf(m, r) = [v \in DOMAIN FlatOf(m, r) |-> FlatOf(m, r)[v]]
BY DEF FlatOf

LEMMA FlatOwn ==
  ASSUME NEW f
  PROVE  flat_entry(Own(f)) = Flat!own(f)
<1>1. "W" \in Own(f).bits /\ Own(f).to = f
  BY OwnIs
<1>2. QED
  BY <1>1 DEF flat_entry, Flat!own

LEMMA FlatSet ==
  ASSUME NEW m, NEW n, NEW r, NEW w \in UserPages, NEW f,
         \A v \in UserPages : View(n, r, v) = IF v = w THEN Own(f) ELSE View(m, r, v)
  PROVE  FlatOf(n, r) = Flat!with(FlatOf(m, r), w, f)
<1> DEFINE old == FlatOf(m, r)
           new == FlatOf(n, r)
<1>a. /\ DOMAIN new = {x \in UserPages : View(n, r, x) # NoEntry}
      /\ DOMAIN old = {x \in UserPages : View(m, r, x) # NoEntry}
  BY FlatOfAt
<1>b. Own(f) # NoEntry
  BY OwnIs
<1>1. DOMAIN new = DOMAIN old \cup {w}
  <2> HIDE DEF old, new
  <2>1. QED
    BY <1>a, <1>b
<1>2. \A v \in DOMAIN new : new[v] = IF v = w THEN Flat!own(f) ELSE old[v]
  <2> TAKE v \in DOMAIN new
  <2>1. v \in UserPages /\ View(n, r, v) # NoEntry
    BY FlatOfAt
  <2>a. new[v] = flat_entry(View(n, r, v))
    BY <2>1, FlatOfAt
  <2>2. CASE v = w
    BY <2>1, <2>a, <2>2, FlatOwn
  <2>3. CASE v # w
    <3>1. View(n, r, v) = View(m, r, v)
      BY <2>1, <2>3
    <3>2. old[v] = flat_entry(View(m, r, v))
      BY <2>1, <3>1, FlatOfAt
    <3>3. QED
      BY <2>a, <2>3, <3>1, <3>2
  <2>4. QED
    BY <2>2, <2>3
<1>3. new = [v \in DOMAIN new |-> new[v]]
  BY FlatOfForm
<1> HIDE DEF old, new
<1>4. new = [v \in DOMAIN old \cup {w} |-> IF v = w THEN Flat!own(f) ELSE old[v]]
  BY <1>1, <1>2, <1>3
<1>5. QED
  BY <1>4 DEF Flat!with, old, new

\* The tables before a step and after it.
OldTables ==
  /\ DOMAIN flats = Users /\ flats = [t \in Users |-> flats[t]]
  /\ \A t \in Users : flats[t] = FlatOf(Memory, task[t].cr3)
  /\ lasts = {t \in Users : task[t].cr3 = global_PML4}

NewTables ==
  /\ DOMAIN flats' = Users' /\ flats' = [t \in Users' |-> flats'[t]]
  /\ \A t \in Users' : flats'[t] = FlatOf(Memory', task'[t].cr3)
  /\ lasts' = {t \in Users' : task'[t].cr3 = global_PML4'}

LEMMA TablesOld == ASSUME TablesInv, ~halted PROVE OldTables
<1> DEFINE F == [t \in Users |-> FlatOf(Memory, task[t].cr3)]
<1>1. flats = F /\ lasts = {t \in Users : task[t].cr3 = global_PML4}
  BY FlatsAre
<1>2. DOMAIN F = Users /\ F = [t \in Users |-> F[t]]
      /\ \A t \in Users : F[t] = FlatOf(Memory, task[t].cr3)
  OBVIOUS
<1> HIDE DEF F
<1>3. QED
  BY <1>1, <1>2 DEF OldTables

LEMMA TablesNew == ASSUME TablesInv', ~halted' PROVE NewTables
<1> DEFINE F == [t \in Users' |-> FlatOf(Memory', task'[t].cr3)]
<1>1. flats' = F /\ lasts' = {t \in Users' : task'[t].cr3 = global_PML4'}
  BY FlatsNext
<1>2. DOMAIN F = Users' /\ F = [t \in Users' |-> F[t]]
      /\ \A t \in Users' : F[t] = FlatOf(Memory', task'[t].cr3)
  OBVIOUS
<1> HIDE DEF F
<1>3. QED
  BY <1>1, <1>2 DEF NewTables

\* A frame that is not taken is in no table.
LEMMA FreshFrames ==
  ASSUME TablesInv, ~halted, NEW f \in Frames \ frames
  PROVE  f \in Flat!Fresh(flats)
<1>1. OldTables /\ Trees(Memory, AllRoots)
  BY TablesOld DEF TablesInv, Served
<1>2. ASSUME NEW t \in Users, NEW v \in DOMAIN flats[t]
      PROVE  flats[t][v].frame # f
  <2>1. task[t].cr3 \in AllRoots /\ flats[t] = FlatOf(Memory, task[t].cr3)
    BY <1>1 DEF AllRoots, Roots, Users, OldTables
  <2> DEFINE r == task[t].cr3
  <2>b. DOMAIN FlatOf(Memory, r) = {w \in UserPages : View(Memory, r, w) # NoEntry}
    BY FlatOfAt
  <2>a. v \in UserPages /\ View(Memory, r, v) # NoEntry
    <3> HIDE DEF r
    <3>1. v \in DOMAIN FlatOf(Memory, r)
      BY <1>2, <2>1 DEF r
    <3>2. QED
      BY <2>b, <3>1
  <2>2. v \in UserPages /\ flats[t][v] = flat_entry(View(Memory, task[t].cr3, v))
    BY <2>a, <2>1, FlatOfAt
  <2>3. v \in Plain
    BY <2>2, BasePagesAre DEF Seen
  <2>4. LeafOk(Memory.table, Memory.frames, View(Memory, task[t].cr3, v))
    BY <1>1, <2>1, <2>3, ViewIsOk
  <2>5. View(Memory, task[t].cr3, v).to # f
    BY <2>4, MemoryIs, ConstantsAre DEF LeafOk, Frames
  <2>6. QED
    BY <2>2, <2>5 DEF flat_entry
<1>3. \A t \in Users : f \notin Flat!Mapped(flats[t])
  BY <1>2 DEF Flat!Mapped
<1>4. QED
  BY <1>1, <1>3 DEF Flat!Fresh, Frames, OldTables

\* Calls that change no page of a user, and the halt.
LEMMA QuietIsRemoved ==
  ASSUME TablesInv, ~halted, QuietTables
  PROVE  Flat!Step(flats, flats', lasts, lasts')
<1>1. OldTables /\ NewTables
  BY TablesOld, TablesNew DEF QuietTables
<1>2. Users' \subseteq Users /\ \A t \in Users' : task'[t].cr3 = task[t].cr3
  BY DEF QuietTables, RootsStay, Users
<1>3. \A r : FlatOf(Memory', r) = FlatOf(Memory, r)
  BY FlatSame DEF QuietTables
<1>4. \A t \in Users' : flats'[t] = flats[t]
  BY <1>1, <1>2, <1>3 DEF OldTables, NewTables
<1>5. DOMAIN flats' = Users' /\ DOMAIN flats = Users
  BY <1>1 DEF OldTables, NewTables
<1>6. lasts' = lasts \cap DOMAIN flats'
  BY <1>1, <1>2 DEF OldTables, NewTables, QuietTables, RootsStay
<1>7. Flat!Removed(flats, flats')
  BY <1>2, <1>4, <1>5 DEF Flat!Removed
<1>8. QED
  BY <1>6, <1>7 DEF Flat!Step

LEMMA HaltIsRemoved ==
  ASSUME halted' PROVE Flat!Step(flats, flats', lasts, lasts')
<1>1. DOMAIN flats' = {} /\ lasts' = lasts \cap DOMAIN flats'
  BY FlatsHalted
<1>2. QED
  BY <1>1 DEF Flat!Step, Flat!Removed

\* The users stay when exec changes the record of one.
LEMMA ExecUsers ==
  ASSUME PoolInv, TablesInv, ~halted, current \in Users,
         do_execv_fails \/ (do_execv /\ ~halted')
  PROVE  Users' = Users
<1>1. DOMAIN task = Slots /\ current \in Slots
  BY DEF PoolInv, TasksTyped, Users, Tasks
<1>2. DOMAIN task[current] = TaskFields /\ DOMAIN NoTask # TaskFields
  BY UserRecord
<1>3. \/ task' = [task EXCEPT ![current].brk = HEAP_BASE + 1]
      \/ task' = [task EXCEPT ![current].brk = HEAP_BASE + 1, ![current].vm_end = HEAP_BASE + 1]
  BY DEF do_execv, do_execv_fails, becomes
<1>4. DOMAIN task'[current] = TaskFields /\ \A t \in Slots \ {current} : task'[t] = task[t]
  BY <1>1, <1>2, <1>3
<1>5. \A t \in Slots : task'[t] # NoTask <=> task[t] # NoTask
  BY <1>2, <1>4
<1>6. QED
  BY <1>5 DEF Users, Tasks

LEMMA UserRootsAre ==
  ASSUME NEW t \in Users PROVE task[t].cr3 \in AllRoots
BY DEF AllRoots, Roots, Users

\* One page of one process gets a frame.
LEMMA OneIsSet ==
  ASSUME TablesInv, ~halted, TablesInv', ~halted', RootsStay, Users' = Users,
         NEW c \in Users, NEW w \in UserPages, NEW f,
         SetsSeen(Memory, Memory', AllRoots, task[c].cr3, w, Own(f))
  PROVE  flats' = [flats EXCEPT ![c] = Flat!with(flats[c], w, f)] /\ lasts' = lasts
<1>1. OldTables /\ NewTables
  BY TablesOld, TablesNew
<1>2. \A t \in Users : task'[t].cr3 = task[t].cr3 /\ flats'[t] = FlatOf(Memory', task[t].cr3)
  BY <1>1 DEF NewTables, RootsStay, Users
<1>3. \A v \in UserPages : v \in Seen
  BY BasePagesAre
<1>4. ASSUME NEW t \in Users, t # c PROVE flats'[t] = flats[t]
  <2>1. task[t].cr3 # task[c].cr3 /\ task[t].cr3 \in AllRoots
    BY <1>4, UserRootsAre DEF TablesInv, RootsDiffer
  <2>2. \A v \in UserPages : View(Memory', task[t].cr3, v) = View(Memory, task[t].cr3, v)
    BY <1>3, <2>1 DEF SetsSeen
  <2>3. FlatOf(Memory', task[t].cr3) = FlatOf(Memory, task[t].cr3)
    BY <2>2, FlatSame
  <2>4. QED
    BY <1>1, <1>2, <2>3 DEF OldTables
<1>5. flats'[c] = Flat!with(flats[c], w, f)
  <2>1. task[c].cr3 \in AllRoots
    BY UserRootsAre
  <2>2. \A v \in UserPages : View(Memory', task[c].cr3, v) =
                               IF v = w THEN Own(f) ELSE View(Memory, task[c].cr3, v)
    BY <1>3, <2>1 DEF SetsSeen
  <2>3. FlatOf(Memory', task[c].cr3) = Flat!with(FlatOf(Memory, task[c].cr3), w, f)
    BY <2>2, FlatSet
  <2>4. QED
    BY <1>1, <1>2, <2>3 DEF OldTables
<1>6. lasts' = lasts
  BY <1>1, <1>2 DEF OldTables, NewTables, RootsStay
<1>7. flats' = [t \in Users |-> flats'[t]] /\ flats = [t \in Users |-> flats[t]]
  BY <1>1 DEF OldTables, NewTables
<1>8. QED
  BY <1>4, <1>5, <1>6, <1>7

LEMMA UsersAreFlat == ASSUME TablesInv, ~halted, NEW c \in Users PROVE c \in DOMAIN flats
BY TablesOld DEF OldTables

LEMMA DemandIsFlat ==
  ASSUME PoolInv, TablesInv, ~halted, NEW page \in accessible, demand_paging(page)
  PROVE  Flat!Step(flats, flats', lasts, lasts')
<1>1. /\ ~halted' /\ TablesInv' /\ RootsStay /\ current \in Users
      /\ PageSet(Memory, Memory', AllRoots, cr3, page, Frames \ frames)
      /\ View(Memory, cr3, page) = NoEntry /\ page \in UserPages
      /\ page \in {HEAP_BASE, HEAP_BASE + TABLE_SIZE}
  BY DemandTables
<1>2. Users' = Users
  BY DEF demand_paging, Users, Tasks
<1>3. PICK f \in Frames \ frames : SetsView(Memory, Memory', AllRoots, cr3, page, Own(f))
  BY <1>1 DEF PageSet
<1>4. SetsSeen(Memory, Memory', AllRoots, task[current].cr3, page, Own(f))
  BY <1>3, SeenIs DEF cr3
<1>5. flats' = [flats EXCEPT ![current] = Flat!with(flats[current], page, f)] /\ lasts' = lasts
  BY <1>1, <1>2, <1>4, OneIsSet
<1>6. page \notin DOMAIN flats[current]
  <2>1. flats[current] = FlatOf(Memory, cr3)
    BY <1>1, TablesOld DEF OldTables, cr3
  <2>2. DOMAIN FlatOf(Memory, cr3) = {w \in UserPages : View(Memory, cr3, w) # NoEntry}
    BY FlatOfAt
  <2>3. QED
    BY <1>1, <2>1, <2>2
<1>7. f \in Flat!Fresh(flats) /\ current \in DOMAIN flats
  BY <1>1, FreshFrames, UsersAreFlat
<1>8. Flat!Demanded(current, flats, flats')
  BY <1>1, <1>5, <1>6, <1>7 DEF Flat!Demanded
<1>9. QED
  BY <1>5, <1>7, <1>8 DEF Flat!Step

LEMMA EntryFields ==
  ASSUME NEW e
  PROVE  flat_entry(e).frame = e.to /\ (flat_entry(e).writable <=> "W" \in e.bits)
<1>1. flat_entry(e).writable = ("W" \in e.bits)
  BY Zenon DEF flat_entry
<1>2. flat_entry(e).frame = e.to
  BY DEF flat_entry
<1>3. QED
  BY <1>1, <1>2

\* An entry that fork has marked allows no store.
LEMMA MarkedNotWritable ==
  ASSUME TablesInv, ~halted, NEW r \in AllRoots, NEW v \in UserPages,
         "COW" \in View(Memory, r, v).bits
  PROVE  v \in DOMAIN FlatOf(Memory, r) /\ ~FlatOf(Memory, r)[v].writable
         /\ FlatOf(Memory, r)[v].frame = View(Memory, r, v).to
<1>1. Trees(Memory, AllRoots) /\ v \in Plain
  BY BasePagesAre DEF TablesInv, Served, Seen
<1>2. LeafOk(Memory.table, Memory.frames, View(Memory, r, v))
  BY <1>1, ViewIsOk
<1>3. "W" \notin View(Memory, r, v).bits
  BY <1>2 DEF LeafOk
<1>4. View(Memory, r, v) # NoEntry
  BY DEF NoEntry
<1>5. v \in DOMAIN FlatOf(Memory, r)
  BY <1>4, FlatOfAt
<1>6. FlatOf(Memory, r)[v] = flat_entry(View(Memory, r, v))
  BY <1>4, FlatOfAt
<1>7. flat_entry(View(Memory, r, v)).frame = View(Memory, r, v).to
      /\ ~flat_entry(View(Memory, r, v)).writable
  BY <1>3, EntryFields
<1>8. QED
  BY <1>5, <1>6, <1>7

LEMMA CopyIsFlat ==
  ASSUME PoolInv, TablesInv, ~halted, NEW page \in accessible, NEW b \in BOOLEAN,
         copy_on_write(page, b)
  PROVE  Flat!Step(flats, flats', lasts, lasts')
<1>1. /\ ~halted' /\ TablesInv' /\ RootsStay /\ current \in Users /\ page \in UserPages
      /\ PageSet(Memory, Memory', AllRoots, cr3, page,
                 (Frames \ frames) \cup {View(Memory, cr3, page).to})
      /\ "COW" \in View(Memory, cr3, page).bits
  BY CopyTables
<1>2. Users' = Users
  BY DEF copy_on_write, Users, Tasks
<1>3. PICK f \in (Frames \ frames) \cup {View(Memory, cr3, page).to} :
        SetsView(Memory, Memory', AllRoots, cr3, page, Own(f))
  BY <1>1 DEF PageSet
<1>4. SetsSeen(Memory, Memory', AllRoots, task[current].cr3, page, Own(f))
  BY <1>3, SeenIs DEF cr3
<1>5. flats' = [flats EXCEPT ![current] = Flat!with(flats[current], page, f)] /\ lasts' = lasts
  BY <1>1, <1>2, <1>4, OneIsSet
<1>6. flats[current] = FlatOf(Memory, cr3) /\ cr3 \in AllRoots
  BY <1>1, TablesOld, UserRootsAre DEF OldTables, cr3
<1>7. page \in DOMAIN flats[current] /\ ~flats[current][page].writable
      /\ flats[current][page].frame = View(Memory, cr3, page).to
  BY <1>1, <1>6, MarkedNotWritable
<1>8. f \in Flat!Fresh(flats) \cup {flats[current][page].frame} /\ current \in DOMAIN flats
  BY <1>1, <1>3, <1>7, FreshFrames, UsersAreFlat
<1>9. Flat!Stored(current, flats, flats')
  BY <1>5, <1>7, <1>8 DEF Flat!Stored
<1>10. QED
  BY <1>5, <1>8, <1>9 DEF Flat!Step

LEMMA ExecFailsIsFlat ==
  ASSUME PoolInv, TablesInv, ~halted, do_execv_fails
  PROVE  Flat!Step(flats, flats', lasts, lasts')
<1>1. /\ ~halted' /\ TablesInv' /\ RootsStay /\ current \in Users
      /\ StackReplaced(Memory, Memory', AllRoots, cr3) /\ STACK_TOP - 1 \in UserPages
  BY ExecFailsTables, BasePagesAre
<1>2. Users' = Users
  BY <1>1, ExecUsers
<1>3. PICK f \in Frames \ frames : SetsSeen(Memory, Memory', AllRoots, cr3, STACK_TOP - 1, Own(f))
  BY <1>1, MemoryIs DEF StackReplaced
<1>4. flats' = [flats EXCEPT ![current] = Flat!with(flats[current], STACK_TOP - 1, f)]
      /\ lasts' = lasts
  BY <1>1, <1>2, <1>3, OneIsSet DEF cr3
<1>5. f \in Flat!Fresh(flats) /\ current \in DOMAIN flats
  BY <1>1, FreshFrames, UsersAreFlat
<1>6. Flat!Executed(current, flats, flats', lasts)
  BY <1>4, <1>5 DEF Flat!Executed
<1>7. QED
  BY <1>4, <1>5, <1>6 DEF Flat!Step

\* exec: the tables after the stack has been replaced, and the program loaded.
FlatBy(W)     == [v \in {w \in UserPages : W[w] # NoEntry} |-> flat_entry(W[v])]
ViewsOf(m, r) == [v \in UserPages |-> View(m, r, v)]

LEMMA FlatByIs ==
  ASSUME NEW W
  PROVE  /\ DOMAIN FlatBy(W) = {w \in UserPages : W[w] # NoEntry}
         /\ \A v \in UserPages : W[v] # NoEntry => FlatBy(W)[v] = flat_entry(W[v])
BY DEF FlatBy

LEMMA FlatByForm ==
  ASSUME NEW W PROVE FlatBy(W) = [v \in DOMAIN FlatBy(W) |-> FlatBy(W)[v]]
BY DEF FlatBy

LEMMA FlatByViews ==
  ASSUME NEW m, NEW r PROVE FlatOf(m, r) = FlatBy(ViewsOf(m, r))
<1> DEFINE W == ViewsOf(m, r)
<1>1. \A v \in UserPages : W[v] = View(m, r, v)
  BY DEF ViewsOf
<1> HIDE DEF W
<1>2. {w \in UserPages : W[w] # NoEntry} = {w \in UserPages : View(m, r, w) # NoEntry}
  BY <1>1
<1>3. FlatBy(W) = [v \in {w \in UserPages : View(m, r, w) # NoEntry} |-> flat_entry(View(m, r, v))]
  BY <1>1, <1>2 DEF FlatBy
<1>4. QED
  BY <1>3 DEF FlatOf, W

LEMMA FlatBySet ==
  ASSUME NEW W, NEW X, NEW w \in UserPages, NEW f,
         \A v \in UserPages : X[v] = IF v = w THEN Own(f) ELSE W[v]
  PROVE  FlatBy(X) = Flat!with(FlatBy(W), w, f)
<1> DEFINE old == FlatBy(W)
           new == FlatBy(X)
<1>1. DOMAIN new = {x \in UserPages : X[x] # NoEntry} /\ DOMAIN old = {x \in UserPages : W[x] # NoEntry}
  BY FlatByIs
<1>2. Own(f) # NoEntry
  BY OwnIs
<1>3. DOMAIN new = DOMAIN old \cup {w}
  <2> HIDE DEF old, new
  <2>1. QED
    BY <1>1, <1>2
<1>4. \A v \in DOMAIN new : new[v] = IF v = w THEN Flat!own(f) ELSE old[v]
  <2> TAKE v \in DOMAIN new
  <2>1. v \in UserPages /\ X[v] # NoEntry
    <3> HIDE DEF old, new
    <3>1. QED
      BY <1>1
  <2>2. new[v] = flat_entry(X[v])
    BY <2>1, FlatByIs
  <2>3. CASE v = w
    BY <2>1, <2>2, <2>3, FlatOwn
  <2>4. CASE v # w
    <3>1. X[v] = W[v]
      BY <2>1, <2>4
    <3>2. old[v] = flat_entry(W[v])
      BY <2>1, <3>1, FlatByIs
    <3>3. QED
      BY <2>2, <2>4, <3>1, <3>2
  <2>5. QED
    BY <2>3, <2>4
<1>5. new = [v \in DOMAIN new |-> new[v]]
  BY FlatByForm
<1> HIDE DEF old, new
<1>6. new = [v \in DOMAIN old \cup {w} |-> IF v = w THEN Flat!own(f) ELSE old[v]]
  BY <1>3, <1>4, <1>5
<1>7. QED
  BY <1>6 DEF Flat!with, old, new

\* Frames for the pages of a program.
OfProgram(h, k) == [v \in {CODE, DATA} |-> IF v = CODE THEN h ELSE k]

LEMMA LoadedIs ==
  ASSUME NEW F, NEW h, NEW k
  PROVE  Flat!with(Flat!with(F, CODE, h), DATA, k) =
           [v \in DOMAIN F \cup {CODE, DATA} |->
              IF v \in {CODE, DATA} THEN Flat!own(OfProgram(h, k)[v]) ELSE F[v]]
<1> DEFINE G == Flat!with(F, CODE, h)
           H == Flat!with(G, DATA, k)
           p == OfProgram(h, k)
<1>1. DOMAIN G = DOMAIN F \cup {CODE} /\ \A v \in DOMAIN G : G[v] = IF v = CODE THEN Flat!own(h) ELSE F[v]
  BY DEF Flat!with
<1>2. p[CODE] = h /\ p[DATA] = k
  BY CodeIsNotData DEF OfProgram
<1> HIDE DEF G, p
<1>3. H = [v \in DOMAIN G \cup {DATA} |-> IF v = DATA THEN Flat!own(k) ELSE G[v]]
  BY DEF Flat!with
<1> HIDE DEF H
<1>4. DOMAIN G \cup {DATA} = DOMAIN F \cup {CODE, DATA}
  BY <1>1
<1>5. \A v \in DOMAIN F \cup {CODE, DATA} :
        (IF v = DATA THEN Flat!own(k) ELSE G[v]) =
          IF v \in {CODE, DATA} THEN Flat!own(p[v]) ELSE F[v]
  BY <1>1, <1>2, CodeIsNotData
<1>6. QED
  BY <1>3, <1>4, <1>5 DEF G, H, p

LEMMA ExecIsFlat ==
  ASSUME PoolInv, TablesInv, ~halted, do_execv, ~halted'
  PROVE  Flat!Step(flats, flats', lasts, lasts')
<1> DEFINE m == Memory
           n == Memory'
           g == global_PML4
<1>1. /\ TablesInv' /\ RootsStay /\ current \in Users /\ cr3 \in AllRoots
      /\ Replaced(m, n, AllRoots, cr3, g)
  BY ExecTables
<1>2. Users' = Users
  BY <1>1, ExecUsers
<1>3. OldTables /\ NewTables
  BY <1>1, TablesOld, TablesNew
<1>4. \A t \in Users : task'[t].cr3 = task[t].cr3 /\ flats'[t] = FlatOf(n, task[t].cr3)
                       /\ flats[t] = FlatOf(m, task[t].cr3) /\ task[t].cr3 \in AllRoots
                       /\ (t \in lasts <=> task[t].cr3 = g)
                       /\ (t # current => task[t].cr3 # cr3)
  <2>1. \A t \in Users : task'[t].cr3 = task[t].cr3
    BY <1>1, <1>2 DEF RootsStay, Users
  <2>2. \A t \in Users : t # current => task[t].cr3 # cr3
    BY <1>1 DEF TablesInv, RootsDiffer, cr3
  <2>3. QED
    BY <1>2, <1>3, <2>1, <2>2, UserRootsAre DEF OldTables, NewTables
<1> HIDE DEF m, n, g
<1>5. PICK f, h, k \in Frames \ m.frames :
        /\ f # h /\ f # k /\ h # k
        /\ \A s \in AllRoots, v \in Seen :
             View(n, s, v) = IF s = g /\ v = CODE THEN Own(h)
                             ELSE IF s = g /\ v = DATA THEN Own(k)
                             ELSE IF s = cr3 /\ v = STACK_TOP - 1 THEN Own(f)
                             ELSE View(m, s, v)
  BY <1>1 DEF Replaced
<1>6. \A v \in UserPages : v \in Seen
  BY BasePagesAre
<1> DEFINE failed == [flats EXCEPT ![current] = Flat!with(flats[current], STACK_TOP - 1, f)]
           stack(t) == [v \in UserPages |-> IF t = current /\ v = STACK_TOP - 1 THEN Own(f)
                                            ELSE View(m, task[t].cr3, v)]
<1>7. CODE \in UserPages /\ DATA \in UserPages /\ STACK_TOP - 1 \in UserPages /\ CODE # DATA
  BY BasePagesAre, CodeIsNotData
<1>8. ASSUME NEW t \in Users PROVE failed[t] = FlatBy(stack(t))
  <2>1. flats[t] = FlatBy(ViewsOf(m, task[t].cr3)) /\ t \in DOMAIN flats /\ current \in DOMAIN flats
    BY <1>1, <1>3, <1>4, FlatByViews DEF OldTables
  <2>2. CASE t = current
    <3>1. \A v \in UserPages : stack(t)[v] = IF v = STACK_TOP - 1 THEN Own(f)
                                             ELSE ViewsOf(m, task[t].cr3)[v]
      BY <2>2 DEF ViewsOf
    <3> HIDE DEF stack
    <3>2. FlatBy(stack(t)) = Flat!with(FlatBy(ViewsOf(m, task[t].cr3)), STACK_TOP - 1, f)
      BY <1>7, <3>1, FlatBySet
    <3>3. QED
      BY <2>1, <2>2, <3>2
  <2>3. CASE t # current
    <3>1. stack(t) = ViewsOf(m, task[t].cr3)
      BY <2>3 DEF ViewsOf
    <3> HIDE DEF stack
    <3>2. failed[t] = flats[t]
      BY <2>1, <2>3
    <3>3. QED
      BY <2>1, <3>1, <3>2
  <2>4. QED
    BY <2>2, <2>3
<1> HIDE DEF failed
<1>9. ASSUME NEW t \in Users, t \notin lasts PROVE flats'[t] = failed[t]
  <2>1. task[t].cr3 # g /\ (task[t].cr3 = cr3 <=> t = current) /\ task[t].cr3 \in AllRoots
    BY <1>4, <1>9 DEF cr3
  <2>2. \A v \in UserPages : View(n, task[t].cr3, v) = stack(t)[v]
    BY <1>5, <1>6, <2>1
  <2>3. ViewsOf(n, task[t].cr3) = stack(t)
    BY <2>2 DEF ViewsOf
  <2> HIDE DEF stack
  <2>4. QED
    BY <1>4, <1>8, <2>3, FlatByViews
<1>10. ASSUME NEW t \in Users, t \in lasts
       PROVE  flats'[t] = [v \in DOMAIN failed[t] \cup {CODE, DATA} |->
                 IF v \in {CODE, DATA} THEN Flat!own(OfProgram(h, k)[v]) ELSE failed[t][v]]
  <2> DEFINE r == task[t].cr3
             code == [stack(t) EXCEPT ![CODE] = Own(h)]
  <2>1. r = g /\ (r = cr3 <=> t = current) /\ r \in AllRoots
    BY <1>4, <1>10 DEF cr3
  <2>2. \A v \in UserPages : ViewsOf(n, r)[v] = IF v = CODE THEN Own(h)
                                               ELSE IF v = DATA THEN Own(k) ELSE stack(t)[v]
    BY <1>5, <1>6, <2>1 DEF ViewsOf
  <2>3. DOMAIN stack(t) = UserPages
    OBVIOUS
  <2> HIDE DEF stack, r
  <2>4. \A v \in UserPages : code[v] = IF v = CODE THEN Own(h) ELSE stack(t)[v]
    BY <2>3
  <2> HIDE DEF code
  <2>5. FlatBy(code) = Flat!with(FlatBy(stack(t)), CODE, h)
    BY <1>7, <2>4, FlatBySet
  <2>6. \A v \in UserPages : ViewsOf(n, r)[v] = IF v = DATA THEN Own(k) ELSE code[v]
    BY <1>7, <2>2, <2>4
  <2>7. FlatBy(ViewsOf(n, r)) = Flat!with(FlatBy(code), DATA, k)
    BY <1>7, <2>6, FlatBySet
  <2>8. flats'[t] = Flat!with(Flat!with(failed[t], CODE, h), DATA, k)
    BY <1>4, <1>8, <2>5, <2>7, FlatByViews DEF r
  <2>9. QED
    BY <2>8, LoadedIs
<1> HIDE DEF stack
<1>11. OfProgram(h, k) \in [{CODE, DATA} -> Flat!Fresh(flats) \ {f}] /\ f \in Flat!Fresh(flats)
  <2>1. f \in Flat!Fresh(flats) /\ h \in Flat!Fresh(flats) /\ k \in Flat!Fresh(flats)
    BY <1>5, MemoryIs, FreshFrames DEF m
  <2>2. QED
    BY <1>5, <2>1 DEF OfProgram
<1>12. \A v, w \in {CODE, DATA} : OfProgram(h, k)[v] = OfProgram(h, k)[w] => v = w
  BY <1>5, <1>7 DEF OfProgram
<1>13. current \in DOMAIN flats /\ DOMAIN flats = Users /\ lasts' = lasts
       /\ flats' = [t \in Users |-> flats'[t]]
  BY <1>1, <1>2, <1>3, <1>4 DEF OldTables, NewTables, RootsStay, g
<1> DEFINE loaded(t) == [v \in DOMAIN failed[t] \cup {CODE, DATA} |->
                 IF v \in {CODE, DATA} THEN Flat!own(OfProgram(h, k)[v]) ELSE failed[t][v]]
<1>14. flats' = [t \in DOMAIN flats |-> IF t \notin lasts THEN failed[t] ELSE loaded(t)]
  <2>1. \A t \in Users : flats'[t] = IF t \notin lasts THEN failed[t] ELSE loaded(t)
    BY <1>9, <1>10
  <2> HIDE DEF loaded
  <2>2. QED
    BY <1>13, <2>1
<1>15. Flat!Executed(current, flats, flats', lasts)
  <2> DEFINE G == OfProgram(h, k)
  <2>1. G \in [{CODE, DATA} -> Flat!Fresh(flats) \ {f}] /\ \A v, w \in {CODE, DATA} : G[v] = G[w] => v = w
    BY <1>11, <1>12
  <2>2. flats' = [r \in DOMAIN flats |->
           IF r \notin lasts THEN failed[r]
           ELSE [v \in DOMAIN failed[r] \cup {CODE, DATA} |->
                   IF v \in {CODE, DATA} THEN Flat!own(G[v]) ELSE failed[r][v]]]
    BY <1>14
  <2> HIDE DEF G
  <2>3. QED
    BY <1>11, <2>1, <2>2 DEF Flat!Executed, failed
<1>16. QED
  BY <1>13, <1>15 DEF Flat!Step

\* fork: the child has the marked entries of the areas.
LEMMA WritableSet ==
  ASSUME NEW a, NEW b, NEW c
  PROVE  [[frame |-> a, writable |-> b] EXCEPT !.writable = c] = [frame |-> a, writable |-> c]
BY SMT

LEMMA MarkedEntry ==
  ASSUME NEW e, e # NoEntry
  PROVE  flat_entry(Marked(e)) = [flat_entry(e) EXCEPT !.writable = FALSE]
<1> DEFINE x == flat_entry(e)
           y == flat_entry(Cow(e))
           b == "W" \in e.bits
<1>1. x = [frame |-> e.to, writable |-> b]
  BY DEF flat_entry
<1>2. y = [frame |-> e.to, writable |-> FALSE]
  <2>1. Cow(e).to = e.to /\ ("W" \in Cow(e).bits) = FALSE
    BY CowIs
  <2>2. QED
    BY <2>1 DEF flat_entry
<1> HIDE DEF x, y, b
<1>3. [x EXCEPT !.writable = FALSE] = [frame |-> e.to, writable |-> FALSE]
  BY <1>1, WritableSet
<1>4. QED
  BY <1>2, <1>3 DEF Marked, x, y

\* Which pages of a user are in no area.
LEMMA OutsideIsHeap ==
  ASSUME NEW e \in HeapEnds
  PROVE  UserPages \ AreaOf(e) \subseteq {HEAP_BASE, HEAP_BASE + TABLE_SIZE}
<1>1. BasePages \subseteq AreaOf(e) /\ STACK_TOP - STACK_PAGES \in AreaOf(e)
  BY BaseInArea DEF AreaOf
<1>2. QED
  BY <1>1, PagesDiffer

LEMMA UserNotKernel ==
  ASSUME NEW v \in UserPages
  PROVE  v \in Plain /\ v \notin KernelPages(Parts)
<1>1. v \in Plain
  BY BasePagesAre DEF Seen
<1>2. \A n \in 0 .. KERNEL_PAGES - 1 : v # VIR_START + n
  BY UserPagesPlain
<1>3. QED
  BY <1>1, <1>2, AllKernelPages

LEMMA ForkIsFlat ==
  ASSUME PoolInv, TablesInv, ~halted, do_fork, ~halted'
  PROVE  Flat!Step(flats, flats', lasts, lasts')
<1> DEFINE m == Memory
           n == Memory'
           A == AreaOf(task[current].vm_end)
           p == current
           old == flats[p]
           S == DOMAIN old \ (DOMAIN old \ A)
           readonly == [v \in S |-> [old[v] EXCEPT !.writable = FALSE]]
<1>1. /\ TablesInv' /\ current \in Users /\ cr3 \in AllRoots /\ task[current].vm_end \in HeapEnds
      /\ \E c, root : NewTask(c, root) /\ ForkedViews(m, n, AllRoots, cr3, root, A)
  BY ForkTablesStep
<1>2. PICK c, root : NewTask(c, root) /\ ForkedViews(m, n, AllRoots, cr3, root, A)
  BY <1>1
<1>3. OldTables /\ NewTables
  BY <1>1, TablesOld, TablesNew
<1>4. /\ Users' = Users \cup {c} /\ c \notin Users /\ c \in Slots \ {IDLE} /\ task'[c].cr3 = root
      /\ global_PML4' = root /\ \A t \in Users : task'[t].cr3 = task[t].cr3 /\ task[t].cr3 # root
  BY <1>2, UserRootsAre DEF NewTask, Users
<1>5. /\ flats'[c] = FlatOf(n, root)
      /\ \A t \in Users : /\ flats'[t] = FlatOf(n, task[t].cr3) /\ flats[t] = FlatOf(m, task[t].cr3)
                          /\ task[t].cr3 \in AllRoots /\ (t # p => task[t].cr3 # cr3)
  <2>1. \A t \in Users : t # p => task[t].cr3 # cr3
    BY <1>1 DEF TablesInv, RootsDiffer, cr3
  <2>2. QED
    BY <1>3, <1>4, <2>1, UserRootsAre DEF OldTables, NewTables
<1>6. old = FlatOf(m, cr3)
  BY <1>1, <1>5 DEF cr3
<1>7. DOMAIN flats \ A \subseteq DOMAIN flats /\ DOMAIN old \ A \subseteq {HEAP_BASE, HEAP_BASE + TABLE_SIZE}
  <2>1. DOMAIN old \subseteq UserPages
    BY <1>6, FlatOfAt
  <2>2. QED
    BY <1>1, <2>1, OutsideIsHeap
<1> HIDE DEF m, n, A, old
<1>8. \A v : v \in S <=> v \in UserPages /\ v \in A /\ View(m, cr3, v) # NoEntry
  <2>1. DOMAIN old = {w \in UserPages : View(m, cr3, w) # NoEntry}
    BY <1>6, FlatOfAt
  <2>2. QED
    BY <2>1
<1>9. ASSUME NEW v \in S
      PROVE  readonly[v] = flat_entry(Marked(View(m, cr3, v)))
  <2>1. v \in UserPages /\ View(m, cr3, v) # NoEntry
    BY <1>8
  <2>2. old[v] = flat_entry(View(m, cr3, v))
    BY <1>6, <2>1, FlatOfAt
  <2>3. flat_entry(Marked(View(m, cr3, v))) = [old[v] EXCEPT !.writable = FALSE]
    BY <2>1, <2>2, MarkedEntry
  <2>4. QED
    BY <2>3
<1>10. DOMAIN readonly = S /\ readonly = [v \in S |-> readonly[v]]
  OBVIOUS
<1> HIDE DEF S, readonly
<1>11. \A v \in UserPages : /\ View(n, root, v) = IF v \in A THEN Marked(View(m, cr3, v)) ELSE NoEntry
                            /\ \A s \in AllRoots :
                                 View(n, s, v) = IF s = cr3 /\ v \in A THEN Marked(View(m, s, v))
                                                 ELSE View(m, s, v)
  BY <1>2, UserNotKernel DEF ForkedViews
<1>12. flats'[c] = readonly
  <2>1. {w \in UserPages : View(n, root, w) # NoEntry} = S
    BY <1>8, <1>11, MarkedIs
  <2>2. \A v \in S : flat_entry(View(n, root, v)) = readonly[v]
    BY <1>8, <1>9, <1>11
  <2>3. FlatOf(n, root) = [v \in S |-> flat_entry(View(n, root, v))]
    BY <2>1 DEF FlatOf
  <2>4. QED
    BY <1>5, <1>10, <2>2, <2>3
<1>13. flats'[p] = [v \in DOMAIN old |-> IF v \in S THEN readonly[v] ELSE old[v]]
  <2>1. DOMAIN old = {w \in UserPages : View(m, cr3, w) # NoEntry}
    BY <1>6, FlatOfAt
  <2>2. {w \in UserPages : View(n, cr3, w) # NoEntry} = DOMAIN old
    BY <1>1, <1>11, <2>1, MarkedIs
  <2>3. FlatOf(n, cr3) = [v \in DOMAIN old |-> flat_entry(View(n, cr3, v))]
    BY <2>2 DEF FlatOf
  <2>4. ASSUME NEW v \in DOMAIN old
        PROVE  flat_entry(View(n, cr3, v)) = IF v \in S THEN readonly[v] ELSE old[v]
    <3>1. v \in UserPages /\ View(m, cr3, v) # NoEntry
      BY <2>1
    <3>2. old[v] = flat_entry(View(m, cr3, v))
      BY <1>6, <3>1, FlatOfAt
    <3>3. CASE v \in S
      BY <1>1, <1>8, <1>9, <1>11, <3>1, <3>3
    <3>4. CASE v \notin S
      BY <1>1, <1>8, <1>11, <3>1, <3>2, <3>4
    <3>5. QED
      BY <3>3, <3>4
  <2>5. flats'[p] = FlatOf(n, cr3)
    BY <1>1, <1>5 DEF cr3
  <2>6. QED
    BY <2>3, <2>4, <2>5
<1>14. ASSUME NEW t \in Users, t # p PROVE flats'[t] = flats[t]
  <2>1. \A v \in UserPages : View(n, task[t].cr3, v) = View(m, task[t].cr3, v)
    BY <1>5, <1>11, <1>14
  <2>2. QED
    BY <1>5, <2>1, FlatSame
<1> DEFINE N(t) == IF t = c THEN readonly
                   ELSE IF t = p THEN [v \in DOMAIN old |-> IF v \in S THEN readonly[v] ELSE old[v]]
                   ELSE flats[t]
<1>15. flats' = [t \in DOMAIN flats \cup {c} |-> N(t)]
  <2>1. \A t \in Users \cup {c} : flats'[t] = N(t)
    BY <1>1, <1>4, <1>12, <1>13, <1>14
  <2>2. flats' = [t \in Users \cup {c} |-> flats'[t]] /\ DOMAIN flats = Users
    BY <1>3, <1>4 DEF OldTables, NewTables
  <2> HIDE DEF N
  <2>3. QED
    BY <2>1, <2>2
<1>16. lasts' = {c}
  BY <1>3, <1>4 DEF NewTables
<1>17. c \in (Slots \ {IDLE}) \ DOMAIN flats /\ p \in DOMAIN flats
  BY <1>1, <1>3, <1>4 DEF OldTables
<1>18. Flat!Forked(p, c, flats, flats')
  <2>1. S \in {DOMAIN old \ outside : outside \in SUBSET {HEAP_BASE, HEAP_BASE + TABLE_SIZE}}
    BY <1>7 DEF S
  <2>2. flats' = [r \in DOMAIN flats \cup {c} |->
           CASE r = c -> readonly
             [] r = p -> [v \in DOMAIN old |-> IF v \in S THEN readonly[v] ELSE old[v]]
             [] OTHER -> flats[r]]
    <3>1. \A r : N(r) = CASE r = c -> readonly
             [] r = p -> [v \in DOMAIN old |-> IF v \in S THEN readonly[v] ELSE old[v]]
             [] OTHER -> flats[r]
      BY <1>17
    <3> HIDE DEF N
    <3>2. QED
      BY <1>15, <3>1
  <2>3. QED
    BY <2>1, <2>2 DEF Flat!Forked, readonly, old
<1>19. QED
  BY <1>16, <1>17, <1>18 DEF Flat!Step
-----------------------------------------------------------------------------
(* The boot does not halt: the pools suffice.                              *)

\* Steps that take k pages of a pool at most.
Uses(m, n, f, k) ==
  /\ Sound(n) /\ \A g \in Flags \ {f} : n.used[g] = m.used[g]
  /\ ~m.halted /\ Cardinality(m.used[f]) + k <= NUMBER[f] =>
       ~n.halted /\ Cardinality(n.used[f]) <= Cardinality(m.used[f]) + k

LEMMA IndexCount ==
  ASSUME NEW n \in Nat
  PROVE  IsFiniteSet(0 .. n - 1) /\ Cardinality(0 .. n - 1) = n
<1> DEFINE u == n - 1
<1>1. u \in Int
  OBVIOUS
<1> HIDE DEF u
<1>2. IsFiniteSet(0 .. u) /\ Cardinality(0 .. u) = IF 0 > u THEN 0 ELSE u - 0 + 1
  BY <1>1, FS_Interval
<1>3. QED
  BY <1>2 DEF u

LEMMA UsedCount ==
  ASSUME NEW m, Sound(m), NEW f \in Flags
  PROVE  /\ IsFiniteSet(m.used[f]) /\ Cardinality(m.used[f]) \in Nat /\ NUMBER[f] \in Nat
         /\ unused(m, f) = {} => Cardinality(m.used[f]) = NUMBER[f]
<1>1. m.used[f] \subseteq 0 .. NUMBER[f] - 1 /\ NUMBER[f] \in Nat
  BY NumbersAre DEF Sound
<1>2. IsFiniteSet(0 .. NUMBER[f] - 1) /\ Cardinality(0 .. NUMBER[f] - 1) = NUMBER[f]
  BY <1>1, IndexCount
<1>3. IsFiniteSet(m.used[f])
  BY <1>1, <1>2, FS_Subset
<1>4. Cardinality(m.used[f]) \in Nat
  BY <1>3, FS_CardinalityType
<1>5. unused(m, f) = {} => m.used[f] = 0 .. NUMBER[f] - 1
  BY <1>1 DEF unused
<1>6. QED
  BY <1>1, <1>2, <1>3, <1>4, <1>5

LEMMA UsesSound ==
  ASSUME NEW m, NEW n, NEW f, NEW k, Uses(m, n, f, k) PROVE Sound(n)
BY DEF Uses

LEMMA UsesThen ==
  ASSUME NEW m, Sound(m), NEW n, NEW p, NEW f \in Flags, NEW j \in Nat, NEW k \in Nat,
         Uses(m, n, f, j), Uses(n, p, f, k)
  PROVE  Uses(m, p, f, j + k)
<1>1. /\ Cardinality(m.used[f]) \in Nat /\ Cardinality(n.used[f]) \in Nat
      /\ Cardinality(p.used[f]) \in Nat /\ NUMBER[f] \in Nat
  BY UsedCount, UsesSound
<1>2. Sound(p) /\ \A g \in Flags \ {f} : p.used[g] = m.used[g]
  BY DEF Uses
<1>3. ASSUME ~m.halted, Cardinality(m.used[f]) + (j + k) <= NUMBER[f]
      PROVE  ~p.halted /\ Cardinality(p.used[f]) <= Cardinality(m.used[f]) + (j + k)
  <2>1. ~n.halted /\ Cardinality(n.used[f]) <= Cardinality(m.used[f]) + j
    BY <1>1, <1>3 DEF Uses
  <2>2. ~p.halted /\ Cardinality(p.used[f]) <= Cardinality(n.used[f]) + k
    BY <1>1, <1>3, <2>1 DEF Uses
  <2>3. QED
    BY <1>1, <2>1, <2>2
<1>4. QED
  BY <1>2, <1>3 DEF Uses

LEMMA UsesNone ==
  ASSUME NEW m, Sound(m), NEW n, Sound(n), n.halted = m.halted, n.used = m.used,
         NEW f \in Flags, NEW k \in Nat
  PROVE  Uses(m, n, f, k)
<1>1. Cardinality(m.used[f]) \in Nat
  BY UsedCount
<1>2. QED
  BY <1>1 DEF Uses

LEMMA KmallocUses ==
  ASSUME NEW m, Sound(m), NEW f \in Flags
  PROVE  Uses(m, kmalloc(m, f), f, 1)
<1> DEFINE n == kmalloc(m, f)
           x == lowest(unused(m, f))
<1>1. Takes(m, n, {f}) /\ (~n.halted => n.used[f] = m.used[f] \cup {x})
  BY KmallocIs
<1>2. Sound(n) /\ \A g \in Flags \ {f} : n.used[g] = m.used[g]
  BY <1>1 DEF Takes
<1>3. ASSUME ~m.halted, Cardinality(m.used[f]) + 1 <= NUMBER[f]
      PROVE  ~n.halted /\ Cardinality(n.used[f]) <= Cardinality(m.used[f]) + 1
  <2>1. unused(m, f) # {}
    BY <1>3, UsedCount
  <2>2. ~n.halted
    BY <1>3, <2>1, KmallocHalts
  <2>3. n.used[f] = m.used[f] \cup {x}
    BY <1>1, <2>2
  <2>4. IsFiniteSet(m.used[f]) /\ Cardinality(m.used[f]) \in Nat
    BY UsedCount
  <2> HIDE DEF n, x
  <2>5. Cardinality(m.used[f] \cup {x}) <= Cardinality(m.used[f]) + 1
    <3>1. Cardinality(m.used[f] \cup {x})
            = IF x \in m.used[f] THEN Cardinality(m.used[f]) ELSE Cardinality(m.used[f]) + 1
      BY <2>4, FS_AddElement
    <3>2. QED
      BY <2>4, <3>1
  <2>6. QED
    BY <2>2, <2>3, <2>5
<1>4. QED
  BY <1>2, <1>3 DEF Uses

LEMMA SetContentUses ==
  ASSUME NEW m, Sound(m), NEW t, NEW i, NEW e, NEW f \in Flags, NEW k \in Nat
  PROVE  Uses(m, set_content(m, t, i, e), f, k)
<1>1. Maps(m, set_content(m, t, i, e), {}) /\ set_content(m, t, i, e).halted = m.halted
      /\ set_content(m, t, i, e).used = m.used
  BY SetContentIs
<1>2. QED
  BY <1>1, MapsSound, UsesNone

LEMMA WithTableUses ==
  ASSUME NEW m, Sound(m), NEW level, NEW page, NEW flag \in Flags, NEW map
  PROVE  Uses(m, with_table(m, level, page, flag, map), flag, 1)
<1> DEFINE t == walk(m.table, m.global_PML4, page)[level]
           user == IF map = "USER_MAP" THEN {"U"} ELSE {}
           k == kmalloc(m, flag)
           e == entry(page_of(m, flag), {"P", "W"} \cup user)
           n == set_content(k, t, index(level, page), e)
<1>1. with_table(m, level, page, flag, map) = m \/ with_table(m, level, page, flag, map) = n
  BY DEF with_table
<1>2. Uses(m, k, flag, 1)
  BY KmallocUses
<1>3. Sound(k)
  BY <1>2, UsesSound
<1> HIDE DEF k, t, e
<1>4. Uses(k, n, flag, 0)
  BY <1>3, SetContentUses
<1> HIDE DEF n
<1>5. Uses(m, n, flag, 1 + 0)
  BY <1>2, <1>4, UsesThen
<1>6. Uses(m, n, flag, 1)
  BY <1>5
<1>7. QED
  BY <1>1, <1>6, UsesNone

LEMMA MapUses ==
  ASSUME NEW m, Sound(m), NEW page, NEW e, NEW flag \in Flags, NEW map
  PROVE  Uses(m, map_virmem_to_phymem(m, page, e, flag, map), flag, 3)
<1> DEFINE a == with_table(m, PML4, page, flag, map)
           b == with_table(a, PDPT, page, flag, map)
           c == with_table(b, PDT, page, flag, map)
           d == with_entry(c, page, e)
           n == self_referenced(d)
<1>1. map_virmem_to_phymem(m, page, e, flag, map) = n
  BY DEF map_virmem_to_phymem
<1>2. Uses(m, a, flag, 1) /\ Sound(a)
  BY WithTableUses, UsesSound
<1> HIDE DEF a
<1>3. Uses(a, b, flag, 1) /\ Sound(b)
  BY <1>2, WithTableUses, UsesSound
<1> HIDE DEF b
<1>4. Uses(b, c, flag, 1) /\ Sound(c)
  BY <1>3, WithTableUses, UsesSound
<1> HIDE DEF c
<1>5. Uses(c, d, flag, 0)
  BY <1>4, SetContentUses DEF with_entry
<1>6. Sound(d)
  BY <1>5, UsesSound
<1> HIDE DEF d
<1>7. Uses(d, n, flag, 0)
  BY <1>6, SetContentUses DEF self_referenced
<1> HIDE DEF n
<1>8. Uses(m, b, flag, 1 + 1) /\ Uses(c, n, flag, 0 + 0)
  BY <1>2, <1>3, <1>4, <1>5, <1>7, UsesThen
<1>9. Uses(m, c, flag, (1 + 1) + 1)
  <2>1. 1 + 1 \in Nat
    OBVIOUS
  <2>2. QED
    BY <1>4, <1>8, <2>1, UsesThen
<1>10. Uses(m, n, flag, ((1 + 1) + 1) + (0 + 0))
  <2>1. (1 + 1) + 1 \in Nat /\ 0 + 0 \in Nat
    OBVIOUS
  <2>2. QED
    BY <1>8, <1>9, <2>1, UsesThen
<1>11. ((1 + 1) + 1) + (0 + 0) = 3
  OBVIOUS
<1>12. QED
  BY <1>1, <1>10, <1>11

LEMMA KernelPartUses ==
  ASSUME NEW n, Sound(n), NEW i, NEW flag \in Flags
  PROVE  Uses(n, KernelPart(n, i, flag), flag, 3)
<1> DEFINE p == map_virmem_to_phymem(n, VIR_START + (i - 1) * TABLE_SIZE,
                  entry((i - 1) * TABLE_SIZE, {"P", "W"}), flag, "KERN_MAP")
           q == map_rest(p, (i - 1) * TABLE_SIZE)
<1>1. Uses(n, p, flag, 3)
  BY MapUses
<1> HIDE DEF p
<1>2. Sound(p)
  BY <1>1, UsesSound
<1>3. q.halted = p.halted /\ q.used = p.used
  BY <1>2, TableWritten DEF map_rest
<1>4. Sound(q)
  BY <1>2, MapRestIs, MapsSound
<1> HIDE DEF q
<1>5. Uses(p, q, flag, 0)
  BY <1>2, <1>3, <1>4, UsesNone
<1>6. Uses(n, q, flag, 3 + 0)
  BY <1>1, <1>5, UsesThen
<1>7. 3 + 0 = 3
  OBVIOUS
<1>8. QED
  BY <1>6, <1>7 DEF KernelPart, p, q

LEMMA MapKernelUses ==
  ASSUME NEW m, Sound(m), NEW flag \in Flags
  PROVE  Uses(m, map_kernel(m, flag), flag, 3 * Parts)
<1> DEFINE K == KERNEL_PAGES \div TABLE_SIZE
           F == CHOOSE f : KernelUpTo(f, m, flag, K)
<1>1. K \in Nat
  BY ConstantsAre
<1>2. map_kernel(m, flag) = F[K]
  BY Zenon DEF map_kernel, KernelUpTo, KernelItem, KernelPart
<1>3. K = Parts
  BY DEF Parts
<1> HIDE DEF K
<1>4. KernelUpTo(F, m, flag, K)
  BY <1>1, KernelExists
<1> HIDE DEF F
<1> DEFINE S == {i \in Nat : i <= K => Uses(m, F[i], flag, 3 * i)}
<1>5. 0 \in S
  <2>1. F[0] = KernelItem(F, m, flag, 0)
    BY <1>1, <1>4, KernelAt
  <2>2. F[0] = m
    BY <2>1 DEF KernelItem
  <2>3. Uses(m, m, flag, 0) /\ 3 * 0 = 0
    BY UsesNone
  <2>4. QED
    BY <2>2, <2>3
<1>6. ASSUME NEW i \in Nat, i \in S PROVE i + 1 \in S
  <2> SUFFICES ASSUME i + 1 <= K PROVE Uses(m, F[i + 1], flag, 3 * (i + 1))
    OBVIOUS
  <2>1. Uses(m, F[i], flag, 3 * i) /\ 3 * i \in Nat
    BY <1>1, <1>6
  <2>2. F[i + 1] = KernelItem(F, m, flag, i + 1)
    BY <1>1, <1>4, KernelAt
  <2>3. F[i + 1] = KernelPart(F[i], i + 1, flag)
    BY <2>2 DEF KernelItem
  <2>4. Uses(F[i], KernelPart(F[i], i + 1, flag), flag, 3)
    BY <2>1, UsesSound, KernelPartUses
  <2>5. Uses(m, F[i + 1], flag, 3 * i + 3)
    BY <2>1, <2>3, <2>4, UsesThen
  <2>6. 3 * i + 3 = 3 * (i + 1)
    OBVIOUS
  <2>7. QED
    BY <2>5, <2>6
<1>7. \A i \in Nat : i \in S
  <2> HIDE DEF S
  <2>1. QED
    BY <1>5, <1>6, SetInduction
<1>8. Uses(m, F[K], flag, 3 * K)
  BY <1>1, <1>7
<1>9. QED
  BY <1>2, <1>3, <1>8

LEMMA KmallocsUse ==
  ASSUME NEW m, Sound(m), NEW f \in Flags
  PROVE  \A k \in Nat : Uses(m, kmallocs(m, f, k), f, k)
<1> DEFINE p(k) == kmallocs(m, f, k)
           S == {k \in Nat : Uses(m, p(k), f, k)}
<1>1. \A k \in Nat : p(0) = m /\ p(k + 1) = kmalloc(p(k), f)
  BY KmallocsAre
<1> HIDE DEF p
<1>2. 0 \in S
  BY <1>1, UsesNone
<1>3. ASSUME NEW k \in Nat, k \in S PROVE k + 1 \in S
  <2>1. Uses(m, p(k), f, k)
    BY <1>3
  <2>2. Uses(p(k), p(k + 1), f, 1)
    BY <1>1, <2>1, UsesSound, KmallocUses
  <2>3. Uses(m, p(k + 1), f, k + 1)
    BY <2>1, <2>2, UsesThen
  <2>4. QED
    BY <2>3
<1>4. \A k \in Nat : k \in S
  <2> HIDE DEF S
  <2>1. QED
    BY <1>2, <1>3, SetInduction
<1>5. QED
  BY <1>4 DEF p

LEMMA UmallocUses ==
  ASSUME NEW m, Sound(m), NEW page
  PROVE  Uses(m, umalloc(m, page), "USERPT", 3)
<1> DEFINE a == take_frame(m)
           e == entry(new_frame(m), {"P", "W", "U"})
<1>1. Sound(a) /\ a.halted = m.halted /\ a.used = m.used
  BY TakeFrameIs DEF Takes
<1>2. "USERPT" \in Flags
  BY DEF Flags
<1>3. Uses(m, a, "USERPT", 0)
  BY <1>1, <1>2, UsesNone
<1> HIDE DEF a, e
<1>4. Uses(a, map_virmem_to_phymem(a, page, e, "USERPT", "USER_MAP"), "USERPT", 3)
  BY <1>1, <1>2, MapUses
<1>5. Uses(m, umalloc(m, page), "USERPT", 0 + 3)
  BY <1>2, <1>3, <1>4, UsesThen DEF umalloc, a, e
<1>6. 0 + 3 = 3
  OBVIOUS
<1>7. QED
  BY <1>5, <1>6

LEMMA NewStackUses ==
  ASSUME NEW m, Sound(m), NEW root
  PROVE  LET n == new_stack(m, root)
         IN Sound(n) /\ n.halted = m.halted /\ n.used = m.used
<1> DEFINE a == take_frame(m)
           b == self_ref_write(a, root, PT, VIR_START, entry(new_frame(m), {"P", "W", "U"}))
           c == self_ref_write(b, root, PT, STACK_TOP - 1, self_ref_read(b, root, PT, VIR_START))
           d == self_ref_write(c, root, PT, VIR_START, NoEntry)
<1>1. new_stack(m, root) = d
  BY DEF new_stack, moved_to_stack
<1>2. Sound(a) /\ a.halted = m.halted /\ a.used = m.used
  BY TakeFrameIs DEF Takes
<1>3. ASSUME NEW x, Sound(x), NEW page, NEW e
      PROVE  LET y == self_ref_write(x, root, PT, page, e)
             IN Sound(y) /\ y.halted = x.halted /\ y.used = x.used
  <2> DEFINE r == self_ref(x.table, root, PT, page)
             y == set_content(x, r[1], r[2], e)
  <2>1. Maps(x, y, {}) /\ y.halted = x.halted /\ y.used = x.used
    BY <1>3, SetContentIs
  <2>2. Sound(y)
    BY <1>3, <2>1, MapsSound
  <2>3. QED
    BY <2>1, <2>2 DEF self_ref_write
<1> HIDE DEF a
<1>4. Sound(b) /\ b.halted = a.halted /\ b.used = a.used
  BY <1>2, <1>3
<1> HIDE DEF b
<1>5. Sound(c) /\ c.halted = b.halted /\ c.used = b.used
  BY <1>3, <1>4
<1> HIDE DEF c
<1>6. Sound(d) /\ d.halted = c.halted /\ d.used = c.used
  BY <1>3, <1>5
<1> HIDE DEF d
<1>7. QED
  BY <1>1, <1>2, <1>4, <1>5, <1>6

\* A pool that nothing was taken from.
LEMMA FirstUse ==
  ASSUME NEW m, Sound(m), NEW n, NEW f \in Flags, NEW k \in Nat, Uses(m, n, f, k), ~m.halted,
         m.used[f] = {}, k <= NUMBER[f]
  PROVE  ~n.halted /\ Cardinality(n.used[f]) <= k
<1>1. Cardinality(m.used[f]) = 0
  BY FS_EmptySet
<1>2. QED
  BY <1>1 DEF Uses

\* Pages of pools that are still to be taken from.
Untouched(m, F) == ~m.halted /\ Sound(m) /\ \A f \in F : m.used[f] = {}

LEMMA StillUntouched ==
  ASSUME NEW m, NEW n, NEW F, NEW f \in Flags, F \subseteq Flags \ {f}, NEW k \in Nat,
         Untouched(m, F \cup {f}), Uses(m, n, f, k), k <= NUMBER[f]
  PROVE  Untouched(n, F) /\ Cardinality(n.used[f]) <= k
<1>1. ~n.halted /\ Cardinality(n.used[f]) <= k
  BY FirstUse DEF Untouched
<1>2. QED
  BY <1>1 DEF Uses, Untouched

LEMMA PoolsSuffice ==
  /\ \A f \in {"TASK", "KSTACK"} : 2 <= NUMBER[f]
  /\ 1 <= NUMBER["MM"] /\ 1 <= NUMBER["FILE"] /\ AREAS <= NUMBER["VMA"] /\ AREAS \in Nat
  /\ 15 <= NUMBER["USERPT"] /\ NUMBER["USERPT"] \in Nat
  /\ Parts \in Nat /\ 1 + 3 * Parts <= NUMBER["KERNPT"] /\ 1 + 3 * Parts \in Nat
<1>1. PROCESS_NUMBER \in Nat /\ PROCESS_NUMBER >= 2 /\ KERNPT_NUMBER \in Nat
  BY ConstantsAre, KernelMemoryAssumption
<1>2. /\ NUMBER["TASK"] = PROCESS_NUMBER /\ NUMBER["KSTACK"] = PROCESS_NUMBER
      /\ NUMBER["MM"] = PROCESS_NUMBER /\ NUMBER["FILE"] = PROCESS_NUMBER
      /\ NUMBER["VMA"] = PROCESS_NUMBER * 10 /\ NUMBER["USERPT"] = PROCESS_NUMBER * 10
      /\ NUMBER["KERNPT"] = KERNPT_NUMBER
  BY NumbersAre
<1>3. Parts \in Nat
  BY PartsAre
<1>4. 3 * Parts < KERNPT_NUMBER
  BY BootAssumption DEF Parts
<1>5. PROCESS_NUMBER * 10 >= 20
  BY <1>1
<1>6. QED
  BY <1>1, <1>2, <1>3, <1>4, <1>5 DEF AREAS

\* The boot, and the exec of the first program, do not stop the machine.
LEMMA BootGoesOn == ~started(booted).halted
<1> DEFINE m0 == kmalloc(Empty, "KERNPT")
           m1 == map_kernel(m0, "KERNPT")
           m2 == kmallocs(m1, "TASK", 2)
           m3 == kmallocs(m2, "KSTACK", 2)
           m4 == kmalloc(m3, "MM")
           m5 == kmallocs(m4, "VMA", AREAS)
           m6 == umalloc(m5, HEAP_BASE)
           m7 == umalloc(m6, STACK_TOP)
           m8 == umalloc(m7, STACK_TOP - 1)
           m9 == new_stack(m8, m8.global_PML4)
           a  == kmalloc(m9, "FILE")
           b  == umalloc(a, CODE)
           c  == umalloc(b, DATA)
<1>1. started(booted) = c
  BY DEF started, booted, Empty, load_elf
<1>2. Flags = {"KERNPT", "TASK", "KSTACK", "MM", "USERPT", "VMA", "FILE"}
  BY DEF Flags
<1>3. Untouched(Empty, Flags)
  BY EmptyIs DEF Untouched, Empty
<1>4. Uses(Empty, m1, "KERNPT", 1 + 3 * Parts)
  <2>1. Uses(Empty, m0, "KERNPT", 1) /\ Sound(m0)
    BY <1>2, <1>3, KmallocUses, UsesSound DEF Untouched
  <2> HIDE DEF m0
  <2>2. Uses(m0, m1, "KERNPT", 3 * Parts)
    BY <1>2, <2>1, MapKernelUses
  <2>3. 3 * Parts \in Nat
    BY PoolsSuffice
  <2>4. QED
    BY <1>2, <1>3, <2>1, <2>2, <2>3, UsesThen DEF Untouched
<1> HIDE DEF m0, m1
<1>5. Untouched(m1, {"TASK", "KSTACK", "MM", "USERPT", "VMA", "FILE"})
  <2> DEFINE F == {"TASK", "KSTACK", "MM", "USERPT", "VMA", "FILE"}
  <2>1. F \cup {"KERNPT"} = Flags /\ F \subseteq Flags \ {"KERNPT"} /\ "KERNPT" \in Flags
    BY <1>2
  <2> HIDE DEF F
  <2>2. Untouched(m1, F)
    BY <1>3, <1>4, <2>1, PoolsSuffice, StillUntouched
  <2>3. QED
    BY <2>2 DEF F
<1>6. Untouched(m2, {"KSTACK", "MM", "USERPT", "VMA", "FILE"})
  <2> DEFINE F == {"KSTACK", "MM", "USERPT", "VMA", "FILE"}
  <2>1. Untouched(m1, F \cup {"TASK"}) /\ F \subseteq Flags \ {"TASK"} /\ "TASK" \in Flags
    BY <1>2, <1>5 DEF Untouched
  <2>2. Uses(m1, m2, "TASK", 2)
    BY <1>2, <1>5, KmallocsUse DEF Untouched
  <2> HIDE DEF F, m2
  <2>3. Untouched(m2, F)
    BY <2>1, <2>2, PoolsSuffice, StillUntouched
  <2>4. QED
    BY <2>3 DEF F
<1> HIDE DEF m2
<1>7. Untouched(m3, {"MM", "USERPT", "VMA", "FILE"})
  <2> DEFINE F == {"MM", "USERPT", "VMA", "FILE"}
  <2>1. Untouched(m2, F \cup {"KSTACK"}) /\ F \subseteq Flags \ {"KSTACK"} /\ "KSTACK" \in Flags
    BY <1>2, <1>6 DEF Untouched
  <2>2. Uses(m2, m3, "KSTACK", 2)
    BY <1>2, <1>6, KmallocsUse DEF Untouched
  <2> HIDE DEF F, m3
  <2>3. Untouched(m3, F)
    BY <2>1, <2>2, PoolsSuffice, StillUntouched
  <2>4. QED
    BY <2>3 DEF F
<1> HIDE DEF m3
<1>8. Untouched(m4, {"USERPT", "VMA", "FILE"})
  <2> DEFINE F == {"USERPT", "VMA", "FILE"}
  <2>1. Untouched(m3, F \cup {"MM"}) /\ F \subseteq Flags \ {"MM"} /\ "MM" \in Flags
    BY <1>2, <1>7 DEF Untouched
  <2>2. Uses(m3, m4, "MM", 1)
    BY <1>2, <1>7, KmallocUses DEF Untouched
  <2> HIDE DEF F, m4
  <2>3. Untouched(m4, F)
    BY <2>1, <2>2, PoolsSuffice, StillUntouched
  <2>4. QED
    BY <2>3 DEF F
<1> HIDE DEF m4
<1>9. Untouched(m5, {"USERPT", "FILE"})
  <2> DEFINE F == {"USERPT", "FILE"}
  <2>1. Untouched(m4, F \cup {"VMA"}) /\ F \subseteq Flags \ {"VMA"} /\ "VMA" \in Flags
    BY <1>2, <1>8 DEF Untouched
  <2>2. Uses(m4, m5, "VMA", AREAS)
    BY <1>2, <1>8, PoolsSuffice, KmallocsUse DEF Untouched
  <2> HIDE DEF F, m5
  <2>3. Untouched(m5, F)
    BY <2>1, <2>2, PoolsSuffice, StillUntouched
  <2>4. QED
    BY <2>3 DEF F
<1> HIDE DEF m5
<1>10. Uses(m5, m8, "USERPT", 9) /\ Sound(m8)
  <2>1. Uses(m5, m6, "USERPT", 3) /\ Sound(m6) /\ Sound(m5)
    BY <1>9, UmallocUses, UsesSound DEF Untouched
  <2> HIDE DEF m6
  <2>2. Uses(m6, m7, "USERPT", 3) /\ Sound(m7)
    BY <2>1, UmallocUses, UsesSound
  <2> HIDE DEF m7
  <2>3. Uses(m7, m8, "USERPT", 3) /\ Sound(m8)
    BY <2>2, UmallocUses, UsesSound
  <2> HIDE DEF m8
  <2>4. Uses(m5, m7, "USERPT", 3 + 3)
    BY <1>2, <2>1, <2>2, UsesThen
  <2>5. Uses(m5, m8, "USERPT", (3 + 3) + 3)
    BY <1>2, <2>1, <2>3, <2>4, UsesThen
  <2>6. QED
    BY <2>3, <2>5
<1> HIDE DEF m6, m7, m8
<1>11. Untouched(m8, {"FILE"}) /\ Cardinality(m8.used["USERPT"]) <= 9
  <2> DEFINE F == {"FILE"}
  <2>1. Untouched(m5, F \cup {"USERPT"}) /\ F \subseteq Flags \ {"USERPT"} /\ "USERPT" \in Flags
    BY <1>2, <1>9 DEF Untouched
  <2>2. 9 \in Nat /\ 9 <= NUMBER["USERPT"]
    BY PoolsSuffice
  <2> HIDE DEF F
  <2>3. Untouched(m8, F) /\ Cardinality(m8.used["USERPT"]) <= 9
    BY <1>10, <2>1, <2>2, StillUntouched
  <2>4. QED
    BY <2>3 DEF F
<1>12. Untouched(m9, {"FILE"}) /\ Cardinality(m9.used["USERPT"]) <= 9
  <2>1. Sound(m9) /\ m9.halted = m8.halted /\ m9.used = m8.used
    BY <1>10, NewStackUses
  <2> HIDE DEF m9
  <2>2. QED
    BY <1>11, <2>1 DEF Untouched
<1> HIDE DEF m9
<1>13. ~a.halted /\ Sound(a) /\ Cardinality(a.used["USERPT"]) <= 9
  <2>1. Uses(m9, a, "FILE", 1)
    BY <1>2, <1>12, KmallocUses DEF Untouched
  <2> HIDE DEF a
  <2>2. ~a.halted
    BY <1>2, <1>12, <2>1, PoolsSuffice, FirstUse DEF Untouched
  <2>3. Sound(a) /\ a.used["USERPT"] = m9.used["USERPT"]
    BY <1>2, <2>1 DEF Uses
  <2>4. QED
    BY <1>12, <2>2, <2>3
<1> HIDE DEF a
<1>14. Uses(a, c, "USERPT", 6)
  <2>1. Uses(a, b, "USERPT", 3) /\ Sound(b)
    BY <1>13, UmallocUses, UsesSound
  <2> HIDE DEF b
  <2>2. Uses(b, c, "USERPT", 3)
    BY <2>1, UmallocUses
  <2> HIDE DEF c
  <2>3. Uses(a, c, "USERPT", 3 + 3)
    BY <1>2, <1>13, <2>1, <2>2, UsesThen
  <2>4. QED
    BY <2>3
<1> HIDE DEF b, c
<1>15. ~c.halted
  <2>1. Cardinality(a.used["USERPT"]) \in Nat /\ NUMBER["USERPT"] \in Nat /\ 15 <= NUMBER["USERPT"]
    BY <1>2, <1>13, UsedCount, PoolsSuffice
  <2>2. Cardinality(a.used["USERPT"]) + 6 <= NUMBER["USERPT"]
    BY <1>13, <2>1
  <2>3. QED
    BY <1>13, <1>14, <2>2 DEF Uses
<1>16. QED
  BY <1>1, <1>15
-----------------------------------------------------------------------------
(* Tables of four levels act as flat ones.                                 *)

\* After the boot init runs, with frames of its own.
LEMMA StartIsFlat ==
  ASSUME Init PROVE Flat!Init
<1>1. ~halted
  <2>1. halted = started(booted).halted
    BY DEF Init
  <2>2. QED
    BY <2>1, BootGoesOn
<1>2. /\ TablesInv /\ Boots(Memory, global_PML4, BasePages, 0)
      /\ Users = {INIT} /\ task[INIT].cr3 = global_PML4
  BY <1>1, TablesAtStart
<1> DEFINE D == BasePages
           F(v) == View(Memory, global_PML4, v)
           t == flats[INIT]
<1>3. /\ DOMAIN flats = {INIT} /\ lasts = {INIT} /\ t = FlatOf(Memory, global_PML4)
  <2>1. OldTables
    BY <1>1, <1>2, TablesOld
  <2>2. QED
    BY <1>2, <2>1 DEF OldTables
<1>4. /\ \A v \in D : F(v).to \in Memory.frames /\ F(v) = Own(F(v).to)
      /\ \A v, w \in D : F(v).to = F(w).to => v = w
      /\ \A v \in UserPages \ D : F(v) = NoEntry
      /\ D \subseteq UserPages /\ Memory.frames \subseteq Frames
  <2>1. Sound(Memory)
    BY <1>2 DEF Boots, Served, Trees
  <2>2. QED
    BY <1>2, <2>1, BasePagesAre DEF Boots, Sound
<1>5. DOMAIN t = {w \in UserPages : F(w) # NoEntry}
  BY <1>3, FlatOfAt
<1> HIDE DEF D
<1>6. DOMAIN t = D
  <2> HIDE DEF F, t
  <2>1. \A v \in D : F(v) # NoEntry
    BY <1>4, OwnIs
  <2>2. QED
    BY <1>4, <1>5, <2>1
<1>7. ASSUME NEW v \in D PROVE t[v].frame = F(v).to /\ t[v].writable
  <2>1. v \in UserPages /\ F(v) # NoEntry /\ F(v) = Own(F(v).to)
    BY <1>4, OwnIs
  <2>2. t[v] = flat_entry(F(v))
    BY <1>3, <2>1, FlatOfAt
  <2> HIDE DEF F, t
  <2>3. "W" \in F(v).bits
    BY <2>1, OwnIs
  <2>4. QED
    BY <2>2, <2>3, EntryFields
<1> HIDE DEF F, t
<1> DEFINE M == {t[v].frame : v \in D}
           f == [v \in D |-> F(v).to]
<1>8. IsFiniteSet(D)
  <2>1. D = {CODE, DATA, HEAP_BASE, STACK_TOP - 1} \cup {STACK_TOP}
    BY DEF D, BasePages
  <2>2. IsFiniteSet({CODE} \cup {DATA}) /\ IsFiniteSet({HEAP_BASE} \cup {STACK_TOP - 1})
    BY FS_Singleton, FS_Union
  <2>3. IsFiniteSet(({CODE} \cup {DATA}) \cup ({HEAP_BASE} \cup {STACK_TOP - 1}))
    BY <2>2, FS_Union
  <2>4. IsFiniteSet((({CODE} \cup {DATA}) \cup ({HEAP_BASE} \cup {STACK_TOP - 1})) \cup {STACK_TOP})
    BY <2>3, FS_Singleton, FS_Union
  <2>5. (({CODE} \cup {DATA}) \cup ({HEAP_BASE} \cup {STACK_TOP - 1})) \cup {STACK_TOP} = D
    BY <2>1
  <2>6. QED
    BY <2>4, <2>5
<1>9. M = {f[v] : v \in D} /\ M \subseteq Frames
  BY <1>4, <1>7
<1>10. Cardinality(M) = Cardinality(D)
  <2>1. f \in Surjection(D, M) /\ f \in Injection(D, M)
    <3>1. f \in [D -> M]
      BY <1>9
    <3>2. \A v, w \in D : f[v] = f[w] => v = w
      BY <1>4
    <3> HIDE DEF f, M
    <3>3. QED
      BY <1>9, <3>1, <3>2 DEF Surjection, Injection, IsInjective
  <2> HIDE DEF f, M
  <2>2. QED
    BY <1>8, <2>1, FS_Surjection
<1>11. Flat!Mapped(t) = M
  BY <1>6 DEF Flat!Mapped
<1>12. Flat!Mapped(t) \cap (KERNEL_PAGES .. PAGE_NUM - 1) = M
  BY <1>9, <1>11 DEF Frames
<1>13. INIT \in Slots \ {IDLE}
  BY ConstantsAre DEF Slots, INIT, IDLE
<1>14. /\ {CODE, DATA} \cup {STACK_TOP - 1, STACK_TOP} \subseteq DOMAIN t
       /\ DOMAIN t \subseteq ({CODE, DATA} \cup {HEAP_BASE, HEAP_BASE + TABLE_SIZE}) \cup {STACK_TOP - 1, STACK_TOP}
  BY <1>6 DEF D, BasePages
<1> HIDE DEF M
<1>15. Flat!First(flats, lasts)
  <2>1. Cardinality(Flat!Mapped(t) \cap (KERNEL_PAGES .. PAGE_NUM - 1)) = Cardinality(DOMAIN t)
    BY <1>6, <1>10, <1>12
  <2>2. \A v \in DOMAIN t : v \in Flat!Pages /\ t[v].writable
    BY <1>6, <1>7, <1>14 DEF Flat!Pages
  <2>3. \A S : Flat!Cardinality(S) = Cardinality(S)
    BY DEF Flat!Cardinality, Cardinality
  <2> DEFINE A == {CODE, DATA} \cup {STACK_TOP - 1, STACK_TOP}
             N == KERNEL_PAGES .. PAGE_NUM - 1
             P == Flat!Pages
  <2>4. A \subseteq DOMAIN t
    BY <1>14
  <2> HIDE DEF A, N, P
  <2>5. QED
    BY <1>3, <1>13, <2>1, <2>2, <2>3, <2>4 DEF Flat!First, t, A, N, P
<1>16. QED
  BY <1>15 DEF Flat!Init, flats, lasts

LEMMA StepIsFlat ==
  ASSUME PoolInv, TablesInv, [Next]_vars
  PROVE  Flat!Step(flats, flats', lasts, lasts') \/ (flats' = flats /\ lasts' = lasts)
<1>1. CASE UNCHANGED vars
  <2>1. halted' = halted /\ table' = table /\ task' = task /\ global_PML4' = global_PML4
        /\ Users' = Users
    BY <1>1 DEF vars, Users, Tasks
  <2>2. flats' = flats /\ lasts' = lasts
    BY <2>1, FlatTableIs DEF lasts
  <2>3. QED
    BY <2>2
<1>2. CASE Next /\ halted'
  BY <1>2, HaltIsRemoved
<1>3. CASE Next /\ ~halted'
  <2>1. ~halted
    BY <1>3 DEF Next, do_fork, do_execv, do_execv_fails, do_exit, schedule, do_sbrk,
                demand_paging, copy_on_write, do_kill, do_ps, calls, allocates
  <2>2. CASE do_fork
    BY <1>3, <2>1, <2>2, ForkIsFlat
  <2>3. CASE do_execv
    BY <1>3, <2>1, <2>3, ExecIsFlat
  <2>4. CASE do_execv_fails
    BY <2>1, <2>4, ExecFailsIsFlat
  <2>5. CASE do_exit
    BY <2>1, <2>5, ExitTables, QuietIsRemoved
  <2>6. CASE schedule
    BY <2>1, <2>6, ScheduleTables, QuietIsRemoved
  <2>7. CASE \E n \in INCREMENTS : do_sbrk(n)
    BY <2>1, <2>7, SbrkTables, QuietIsRemoved
  <2>8. CASE \E page \in accessible : demand_paging(page)
    BY <2>1, <2>8, DemandIsFlat
  <2>9. CASE \E page \in accessible, b \in BOOLEAN : copy_on_write(page, b)
    BY <2>1, <2>9, CopyIsFlat
  <2>10. CASE \E t \in Users : do_kill(t)
    BY <2>1, <2>10, KillTables, QuietIsRemoved
  <2>11. CASE \E dead \in SUBSET Ended : do_ps(dead)
    BY <2>1, <2>11, PsTables, QuietIsRemoved
  <2>12. QED
    BY <1>3, <2>2, <2>3, <2>4, <2>5, <2>6, <2>7, <2>8, <2>9, <2>10, <2>11 DEF Next
<1>4. QED
  BY <1>1, <1>2, <1>3

\* Tables of four levels, which fork, exec and faults change through
\* map_virmem_to_phymem and through addresses in the tables themselves, give
\* each process one flat table, and no step changes that of another: for any
\* sizes of tables, pools and memories.
THEOREM TablesActFlat == Spec => HasFlatTables
<1>1. Init => Flat!Init
  BY StartIsFlat
<1>2. PoolInv /\ TablesInv /\ [Next]_vars => [Flat!Next]_<<flats, lasts>>
  <2> SUFFICES ASSUME PoolInv, TablesInv, [Next]_vars
               PROVE  [Flat!Next]_<<flats, lasts>>
    OBVIOUS
  <2>1. CASE Flat!Step(flats, flats', lasts, lasts')
    BY <2>1 DEF Flat!Next, flats, lasts
  <2>2. CASE flats' = flats /\ lasts' = lasts
    BY <2>2
  <2>3. QED
    BY <2>1, <2>2, StepIsFlat
<1>3. QED
  BY <1>1, <1>2, TablesAlways, PTL DEF Spec, HasFlatTables, Flat!Spec, flats, lasts
=============================================================================
