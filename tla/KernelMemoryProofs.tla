------------------------- MODULE KernelMemoryProofs -------------------------
(***************************************************************************)
(* Proofs about the pools of KernelMemory, for all sizes of pools, tables  *)
(* and memories: which pages are taken, by which tasks, through any        *)
(* sequence of calls.                                                      *)
(***************************************************************************)
EXTENDS KernelMemory, SequenceLemmas

MemFields == {"used", "table", "frames", "global_PML4", "halted"}

Frames     == KERNEL_PAGES .. PAGE_NUM - 1
TablePages == Pools \cup Frames

\* A memory that the steps of a call work on.
Sound(m) ==
  /\ DOMAIN m = MemFields
  /\ m.used \in [Flags -> SUBSET Nat]
  /\ \A f \in Flags : m.used[f] \subseteq 0 .. NUMBER[f] - 1
  /\ DOMAIN m.table \subseteq TablePages
  /\ m.frames \subseteq Frames
  /\ m.halted \in BOOLEAN

\* What steps that take pages of the pools F only make of a memory.
Takes(m, n, F) ==
  /\ Sound(n)
  /\ m.halted => n.halted
  /\ \A f \in Flags : f \notin F => n.used[f] = m.used[f]
  /\ DOMAIN m.table \subseteq DOMAIN n.table

\* So do two of them after each other,
LEMMA TakesThen ==
  ASSUME NEW m, NEW n, NEW p, NEW F, Takes(m, n, F), Takes(n, p, F)
  PROVE  Takes(m, p, F)
BY DEF Takes

\* and none, and those that take from fewer pools.
LEMMA TakesNone ==
  ASSUME NEW m, Sound(m), NEW F PROVE Takes(m, m, F)
BY DEF Takes

LEMMA TakesMore ==
  ASSUME NEW m, NEW n, NEW F, NEW G, F \subseteq G, Takes(m, n, F)
  PROVE  Takes(m, n, G)
BY DEF Takes
-----------------------------------------------------------------------------
(* Pools.                                                                  *)

LEMMA ConstantsAre ==
  /\ TABLE_SIZE \in Nat /\ KERNPT_NUMBER \in Nat /\ PROCESS_NUMBER \in Nat
  /\ KMALLOC_BASE \in Nat /\ KERNEL_PAGES \in Nat /\ PAGE_NUM \in Nat
  /\ TABLE_SIZE >= 8 /\ PROCESS_NUMBER >= 2 /\ KERNPT_NUMBER > 0
  /\ 0 < KMALLOC_BASE /\ KERNEL_PAGES <= PAGE_NUM
  /\ KMALLOC_BASE + KERNPT_NUMBER + PROCESS_NUMBER * 24 <= KERNEL_PAGES
BY KernelMemoryAssumption

LEMMA NumbersAre ==
  /\ NUMBER["KERNPT"] = KERNPT_NUMBER
  /\ NUMBER["USERPT"] = PROCESS_NUMBER * 10 /\ NUMBER["VMA"] = PROCESS_NUMBER * 10
  /\ NUMBER["TASK"] = PROCESS_NUMBER /\ NUMBER["KSTACK"] = PROCESS_NUMBER
  /\ NUMBER["MM"] = PROCESS_NUMBER /\ NUMBER["FILE"] = PROCESS_NUMBER
  /\ \A f \in Flags : NUMBER[f] \in Nat
<1>1. /\ NUMBER["KERNPT"] = KERNPT_NUMBER
      /\ NUMBER["USERPT"] = PROCESS_NUMBER * 10 /\ NUMBER["VMA"] = PROCESS_NUMBER * 10
      /\ NUMBER["TASK"] = PROCESS_NUMBER /\ NUMBER["KSTACK"] = PROCESS_NUMBER
      /\ NUMBER["MM"] = PROCESS_NUMBER /\ NUMBER["FILE"] = PROCESS_NUMBER
  BY DEF NUMBER, Flags
<1>2. PROCESS_NUMBER * 10 \in Nat
  BY ConstantsAre
<1>3. QED
  BY <1>1, <1>2, ConstantsAre DEF Flags

LEMMA BasesAre ==
  /\ get_base["KERNPT"] = KMALLOC_BASE
  /\ get_base["TASK"] = get_base["KERNPT"] + NUMBER["KERNPT"]
  /\ get_base["KSTACK"] = get_base["TASK"] + NUMBER["TASK"]
  /\ get_base["MM"] = get_base["KSTACK"] + NUMBER["KSTACK"]
  /\ get_base["USERPT"] = get_base["MM"] + NUMBER["MM"]
  /\ get_base["VMA"] = get_base["USERPT"] + NUMBER["USERPT"]
  /\ get_base["FILE"] = get_base["VMA"] + NUMBER["VMA"]
  /\ \A f \in Flags : get_base[f] \in Nat
  /\ get_base["FILE"] + NUMBER["FILE"] <= KERNEL_PAGES
<1>1. /\ get_base["KERNPT"] = KMALLOC_BASE
      /\ get_base["TASK"] = get_base["KERNPT"] + NUMBER["KERNPT"]
      /\ get_base["KSTACK"] = get_base["TASK"] + NUMBER["TASK"]
      /\ get_base["MM"] = get_base["KSTACK"] + NUMBER["KSTACK"]
      /\ get_base["USERPT"] = get_base["MM"] + NUMBER["MM"]
      /\ get_base["VMA"] = get_base["USERPT"] + NUMBER["USERPT"]
      /\ get_base["FILE"] = get_base["VMA"] + NUMBER["VMA"]
  BY DEF get_base
<1>2. \A f \in Flags : get_base[f] \in Nat
  BY <1>1, NumbersAre, ConstantsAre DEF Flags
<1>3. get_base["FILE"] + NUMBER["FILE"] = KMALLOC_BASE + KERNPT_NUMBER + PROCESS_NUMBER * 24
  BY <1>1, NumbersAre, ConstantsAre
<1>4. QED
  BY <1>1, <1>2, <1>3, ConstantsAre

\* A page of a pool is one of the pools'.
LEMMA PagesAre ==
  ASSUME NEW f \in Flags, NEW i \in 0 .. NUMBER[f] - 1
  PROVE  get_base[f] + i \in Pools
<1>1. Pools = get_base["KERNPT"] .. get_base["FILE"] + NUMBER["FILE"] - 1
  BY NumbersAre DEF Pools
<1>2. \A g \in Flags : get_base[g] \in Nat /\ NUMBER[g] \in Nat
  BY BasesAre, NumbersAre
<1>3. /\ get_base["KERNPT"] <= get_base[f]
      /\ get_base[f] + NUMBER[f] <= get_base["FILE"] + NUMBER["FILE"]
  BY <1>2, BasesAre DEF Flags
<1>4. /\ get_base[f] \in Nat /\ NUMBER[f] \in Nat /\ get_base["KERNPT"] \in Nat
      /\ get_base["FILE"] \in Nat /\ NUMBER["FILE"] \in Nat
  BY <1>2 DEF Flags
<1>5. ASSUME NEW a \in Nat, NEW b \in Nat, NEW n \in Nat, NEW e \in Nat, NEW k \in Nat,
             a <= b, b + n <= e + k, NEW j \in 0 .. n - 1
      PROVE  b + j \in a .. e + k - 1
  BY <1>5
<1>6. QED
  BY <1>1, <1>3, <1>4, <1>5

LEMMA LowestIs ==
  ASSUME NEW S \in SUBSET Nat, S # {}
  PROVE  lowest(S) \in S /\ \A y \in S : lowest(S) <= y
<1>1. \E x \in S : \A y \in S : x <= y
  BY NatMin
<1>2. QED
  BY <1>1 DEF lowest

LEMMA LowestOf ==
  ASSUME NEW S \in SUBSET Nat, NEW x \in S, \A y \in S : x <= y
  PROVE  lowest(S) = x
<1>1. lowest(S) \in S /\ lowest(S) <= x /\ x <= lowest(S)
  BY LowestIs
<1>2. lowest(S) \in Nat /\ x \in Nat
  BY <1>1
<1>3. QED
  BY <1>1, <1>2

\* The page that kmalloc gives is one that was not taken.
LEMMA KmallocIs ==
  ASSUME NEW m, Sound(m), NEW f \in Flags
  PROVE  LET n == kmalloc(m, f)
         IN /\ Takes(m, n, {f}) /\ n.global_PML4 = m.global_PML4
            /\ n.frames = m.frames
            /\ ~n.halted =>
                 /\ ~m.halted /\ unused(m, f) # {}
                 /\ lowest(unused(m, f)) \in 0 .. NUMBER[f] - 1
                 /\ lowest(unused(m, f)) \notin m.used[f]
                 /\ n.used[f] = m.used[f] \cup {lowest(unused(m, f))}
                 /\ f \in {"KERNPT", "USERPT"} => page_of(m, f) \in DOMAIN n.table
<1> DEFINE x == lowest(unused(m, f))
<1>1. /\ DOMAIN m = MemFields /\ m.used \in [Flags -> SUBSET Nat]
      /\ \A g \in Flags : m.used[g] \subseteq 0 .. NUMBER[g] - 1
      /\ DOMAIN m.table \subseteq TablePages /\ m.frames \subseteq Frames
      /\ m.halted \in BOOLEAN
  BY DEF Sound
<1>2. CASE m.halted \/ unused(m, f) = {}
  <2> DEFINE n == [m EXCEPT !.halted = TRUE]
  <2>1. kmalloc(m, f) = n
    BY <1>2 DEF kmalloc
  <2>2. /\ DOMAIN n = MemFields /\ n.used = m.used /\ n.table = m.table
        /\ n.frames = m.frames /\ n.global_PML4 = m.global_PML4 /\ n.halted = TRUE
    BY <1>1 DEF MemFields
  <2> HIDE DEF n
  <2>3. QED
    BY <1>1, <2>1, <2>2 DEF Sound, Takes
<1>3. CASE ~m.halted /\ unused(m, f) # {}
  <2>1. NUMBER[f] \in Nat
    BY NumbersAre
  <2>2. x \in unused(m, f)
    <3>1. unused(m, f) \in SUBSET Nat
      BY <2>1 DEF unused
    <3>2. QED
      BY <1>3, <3>1, LowestIs
  <2>3. x \in 0 .. NUMBER[f] - 1 /\ x \notin m.used[f] /\ x \in Nat
    BY <2>1, <2>2 DEF unused
  <2> HIDE DEF x
  <2> DEFINE n == [m EXCEPT !.used[f] = @ \cup {x}]
  <2>4. /\ DOMAIN n = MemFields /\ n.table = m.table
        /\ n.frames = m.frames /\ n.global_PML4 = m.global_PML4 /\ n.halted = m.halted
        /\ n.used = [m.used EXCEPT ![f] = @ \cup {x}]
    BY <1>1 DEF MemFields
  <2>5. marked(m, f) = n
    BY DEF marked, x
  <2> HIDE DEF n
  <2>6. /\ n.used \in [Flags -> SUBSET Nat] /\ n.used[f] = m.used[f] \cup {x}
        /\ \A g \in Flags : g # f => n.used[g] = m.used[g]
    BY <1>1, <2>3, <2>4
  <2>7. \A g \in Flags : n.used[g] \subseteq 0 .. NUMBER[g] - 1
    BY <1>1, <2>3, <2>6
  <2>8. CASE f \notin {"KERNPT", "USERPT"}
    <3>1. kmalloc(m, f) = n
      BY <1>3, <2>5, <2>8 DEF kmalloc
    <3>2. QED
      BY <1>1, <1>3, <2>3, <2>4, <2>6, <2>7, <2>8, <3>1 DEF Sound, Takes, x
  <2>9. CASE f \in {"KERNPT", "USERPT"}
    <3> DEFINE tables == put(n.table, page_of(m, f), <<>>)
               p == [n EXCEPT !.table = tables]
    <3>1. kmalloc(m, f) = p
      BY <1>3, <2>5, <2>9 DEF kmalloc
    <3>2. page_of(m, f) \in Pools
      BY <2>3, PagesAre DEF page_of, x
    <3>3. DOMAIN tables = {page_of(m, f)} \cup DOMAIN m.table
      BY <2>4 DEF put
    <3> HIDE DEF tables
    <3>4. /\ DOMAIN p = MemFields /\ p.used = n.used /\ p.table = tables
          /\ p.frames = n.frames /\ p.global_PML4 = n.global_PML4 /\ p.halted = n.halted
      BY <2>4 DEF MemFields
    <3> HIDE DEF p
    <3>5. Sound(p) /\ Takes(m, p, {f})
      BY <1>1, <2>4, <2>6, <2>7, <3>2, <3>3, <3>4 DEF Sound, Takes, TablePages
    <3>6. QED
      BY <1>3, <2>3, <2>4, <2>6, <3>1, <3>3, <3>4, <3>5 DEF x
  <2>10. QED
    BY <2>8, <2>9
<1>4. QED
  BY <1>1, <1>2, <1>3
-----------------------------------------------------------------------------
(* Page tables.                                                            *)

\* Steps that take no frame either, and leave the table in global_PML4.
Maps(m, n, F) ==
  Takes(m, n, F) /\ n.frames = m.frames /\ n.global_PML4 = m.global_PML4

LEMMA MapsThen ==
  ASSUME NEW m, NEW n, NEW p, NEW F, Maps(m, n, F), Maps(n, p, F)
  PROVE  Maps(m, p, F)
BY TakesThen DEF Maps

LEMMA MapsNone ==
  ASSUME NEW m, Sound(m), NEW F PROVE Maps(m, m, F)
BY TakesNone DEF Maps

LEMMA MapsMore ==
  ASSUME NEW m, NEW n, NEW F, NEW G, F \subseteq G, Maps(m, n, F)
  PROVE  Maps(m, n, G)
BY TakesMore DEF Maps

LEMMA MapsSound ==
  ASSUME NEW m, NEW n, NEW F, Maps(m, n, F)
  PROVE  Sound(n) /\ Takes(m, n, F) /\ n.frames = m.frames /\ n.global_PML4 = m.global_PML4
BY DEF Maps, Takes

\* A table that is written to takes nothing.
LEMMA TableWritten ==
  ASSUME NEW m, Sound(m), NEW t, NEW c, NEW F
  PROVE  LET n == [m EXCEPT !.table[t] = c]
         IN /\ Maps(m, n, F) /\ n.halted = m.halted /\ n.used = m.used
            /\ DOMAIN n.table = DOMAIN m.table
<1> DEFINE n == [m EXCEPT !.table[t] = c]
<1>1. /\ DOMAIN m = MemFields /\ m.used \in [Flags -> SUBSET Nat]
      /\ \A g \in Flags : m.used[g] \subseteq 0 .. NUMBER[g] - 1
      /\ DOMAIN m.table \subseteq TablePages /\ m.frames \subseteq Frames
      /\ m.halted \in BOOLEAN
  BY DEF Sound
<1>2. /\ DOMAIN n = MemFields /\ n.used = m.used /\ n.frames = m.frames
      /\ n.global_PML4 = m.global_PML4 /\ n.halted = m.halted
      /\ n.table = [m.table EXCEPT ![t] = c]
  BY <1>1 DEF MemFields
<1>3. DOMAIN n.table = DOMAIN m.table
  BY <1>2
<1> HIDE DEF n
<1>4. QED
  BY <1>1, <1>2, <1>3 DEF Sound, Takes, Maps, n

LEMMA SetContentIs ==
  ASSUME NEW m, Sound(m), NEW t, NEW i, NEW e, NEW F
  PROVE  LET n == set_content(m, t, i, e)
         IN Maps(m, n, F) /\ n.halted = m.halted /\ n.used = m.used
<1>1. CASE m.halted
  BY <1>1, MapsNone DEF set_content
<1>2. CASE ~m.halted
  <2> DEFINE c == IF e = NoEntry THEN [j \in DOMAIN m.table[t] \ {i} |-> m.table[t][j]]
                  ELSE put(m.table[t], i, e)
             n == set_content(m, t, i, e)
             q == [m EXCEPT !.table[t] = c]
  <2>1. n = [m EXCEPT !.table[t] = IF e = NoEntry THEN [j \in DOMAIN @ \ {i} |-> @[j]]
                                   ELSE put(@, i, e)]
    BY <1>2 DEF set_content
  <2>2. m.table = m.table /\ DOMAIN m = MemFields
    BY DEF Sound
  <2>3. n = [m EXCEPT !.table = [m.table EXCEPT ![t] = c]]
    BY <2>1
  <2>4. q = [m EXCEPT !.table = [m.table EXCEPT ![t] = c]]
    OBVIOUS
  <2> HIDE DEF c, n
  <2>5. Maps(m, q, F) /\ q.halted = m.halted /\ q.used = m.used
    BY TableWritten
  <2>6. n = q
    BY <2>3, <2>4
  <2> HIDE DEF q
  <2>7. QED
    BY <2>5, <2>6 DEF n
<1>3. QED
  BY <1>1, <1>2

LEMMA WithTableIs ==
  ASSUME NEW m, Sound(m), NEW level, NEW page, NEW flag \in Flags, NEW map
  PROVE  Maps(m, with_table(m, level, page, flag, map), {flag})
<1> DEFINE t == walk(m.table, m.global_PML4, page)[level]
           user == IF map = "USER_MAP" THEN {"U"} ELSE {}
           k == kmalloc(m, flag)
           e == entry(page_of(m, flag), {"P", "W"} \cup user)
           n == set_content(k, t, index(level, page), e)
<1>1. with_table(m, level, page, flag, map) = m \/ with_table(m, level, page, flag, map) = n
  BY DEF with_table
<1>2. Maps(m, k, {flag})
  BY KmallocIs DEF Maps
<1>3. Sound(k)
  BY <1>2, MapsSound
<1> HIDE DEF k, t, e
<1>4. Maps(k, n, {flag})
  BY <1>3, SetContentIs
<1> HIDE DEF n
<1>5. Maps(m, n, {flag})
  BY <1>2, <1>4, MapsThen
<1>6. QED
  BY <1>1, <1>5, MapsNone

\* map_virmem_to_phymem takes pages for tables only.
LEMMA MapIs ==
  ASSUME NEW m, Sound(m), NEW page, NEW e, NEW flag \in Flags, NEW map
  PROVE  Maps(m, map_virmem_to_phymem(m, page, e, flag, map), {flag})
<1> DEFINE a == with_table(m, PML4, page, flag, map)
           b == with_table(a, PDPT, page, flag, map)
           c == with_table(b, PDT, page, flag, map)
           d == with_entry(c, page, e)
           n == self_referenced(d)
<1>1. map_virmem_to_phymem(m, page, e, flag, map) = n
  BY DEF map_virmem_to_phymem
<1>2. Maps(m, a, {flag})
  BY WithTableIs
<1> HIDE DEF a
<1>3. Sound(a)
  BY <1>2, MapsSound
<1>4. Maps(a, b, {flag})
  BY <1>3, WithTableIs
<1> HIDE DEF b
<1>5. Sound(b)
  BY <1>4, MapsSound
<1>6. Maps(b, c, {flag})
  BY <1>5, WithTableIs
<1> HIDE DEF c
<1>7. Sound(c)
  BY <1>6, MapsSound
<1>8. Maps(c, d, {flag})
  BY <1>7, SetContentIs DEF with_entry
<1> HIDE DEF d
<1>9. Sound(d)
  BY <1>8, MapsSound
<1>10. Maps(d, n, {flag})
  BY <1>9, SetContentIs DEF self_referenced
<1> HIDE DEF n
<1>11. Maps(m, b, {flag})
  BY <1>2, <1>4, MapsThen
<1>12. Maps(m, c, {flag})
  BY <1>11, <1>6, MapsThen
<1>13. Maps(m, d, {flag})
  BY <1>12, <1>8, MapsThen
<1>14. Maps(m, n, {flag})
  BY <1>13, <1>10, MapsThen
<1>15. QED
  BY <1>1, <1>14

LEMMA MapRestIs ==
  ASSUME NEW m, Sound(m), NEW first, NEW F
  PROVE  Maps(m, map_rest(m, first), F)
BY MapsNone, TableWritten DEF map_rest

\* One table of the kernel's memory.
KernelPart(n, i, flag) ==
  map_rest(map_virmem_to_phymem(n, VIR_START + (i - 1) * TABLE_SIZE,
             entry((i - 1) * TABLE_SIZE, {"P", "W"}), flag, "KERN_MAP"),
           (i - 1) * TABLE_SIZE)

LEMMA KernelPartIs ==
  ASSUME NEW n, Sound(n), NEW i, NEW flag \in Flags
  PROVE  Maps(n, KernelPart(n, i, flag), {flag})
<1> DEFINE p == map_virmem_to_phymem(n, VIR_START + (i - 1) * TABLE_SIZE,
                  entry((i - 1) * TABLE_SIZE, {"P", "W"}), flag, "KERN_MAP")
<1>1. Maps(n, p, {flag})
  BY MapIs
<1> HIDE DEF p
<1>2. Sound(p)
  BY <1>1, MapsSound
<1>3. Maps(p, map_rest(p, (i - 1) * TABLE_SIZE), {flag})
  BY <1>2, MapRestIs
<1>4. QED
  BY <1>1, <1>3, MapsThen DEF KernelPart, p

\* What map_kernel recurs on, up to its k-th table.
KernelItem(f, m, flag, i) == IF i = 0 THEN m ELSE KernelPart(f[i - 1], i, flag)

KernelUpTo(f, m, flag, k) == f = [i \in 0 .. k |-> KernelItem(f, m, flag, i)]

LEMMA KernelAt ==
  ASSUME NEW f, NEW m, NEW flag, NEW k \in Nat, KernelUpTo(f, m, flag, k),
         NEW i \in 0 .. k
  PROVE  f[i] = KernelItem(f, m, flag, i)
BY DEF KernelUpTo

LEMMA KernelExists ==
  ASSUME NEW m, NEW flag
  PROVE  \A k \in Nat : \E f : KernelUpTo(f, m, flag, k)
<1> DEFINE S == {k \in Nat : \E f : KernelUpTo(f, m, flag, k)}
<1>1. 0 \in S
  <2> DEFINE g == [i \in 0 .. 0 |-> m]
  <2>1. \A i \in 0 .. 0 : KernelItem(g, m, flag, i) = m
    BY DEF KernelItem
  <2> HIDE DEF g
  <2>2. g = [i \in 0 .. 0 |-> KernelItem(g, m, flag, i)]
    BY <2>1 DEF g
  <2>3. QED
    BY <2>2 DEF KernelUpTo
<1>2. ASSUME NEW k \in Nat, k \in S PROVE k + 1 \in S
  <2>1. PICK f : KernelUpTo(f, m, flag, k)
    BY <1>2
  <2> DEFINE last == KernelItem(f, m, flag, k + 1)
             g    == [i \in 0 .. k + 1 |-> IF i = k + 1 THEN last ELSE f[i]]
  <2>2. ASSUME NEW i \in 0 .. k + 1 PROVE g[i] = KernelItem(g, m, flag, i)
    <3>1. i # 0 => g[i - 1] = f[i - 1]
      OBVIOUS
    <3>2. KernelItem(g, m, flag, i) = KernelItem(f, m, flag, i)
      BY <3>1 DEF KernelItem
    <3>3. CASE i = k + 1
      BY <3>2, <3>3
    <3>4. CASE i # k + 1
      <4>1. i \in 0 .. k
        BY <3>4
      <4>2. f[i] = KernelItem(f, m, flag, i)
        BY <4>1, <2>1, KernelAt
      <4>3. QED
        BY <4>2, <3>2, <3>4
    <3>5. QED
      BY <3>3, <3>4
  <2>3. KernelUpTo(g, m, flag, k + 1)
    <3> HIDE DEF last
    <3>1. QED
      BY <2>2 DEF KernelUpTo
  <2>4. QED
    BY <2>3
<1>3. \A k \in Nat : k \in S
  <2> HIDE DEF S
  <2>1. QED
    BY <1>1, <1>2, SetInduction
<1>4. QED
  BY <1>3

\* The kernel's memory is mapped with pages of one pool.
LEMMA MapKernelIs ==
  ASSUME NEW m, Sound(m), NEW flag \in Flags
  PROVE  Maps(m, map_kernel(m, flag), {flag})
<1> DEFINE K == KERNEL_PAGES \div TABLE_SIZE
           F == CHOOSE f : KernelUpTo(f, m, flag, K)
<1>1. K \in Nat
  BY ConstantsAre
<1>2. map_kernel(m, flag) = F[K]
  BY Zenon DEF map_kernel, KernelUpTo, KernelItem, KernelPart
<1> HIDE DEF K
<1>3. KernelUpTo(F, m, flag, K)
  BY <1>1, KernelExists
<1> HIDE DEF F
<1> DEFINE S == {i \in Nat : i <= K => Maps(m, F[i], {flag})}
<1>4. 0 \in S
  <2>1. F[0] = KernelItem(F, m, flag, 0)
    BY <1>1, <1>3, KernelAt
  <2>2. F[0] = m
    BY <2>1 DEF KernelItem
  <2>3. QED
    BY <2>2, MapsNone
<1>5. ASSUME NEW i \in Nat, i \in S PROVE i + 1 \in S
  <2> SUFFICES ASSUME i + 1 <= K PROVE Maps(m, F[i + 1], {flag})
    OBVIOUS
  <2>1. Maps(m, F[i], {flag})
    BY <1>1, <1>5
  <2>2. F[i + 1] = KernelItem(F, m, flag, i + 1)
    BY <1>1, <1>3, KernelAt
  <2>3. F[i + 1] = KernelPart(F[i], i + 1, flag)
    BY <2>2 DEF KernelItem
  <2>4. Maps(F[i], KernelPart(F[i], i + 1, flag), {flag})
    BY <2>1, MapsSound, KernelPartIs
  <2>5. QED
    BY <2>1, <2>3, <2>4, MapsThen
<1>6. \A i \in Nat : i \in S
  <2> HIDE DEF S
  <2>1. QED
    BY <1>4, <1>5, SetInduction
<1>7. Maps(m, F[K], {flag})
  BY <1>1, <1>6
<1>8. QED
  BY <1>2, <1>7
-----------------------------------------------------------------------------
(* Frames, and the calls that map them.                                    *)

LEMMA NewFrameIs ==
  ASSUME NEW m, free_frames(m) # {}
  PROVE  new_frame(m) \in Frames /\ new_frame(m) \notin m.frames /\ new_frame(m) # 0
<1>1. free_frames(m) \in SUBSET Nat
  BY ConstantsAre DEF free_frames
<1>2. new_frame(m) \in free_frames(m)
  BY <1>1, LowestIs DEF new_frame
<1>3. 0 \notin Frames
  BY ConstantsAre DEF Frames
<1>4. QED
  BY <1>2, <1>3 DEF free_frames, Frames

LEMMA TakeFrameIs ==
  ASSUME NEW m, Sound(m)
  PROVE  LET n == take_frame(m)
         IN /\ Takes(m, n, {}) /\ n.global_PML4 = m.global_PML4
            /\ n.table = m.table /\ n.used = m.used /\ n.halted = m.halted
            /\ n.frames \subseteq m.frames \cup {new_frame(m)}
<1> DEFINE n == take_frame(m)
           fs == IF m.halted THEN m.frames ELSE m.frames \cup ({new_frame(m)} \ {0})
<1>1. /\ DOMAIN m = MemFields /\ m.used \in [Flags -> SUBSET Nat]
      /\ \A g \in Flags : m.used[g] \subseteq 0 .. NUMBER[g] - 1
      /\ DOMAIN m.table \subseteq TablePages /\ m.frames \subseteq Frames
      /\ m.halted \in BOOLEAN
  BY DEF Sound
<1>2. n = [m EXCEPT !.frames = fs]
  BY DEF take_frame
<1>3. fs \subseteq Frames /\ fs \subseteq m.frames \cup {new_frame(m)}
  <2>1. new_frame(m) = 0 \/ new_frame(m) \in Frames
    BY NewFrameIs DEF new_frame
  <2>2. QED
    BY <1>1, <2>1
<1> HIDE DEF fs, n
<1>4. /\ DOMAIN n = MemFields /\ n.used = m.used /\ n.frames = fs
      /\ n.global_PML4 = m.global_PML4 /\ n.halted = m.halted /\ n.table = m.table
  BY <1>1, <1>2 DEF MemFields
<1>5. QED
  BY <1>1, <1>3, <1>4 DEF Sound, Takes, n

LEMMA UmallocIs ==
  ASSUME NEW m, Sound(m), NEW page
  PROVE  LET n == umalloc(m, page)
         IN Takes(m, n, {"USERPT"}) /\ n.global_PML4 = m.global_PML4
<1> DEFINE a == take_frame(m)
           e == entry(new_frame(m), {"P", "W", "U"})
           n == map_virmem_to_phymem(a, page, e, "USERPT", "USER_MAP")
<1>1. umalloc(m, page) = n
  BY DEF umalloc
<1>2. Takes(m, a, {}) /\ a.global_PML4 = m.global_PML4
  BY TakeFrameIs
<1> HIDE DEF a, e
<1>3. Sound(a)
  BY <1>2 DEF Takes
<1>4. Maps(a, n, {"USERPT"})
  BY <1>3, MapIs DEF Flags
<1> HIDE DEF n
<1>5. Takes(a, n, {"USERPT"}) /\ n.global_PML4 = a.global_PML4
  BY <1>4, MapsSound
<1>6. Takes(m, a, {"USERPT"})
  BY <1>2, TakesMore
<1>7. QED
  BY <1>1, <1>2, <1>5, <1>6, TakesThen

LEMMA SelfRefWriteIs ==
  ASSUME NEW m, Sound(m), NEW root, NEW level, NEW page, NEW e, NEW F
  PROVE  LET n == self_ref_write(m, root, level, page, e)
         IN Maps(m, n, F) /\ n.halted = m.halted /\ n.used = m.used
BY SetContentIs DEF self_ref_write

LEMMA NewStackIs ==
  ASSUME NEW m, Sound(m), NEW root
  PROVE  LET n == new_stack(m, root)
         IN Takes(m, n, {}) /\ n.global_PML4 = m.global_PML4
<1> DEFINE a == take_frame(m)
           b == self_ref_write(a, root, PT, VIR_START, entry(new_frame(m), {"P", "W", "U"}))
           c == self_ref_write(b, root, PT, STACK_TOP - 1, self_ref_read(b, root, PT, VIR_START))
           d == self_ref_write(c, root, PT, VIR_START, NoEntry)
<1>1. new_stack(m, root) = d
  BY DEF new_stack, moved_to_stack
<1>2. Takes(m, a, {}) /\ a.global_PML4 = m.global_PML4
  BY TakeFrameIs
<1> HIDE DEF a
<1>3. Sound(a)
  BY <1>2 DEF Takes
<1>4. Maps(a, b, {})
  BY <1>3, SelfRefWriteIs
<1> HIDE DEF b
<1>5. Maps(b, c, {})
  BY <1>4, MapsSound, SelfRefWriteIs
<1> HIDE DEF c
<1>6. Maps(c, d, {})
  BY <1>5, MapsSound, SelfRefWriteIs
<1> HIDE DEF d
<1>7. Maps(a, d, {})
  BY <1>4, <1>5, <1>6, MapsThen
<1>8. Takes(a, d, {}) /\ d.global_PML4 = a.global_PML4
  BY <1>7, MapsSound
<1>9. QED
  BY <1>1, <1>2, <1>8, TakesThen

LEMMA LoadElfIs ==
  ASSUME NEW m, Sound(m)
  PROVE  LET n == load_elf(m)
         IN Takes(m, n, {"FILE", "USERPT"}) /\ n.global_PML4 = m.global_PML4
<1> DEFINE F == {"FILE", "USERPT"}
           a == kmalloc(m, "FILE")
           b == umalloc(a, CODE)
           c == umalloc(b, DATA)
<1>1. load_elf(m) = c
  BY DEF load_elf
<1>2. Takes(m, a, {"FILE"}) /\ a.global_PML4 = m.global_PML4
  BY KmallocIs DEF Flags
<1> HIDE DEF a
<1>3. Sound(a) /\ Takes(m, a, F)
  BY <1>2, TakesMore DEF Takes
<1>4. Takes(a, b, {"USERPT"}) /\ b.global_PML4 = a.global_PML4
  BY <1>3, UmallocIs
<1> HIDE DEF b
<1>5. Sound(b) /\ Takes(a, b, F)
  BY <1>4, TakesMore DEF Takes
<1>6. Takes(b, c, {"USERPT"}) /\ c.global_PML4 = b.global_PML4
  BY <1>5, UmallocIs
<1> HIDE DEF c
<1>7. Takes(b, c, F)
  BY <1>6, TakesMore
<1>8. Takes(m, c, F)
  BY <1>3, <1>5, <1>7, TakesThen
<1>9. QED
  BY <1>1, <1>2, <1>4, <1>6, <1>8

LEMMA ChildSharesIs ==
  ASSUME NEW m, Sound(m), NEW page
  PROVE  Maps(m, child_shares(m, page), {"USERPT"})
<1> DEFINE e == self_ref_read(m, cr3, PT, page)
           c == entry(e.to, (e.bits \ {"W"}) \cup {"COW"})
           a == self_ref_write(m, cr3, PT, page, c)
           b == map_virmem_to_phymem(a, page, c, "USERPT", "USER_MAP")
           h == [m EXCEPT !.halted = TRUE]
<1>1. child_shares(m, page) \in {h, m, b}
  BY DEF child_shares, shared
<1>2. Maps(m, h, {"USERPT"})
  <2>1. /\ DOMAIN h = MemFields /\ h.used = m.used /\ h.table = m.table
        /\ h.frames = m.frames /\ h.global_PML4 = m.global_PML4 /\ h.halted = TRUE
    BY DEF Sound, MemFields
  <2> HIDE DEF h
  <2>2. QED
    BY <2>1 DEF Sound, Takes, Maps
<1>3. Maps(m, a, {"USERPT"})
  BY SelfRefWriteIs
<1> HIDE DEF a, c, e
<1>4. Sound(a)
  BY <1>3, MapsSound
<1>5. Maps(a, b, {"USERPT"})
  BY <1>4, MapIs DEF Flags
<1> HIDE DEF b, h
<1>6. Maps(m, b, {"USERPT"})
  BY <1>3, <1>5, MapsThen
<1>7. QED
  BY <1>1, <1>2, <1>6, MapsNone

\* The tables of a child: what set_child_pt recurs on, up to the k-th page.
SharesItem(f, m, pages, i) == IF i = 0 THEN m ELSE child_shares(f[i - 1], pages[i])

SharesUpTo(f, m, pages, k) == f = [i \in 0 .. k |-> SharesItem(f, m, pages, i)]

LEMMA SharesAt ==
  ASSUME NEW f, NEW m, NEW pages, NEW k \in Nat, SharesUpTo(f, m, pages, k),
         NEW i \in 0 .. k
  PROVE  f[i] = SharesItem(f, m, pages, i)
BY DEF SharesUpTo

LEMMA SharesExists ==
  ASSUME NEW m, NEW pages
  PROVE  \A k \in Nat : \E f : SharesUpTo(f, m, pages, k)
<1> DEFINE S == {k \in Nat : \E f : SharesUpTo(f, m, pages, k)}
<1>1. 0 \in S
  <2> DEFINE g == [i \in 0 .. 0 |-> m]
  <2>1. \A i \in 0 .. 0 : SharesItem(g, m, pages, i) = m
    BY DEF SharesItem
  <2> HIDE DEF g
  <2>2. g = [i \in 0 .. 0 |-> SharesItem(g, m, pages, i)]
    BY <2>1 DEF g
  <2>3. QED
    BY <2>2 DEF SharesUpTo
<1>2. ASSUME NEW k \in Nat, k \in S PROVE k + 1 \in S
  <2>1. PICK f : SharesUpTo(f, m, pages, k)
    BY <1>2
  <2> DEFINE last == SharesItem(f, m, pages, k + 1)
             g    == [i \in 0 .. k + 1 |-> IF i = k + 1 THEN last ELSE f[i]]
  <2>2. ASSUME NEW i \in 0 .. k + 1 PROVE g[i] = SharesItem(g, m, pages, i)
    <3>1. i # 0 => g[i - 1] = f[i - 1]
      OBVIOUS
    <3>2. SharesItem(g, m, pages, i) = SharesItem(f, m, pages, i)
      BY <3>1 DEF SharesItem
    <3>3. CASE i = k + 1
      BY <3>2, <3>3
    <3>4. CASE i # k + 1
      <4>1. i \in 0 .. k
        BY <3>4
      <4>2. f[i] = SharesItem(f, m, pages, i)
        BY <4>1, <2>1, SharesAt
      <4>3. QED
        BY <4>2, <3>2, <3>4
    <3>5. QED
      BY <3>3, <3>4
  <2>3. SharesUpTo(g, m, pages, k + 1)
    <3> HIDE DEF last
    <3>1. QED
      BY <2>2 DEF SharesUpTo
  <2>4. QED
    BY <2>3
<1>3. \A k \in Nat : k \in S
  <2> HIDE DEF S
  <2>1. QED
    BY <1>1, <1>2, SetInduction
<1>4. QED
  BY <1>3

\* The table that map_virmem_to_phymem changes is one.
Rooted(m) == m.global_PML4 \in DOMAIN m.table

LEMMA RootedStays ==
  ASSUME NEW m, NEW n, NEW F, Takes(m, n, F), n.global_PML4 = m.global_PML4, Rooted(m)
  PROVE  Rooted(n)
BY DEF Takes, Rooted

\* A table for the child, which becomes the one that is changed.
LEMMA ChildTableIs ==
  ASSUME NEW m, Sound(m), Rooted(m)
  PROVE  LET n == changes(kmalloc(m, "USERPT"), page_of(m, "USERPT"))
         IN Takes(m, n, {"USERPT"}) /\ Rooted(n)
<1> DEFINE k == kmalloc(m, "USERPT")
           n == changes(k, page_of(m, "USERPT"))
           g == [k EXCEPT !.global_PML4 = page_of(m, "USERPT")]
<1>1. /\ Takes(m, k, {"USERPT"}) /\ k.global_PML4 = m.global_PML4
      /\ ~k.halted => page_of(m, "USERPT") \in DOMAIN k.table
  BY KmallocIs DEF Flags
<1>2. n = IF k.halted THEN k ELSE g
  BY DEF changes
<1>3. Sound(k) /\ DOMAIN k = MemFields
  BY <1>1 DEF Takes, Sound
<1> HIDE DEF k, n
<1>4. CASE k.halted
  BY <1>1, <1>2, <1>4, RootedStays DEF n, k
<1>5. CASE ~k.halted
  <2>1. /\ DOMAIN g = MemFields /\ g.used = k.used /\ g.table = k.table /\ g.frames = k.frames
        /\ g.global_PML4 = page_of(m, "USERPT") /\ g.halted = k.halted
    BY <1>3 DEF MemFields
  <2> HIDE DEF g
  <2>2. Sound(g)
    BY <1>3, <2>1 DEF Sound
  <2>3. Takes(m, g, {"USERPT"})
    BY <1>1, <2>1, <2>2 DEF Takes
  <2>4. Rooted(g)
    BY <1>1, <1>5, <2>1 DEF Rooted
  <2>5. QED
    BY <1>2, <1>5, <2>3, <2>4 DEF n, k
<1>6. QED
  BY <1>4, <1>5

\* Fork takes pages for tables, after those of the task.
LEMMA SetChildPtIs ==
  ASSUME NEW m, Sound(m), Rooted(m), Len(area_pages) \in Nat
  PROVE  Takes(m, set_child_pt(m), {"USERPT"}) /\ Rooted(set_child_pt(m))
<1> DEFINE child == changes(kmalloc(m, "USERPT"), page_of(m, "USERPT"))
           first == map_kernel(child, "USERPT")
           K == Len(area_pages)
           F == CHOOSE f : SharesUpTo(f, first, area_pages, K)
<1>1. set_child_pt(m) = F[K]
  BY Zenon DEF set_child_pt, SharesUpTo, SharesItem
<1>2. Takes(m, child, {"USERPT"}) /\ Rooted(child)
  BY ChildTableIs
<1> HIDE DEF child
<1>3. Sound(child)
  BY <1>2 DEF Takes
<1>4. Maps(child, first, {"USERPT"})
  BY <1>3, MapKernelIs DEF Flags
<1>5. Sound(first)
  BY <1>4, MapsSound
<1> HIDE DEF first
<1>6. SharesUpTo(F, first, area_pages, K)
  BY SharesExists
<1> HIDE DEF F
<1> DEFINE S == {i \in Nat : i <= K => Maps(first, F[i], {"USERPT"})}
<1>7. 0 \in S
  <2>1. F[0] = SharesItem(F, first, area_pages, 0)
    BY <1>6, SharesAt
  <2>2. F[0] = first
    BY <2>1 DEF SharesItem
  <2>3. QED
    BY <1>5, <2>2, MapsNone
<1>8. ASSUME NEW i \in Nat, i \in S PROVE i + 1 \in S
  <2> SUFFICES ASSUME i + 1 <= K PROVE Maps(first, F[i + 1], {"USERPT"})
    OBVIOUS
  <2>1. Maps(first, F[i], {"USERPT"})
    BY <1>8
  <2>2. F[i + 1] = SharesItem(F, first, area_pages, i + 1)
    BY <1>6, SharesAt
  <2>3. F[i + 1] = child_shares(F[i], area_pages[i + 1])
    BY <2>2 DEF SharesItem
  <2>4. Maps(F[i], child_shares(F[i], area_pages[i + 1]), {"USERPT"})
    BY <2>1, MapsSound, ChildSharesIs
  <2>5. QED
    BY <2>1, <2>3, <2>4, MapsThen
<1>9. \A i \in Nat : i \in S
  <2> HIDE DEF S
  <2>1. QED
    BY <1>7, <1>8, SetInduction
<1>10. Maps(first, F[K], {"USERPT"})
  BY <1>9
<1>11. Maps(child, F[K], {"USERPT"})
  BY <1>4, <1>10, MapsThen
<1>12. Takes(child, F[K], {"USERPT"}) /\ F[K].global_PML4 = child.global_PML4
  BY <1>11, MapsSound
<1>13. QED
  BY <1>1, <1>2, <1>12, TakesThen, RootedStays
-----------------------------------------------------------------------------
(* The page fault handler.                                                 *)

\* There are n frames that no one has taken.
HasFree(m, n) == Cardinality(free_frames(m)) >= n

LEMMA FreeIsFinite ==
  ASSUME NEW m
  PROVE  /\ IsFiniteSet(free_frames(m)) /\ Cardinality(free_frames(m)) \in Nat
         /\ HasFree(m, 1) => free_frames(m) # {}
<1>1. IsFiniteSet(KERNEL_PAGES .. PAGE_NUM - 1)
  BY ConstantsAre, FS_Interval
<1>2. IsFiniteSet(free_frames(m))
  BY <1>1, FS_Subset DEF free_frames
<1>3. Cardinality(free_frames(m)) \in Nat
  BY <1>2, FS_CardinalityType
<1>4. HasFree(m, 1) => free_frames(m) # {}
  BY <1>3, FS_EmptySet DEF HasFree
<1>5. QED
  BY <1>2, <1>3, <1>4

\* A step that takes the new frame leaves one less.
LEMMA FreeAfter ==
  ASSUME NEW m, NEW p, NEW n \in Nat, HasFree(m, n + 1),
         p.frames \subseteq m.frames \cup {new_frame(m)}
  PROVE  HasFree(p, n)
<1> DEFINE A == free_frames(m)
           B == free_frames(m) \ {new_frame(m)}
<1>1. IsFiniteSet(A) /\ Cardinality(A) \in Nat /\ Cardinality(A) >= n + 1
  BY FreeIsFinite DEF HasFree
<1>2. B \subseteq free_frames(p)
  BY DEF free_frames
<1>3. IsFiniteSet(B) /\ Cardinality(B) \in Nat /\ Cardinality(B) >= Cardinality(A) - 1
  BY <1>1, FS_RemoveElement, FS_CardinalityType
<1>4. IsFiniteSet(free_frames(p)) /\ Cardinality(free_frames(p)) \in Nat
  BY FreeIsFinite
<1>5. Cardinality(B) <= Cardinality(free_frames(p))
  BY <1>2, <1>4, FS_Subset
<1> HIDE DEF A, B
<1>6. QED
  BY <1>1, <1>3, <1>4, <1>5 DEF HasFree

\* One level of the handler, and what it makes of a memory.
Demand(m, level, page) ==
  IF "P" \in self_ref_read(m, cr3, level, page).bits THEN m ELSE demanded(m, level, page)

Serves(m, p) == Takes(m, p, {}) /\ p.global_PML4 = m.global_PML4

LEMMA ServesThen ==
  ASSUME NEW m, NEW n, NEW p, Serves(m, n), Serves(n, p)
  PROVE  Serves(m, p)
BY TakesThen DEF Serves

LEMMA NewTableIs ==
  ASSUME NEW m, Sound(m), NEW t \in Frames
  PROVE  LET n == [m EXCEPT !.table = put(@, t, <<>>)]
         IN Serves(m, n) /\ n.frames = m.frames
<1> DEFINE tables == put(m.table, t, <<>>)
           n == [m EXCEPT !.table = tables]
<1>1. DOMAIN tables = DOMAIN m.table \cup {t}
  BY DEF put
<1> HIDE DEF tables
<1>2. /\ DOMAIN n = MemFields /\ n.used = m.used /\ n.table = tables
      /\ n.frames = m.frames /\ n.global_PML4 = m.global_PML4 /\ n.halted = m.halted
  BY DEF Sound, MemFields
<1> HIDE DEF n
<1>3. Serves(m, n) /\ n.frames = m.frames
  BY <1>1, <1>2 DEF Sound, Takes, Serves, TablePages
<1>4. QED
  BY <1>3 DEF n, tables

LEMMA DemandedIs ==
  ASSUME NEW m, Sound(m), NEW level, NEW page, free_frames(m) # {}
  PROVE  LET n == demanded(m, level, page)
         IN Serves(m, n) /\ n.frames \subseteq m.frames \cup {new_frame(m)}
<1> DEFINE a == take_frame(m)
           b == [a EXCEPT !.table = put(@, new_frame(m), <<>>)]
           c == IF level = PT THEN a ELSE b
           n == self_ref_write(c, cr3, level, page, user_entry(m))
<1>1. demanded(m, level, page) = n
  BY DEF demanded
<1>2. Serves(m, a) /\ a.frames \subseteq m.frames \cup {new_frame(m)}
  BY TakeFrameIs DEF Serves
<1> HIDE DEF a
<1>3. Sound(a)
  BY <1>2 DEF Serves, Takes
<1>4. Serves(a, b) /\ b.frames = a.frames
  BY <1>3, NewFrameIs, NewTableIs
<1> HIDE DEF b
<1>5. Serves(m, c) /\ c.frames \subseteq m.frames \cup {new_frame(m)}
  BY <1>2, <1>4, ServesThen
<1> HIDE DEF c
<1>6. Sound(c)
  BY <1>5 DEF Serves, Takes
<1>7. Maps(c, n, {})
  BY <1>6, SelfRefWriteIs
<1> HIDE DEF n
<1>8. Serves(c, n) /\ n.frames = c.frames
  BY <1>7, MapsSound DEF Serves
<1>9. QED
  BY <1>1, <1>5, <1>8, ServesThen

LEMMA DemandIs ==
  ASSUME NEW m, Sound(m), NEW level, NEW page, NEW n \in Nat, HasFree(m, n + 1)
  PROVE  LET p == Demand(m, level, page)
         IN Serves(m, p) /\ HasFree(p, n)
<1> DEFINE p == Demand(m, level, page)
<1>1. free_frames(m) # {}
  <2>1. HasFree(m, 1)
    BY FreeIsFinite DEF HasFree
  <2>2. QED
    BY <2>1, FreeIsFinite
<1>2. CASE p = m
  <2>1. Serves(m, m) /\ HasFree(m, n)
    BY TakesNone, FreeIsFinite DEF Serves, HasFree
  <2>2. QED
    BY <1>2, <2>1
<1>3. CASE p = demanded(m, level, page)
  <2>1. Serves(m, p) /\ p.frames \subseteq m.frames \cup {new_frame(m)}
    BY <1>1, <1>3, DemandedIs
  <2> HIDE DEF p
  <2>2. HasFree(p, n)
    BY <2>1, FreeAfter
  <2>3. QED
    BY <2>1, <2>2 DEF p
<1>4. p = m \/ p = demanded(m, level, page)
  BY DEF Demand
<1>5. QED
  BY <1>2, <1>3, <1>4

\* The handler goes through the levels of the tables and stops at the page.
Handled(page) ==
  Demand(Demand(Demand(Demand(Memory, 4, page), 3, page), 2, page), 1, page)

DownItem(f, page, level) ==
  IF level > PML4 THEN Memory ELSE Demand(f[level + 1], level, page)

IsDown(f, page) == f = [level \in PT .. PML4 + 1 |-> DownItem(f, page, level)]

LEMMA DownIs ==
  ASSUME NEW page, NEW f, f = (CHOOSE g : IsDown(g, page))
  PROVE  f[PT] = Handled(page)
<1> DEFINE d4 == Demand(Memory, 4, page)
           d3 == Demand(d4, 3, page)
           d2 == Demand(d3, 2, page)
           d1 == Demand(d2, 1, page)
           g  == [level \in 1 .. 5 |-> IF level = 5 THEN Memory ELSE
                                       IF level = 4 THEN d4 ELSE
                                       IF level = 3 THEN d3 ELSE
                                       IF level = 2 THEN d2 ELSE d1]
<1>1. PT = 1 /\ PML4 = 4 /\ PML4 + 1 = 5
  BY DEF PT, PML4
<1>2. d1 = Handled(page)
  BY DEF Handled
<1>3. IsDown(g, page)
  <2>1. /\ d4 = Demand(Memory, 4, page) /\ d3 = Demand(d4, 3, page)
        /\ d2 = Demand(d3, 2, page) /\ d1 = Demand(d2, 1, page)
    OBVIOUS
  <2> HIDE DEF d1, d2, d3, d4
  <2>2. g[5] = Memory /\ g[4] = d4 /\ g[3] = d3 /\ g[2] = d2 /\ g[1] = d1
    OBVIOUS
  <2>3. ASSUME NEW level \in 1 .. 5 PROVE g[level] = DownItem(g, page, level)
    <3>1. level \in {1, 2, 3, 4, 5}
      OBVIOUS
    <3>2. level = 5 => DownItem(g, page, level) = Memory
      BY <1>1 DEF DownItem
    <3>3. level \in {1, 2, 3, 4} => DownItem(g, page, level) = Demand(g[level + 1], level, page)
      BY <1>1 DEF DownItem
    <3> HIDE DEF g
    <3>4. CASE level = 5
      BY <2>2, <3>2, <3>4
    <3>5. CASE level = 4
      BY <2>1, <2>2, <3>3, <3>5
    <3>6. CASE level = 3
      BY <2>1, <2>2, <3>3, <3>6
    <3>7. CASE level = 2
      BY <2>1, <2>2, <3>3, <3>7
    <3>8. CASE level = 1
      BY <2>1, <2>2, <3>3, <3>8
    <3>9. QED
      BY <3>1, <3>4, <3>5, <3>6, <3>7, <3>8
  <2>4. g = [level \in 1 .. 5 |-> DownItem(g, page, level)]
    <3>1. g = [level \in 1 .. 5 |-> g[level]]
      OBVIOUS
    <3> HIDE DEF g
    <3>2. QED
      BY <2>3, <3>1
  <2> HIDE DEF g
  <2>5. QED
    BY <1>1, <2>4 DEF IsDown
<1>4. IsDown(f, page)
  BY <1>3
<1>5. \A level \in 1 .. 5 : f[level] = DownItem(f, page, level)
  BY <1>1, <1>4 DEF IsDown
<1>6. f[5] = Memory
  BY <1>1, <1>5 DEF DownItem
<1>7. \A level \in {1, 2, 3, 4} : f[level] = Demand(f[level + 1], level, page)
  BY <1>1, <1>5 DEF DownItem
<1>8. f[4] = Demand(f[5], 4, page) /\ f[3] = Demand(f[4], 3, page)
  BY <1>7
<1>9. f[2] = Demand(f[3], 2, page) /\ f[1] = Demand(f[2], 1, page)
  BY <1>7
<1>10. f[PT] = d1
  BY <1>1, <1>6, <1>8, <1>9
<1>11. QED
  BY <1>2, <1>10

LEMMA HandledIs ==
  ASSUME Sound(Memory), HasFree(Memory, 4), NEW page
  PROVE  Serves(Memory, Handled(page))
<1> DEFINE m == Memory
           d4 == Demand(m, 4, page)
           d3 == Demand(d4, 3, page)
           d2 == Demand(d3, 2, page)
           d1 == Demand(d2, 1, page)
<1>1. Handled(page) = d1
  BY DEF Handled
<1> HIDE DEF m
<1>2. Sound(m) /\ HasFree(m, 3 + 1)
  BY DEF m
<1>3. Serves(m, d4) /\ HasFree(d4, 2 + 1)
  BY <1>2, DemandIs
<1> HIDE DEF d4
<1>4. Sound(d4)
  BY <1>3 DEF Serves, Takes
<1>5. Serves(d4, d3) /\ HasFree(d3, 1 + 1)
  BY <1>3, <1>4, DemandIs
<1> HIDE DEF d3
<1>6. Sound(d3)
  BY <1>5 DEF Serves, Takes
<1>7. Serves(d3, d2) /\ HasFree(d2, 0 + 1)
  BY <1>5, <1>6, DemandIs
<1> HIDE DEF d2
<1>8. Sound(d2)
  BY <1>7 DEF Serves, Takes
<1>9. Serves(d2, d1)
  BY <1>7, <1>8, DemandIs
<1> HIDE DEF d1
<1>10. Serves(m, d1)
  BY <1>3, <1>5, <1>7, <1>9, ServesThen
<1>11. QED
  BY <1>1, <1>10 DEF m

\* The store to a page marked by fork takes a frame, and no page of a pool.
LEMMA CopyIs ==
  ASSUME Sound(Memory), NEW page, NEW e
  PROVE  LET old == self_ref_read(Memory, cr3, PT, page)
             m1  == take_frame(Memory)
             m2  == self_ref_write(m1, cr3, PT, VIR_START + 1, user_entry(Memory))
             m3  == self_ref_write(m2, cr3, PT, page, user_entry(Memory))
         IN /\ Serves(Memory, put_back(m3, self_ref_read(m1, cr3, PT, VIR_START + 1)))
            /\ Serves(Memory, self_ref_write(Memory, cr3, PT, page, e))
<1> DEFINE m  == Memory
           u  == user_entry(Memory)
           m1 == take_frame(m)
           b  == self_ref_read(m1, cr3, PT, VIR_START + 1)
           m2 == self_ref_write(m1, cr3, PT, VIR_START + 1, u)
           m3 == self_ref_write(m2, cr3, PT, page, u)
           m4 == self_ref_write(m3, cr3, PT, VIR_START + 1, b)
           n  == self_ref_write(m, cr3, PT, page, e)
<1>1. put_back(m3, b) = m4
  BY DEF put_back
<1> HIDE DEF m, u
<1>2. Sound(m)
  BY DEF m
<1>3. Serves(m, m1) /\ Sound(m1)
  BY <1>2, TakeFrameIs DEF Serves, Takes
<1> HIDE DEF m1, b
<1>4. Maps(m1, m2, {})
  BY <1>3, SelfRefWriteIs
<1> HIDE DEF m2
<1>5. Maps(m2, m3, {})
  BY <1>4, MapsSound, SelfRefWriteIs
<1> HIDE DEF m3
<1>6. Maps(m3, m4, {})
  BY <1>5, MapsSound, SelfRefWriteIs
<1>7. Maps(m, n, {})
  BY <1>2, SelfRefWriteIs
<1> HIDE DEF m4, n
<1>8. Maps(m1, m4, {})
  BY <1>4, <1>5, <1>6, MapsThen
<1>9. Serves(m1, m4) /\ Serves(m, n)
  BY <1>7, <1>8, MapsSound DEF Serves
<1>10. Serves(m, m4)
  BY <1>3, <1>9, ServesThen
<1>11. QED
  BY <1>1, <1>9, <1>10 DEF m, u, m1, m2, m3, b, n
-----------------------------------------------------------------------------
(* The pages of a task.                                                    *)

\* What kmallocs recurs on, up to the k-th page.
AllocItem(g, m, f, i) == IF i = 0 THEN m ELSE kmalloc(g[i - 1], f)

AllocUpTo(g, m, f, k) == g = [i \in 0 .. k |-> AllocItem(g, m, f, i)]

LEMMA AllocAt ==
  ASSUME NEW g, NEW m, NEW f, NEW k \in Nat, AllocUpTo(g, m, f, k), NEW i \in 0 .. k
  PROVE  g[i] = AllocItem(g, m, f, i)
BY DEF AllocUpTo

LEMMA AllocExists ==
  ASSUME NEW m, NEW f
  PROVE  \A k \in Nat : \E g : AllocUpTo(g, m, f, k)
<1> DEFINE S == {k \in Nat : \E g : AllocUpTo(g, m, f, k)}
<1>1. 0 \in S
  <2> DEFINE g == [i \in 0 .. 0 |-> m]
  <2>1. \A i \in 0 .. 0 : AllocItem(g, m, f, i) = m
    BY DEF AllocItem
  <2> HIDE DEF g
  <2>2. g = [i \in 0 .. 0 |-> AllocItem(g, m, f, i)]
    BY <2>1 DEF g
  <2>3. QED
    BY <2>2 DEF AllocUpTo
<1>2. ASSUME NEW k \in Nat, k \in S PROVE k + 1 \in S
  <2>1. PICK h : AllocUpTo(h, m, f, k)
    BY <1>2
  <2> DEFINE last == AllocItem(h, m, f, k + 1)
             g    == [i \in 0 .. k + 1 |-> IF i = k + 1 THEN last ELSE h[i]]
  <2>2. ASSUME NEW i \in 0 .. k + 1 PROVE g[i] = AllocItem(g, m, f, i)
    <3>1. i # 0 => g[i - 1] = h[i - 1]
      OBVIOUS
    <3>2. AllocItem(g, m, f, i) = AllocItem(h, m, f, i)
      BY <3>1 DEF AllocItem
    <3>3. CASE i = k + 1
      BY <3>2, <3>3
    <3>4. CASE i # k + 1
      <4>1. i \in 0 .. k
        BY <3>4
      <4>2. h[i] = AllocItem(h, m, f, i)
        BY <4>1, <2>1, AllocAt
      <4>3. QED
        BY <4>2, <3>2, <3>4
    <3>5. QED
      BY <3>3, <3>4
  <2>3. AllocUpTo(g, m, f, k + 1)
    <3> HIDE DEF last
    <3>1. QED
      BY <2>2 DEF AllocUpTo
  <2>4. QED
    BY <2>3
<1>3. \A k \in Nat : k \in S
  <2> HIDE DEF S
  <2>1. QED
    BY <1>1, <1>2, SetInduction
<1>4. QED
  BY <1>3

\* Some calls of kmalloc are one more than the calls before.
LEMMA KmallocsAre ==
  ASSUME NEW m, NEW f, NEW n \in Nat
  PROVE  /\ kmallocs(m, f, 0) = m
         /\ kmallocs(m, f, n + 1) = kmalloc(kmallocs(m, f, n), f)
<1> DEFINE A(k) == CHOOSE g : AllocUpTo(g, m, f, k)
<1>1. \A k \in Nat : AllocUpTo(A(k), m, f, k)
  BY AllocExists
<1>2. \A k \in Nat : kmallocs(m, f, k) = A(k)[k]
  BY Zenon DEF kmallocs, AllocUpTo, AllocItem
<1> HIDE DEF A
<1>3. \A k \in Nat : A(k)[0] = m
  <2>1. \A k \in Nat : A(k)[0] = AllocItem(A(k), m, f, 0)
    BY <1>1, AllocAt
  <2>2. QED
    BY <2>1 DEF AllocItem
<1>4. \A k \in Nat : \A i \in 1 .. k : A(k)[i] = kmalloc(A(k)[i - 1], f)
  <2> SUFFICES ASSUME NEW k \in Nat, NEW i \in 1 .. k PROVE A(k)[i] = kmalloc(A(k)[i - 1], f)
    OBVIOUS
  <2>1. A(k)[i] = AllocItem(A(k), m, f, i)
    BY <1>1, AllocAt
  <2>2. QED
    BY <2>1 DEF AllocItem
<1> DEFINE S == {i \in Nat : i <= n => A(n)[i] = A(n + 1)[i]}
<1>5. 0 \in S
  BY <1>3
<1>6. ASSUME NEW i \in Nat, i \in S PROVE i + 1 \in S
  <2> SUFFICES ASSUME i + 1 <= n PROVE A(n)[i + 1] = A(n + 1)[i + 1]
    OBVIOUS
  <2>1. A(n)[i] = A(n + 1)[i]
    BY <1>6
  <2>2. i + 1 \in 1 .. n /\ i + 1 \in 1 .. n + 1 /\ i + 1 - 1 = i
    OBVIOUS
  <2>3. A(n)[i + 1] = kmalloc(A(n)[i], f)
    BY <1>4, <2>2
  <2>4. A(n + 1)[i + 1] = kmalloc(A(n + 1)[i], f)
    BY <1>4, <2>2
  <2>5. QED
    BY <2>1, <2>3, <2>4
<1>7. \A i \in Nat : i \in S
  <2> HIDE DEF S
  <2>1. QED
    BY <1>5, <1>6, SetInduction
<1>8. A(n)[n] = A(n + 1)[n]
  BY <1>7
<1>9. A(n + 1)[n + 1] = kmalloc(A(n + 1)[n], f)
  <2>1. n + 1 \in 1 .. n + 1 /\ n + 1 - 1 = n
    OBVIOUS
  <2>2. QED
    BY <1>4, <2>1
<1>10. QED
  BY <1>2, <1>3, <1>8, <1>9

\* The number that the next call of kmalloc gives, and that after i more.
Given(m, f)     == lowest(unused(m, f))
Number(m, f, i) == Given(kmallocs(m, f, i), f)

LEMMA KmallocHalts ==
  ASSUME NEW m, Sound(m), NEW f \in Flags
  PROVE  /\ m.halted \/ unused(m, f) = {} => kmalloc(m, f).halted
         /\ ~m.halted /\ unused(m, f) # {} => ~kmalloc(m, f).halted
<1>1. DOMAIN m = MemFields /\ m.halted \in BOOLEAN
  BY DEF Sound
<1>2. CASE m.halted \/ unused(m, f) = {}
  <2>1. kmalloc(m, f) = [m EXCEPT !.halted = TRUE]
    BY <1>2 DEF kmalloc
  <2>2. QED
    BY <1>1, <1>2, <2>1 DEF MemFields
<1>3. CASE ~m.halted /\ unused(m, f) # {}
  <2> DEFINE n == marked(m, f)
             p == [n EXCEPT !.table = put(@, page_of(m, f), <<>>)]
  <2>1. kmalloc(m, f) \in {n, p}
    BY <1>3 DEF kmalloc
  <2>2. DOMAIN n = MemFields /\ n.halted = m.halted
    BY <1>1 DEF marked, MemFields
  <2> HIDE DEF n
  <2>3. p.halted = m.halted
    BY <2>2 DEF MemFields
  <2>4. QED
    BY <1>3, <2>1, <2>2, <2>3
<1>4. QED
  BY <1>2, <1>3

\* What kmalloc adds to its pool.
LEMMA KmallocAdds ==
  ASSUME NEW m, Sound(m), NEW f \in Flags, ~kmalloc(m, f).halted
  PROVE  /\ ~m.halted /\ unused(m, f) # {}
         /\ kmalloc(m, f).used[f] = m.used[f] \cup {Given(m, f)}
BY KmallocIs DEF Given

\* Some calls of kmalloc for one pool take that many pages of it, none of which
\* was taken.
LEMMA KmallocsTake ==
  ASSUME NEW m, Sound(m), NEW f \in Flags
  PROVE  \A n \in Nat :
           LET p == kmallocs(m, f, n)
           IN /\ Takes(m, p, {f}) /\ p.global_PML4 = m.global_PML4
              /\ p.frames = m.frames
              /\ ~p.halted =>
                   /\ ~m.halted
                   /\ p.used[f] = m.used[f] \cup {Number(m, f, i) : i \in 0 .. n - 1}
                   /\ \A i \in 0 .. n - 1 :
                        /\ Number(m, f, i) \in 0 .. NUMBER[f] - 1
                        /\ Number(m, f, i) \notin m.used[f]
<1> DEFINE p(n) == kmallocs(m, f, n)
           C(n) == /\ Takes(m, p(n), {f}) /\ p(n).global_PML4 = m.global_PML4
                   /\ p(n).frames = m.frames
                   /\ ~p(n).halted =>
                        /\ ~m.halted
                        /\ p(n).used[f] = m.used[f] \cup {Number(m, f, i) : i \in 0 .. n - 1}
                        /\ \A i \in 0 .. n - 1 :
                             /\ Number(m, f, i) \in 0 .. NUMBER[f] - 1
                             /\ Number(m, f, i) \notin m.used[f]
           S == {n \in Nat : C(n)}
<1>1. 0 \in S
  <2>1. p(0) = m
    BY KmallocsAre
  <2> HIDE DEF p
  <2>2. Takes(m, m, {f}) /\ 0 .. 0 - 1 = {}
    BY TakesNone
  <2>3. QED
    BY <2>1, <2>2
<1>2. ASSUME NEW n \in Nat, n \in S PROVE n + 1 \in S
  <2>1. p(n + 1) = kmalloc(p(n), f) /\ Number(m, f, n) = Given(p(n), f)
    BY KmallocsAre DEF Number
  <2>2. C(n)
    BY <1>2
  <2> HIDE DEF p
  <2>3. Sound(p(n)) /\ Takes(m, p(n), {f})
    BY <2>2 DEF Takes
  <2> DEFINE q == kmalloc(p(n), f)
             x == Given(p(n), f)
  <2>4. /\ Takes(p(n), q, {f}) /\ q.global_PML4 = p(n).global_PML4 /\ q.frames = p(n).frames
        /\ ~q.halted => /\ ~p(n).halted /\ x \in 0 .. NUMBER[f] - 1 /\ x \notin p(n).used[f]
                        /\ q.used[f] = p(n).used[f] \cup {x}
    BY <2>3, KmallocIs DEF Given
  <2> HIDE DEF q, x
  <2>5. Takes(m, q, {f})
    BY <2>3, <2>4, TakesThen
  <2>6. q.global_PML4 = m.global_PML4 /\ q.frames = m.frames
    BY <2>2, <2>4
  <2>7. ASSUME ~q.halted
        PROVE  /\ ~m.halted
               /\ q.used[f] = m.used[f] \cup {Number(m, f, i) : i \in 0 .. n}
               /\ \A i \in 0 .. n : /\ Number(m, f, i) \in 0 .. NUMBER[f] - 1
                                    /\ Number(m, f, i) \notin m.used[f]
    <3>1. /\ ~m.halted
          /\ p(n).used[f] = m.used[f] \cup {Number(m, f, i) : i \in 0 .. n - 1}
          /\ \A i \in 0 .. n - 1 : /\ Number(m, f, i) \in 0 .. NUMBER[f] - 1
                                   /\ Number(m, f, i) \notin m.used[f]
      BY <2>2, <2>4, <2>7
    <3>2. /\ x \in 0 .. NUMBER[f] - 1 /\ x \notin m.used[f]
          /\ q.used[f] = p(n).used[f] \cup {x} /\ Number(m, f, n) = x
      BY <2>1, <2>4, <2>7, <3>1 DEF x
    <3>3. 0 .. n = (0 .. n - 1) \cup {n}
      OBVIOUS
    <3>4. {Number(m, f, i) : i \in 0 .. n} = {Number(m, f, i) : i \in 0 .. n - 1} \cup {x}
      BY <3>2, <3>3
    <3>5. QED
      BY <3>1, <3>2, <3>3, <3>4
  <2>8. n + 1 - 1 = n
    OBVIOUS
  <2>9. p(n + 1) = q
    BY <2>1 DEF q
  <2>10. C(n + 1)
    BY <2>5, <2>6, <2>7, <2>8, <2>9
  <2>11. QED
    BY <2>10
<1>3. \A n \in Nat : n \in S
  <2> HIDE DEF S
  <2>1. QED
    BY <1>1, <1>2, SetInduction
<1>4. QED
  BY <1>3

\* What kmalloc gives depends on its pool only: a memory in which others have
\* been used since gives the same.
Same(a, b, f) == Sound(a) /\ Sound(b) /\ (~b.halted => (~a.halted /\ a.used[f] = b.used[f]))

LEMMA SameNumbers ==
  ASSUME NEW f \in Flags, NEW a, NEW b, Same(a, b, f)
  PROVE  \A n \in Nat :
           ~kmallocs(b, f, n).halted =>
             \A i \in 0 .. n - 1 : Number(a, f, i) = Number(b, f, i)
<1> DEFINE p(n) == kmallocs(a, f, n)
           q(n) == kmallocs(b, f, n)
           C(n) == /\ Same(p(n), q(n), f)
                   /\ ~q(n).halted =>
                        \A i \in 0 .. n - 1 : Number(a, f, i) = Number(b, f, i)
           S == {n \in Nat : C(n)}
<1>1. 0 \in S
  <2>1. p(0) = a /\ q(0) = b /\ 0 .. 0 - 1 = {}
    BY KmallocsAre
  <2>2. C(0)
    <3> HIDE DEF p, q
    <3>1. QED
      BY <2>1
  <2>3. QED
    BY <2>2
<1>2. ASSUME NEW n \in Nat, n \in S PROVE n + 1 \in S
  <2>1. /\ p(n + 1) = kmalloc(p(n), f) /\ q(n + 1) = kmalloc(q(n), f)
        /\ Number(a, f, n) = Given(p(n), f) /\ Number(b, f, n) = Given(q(n), f)
    BY KmallocsAre DEF Number
  <2>2. C(n)
    BY <1>2
  <2> HIDE DEF p, q
  <2>3. Sound(p(n)) /\ Sound(q(n))
    BY <2>2 DEF Same
  <2>4. /\ Sound(p(n + 1)) /\ Sound(q(n + 1))
    BY <2>1, <2>3, KmallocIs DEF Takes
  <2>5. ASSUME ~q(n + 1).halted
        PROVE  /\ ~p(n + 1).halted /\ p(n + 1).used[f] = q(n + 1).used[f]
               /\ Number(a, f, n) = Number(b, f, n) /\ ~q(n).halted
    <3>1. /\ ~q(n).halted /\ unused(q(n), f) # {}
          /\ q(n + 1).used[f] = q(n).used[f] \cup {Given(q(n), f)}
      BY <2>1, <2>3, <2>5, KmallocAdds
    <3>2. ~p(n).halted /\ p(n).used[f] = q(n).used[f]
      BY <2>2, <3>1 DEF Same
    <3>3. unused(p(n), f) = unused(q(n), f)
      BY <3>2 DEF unused
    <3>4. ~p(n + 1).halted
      BY <2>1, <2>3, <3>1, <3>2, <3>3, KmallocHalts
    <3>5. p(n + 1).used[f] = p(n).used[f] \cup {Given(p(n), f)}
      BY <2>1, <2>3, <3>4, KmallocAdds
    <3>6. Given(p(n), f) = Given(q(n), f)
      BY <3>3 DEF Given
    <3>7. QED
      BY <2>1, <3>1, <3>2, <3>4, <3>5, <3>6
  <2>6. ASSUME ~q(n + 1).halted, NEW i \in 0 .. n + 1 - 1
        PROVE  Number(a, f, i) = Number(b, f, i)
    <3>1. CASE i = n
      BY <2>5, <2>6, <3>1
    <3>2. CASE i # n
      <4>1. i \in 0 .. n - 1
        BY <2>6, <3>2
      <4>2. QED
        BY <2>2, <2>5, <2>6, <4>1
    <3>3. QED
      BY <3>1, <3>2
  <2>7. Same(p(n + 1), q(n + 1), f)
    BY <2>4, <2>5 DEF Same
  <2>8. QED
    BY <2>6, <2>7
<1>3. \A n \in Nat : n \in S
  <2> HIDE DEF S
  <2>1. QED
    BY <1>1, <1>2, SetInduction
<1>4. QED
  BY <1>3

TaskPools == {"TASK", "KSTACK", "MM", "VMA"}

\* The pages of a new task are those of the next calls of kmalloc for each
\* pool, and none of them was taken.
LEMMA TaskPagesAre ==
  ASSUME NEW m, Sound(m)
  PROVE  LET n == task_pages(m)
         IN /\ Takes(m, n, TaskPools) /\ n.global_PML4 = m.global_PML4
            /\ ~n.halted =>
                 /\ \A f \in {"TASK", "KSTACK", "MM"} :
                      /\ Given(m, f) \in 0 .. NUMBER[f] - 1 /\ Given(m, f) \notin m.used[f]
                      /\ n.used[f] = m.used[f] \cup {Given(m, f)}
                 /\ \A i \in 0 .. AREAS - 1 :
                      /\ Number(m, "VMA", i) \in 0 .. NUMBER["VMA"] - 1
                      /\ Number(m, "VMA", i) \notin m.used["VMA"]
                 /\ n.used["VMA"] =
                      m.used["VMA"] \cup {Number(m, "VMA", i) : i \in 0 .. AREAS - 1}
<1> DEFINE a == kmalloc(m, "TASK")
           b == kmalloc(a, "KSTACK")
           c == kmalloc(b, "MM")
           n == kmallocs(c, "VMA", AREAS)
<1>1. task_pages(m) = n
  BY DEF task_pages
<1>2. {"TASK", "KSTACK", "MM", "VMA"} \subseteq Flags /\ AREAS \in Nat
  BY DEF Flags, AREAS
<1>3. /\ Takes(m, a, {"TASK"}) /\ a.global_PML4 = m.global_PML4
      /\ ~a.halted => /\ ~m.halted /\ a.used["TASK"] = m.used["TASK"] \cup {Given(m, "TASK")}
                      /\ Given(m, "TASK") \in 0 .. NUMBER["TASK"] - 1
                      /\ Given(m, "TASK") \notin m.used["TASK"]
  BY <1>2, KmallocIs DEF Given
<1> HIDE DEF a
<1>4. Sound(a)
  BY <1>3 DEF Takes
<1>5. /\ Takes(a, b, {"KSTACK"}) /\ b.global_PML4 = a.global_PML4
      /\ ~b.halted => /\ ~a.halted /\ b.used["KSTACK"] = a.used["KSTACK"] \cup {Given(a, "KSTACK")}
                      /\ Given(a, "KSTACK") \in 0 .. NUMBER["KSTACK"] - 1
                      /\ Given(a, "KSTACK") \notin a.used["KSTACK"]
  BY <1>2, <1>4, KmallocIs DEF Given
<1> HIDE DEF b
<1>6. Sound(b)
  BY <1>5 DEF Takes
<1>7. /\ Takes(b, c, {"MM"}) /\ c.global_PML4 = b.global_PML4
      /\ ~c.halted => /\ ~b.halted /\ c.used["MM"] = b.used["MM"] \cup {Given(b, "MM")}
                      /\ Given(b, "MM") \in 0 .. NUMBER["MM"] - 1
                      /\ Given(b, "MM") \notin b.used["MM"]
  BY <1>2, <1>6, KmallocIs DEF Given
<1> HIDE DEF c
<1>8. Sound(c)
  BY <1>7 DEF Takes
<1>9. /\ Takes(c, n, {"VMA"}) /\ n.global_PML4 = c.global_PML4
      /\ ~n.halted =>
           /\ ~c.halted
           /\ n.used["VMA"] = c.used["VMA"] \cup {Number(c, "VMA", i) : i \in 0 .. AREAS - 1}
           /\ \A i \in 0 .. AREAS - 1 : /\ Number(c, "VMA", i) \in 0 .. NUMBER["VMA"] - 1
                                        /\ Number(c, "VMA", i) \notin c.used["VMA"]
  <2>1. "VMA" \in Flags
    BY <1>2
  <2>2. \A k \in Nat :
          LET p == kmallocs(c, "VMA", k)
          IN /\ Takes(c, p, {"VMA"}) /\ p.global_PML4 = c.global_PML4
             /\ p.frames = c.frames
             /\ ~p.halted =>
                  /\ ~c.halted
                  /\ p.used["VMA"] = c.used["VMA"] \cup {Number(c, "VMA", i) : i \in 0 .. k - 1}
                  /\ \A i \in 0 .. k - 1 :
                       /\ Number(c, "VMA", i) \in 0 .. NUMBER["VMA"] - 1
                       /\ Number(c, "VMA", i) \notin c.used["VMA"]
    BY <1>8, <2>1, KmallocsTake, Zenon
  <2>3. QED
    BY <1>2, <2>2
<1>10. ~n.halted => \A i \in 0 .. AREAS - 1 : Number(m, "VMA", i) = Number(c, "VMA", i)
  <2>1. m.used["VMA"] = a.used["VMA"] /\ a.used["VMA"] = b.used["VMA"]
        /\ b.used["VMA"] = c.used["VMA"]
    BY <1>2, <1>3, <1>5, <1>7 DEF Takes
  <2>2. Same(m, c, "VMA")
    BY <1>3, <1>5, <1>7, <1>8, <2>1 DEF Same
  <2>3. QED
    BY <1>2, <2>2, SameNumbers
<1> HIDE DEF n
<1>11. Takes(m, n, TaskPools) /\ n.global_PML4 = m.global_PML4
  <2>1. /\ Takes(m, a, TaskPools) /\ Takes(a, b, TaskPools) /\ Takes(b, c, TaskPools)
        /\ Takes(c, n, TaskPools)
    BY <1>3, <1>5, <1>7, <1>9, TakesMore DEF TaskPools
  <2>2. Takes(m, c, TaskPools)
    BY <2>1, TakesThen
  <2>3. QED
    BY <1>3, <1>5, <1>7, <1>9, <2>1, <2>2, TakesThen
<1>12. ASSUME ~n.halted
       PROVE  /\ \A f \in {"TASK", "KSTACK", "MM"} :
                   /\ Given(m, f) \in 0 .. NUMBER[f] - 1 /\ Given(m, f) \notin m.used[f]
                   /\ n.used[f] = m.used[f] \cup {Given(m, f)}
              /\ \A i \in 0 .. AREAS - 1 :
                   /\ Number(m, "VMA", i) \in 0 .. NUMBER["VMA"] - 1
                   /\ Number(m, "VMA", i) \notin m.used["VMA"]
              /\ n.used["VMA"] =
                   m.used["VMA"] \cup {Number(m, "VMA", i) : i \in 0 .. AREAS - 1}
  <2>1. ~a.halted /\ ~b.halted /\ ~c.halted
    BY <1>3, <1>5, <1>7, <1>9, <1>12
  <2>2. /\ a.used["KSTACK"] = m.used["KSTACK"] /\ a.used["MM"] = m.used["MM"]
        /\ a.used["VMA"] = m.used["VMA"]
    BY <1>2, <1>3 DEF Takes
  <2>3. /\ b.used["TASK"] = a.used["TASK"] /\ b.used["MM"] = a.used["MM"]
        /\ b.used["VMA"] = a.used["VMA"]
    BY <1>2, <1>5 DEF Takes
  <2>4. /\ c.used["TASK"] = b.used["TASK"] /\ c.used["KSTACK"] = b.used["KSTACK"]
        /\ c.used["VMA"] = b.used["VMA"]
    BY <1>2, <1>7 DEF Takes
  <2>5. /\ n.used["TASK"] = c.used["TASK"] /\ n.used["KSTACK"] = c.used["KSTACK"]
        /\ n.used["MM"] = c.used["MM"]
    BY <1>2, <1>9 DEF Takes
  <2>6. Given(a, "KSTACK") = Given(m, "KSTACK") /\ Given(b, "MM") = Given(m, "MM")
    BY <2>2, <2>3 DEF Given, unused
  <2>7. /\ Given(m, "TASK") \in 0 .. NUMBER["TASK"] - 1
        /\ Given(m, "TASK") \notin m.used["TASK"]
        /\ n.used["TASK"] = m.used["TASK"] \cup {Given(m, "TASK")}
    BY <1>3, <2>1, <2>3, <2>4, <2>5
  <2>8. /\ Given(m, "KSTACK") \in 0 .. NUMBER["KSTACK"] - 1
        /\ Given(m, "KSTACK") \notin m.used["KSTACK"]
        /\ n.used["KSTACK"] = m.used["KSTACK"] \cup {Given(m, "KSTACK")}
    BY <1>5, <2>1, <2>2, <2>4, <2>5, <2>6
  <2>9. /\ Given(m, "MM") \in 0 .. NUMBER["MM"] - 1
        /\ Given(m, "MM") \notin m.used["MM"]
        /\ n.used["MM"] = m.used["MM"] \cup {Given(m, "MM")}
    BY <1>7, <2>1, <2>2, <2>3, <2>5, <2>6
  <2>10. \A i \in 0 .. AREAS - 1 : /\ Number(m, "VMA", i) = Number(c, "VMA", i)
                                   /\ Number(m, "VMA", i) \in 0 .. NUMBER["VMA"] - 1
                                   /\ Number(m, "VMA", i) \notin m.used["VMA"]
    BY <1>9, <1>10, <1>12, <2>2, <2>3, <2>4
  <2>11. {Number(m, "VMA", i) : i \in 0 .. AREAS - 1} = {Number(c, "VMA", i) : i \in 0 .. AREAS - 1}
    BY <2>10
  <2>12. n.used["VMA"] = m.used["VMA"] \cup {Number(m, "VMA", i) : i \in 0 .. AREAS - 1}
    BY <1>9, <1>12, <2>2, <2>3, <2>4, <2>11
  <2>13. QED
    BY <2>7, <2>8, <2>9, <2>10, <2>12
<1>13. QED
  BY <1>1, <1>11, <1>12
-----------------------------------------------------------------------------
(* The invariant.                                                          *)

TaskFields == {"state", "cr3", "init_kern", "mm", "brk", "vm_end", "mmap"}

\* What a task_struct holds.
TasksTyped ==
  /\ DOMAIN task = Slots
  /\ \A t \in Tasks :
       /\ DOMAIN task[t] = TaskFields
       /\ task[t].brk \in Nat /\ task[t].vm_end \in Nat
       /\ \A f \in {"init_kern", "mm"} : task[t][f] \in Nat
       /\ t # IDLE => \A i \in 1 .. AREAS : task[t].mmap[i] \in Nat
  /\ IDLE \in Tasks

\* No page of the pools is held by two tasks, and the taken ones are held.
\* The idle thread has a stack, but no memory.
PagesHeld ==
  ~halted =>
    /\ used["TASK"] = Tasks
    /\ \A t, u \in Tasks : t # u => task[t].init_kern # task[u].init_kern
    /\ \A t, u \in Users : t # u =>
         /\ task[t].mm # task[u].mm
         /\ areas(t) \cap areas(u) = {}
    /\ allocated("KSTACK") = {task[t].init_kern - 1 : t \in Tasks}
    /\ allocated("MM") = {task[t].mm : t \in Users}
    /\ allocated("VMA") = UNION {areas(t) : t \in Users}

PoolInv == TypeOK /\ TasksTyped /\ PagesHeld

LEMMA PoolsKeep ==
  ASSUME PoolInv PROVE TypeOK /\ PoolsMatchTasks
BY DEF PoolInv, PagesHeld, PoolsMatchTasks, Users

LEMMA MemoryIs ==
  /\ DOMAIN Memory = MemFields /\ Memory.used = used /\ Memory.table = table
  /\ Memory.frames = frames /\ Memory.global_PML4 = global_PML4 /\ Memory.halted = FALSE
BY DEF Memory, MemFields

LEMMA MemorySound ==
  ASSUME TypeOK PROVE Sound(Memory) /\ Rooted(Memory)
BY MemoryIs DEF TypeOK, Sound, Rooted, TablePages, Frames

\* The calls leave the memory as the invariant asks for.
LEMMA BecomesSound ==
  ASSUME TypeOK, NEW m, NEW F, Takes(Memory, m, F), Rooted(m), becomes(m), current' \in Tasks'
  PROVE  TypeOK'
<1>1. Sound(m)
  BY DEF Takes
<1>2. /\ used' \in [Flags -> SUBSET Nat]
      /\ \A f \in Flags : used'[f] \subseteq 0 .. NUMBER[f] - 1
      /\ DOMAIN table' \subseteq TablePages /\ frames' \subseteq Frames
      /\ halted' \in BOOLEAN /\ global_PML4' \in DOMAIN table'
  BY <1>1 DEF becomes, Sound, Rooted
<1>3. QED
  BY <1>2 DEF TypeOK, TablePages, Frames

LEMMA AddressesAre ==
  /\ HEAP_BASE \in Nat /\ STACK_TOP \in Nat /\ CODE \in Nat /\ DATA \in Nat
<1>1. \A a, b \in Nat : a * TABLE_SIZE + b \in Nat
  BY ConstantsAre
<1>2. \A a, b, c, d \in Nat : at(a, b, c, d) \in Nat
  BY <1>1 DEF at
<1>3. QED
  BY <1>2 DEF HEAP_BASE, STACK_TOP, CODE, DATA

LEMMA AreaPagesAre ==
  ASSUME task[current].vm_end \in Nat
  PROVE  Len(area_pages) \in Nat
<1> DEFINE k == task[current].vm_end - HEAP_BASE
           a == <<CODE, DATA>>
           b == [i \in 1 .. k |-> HEAP_BASE + i - 1]
           c == [i \in 1 .. STACK_PAGES + 1 |-> STACK_TOP - STACK_PAGES + i - 1]
<1>1. k \in Int /\ STACK_PAGES \in Nat
  BY AddressesAre DEF STACK_PAGES
<1>2. a \in Seq(Int)
  BY AddressesAre
<1> HIDE DEF k
<1>3. b \in Seq(Int)
  <2>1. \A i \in 1 .. k : HEAP_BASE + i - 1 \in Int
    BY <1>1, AddressesAre
  <2>2. CASE k >= 0
    BY <1>1, <2>1, <2>2
  <2>3. CASE k < 0
    <3>1. 1 .. k = 1 .. 0
      BY <1>1, <2>3
    <3>2. b = [i \in 1 .. 0 |-> HEAP_BASE + i - 1]
      BY <3>1
    <3>3. [i \in 1 .. 0 |-> HEAP_BASE + i - 1] \in Seq(Int)
      BY AddressesAre
    <3>4. QED
      BY <3>2, <3>3
  <2>4. QED
    BY <1>1, <2>2, <2>3
<1>4. c \in Seq(Int)
  <2>1. \A i \in 1 .. STACK_PAGES + 1 : STACK_TOP - STACK_PAGES + i - 1 \in Int
    BY <1>1, AddressesAre
  <2>2. STACK_PAGES + 1 \in Nat
    BY <1>1
  <2>3. QED
    BY <2>1, <2>2
<1> HIDE DEF a, b, c
<1>5. a \o b \o c \in Seq(Int)
  BY <1>2, <1>3, <1>4
<1>6. area_pages = a \o b \o c
  BY DEF area_pages, a, b, c, k
<1>7. QED
  BY <1>5, <1>6, LenProperties
-----------------------------------------------------------------------------
(* Calls that take no page for a task.                                     *)

SameHolders ==
  /\ Tasks' = Tasks
  /\ \A t \in Tasks : /\ task'[t].init_kern = task[t].init_kern
                      /\ task'[t].mm = task[t].mm /\ task'[t].mmap = task[t].mmap

LEMMA HeldStill ==
  ASSUME PagesHeld, SameHolders, ~halted, \A f \in TaskPools : used'[f] = used[f]
  PROVE  PagesHeld'
<1>1. /\ used'["TASK"] = used["TASK"] /\ allocated("KSTACK")' = allocated("KSTACK")
      /\ allocated("MM")' = allocated("MM") /\ allocated("VMA")' = allocated("VMA")
  BY DEF TaskPools, allocated
<1>2. Users' = Users /\ Users \subseteq Tasks
  BY DEF SameHolders, Users
<1>3. \A t \in Tasks : areas(t)' = areas(t)
  BY DEF SameHolders, areas
<1>4. \A t, u \in Tasks : t # u => task'[t].init_kern # task'[u].init_kern
  BY DEF SameHolders, PagesHeld
<1>5. \A t, u \in Users : t # u => task'[t].mm # task'[u].mm /\ areas(t)' \cap areas(u)' = {}
  BY <1>2, <1>3 DEF SameHolders, PagesHeld
<1>6. /\ {task'[t].init_kern - 1 : t \in Tasks'} = {task[t].init_kern - 1 : t \in Tasks}
      /\ {task'[t].mm : t \in Users'} = {task[t].mm : t \in Users}
  BY <1>2 DEF SameHolders
<1>7. UNION {areas(t)' : t \in Users'} = UNION {areas(t) : t \in Users}
  BY <1>2, <1>3
<1>8. used'["TASK"] = Tasks'
  BY <1>1 DEF PagesHeld, SameHolders
<1>9. QED
  BY <1>1, <1>2, <1>4, <1>5, <1>6, <1>7, <1>8 DEF PagesHeld, SameHolders

\* A task with the same pages.
Renewed(r, s) ==
  /\ DOMAIN s = TaskFields
  /\ s.init_kern = r.init_kern /\ s.mm = r.mm /\ s.mmap = r.mmap
  /\ s.brk \in Nat /\ s.vm_end \in Nat

LEMMA TaskRenewed ==
  ASSUME TasksTyped, NEW c \in Tasks, NEW s, Renewed(task[c], s),
         task' = [task EXCEPT ![c] = s]
  PROVE  TasksTyped' /\ SameHolders
<1>1. /\ DOMAIN task = Slots /\ IDLE \in Tasks
      /\ \A t \in Tasks :
           /\ DOMAIN task[t] = TaskFields
           /\ task[t].brk \in Nat /\ task[t].vm_end \in Nat
           /\ task[t].init_kern \in Nat /\ task[t].mm \in Nat
           /\ t # IDLE => \A i \in 1 .. AREAS : task[t].mmap[i] \in Nat
  BY DEF TasksTyped
<1>2. /\ DOMAIN task' = Slots /\ task'[c] = s
      /\ \A t \in Slots : t # c => task'[t] = task[t]
  BY <1>1 DEF Tasks
<1>3. s # NoTask
  <2>1. DOMAIN NoTask = {"state"}
    BY DEF NoTask
  <2>2. QED
    BY <2>1 DEF Renewed, TaskFields
<1>4. Tasks' = Tasks
  BY <1>2, <1>3 DEF Tasks
<1>5. ASSUME NEW t \in Tasks
      PROVE  /\ task'[t].init_kern = task[t].init_kern
             /\ task'[t].mm = task[t].mm /\ task'[t].mmap = task[t].mmap
             /\ DOMAIN task'[t] = TaskFields
             /\ task'[t].brk \in Nat /\ task'[t].vm_end \in Nat
  <2>1. CASE t = c
    BY <1>2, <2>1 DEF Renewed
  <2>2. CASE t # c
    BY <1>1, <1>2, <2>2 DEF Tasks
  <2>3. QED
    BY <2>1, <2>2
<1>6. SameHolders
  BY <1>4, <1>5 DEF SameHolders
<1>7. ASSUME NEW t \in Tasks
      PROVE  /\ task'[t].init_kern \in Nat /\ task'[t].mm \in Nat
             /\ t # IDLE => \A i \in 1 .. AREAS : task'[t].mmap[i] \in Nat
  BY <1>1, <1>5
<1>8. QED
  BY <1>1, <1>2, <1>4, <1>5, <1>6, <1>7 DEF TasksTyped

\* The ways a task changes.
LEMMA RenewedIs ==
  ASSUME NEW r, DOMAIN r = TaskFields, r.brk \in Nat, r.vm_end \in Nat, NEW b \in Nat,
         NEW e \in Nat
  PROVE  /\ Renewed(r, r)
         /\ Renewed(r, [r EXCEPT !.state = "ended"])
         /\ Renewed(r, [r EXCEPT !.brk = b])
         /\ Renewed(r, [r EXCEPT !.brk = b, !.vm_end = e])
<1>1. Renewed(r, r)
  BY DEF Renewed
<1>2. Renewed(r, [r EXCEPT !.state = "ended"])
  BY DEF Renewed, TaskFields
<1>3. Renewed(r, [r EXCEPT !.brk = b])
  BY DEF Renewed, TaskFields
<1>4. Renewed(r, [r EXCEPT !.brk = b, !.vm_end = e])
  BY DEF Renewed, TaskFields
<1>5. QED
  BY <1>1, <1>2, <1>3, <1>4

\* A call that takes no page for a task keeps the invariant.
LEMMA QuietStep ==
  ASSUME PoolInv, ~halted, NEW m, NEW F, F \cap TaskPools = {}, Takes(Memory, m, F),
         m.global_PML4 = global_PML4, becomes(m), TasksTyped', SameHolders, current' \in Tasks
  PROVE  PoolInv'
<1>1. Sound(Memory) /\ Rooted(Memory)
  BY MemorySound DEF PoolInv
<1>2. Rooted(m)
  BY <1>1, MemoryIs, RootedStays
<1>3. TypeOK'
  BY <1>2, BecomesSound DEF PoolInv, SameHolders
<1>4. \A f \in TaskPools : used'[f] = used[f]
  <2>1. TaskPools \subseteq Flags
    BY DEF TaskPools, Flags
  <2>2. used' = m.used
    BY DEF becomes
  <2>3. QED
    BY <2>1, <2>2, MemoryIs DEF Takes
<1>5. QED
  BY <1>3, <1>4, HeldStill DEF PoolInv

\* So does one that changes one task, or none.
LEMMA QuietChange ==
  ASSUME PoolInv, ~halted, NEW m, NEW F, F \cap TaskPools = {}, Takes(Memory, m, F),
         m.global_PML4 = global_PML4, becomes(m), current' \in Tasks,
         NEW c \in Tasks, NEW s, Renewed(task[c], s), task' = [task EXCEPT ![c] = s]
  PROVE  PoolInv'
<1>1. TasksTyped' /\ SameHolders
  BY TaskRenewed DEF PoolInv
<1>2. QED
  BY <1>1, QuietStep

LEMMA QuietNone ==
  ASSUME PoolInv, ~halted, NEW m, NEW F, F \cap TaskPools = {}, Takes(Memory, m, F),
         m.global_PML4 = global_PML4, becomes(m), current' \in Tasks, task' = task
  PROVE  PoolInv'
<1>1. TasksTyped' /\ SameHolders
  BY DEF PoolInv, TasksTyped, SameHolders, Tasks
<1>2. QED
  BY <1>1, QuietStep

\* What the running task is.
LEMMA CurrentIs ==
  ASSUME PoolInv, calls
  PROVE  /\ ~halted /\ current \in Tasks /\ current # IDLE
         /\ DOMAIN task[current] = TaskFields /\ task[current].brk \in Nat
         /\ task[current].vm_end \in Nat
         /\ Sound(Memory) /\ Rooted(Memory) /\ Memory.global_PML4 = global_PML4
  BY MemorySound, MemoryIs DEF PoolInv, calls, Users, TasksTyped

LEMMA ExecFailsStep ==
  ASSUME PoolInv, do_execv_fails PROVE PoolInv'
<1> DEFINE m == new_stack(Memory, cr3)
           s == [task[current] EXCEPT !.brk = HEAP_BASE + 1]
<1>1. becomes(m) /\ calls /\ current' = current
      /\ task' = [task EXCEPT ![current].brk = HEAP_BASE + 1]
  BY DEF do_execv_fails, allocates
<1>2. HEAP_BASE + 1 \in Nat
  BY AddressesAre
<1>3. Renewed(task[current], s)
  BY <1>1, <1>2, CurrentIs, RenewedIs
<1>4. task' = [task EXCEPT ![current] = s]
  BY <1>1
<1>5. Takes(Memory, m, {}) /\ m.global_PML4 = global_PML4
  BY <1>1, CurrentIs, NewStackIs
<1> HIDE DEF m, s
<1>6. QED
  BY <1>1, <1>3, <1>4, <1>5, CurrentIs, QuietChange

LEMMA ExecStep ==
  ASSUME PoolInv, do_execv PROVE PoolInv'
<1> DEFINE a == new_stack(Memory, cr3)
           m == load_elf(a)
           s == [task[current] EXCEPT !.brk = HEAP_BASE + 1, !.vm_end = HEAP_BASE + 1]
           F == {"FILE", "USERPT"}
<1>1. becomes(m) /\ calls /\ current' = current
      /\ task' = IF m.halted THEN task
                 ELSE [task EXCEPT ![current].brk = HEAP_BASE + 1,
                                   ![current].vm_end = HEAP_BASE + 1]
  BY DEF do_execv, allocates
<1>2. HEAP_BASE + 1 \in Nat
  BY AddressesAre
<1>3. Renewed(task[current], s)
  BY <1>1, <1>2, CurrentIs, RenewedIs
<1>4. task' = task \/ task' = [task EXCEPT ![current] = s]
  <2>1. [task EXCEPT ![current].brk = HEAP_BASE + 1, ![current].vm_end = HEAP_BASE + 1]
          = [task EXCEPT ![current] = s]
    BY <1>1, CurrentIs DEF PoolInv, TasksTyped
  <2> HIDE DEF m, s
  <2>2. QED
    BY <1>1, <2>1
<1>5. Takes(Memory, a, {}) /\ a.global_PML4 = global_PML4
  BY <1>1, CurrentIs, NewStackIs
<1> HIDE DEF a
<1>6. Sound(a) /\ Takes(Memory, a, F)
  BY <1>5, TakesMore DEF Takes
<1>7. Takes(a, m, F) /\ m.global_PML4 = a.global_PML4
  BY <1>6, LoadElfIs
<1>8. Takes(Memory, m, F)
  BY <1>6, <1>7, TakesThen
<1>9. F \cap TaskPools = {}
  BY DEF TaskPools
<1> HIDE DEF m, s, F
<1>10. CASE task' = task
  BY <1>1, <1>5, <1>7, <1>8, <1>9, <1>10, CurrentIs, QuietNone
<1>11. CASE task' = [task EXCEPT ![current] = s]
  BY <1>1, <1>3, <1>5, <1>7, <1>8, <1>9, <1>11, CurrentIs, QuietChange
<1>12. QED
  BY <1>4, <1>10, <1>11

\* Nothing is taken.
LEMMA MemoryStays ==
  ASSUME PoolInv, ~halted, UNCHANGED <<ram, halted>>
  PROVE  becomes(Memory) /\ Takes(Memory, Memory, {}) /\ Memory.global_PML4 = global_PML4
<1>1. Sound(Memory)
  BY MemorySound DEF PoolInv
<1>2. used' = used /\ table' = table /\ frames' = frames /\ global_PML4' = global_PML4
      /\ halted' = halted /\ halted = FALSE
  BY DEF ram, PoolInv, TypeOK
<1>3. QED
  BY <1>1, <1>2, MemoryIs, TakesNone DEF becomes

LEMMA SbrkStep ==
  ASSUME PoolInv, NEW n \in INCREMENTS, do_sbrk(n) PROVE PoolInv'
<1> DEFINE b == task[current].brk + n
           s == [task[current] EXCEPT !.brk = b, !.vm_end = b]
<1>1. calls /\ current' = current /\ UNCHANGED <<ram, halted>>
      /\ task' = [task EXCEPT ![current].brk = @ + n,
                              ![current].vm_end = task[current].brk + n]
  BY DEF do_sbrk
<1>2. b \in Nat
  BY <1>1, CurrentIs, ConstantsAre DEF INCREMENTS
<1>3. Renewed(task[current], s)
  BY <1>1, <1>2, CurrentIs, RenewedIs
<1>4. task' = [task EXCEPT ![current] = s]
  BY <1>1, CurrentIs DEF PoolInv, TasksTyped
<1> HIDE DEF s
<1>5. QED
  BY <1>1, <1>3, <1>4, CurrentIs, MemoryStays, QuietChange

LEMMA ChosenIs ==
  ASSUME PoolInv, current' \in switched((Ready \cap Users) \ {current})
  PROVE  current' \in Tasks
  BY DEF switched, Users, PoolInv, TasksTyped

LEMMA ExitStep ==
  ASSUME PoolInv, do_exit PROVE PoolInv'
<1> DEFINE s == [task[current] EXCEPT !.state = "ended"]
<1>1. calls /\ UNCHANGED <<ram, halted>> /\ task' = [task EXCEPT ![current].state = "ended"]
      /\ current' \in switched((Ready \cap Users) \ {current})
  BY DEF do_exit
<1>2. Renewed(task[current], s)
  BY <1>1, CurrentIs, RenewedIs
<1>3. task' = [task EXCEPT ![current] = s]
  BY <1>1
<1> HIDE DEF s
<1>4. QED
  BY <1>1, <1>2, <1>3, CurrentIs, ChosenIs, MemoryStays, QuietChange

LEMMA KillStep ==
  ASSUME PoolInv, NEW t \in Users, do_kill(t) PROVE PoolInv'
<1> DEFINE s == [task[t] EXCEPT !.state = "ended"]
<1>1. calls /\ UNCHANGED <<ram, current, halted>> /\ task' = [task EXCEPT ![t].state = "ended"]
      /\ t \in Tasks
  BY DEF do_kill, Users
<1>2. DOMAIN task[t] = TaskFields /\ task[t].brk \in Nat /\ task[t].vm_end \in Nat
  BY <1>1 DEF PoolInv, TasksTyped
<1>3. Renewed(task[t], s)
  BY <1>2, RenewedIs
<1>4. task' = [task EXCEPT ![t] = s]
  BY <1>1
<1> HIDE DEF s
<1>5. QED
  BY <1>1, <1>3, <1>4, CurrentIs, MemoryStays, QuietChange

LEMMA ScheduleStep ==
  ASSUME PoolInv, schedule PROVE PoolInv'
<1>1. ~halted /\ UNCHANGED <<ram, task, halted>>
      /\ current' \in switched((Ready \cap Users) \ {current})
  BY DEF schedule
<1>2. QED
  BY <1>1, ChosenIs, MemoryStays, QuietNone

LEMMA DemandStep ==
  ASSUME PoolInv, NEW page \in accessible, demand_paging(page) PROVE PoolInv'
<1> DEFINE F == CHOOSE g : IsDown(g, page)
<1>1. allocates /\ calls /\ becomes(F[PT]) /\ UNCHANGED <<task, current>>
  BY Zenon DEF demand_paging, IsDown, DownItem, Demand, allocates
<1>2. F[PT] = Handled(page)
  BY DownIs
<1> HIDE DEF F
<1>3. HasFree(Memory, 4)
  BY <1>1 DEF allocates, HasFree, FRAMES_OF_A_CALL
<1>4. Takes(Memory, Handled(page), {}) /\ Handled(page).global_PML4 = global_PML4
  BY <1>1, <1>3, CurrentIs, HandledIs DEF Serves
<1>5. becomes(Handled(page))
  BY <1>1, <1>2
<1>6. QED
  BY <1>1, <1>4, <1>5, CurrentIs, QuietNone

LEMMA CopyStep ==
  ASSUME PoolInv, NEW page \in accessible, NEW b \in BOOLEAN, copy_on_write(page, b)
  PROVE  PoolInv'
<1> DEFINE old == self_ref_read(Memory, cr3, PT, page)
           e   == entry(old.to, {"P", "W", "U"})
           m1  == take_frame(Memory)
           m2  == self_ref_write(m1, cr3, PT, VIR_START + 1, user_entry(Memory))
           m3  == self_ref_write(m2, cr3, PT, page, user_entry(Memory))
           p   == put_back(m3, self_ref_read(m1, cr3, PT, VIR_START + 1))
           q   == self_ref_write(Memory, cr3, PT, page, e)
           m   == IF b THEN p ELSE q
<1>1. becomes(m) /\ calls /\ UNCHANGED <<task, current>>
  BY DEF copy_on_write, allocates
<1>2. Serves(Memory, p) /\ Serves(Memory, q)
  BY <1>1, CurrentIs, CopyIs
<1> HIDE DEF p, q
<1>3. Serves(Memory, m)
  BY <1>2
<1> HIDE DEF m
<1>4. Takes(Memory, m, {}) /\ m.global_PML4 = global_PML4
  BY <1>1, <1>3, CurrentIs DEF Serves
<1>5. QED
  BY <1>1, <1>4, CurrentIs, QuietNone
-----------------------------------------------------------------------------
(* fork.                                                                   *)

\* The record of a new task names the pages that task_pages takes.
LEMMA NewTaskIs ==
  ASSUME NEW m, NEW root, NEW b \in Nat, NEW e \in Nat,
         \A f \in {"KSTACK", "MM"} : Given(m, f) \in Nat,
         \A i \in 0 .. AREAS - 1 : Number(m, "VMA", i) \in Nat
  PROVE  LET r == new_task(m, root, b, e)
         IN /\ DOMAIN r = TaskFields /\ r.brk = b /\ r.vm_end = e
            /\ r.init_kern = get_base["KSTACK"] + Given(m, "KSTACK") + 1
            /\ r.mm = get_base["MM"] + Given(m, "MM")
            /\ r.init_kern \in Nat /\ r.mm \in Nat
            /\ \A i \in 1 .. AREAS :
                 /\ r.mmap[i] = get_base["VMA"] + Number(m, "VMA", i - 1)
                 /\ r.mmap[i] \in Nat
<1> DEFINE r == new_task(m, root, b, e)
<1>1. /\ DOMAIN r = TaskFields /\ r.brk = b /\ r.vm_end = e
      /\ r.init_kern = address(m, "KSTACK") /\ r.mm = page_of(m, "MM")
      /\ r.mmap = [i \in 1 .. AREAS |-> page_of(kmallocs(m, "VMA", i - 1), "VMA")]
  BY DEF new_task, TaskFields
<1> HIDE DEF r
<1>2. \A f \in {"KSTACK", "MM", "VMA"} : get_base[f] \in Nat
  BY BasesAre DEF Flags
<1>3. r.init_kern = get_base["KSTACK"] + Given(m, "KSTACK") + 1
  BY <1>1 DEF address, page_of, Given
<1>4. r.mm = get_base["MM"] + Given(m, "MM")
  BY <1>1 DEF page_of, Given
<1>5. ASSUME NEW i \in 1 .. AREAS
      PROVE  /\ r.mmap[i] = get_base["VMA"] + Number(m, "VMA", i - 1)
             /\ r.mmap[i] \in Nat
  <2>1. i - 1 \in 0 .. AREAS - 1
    BY DEF AREAS
  <2>2. r.mmap[i] = page_of(kmallocs(m, "VMA", i - 1), "VMA")
    BY <1>1
  <2>3. r.mmap[i] = get_base["VMA"] + Number(m, "VMA", i - 1)
    BY <2>2 DEF page_of, Number, Given
  <2>4. QED
    BY <1>2, <2>1, <2>3
<1>6. r.init_kern \in Nat /\ r.mm \in Nat
  BY <1>2, <1>3, <1>4
<1>7. QED
  BY <1>1, <1>3, <1>4, <1>5, <1>6 DEF r

\* A task is added.
Added(c, r) ==
  /\ c \in Slots /\ c \notin Tasks /\ DOMAIN r = TaskFields
  /\ r.brk \in Nat /\ r.vm_end \in Nat /\ r.init_kern \in Nat /\ r.mm \in Nat
  /\ \A i \in 1 .. AREAS : r.mmap[i] \in Nat
  /\ task' = [task EXCEPT ![c] = r]

LEMMA AddedIs ==
  ASSUME TasksTyped, NEW c, NEW r, Added(c, r)
  PROVE  /\ TasksTyped' /\ Tasks' = Tasks \cup {c} /\ Users' = Users \cup {c}
         /\ c # IDLE /\ task'[c] = r /\ \A t \in Tasks : task'[t] = task[t]
<1>1. /\ DOMAIN task = Slots /\ IDLE \in Tasks /\ Tasks \subseteq Slots
      /\ \A t \in Tasks :
           /\ DOMAIN task[t] = TaskFields
           /\ task[t].brk \in Nat /\ task[t].vm_end \in Nat
           /\ task[t].init_kern \in Nat /\ task[t].mm \in Nat
           /\ t # IDLE => \A i \in 1 .. AREAS : task[t].mmap[i] \in Nat
  BY DEF TasksTyped, Tasks
<1>2. /\ DOMAIN task' = Slots /\ task'[c] = r
      /\ \A t \in Slots : t # c => task'[t] = task[t]
  BY <1>1 DEF Added
<1>3. r # NoTask
  <2>1. DOMAIN NoTask = {"state"}
    BY DEF NoTask
  <2>2. QED
    BY <2>1 DEF Added, TaskFields
<1>4. Tasks' = Tasks \cup {c}
  BY <1>2, <1>3 DEF Tasks, Added
<1>5. c # IDLE /\ \A t \in Tasks : task'[t] = task[t]
  BY <1>1, <1>2 DEF Added
<1>6. Users' = Users \cup {c}
  BY <1>4, <1>5 DEF Users
<1>7. ASSUME NEW t \in Tasks'
      PROVE  /\ DOMAIN task'[t] = TaskFields
             /\ task'[t].brk \in Nat /\ task'[t].vm_end \in Nat
             /\ task'[t].init_kern \in Nat /\ task'[t].mm \in Nat
             /\ t # IDLE => \A i \in 1 .. AREAS : task'[t].mmap[i] \in Nat
  <2>1. CASE t = c
    BY <1>2, <2>1 DEF Added
  <2>2. CASE t \in Tasks
    BY <1>1, <1>5, <2>2
  <2>3. QED
    BY <1>4, <2>1, <2>2
<1>8. TasksTyped'
  BY <1>1, <1>2, <1>4, <1>7 DEF TasksTyped
<1>9. QED
  BY <1>2, <1>4, <1>5, <1>6, <1>8

\* Its record names pages of the pools, which have just been given,
Names(r, s, y, V) ==
  /\ r.init_kern = get_base["KSTACK"] + s + 1 /\ r.mm = get_base["MM"] + y
  /\ {r.mmap[i] : i \in 1 .. AREAS} = {get_base["VMA"] + v : v \in V}

GivenNow(c, s, y, V) ==
  /\ s \notin used["KSTACK"] /\ y \notin used["MM"] /\ V \cap used["VMA"] = {}
  /\ used'["TASK"] = used["TASK"] \cup {c} /\ used'["KSTACK"] = used["KSTACK"] \cup {s}
  /\ used'["MM"] = used["MM"] \cup {y} /\ used'["VMA"] = used["VMA"] \cup V

\* Its pages are ones that were not taken: no one holds them yet.
LEMMA HeldByNew ==
  ASSUME TypeOK, TasksTyped, PagesHeld, ~halted, NEW c, NEW r, Added(c, r), c \in Nat,
         NEW s \in Nat, NEW y \in Nat, NEW V \in SUBSET Nat,
         Names(r, s, y, V), GivenNow(c, s, y, V)
  PROVE  PagesHeld'
<1>0. /\ s \notin used["KSTACK"] /\ y \notin used["MM"] /\ V \cap used["VMA"] = {}
      /\ r.init_kern = get_base["KSTACK"] + s + 1 /\ r.mm = get_base["MM"] + y
      /\ {r.mmap[i] : i \in 1 .. AREAS} = {get_base["VMA"] + v : v \in V}
      /\ used'["TASK"] = used["TASK"] \cup {c} /\ used'["KSTACK"] = used["KSTACK"] \cup {s}
      /\ used'["MM"] = used["MM"] \cup {y} /\ used'["VMA"] = used["VMA"] \cup V
  BY DEF Names, GivenNow
<1> DEFINE B(t) == {task'[t].mmap[i] : i \in 1 .. AREAS}
<1>1. /\ Tasks' = Tasks \cup {c} /\ Users' = Users \cup {c}
      /\ task'[c] = r /\ \A t \in Tasks : task'[t] = task[t]
  BY AddedIs
<1>2. c \notin Tasks /\ c \notin Users /\ Users \subseteq Tasks
  BY DEF Added, Users
<1>3. /\ \A f \in {"KSTACK", "MM", "VMA"} : get_base[f] \in Nat /\ used[f] \subseteq Nat
  BY BasesAre DEF TypeOK, Flags
<1>4. /\ \A t \in Tasks : task[t].init_kern \in Nat /\ task[t].mm \in Nat
      /\ \A t \in Users : areas(t) \subseteq Nat
  <2>1. \A t \in Tasks : task[t].init_kern \in Nat /\ task[t].mm \in Nat
    BY DEF TasksTyped
  <2>2. \A t \in Users : \A i \in 1 .. AREAS : task[t].mmap[i] \in Nat
    BY DEF TasksTyped, Users
  <2>3. QED
    BY <2>1, <2>2 DEF areas
<1>5. /\ used["TASK"] = Tasks
      /\ \A t, u \in Tasks : t # u => task[t].init_kern # task[u].init_kern
      /\ \A t, u \in Users : t # u => /\ task[t].mm # task[u].mm
                                      /\ areas(t) \cap areas(u) = {}
      /\ allocated("KSTACK") = {task[t].init_kern - 1 : t \in Tasks}
      /\ allocated("MM") = {task[t].mm : t \in Users}
      /\ allocated("VMA") = UNION {areas(t) : t \in Users}
  BY DEF PagesHeld
<1>6. B(c) = {get_base["VMA"] + v : v \in V} /\ \A t \in Users : B(t) = areas(t)
  <2>1. B(c) = {r.mmap[i] : i \in 1 .. AREAS}
    BY <1>1
  <2>2. \A t \in Users : B(t) = areas(t)
    BY <1>1, <1>2 DEF areas
  <2>3. QED
    BY <1>0, <2>1, <2>2
<1> HIDE DEF B
\* Nothing that is allocated has a number of the new task.
<1>7. ASSUME NEW f \in {"KSTACK", "MM", "VMA"}, NEW x \in Nat, x \notin used[f]
      PROVE  get_base[f] + x \notin allocated(f)
  <2> SUFFICES ASSUME NEW i \in used[f], get_base[f] + x = get_base[f] + i PROVE FALSE
    BY DEF allocated
  <2>1. get_base[f] \in Nat /\ i \in Nat
    BY <1>3
  <2>2. QED
    BY <1>7, <2>1
<1>8. ASSUME NEW t \in Tasks PROVE task[t].init_kern # r.init_kern
  <2>1. task[t].init_kern - 1 \in allocated("KSTACK")
    BY <1>5
  <2>2. get_base["KSTACK"] + s \notin allocated("KSTACK")
    BY <1>0, <1>7
  <2>3. QED
    BY <1>0, <1>3, <1>4, <2>1, <2>2
<1>9. ASSUME NEW t \in Users PROVE task[t].mm # r.mm /\ areas(t) \cap B(c) = {}
  <2>1. task[t].mm \in allocated("MM") /\ get_base["MM"] + y \notin allocated("MM")
    BY <1>0, <1>5, <1>7
  <2>2. \A v \in V : get_base["VMA"] + v \notin allocated("VMA")
    BY <1>0, <1>7
  <2>3. areas(t) \subseteq allocated("VMA")
    BY <1>5
  <2>4. QED
    BY <1>0, <1>6, <2>1, <2>2, <2>3
<1>10. \A t, u \in Tasks' : t # u => task'[t].init_kern # task'[u].init_kern
  BY <1>1, <1>2, <1>5, <1>8
<1>11. \A t, u \in Users' : t # u => task'[t].mm # task'[u].mm /\ B(t) \cap B(u) = {}
  <2> SUFFICES ASSUME NEW t \in Users', NEW u \in Users', t # u
               PROVE  task'[t].mm # task'[u].mm /\ B(t) \cap B(u) = {}
    OBVIOUS
  <2>1. CASE t \in Users /\ u \in Users
    BY <1>1, <1>2, <1>5, <1>6, <2>1
  <2>2. CASE t = c /\ u \in Users
    <3>1. /\ task[u].mm # r.mm /\ areas(u) \cap B(c) = {}
          /\ task'[u] = task[u] /\ B(u) = areas(u)
      BY <1>1, <1>2, <1>6, <1>9, <2>2
    <3>2. task'[t] = r /\ B(t) = B(c)
      BY <1>1, <2>2
    <3>3. task'[t].mm # task'[u].mm
      BY <3>1, <3>2
    <3>4. B(t) \cap B(u) = {}
      BY <3>1, <3>2
    <3>5. QED
      BY <3>3, <3>4
  <2>3. CASE u = c /\ t \in Users
    BY <1>1, <1>2, <1>6, <1>9, <2>3
  <2>4. QED
    BY <1>1, <2>1, <2>2, <2>3
<1>12. /\ allocated("KSTACK")' = allocated("KSTACK") \cup {get_base["KSTACK"] + s}
       /\ allocated("MM")' = allocated("MM") \cup {get_base["MM"] + y}
       /\ allocated("VMA")' = allocated("VMA") \cup {get_base["VMA"] + v : v \in V}
  <2>1. /\ used'["KSTACK"] = used["KSTACK"] \cup {s} /\ used'["MM"] = used["MM"] \cup {y}
        /\ used'["VMA"] = used["VMA"] \cup V
    BY <1>0
  <2>2. QED
    BY <2>1 DEF allocated
<1>13. allocated("KSTACK")' = {task'[t].init_kern - 1 : t \in Tasks'}
  <2>1. {task'[t].init_kern - 1 : t \in Tasks'}
          = {task[t].init_kern - 1 : t \in Tasks} \cup {r.init_kern - 1}
    BY <1>1
  <2>2. r.init_kern - 1 = get_base["KSTACK"] + s
    BY <1>0, <1>3
  <2>3. QED
    BY <1>5, <1>12, <2>1, <2>2
<1>14. allocated("MM")' = {task'[t].mm : t \in Users'}
  <2>1. {task'[t].mm : t \in Users'} = {task[t].mm : t \in Users} \cup {r.mm}
    BY <1>1, <1>2
  <2>2. QED
    BY <1>0, <1>5, <1>12, <2>1
<1>15. allocated("VMA")' = UNION {B(t) : t \in Users'}
  <2>1. Users' = Users \cup {c} /\ \A t \in Users : B(t) = areas(t)
    BY <1>1, <1>6
  <2>2. UNION {B(t) : t \in Users \cup {c}} = (UNION {B(t) : t \in Users}) \cup B(c)
    OBVIOUS
  <2>3. UNION {B(t) : t \in Users} = UNION {areas(t) : t \in Users}
    BY <2>1
  <2>4. allocated("VMA")' = (UNION {areas(t) : t \in Users}) \cup B(c)
    <3>1. allocated("VMA")' = allocated("VMA") \cup B(c)
      BY <1>6, <1>12
    <3>2. allocated("VMA") = UNION {areas(t) : t \in Users}
      BY <1>5
    <3>3. QED
      BY <3>1, <3>2, Zenon
  <2>5. UNION {B(t) : t \in Users'} = UNION {B(t) : t \in Users \cup {c}}
    BY <2>1
  <2>6. QED
    BY <2>2, <2>3, <2>4, <2>5
<1>16. /\ \A t, u \in Users' : t # u => task'[t].mm # task'[u].mm /\ areas(t)' \cap areas(u)' = {}
       /\ allocated("VMA")' = UNION {areas(t)' : t \in Users'}
  BY <1>11, <1>15 DEF areas, B
<1>17. used'["TASK"] = Tasks'
  BY <1>0, <1>1, <1>5
<1>18. QED
  BY <1>10, <1>13, <1>14, <1>16, <1>17 DEF PagesHeld

LEMMA ForkStep ==
  ASSUME PoolInv, do_fork PROVE PoolInv'
<1> DEFINE n == task_pages(Memory)
           m == set_child_pt(n)
           c == Given(Memory, "TASK")
           r == new_task(Memory, m.global_PML4, task[current].brk, task[current].vm_end)
           s == Given(Memory, "KSTACK")
           y == Given(Memory, "MM")
           V == {Number(Memory, "VMA", i) : i \in 0 .. AREAS - 1}
           F == TaskPools \cup {"USERPT"}
<1>1. /\ calls /\ becomes(m) /\ current' = current
      /\ task' = IF m.halted THEN task ELSE [task EXCEPT ![c] = r]
  BY DEF do_fork, Given
<1>2. /\ ~halted /\ current \in Tasks /\ task[current].brk \in Nat /\ task[current].vm_end \in Nat
      /\ Sound(Memory) /\ Rooted(Memory) /\ Memory.global_PML4 = global_PML4
  BY <1>1, CurrentIs
<1>3. /\ Takes(Memory, n, TaskPools) /\ n.global_PML4 = Memory.global_PML4
      /\ ~n.halted =>
           /\ \A f \in {"TASK", "KSTACK", "MM"} :
                /\ Given(Memory, f) \in 0 .. NUMBER[f] - 1 /\ Given(Memory, f) \notin Memory.used[f]
                /\ n.used[f] = Memory.used[f] \cup {Given(Memory, f)}
           /\ \A i \in 0 .. AREAS - 1 :
                /\ Number(Memory, "VMA", i) \in 0 .. NUMBER["VMA"] - 1
                /\ Number(Memory, "VMA", i) \notin Memory.used["VMA"]
           /\ n.used["VMA"] = Memory.used["VMA"] \cup V
  BY <1>2, TaskPagesAre
<1>4. Takes(n, m, {"USERPT"}) /\ Rooted(m)
  <2>1. Len(area_pages) \in Nat
    BY <1>2, AreaPagesAre
  <2>2. Sound(n) /\ Rooted(n)
    BY <1>2, <1>3, RootedStays DEF Takes
  <2> HIDE DEF n
  <2>3. QED
    BY <2>1, <2>2, SetChildPtIs
<1> HIDE DEF n, m, r, c, s, y, V, F
<1>5. Takes(Memory, m, F)
  BY <1>3, <1>4, TakesMore, TakesThen DEF F
<1>6. CASE m.halted
  <2>1. task' = task /\ halted' = m.halted
    BY <1>1, <1>6 DEF becomes
  <2>2. TasksTyped' /\ Tasks' = Tasks
    BY <2>1 DEF PoolInv, TasksTyped, Tasks
  <2>3. PagesHeld'
    BY <1>6, <2>1 DEF PagesHeld
  <2>4. TypeOK'
    BY <1>1, <1>2, <1>4, <1>5, <2>2, BecomesSound DEF PoolInv
  <2>5. QED
    BY <2>2, <2>3, <2>4 DEF PoolInv
<1>7. CASE ~m.halted
  <2>1. ~n.halted
    BY <1>4, <1>7 DEF Takes
  <2>2. Memory.used = used /\ used' = m.used /\ task' = [task EXCEPT ![c] = r]
    BY <1>1, <1>7, MemoryIs DEF becomes
  <2>3. \A f \in TaskPools : used'[f] = n.used[f]
    BY <1>4, <2>2 DEF Takes, TaskPools, Flags
  <2>4. /\ c \in 0 .. NUMBER["TASK"] - 1 /\ s \in 0 .. NUMBER["KSTACK"] - 1
        /\ y \in 0 .. NUMBER["MM"] - 1
        /\ c \notin used["TASK"] /\ s \notin used["KSTACK"] /\ y \notin used["MM"]
        /\ used'["TASK"] = used["TASK"] \cup {c} /\ used'["KSTACK"] = used["KSTACK"] \cup {s}
        /\ used'["MM"] = used["MM"] \cup {y}
    BY <1>3, <2>1, <2>2, <2>3 DEF c, s, y, TaskPools
  <2>5. /\ \A i \in 0 .. AREAS - 1 : /\ Number(Memory, "VMA", i) \in Nat
                                     /\ Number(Memory, "VMA", i) \notin used["VMA"]
        /\ used'["VMA"] = used["VMA"] \cup V
    <3>1. \A i \in 0 .. AREAS - 1 : /\ Number(Memory, "VMA", i) \in 0 .. NUMBER["VMA"] - 1
                                    /\ Number(Memory, "VMA", i) \notin used["VMA"]
      BY <1>3, <2>1, <2>2
    <3>2. used'["VMA"] = used["VMA"] \cup V
      BY <1>3, <2>1, <2>2, <2>3 DEF TaskPools
    <3>3. NUMBER["VMA"] \in Nat
      BY NumbersAre DEF Flags
    <3>4. QED
      BY <3>1, <3>2, <3>3
  <2>6. c \in Slots /\ c \notin Tasks /\ c \in Nat /\ s \in Nat /\ y \in Nat
    BY <1>2, <2>4, NumbersAre, ConstantsAre DEF Slots, PoolInv, PagesHeld
  <2>7. V \in SUBSET Nat /\ V \cap used["VMA"] = {}
    BY <2>5 DEF V
  <2>8. /\ DOMAIN r = TaskFields /\ r.brk \in Nat /\ r.vm_end \in Nat
        /\ r.init_kern = get_base["KSTACK"] + s + 1 /\ r.mm = get_base["MM"] + y
        /\ r.init_kern \in Nat /\ r.mm \in Nat
        /\ \A i \in 1 .. AREAS : /\ r.mmap[i] = get_base["VMA"] + Number(Memory, "VMA", i - 1)
                                 /\ r.mmap[i] \in Nat
    <3>1. \A f \in {"KSTACK", "MM"} : Given(Memory, f) \in Nat
      BY <2>6 DEF s, y
    <3>2. \A i \in 0 .. AREAS - 1 : Number(Memory, "VMA", i) \in Nat
      BY <2>5
    <3>3. QED
      BY <1>2, <3>1, <3>2, NewTaskIs DEF r, s, y
  <2>9. {r.mmap[i] : i \in 1 .. AREAS} = {get_base["VMA"] + v : v \in V}
    <3>1. ASSUME NEW i \in 1 .. AREAS PROVE r.mmap[i] \in {get_base["VMA"] + v : v \in V}
      <4>1. i - 1 \in 0 .. AREAS - 1
        BY DEF AREAS
      <4>2. Number(Memory, "VMA", i - 1) \in V
        BY <4>1 DEF V
      <4>3. QED
        BY <2>8, <4>2
    <3>2. ASSUME NEW j \in 0 .. AREAS - 1
          PROVE  get_base["VMA"] + Number(Memory, "VMA", j) \in {r.mmap[i] : i \in 1 .. AREAS}
      <4>1. j + 1 \in 1 .. AREAS /\ j + 1 - 1 = j
        BY DEF AREAS
      <4>2. r.mmap[j + 1] = get_base["VMA"] + Number(Memory, "VMA", j)
        BY <2>8, <4>1
      <4>3. QED
        BY <4>1, <4>2
    <3>3. QED
      BY <3>1, <3>2 DEF V
  <2>10. Added(c, r)
    BY <2>2, <2>6, <2>8 DEF Added
  <2>11. TasksTyped' /\ Tasks' = Tasks \cup {c}
    BY <2>10, AddedIs DEF PoolInv
  <2>12. PagesHeld'
    <3>1. TypeOK /\ TasksTyped /\ PagesHeld /\ ~halted
      BY <1>2 DEF PoolInv
    <3>2. Names(r, s, y, V)
      BY <2>8, <2>9 DEF Names
    <3>3. GivenNow(c, s, y, V)
      BY <2>4, <2>5, <2>7 DEF GivenNow
    <3>4. QED
      BY <2>6, <2>7, <2>10, <3>1, <3>2, <3>3, HeldByNew
  <2>13. TypeOK'
    BY <1>1, <1>2, <1>4, <1>5, <2>11, BecomesSound DEF PoolInv
  <2>14. QED
    BY <2>11, <2>12, <2>13 DEF PoolInv
<1>8. QED
  BY <1>6, <1>7
-----------------------------------------------------------------------------
(* clean_dead.                                                             *)

Bits(f, addrs) == {bit_of(f, addr) : addr \in addrs}

Frees(m, n, f, addrs) ==
  /\ Maps(m, n, {f})
  /\ n.used[f] = m.used[f] \ Bits(f, addrs)
  /\ n.halted = m.halted

LEMMA KfreeIs ==
  ASSUME NEW m, Sound(m), NEW f \in Flags, NEW addrs
  PROVE  Frees(m, kfree(m, f, addrs), f, addrs)
<1> DEFINE X == Bits(f, addrs)
           n == [m EXCEPT !.used[f] = @ \ X]
<1>1. kfree(m, f, addrs) = n
  BY DEF kfree, Bits
<1> HIDE DEF X
<1>2. /\ DOMAIN m = MemFields /\ m.used \in [Flags -> SUBSET Nat]
      /\ \A g \in Flags : m.used[g] \subseteq 0 .. NUMBER[g] - 1
  BY DEF Sound
<1>3. /\ DOMAIN n = MemFields /\ n.table = m.table /\ n.frames = m.frames
      /\ n.global_PML4 = m.global_PML4 /\ n.halted = m.halted
      /\ n.used = [m.used EXCEPT ![f] = @ \ X]
  BY <1>2 DEF MemFields
<1> HIDE DEF n
<1>4. /\ n.used \in [Flags -> SUBSET Nat] /\ n.used[f] = m.used[f] \ X
      /\ \A g \in Flags : g # f => n.used[g] = m.used[g]
  BY <1>2, <1>3
<1>5. \A g \in Flags : n.used[g] \subseteq 0 .. NUMBER[g] - 1
  BY <1>2, <1>4
<1>6. QED
  BY <1>1, <1>3, <1>4, <1>5 DEF Sound, Takes, Maps, Frees, X

\* The pages that numbers of a pool stand for, and back.
PagesAt(base, U)   == {base + i : i \in U}
NumbersOf(base, D) == {d - base : d \in D}

Splits(P, A, D) == P = A \cup D /\ A \cap D = {}

\* When the pages D of a pool are freed, those are left that are not in D.
LEMMA LeftIs ==
  ASSUME NEW base \in Nat, NEW U \in SUBSET Nat, NEW A, NEW D,
         Splits(PagesAt(base, U), A, D)
  PROVE  PagesAt(base, U \ NumbersOf(base, D)) = A
<1> DEFINE X == {d - base : d \in D}
<1>0. {base + i : i \in U} = A \cup D /\ A \cap D = {}
  BY DEF PagesAt, Splits
<1>1. ASSUME NEW i \in U, i \notin X PROVE base + i \in A
  <2>1. base + i \in A \cup D
    BY <1>0
  <2>2. base + i \in D => i \in X
    <3>1. (base + i) - base = i
      OBVIOUS
    <3>2. QED
      BY <3>1
  <2>3. QED
    BY <1>0, <1>1, <2>1, <2>2
<1>2. ASSUME NEW a \in A PROVE \E i \in U \ X : a = base + i
  <2>1. PICK i \in U : a = base + i
    BY <1>0
  <2>2. i \notin X
    <3> SUFFICES ASSUME NEW d \in D, i = d - base PROVE FALSE
      OBVIOUS
    <3>1. PICK j \in U : d = base + j
      BY <1>0
    <3>2. d = base + i
      BY <3>1
    <3>3. QED
      BY <1>0, <2>1, <3>2
  <2>3. QED
    BY <2>1, <2>2
<1> HIDE DEF X
<1>3. {base + i : i \in U \ X} = A
  BY <1>1, <1>2
<1>4. QED
  BY <1>3 DEF X, PagesAt, NumbersOf

\* The pages that clean_dead frees are those of the dead.
FreedPages(dead) ==
  /\ used'["TASK"] = used["TASK"] \ dead
  /\ used'["KSTACK"] = used["KSTACK"] \ {d - get_base["KSTACK"] :
                                         d \in {task[t].init_kern - 1 : t \in dead}}
  /\ used'["MM"] = used["MM"] \ {d - get_base["MM"] : d \in {task[t].mm : t \in dead}}
  /\ used'["VMA"] = used["VMA"] \ {d - get_base["VMA"] : d \in UNION {areas(t) : t \in dead}}

LEMMA CleanDeadIs ==
  ASSUME PoolInv, ~halted, NEW dead \in SUBSET Users, becomes(clean_dead(Memory, dead))
  PROVE  /\ Takes(Memory, clean_dead(Memory, dead), TaskPools)
         /\ Rooted(clean_dead(Memory, dead))
         /\ halted' = FALSE /\ FreedPages(dead)
<1> DEFINE K == {task[t].init_kern : t \in dead}
           V == UNION {areas(t) : t \in dead}
           M == {task[t].mm : t \in dead}
           T == {get_base["TASK"] + t : t \in dead}
           a == kfree(Memory, "KSTACK", K)
           b == kfree(a, "VMA", V)
           c == kfree(b, "MM", M)
           d == kfree(c, "TASK", T)
<1>1. clean_dead(Memory, dead) = d
  BY DEF clean_dead
<1> HIDE DEF K, V, M, T
<1>2. /\ Sound(Memory) /\ Rooted(Memory)
      /\ "KSTACK" \in Flags /\ "VMA" \in Flags /\ "MM" \in Flags /\ "TASK" \in Flags
  BY MemorySound DEF PoolInv, Flags
<1>3. /\ Maps(Memory, a, {"KSTACK"}) /\ a.halted = Memory.halted
      /\ a.used["KSTACK"] = Memory.used["KSTACK"] \ Bits("KSTACK", K)
  <2>1. Frees(Memory, a, "KSTACK", K)
    BY <1>2, KfreeIs
  <2>2. QED
    BY <2>1 DEF Frees
<1> HIDE DEF a
<1>4. /\ Maps(a, b, {"VMA"}) /\ b.halted = a.halted
      /\ b.used["VMA"] = a.used["VMA"] \ Bits("VMA", V)
  <2>1. Sound(a)
    BY <1>2, <1>3, MapsSound
  <2>2. Frees(a, b, "VMA", V)
    BY <1>2, <2>1, KfreeIs
  <2>3. QED
    BY <2>2 DEF Frees
<1> HIDE DEF b
<1>5. /\ Maps(b, c, {"MM"}) /\ c.halted = b.halted
      /\ c.used["MM"] = b.used["MM"] \ Bits("MM", M)
  <2>1. Sound(b)
    BY <1>2, <1>4, MapsSound
  <2>2. Frees(b, c, "MM", M)
    BY <1>2, <2>1, KfreeIs
  <2>3. QED
    BY <2>2 DEF Frees
<1> HIDE DEF c
<1>6. /\ Maps(c, d, {"TASK"}) /\ d.halted = c.halted
      /\ d.used["TASK"] = c.used["TASK"] \ Bits("TASK", T)
  <2>1. Sound(c)
    BY <1>2, <1>5, MapsSound
  <2>2. Frees(c, d, "TASK", T)
    BY <1>2, <2>1, KfreeIs
  <2>3. QED
    BY <2>2 DEF Frees
<1> HIDE DEF d
<1>7. /\ Maps(Memory, a, TaskPools) /\ Maps(a, b, TaskPools) /\ Maps(b, c, TaskPools)
      /\ Maps(c, d, TaskPools)
  BY <1>3, <1>4, <1>5, <1>6, MapsMore DEF TaskPools
<1>8. Maps(Memory, d, TaskPools)
  <2>1. Maps(Memory, c, TaskPools)
    BY <1>7, MapsThen
  <2>2. QED
    BY <1>7, <2>1, MapsThen
<1>9. Takes(Memory, d, TaskPools) /\ Rooted(d)
  BY <1>2, <1>8, MapsSound, RootedStays
<1>10. /\ Memory.used = used /\ used' = d.used /\ halted' = FALSE
  BY <1>1, <1>3, <1>4, <1>5, <1>6, MemoryIs DEF becomes
<1>11. /\ a.used["VMA"] = used["VMA"] /\ a.used["MM"] = used["MM"] /\ a.used["TASK"] = used["TASK"]
       /\ b.used["KSTACK"] = a.used["KSTACK"] /\ b.used["MM"] = a.used["MM"]
       /\ b.used["TASK"] = a.used["TASK"]
       /\ c.used["KSTACK"] = b.used["KSTACK"] /\ c.used["VMA"] = b.used["VMA"]
       /\ c.used["TASK"] = b.used["TASK"]
       /\ d.used["KSTACK"] = c.used["KSTACK"] /\ d.used["VMA"] = c.used["VMA"]
       /\ d.used["MM"] = c.used["MM"]
  <2>1. /\ a.used["VMA"] = used["VMA"] /\ a.used["MM"] = used["MM"]
        /\ a.used["TASK"] = used["TASK"]
    BY <1>2, <1>3, <1>10 DEF Maps, Takes
  <2>2. /\ b.used["KSTACK"] = a.used["KSTACK"] /\ b.used["MM"] = a.used["MM"]
        /\ b.used["TASK"] = a.used["TASK"]
    BY <1>2, <1>4 DEF Maps, Takes
  <2>3. /\ c.used["KSTACK"] = b.used["KSTACK"] /\ c.used["VMA"] = b.used["VMA"]
        /\ c.used["TASK"] = b.used["TASK"]
    BY <1>2, <1>5 DEF Maps, Takes
  <2>4. /\ d.used["KSTACK"] = c.used["KSTACK"] /\ d.used["VMA"] = c.used["VMA"]
        /\ d.used["MM"] = c.used["MM"]
    BY <1>2, <1>6 DEF Maps, Takes
  <2>5. QED
    BY <2>1, <2>2, <2>3, <2>4
<1>12. /\ get_base["TASK"] \in Nat /\ dead \subseteq Nat
       /\ \A t \in dead : task[t].init_kern \in Nat
       /\ get_base["KSTACK"] \in Nat
  BY BasesAre, ConstantsAre DEF Flags, PoolInv, TasksTyped, Users, Tasks, Slots
<1>13. used'["TASK"] = used["TASK"] \ dead
  <2>1. \A t \in dead : bit_of("TASK", get_base["TASK"] + t) = t
    BY <1>12 DEF bit_of
  <2>2. Bits("TASK", T) = dead
    BY <2>1 DEF Bits, T
  <2>3. QED
    BY <1>6, <1>10, <1>11, <2>2
<1>14. used'["KSTACK"] = used["KSTACK"] \ {q - get_base["KSTACK"] :
                                           q \in {task[t].init_kern - 1 : t \in dead}}
  <2>1. \A t \in dead : bit_of("KSTACK", task[t].init_kern)
                          = (task[t].init_kern - 1) - get_base["KSTACK"]
    BY <1>12 DEF bit_of
  <2>2. Bits("KSTACK", K)
          = {q - get_base["KSTACK"] : q \in {task[t].init_kern - 1 : t \in dead}}
    BY <2>1 DEF Bits, K
  <2>3. QED
    BY <1>3, <1>10, <1>11, <2>2
<1>15. used'["MM"] = used["MM"] \ {q - get_base["MM"] : q \in {task[t].mm : t \in dead}}
  <2>1. \A p : bit_of("MM", p) = p - get_base["MM"]
    BY DEF bit_of
  <2>2. QED
    BY <1>5, <1>10, <1>11, <2>1 DEF Bits, M
<1>16. used'["VMA"] = used["VMA"] \ {q - get_base["VMA"] : q \in UNION {areas(t) : t \in dead}}
  <2>1. \A p : bit_of("VMA", p) = p - get_base["VMA"]
    BY DEF bit_of
  <2>2. QED
    BY <1>4, <1>10, <1>11, <2>1 DEF Bits, V
<1>17. QED
  BY <1>1, <1>9, <1>10, <1>13, <1>14, <1>15, <1>16 DEF FreedPages

\* The tasks that are left keep what they held.
LEMMA HeldByOthers ==
  ASSUME TypeOK, TasksTyped, PagesHeld, ~halted, NEW dead \in SUBSET Users, FreedPages(dead),
         Tasks' = Tasks \ dead, \A t \in Tasks \ dead : task'[t] = task[t]
  PROVE  PagesHeld'
<1> DEFINE B(t) == {task'[t].mmap[i] : i \in 1 .. AREAS}
           left == Users \ dead
<1>1. /\ Users' = left /\ left \subseteq Tasks \ dead /\ Users \subseteq Tasks
      /\ \A t \in left : B(t) = areas(t)
  BY DEF Users, areas
<1> HIDE DEF B
<1>2. \A f \in {"KSTACK", "MM", "VMA"} : get_base[f] \in Nat /\ used[f] \in SUBSET Nat
  BY BasesAre DEF TypeOK, Flags
<1>3. /\ used["TASK"] = Tasks
      /\ \A t, u \in Tasks : t # u => task[t].init_kern # task[u].init_kern
      /\ \A t, u \in Users : t # u => /\ task[t].mm # task[u].mm
                                      /\ areas(t) \cap areas(u) = {}
      /\ allocated("KSTACK") = {task[t].init_kern - 1 : t \in Tasks}
      /\ allocated("MM") = {task[t].mm : t \in Users}
      /\ allocated("VMA") = UNION {areas(t) : t \in Users}
  BY DEF PagesHeld
<1>4. allocated("KSTACK")' = {task'[t].init_kern - 1 : t \in Tasks'}
  <2> DEFINE A == {task[t].init_kern - 1 : t \in Tasks \ dead}
             D == {task[t].init_kern - 1 : t \in dead}
  <2>1. allocated("KSTACK") = A \cup D
    BY <1>1, <1>3
  <2>2. A \cap D = {}
    <3>1. \A t \in Tasks : task[t].init_kern \in Nat
      BY DEF TasksTyped
    <3>2. \A t \in Tasks \ dead : \A u \in dead : task[t].init_kern - 1 # task[u].init_kern - 1
      BY <1>1, <1>3, <3>1
    <3>3. QED
      BY <3>2
  <2>3. used'["KSTACK"] = used["KSTACK"] \ NumbersOf(get_base["KSTACK"], D)
    BY DEF FreedPages, NumbersOf
  <2>4. A = {task'[t].init_kern - 1 : t \in Tasks'}
    OBVIOUS
  <2> HIDE DEF A, D
  <2>5. PagesAt(get_base["KSTACK"], used["KSTACK"]) = A \cup D
    BY <2>1 DEF allocated, PagesAt
  <2>6. PagesAt(get_base["KSTACK"], used["KSTACK"] \ NumbersOf(get_base["KSTACK"], D)) = A
    <3>1. get_base["KSTACK"] \in Nat /\ used["KSTACK"] \in SUBSET Nat
      BY <1>2
    <3>2. Splits(PagesAt(get_base["KSTACK"], used["KSTACK"]), A, D)
      BY <2>2, <2>5 DEF Splits
    <3>3. QED
      BY <3>1, <3>2, LeftIs
  <2>7. QED
    BY <2>3, <2>4, <2>6 DEF allocated, PagesAt
<1>5. allocated("MM")' = {task'[t].mm : t \in Users'}
  <2> DEFINE A == {task[t].mm : t \in left}
             D == {task[t].mm : t \in dead}
  <2>1. allocated("MM") = A \cup D
    BY <1>3
  <2>2. A \cap D = {}
    BY <1>3
  <2>3. used'["MM"] = used["MM"] \ NumbersOf(get_base["MM"], D)
    BY DEF FreedPages, NumbersOf
  <2>4. A = {task'[t].mm : t \in Users'}
    BY <1>1
  <2> HIDE DEF A, D
  <2>5. PagesAt(get_base["MM"], used["MM"]) = A \cup D
    BY <2>1 DEF allocated, PagesAt
  <2>6. PagesAt(get_base["MM"], used["MM"] \ NumbersOf(get_base["MM"], D)) = A
    <3>1. get_base["MM"] \in Nat /\ used["MM"] \in SUBSET Nat
      BY <1>2
    <3>2. Splits(PagesAt(get_base["MM"], used["MM"]), A, D)
      BY <2>2, <2>5 DEF Splits
    <3>3. QED
      BY <3>1, <3>2, LeftIs
  <2>7. QED
    BY <2>3, <2>4, <2>6 DEF allocated, PagesAt
<1>6. allocated("VMA")' = UNION {B(t) : t \in Users'}
  <2> DEFINE A == UNION {areas(t) : t \in left}
             D == UNION {areas(t) : t \in dead}
  <2>1. allocated("VMA") = A \cup D
    <3>1. Users = left \cup dead
      OBVIOUS
    <3>2. UNION {areas(t) : t \in left \cup dead} = A \cup D
      OBVIOUS
    <3> HIDE DEF A, D, left
    <3>3. QED
      BY <1>3, <3>1, <3>2
  <2>2. A \cap D = {}
    <3>1. \A t \in left : \A u \in dead : areas(t) \cap areas(u) = {}
      BY <1>3
    <3>2. QED
      BY <3>1
  <2>3. used'["VMA"] = used["VMA"] \ NumbersOf(get_base["VMA"], D)
    BY DEF FreedPages, NumbersOf
  <2>4. A = UNION {B(t) : t \in Users'}
    BY <1>1
  <2> HIDE DEF A, D
  <2>5. PagesAt(get_base["VMA"], used["VMA"]) = A \cup D
    BY <2>1 DEF allocated, PagesAt
  <2>6. PagesAt(get_base["VMA"], used["VMA"] \ NumbersOf(get_base["VMA"], D)) = A
    <3>1. get_base["VMA"] \in Nat /\ used["VMA"] \in SUBSET Nat
      BY <1>2
    <3>2. Splits(PagesAt(get_base["VMA"], used["VMA"]), A, D)
      BY <2>2, <2>5 DEF Splits
    <3>3. QED
      BY <3>1, <3>2, LeftIs
  <2>7. QED
    BY <2>3, <2>4, <2>6 DEF allocated, PagesAt
<1>7. used'["TASK"] = Tasks'
  BY <1>3 DEF FreedPages
<1>8. \A t, u \in Tasks' : t # u => task'[t].init_kern # task'[u].init_kern
  BY <1>3
<1>9. \A t, u \in Users' : t # u => task'[t].mm # task'[u].mm /\ B(t) \cap B(u) = {}
  BY <1>1, <1>3
<1>10. /\ \A t, u \in Users' : t # u => task'[t].mm # task'[u].mm /\ areas(t)' \cap areas(u)' = {}
       /\ allocated("VMA")' = UNION {areas(t)' : t \in Users'}
  BY <1>6, <1>9 DEF areas, B
<1>11. QED
  BY <1>4, <1>5, <1>7, <1>8, <1>10 DEF PagesHeld

LEMMA PsStep ==
  ASSUME PoolInv, NEW dead \in SUBSET Ended, do_ps(dead) PROVE PoolInv'
<1> DEFINE m == clean_dead(Memory, dead)
<1>1. /\ calls /\ becomes(m) /\ current' = current
      /\ task' = [t \in Slots |-> IF t \in dead THEN NoTask ELSE task[t]]
  BY DEF do_ps
<1>2. ~halted /\ current \in Tasks /\ TypeOK /\ TasksTyped /\ PagesHeld
  BY <1>1, CurrentIs DEF PoolInv
<1>3. dead \in SUBSET Users /\ current \notin dead /\ IDLE \notin dead
  BY DEF Ended, Users
<1>4. /\ Takes(Memory, m, TaskPools) /\ Rooted(m) /\ halted' = FALSE /\ FreedPages(dead)
  BY <1>1, <1>2, <1>3, CleanDeadIs
<1> HIDE DEF m
<1>5. /\ Tasks' = Tasks \ dead /\ \A t \in Tasks \ dead : task'[t] = task[t]
  BY <1>1 DEF Tasks
<1>6. TasksTyped'
  <2>1. /\ IDLE \in Tasks
        /\ \A t \in Tasks :
             /\ DOMAIN task[t] = TaskFields
             /\ task[t].brk \in Nat /\ task[t].vm_end \in Nat
             /\ task[t].init_kern \in Nat /\ task[t].mm \in Nat
             /\ t # IDLE => \A i \in 1 .. AREAS : task[t].mmap[i] \in Nat
    BY <1>2 DEF TasksTyped
  <2>2. ASSUME NEW t \in Tasks'
        PROVE  /\ DOMAIN task'[t] = TaskFields
               /\ task'[t].brk \in Nat /\ task'[t].vm_end \in Nat
               /\ task'[t].init_kern \in Nat /\ task'[t].mm \in Nat
               /\ t # IDLE => \A i \in 1 .. AREAS : task'[t].mmap[i] \in Nat
    BY <1>5, <2>1
  <2>3. DOMAIN task' = Slots /\ IDLE \in Tasks'
    BY <1>1, <1>3, <1>5, <2>1
  <2>4. QED
    BY <2>2, <2>3 DEF TasksTyped
<1>7. current' \in Tasks'
  BY <1>1, <1>2, <1>3, <1>5
<1>8. TypeOK'
  BY <1>1, <1>2, <1>4, <1>7, BecomesSound
<1>9. PagesHeld'
  BY <1>2, <1>3, <1>4, <1>5, HeldByOthers
<1>10. QED
  BY <1>6, <1>8, <1>9 DEF PoolInv
-----------------------------------------------------------------------------
(* The start.                                                              *)

\* The first calls of kmalloc for a pool give its first pages.
LEMMA FirstPages ==
  ASSUME NEW f \in Flags, NEW m, Sound(m), m.used[f] = {}
  PROVE  \A n \in Nat : ~kmallocs(m, f, n).halted => kmallocs(m, f, n).used[f] = 0 .. n - 1
<1> DEFINE p(n) == kmallocs(m, f, n)
           S == {n \in Nat : ~p(n).halted => p(n).used[f] = 0 .. n - 1}
<1>1. 0 \in S
  <2>1. p(0) = m /\ 0 .. 0 - 1 = {}
    BY KmallocsAre
  <2> HIDE DEF p
  <2>2. QED
    BY <2>1
<1>2. ASSUME NEW n \in Nat, n \in S PROVE n + 1 \in S
  <2>1. p(n + 1) = kmalloc(p(n), f) /\ Sound(p(n))
    BY KmallocsAre, KmallocsTake DEF Takes
  <2> HIDE DEF p
  <2> SUFFICES ASSUME ~p(n + 1).halted PROVE p(n + 1).used[f] = 0 .. n + 1 - 1
    OBVIOUS
  <2>2. /\ ~p(n).halted /\ unused(p(n), f) # {}
        /\ p(n + 1).used[f] = p(n).used[f] \cup {Given(p(n), f)}
    BY <2>1, KmallocAdds
  <2>3. p(n).used[f] = 0 .. n - 1
    BY <1>2, <2>2
  <2>4. NUMBER[f] \in Nat
    BY NumbersAre
  <2>5. unused(p(n), f) = n .. NUMBER[f] - 1
    BY <2>3, <2>4 DEF unused
  <2>6. n .. NUMBER[f] - 1 \in SUBSET Nat /\ n \in n .. NUMBER[f] - 1
        /\ \A y \in n .. NUMBER[f] - 1 : n <= y
    BY <2>2, <2>4, <2>5
  <2>7. Given(p(n), f) = n
    BY <2>5, <2>6, LowestOf DEF Given
  <2>8. (0 .. n - 1) \cup {n} = 0 .. n + 1 - 1
    OBVIOUS
  <2>9. QED
    BY <2>2, <2>3, <2>7, <2>8
<1>3. \A n \in Nat : n \in S
  <2> HIDE DEF S
  <2>1. QED
    BY <1>1, <1>2, SetInduction
<1>4. QED
  BY <1>3

LEMMA KmallocsKeep ==
  ASSUME NEW f \in Flags, NEW m, Sound(m), NEW n \in Nat
  PROVE  Takes(m, kmallocs(m, f, n), {f}) /\ kmallocs(m, f, n).global_PML4 = m.global_PML4
<1> DEFINE p(k) == kmallocs(m, f, k)
           Rest(k) == /\ p(k).frames = m.frames
                      /\ ~p(k).halted =>
                           /\ ~m.halted
                           /\ p(k).used[f] = m.used[f] \cup {Number(m, f, i) : i \in 0 .. k - 1}
                           /\ \A i \in 0 .. k - 1 :
                                /\ Number(m, f, i) \in 0 .. NUMBER[f] - 1
                                /\ Number(m, f, i) \notin m.used[f]
<1>1. \A k \in Nat : Takes(m, p(k), {f}) /\ p(k).global_PML4 = m.global_PML4 /\ Rest(k)
  BY KmallocsTake
<1> HIDE DEF p, Rest
<1>2. QED
  BY <1>1 DEF p

\* The memory that init_mm starts from, with no page taken.
Empty ==
  [used |-> [f \in Flags |-> {}], table |-> <<>>, frames |-> {},
   global_PML4 |-> page_of([used |-> [f \in Flags |-> {}]], "KERNPT"), halted |-> FALSE]

LEMMA EmptyIs ==
  /\ Sound(Empty) /\ \A f \in Flags : Empty.used[f] = {}
  /\ Takes(Empty, kmalloc(Empty, "KERNPT"), {"KERNPT"}) /\ Rooted(kmalloc(Empty, "KERNPT"))
<1> DEFINE U == [f \in Flags |-> {}]
           r == [used |-> U]
           m == Empty
<1>1. /\ DOMAIN m = MemFields /\ m.used = U /\ m.table = <<>> /\ m.frames = {}
      /\ m.global_PML4 = page_of(r, "KERNPT") /\ m.halted = FALSE
  BY DEF Empty, MemFields
<1>2. r.used = U
  OBVIOUS
<1>3. U \in [Flags -> SUBSET Nat] /\ \A f \in Flags : U[f] = {}
  OBVIOUS
<1> HIDE DEF U, r, m
<1>4. DOMAIN m.table = {}
  BY <1>1
<1>5. Sound(m) /\ \A f \in Flags : m.used[f] = {}
  BY <1>1, <1>3, <1>4 DEF Sound
<1>6. "KERNPT" \in Flags
  BY DEF Flags
<1>7. unused(m, "KERNPT") = 0 .. KERNPT_NUMBER - 1
  BY <1>5, <1>6, NumbersAre DEF unused
<1>8. unused(r, "KERNPT") = unused(m, "KERNPT")
  BY <1>1, <1>2 DEF unused
<1>9. page_of(m, "KERNPT") = m.global_PML4
  BY <1>1, <1>8 DEF page_of
<1>10. unused(m, "KERNPT") # {}
  <2>1. 0 \in 0 .. KERNPT_NUMBER - 1
    BY ConstantsAre
  <2>2. QED
    BY <1>7, <2>1
<1>11. ~kmalloc(m, "KERNPT").halted
  BY <1>1, <1>5, <1>6, <1>10, KmallocHalts
<1>12. /\ Takes(m, kmalloc(m, "KERNPT"), {"KERNPT"})
       /\ page_of(m, "KERNPT") \in DOMAIN kmalloc(m, "KERNPT").table
       /\ kmalloc(m, "KERNPT").global_PML4 = m.global_PML4
  BY <1>5, <1>6, <1>11, KmallocIs
<1>13. QED
  BY <1>5, <1>9, <1>12 DEF Rooted, m

\* What has been taken when init runs.
LEMMA StartedIs ==
  LET m == started(booted)
  IN /\ Sound(m) /\ Rooted(m)
     /\ ~m.halted => /\ m.used["TASK"] = {0, 1} /\ m.used["KSTACK"] = {0, 1}
                     /\ m.used["MM"] = {0} /\ m.used["VMA"] = 0 .. AREAS - 1
<1> DEFINE m0 == kmalloc(Empty, "KERNPT")
           m1 == map_kernel(m0, "KERNPT")
           m2 == kmallocs(m1, "TASK", 2)
           m3 == kmallocs(m2, "KSTACK", 2)
           m4 == kmalloc(m3, "MM")
           m5 == kmallocs(m4, "VMA", AREAS)
           m6 == umalloc(m5, HEAP_BASE)
           m7 == umalloc(m6, STACK_TOP)
           m8 == umalloc(m7, STACK_TOP - 1)
           m9 == new_stack(m8, m8.global_PML4)
           m  == load_elf(m9)
           U  == {"USERPT"}
           G  == {"FILE", "USERPT"}
           Fs == {"KERNPT", "FILE", "USERPT"}
<1>1. started(booted) = m
  BY DEF started, booted, Empty
<1>2. /\ "KERNPT" \in Flags /\ "TASK" \in Flags /\ "KSTACK" \in Flags /\ "MM" \in Flags
      /\ "VMA" \in Flags /\ AREAS \in Nat /\ 2 \in Nat
  BY DEF Flags, AREAS
<1>3. /\ Takes(Empty, m0, {"KERNPT"}) /\ Rooted(m0) /\ Sound(m0)
      /\ \A f \in Flags : Empty.used[f] = {}
  BY EmptyIs DEF Takes
<1> HIDE DEF m0
<1>4. Maps(m0, m1, {"KERNPT"})
  BY <1>2, <1>3, MapKernelIs
<1>5. Takes(Empty, m1, {"KERNPT"}) /\ Rooted(m1) /\ Sound(m1)
  BY <1>3, <1>4, MapsSound, TakesThen, RootedStays
<1> HIDE DEF m1
<1>6. /\ m1.used["TASK"] = {} /\ m1.used["KSTACK"] = {} /\ m1.used["MM"] = {} /\ m1.used["VMA"] = {}
  BY <1>2, <1>3, <1>5 DEF Takes
<1>7. /\ Takes(m1, m2, {"TASK"}) /\ m2.global_PML4 = m1.global_PML4
      /\ ~m2.halted => m2.used["TASK"] = 0 .. 2 - 1
  <2>1. Takes(m1, m2, {"TASK"}) /\ m2.global_PML4 = m1.global_PML4
    BY <1>2, <1>5, KmallocsKeep
  <2>2. ~m2.halted => m2.used["TASK"] = 0 .. 2 - 1
    BY <1>2, <1>5, <1>6, FirstPages
  <2>3. QED
    BY <2>1, <2>2
<1> HIDE DEF m2
<1>8. Sound(m2) /\ Rooted(m2) /\ m2.used["KSTACK"] = {} /\ m2.used["MM"] = {} /\ m2.used["VMA"] = {}
  BY <1>2, <1>5, <1>6, <1>7, RootedStays DEF Takes
<1>9. /\ Takes(m2, m3, {"KSTACK"}) /\ m3.global_PML4 = m2.global_PML4
      /\ ~m3.halted => m3.used["KSTACK"] = 0 .. 2 - 1
  <2>1. Takes(m2, m3, {"KSTACK"}) /\ m3.global_PML4 = m2.global_PML4
    BY <1>2, <1>8, KmallocsKeep
  <2>2. ~m3.halted => m3.used["KSTACK"] = 0 .. 2 - 1
    BY <1>2, <1>8, FirstPages
  <2>3. QED
    BY <2>1, <2>2
<1> HIDE DEF m3
<1>10. Sound(m3) /\ Rooted(m3) /\ m3.used["MM"] = {} /\ m3.used["VMA"] = {}
  BY <1>2, <1>8, <1>9, RootedStays DEF Takes
<1>11. /\ Takes(m3, m4, {"MM"}) /\ m4.global_PML4 = m3.global_PML4
       /\ ~m4.halted => m4.used["MM"] = {0}
  <2>1. Takes(m3, m4, {"MM"}) /\ m4.global_PML4 = m3.global_PML4
    BY <1>2, <1>10, KmallocIs
  <2>2. kmallocs(m3, "MM", 0) = m3 /\ kmallocs(m3, "MM", 0 + 1) = kmalloc(kmallocs(m3, "MM", 0), "MM")
    BY KmallocsAre
  <2>3. m4 = kmallocs(m3, "MM", 1)
    BY <2>2
  <2> HIDE DEF m4
  <2>4. ~m4.halted => m4.used["MM"] = 0 .. 1 - 1
    BY <1>2, <1>10, <2>3, FirstPages
  <2>5. 0 .. 1 - 1 = {0}
    OBVIOUS
  <2>6. QED
    BY <2>1, <2>4, <2>5
<1> HIDE DEF m4
<1>12. Sound(m4) /\ Rooted(m4) /\ m4.used["VMA"] = {}
  BY <1>2, <1>10, <1>11, RootedStays DEF Takes
<1>13. /\ Takes(m4, m5, {"VMA"}) /\ m5.global_PML4 = m4.global_PML4
       /\ ~m5.halted => m5.used["VMA"] = 0 .. AREAS - 1
  <2>1. Takes(m4, m5, {"VMA"}) /\ m5.global_PML4 = m4.global_PML4
    BY <1>2, <1>12, KmallocsKeep
  <2>2. ~m5.halted => m5.used["VMA"] = 0 .. AREAS - 1
    BY <1>2, <1>12, FirstPages
  <2>3. QED
    BY <2>1, <2>2
<1> HIDE DEF m5
<1>14. Sound(m5) /\ Rooted(m5)
  BY <1>12, <1>13, RootedStays DEF Takes
<1>15. Takes(m5, m6, U) /\ Rooted(m6) /\ Sound(m6)
  BY <1>14, UmallocIs, RootedStays DEF Takes
<1> HIDE DEF m6
<1>16. Takes(m6, m7, U) /\ Rooted(m7) /\ Sound(m7)
  BY <1>15, UmallocIs, RootedStays DEF Takes
<1> HIDE DEF m7
<1>17. Takes(m7, m8, U) /\ Rooted(m8) /\ Sound(m8)
  BY <1>16, UmallocIs, RootedStays DEF Takes
<1> HIDE DEF m8
<1>18. Takes(m8, m9, {}) /\ Rooted(m9) /\ Sound(m9)
  BY <1>17, NewStackIs, RootedStays DEF Takes
<1> HIDE DEF m9
<1>19. Takes(m9, m, G) /\ Rooted(m) /\ Sound(m)
  BY <1>18, LoadElfIs, RootedStays DEF Takes
<1> HIDE DEF m
<1>20. Takes(m5, m, G)
  <2>1. /\ Takes(m5, m6, G) /\ Takes(m6, m7, G) /\ Takes(m7, m8, G) /\ Takes(m8, m9, G)
    BY <1>15, <1>16, <1>17, <1>18, TakesMore
  <2>2. Takes(m5, m7, G)
    BY <2>1, TakesThen
  <2>3. Takes(m5, m8, G)
    BY <2>1, <2>2, TakesThen
  <2>4. Takes(m5, m9, G)
    BY <2>1, <2>3, TakesThen
  <2>5. QED
    BY <1>19, <2>4, TakesThen
<1>21. ASSUME ~m.halted
       PROVE  /\ m.used["TASK"] = {0, 1} /\ m.used["KSTACK"] = {0, 1}
              /\ m.used["MM"] = {0} /\ m.used["VMA"] = 0 .. AREAS - 1
  <2>1. ~m2.halted /\ ~m3.halted /\ ~m4.halted /\ ~m5.halted
    BY <1>9, <1>11, <1>13, <1>20, <1>21 DEF Takes
  <2>2. /\ m.used["TASK"] = m5.used["TASK"] /\ m.used["KSTACK"] = m5.used["KSTACK"]
        /\ m.used["MM"] = m5.used["MM"] /\ m.used["VMA"] = m5.used["VMA"]
    BY <1>2, <1>20 DEF Takes
  <2>3. /\ m5.used["TASK"] = m4.used["TASK"] /\ m5.used["KSTACK"] = m4.used["KSTACK"]
        /\ m5.used["MM"] = m4.used["MM"]
    BY <1>2, <1>13 DEF Takes
  <2>4. /\ m4.used["TASK"] = m3.used["TASK"] /\ m4.used["KSTACK"] = m3.used["KSTACK"]
    BY <1>2, <1>11 DEF Takes
  <2>5. m3.used["TASK"] = m2.used["TASK"]
    BY <1>2, <1>9 DEF Takes
  <2>6. 0 .. 2 - 1 = {0, 1}
    OBVIOUS
  <2>7. QED
    BY <1>7, <1>9, <1>11, <1>13, <2>1, <2>2, <2>3, <2>4, <2>5, <2>6
<1>22. QED
  BY <1>1, <1>19, <1>21

LEMMA FirstTasks ==
  ASSUME Init
  PROVE  /\ TasksTyped /\ current \in Tasks /\ Tasks = {IDLE, INIT} /\ Users = {INIT}
         /\ task[IDLE].init_kern = get_base["KSTACK"] + 1
         /\ task[INIT].init_kern = get_base["KSTACK"] + 2
         /\ task[INIT].mm = get_base["MM"]
         /\ areas(INIT) = {get_base["VMA"] + i : i \in 0 .. AREAS - 1}
<1>1. PICK root : /\ task = [t \in Slots |-> first_task(t, root)] /\ current = INIT
  BY DEF Init
<1>2. IDLE \in Slots /\ INIT \in Slots /\ IDLE # INIT /\ IDLE = 0 /\ INIT = 1
  BY ConstantsAre DEF Slots, IDLE, INIT
<1>3. \A f \in {"KSTACK", "MM", "VMA"} : get_base[f] \in Nat
  BY BasesAre DEF Flags
<1>4. /\ task[IDLE] = [state |-> "ready", cr3 |-> root,
                       init_kern |-> get_base["KSTACK"] + 1,
                       mm |-> 0, brk |-> 0, vm_end |-> 0, mmap |-> <<>>]
      /\ task[INIT] = [state |-> "ready", cr3 |-> root,
                       init_kern |-> get_base["KSTACK"] + 2, mm |-> get_base["MM"],
                       brk |-> HEAP_BASE + 1, vm_end |-> HEAP_BASE + 1,
                       mmap |-> [i \in 1 .. AREAS |-> get_base["VMA"] + i - 1]]
      /\ \A t \in Slots : t \notin {IDLE, INIT} => task[t] = NoTask
  BY <1>1, <1>2 DEF first_task
<1>5. DOMAIN NoTask = {"state"}
  BY DEF NoTask
<1>6. /\ DOMAIN task[IDLE] = TaskFields /\ DOMAIN task[INIT] = TaskFields
  BY <1>4 DEF TaskFields
<1>7. task[IDLE] # NoTask /\ task[INIT] # NoTask
  BY <1>5, <1>6 DEF TaskFields
<1>8. Tasks = {IDLE, INIT} /\ Users = {INIT}
  BY <1>2, <1>4, <1>7 DEF Tasks, Users
<1>9. /\ task[IDLE].brk \in Nat /\ task[IDLE].vm_end \in Nat
      /\ task[IDLE].init_kern = get_base["KSTACK"] + 1 /\ task[IDLE].mm = 0
      /\ task[INIT].brk \in Nat /\ task[INIT].vm_end \in Nat
      /\ task[INIT].init_kern = get_base["KSTACK"] + 2 /\ task[INIT].mm = get_base["MM"]
      /\ task[INIT].mmap = [i \in 1 .. AREAS |-> get_base["VMA"] + i - 1]
  BY <1>4, AddressesAre
<1>10. \A i \in 1 .. AREAS : /\ task[INIT].mmap[i] = get_base["VMA"] + i - 1
                             /\ task[INIT].mmap[i] \in Nat
  BY <1>3, <1>9 DEF AREAS
<1>11. DOMAIN task = Slots
  BY <1>1
<1>12. TasksTyped
  <2>1. /\ task[INIT].init_kern \in Nat /\ task[INIT].mm \in Nat
        /\ task[IDLE].init_kern \in Nat /\ task[IDLE].mm \in Nat
    BY <1>3, <1>9
  <2>2. ASSUME NEW t \in Tasks
        PROVE  /\ DOMAIN task[t] = TaskFields
               /\ task[t].brk \in Nat /\ task[t].vm_end \in Nat
               /\ task[t].init_kern \in Nat /\ task[t].mm \in Nat
               /\ t # IDLE => \A i \in 1 .. AREAS : task[t].mmap[i] \in Nat
    <3>1. CASE t = IDLE
      BY <1>6, <1>9, <2>1, <3>1
    <3>2. CASE t = INIT
      BY <1>6, <1>9, <1>10, <2>1, <3>2
    <3>3. QED
      BY <1>8, <3>1, <3>2
  <2>3. QED
    BY <1>8, <1>11, <2>2 DEF TasksTyped
<1>13. areas(INIT) = {get_base["VMA"] + i : i \in 0 .. AREAS - 1}
  <2>1. ASSUME NEW i \in 1 .. AREAS
        PROVE  task[INIT].mmap[i] \in {get_base["VMA"] + j : j \in 0 .. AREAS - 1}
    <3>1. i - 1 \in 0 .. AREAS - 1 /\ task[INIT].mmap[i] = get_base["VMA"] + (i - 1)
      BY <1>3, <1>10 DEF AREAS
    <3>2. QED
      BY <3>1
  <2>2. ASSUME NEW j \in 0 .. AREAS - 1
        PROVE  get_base["VMA"] + j \in {task[INIT].mmap[i] : i \in 1 .. AREAS}
    <3>1. j + 1 \in 1 .. AREAS /\ task[INIT].mmap[j + 1] = get_base["VMA"] + j
      BY <1>3, <1>10 DEF AREAS
    <3>2. QED
      BY <3>1
  <2>3. QED
    BY <2>1, <2>2 DEF areas
<1>14. QED
  BY <1>1, <1>8, <1>9, <1>12, <1>13

LEMMA PoolsAtStart ==
  ASSUME Init PROVE PoolInv
<1> DEFINE m == started(booted)
<1>1. /\ used = m.used /\ table = m.table /\ frames = m.frames
      /\ global_PML4 = m.global_PML4 /\ halted = m.halted
  BY DEF Init
<1>2. /\ Sound(m) /\ Rooted(m)
      /\ ~m.halted => /\ m.used["TASK"] = {0, 1} /\ m.used["KSTACK"] = {0, 1}
                      /\ m.used["MM"] = {0} /\ m.used["VMA"] = 0 .. AREAS - 1
  BY StartedIs
<1> HIDE DEF m
<1>3. /\ TasksTyped /\ current \in Tasks /\ Tasks = {IDLE, INIT} /\ Users = {INIT}
      /\ task[IDLE].init_kern = get_base["KSTACK"] + 1
      /\ task[INIT].init_kern = get_base["KSTACK"] + 2
      /\ task[INIT].mm = get_base["MM"]
      /\ areas(INIT) = {get_base["VMA"] + i : i \in 0 .. AREAS - 1}
  BY FirstTasks
<1>4. TypeOK
  BY <1>1, <1>2, <1>3 DEF TypeOK, Sound, Rooted, TablePages, Frames
<1>5. ASSUME ~halted
      PROVE  /\ used["TASK"] = Tasks
             /\ \A t, u \in Tasks : t # u => task[t].init_kern # task[u].init_kern
             /\ \A t, u \in Users : t = u
             /\ allocated("KSTACK") = {task[t].init_kern - 1 : t \in Tasks}
             /\ allocated("MM") = {task[t].mm : t \in Users}
             /\ allocated("VMA") = UNION {areas(t) : t \in Users}
  <2>1. /\ used["TASK"] = {0, 1} /\ used["KSTACK"] = {0, 1}
        /\ used["MM"] = {0} /\ used["VMA"] = 0 .. AREAS - 1
    BY <1>1, <1>2, <1>5
  <2>2. get_base["KSTACK"] \in Nat /\ get_base["MM"] \in Nat
    BY BasesAre DEF Flags
  <2>3. used["TASK"] = Tasks
    BY <1>3, <2>1 DEF IDLE, INIT
  <2>4. \A t, u \in Tasks : t # u => task[t].init_kern # task[u].init_kern
    BY <1>3, <2>2
  <2>5. allocated("KSTACK") = {task[t].init_kern - 1 : t \in Tasks}
    <3>1. allocated("KSTACK") = {get_base["KSTACK"] + 0, get_base["KSTACK"] + 1}
      BY <2>1 DEF allocated
    <3>2. {task[t].init_kern - 1 : t \in Tasks} = {task[IDLE].init_kern - 1, task[INIT].init_kern - 1}
      BY <1>3
    <3>3. /\ task[IDLE].init_kern - 1 = get_base["KSTACK"] + 0
          /\ task[INIT].init_kern - 1 = get_base["KSTACK"] + 1
      BY <1>3, <2>2
    <3>4. QED
      BY <3>1, <3>2, <3>3
  <2>6. allocated("MM") = {task[t].mm : t \in Users}
    <3>1. allocated("MM") = {get_base["MM"] + 0} /\ {task[t].mm : t \in Users} = {task[INIT].mm}
      BY <1>3, <2>1 DEF allocated
    <3>2. QED
      BY <1>3, <2>2, <3>1
  <2>7. allocated("VMA") = UNION {areas(t) : t \in Users}
    <3>1. allocated("VMA") = areas(INIT)
      BY <1>3, <2>1 DEF allocated
    <3>2. UNION {areas(t) : t \in Users} = areas(INIT)
      BY <1>3
    <3>3. QED
      BY <3>1, <3>2
  <2>8. \A t, u \in Users : t = u
    BY <1>3
  <2>9. QED
    BY <2>3, <2>4, <2>5, <2>6, <2>7, <2>8
<1>6. PagesHeld
  BY <1>5 DEF PagesHeld
<1>7. QED
  BY <1>3, <1>4, <1>6 DEF PoolInv
-----------------------------------------------------------------------------
LEMMA PoolsStep ==
  ASSUME PoolInv, [Next]_vars PROVE PoolInv'
<1>1. CASE UNCHANGED vars
  <2>1. UNCHANGED <<used, table, frames, global_PML4, task, current, halted>>
    BY <1>1 DEF vars
  <2>2. TypeOK' /\ TasksTyped'
    BY <2>1 DEF PoolInv, TypeOK, TasksTyped, Tasks
  <2>3. PagesHeld'
    <3>1. SameHolders /\ used' = used /\ halted' = halted
      BY <2>1 DEF SameHolders, Tasks
    <3>2. QED
      BY <3>1, HeldStill DEF PoolInv, PagesHeld
  <2>4. QED
    BY <2>2, <2>3 DEF PoolInv
<1>2. CASE Next
  BY <1>2, ForkStep, ExecStep, ExecFailsStep, ExitStep, ScheduleStep, SbrkStep, DemandStep,
     CopyStep, KillStep, PsStep DEF Next
<1>3. QED
  BY <1>1, <1>2

LEMMA PoolsAlways ==
  Spec => []PoolInv
<1>1. Init => PoolInv
  BY PoolsAtStart
<1>2. PoolInv /\ [Next]_vars => PoolInv'
  BY PoolsStep
<1>3. QED
  BY <1>1, <1>2, PTL DEF Spec

\* Through any sequence of calls and faults, every page that kmalloc has given
\* is one of its pool, every table is a page of a pool or a frame, and the table
\* that map_virmem_to_phymem changes is there.
THEOREM MemoryStaysTyped == Spec => []TypeOK
<1>1. PoolInv => TypeOK
  BY PoolsKeep
<1>2. QED
  BY <1>1, PoolsAlways, PTL

\* The pages that the pools have given out are those of the tasks there are:
\* none is held by two, none is free while it is held, and none is lost when
\* clean_dead frees a task, for any number of processes.
THEOREM PoolsStayMatched == Spec => []PoolsMatchTasks
<1>1. PoolInv => PoolsMatchTasks
  BY PoolsKeep
<1>2. QED
  BY <1>1, PoolsAlways, PTL
=============================================================================
