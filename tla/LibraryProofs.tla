--------------------------- MODULE LibraryProofs ---------------------------
(***************************************************************************)
(* Proofs about the calls of Library, for programs, files and arguments of *)
(* any size: blocks of malloc, headers of an archive and the first read of *)
(* a file, the comparison of strings, the words of a line, the lines of a  *)
(* script, and the arguments that execve passes.                           *)
(***************************************************************************)
EXTENDS Library, SequenceLemmas

(* Rounding to pages.                                                      *)

\* A number has one quotient only.
LEMMA QuotientUnique ==
  ASSUME NEW a \in Nat, NEW p \in Nat, p > 0, NEW q \in Nat,
         q * p <= a, a < q * p + p
  PROVE  a \div p = q
<1>1. a \div p \in Nat /\ (a \div p) * p <= a /\ a < (a \div p) * p + p
  OBVIOUS
<1>2. QED
  BY <1>1

\* The page behind the last one with a byte of a.
Rounded(a) == ((a + PAGE_SIZE - 1) \div PAGE_SIZE) * PAGE_SIZE

LEMMA RoundedIs ==
  ASSUME NEW a \in Nat
  PROVE  Rounded(a) \in Nat /\ a <= Rounded(a) /\ Rounded(a) <= a + PAGE_SIZE - 1
<1>1. PAGE_SIZE \in Nat /\ PAGE_SIZE > 0
  BY LibraryAssumption
<1>2. QED
  BY <1>1 DEF Rounded

\* What is rounded already stays.
LEMMA RoundedTwice ==
  ASSUME NEW a \in Nat
  PROVE  Rounded(Rounded(a)) = Rounded(a)
<1> DEFINE q == (a + PAGE_SIZE - 1) \div PAGE_SIZE
<1>1. PAGE_SIZE \in Nat /\ PAGE_SIZE > 0
  BY LibraryAssumption
<1>2. q \in Nat /\ q * PAGE_SIZE \in Nat
  BY <1>1
<1>3. (q * PAGE_SIZE + PAGE_SIZE - 1) \div PAGE_SIZE = q
  <2> DEFINE b == q * PAGE_SIZE + PAGE_SIZE - 1
  <2>1. b \in Nat /\ q * PAGE_SIZE <= b /\ b < q * PAGE_SIZE + PAGE_SIZE
    BY <1>1, <1>2
  <2>2. b \div PAGE_SIZE = q
    <3> HIDE DEF b, q
    <3>1. QED
      BY <1>1, <1>2, <2>1, QuotientUnique
  <2>3. QED
    BY <2>2
<1>4. QED
  BY <1>3 DEF Rounded

\* The heap begins at a page.
LEMMA FirstPage ==
  LET first == HEAP_BASE + PAGE_SIZE
  IN first \in Nat /\ Rounded(first) = first
<1> DEFINE q == HEAP_BASE \div PAGE_SIZE
           a == HEAP_BASE + PAGE_SIZE
<1>1. PAGE_SIZE \in Nat /\ PAGE_SIZE > 0 /\ HEAP_BASE \in Nat
      /\ HEAP_BASE % PAGE_SIZE = 0
  BY LibraryAssumption
<1>2. q \in Nat /\ HEAP_BASE = q * PAGE_SIZE
  BY <1>1
<1>3. (a + PAGE_SIZE - 1) \div PAGE_SIZE = q + 1
  <2> DEFINE b == a + PAGE_SIZE - 1
  <2>1. (q + 1) * PAGE_SIZE = q * PAGE_SIZE + PAGE_SIZE
    BY <1>1, <1>2
  <2>2. b \in Nat /\ (q + 1) * PAGE_SIZE <= b /\ b < (q + 1) * PAGE_SIZE + PAGE_SIZE
    BY <1>1, <1>2, <2>1
  <2>3. q + 1 \in Nat
    BY <1>2
  <2>4. b \div PAGE_SIZE = q + 1
    <3> HIDE DEF b, q
    <3>1. QED
      BY <1>1, <2>2, <2>3, QuotientUnique
  <2>5. QED
    BY <2>4
<1>4. (q + 1) * PAGE_SIZE = q * PAGE_SIZE + PAGE_SIZE
  BY <1>1, <1>2
<1>5. QED
  BY <1>1, <1>2, <1>3, <1>4 DEF Rounded

\* Below 2^32 the masked end is the end; a request that leads behind it, but
\* not by more than a request may, never looks like one that fits.
LEMMA PageEndIs ==
  ASSUME NEW a \in Nat
  PROVE  /\ Rounded(a) < ADDRESSES => page_end(a) = Rounded(a)
         /\ ADDRESSES <= Rounded(a) /\ Rounded(a) < 2 * ADDRESSES
              => page_end(a) = Rounded(a) - ADDRESSES
<1>1. page_end(a) = Rounded(a) % ADDRESSES
  BY DEF page_end, Rounded
<1>2. ADDRESSES \in Nat /\ Rounded(a) \in Nat
  BY LibraryAssumption, RoundedIs
<1>3. QED
  BY <1>1, <1>2
-----------------------------------------------------------------------------
(* The heap.                                                               *)

\* do_sbrk leaves the heap's end at a page, not more than a request and a
\* page further, and returns the old end if it grants the request.
LEMMA DoSbrkIs ==
  ASSUME NEW e \in Nat, Rounded(e) = e,
         e + BRK_LIMIT + PAGE_SIZE < ADDRESSES, NEW size \in SIZES
  PROVE  LET r == do_sbrk(e, size)
         IN /\ r.brk \in Nat /\ Rounded(r.brk) = r.brk
            /\ e <= r.brk /\ r.brk <= e + BRK_LIMIT + PAGE_SIZE
            /\ r.at \in {e, -1}
            /\ r.at = e => e + size <= r.brk
<1> DEFINE n == Rounded(e + size)
<1>1. /\ PAGE_SIZE \in Nat /\ PAGE_SIZE > 0 /\ ADDRESSES \in Nat /\ BRK_LIMIT \in Nat
      /\ size \in Nat /\ size <= ADDRESSES - PAGE_SIZE
  BY LibraryAssumption
<1>2. n \in Nat /\ e + size <= n /\ n <= e + size + PAGE_SIZE - 1
  BY <1>1, RoundedIs
<1>3. Rounded(n) = n
  BY <1>1, RoundedTwice
<1>4. page_end(e) = e
  BY <1>1, PageEndIs
<1>5. /\ n < ADDRESSES => page_end(e + size) = n
      /\ ADDRESSES <= n => page_end(e + size) < e
  <2>1. n < 2 * ADDRESSES /\ n - ADDRESSES < e
    BY <1>1, <1>2
  <2>2. e + size \in Nat
    BY <1>1
  <2>3. QED
    BY <2>1, <2>2, <1>1, <1>2, PageEndIs
<1> HIDE DEF n
<1>6. CASE page_end(e) = page_end(e + size)
  <2>1. n = e
    BY <1>1, <1>2, <1>4, <1>5, <1>6
  <2>2. do_sbrk(e, size) = [at |-> e, brk |-> e]
    BY <1>4, <1>6 DEF do_sbrk
  <2>3. QED
    BY <1>1, <1>2, <2>1, <2>2
<1>7. CASE page_end(e) # page_end(e + size) /\ size < BRK_LIMIT
  <2>1. n < ADDRESSES /\ n <= e + BRK_LIMIT + PAGE_SIZE
    BY <1>1, <1>2, <1>7
  <2>2. do_sbrk(e, size) = [at |-> e, brk |-> n]
    BY <1>5, <1>7, <2>1 DEF do_sbrk
  <2>3. QED
    BY <1>1, <1>2, <1>3, <2>1, <2>2
<1>8. CASE page_end(e) # page_end(e + size) /\ ~(size < BRK_LIMIT)
  <2>1. do_sbrk(e, size) = [at |-> -1, brk |-> e]
    BY <1>8 DEF do_sbrk
  <2>2. QED
    BY <1>1, <2>1
<1>9. QED
  BY <1>6, <1>7, <1>8

Block  == [at : Int, size : Nat]
Blocks == Seq(Block)

HeapInv ==
  /\ blocks \in Blocks /\ Len(blocks) <= MAX_CALLS
  /\ brk \in Nat /\ Rounded(brk) = brk /\ HEAP_BASE <= brk
  /\ brk <= HEAP_BASE + PAGE_SIZE + Len(blocks) * (BRK_LIMIT + PAGE_SIZE)
  /\ BlocksAreDisjoint

\* A program begins with an empty heap.
LEMMA HeapEmpty ==
  LET first == HEAP_BASE + PAGE_SIZE
  IN /\ <<>> \in Blocks /\ Len(<<>>) <= MAX_CALLS /\ DOMAIN <<>> = {}
     /\ first \in Nat /\ Rounded(first) = first /\ HEAP_BASE <= first
     /\ first <= first + Len(<<>>) * (BRK_LIMIT + PAGE_SIZE)
<1>1. /\ PAGE_SIZE \in Nat /\ HEAP_BASE \in Nat /\ BRK_LIMIT \in Nat /\ MAX_CALLS \in Nat
  BY LibraryAssumption
<1>2. <<>> \in Blocks /\ Len(<<>>) = 0 /\ DOMAIN <<>> = {}
  BY DEF Blocks
<1>3. Len(<<>>) * (BRK_LIMIT + PAGE_SIZE) = 0
  BY <1>1, <1>2
<1>4. QED
  BY <1>1, <1>2, <1>3, FirstPage

\* What the heap may have grown to after n calls.
LEMMA Growth ==
  ASSUME NEW n \in Nat, NEW m \in Nat, n < m, NEW k \in Nat
  PROVE  /\ n * k \in Nat /\ (n + 1) * k = n * k + k
         /\ (n + 1) * k <= m * k
<1>1. n + 1 <= m
  OBVIOUS
<1>2. QED
  BY <1>1

LEMMA MallocKeepsHeap ==
  ASSUME HeapInv, malloc
  PROVE  HeapInv'
<1> USE DEF HeapInv
<1>1. PICK size \in SIZES :
        /\ Len(blocks) < MAX_CALLS
        /\ brk' = do_sbrk(brk, size).brk
        /\ blocks' = Append(blocks, [at |-> do_sbrk(brk, size).at, size |-> size])
  BY DEF malloc
<1> DEFINE r == do_sbrk(brk, size)
           k == BRK_LIMIT + PAGE_SIZE
           n == Len(blocks)
<1>2. /\ PAGE_SIZE \in Nat /\ HEAP_BASE \in Nat /\ BRK_LIMIT \in Nat /\ MAX_CALLS \in Nat
      /\ k \in Nat /\ n \in Nat /\ size \in Nat
      /\ HEAP_BASE + PAGE_SIZE + MAX_CALLS * k < ADDRESSES /\ ADDRESSES \in Nat
  BY LibraryAssumption DEF Blocks
<1>3. /\ n * k \in Nat /\ MAX_CALLS * k \in Nat
      /\ (n + 1) * k = n * k + k /\ (n + 1) * k <= MAX_CALLS * k
  <2> HIDE DEF k, n, HeapInv
  <2>1. n < MAX_CALLS
    BY <1>1 DEF n
  <2>2. QED
    BY <1>2, <2>1, Growth
<1>4. brk + BRK_LIMIT + PAGE_SIZE < ADDRESSES
  <2>1. brk <= HEAP_BASE + PAGE_SIZE + n * k
    OBVIOUS
  <2> HIDE DEF n, HeapInv
  <2>2. n * k + BRK_LIMIT + PAGE_SIZE <= MAX_CALLS * k
    BY <1>2, <1>3
  <2>3. brk \in Nat
    BY DEF HeapInv
  <2> HIDE DEF k
  <2>4. QED
    BY <1>2, <1>3, <2>1, <2>2, <2>3
<1>5. /\ brk' \in Nat /\ Rounded(brk') = brk'
      /\ brk <= brk' /\ brk' <= brk + BRK_LIMIT + PAGE_SIZE
      /\ r.at \in {brk, -1}
      /\ r.at = brk => brk + size <= brk'
  BY <1>1, <1>4, DoSbrkIs
<1> HIDE DEF r
<1>6. blocks' = Append(blocks, [at |-> r.at, size |-> size])
  BY <1>1 DEF r
<1>7. blocks' \in Blocks /\ Len(blocks') = n + 1
  <2>1. [at |-> r.at, size |-> size] \in Block
    BY <1>2, <1>5 DEF Block
  <2>2. QED
    BY <1>6, <2>1 DEF Blocks
<1>8. brk' <= HEAP_BASE + PAGE_SIZE + Len(blocks') * k
  <2>1. brk <= HEAP_BASE + PAGE_SIZE + n * k
    OBVIOUS
  <2> HIDE DEF n, HeapInv
  <2>2. brk' <= HEAP_BASE + PAGE_SIZE + (n * k + k)
    <3>1. brk \in Nat
      BY DEF HeapInv
    <3>2. QED
      BY <1>2, <1>3, <1>5, <2>1, <3>1
  <2>3. QED
    BY <1>3, <1>7, <2>2
<1>9. BlocksAreDisjoint'
  <2>1. /\ DOMAIN blocks' = 1 .. n + 1
        /\ blocks'[n + 1] = [at |-> r.at, size |-> size]
        /\ \A i \in DOMAIN blocks : i \in DOMAIN blocks' /\ blocks'[i] = blocks[i]
    BY <1>6 DEF Blocks
  <2>2. DOMAIN blocks = 1 .. n
    BY DEF Blocks
  <2>3. \A i \in DOMAIN blocks : /\ blocks[i].at \in Int /\ blocks[i].size \in Nat
                                 /\ blocks[i].at # -1 => blocks[i].at + blocks[i].size <= brk
    <3>1. \A i \in DOMAIN blocks : blocks[i] \in Block
      <4>1. blocks \in Seq(Block)
        BY DEF Blocks
      <4> HIDE DEF HeapInv
      <4>2. QED
        BY <4>1, <2>2, ElementOfSeq DEF n
    <3>2. \A i \in DOMAIN blocks :
            blocks[i].at # -1 => blocks[i].at + blocks[i].size <= brk
      BY DEF BlocksAreDisjoint
    <3>3. QED
      BY <3>1, <3>2 DEF Block
  <2> SUFFICES ASSUME NEW i \in 1 .. n + 1, blocks'[i].at # -1
               PROVE  /\ HEAP_BASE <= blocks'[i].at
                      /\ blocks'[i].at + blocks'[i].size <= brk'
                      /\ \A j \in 1 .. i - 1 : blocks'[j].at # -1 =>
                           blocks'[j].at + blocks'[j].size <= blocks'[i].at
    BY <2>1 DEF BlocksAreDisjoint
  <2>4. CASE i = n + 1
    <3>1. r.at = brk /\ blocks'[i].at = brk /\ blocks'[i].size = size
      BY <1>5, <2>1, <2>4
    <3>2. \A j \in 1 .. i - 1 : j \in DOMAIN blocks
      BY <1>2, <2>2, <2>4
    <3>3. QED
      BY <1>5, <2>1, <2>3, <3>1, <3>2
  <2>5. CASE i # n + 1
    <3>1. i \in DOMAIN blocks /\ blocks'[i] = blocks[i]
      BY <1>2, <2>1, <2>2, <2>5
    <3>2. \A j \in 1 .. i - 1 : j \in DOMAIN blocks /\ blocks'[j] = blocks[j]
      BY <1>2, <2>1, <2>2, <3>1
    <3>3. /\ HEAP_BASE <= blocks[i].at
          /\ \A j \in 1 .. i - 1 : blocks[j].at # -1 =>
               blocks[j].at + blocks[j].size <= blocks[i].at
      BY <2>5, <3>1 DEF BlocksAreDisjoint
    <3>4. blocks[i].at + blocks[i].size <= brk'
      <4>1. blocks[i].at + blocks[i].size <= brk
        BY <2>3, <3>1
      <4>2. blocks[i].at + blocks[i].size \in Int
        BY <2>3, <3>1
      <4>3. QED
        BY <1>5, <4>1, <4>2
    <3>5. QED
      BY <3>1, <3>2, <3>3, <3>4
  <2>6. QED
    BY <2>4, <2>5
<1>10. QED
  BY <1>2, <1>1, <1>5, <1>7, <1>8, <1>9

\* Calls of malloc in any sequence of sizes, for as long as the heap stays
\* below 2^32: no two blocks share a byte.
THEOREM BlocksStayDisjoint == Spec => []BlocksAreDisjoint
<1>1. Init => HeapInv
  BY HeapEmpty DEF Init, HeapInv, BlocksAreDisjoint
<1>2. HeapInv /\ [Next]_vars => HeapInv'
  <2> SUFFICES ASSUME HeapInv, [Next]_vars PROVE HeapInv'
    OBVIOUS
  <2>1. CASE malloc
    BY <2>1, MallocKeepsHeap
  <2>2. CASE do_execv
    <3>1. blocks' = <<>> /\ brk' = HEAP_BASE + PAGE_SIZE
      BY <2>2 DEF do_execv
    <3>2. QED
      BY <3>1, HeapEmpty DEF HeapInv, BlocksAreDisjoint
  <2>3. CASE UNCHANGED <<brk, blocks>>
    BY <2>3 DEF HeapInv, BlocksAreDisjoint
  <2>4. ~malloc /\ ~do_execv => UNCHANGED <<brk, blocks>>
    BY DEF Next, returns, compares, searches, splits, runs_script, prints, prints_hex,
      converts, measures, walks, passes, scans, opens, reads, computes, vars
  <2>5. QED
    BY <2>1, <2>2, <2>3, <2>4
<1>3. HeapInv => BlocksAreDisjoint
  BY DEF HeapInv
<1>4. QED
  BY <1>1, <1>2, <1>3, PTL DEF Spec
-----------------------------------------------------------------------------
(* Files.                                                                  *)

\* The blocks up to header k of an archive of two bodies.
HeaderItem(f, s, k) == IF k = 1 THEN 0 ELSE f[k - 1] + tarfs_header_walk(s[k - 1])

HeaderAt(s, k) ==
  IF k = 1 THEN 0
  ELSE IF k = 2 THEN tarfs_header_walk(s[1])
  ELSE tarfs_header_walk(s[1]) + tarfs_header_walk(s[2])

LEMMA WalkIs ==
  ASSUME NEW bodies \in [1 .. 2 -> Nat]
  PROVE  walk(bodies) = [k \in 1 .. 3 |-> HeaderAt(bodies, k)]
<1> DEFINE Recurs(f) == f = [k \in 1 .. 3 |-> HeaderItem(f, bodies, k)]
           g == [k \in 1 .. 3 |-> HeaderAt(bodies, k)]
           h == CHOOSE f : Recurs(f)
<1>1. Len(bodies) = 2 /\ 1 .. Len(bodies) + 1 = 1 .. 3
  <2>1. bodies \in Seq(Nat)
    BY SeqDef
  <2>2. DOMAIN bodies = 1 .. Len(bodies) /\ Len(bodies) \in Nat
    BY <2>1, LenProperties
  <2>3. 1 .. Len(bodies) = 1 .. 2
    BY <2>2
  <2>4. Len(bodies) = 2
    BY <2>2, <2>3
  <2>5. QED
    BY <2>4
<1>2. Recurs(g)
  <2>1. \A k \in 1 .. 3 : HeaderAt(bodies, k) = HeaderItem(g, bodies, k)
    <3> SUFFICES ASSUME NEW k \in 1 .. 3
                 PROVE  HeaderAt(bodies, k) = HeaderItem(g, bodies, k)
      OBVIOUS
    <3>1. CASE k = 1
      BY <3>1 DEF HeaderAt, HeaderItem
    <3>2. CASE k = 2
      <4>1. g[1] = 0 /\ tarfs_header_walk(bodies[1]) \in Int
        BY LibraryAssumption DEF HeaderAt, tarfs_header_walk
      <4>2. HeaderItem(g, bodies, k) = g[1] + tarfs_header_walk(bodies[1])
        BY <3>2 DEF HeaderItem
      <4>3. QED
        BY <3>2, <4>1, <4>2 DEF HeaderAt
    <3>3. CASE k = 3
      <4>1. g[2] = tarfs_header_walk(bodies[1])
        BY DEF HeaderAt
      <4>2. HeaderItem(g, bodies, k) = g[2] + tarfs_header_walk(bodies[2])
        BY <3>3 DEF HeaderItem
      <4>3. QED
        BY <3>3, <4>1, <4>2 DEF HeaderAt
    <3>4. QED
      BY <3>1, <3>2, <3>3
  <2>2. QED
    BY <2>1
<1>3. Recurs(h)
  BY <1>2
<1>4. \A f : Recurs(f) => f = g
  <2> SUFFICES ASSUME NEW f, Recurs(f) PROVE f = g
    OBVIOUS
  <2>1. f[1] = 0
    BY DEF HeaderItem
  <2>2. f[2] = f[1] + tarfs_header_walk(bodies[1])
    BY DEF HeaderItem
  <2>3. f[3] = f[2] + tarfs_header_walk(bodies[2])
    BY DEF HeaderItem
  <2>4. tarfs_header_walk(bodies[1]) \in Int
    BY LibraryAssumption DEF tarfs_header_walk
  <2>5. \A k \in 1 .. 3 : f[k] = HeaderAt(bodies, k)
    BY <2>1, <2>2, <2>3, <2>4 DEF HeaderAt
  <2>6. DOMAIN f = 1 .. 3
    OBVIOUS
  <2>7. QED
    BY <2>5, <2>6
<1>5. walk(bodies) = [k \in 1 .. 3 |-> h[k]]
  BY <1>1 DEF walk, HeaderItem
<1>6. QED
  BY <1>3, <1>4, <1>5

\* From the first byte of a body to the next header it is less than a block
\* more than the body needs.
LEMMA HeaderIsBehind ==
  ASSUME NEW size \in Nat, NEW first \in Nat
  PROVE  LET next == (first + tarfs_header_walk(size)) * BLOCK
             body == (first + 1) * BLOCK
         IN body + size <= next /\ next < body + size + BLOCK
<1> DEFINE q == (size + BLOCK - 1) \div BLOCK
<1>1. BLOCK \in Nat /\ BLOCK > 0
  BY LibraryAssumption
<1>2. q \in Nat /\ q * BLOCK <= size + BLOCK - 1 /\ size + BLOCK - 1 < q * BLOCK + BLOCK
  BY <1>1
<1>3. tarfs_header_walk(size) = q + 1
  BY DEF tarfs_header_walk
<1> HIDE DEF q
<1>4. /\ (first + (q + 1)) * BLOCK = (first + 1) * BLOCK + q * BLOCK
      /\ (first + 1) * BLOCK \in Nat /\ q * BLOCK \in Nat
  BY <1>1, <1>2
<1>5. QED
  <2> DEFINE b == (first + 1) * BLOCK
             c == q * BLOCK
  <2>1. b \in Nat /\ c \in Nat /\ c <= size + BLOCK - 1 /\ size + BLOCK - 1 < c + BLOCK
    BY <1>2, <1>4
  <2>2. (first + tarfs_header_walk(size)) * BLOCK = b + c
    BY <1>3, <1>4
  <2> HIDE DEF b, c
  <2>3. b + size <= b + c /\ b + c < b + size + BLOCK
    BY <1>1, <2>1
  <2>4. QED
    BY <2>2, <2>3 DEF b

FileInv ==
  /\ file \in [body : Seq({1, 2}), start : Nat, size : Nat]
  /\ file.size = Len(file.body)
  /\ FilesAreRead

LEMMA WalkFinds ==
  ASSUME FileInv, walks
  PROVE  WalksHeaders'
<1>1. PICK sizes \in [1 .. 2 -> 0 .. 2 * BLOCK + 1] :
        call' = [fn |-> "walk", args |-> sizes, out |-> walk(sizes)]
  BY DEF walks, computes, returned
<1>2. sizes \in [1 .. 2 -> Nat]
  BY <1>1, LibraryAssumption
<1> DEFINE out == [k \in 1 .. 3 |-> HeaderAt(sizes, k)]
<1>3. call'.args = sizes /\ call'.out = out
  BY <1>1, <1>2, WalkIs
<1>4. ASSUME NEW k \in 1 .. 2
      PROVE  LET body == (out[k] + 1) * BLOCK
                 next == out[k + 1] * BLOCK
             IN body + sizes[k] <= next /\ next < body + sizes[k] + BLOCK
  <2>1. out[k] \in Nat /\ out[k + 1] = out[k] + tarfs_header_walk(sizes[k])
    <3>1. tarfs_header_walk(sizes[1]) \in Nat /\ tarfs_header_walk(sizes[2]) \in Nat
      BY <1>2, LibraryAssumption DEF tarfs_header_walk
    <3>2. /\ out[1] = 0 /\ out[2] = tarfs_header_walk(sizes[1])
          /\ out[3] = tarfs_header_walk(sizes[1]) + tarfs_header_walk(sizes[2])
      BY DEF HeaderAt
    <3> HIDE DEF out
    <3>3. CASE k = 1
      BY <3>1, <3>2, <3>3
    <3>4. CASE k = 2
      BY <3>1, <3>2, <3>4
    <3>5. QED
      BY <3>3, <3>4
  <2>2. sizes[k] \in Nat
    BY <1>2
  <2> HIDE DEF out
  <2>3. QED
    BY <2>1, <2>2, HeaderIsBehind
<1> HIDE DEF out
<1>5. DOMAIN sizes = 1 .. 2
  BY <1>1
<1>6. QED
  BY <1>3, <1>4, <1>5 DEF WalksHeaders

\* What a read of a file that stands at its beginning returns.
LEMMA PrefixIs ==
  ASSUME NEW f \in [body : Seq({1, 2}), start : Nat, size : Nat],
         f.size = Len(f.body), NEW size \in Nat
  PROVE  LET count == IF size < Len(f.body) THEN size ELSE Len(f.body)
         IN /\ f.start = 0 => tarfs_read(f, size) = SubSeq(f.body, 1, count)
            /\ Len(tarfs_read(f, size)) \in Nat
<1> DEFINE count == IF size < Len(f.body) THEN size ELSE Len(f.body)
<1>1. f.body \in Seq({1, 2}) /\ Len(f.body) \in Nat /\ f.start \in Nat
  BY LenProperties
<1>2. count \in Nat /\ count <= Len(f.body) /\ count = IF f.size < size THEN f.size ELSE size
  BY <1>1
<1> HIDE DEF count
<1>3. tarfs_read(f, size) = [i \in 1 .. count |-> at_byte(f, i)]
  BY <1>2 DEF tarfs_read
<1>4. Len(tarfs_read(f, size)) = count
  BY <1>2, <1>3
<1>5. ASSUME f.start = 0
      PROVE  tarfs_read(f, size) = SubSeq(f.body, 1, count)
  <2>1. \A i \in 1 .. count : at_byte(f, i) = f.body[i]
    BY <1>1, <1>2, <1>5 DEF at_byte
  <2>2. SubSeq(f.body, 1, count) = [i \in 1 .. count |-> f.body[i]]
    BY <1>1, <1>2
  <2>3. QED
    BY <1>3, <2>1, <2>2
<1>6. QED
  BY <1>2, <1>4, <1>5 DEF count

LEMMA ReadIsPrefix ==
  ASSUME FileInv, reads
  PROVE  FileInv'
<1>1. PICK size \in 1 .. MAX_LEN + 1 :
        /\ file' = after_read(file, tarfs_read(file, size))
        /\ call' = [fn |-> "read", args |-> <<file.start, size>>,
                    out |-> tarfs_read(file, size)]
  BY DEF reads, returned
<1>2. size \in Nat
  BY <1>1, LibraryAssumption
<1> DEFINE count == IF size < Len(file.body) THEN size ELSE Len(file.body)
<1>3. /\ file.start = 0 => tarfs_read(file, size) = SubSeq(file.body, 1, count)
      /\ Len(tarfs_read(file, size)) \in Nat
  BY <1>2, PrefixIs DEF FileInv
<1>4. /\ file' \in [body : Seq({1, 2}), start : Nat, size : Nat]
      /\ file'.body = file.body /\ file'.size = file.size
  <2>1. file \in [body : Seq({1, 2}), start : Nat, size : Nat]
    BY DEF FileInv
  <2>2. file' = [file EXCEPT !.start = @ + 4 * Len(tarfs_read(file, size))]
    BY <1>1 DEF after_read
  <2>3. file.start + 4 * Len(tarfs_read(file, size)) \in Nat
    BY <1>3, <2>1
  <2>4. QED
    BY <2>1, <2>2, <2>3
<1>5. FirstReadIsPrefix'
  <2>1. /\ call'.args[1] = file.start /\ call'.args[2] = size
        /\ call'.out = tarfs_read(file, size)
    BY <1>1
  <2>2. QED
    BY <1>3, <1>4, <2>1 DEF FirstReadIsPrefix
<1>6. WalksHeaders'
  <2>1. call'.fn # "walk"
    BY <1>1
  <2>2. QED
    BY <2>1 DEF WalksHeaders, Called
<1>7. QED
  BY <1>4, <1>5, <1>6 DEF FileInv, FilesAreRead

\* What neither walks nor reads.
LEMMA OtherCalls ==
  ASSUME FileInv, call'.fn \notin {"walk", "read"},
         file' \in [body : Seq({1, 2}), start : Nat, size : Nat],
         file'.size = Len(file'.body)
  PROVE  FileInv'
BY DEF FileInv, FilesAreRead, WalksHeaders, FirstReadIsPrefix, Called

LEMMA Computed ==
  ASSUME NEW fn, NEW args, NEW out, computes(fn, args, out)
  PROVE  file' = file /\ call'.fn = fn
BY DEF computes, returned

LEMMA FileInvStep ==
  ASSUME FileInv, [Next]_vars
  PROVE  FileInv'
<1> DEFINE File == [body : Seq({1, 2}), start : Nat, size : Nat]
<1>1. file \in File /\ file.size = Len(file.body)
  BY DEF FileInv
<1>2. NoFile \in File /\ NoFile.size = Len(NoFile.body)
  BY DEF NoFile
<1>3. CASE walks
  <2>1. file' = file /\ call'.fn = "walk"
    BY <1>3 DEF walks, computes, returned
  <2>2. FirstReadIsPrefix'
    BY <2>1 DEF FirstReadIsPrefix, Called
  <2>3. QED
    BY <1>1, <1>3, <2>1, <2>2, WalkFinds DEF FileInv, FilesAreRead
<1>4. CASE reads
  BY <1>4, ReadIsPrefix
<1>5. CASE do_execv
  <2>1. file' = NoFile /\ call' = Idle
    BY <1>5 DEF do_execv
  <2>2. QED
    BY <1>2, <2>1, OtherCalls DEF Idle
<1>6. CASE opens
  <2>1. PICK body \in Strings({1, 2}) :
          /\ file' = [body |-> body, start |-> 0, size |-> Len(body)]
          /\ call'.fn = "open"
    BY <1>6 DEF opens, returned
  <2>2. body \in Seq({1, 2})
    <3>1. PICK n \in 0 .. MAX_LEN : body \in [1 .. n -> {1, 2}]
      BY <2>1 DEF Strings
    <3>2. n \in Nat
      BY <3>1, LibraryAssumption
    <3>3. QED
      BY <3>1, <3>2, SeqDef
  <2>3. file' \in File /\ file'.size = Len(file'.body)
    BY <2>1, <2>2
  <2>4. QED
    BY <2>1, <2>3, OtherCalls
<1>7. CASE returns \/ compares \/ searches \/ splits \/ runs_script \/ prints
           \/ prints_hex \/ converts \/ measures \/ passes \/ scans \/ malloc
  <2> DEFINE Other == file' = file /\ call'.fn \notin {"walk", "read"}
  <2>1. returns => Other
    BY DEF returns, Idle
  <2>2. compares => Other
    BY Computed DEF compares
  <2>3. searches => Other
    BY Computed DEF searches
  <2>4. splits => Other
    BY Computed DEF splits
  <2>5. runs_script => Other
    BY Computed DEF runs_script
  <2>6. prints => Other
    BY Computed DEF prints
  <2>7. prints_hex => Other
    BY Computed DEF prints_hex
  <2>8. converts => Other
    BY Computed DEF converts
  <2>9. measures => Other
    BY Computed DEF measures
  <2>10. passes => Other
    BY Computed DEF passes
  <2>11. scans => Other
    BY DEF scans, returned
  <2>12. malloc => Other
    BY DEF malloc, returned
  <2>13. Other
    BY <1>7, <2>1, <2>2, <2>3, <2>4, <2>5, <2>6, <2>7, <2>8, <2>9, <2>10, <2>11, <2>12
  <2>14. QED
    BY <1>1, <2>13, OtherCalls
<1>8. CASE UNCHANGED vars
  BY <1>8 DEF FileInv, FilesAreRead, WalksHeaders, FirstReadIsPrefix, Called, vars
<1>9. QED
  BY <1>3, <1>4, <1>5, <1>6, <1>7, <1>8 DEF Next

\* For bodies of any size: a walk of the archive visits the header of each,
\* and the first read of an open file returns its beginning (tarfs_read).
THEOREM FilesAreAlwaysRead == Spec => []FilesAreRead
<1>1. Init => FileInv
  BY DEF Init, FileInv, FilesAreRead, WalksHeaders, FirstReadIsPrefix, Called, Idle, NoFile
<1>2. FileInv /\ [Next]_vars => FileInv'
  BY FileInvStep
<1>3. FileInv => FilesAreRead
  BY DEF FileInv
<1>4. QED
  BY <1>1, <1>2, <1>3, PTL DEF Spec
-----------------------------------------------------------------------------
(* Strings of the characters 1 and 2.                                      *)

Letters == {1, 2}
Texts   == Seq(Letters)

\* What is read in a string or just behind it.
LEMMA AtIs ==
  ASSUME NEW s \in Texts
  PROVE  /\ Len(s) \in Nat
         /\ \A i \in 1 .. Len(s) : at(s, i) = s[i] /\ s[i] \in {1, 2}
         /\ at(s, Len(s) + 1) = 0
         /\ \A i \in Nat : i >= 1 /\ i > Len(s) => at(s, i) \in {0, Wild}
         /\ \A i \in Nat : i >= 1 /\ at(s, i) = 0 => i = Len(s) + 1
<1>1. Len(s) \in Nat /\ DOMAIN s = 1 .. Len(s) /\ \A i \in 1 .. Len(s) : s[i] \in Letters
  BY LenProperties, ElementOfSeq DEF Texts
<1>2. QED
  BY <1>1 DEF at, Wild, Letters

\* The least of a set.
LEMMA LeastIs ==
  ASSUME NEW S \in SUBSET Nat, S # {}
  PROVE  least(S) \in S /\ \A j \in S : least(S) <= j
<1>1. \E m \in S : \A k \in S : m <= k
  BY NatMin
<1>2. QED
  BY <1>1 DEF least

\* Two strings with the same beginning are ordered by what follows.
LEMMA OrderedByNext ==
  ASSUME NEW s \in Texts, NEW t \in Texts, NEW i \in Nat, i >= 1,
         \A j \in 1 .. i - 1 : j <= Len(s) /\ j <= Len(t) /\ s[j] = t[j],
         at(s, i) # at(t, i) \/ s = t
  PROVE  ordered(s, t, at(s, i) - at(t, i))
<1>1. Len(s) \in Nat /\ Len(t) \in Nat /\ i - 1 <= Len(s) /\ i - 1 <= Len(t)
  <2>1. Len(s) \in Nat /\ Len(t) \in Nat
    BY AtIs
  <2>2. i = 1 \/ i - 1 \in 1 .. i - 1
    OBVIOUS
  <2>3. QED
    BY <2>1, <2>2
<1>2. /\ \A k \in 1 .. Len(s) : at(s, k) = s[k] /\ s[k] \in {1, 2}
      /\ \A k \in 1 .. Len(t) : at(t, k) = t[k] /\ t[k] \in {1, 2}
      /\ at(s, Len(s) + 1) = 0 /\ at(t, Len(t) + 1) = 0
  BY AtIs
<1>3. at(s, i) \in {0, 1, 2} /\ at(t, i) \in {0, 1, 2}
  <2>1. (i \in 1 .. Len(s) \/ i = Len(s) + 1) /\ (i \in 1 .. Len(t) \/ i = Len(t) + 1)
    BY <1>1
  <2>2. QED
    BY <1>2, <2>1
<1> DEFINE sign == at(s, i) - at(t, i)
           Less(k) == /\ Len(s) >= k - 1
                      /\ SubSeq(s, 1, k - 1) = SubSeq(t, 1, k - 1)
                      /\ k <= Len(s) => s[k] < t[k]
<1>4. sign = 0 <=> s = t
  <2>1. s = t => sign = 0
    BY <1>3
  <2>2. at(s, i) # at(t, i) => sign # 0
    BY <1>3
  <2>3. QED
    BY <2>1, <2>2
<1>5. ASSUME sign < 0 PROVE \E k \in 1 .. Len(t) : Less(k)
  <2>1. at(t, i) \in {1, 2} /\ at(s, i) < at(t, i)
    BY <1>3, <1>5
  <2>2. i \in 1 .. Len(t)
    BY <1>1, <1>2, <2>1
  <2>3. SubSeq(s, 1, i - 1) = SubSeq(t, 1, i - 1)
    <3>1. /\ SubSeq(s, 1, i - 1) = [j \in 1 .. i - 1 |-> s[j]]
          /\ SubSeq(t, 1, i - 1) = [j \in 1 .. i - 1 |-> t[j]]
      BY <1>1 DEF Texts
    <3>2. QED
      BY <3>1
  <2>4. i <= Len(s) => s[i] < t[i]
    BY <1>2, <2>1, <2>2
  <2>5. QED
    BY <1>1, <2>2, <2>3, <2>4
<1>6. ASSUME NEW k \in 1 .. Len(t), Less(k) PROVE sign < 0
  <2>1. \A j \in 1 .. k - 1 : s[j] = t[j]
    <3>1. k - 1 \in Nat /\ k - 1 <= Len(s) /\ k - 1 <= Len(t)
      BY <1>1, <1>6
    <3>2. /\ SubSeq(s, 1, k - 1) = [j \in 1 .. k - 1 |-> s[j]]
          /\ SubSeq(t, 1, k - 1) = [j \in 1 .. k - 1 |-> t[j]]
      BY <1>1, <3>1 DEF Texts
    <3>3. [j \in 1 .. k - 1 |-> s[j]] = [j \in 1 .. k - 1 |-> t[j]]
      BY <1>6, <3>2
    <3>4. QED
      BY <3>3
  <2>2. at(s, k) < at(t, k)
    <3>1. CASE k <= Len(s)
      BY <1>1, <1>2, <1>6, <3>1
    <3>2. CASE k = Len(s) + 1
      BY <1>2, <3>2
    <3>3. QED
      BY <1>1, <1>6, <3>1, <3>2
  <2>3. i = k
    <3>1. ~(i < k)
      <4> SUFFICES ASSUME i < k PROVE FALSE
        OBVIOUS
      <4>1. i \in 1 .. k - 1 /\ i <= Len(s) /\ i <= Len(t)
        BY <1>1, <1>6
      <4>2. at(s, i) = at(t, i)
        BY <1>1, <1>2, <2>1, <4>1
      <4>3. s = t
        BY <4>2
      <4>4. QED
        BY <1>2, <2>2, <4>3
    <3>2. ~(k < i)
      <4> SUFFICES ASSUME k < i PROVE FALSE
        OBVIOUS
      <4>1. k \in 1 .. i - 1 /\ k <= Len(s) /\ s[k] = t[k]
        BY <1>1
      <4>2. at(s, k) = at(t, k)
        BY <1>1, <1>2, <4>1
      <4>3. QED
        BY <1>2, <2>2, <4>1, <4>2
    <3>3. QED
      BY <3>1, <3>2
  <2>4. QED
    BY <1>3, <2>2, <2>3
<1>7. QED
  BY <1>4, <1>5, <1>6 DEF ordered

\* Where strcmp stops.
LEMMA StrcmpIs ==
  ASSUME NEW s \in Texts, NEW t \in Texts
  PROVE  ordered(s, t, strcmp(s, t))
<1> DEFINE S == {j \in 1 .. Len(s) + 1 : at(s, j) = 0 \/ at(s, j) # at(t, j)}
           i == least(S)
<1>1. Len(s) \in Nat /\ Len(t) \in Nat
  BY AtIs
<1>2. Len(s) + 1 \in S
  BY <1>1, AtIs
<1>3. S \in SUBSET Nat
  BY <1>1
<1>4. i \in S /\ \A j \in S : i <= j
  <2> HIDE DEF S
  <2>1. QED
    BY <1>2, <1>3, LeastIs
<1>5. strcmp(s, t) = at(s, i) - at(t, i)
  BY DEF strcmp
<1>6. i \in Nat /\ i >= 1 /\ i <= Len(s) + 1 /\ (at(s, i) = 0 \/ at(s, i) # at(t, i))
  BY <1>1, <1>4
<1>7. ASSUME NEW j \in 1 .. i - 1
      PROVE  j <= Len(s) /\ j <= Len(t) /\ s[j] = t[j]
  <2>1. j \in Nat /\ j >= 1 /\ j <= Len(s) /\ j \notin S
    <3>1. j \in Nat /\ j >= 1 /\ j < i
      BY <1>6
    <3>2. j \notin S
      <4> HIDE DEF S
      <4>1. QED
        BY <1>4, <1>6, <3>1
    <3>3. QED
      BY <1>1, <1>6, <3>1, <3>2
  <2>2. at(s, j) # 0 /\ at(s, j) = at(t, j)
    BY <1>1, <2>1
  <2>3. at(s, j) = s[j] /\ s[j] \in {1, 2}
    BY <2>1, <1>1, AtIs
  <2>4. j <= Len(t)
    BY <2>1, <2>2, <2>3, <1>1, AtIs DEF Wild
  <2>5. QED
    BY <2>1, <2>2, <2>3, <2>4, <1>1, AtIs
<1> HIDE DEF i
<1>8. at(s, i) # at(t, i) \/ s = t
  <2> SUFFICES ASSUME at(s, i) = at(t, i) PROVE s = t
    OBVIOUS
  <2>1. at(s, i) = 0 /\ at(t, i) = 0
    BY <1>6
  <2>2. i = Len(s) + 1 /\ i = Len(t) + 1
    BY <1>6, <2>1, AtIs
  <2>3. Len(s) = Len(t) /\ \A j \in 1 .. Len(s) : s[j] = t[j]
    BY <1>1, <1>7, <2>2
  <2>4. QED
    BY <2>3, SeqEqual DEF Texts
<1>9. QED
  BY <1>5, <1>6, <1>7, <1>8, OrderedByNext

\* The first n characters of a string.
Cut(s, n) == IF n < Len(s) THEN SubSeq(s, 1, n) ELSE s

LEMMA CutIs ==
  ASSUME NEW s \in Texts, NEW n \in Nat
  PROVE  /\ Cut(s, n) \in Texts
         /\ Len(Cut(s, n)) = IF n < Len(s) THEN n ELSE Len(s)
         /\ \A j \in 1 .. Len(Cut(s, n)) : Cut(s, n)[j] = s[j]
         /\ \A j \in 1 .. n : at(Cut(s, n), j) = at(s, j)
<1>1. Len(s) \in Nat /\ DOMAIN s = 1 .. Len(s)
  BY LenProperties DEF Texts
<1>2. CASE n < Len(s)
  <2>1. Cut(s, n) = SubSeq(s, 1, n)
    BY <1>2 DEF Cut
  <2>2. /\ SubSeq(s, 1, n) \in Texts /\ Len(SubSeq(s, 1, n)) = n
        /\ \A j \in 1 .. n : SubSeq(s, 1, n)[j] = s[j]
    BY <1>1, <1>2 DEF Texts
  <2>3. DOMAIN SubSeq(s, 1, n) = 1 .. n
    BY <2>2, LenProperties DEF Texts
  <2>4. \A j \in 1 .. n : at(SubSeq(s, 1, n), j) = at(s, j)
    <3> SUFFICES ASSUME NEW j \in 1 .. n
                 PROVE  at(SubSeq(s, 1, n), j) = at(s, j)
      OBVIOUS
    <3>1. j \in DOMAIN s
      BY <1>1, <1>2
    <3>2. QED
      BY <2>2, <2>3, <3>1 DEF at
  <2>5. QED
    BY <1>2, <2>1, <2>2, <2>4
<1>3. CASE ~(n < Len(s))
  <2>1. Cut(s, n) = s
    BY <1>3 DEF Cut
  <2>2. QED
    BY <1>3, <2>1
<1>4. QED
  BY <1>2, <1>3

LEMMA StrncmpIs ==
  ASSUME NEW s \in Texts, NEW t \in Texts, NEW n \in Nat, n >= 1
  PROVE  ordered(Cut(s, n), Cut(t, n), strncmp(s, t, n))
<1> DEFINE S == {j \in 1 .. Len(s) + 1 :
                   at(s, j) = 0 \/ at(t, j) = 0 \/ j = n \/ at(s, j) # at(t, j)}
           i == least(S)
<1>1. Len(s) \in Nat /\ Len(t) \in Nat
  BY AtIs
<1>2. Len(s) + 1 \in S
  BY <1>1, AtIs
<1>3. S \in SUBSET Nat
  BY <1>1
<1>4. i \in S /\ \A j \in S : i <= j
  <2> HIDE DEF S
  <2>1. QED
    BY <1>2, <1>3, LeastIs
<1>5. strncmp(s, t, n) = at(s, i) - at(t, i)
  <2>1. n # 0
    OBVIOUS
  <2>2. QED
    BY <2>1 DEF strncmp
<1>6. /\ i \in Nat /\ i >= 1 /\ i <= Len(s) + 1
      /\ at(s, i) = 0 \/ at(t, i) = 0 \/ i = n \/ at(s, i) # at(t, i)
  BY <1>1, <1>4
<1>7. i <= n
  <2>1. n <= Len(s) + 1 => n \in S
    BY <1>1
  <2> HIDE DEF S, i
  <2>2. QED
    BY <1>1, <1>4, <1>6, <2>1
<1>8. ASSUME NEW j \in 1 .. i - 1
      PROVE  j <= Len(s) /\ j <= Len(t) /\ s[j] = t[j]
  <2>1. j \in Nat /\ j >= 1 /\ j <= Len(s) /\ j \notin S
    <3>1. j \in Nat /\ j >= 1 /\ j < i
      BY <1>6
    <3>2. j \notin S
      <4> HIDE DEF S
      <4>1. QED
        BY <1>4, <1>6, <3>1
    <3>3. QED
      BY <1>1, <1>6, <3>1, <3>2
  <2>2. at(s, j) # 0 /\ at(s, j) = at(t, j)
    BY <1>1, <2>1
  <2>3. at(s, j) = s[j] /\ s[j] \in {1, 2}
    BY <2>1, <1>1, AtIs
  <2>4. j <= Len(t)
    BY <2>1, <2>2, <2>3, <1>1, AtIs DEF Wild
  <2>5. QED
    BY <2>1, <2>2, <2>3, <2>4, <1>1, AtIs
<1> HIDE DEF S, i
<1> DEFINE c == Cut(s, n)
           d == Cut(t, n)
<1>9. /\ c \in Texts /\ d \in Texts
      /\ Len(c) = (IF n < Len(s) THEN n ELSE Len(s))
      /\ Len(d) = (IF n < Len(t) THEN n ELSE Len(t))
      /\ \A j \in 1 .. Len(c) : c[j] = s[j]
      /\ \A j \in 1 .. Len(d) : d[j] = t[j]
      /\ at(c, i) = at(s, i) /\ at(d, i) = at(t, i)
  BY <1>6, <1>7, CutIs
<1> HIDE DEF c, d
<1>10. \A j \in 1 .. i - 1 : j <= Len(c) /\ j <= Len(d) /\ c[j] = d[j]
  BY <1>1, <1>6, <1>7, <1>8, <1>9
<1>11. at(c, i) # at(d, i) \/ c = d
  <2> SUFFICES ASSUME at(s, i) = at(t, i) PROVE c = d
    BY <1>9
  <2>1. CASE at(s, i) = 0
    <3>1. i = Len(c) + 1 /\ i = Len(d) + 1
      BY <1>6, <1>9, <2>1, AtIs
    <3>2. Len(c) = Len(d) /\ \A j \in 1 .. Len(c) : c[j] = d[j]
      BY <1>1, <1>9, <1>10, <3>1
    <3>3. QED
      BY <1>9, <3>2, SeqEqual DEF Texts
  <2>2. CASE at(s, i) # 0
    <3>1. i = n /\ i <= Len(s) /\ at(s, i) = s[i] /\ s[i] \in {1, 2}
      <4>1. i = n
        BY <1>6, <2>2
      <4>2. i <= Len(s)
        <5>1. at(s, Len(s) + 1) = 0
          BY AtIs
        <5>2. QED
          BY <1>1, <1>6, <2>2, <5>1
      <4>3. QED
        BY <1>1, <1>6, <4>1, <4>2, AtIs
    <3>2. i <= Len(t) /\ at(t, i) = t[i]
      <4>1. i <= Len(t)
        BY <1>1, <1>6, <3>1, AtIs DEF Wild
      <4>2. QED
        BY <1>1, <1>6, <4>1, AtIs
    <3>3. Len(c) = n /\ Len(d) = n
      BY <1>1, <1>9, <3>1, <3>2
    <3>4. c[n] = d[n]
      BY <1>6, <1>9, <3>1, <3>2, <3>3
    <3>5. \A j \in 1 .. n : c[j] = d[j]
      <4> SUFFICES ASSUME NEW j \in 1 .. n PROVE c[j] = d[j]
        OBVIOUS
      <4>1. j = n \/ j \in 1 .. i - 1
        BY <3>1
      <4>2. QED
        BY <1>10, <3>4, <4>1
    <3>6. QED
      BY <1>9, <3>3, <3>5, SeqEqual DEF Texts
  <2>3. QED
    BY <2>1, <2>2
<1>12. ordered(c, d, at(c, i) - at(d, i))
  BY <1>6, <1>9, <1>10, <1>11, OrderedByNext
<1>13. QED
  BY <1>5, <1>9, <1>12 DEF c, d

\* strstr as a walk: f[i] is what it finds from i on.
SearchItem(f, s, t, i) ==
  IF i > Len(s) THEN Wild ELSE IF begins_at(s, t, i) THEN i ELSE f[i + 1]

Searched(f, s, t, n) == f = [i \in 1 .. n |-> SearchItem(f, s, t, i)]

\* The places behind i where t begins, and the first of them.
Begins(s, t, i) == {k \in i .. Len(s) : begins_at(s, t, k)}

FoundFrom(s, t, i) == IF Begins(s, t, i) = {} THEN Wild ELSE least(Begins(s, t, i))

\* The walk that finds these is one.
LEMMA SearchExists ==
  ASSUME NEW s \in Texts, NEW t, NEW n \in Nat, n > Len(s)
  PROVE  Searched([i \in 1 .. n |-> FoundFrom(s, t, i)], s, t, n)
<1> DEFINE g == [i \in 1 .. n |-> FoundFrom(s, t, i)]
<1>1. Len(s) \in Nat
  BY AtIs
<1>2. ASSUME NEW i \in 1 .. n
      PROVE  FoundFrom(s, t, i) = SearchItem(g, s, t, i)
  <2>1. CASE i > Len(s)
    <3>1. Begins(s, t, i) = {}
      BY <1>1, <2>1 DEF Begins
    <3>2. QED
      BY <2>1, <3>1 DEF FoundFrom, SearchItem
  <2>2. CASE i <= Len(s) /\ begins_at(s, t, i)
    <3>1. i \in Begins(s, t, i) /\ Begins(s, t, i) \in SUBSET Nat
          /\ \A k \in Begins(s, t, i) : i <= k
      BY <1>1, <2>2 DEF Begins
    <3>2. least(Begins(s, t, i)) = i
      <4>1. least(Begins(s, t, i)) \in Begins(s, t, i) /\ least(Begins(s, t, i)) <= i
        BY <3>1, LeastIs
      <4>2. least(Begins(s, t, i)) \in Nat /\ i <= least(Begins(s, t, i))
        BY <3>1, <4>1
      <4>3. QED
        BY <4>1, <4>2
    <3>3. SearchItem(g, s, t, i) = i
      BY <1>1, <2>2 DEF SearchItem
    <3>4. FoundFrom(s, t, i) = least(Begins(s, t, i))
      BY <3>1 DEF FoundFrom
    <3>5. QED
      BY <3>2, <3>3, <3>4
  <2>3. CASE i <= Len(s) /\ ~begins_at(s, t, i)
    <3>1. Begins(s, t, i) = Begins(s, t, i + 1)
      BY <1>1, <2>3 DEF Begins
    <3>2. FoundFrom(s, t, i) = FoundFrom(s, t, i + 1)
      BY <3>1 DEF FoundFrom
    <3>3. i + 1 \in 1 .. n
      BY <1>1, <2>3
    <3>4. SearchItem(g, s, t, i) = g[i + 1]
      BY <1>1, <2>3 DEF SearchItem
    <3>5. QED
      BY <3>2, <3>3, <3>4
  <2>4. QED
    BY <1>1, <2>1, <2>2, <2>3
<1>3. QED
  BY <1>2 DEF Searched

LEMMA SearchedAt ==
  ASSUME NEW f, NEW s, NEW t, NEW n \in Nat, Searched(f, s, t, n), NEW i \in 1 .. n
  PROVE  f[i] = SearchItem(f, s, t, i)
BY DEF Searched

\* Any walk from the beginning finds the first place.
LEMMA SearchFinds ==
  ASSUME NEW s \in Texts, NEW t, NEW n \in Nat, NEW f, Searched(f, s, t, n),
         NEW p \in 1 .. n, p <= Len(s), begins_at(s, t, p),
         \A k \in 1 .. p - 1 : ~begins_at(s, t, k)
  PROVE  f[1] = p
<1>1. Len(s) \in Nat
  BY AtIs
<1> DEFINE S == {d \in Nat : d < p => f[p - d] = p}
<1>2. 0 \in S
  <2>1. f[p] = SearchItem(f, s, t, p)
    BY SearchedAt
  <2>2. SearchItem(f, s, t, p) = p
    BY <1>1 DEF SearchItem
  <2>3. p - 0 = p
    OBVIOUS
  <2>4. QED
    BY <2>1, <2>2, <2>3
<1>3. ASSUME NEW d \in Nat, d \in S PROVE d + 1 \in S
  <2> SUFFICES ASSUME d + 1 < p PROVE f[p - (d + 1)] = p
    OBVIOUS
  <2> DEFINE i == p - (d + 1)
  <2>1. i \in 1 .. n /\ i \in 1 .. p - 1 /\ i <= Len(s) /\ i + 1 = p - d
    BY <1>1
  <2>2. f[i] = SearchItem(f, s, t, i)
    BY <2>1, SearchedAt
  <2>3. ~begins_at(s, t, i) /\ ~(i > Len(s))
    BY <1>1, <2>1
  <2>4. SearchItem(f, s, t, i) = f[i + 1]
    BY <2>3 DEF SearchItem
  <2>5. f[p - d] = p
    BY <1>3
  <2>6. QED
    BY <2>1, <2>2, <2>4, <2>5
<1>4. p - 1 \in S
  <2>1. p - 1 \in Nat
    OBVIOUS
  <2> HIDE DEF S
  <2>2. QED
    BY <1>2, <1>3, <2>1, SetInduction
<1>5. p - (p - 1) = 1
  OBVIOUS
<1>6. QED
  BY <1>4, <1>5

\* A string that begins at a place is the part of the other one from there.
LEMMA BeginsIs ==
  ASSUME NEW s \in Texts, NEW t \in Texts, t # <<>>, NEW i \in Nat, i >= 1
  PROVE  begins_at(s, t, i) <=>
           /\ i <= Len(s) - Len(t) + 1
           /\ SubSeq(s, i, i + Len(t) - 1) = t
<1>1. /\ Len(s) \in Nat /\ Len(t) \in Nat /\ DOMAIN t = 1 .. Len(t)
      /\ \A j \in 1 .. Len(t) : t[j] \in {1, 2}
  BY AtIs, LenProperties DEF Texts
<1>2. Len(t) > 0
  BY <1>1, EmptySeq DEF Texts
<1> DEFINE u == SubSeq(s, i, i + Len(t) - 1)
<1>3. ASSUME begins_at(s, t, i) PROVE i <= Len(s) - Len(t) + 1
  <2>1. at(s, i + Len(t) - 1) \in {1, 2}
    <3>1. Len(t) \in DOMAIN t
      BY <1>1, <1>2
    <3>2. QED
      BY <1>1, <1>3, <3>1 DEF begins_at
  <2>2. i + Len(t) - 1 \in Nat /\ i + Len(t) - 1 >= 1
    BY <1>1, <1>2
  <2>3. i + Len(t) - 1 <= Len(s)
    BY <1>1, <2>1, <2>2, AtIs DEF Wild
  <2>4. QED
    BY <1>1, <2>3
<1>4. ASSUME i <= Len(s) - Len(t) + 1
      PROVE  /\ u \in Texts /\ Len(u) = Len(t)
             /\ \A j \in 1 .. Len(t) : u[j] = s[i + j - 1] /\ at(s, i + j - 1) = s[i + j - 1]
  <2>1. i + Len(t) - 1 <= Len(s) /\ i + Len(t) - 1 \in Nat
    BY <1>1, <1>2, <1>4
  <2>2. u = [j \in 1 .. Len(t) |-> s[i + j - 1]]
    BY <1>1, <1>2, <2>1 DEF Texts
  <2>3. \A j \in 1 .. Len(t) : i + j - 1 \in 1 .. Len(s)
    BY <1>1, <2>1
  <2>4. u \in Texts
    <3>1. u \in [1 .. Len(t) -> Letters]
      <4>1. \A j \in 1 .. Len(t) : s[i + j - 1] \in Letters
        <5>1. \A k \in 1 .. Len(s) : s[k] \in Letters
          BY AtIs DEF Letters
        <5>2. QED
          BY <2>3, <5>1
      <4>2. QED
        BY <2>2, <4>1
    <3> HIDE DEF u
    <3>2. QED
      BY <1>1, <3>1, SeqDef DEF Texts
  <2>5. Len(u) = Len(t)
    BY <1>1, <2>2
  <2>6. \A j \in 1 .. Len(t) : at(s, i + j - 1) = s[i + j - 1]
    BY <2>3, AtIs
  <2>7. QED
    BY <2>2, <2>4, <2>5, <2>6
<1> HIDE DEF u
<1>5. ASSUME i <= Len(s) - Len(t) + 1
      PROVE  begins_at(s, t, i) <=> u = t
  <2>1. begins_at(s, t, i) <=> \A j \in 1 .. Len(t) : u[j] = t[j]
    BY <1>1, <1>4, <1>5 DEF begins_at
  <2>2. (\A j \in 1 .. Len(t) : u[j] = t[j]) <=> u = t
    BY <1>4, <1>5, SeqEqual DEF Texts
  <2>3. QED
    BY <2>1, <2>2
<1>6. QED
  BY <1>3, <1>5 DEF u

LEMMA StringsAreTexts ==
  ASSUME NEW s \in Strings({1, 2})
  PROVE  s \in Texts /\ Len(s) <= MAX_LEN
<1>1. PICK n \in 0 .. MAX_LEN : s \in [1 .. n -> {1, 2}]
  BY DEF Strings
<1>2. n \in Nat /\ MAX_LEN \in Nat
  BY LibraryAssumption
<1>3. s \in Texts
  BY <1>1, <1>2, SeqDef DEF Texts, Letters
<1>4. Len(s) = n
  BY <1>1, <1>2
<1>5. QED
  BY <1>2, <1>3, <1>4

\* The places of t in s.
Places(s, t) == {i \in 1 .. Len(s) - Len(t) + 1 : SubSeq(s, i, i + Len(t) - 1) = t}

LEMMA StrstrIs ==
  ASSUME NEW s \in Texts, NEW t \in Texts, Len(s) <= MAX_LEN, t # <<>>
  PROVE  Places(s, t) # {} => strstr(s, t) = least(Places(s, t))
<1> DEFINE places == {i \in 1 .. Len(s) - Len(t) + 1 : SubSeq(s, i, i + Len(t) - 1) = t}
           n == 2 * MAX_LEN + 2
           f == CHOOSE g : Searched(g, s, t, n)
<1>1. Len(s) \in Nat /\ Len(t) \in Nat /\ Len(t) > 0 /\ MAX_LEN \in Nat
  BY AtIs, EmptySeq, LibraryAssumption DEF Texts
<1>2. n \in Nat /\ n > Len(s)
  BY <1>1
<1>3. Searched(f, s, t, n)
  <2>1. Searched([i \in 1 .. n |-> FoundFrom(s, t, i)], s, t, n)
    <3> HIDE DEF n
    <3>1. QED
      BY <1>2, SearchExists
  <2> HIDE DEF n
  <2>2. QED
    BY <2>1
<1>4. strstr(s, t) = f[1]
  BY DEF strstr, Searched, SearchItem
<1> HIDE DEF f
<1>5. SUFFICES ASSUME places # {} PROVE f[1] = least(places)
  BY <1>4 DEF Places
<1> DEFINE p == least(places)
<1>6. p \in places /\ \A k \in places : p <= k
  <2>1. places \in SUBSET Nat
    BY <1>1
  <2> HIDE DEF places
  <2>2. QED
    BY <1>5, <2>1, LeastIs
<1>7. p \in Nat /\ p >= 1 /\ p <= Len(s)
  BY <1>1, <1>6
<1>8. \A k \in Nat : k >= 1 => (begins_at(s, t, k) <=> k \in places)
  BY <1>1, BeginsIs
<1> HIDE DEF places, p, n
<1>9. begins_at(s, t, p) /\ \A k \in 1 .. p - 1 : ~begins_at(s, t, k)
  <2>1. ASSUME NEW k \in 1 .. p - 1 PROVE ~begins_at(s, t, k)
    <3>1. k \in Nat /\ k >= 1 /\ ~(p <= k)
      BY <1>7
    <3>2. QED
      BY <1>6, <1>8, <3>1
  <2>2. QED
    BY <1>6, <1>7, <1>8, <2>1
<1>10. p \in 1 .. n
  BY <1>1, <1>2, <1>7
<1>11. QED
  BY <1>2, <1>3, <1>7, <1>9, <1>10, SearchFinds DEF p

LEMMA ComparesStep ==
  ASSUME compares PROVE StringsAgree'
<1>1. PICK s1, s2 \in Strings({1, 2}) :
        call' = [fn |-> "strcmp", args |-> <<s1, s2>>,
                 out |-> [n \in 0 .. MAX_LEN |->
                            IF n = 0 THEN strcmp(s1, s2) ELSE strncmp(s1, s2, n)]]
  BY DEF compares, computes, returned
<1>2. s1 \in Texts /\ s2 \in Texts /\ MAX_LEN \in Nat
  BY <1>1, StringsAreTexts, LibraryAssumption
<1>3. call'.out[0] = strcmp(s1, s2)
  BY <1>1, <1>2
<1>4. \A n \in 1 .. MAX_LEN : call'.out[n] = strncmp(s1, s2, n)
  BY <1>1, <1>2
<1>5. call'.args[1] = s1 /\ call'.args[2] = s2
  BY <1>1
<1>6. ordered(s1, s2, call'.out[0])
  BY <1>2, <1>3, StrcmpIs
<1>7. \A n \in 1 .. MAX_LEN : ordered(Cut(s1, n), Cut(s2, n), call'.out[n])
  BY <1>2, <1>4, StrncmpIs
<1>8. ComparesAsStrings'
  BY <1>5, <1>6, <1>7 DEF ComparesAsStrings, Cut
<1>9. FindsFirst'
  <2>1. call'.fn # "strstr"
    BY <1>1
  <2>2. QED
    BY <2>1 DEF FindsFirst, Called
<1>10. QED
  BY <1>8, <1>9 DEF StringsAgree

LEMMA SearchesStep ==
  ASSUME searches PROVE StringsAgree'
<1>1. PICK s1, s2 \in Strings({1, 2}) :
        /\ s2 # <<>>
        /\ call' = [fn |-> "strstr", args |-> <<s1, s2>>, out |-> strstr(s1, s2)]
  BY DEF searches, computes, returned
<1>2. s1 \in Texts /\ s2 \in Texts /\ Len(s1) <= MAX_LEN
  BY <1>1, StringsAreTexts
<1>3. call'.args[1] = s1 /\ call'.args[2] = s2 /\ call'.out = strstr(s1, s2)
  BY <1>1
<1>4. FindsFirst'
  <2>1. Places(s1, s2) # {} => call'.out = least(Places(s1, s2))
    BY <1>1, <1>2, <1>3, StrstrIs
  <2>2. QED
    BY <1>3, <2>1 DEF FindsFirst, Places
<1>5. ComparesAsStrings'
  <2>1. call'.fn # "strcmp"
    BY <1>1
  <2>2. QED
    BY <2>1 DEF ComparesAsStrings, Called
<1>6. QED
  BY <1>4, <1>5 DEF StringsAgree

\* What neither compares nor searches.
LEMMA OtherThanStrings ==
  ASSUME call'.fn \notin {"strcmp", "strstr"}
  PROVE  StringsAgree'
BY DEF StringsAgree, ComparesAsStrings, FindsFirst, Called

\* strcmp and strncmp order strings of any length like a dictionary, whichever
\* ends first, and strstr finds the first place of one that is there.
THEOREM StringsAlwaysAgree == Spec => []StringsAgree
<1>1. Init => StringsAgree
  BY DEF Init, StringsAgree, ComparesAsStrings, FindsFirst, Called, Idle
<1>2. StringsAgree /\ [Next]_vars => StringsAgree'
  <2> SUFFICES ASSUME StringsAgree, [Next]_vars PROVE StringsAgree'
    OBVIOUS
  <2>1. CASE compares
    BY <2>1, ComparesStep
  <2>2. CASE searches
    BY <2>2, SearchesStep
  <2>3. CASE UNCHANGED call
    BY <2>3 DEF StringsAgree, ComparesAsStrings, FindsFirst, Called
  <2> DEFINE Other == call'.fn \notin {"strcmp", "strstr"}
  <2>4. returns => Other
    BY DEF returns, Idle
  <2>5. splits => Other
    BY Computed DEF splits
  <2>6. runs_script => Other
    BY Computed DEF runs_script
  <2>7. prints => Other
    BY Computed DEF prints
  <2>8. prints_hex => Other
    BY Computed DEF prints_hex
  <2>9. converts => Other
    BY Computed DEF converts
  <2>10. measures => Other
    BY Computed DEF measures
  <2>11. walks => Other
    BY Computed DEF walks
  <2>12. passes => Other
    BY Computed DEF passes
  <2>13. scans => Other
    BY DEF scans, returned
  <2>14. opens => Other
    BY DEF opens, returned
  <2>15. reads => Other
    BY DEF reads, returned
  <2>16. malloc => Other
    BY DEF malloc, returned
  <2>17. compares \/ searches \/ UNCHANGED call \/ Other
    BY <2>4, <2>5, <2>6, <2>7, <2>8, <2>9, <2>10, <2>11, <2>12, <2>13, <2>14, <2>15, <2>16 DEF Next, vars, do_execv
  <2>18. QED
    BY <2>1, <2>2, <2>3, <2>17, OtherThanStrings
<1>3. QED
  BY <1>1, <1>2, PTL DEF Spec
-----------------------------------------------------------------------------
(* Lines of a script.                                                      *)

LEMMA StringsAre ==
  ASSUME NEW S \in SUBSET Nat, NEW s \in Strings(S)
  PROVE  s \in Seq(Nat) /\ Len(s) \in Nat /\ DOMAIN s = 1 .. Len(s)
<1>1. PICK n \in 0 .. MAX_LEN : s \in [1 .. n -> S]
  BY DEF Strings
<1>2. n \in Nat /\ MAX_LEN \in Nat
  BY LibraryAssumption
<1>3. s \in Seq(Nat)
  <2>1. s \in Seq(S)
    BY <1>1, <1>2, SeqDef
  <2>2. QED
    BY <2>1, SeqWiden
<1>4. QED
  BY <1>3, LenProperties

\* The script ends with a line feed.
Script(b) == b \in Seq(Nat) /\ Len(b) \in Nat \ {0} /\ b[Len(b)] = LF

\* sh_cmd as a walk over the lines of the script, f[i] what it executes from i on.
LineItem(f, b, i) ==
  IF i > Len(b) THEN <<>>
  ELSE LET e == line_end(b, i)
       IN IF e = Wild THEN << <<Wild>> >>
          ELSE <<SubSeq(b, i, e - 1)>>
                 \o (IF next_line(e) > i THEN f[next_line(e)] ELSE << <<Wild>> >>)

LineWalk(f, b) == f = [i \in 1 .. Len(b) + 1 |-> LineItem(f, b, i)]

\* A line ends at the first line feed from its beginning on.
LEMMA LineEndIs ==
  ASSUME NEW b, Script(b), NEW i \in 1 .. Len(b)
  PROVE  /\ line_end(b, i) \in i .. Len(b) /\ b[line_end(b, i)] = LF
         /\ \A j \in i .. line_end(b, i) - 1 : b[j] # LF
         /\ line_end(b, i) # Wild
<1> DEFINE ends == {j \in i .. Len(b) : b[j] = LF}
           e == least(ends)
<1>1. Len(b) \in Nat /\ Len(b) >= 1 /\ b[Len(b)] = LF
  BY DEF Script
<1>2. Len(b) \in ends /\ ends \in SUBSET Nat
  BY <1>1
<1>3. e \in ends /\ \A j \in ends : e <= j
  <2> HIDE DEF ends
  <2>1. QED
    BY <1>2, LeastIs
<1>4. line_end(b, i) = e
  BY <1>2 DEF line_end
<1> HIDE DEF e
<1>5. e \in i .. Len(b) /\ b[e] = LF
  BY <1>3
<1>6. ASSUME NEW j \in i .. e - 1 PROVE b[j] # LF
  <2>1. j \in i .. Len(b) /\ ~(e <= j)
    BY <1>1, <1>5
  <2>2. j \notin ends
    BY <1>3, <2>1
  <2>3. QED
    BY <2>1, <2>2
<1>7. e # Wild
  BY <1>1, <1>5 DEF Wild
<1>8. QED
  BY <1>4, <1>5, <1>6, <1>7

LEMMA LineItemIs ==
  ASSUME NEW b, Script(b), NEW f, NEW i \in 1 .. Len(b)
  PROVE  LineItem(f, b, i) = <<SubSeq(b, i, line_end(b, i) - 1)>> \o f[line_end(b, i) + 1]
<1> DEFINE e == line_end(b, i)
<1>1. e \in i .. Len(b) /\ e # Wild /\ Len(b) \in Nat
  BY LineEndIs DEF Script
<1> HIDE DEF e
<1>2. ~(i > Len(b)) /\ next_line(e) = e + 1 /\ e + 1 > i
  BY <1>1 DEF next_line
<1>3. QED
  BY <1>1, <1>2 DEF LineItem, e

\* A walk exists: it is built from the end of the script.
LEMMA LineWalkExists ==
  ASSUME NEW b, Script(b)
  PROVE  \E f : LineWalk(f, b)
<1> DEFINE n == Len(b) + 1
           Right(f, d) == f = [i \in 1 .. n |-> f[i]] /\ \A i \in 1 .. n : i > n - d => f[i] = LineItem(f, b, i)
           S == {d \in Nat : d <= n => \E f : Right(f, d)}
<1>1. n \in Nat /\ Len(b) \in Nat
  BY DEF Script
<1>2. 0 \in S
  <2>1. Right([i \in 1 .. n |-> 0], 0)
    BY <1>1
  <2> HIDE DEF Right
  <2>2. QED
    BY <2>1
<1>3. ASSUME NEW d \in Nat, d \in S PROVE d + 1 \in S
  <2>0. PICK c \in Nat : c = d + 1
    OBVIOUS
  <2> SUFFICES ASSUME c <= n PROVE \E f : Right(f, c)
    <3> HIDE DEF Right
    <3>1. QED
      BY <2>0
  <2>1. PICK f : Right(f, d)
    BY <1>1, <1>3, <2>0
  <2> DEFINE m == n - d
             last == LineItem(f, b, m)
             g == [i \in 1 .. n |-> IF i = m THEN last ELSE f[i]]
  <2>2. m \in 1 .. n
    BY <1>1, <2>0
  <2>3. ASSUME NEW i \in 1 .. n, i >= m PROVE g[i] = LineItem(g, b, i)
    <3>1. LineItem(g, b, i) = LineItem(f, b, i)
      <4>1. CASE i \in 1 .. Len(b)
        <5>1. line_end(b, i) + 1 \in 1 .. n /\ line_end(b, i) + 1 > m
          <6>1. line_end(b, i) \in i .. Len(b)
            BY <4>1, LineEndIs
          <6>2. QED
            BY <6>1, <1>1, <2>2, <2>3
        <5>2. g[line_end(b, i) + 1] = f[line_end(b, i) + 1]
          <6> HIDE DEF last
          <6>1. QED
            BY <5>1, <2>2
        <5> HIDE DEF g
        <5>3. QED
          BY <4>1, <5>2, LineItemIs
      <4>2. CASE i > Len(b)
        BY <4>2 DEF LineItem
      <4>3. QED
        BY <1>1, <4>1, <4>2
    <3>2. CASE i = m
      <4>1. g[i] = last
        <5> HIDE DEF last
        <5>1. QED
          BY <3>2
      <4> HIDE DEF g
      <4>2. QED
        BY <3>1, <3>2, <4>1
    <3>3. CASE i # m
      <4>1. g[i] = f[i]
        <5> HIDE DEF last
        <5>1. QED
          BY <3>3
      <4>2. f[i] = LineItem(f, b, i)
        BY <2>1, <2>2, <2>3, <3>3, <1>1
      <4> HIDE DEF g
      <4>3. QED
        BY <3>1, <4>1, <4>2
    <3>4. QED
      BY <3>2, <3>3
  <2>4. Right(g, c)
    <3>1. g = [i \in 1 .. n |-> g[i]]
      <4> HIDE DEF last
      <4>1. QED
        OBVIOUS
    <3> HIDE DEF g
    <3>2. \A i \in 1 .. n : i > n - c => i >= m
      BY <1>1, <2>0
    <3> HIDE DEF m
    <3>3. QED
      BY <2>3, <3>1, <3>2
  <2> HIDE DEF g, Right
  <2>5. QED
    BY <2>4
<1>4. \A d \in Nat : d \in S
  <2> HIDE DEF S
  <2>1. QED
    BY <1>2, <1>3, SetInduction
<1>5. PICK f : Right(f, n)
  <2>1. n \in S /\ n <= n
    BY <1>1, <1>4
  <2> HIDE DEF Right, n
  <2>2. QED
    BY <2>1
<1>6. LineWalk(f, b)
  <2>1. \A i \in 1 .. n : f[i] = LineItem(f, b, i)
    BY <1>1, <1>5
  <2>2. f = [i \in 1 .. n |-> f[i]]
    BY <1>5
  <2>3. QED
    BY <2>1, <2>2 DEF LineWalk
<1>7. QED
  BY <1>6

\* Lines with their line feeds.
Lined(x) == [k \in DOMAIN x |-> Append(x[k], LF)]

LEMMA LinedPush ==
  ASSUME NEW l \in Seq(Nat), NEW y \in Seq(Seq(Nat))
  PROVE  /\ Append(l, LF) \in Seq(Nat) /\ Lined(y) \in Seq(Seq(Nat))
         /\ Lined(<<l>> \o y) = <<Append(l, LF)>> \o Lined(y)
<1> DEFINE x == <<l>> \o y
           n == Len(y)
           a == Append(l, LF)
<1>0. LF \in Nat
  BY DEF LF
<1>1. /\ x \in Seq(Seq(Nat)) /\ Len(x) = n + 1 /\ x[1] = l
      /\ \A i \in 2 .. n + 1 : x[i] = y[i - 1]
  BY PushIs
<1>2. n \in Nat /\ DOMAIN y = 1 .. n /\ (\A i \in 1 .. n : y[i] \in Seq(Nat)) /\ DOMAIN x = 1 .. n + 1
  BY <1>1, LenProperties, ElementOfSeq
<1>3. a \in Seq(Nat) /\ \A i \in 1 .. n : Append(y[i], LF) \in Seq(Nat)
  BY <1>0, <1>2, AppendProperties
<1> HIDE DEF x, a
<1>4. Lined(y) \in Seq(Seq(Nat)) /\ Len(Lined(y)) = n
      /\ \A i \in 1 .. n : Lined(y)[i] = Append(y[i], LF)
  <2>1. Lined(y) = [i \in 1 .. n |-> Append(y[i], LF)]
    BY <1>2 DEF Lined
  <2> HIDE DEF n
  <2>2. [i \in 1 .. n |-> Append(y[i], LF)] \in Seq(Seq(Nat))
    BY <1>2, <1>3, IsASeq
  <2>3. Len([i \in 1 .. n |-> Append(y[i], LF)]) = n
    BY <1>2, <2>2, LenProperties
  <2>4. QED
    BY <2>1, <2>2, <2>3
<1> DEFINE w == <<a>> \o Lined(y)
<1>5. /\ w \in Seq(Seq(Nat)) /\ Len(w) = n + 1 /\ w[1] = a
      /\ \A i \in 2 .. n + 1 : w[i] = Lined(y)[i - 1]
  <2> HIDE DEF n
  <2>1. /\ w \in Seq(Seq(Nat)) /\ Len(w) = Len(Lined(y)) + 1 /\ w[1] = a
        /\ \A i \in 2 .. Len(Lined(y)) + 1 : w[i] = Lined(y)[i - 1]
    BY <1>3, <1>4, PushIs
  <2> HIDE DEF w
  <2>2. QED
    BY <1>4, <2>1
<1> HIDE DEF w
<1>6. Lined(x) = [i \in 1 .. n + 1 |-> Append(x[i], LF)]
  BY <1>2 DEF Lined
<1>7. ASSUME NEW i \in 1 .. n + 1 PROVE w[i] = Append(x[i], LF)
  <2>1. CASE i = 1
    BY <1>1, <1>5, <2>1 DEF a
  <2>2. CASE i # 1
    <3>1. i \in 2 .. n + 1 /\ i - 1 \in 1 .. n
      BY <1>2, <2>2
    <3>2. QED
      BY <1>1, <1>4, <1>5, <3>1
  <2>3. QED
    BY <2>1, <2>2
<1>8. w = [i \in 1 .. n + 1 |-> w[i]]
  <2>1. w \in Seq(Seq(Nat)) /\ Len(w) = n + 1
    BY <1>5
  <2>2. QED
    BY <2>1, LenProperties, SeqDef
<1>9. w = Lined(x)
  BY <1>6, <1>7, <1>8
<1>10. QED
  BY <1>3, <1>4, <1>9 DEF w, x, a

\* The lines x are those of the script from i on.
LinesFrom(b, i, x) ==
  /\ x \in Seq(Seq(Nat))
  /\ FlattenSeq(Lined(x)) = SubSeq(b, i, Len(b))
  /\ \A k \in DOMAIN x : ~Contains(x[k], LF)

LEMMA NoLines ==
  ASSUME NEW b, Script(b)
  PROVE  LinesFrom(b, Len(b) + 1, <<>>)
<1>1. Len(b) \in Nat /\ b \in Seq(Nat)
  BY DEF Script
<1>2. SubSeq(b, Len(b) + 1, Len(b)) = <<>>
  BY <1>1, SubSeqEmpty
<1>3. DOMAIN <<>> = {} /\ <<>> \in Seq(Seq(Nat))
  BY EmptySeq
<1>4. Lined(<<>>) = <<>>
  BY DEF Lined
<1>5. FlattenSeq(<<>>) = <<>>
  BY DEF FlattenSeq
<1>6. QED
  BY <1>2, <1>3, <1>4, <1>5 DEF LinesFrom

\* A line and those behind it are the lines from it on.
LEMMA LinesPush ==
  ASSUME NEW b, Script(b), NEW i \in 1 .. Len(b), NEW x,
         LinesFrom(b, line_end(b, i) + 1, x)
  PROVE  LinesFrom(b, i, <<SubSeq(b, i, line_end(b, i) - 1)>> \o x)
<1> DEFINE e == line_end(b, i)
           l == SubSeq(b, i, e - 1)
           y == <<l>> \o x
<1>1. e \in i .. Len(b) /\ b[e] = LF /\ \A j \in i .. e - 1 : b[j] # LF
  BY LineEndIs
<1> HIDE DEF e
<1>2. Len(b) \in Nat /\ b \in Seq(Nat) /\ i \in Nat /\ 1 <= i /\ e \in Nat /\ e <= Len(b) /\ i <= e
  BY <1>1 DEF Script
<1>3. PICK c \in Nat : e = c + 1 /\ c = e - 1
  BY <1>2
<1>4. /\ SubSeq(b, i, c) \in Seq(Nat) /\ Len(SubSeq(b, i, c)) = c + 1 - i
      /\ \A j \in 1 .. c + 1 - i : SubSeq(b, i, c)[j] = b[i + j - 1]
  <2>1. i <= c + 1 /\ c <= Len(b)
    BY <1>2, <1>3
  <2>2. QED
    BY <1>2, <2>1, PartIs
<1>5. l = SubSeq(b, i, c)
  BY <1>3
<1>6. l \in Seq(Nat) /\ Len(l) = e - i /\ \A j \in 1 .. e - i : l[j] = b[i + j - 1]
  <2>1. c + 1 - i = e - i
    BY <1>3
  <2>2. QED
    BY <1>4, <1>5, <2>1
<1> HIDE DEF l
<1>7. Append(l, LF) = SubSeq(b, i, e)
  <2>1. i <= c + 1 /\ c + 1 <= Len(b)
    BY <1>2, <1>3
  <2>2. Append(SubSeq(b, i, c), b[c + 1]) = SubSeq(b, i, c + 1)
    BY <1>2, <2>1, PartNext
  <2>3. QED
    BY <1>1, <1>3, <1>5, <2>2
<1>8. x \in Seq(Seq(Nat)) /\ FlattenSeq(Lined(x)) = SubSeq(b, e + 1, Len(b))
      /\ \A k \in DOMAIN x : ~Contains(x[k], LF)
  BY DEF LinesFrom, e
<1>9. /\ Append(l, LF) \in Seq(Nat) /\ Lined(x) \in Seq(Seq(Nat))
      /\ Lined(y) = <<Append(l, LF)>> \o Lined(x)
  BY <1>6, <1>8, LinedPush
<1>10. FlattenSeq(Lined(y)) = SubSeq(b, i, Len(b))
  <2>1. FlattenSeq(<<Append(l, LF)>> \o Lined(x)) = Append(l, LF) \o FlattenSeq(Lined(x))
    BY <1>9, FlattenPush
  <2>2. SubSeq(b, i, e) \o SubSeq(b, e + 1, Len(b)) = SubSeq(b, i, Len(b))
    <3>1. i <= e + 1 /\ Len(b) <= Len(b)
      BY <1>2
    <3>2. QED
      BY <1>2, <3>1, PartJoin
  <2>3. QED
    BY <1>7, <1>8, <1>9, <2>1, <2>2
<1>11. ~Contains(l, LF)
  <2> SUFFICES ASSUME NEW j \in 1 .. Len(l), l[j] = LF PROVE FALSE
    BY DEF Contains
  <2>1. j \in 1 .. e - i /\ i + j - 1 \in i .. e - 1
    BY <1>2, <1>6
  <2>2. QED
    BY <1>1, <1>6, <2>1
<1>12. y \in Seq(Seq(Nat)) /\ \A k \in DOMAIN y : ~Contains(y[k], LF)
  <2>1. /\ y \in Seq(Seq(Nat)) /\ Len(y) = Len(x) + 1 /\ y[1] = l
        /\ \A k \in 2 .. Len(x) + 1 : y[k] = x[k - 1]
    BY <1>6, <1>8, PushIs
  <2> HIDE DEF y
  <2>2. Len(x) \in Nat /\ DOMAIN x = 1 .. Len(x) /\ DOMAIN y = 1 .. Len(x) + 1
    BY <1>8, <2>1, LenProperties
  <2>3. ASSUME NEW k \in DOMAIN y PROVE ~Contains(y[k], LF)
    <3>1. CASE k = 1
      BY <1>11, <2>1, <3>1
    <3>2. CASE k # 1
      <4>1. k \in 2 .. Len(x) + 1 /\ k - 1 \in DOMAIN x
        BY <2>2, <3>2
      <4>2. QED
        BY <1>8, <2>1, <4>1
    <3>3. QED
      BY <3>1, <3>2
  <2>4. QED
    BY <2>1, <2>3
<1> HIDE DEF y
<1>13. LinesFrom(b, i, y)
  BY <1>10, <1>12 DEF LinesFrom
<1>14. QED
  BY <1>13 DEF y, l, e

\* Any walk finds the lines.
LEMMA LineWalkFinds ==
  ASSUME NEW b, Script(b), NEW f, LineWalk(f, b)
  PROVE  \A i \in 1 .. Len(b) + 1 : LinesFrom(b, i, f[i])
<1> DEFINE n == Len(b) + 1
           S == {d \in Nat : \A i \in 1 .. n : i >= n - d => LinesFrom(b, i, f[i])}
<1>1. n \in Nat /\ Len(b) \in Nat
  BY DEF Script
<1>2. \A i \in 1 .. n : f[i] = LineItem(f, b, i)
  BY DEF LineWalk
<1>3. f[n] = <<>>
  <2>1. n \in 1 .. n /\ n > Len(b)
    BY <1>1
  <2>2. LineItem(f, b, n) = <<>>
    BY <2>1 DEF LineItem
  <2>3. QED
    BY <1>2, <2>1, <2>2
<1>4. LinesFrom(b, n, f[n])
  BY <1>3, NoLines
<1> HIDE DEF n
<1>5. 0 \in S
  <2>1. \A i \in 1 .. n : i >= n - 0 => i = n
    BY <1>1
  <2>2. QED
    BY <1>4, <2>1
<1>6. ASSUME NEW d \in Nat, d \in S PROVE d + 1 \in S
  <2>0. PICK c \in Nat : c = d + 1
    OBVIOUS
  <2> SUFFICES ASSUME NEW i \in 1 .. n, i >= n - c PROVE LinesFrom(b, i, f[i])
    BY <2>0
  <2>1. CASE i = n
    BY <1>4, <2>1
  <2>2. CASE i # n
    <3> DEFINE e == line_end(b, i)
    <3>1. i \in 1 .. Len(b)
      BY <1>1, <2>2 DEF n
    <3>2. e \in i .. Len(b)
      BY <3>1, LineEndIs
    <3> HIDE DEF e
    <3>3. e + 1 \in 1 .. n /\ e + 1 >= n - d
      BY <1>1, <2>0, <3>1, <3>2 DEF n
    <3>4. LinesFrom(b, e + 1, f[e + 1])
      BY <1>6, <3>3
    <3>5. f[i] = <<SubSeq(b, i, e - 1)>> \o f[e + 1]
      <4>1. f[i] = LineItem(f, b, i)
        BY <1>2
      <4>2. QED
        BY <3>1, <4>1, LineItemIs DEF e
    <3>6. LinesFrom(b, i, <<SubSeq(b, i, e - 1)>> \o f[e + 1])
      BY <3>1, <3>4, LinesPush DEF e
    <3>7. QED
      BY <3>5, <3>6
  <2>3. QED
    BY <2>1, <2>2
<1>7. \A d \in Nat : d \in S
  <2> HIDE DEF S
  <2>1. QED
    BY <1>5, <1>6, SetInduction
<1>8. n \in S
  BY <1>1, <1>7
<1>9. ASSUME NEW i \in 1 .. n PROVE LinesFrom(b, i, f[i])
  <2>1. i >= n - n
    BY <1>1
  <2>2. QED
    BY <1>8, <2>1
<1>10. QED
  BY <1>9 DEF n

\* The function that sh_cmd recurs on.
Walker(input, count) ==
  CHOOSE g : g = [i \in 1 .. count + 1 |->
                    IF i > count THEN <<>>
                    ELSE LET e == line_end(input, i)
                         IN IF e = Wild THEN << <<Wild>> >>
                            ELSE <<SubSeq(input, i, e - 1)>>
                                   \o (IF next_line(e) > i THEN g[next_line(e)]
                                       ELSE << <<Wild>> >>)]

LEMMA ScriptIs ==
  ASSUME NEW b, Script(b), Len(b) <= MAX_BUFFER
  PROVE  LinesFrom(b, line_end(b, 1) + 1, sh_cmd(b))
<1> DEFINE count == IF Len(b) < MAX_BUFFER THEN Len(b) ELSE MAX_BUFFER
           input == SubSeq(b, 1, count)
           f == CHOOSE g : LineWalk(g, b)
<1>1. Len(b) \in Nat /\ Len(b) >= 1 /\ b \in Seq(Nat) /\ MAX_BUFFER \in Nat
  BY LibraryAssumption DEF Script
<1>2. count = Len(b)
  BY <1>1
<1> HIDE DEF count
<1>3. input = b
  <2>1. input \in Seq(Nat) /\ Len(input) = Len(b) /\ \A j \in 1 .. Len(b) : input[j] = b[j]
    BY <1>1, <1>2, TakeIs
  <2> HIDE DEF input
  <2>2. QED
    BY <1>1, <2>1, SeqEqual
<1>4. LineWalk(f, b)
  BY LineWalkExists
<1>5. line_end(b, 1) \in 1 .. Len(b) /\ line_end(b, 1) # Wild
  BY <1>1, LineEndIs
<1>6. sh_cmd(b) = f[line_end(b, 1) + 1]
  <2>1. sh_cmd(b) =
          IF line_end(input, 1) = Wild THEN << <<Wild>> >>
          ELSE Walker(input, count)[next_line(line_end(input, 1))]
    BY Zenon DEF sh_cmd, count, Walker
  <2>2. Walker(input, count) = Walker(b, Len(b))
    <3> HIDE DEF input
    <3>1. QED
      BY <1>2, <1>3
  <2>3. Walker(b, Len(b)) = f
    BY Zenon DEF Walker, LineWalk, LineItem
  <2>4. line_end(input, 1) = line_end(b, 1)
    <3> HIDE DEF input
    <3>1. QED
      BY <1>3
  <2> HIDE DEF f, input
  <2>5. QED
    BY <1>5, <2>1, <2>2, <2>3, <2>4 DEF next_line
<1>7. LinesFrom(b, line_end(b, 1) + 1, f[line_end(b, 1) + 1])
  <2>1. line_end(b, 1) + 1 \in 1 .. Len(b) + 1
    BY <1>1, <1>5
  <2> HIDE DEF f
  <2>2. QED
    BY <1>4, <2>1, LineWalkFinds
<1>8. QED
  BY <1>6, <1>7

LEMMA ScriptStep ==
  ASSUME runs_script PROVE ScriptLineByLine'
<1>1. PICK b \in Strings({1, LF}) : call' = [fn |-> "sh_cmd", args |-> b, out |-> sh_cmd(b)]
  BY DEF runs_script, computes, returned
<1>2. b \in Seq(Nat) /\ Len(b) \in Nat /\ DOMAIN b = 1 .. Len(b)
  <2>1. {1, LF} \in SUBSET Nat
    BY DEF LF
  <2>2. QED
    BY <1>1, <2>1, StringsAre
<1>3. call'.args = b /\ call'.out = sh_cmd(b)
  BY <1>1
<1> DEFINE first == least({i \in DOMAIN b : b[i] = LF})
<1>4. SUFFICES ASSUME b # <<>>, Len(b) <= MAX_BUFFER, b[Len(b)] = LF
               PROVE  /\ FlattenSeq([k \in DOMAIN sh_cmd(b) |-> Append(sh_cmd(b)[k], LF)])
                           = SubSeq(b, first + 1, Len(b))
                      /\ \A k \in DOMAIN sh_cmd(b) : ~Contains(sh_cmd(b)[k], LF)
  BY <1>3, Zenon DEF ScriptLineByLine
<1>5. Script(b)
  <2>1. Len(b) # 0
    BY <1>2, <1>4, EmptySeq
  <2>2. QED
    BY <1>2, <1>4, <2>1 DEF Script
<1>6. first = line_end(b, 1)
  <2>1. {i \in DOMAIN b : b[i] = LF} # {}
    BY <1>2, <1>4, <1>5 DEF Script
  <2>2. {i \in DOMAIN b : b[i] = LF} = {j \in 1 .. Len(b) : b[j] = LF}
    BY <1>2
  <2>3. QED
    BY <2>1, <2>2 DEF line_end
<1> HIDE DEF first
<1>7. LinesFrom(b, first + 1, sh_cmd(b))
  BY <1>4, <1>5, <1>6, ScriptIs
<1>8. QED
  BY <1>7 DEF LinesFrom, Lined
-----------------------------------------------------------------------------
(* Words of a line.                                                        *)

NotSep(t) == {j \in 1 .. Len(t) : t[j] # SEP}

Ends(t, i) == {j \in cuts(t) \cup {Len(t) + 1} : j > i}

EndOf(t, i) == least(Ends(t, i))

WordAt(t, i) == SubSeq(t, i, EndOf(t, i) - 1)

Words(t) == [k \in 1 .. Cardinality(starts(t)) |-> WordAt(t, nth(starts(t), k))]

LEMMA StartsAre ==
  ASSUME NEW t \in Seq(Nat)
  PROVE  /\ Len(t) \in Nat /\ starts(t) \subseteq 1 .. Len(t) /\ starts(t) \in SUBSET Nat
         /\ IsFiniteSet(starts(t)) /\ Cardinality(starts(t)) \in Nat
         /\ \A i \in 1 .. Len(t) : i \in starts(t) <=> t[i] # SEP /\ (i = 1 \/ t[i - 1] = SEP)
<1>1. Len(t) \in Nat /\ DOMAIN t = 1 .. Len(t)
  BY LenProperties
<1>2. starts(t) \subseteq 1 .. Len(t)
  BY <1>1 DEF starts
<1>3. IsFiniteSet(1 .. Len(t))
  BY <1>1, FS_Interval
<1>4. IsFiniteSet(starts(t)) /\ Cardinality(starts(t)) \in Nat
  BY <1>2, <1>3, FS_Subset, FS_CardinalityType
<1>5. QED
  BY <1>1, <1>2, <1>4 DEF starts

\* A word has a letter and reaches up to the first separator behind it.
LEMMA EndOfIs ==
  ASSUME NEW t \in Seq(Nat), NEW i \in starts(t)
  PROVE  /\ i \in 1 .. Len(t) /\ EndOf(t, i) \in i + 1 .. Len(t) + 1
         /\ \A j \in i .. EndOf(t, i) - 1 : t[j] # SEP
         /\ EndOf(t, i) <= Len(t) => t[EndOf(t, i)] = SEP
<1> DEFINE n == Len(t)
           S == Ends(t, i)
           e == EndOf(t, i)
<1>1. n \in Nat /\ i \in 1 .. n /\ t[i] # SEP
  BY StartsAre
<1>2. \A j \in S : j \in 2 .. n + 1 /\ j > i /\ (j <= n => j \in cuts(t))
  BY <1>1 DEF Ends, cuts
<1>3. n + 1 \in S /\ S \in SUBSET Nat
  <2>1. n + 1 \in S
    BY <1>1 DEF Ends
  <2> HIDE DEF S, n
  <2>2. QED
    BY <1>1, <1>2, <2>1
<1>4. e \in S /\ \A j \in S : e <= j
  <2>1. S # {}
    BY <1>3
  <2>2. QED
    BY <1>3, <2>1, LeastIs DEF EndOf
<1>5. \A j \in cuts(t) : j > i => j \in S
  BY DEF Ends
<1> HIDE DEF S, e
<1>6. e \in i + 1 .. n + 1
  BY <1>1, <1>2, <1>4
<1>7. e <= n => t[e] = SEP
  BY <1>2, <1>4 DEF cuts
<1>8. ASSUME NEW j \in i .. e - 1, t[j] = SEP PROVE FALSE
  <2> DEFINE Q == {k \in i .. n : t[k] = SEP}
  <2>1. j \in Q /\ Q \in SUBSET Nat
    BY <1>1, <1>6, <1>8
  <2>2. PICK m \in Q : \A k \in Q : m <= k
    <3> HIDE DEF Q
    <3>1. QED
      BY <2>1, NatMin
  <2>3. m \in i .. n /\ t[m] = SEP /\ m <= j
    BY <2>1, <2>2
  <2>4. m > i
    BY <1>1, <2>3
  <2>5. t[m - 1] # SEP
    <3>1. m - 1 \in i .. n /\ ~(m <= m - 1)
      BY <1>1, <2>3, <2>4
    <3>2. QED
      BY <2>2, <3>1
  <2>6. m \in cuts(t)
    BY <1>1, <2>3, <2>4, <2>5 DEF cuts
  <2>7. e <= m
    BY <1>4, <1>5, <2>4, <2>6
  <2>8. QED
    BY <1>1, <1>6, <1>8, <2>3, <2>7
<1>9. QED
  BY <1>1, <1>6, <1>7, <1>8 DEF e

\* A word ends before the next one begins.
LEMMA WordsApart ==
  ASSUME NEW t \in Seq(Nat), NEW i \in starts(t), NEW k \in starts(t), i < k
  PROVE  EndOf(t, i) <= k
<1> DEFINE e == EndOf(t, i)
<1>1. /\ i \in 1 .. Len(t) /\ e \in i + 1 .. Len(t) + 1
      /\ \A j \in i .. e - 1 : t[j] # SEP
  BY EndOfIs
<1>2. Len(t) \in Nat /\ k \in 1 .. Len(t) /\ (k = 1 \/ t[k - 1] = SEP)
  BY StartsAre
<1> HIDE DEF e
<1>3. SUFFICES ASSUME k < e PROVE FALSE
  BY <1>1, <1>2 DEF e
<1>4. k # 1 /\ k - 1 \in i .. e - 1
  BY <1>1, <1>2, <1>3
<1>5. QED
  BY <1>1, <1>2, <1>4

\* What is no separator is in a word.
LEMMA InAWord ==
  ASSUME NEW t \in Seq(Nat), NEW j \in NotSep(t)
  PROVE  \E k \in starts(t) : k <= j /\ j < EndOf(t, k)
<1> DEFINE Q == {k \in 1 .. j : \A m \in k .. j : t[m] # SEP}
<1>1. Len(t) \in Nat /\ j \in 1 .. Len(t) /\ t[j] # SEP
  BY StartsAre DEF NotSep
<1>2. j \in Q /\ Q \in SUBSET Nat
  BY <1>1
<1>3. PICK k \in Q : \A m \in Q : k <= m
  <2> HIDE DEF Q
  <2>1. QED
    BY <1>2, NatMin
<1>4. k \in 1 .. j /\ \A m \in k .. j : t[m] # SEP
  OBVIOUS
<1>5. k = 1 \/ t[k - 1] = SEP
  <2> SUFFICES ASSUME k # 1, t[k - 1] # SEP PROVE FALSE
    OBVIOUS
  <2>1. k - 1 \in 1 .. j /\ ~(k <= k - 1)
    BY <1>1, <1>4
  <2>2. \A m \in k - 1 .. j : m = k - 1 \/ m \in k .. j
    BY <1>1, <1>4
  <2>3. k - 1 \in Q
    BY <1>4, <2>1, <2>2
  <2>4. QED
    BY <1>3, <2>1, <2>3
<1>6. k \in starts(t)
  BY <1>1, <1>4, <1>5, StartsAre
<1>7. j < EndOf(t, k)
  <2> DEFINE e == EndOf(t, k)
  <2>1. e \in k + 1 .. Len(t) + 1 /\ (e <= Len(t) => t[e] = SEP)
    BY <1>6, EndOfIs
  <2> HIDE DEF e
  <2>2. SUFFICES ASSUME e <= j PROVE FALSE
    BY <1>1, <1>4, <2>1 DEF e
  <2>3. e \in k .. j /\ e <= Len(t)
    BY <1>1, <1>4, <2>1, <2>2
  <2>4. QED
    BY <1>4, <2>1, <2>3
<1>8. QED
  BY <1>4, <1>6, <1>7
-----------------------------------------------------------------------------
\* The characters of t at the places K, in their order.
Chars(t, K) == [k \in 1 .. Cardinality(K) |-> t[Ranked(K, k)]]

LEMMA CharsAre ==
  ASSUME NEW t \in Seq(Nat), NEW K \in SUBSET (1 .. Len(t))
  PROVE  /\ IsFiniteSet(K) /\ K \in SUBSET Nat /\ Cardinality(K) \in Nat
         /\ Chars(t, K) \in Seq(Nat) /\ Len(Chars(t, K)) = Cardinality(K)
         /\ \A k \in 1 .. Cardinality(K) : Chars(t, K)[k] = t[Ranked(K, k)]
<1>1. Len(t) \in Nat /\ \A j \in 1 .. Len(t) : t[j] \in Nat
  BY LenProperties, ElementOfSeq
<1>2. IsFiniteSet(1 .. Len(t))
  BY <1>1, FS_Interval
<1>3. IsFiniteSet(K) /\ K \in SUBSET Nat /\ Cardinality(K) \in Nat
  <2>1. IsFiniteSet(K)
    BY <1>2, FS_Subset
  <2>2. QED
    BY <2>1, FS_CardinalityType
<1>4. \A k \in 1 .. Cardinality(K) : Ranked(K, k) \in K
  BY <1>3, RankedIs
<1>5. \A k \in 1 .. Cardinality(K) : t[Ranked(K, k)] \in Nat
  BY <1>1, <1>4
<1>6. [k \in 1 .. Cardinality(K) |-> t[Ranked(K, k)]] \in Seq(Nat)
  BY <1>3, <1>5, IsASeq
<1>7. QED
  BY <1>3, <1>6, LenProperties DEF Chars

LEMMA CharsMore ==
  ASSUME NEW t \in Seq(Nat), NEW K \in SUBSET (1 .. Len(t)), NEW m \in 1 .. Len(t),
         \A k \in K : k < m
  PROVE  Chars(t, K \cup {m}) = Append(Chars(t, K), t[m])
<1> DEFINE J == K \cup {m}
           c == Cardinality(K)
           x == Chars(t, J)
           y == Append(Chars(t, K), t[m])
<1>1. J \in SUBSET (1 .. Len(t)) /\ m \in Nat /\ t[m] \in Nat
  BY LenProperties, ElementOfSeq
<1>2. IsFiniteSet(K) /\ K \in SUBSET Nat /\ c \in Nat
      /\ Chars(t, K) \in Seq(Nat) /\ Len(Chars(t, K)) = c
      /\ \A k \in 1 .. c : Chars(t, K)[k] = t[Ranked(K, k)]
  BY CharsAre
<1>3. /\ Cardinality(J) = c + 1 /\ Ranked(J, c + 1) = m
      /\ \A k \in 1 .. c : Ranked(J, k) = Ranked(K, k)
  BY <1>1, <1>2, RankedMore
<1>4. /\ x \in Seq(Nat) /\ Len(x) = c + 1
      /\ \A k \in 1 .. c + 1 : x[k] = t[Ranked(J, k)]
  <2> HIDE DEF J
  <2>1. /\ x \in Seq(Nat) /\ Len(x) = Cardinality(J)
        /\ \A k \in 1 .. Cardinality(J) : x[k] = t[Ranked(J, k)]
    BY <1>1, CharsAre
  <2> HIDE DEF x, c
  <2>2. QED
    BY <1>3, <2>1
<1>5. /\ y \in Seq(Nat) /\ Len(y) = c + 1 /\ y[c + 1] = t[m]
      /\ \A k \in 1 .. c : y[k] = t[Ranked(K, k)]
  <2>1. PICK u \in Seq(Nat) : u = Chars(t, K)
    BY <1>2
  <2>2. PICK v \in Nat : v = t[m]
    BY <1>1
  <2>3. /\ Append(u, v) \in Seq(Nat) /\ Len(Append(u, v)) = Len(u) + 1
        /\ \A k \in 1 .. Len(u) : Append(u, v)[k] = u[k]
        /\ Append(u, v)[Len(u) + 1] = v
    BY AppendProperties
  <2> HIDE DEF c
  <2>4. QED
    BY <1>2, <2>1, <2>2, <2>3
<1> HIDE DEF x, y, J, c
<1>6. ASSUME NEW k \in 1 .. c + 1 PROVE x[k] = y[k]
  <2>1. CASE k = c + 1
    BY <1>2, <1>3, <1>4, <1>5, <2>1
  <2>2. CASE k # c + 1
    <3>1. k \in 1 .. c
      BY <1>2, <2>2
    <3>2. QED
      BY <1>3, <1>4, <1>5, <3>1
  <2>3. QED
    BY <2>1, <2>2
<1>7. x = y
  BY <1>4, <1>5, <1>6, SeqEqual
<1>8. QED
  BY <1>7 DEF x, y, J

\* Places that follow each other without a gap hold a part of t.
LEMMA CharsRun ==
  ASSUME NEW t \in Seq(Nat), NEW K \in SUBSET (1 .. Len(t)), NEW i \in 1 .. Len(t),
         \A k \in K : k < i
  PROVE  \A b \in Nat : i <= b + 1 /\ b <= Len(t) =>
           Chars(t, K \cup (i .. b)) = Chars(t, K) \o SubSeq(t, i, b)
<1> DEFINE Q(b) == Joined(Chars(t, K), SubSeq(t, i, b), Chars(t, K \cup (i .. b)))
           S == {d \in Nat : i - 1 + d <= Len(t) => Q(i - 1 + d)}
<1>1. Len(t) \in Nat /\ i \in Nat /\ i >= 1 /\ \A j \in 1 .. Len(t) : t[j] \in Nat
  BY LenProperties, ElementOfSeq
<1>2. Chars(t, K) \in Seq(Nat)
  BY CharsAre
<1>3. 0 \in S
  <2>1. i .. i - 1 = {} /\ K \cup {} = K
    BY <1>1
  <2>2. SubSeq(t, i, i - 1) = <<>>
    <3>1. PICK h \in Nat : h = i - 1 /\ i > h
      BY <1>1
    <3>2. SubSeq(t, i, h) = <<>>
      BY <1>1, <3>1, SubSeqEmpty
    <3>3. QED
      BY <3>1, <3>2
  <2>3. Chars(t, K) \o <<>> = Chars(t, K)
    BY <1>2, ConcatEmptySeq
  <2>4. Q(i - 1)
    BY <2>1, <2>2, <2>3 DEF Joined
  <2>5. i - 1 + 0 = i - 1
    BY <1>1
  <2> HIDE DEF Q
  <2>6. QED
    BY <2>4, <2>5
<1>4. ASSUME NEW d \in Nat, d \in S PROVE d + 1 \in S
  <2>0. PICK b \in Nat : b = i - 1 + d
    BY <1>1
  <2>1. i - 1 + (d + 1) = b + 1 /\ i <= b + 1
    BY <1>1, <2>0
  <2> SUFFICES ASSUME b + 1 <= Len(t) PROVE Q(b + 1)
    <3> HIDE DEF Q
    <3>1. QED
      BY <2>1
  <2>2. Q(b)
    <3>1. b <= Len(t)
      BY <1>1
    <3> HIDE DEF Q
    <3>2. QED
      BY <1>4, <2>0, <3>1
  <2> DEFINE J == K \cup (i .. b)
  <2>3. J \in SUBSET (1 .. Len(t)) /\ b + 1 \in 1 .. Len(t) /\ (\A k \in J : k < b + 1)
        /\ K \cup (i .. b + 1) = J \cup {b + 1}
    BY <1>1, <2>1
  <2>4. Chars(t, J \cup {b + 1}) = Append(Chars(t, J), t[b + 1])
    <3> HIDE DEF J
    <3>1. QED
      BY <2>3, CharsMore
  <2>5. SubSeq(t, i, b) \in Seq(Nat)
    BY <1>1, <2>1, PartIs
  <2>6. Append(SubSeq(t, i, b), t[b + 1]) = SubSeq(t, i, b + 1)
    BY <1>1, <2>1, PartNext
  <2>7. t[b + 1] \in Nat
    BY <1>1, <2>3
  <2>8. Joined(Chars(t, K), SubSeq(t, i, b), Chars(t, J))
    BY <2>2
  <2> HIDE DEF J
  <2>9. Joined(Chars(t, K), Append(SubSeq(t, i, b), t[b + 1]), Append(Chars(t, J), t[b + 1]))
    BY <1>2, <2>5, <2>7, <2>8, JoinedMore
  <2>10. QED
    BY <2>3, <2>4, <2>6, <2>9
<1>5. \A d \in Nat : d \in S
  <2> HIDE DEF S
  <2>1. QED
    BY <1>3, <1>4, SetInduction
<1>6. ASSUME NEW b \in Nat, i <= b + 1, b <= Len(t) PROVE Q(b)
  <2>1. PICK d \in Nat : b = i - 1 + d
    <3>1. b - (i - 1) \in Nat /\ b = i - 1 + (b - (i - 1))
      BY <1>1, <1>6
    <3>2. QED
      BY <3>1
  <2>2. d \in S
    BY <1>5
  <2> HIDE DEF Q
  <2>3. QED
    BY <1>6, <2>1, <2>2
<1>7. QED
  BY <1>6 DEF Joined

\* Where the m-th word begins.
Start(t, m) == Ranked(starts(t), m)

LEMMA StartIs ==
  ASSUME NEW t \in Seq(Nat), NEW m \in 1 .. Cardinality(starts(t))
  PROVE  /\ Start(t, m) \in starts(t) /\ Cardinality(UpTo(starts(t), Start(t, m))) = m
         /\ nth(starts(t), m) = Start(t, m)
<1>1. starts(t) \in SUBSET Nat /\ IsFiniteSet(starts(t))
  BY StartsAre
<1>2. Start(t, m) \in starts(t) /\ Cardinality(UpTo(starts(t), Start(t, m))) = m
  BY <1>1, RankedIs DEF Start
<1>3. nth(starts(t), m) = Start(t, m)
  BY Zenon DEF nth, Start, Ranked, UpTo
<1>4. QED
  BY <1>2, <1>3

LEMMA WordIs ==
  ASSUME NEW t \in Seq(Nat), NEW i \in starts(t)
  PROVE  WordAt(t, i) \in Seq(Nat) /\ WordAt(t, i) # <<>>
<1> DEFINE e == EndOf(t, i)
<1>1. Len(t) \in Nat /\ i \in 1 .. Len(t) /\ e \in i + 1 .. Len(t) + 1
  BY StartsAre, EndOfIs
<1> HIDE DEF e
<1>2. PICK b \in Nat : b = e - 1 /\ i <= b /\ b <= Len(t) /\ 1 <= i /\ i <= b + 1 /\ i \in Nat
  BY <1>1
<1>3. SubSeq(t, i, b) \in Seq(Nat) /\ Len(SubSeq(t, i, b)) = b + 1 - i
  BY <1>2, PartIs
<1>4. Len(SubSeq(t, i, b)) # 0
  BY <1>2, <1>3
<1>5. SubSeq(t, i, b) # <<>>
  BY <1>3, <1>4, EmptySeq
<1>6. WordAt(t, i) = SubSeq(t, i, b)
  BY <1>2 DEF WordAt, e
<1>7. QED
  BY <1>3, <1>5, <1>6

LEMMA WordsAre ==
  ASSUME NEW t \in Seq(Nat)
  PROVE  /\ Words(t) \in Seq(Seq(Nat)) /\ Len(Words(t)) = Cardinality(starts(t))
         /\ \A k \in 1 .. Cardinality(starts(t)) :
              Words(t)[k] = WordAt(t, Start(t, k)) /\ Words(t)[k] # <<>>
<1> DEFINE N == Cardinality(starts(t))
<1>1. N \in Nat
  BY StartsAre
<1>2. Words(t) = [k \in 1 .. N |-> WordAt(t, nth(starts(t), k))]
  BY DEF Words
<1>3. \A k \in 1 .. N : WordAt(t, nth(starts(t), k)) = WordAt(t, Start(t, k))
  BY StartIs
<1>4. \A k \in 1 .. N : WordAt(t, Start(t, k)) \in Seq(Nat) /\ WordAt(t, Start(t, k)) # <<>>
  BY StartIs, WordIs
<1> HIDE DEF N
<1>5. [k \in 1 .. N |-> WordAt(t, nth(starts(t), k))] \in Seq(Seq(Nat))
  BY <1>1, <1>3, <1>4, IsASeq
<1>6. Words(t) \in Seq(Seq(Nat)) /\ Len(Words(t)) = N
  BY <1>1, <1>2, <1>5, LenProperties
<1>7. \A k \in 1 .. N : Words(t)[k] = WordAt(t, Start(t, k))
  BY <1>2, <1>3
<1>8. QED
  BY <1>4, <1>6, <1>7 DEF N

\* Up to the m-th word no word reaches further than it.
LEMMA EndsOrdered ==
  ASSUME NEW t \in Seq(Nat), NEW m \in 1 .. Cardinality(starts(t)), NEW k \in starts(t),
         Cardinality(UpTo(starts(t), k)) <= m
  PROVE  k <= Start(t, m) /\ EndOf(t, k) <= EndOf(t, Start(t, m))
<1> DEFINE i == Start(t, m)
<1>1. i \in starts(t) /\ Cardinality(UpTo(starts(t), i)) = m
  BY StartIs
<1>2. starts(t) \in SUBSET Nat /\ IsFiniteSet(starts(t)) /\ Len(t) \in Nat
  BY StartsAre
<1> HIDE DEF i
<1>3. k \in Nat /\ i \in Nat
  BY <1>1, <1>2
<1>4. ~(i < k)
  <2> SUFFICES ASSUME i < k PROVE FALSE
    OBVIOUS
  <2>1. Cardinality(UpTo(starts(t), i)) < Cardinality(UpTo(starts(t), k))
    BY <1>1, <1>2, RankOrder
  <2>2. Cardinality(UpTo(starts(t), k)) \in Nat /\ m \in Nat
    BY <1>2, RankType
  <2>3. QED
    BY <1>1, <2>1, <2>2
<1>5. EndOf(t, k) \in Nat /\ EndOf(t, i) \in i + 1 .. Len(t) + 1
  <2>1. EndOf(t, k) \in k + 1 .. Len(t) + 1 /\ EndOf(t, i) \in i + 1 .. Len(t) + 1
    BY <1>1, EndOfIs
  <2>2. QED
    BY <1>2, <1>3, <2>1
<1>6. CASE k = i
  BY <1>3, <1>5, <1>6 DEF i
<1>7. CASE k < i
  <2>1. EndOf(t, k) <= i
    BY <1>1, <1>7, WordsApart
  <2>2. QED
    BY <1>2, <1>3, <1>5, <1>7, <2>1 DEF i
<1>8. QED
  BY <1>3, <1>4, <1>6, <1>7

Kept(t, x) == {j \in NotSep(t) : j < x}

\* How far the first m words reach.
Reach(t, m) == IF m = 0 THEN 1 ELSE EndOf(t, Start(t, m))

\* A word adds its characters to those of the words before it.
LEMMA KeptMore ==
  ASSUME NEW t \in Seq(Nat), NEW m \in Nat, m + 1 <= Cardinality(starts(t))
  PROVE  LET i == Start(t, m + 1)
             e == EndOf(t, i)
         IN /\ \A j \in Kept(t, Reach(t, m)) : j < i
            /\ Kept(t, Reach(t, m)) \cup (i .. e - 1) = Kept(t, e)
<1> DEFINE i == Start(t, m + 1)
           e == EndOf(t, i)
           x == Reach(t, m)
           N == Cardinality(starts(t))
<1>1. Len(t) \in Nat /\ N \in Nat /\ starts(t) \in SUBSET Nat /\ IsFiniteSet(starts(t))
  BY StartsAre
<1>2. m + 1 \in 1 .. N
  BY <1>1
<1>3. i \in starts(t) /\ Cardinality(UpTo(starts(t), i)) = m + 1
  BY <1>2, StartIs
<1> HIDE DEF i
<1>4. i \in 1 .. Len(t) /\ e \in i + 1 .. Len(t) + 1 /\ \A j \in i .. e - 1 : t[j] # SEP
  BY <1>3, EndOfIs
<1> HIDE DEF e
<1>5. x \in Nat /\ x <= i
  <2>1. CASE m = 0
    BY <1>4, <2>1 DEF Reach
  <2>2. CASE m # 0
    <3> DEFINE l == Start(t, m)
    <3>1. m \in 1 .. N
      BY <1>1, <2>2
    <3>2. l \in starts(t) /\ Cardinality(UpTo(starts(t), l)) = m
      BY <3>1, StartIs
    <3> HIDE DEF l
    <3>3. l <= i /\ l # i
      <4>1. ~(i < l)
        <5> SUFFICES ASSUME i < l PROVE FALSE
          OBVIOUS
        <5>1. Cardinality(UpTo(starts(t), i)) < Cardinality(UpTo(starts(t), l))
          BY <1>1, <1>3, <3>2, RankOrder
        <5>2. QED
          BY <1>3, <3>2, <5>1
      <4>2. l # i
        BY <1>3, <3>2
      <4>3. l \in Nat /\ i \in Nat
        BY <1>1, <1>3, <3>2
      <4>4. QED
        BY <4>1, <4>2, <4>3
    <3>4. l < i
      BY <1>1, <1>3, <3>2, <3>3
    <3>5. EndOf(t, l) <= i
      BY <1>3, <3>2, <3>4, WordsApart
    <3>6. l \in 1 .. Len(t) /\ EndOf(t, l) \in l + 1 .. Len(t) + 1
      BY <3>2, EndOfIs
    <3>7. x = EndOf(t, l)
      BY <2>2 DEF Reach, l
    <3>8. QED
      BY <1>1, <3>5, <3>6, <3>7
  <2>3. QED
    BY <2>1, <2>2
<1>6. ASSUME NEW j \in NotSep(t), j < i PROVE j < x
  <2>1. PICK k \in starts(t) : k <= j /\ j < EndOf(t, k)
    BY InAWord
  <2>2. j \in Nat /\ k \in Nat /\ k < i
    BY <1>1, <1>4, <1>6, <2>1 DEF NotSep
  <2>3. Cardinality(UpTo(starts(t), k)) \in 1 .. N
    BY <1>1, RankType
  <2>4. Cardinality(UpTo(starts(t), k)) < m + 1
    <3>1. Cardinality(UpTo(starts(t), k)) < Cardinality(UpTo(starts(t), i))
      BY <1>1, <1>3, <2>2, RankOrder
    <3>2. QED
      BY <1>3, <3>1
  <2>5. m \in 1 .. N /\ Cardinality(UpTo(starts(t), k)) <= m /\ m # 0
    BY <1>1, <2>3, <2>4
  <2>6. EndOf(t, k) <= EndOf(t, Start(t, m))
    BY <2>5, EndsOrdered
  <2>7. x = EndOf(t, Start(t, m))
    BY <2>5 DEF Reach
  <2>8. EndOf(t, k) \in k + 1 .. Len(t) + 1
    BY EndOfIs
  <2>9. QED
    BY <1>1, <1>5, <2>1, <2>2, <2>6, <2>7, <2>8
<1> HIDE DEF x
<1>7. \A j \in Kept(t, x) : j < i
  <2>1. \A j \in NotSep(t) : j \in Nat
    BY <1>1 DEF NotSep
  <2>2. QED
    BY <1>4, <1>5, <2>1 DEF Kept
<1>8. Kept(t, x) \cup (i .. e - 1) = Kept(t, e)
  <2>1. ASSUME NEW j \in Kept(t, x) PROVE j \in Kept(t, e)
    <3>1. j \in NotSep(t) /\ j \in Nat /\ j < x
      BY <1>1 DEF Kept, NotSep
    <3>2. j < e
      BY <1>1, <1>4, <1>5, <3>1
    <3>3. QED
      BY <3>1, <3>2 DEF Kept
  <2>2. ASSUME NEW j \in i .. e - 1 PROVE j \in Kept(t, e)
    <3>1. j \in 1 .. Len(t) /\ t[j] # SEP /\ j < e
      BY <1>1, <1>4
    <3>2. QED
      BY <3>1 DEF Kept, NotSep
  <2>3. ASSUME NEW j \in Kept(t, e), j \notin i .. e - 1 PROVE j \in Kept(t, x)
    <3>1. j \in NotSep(t) /\ j \in 1 .. Len(t) /\ j < e
      BY DEF Kept, NotSep
    <3>2. j < i
      BY <1>1, <1>4, <2>3, <3>1
    <3>3. QED
      BY <1>6, <3>1, <3>2 DEF Kept
  <2>4. QED
    BY <2>1, <2>2, <2>3
<1>9. QED
  BY <1>7, <1>8 DEF x, e, i

LEMMA KeptAll ==
  ASSUME NEW t \in Seq(Nat)
  PROVE  Kept(t, Reach(t, Cardinality(starts(t)))) = NotSep(t)
<1> DEFINE N == Cardinality(starts(t))
<1>1. Len(t) \in Nat /\ N \in Nat /\ starts(t) \in SUBSET Nat /\ IsFiniteSet(starts(t))
  BY StartsAre
<1>2. ASSUME NEW j \in NotSep(t) PROVE j < Reach(t, N)
  <2>1. PICK k \in starts(t) : k <= j /\ j < EndOf(t, k)
    BY InAWord
  <2>2. Cardinality(UpTo(starts(t), k)) \in 1 .. N
    BY <1>1, RankType
  <2>3. N \in 1 .. N /\ Cardinality(UpTo(starts(t), k)) <= N /\ N # 0
    BY <1>1, <2>2
  <2>4. EndOf(t, k) <= EndOf(t, Start(t, N))
    BY <2>3, EndsOrdered
  <2>5. Reach(t, N) = EndOf(t, Start(t, N))
    BY <2>3 DEF Reach
  <2>6. Start(t, N) \in starts(t)
    BY <2>3, StartIs
  <2>7. /\ k \in 1 .. Len(t) /\ EndOf(t, k) \in k + 1 .. Len(t) + 1
        /\ Start(t, N) \in 1 .. Len(t) /\ EndOf(t, Start(t, N)) \in Start(t, N) + 1 .. Len(t) + 1
    BY <2>6, EndOfIs
  <2>8. j \in Nat
    BY <1>1 DEF NotSep
  <2> HIDE DEF N
  <2>9. QED
    BY <1>1, <2>1, <2>4, <2>5, <2>7, <2>8
<1>3. QED
  BY <1>2 DEF Kept

\* The words together are the characters that separate nothing.
LEMMA WordsFlatten ==
  ASSUME NEW t \in Seq(Nat)
  PROVE  FlattenSeq(Words(t)) = Chars(t, NotSep(t))
<1> DEFINE N == Cardinality(starts(t))
           W == Words(t)
           P(m) == FlattenSeq(SubSeq(W, 1, m)) = Chars(t, Kept(t, Reach(t, m)))
           S == {m \in Nat : m <= N => P(m)}
<1>1. N \in Nat /\ Len(t) \in Nat /\ W \in Seq(Seq(Nat)) /\ Len(W) = N
      /\ \A k \in 1 .. N : W[k] = WordAt(t, Start(t, k))
  BY StartsAre, WordsAre
<1> HIDE DEF W, N
<1>2. 0 \in S
  <2>1. SubSeq(W, 1, 0) = <<>>
    BY <1>1, SubSeqEmpty
  <2>2. FlattenSeq(<<>>) = <<>>
    BY DEF FlattenSeq
  <2>3. Kept(t, Reach(t, 0)) = {}
    <3>1. \A j \in NotSep(t) : j \in Nat /\ j >= 1
      BY <1>1 DEF NotSep
    <3>2. QED
      BY <3>1 DEF Kept, Reach
  <2>4. Chars(t, {}) = <<>>
    <3>1. Chars(t, {}) \in Seq(Nat) /\ Len(Chars(t, {})) = 0
      <4>1. {} \in SUBSET (1 .. Len(t)) /\ Cardinality({}) = 0
        BY FS_EmptySet
      <4>2. QED
        BY <4>1, CharsAre
    <3>2. QED
      BY <3>1, EmptySeq
  <2>5. P(0)
    BY <2>1, <2>2, <2>3, <2>4
  <2> HIDE DEF P
  <2>6. QED
    BY <2>5
<1>3. ASSUME NEW m \in Nat, m \in S PROVE m + 1 \in S
  <2>0. PICK c \in Nat : c = m + 1
    OBVIOUS
  <2> SUFFICES ASSUME c <= N PROVE P(c)
    <3> HIDE DEF P
    <3>1. QED
      BY <2>0
  <2>1. P(m)
    <3>1. m <= N
      BY <1>1, <2>0
    <3> HIDE DEF P
    <3>2. QED
      BY <1>3, <3>1
  <2> DEFINE i == Start(t, m + 1)
             e == EndOf(t, i)
             K == Kept(t, Reach(t, m))
  <2>2. c \in 1 .. N /\ 1 <= m + 1 /\ m + 1 <= N
    BY <1>1, <2>0
  <2>3. i \in starts(t)
    <3>1. m + 1 \in 1 .. Cardinality(starts(t))
      BY <2>0, <2>2 DEF N
    <3>2. QED
      BY <3>1, StartIs
  <2>4. (\A j \in K : j < i) /\ K \cup (i .. e - 1) = Kept(t, e)
    BY <2>2, KeptMore DEF N
  <2> HIDE DEF i
  <2>5. i \in 1 .. Len(t) /\ e \in i + 1 .. Len(t) + 1
    BY <2>3, EndOfIs
  <2>6. WordAt(t, i) \in Seq(Nat) /\ WordAt(t, i) = SubSeq(t, i, e - 1)
    BY <2>3, WordIs DEF WordAt
  <2> HIDE DEF e
  <2>7. K \in SUBSET (1 .. Len(t))
    BY DEF Kept, NotSep
  <2> HIDE DEF K
  <2>8. Chars(t, Kept(t, e)) = Chars(t, K) \o SubSeq(t, i, e - 1)
    <3>1. e - 1 \in Nat /\ i <= e - 1 + 1 /\ e - 1 <= Len(t)
      BY <1>1, <2>5
    <3>2. Chars(t, K \cup (i .. e - 1)) = Chars(t, K) \o SubSeq(t, i, e - 1)
      BY <2>4, <2>5, <2>7, <3>1, CharsRun
    <3>3. QED
      BY <2>4, <3>2
  <2>9. Kept(t, Reach(t, c)) = Kept(t, e)
    BY <2>0 DEF Reach, e, i
  <2>10. SubSeq(W, 1, c) = Append(SubSeq(W, 1, m), WordAt(t, i))
    <3>1. Append(SubSeq(W, 1, m), W[m + 1]) = SubSeq(W, 1, m + 1)
      BY <1>1, <2>2, PartNext
    <3>2. W[m + 1] = WordAt(t, i)
      BY <1>1, <2>0, <2>2 DEF i
    <3>3. QED
      BY <2>0, <3>1, <3>2
  <2>11. SubSeq(W, 1, m) \in Seq(Seq(Nat))
    BY <1>1, <2>2, TakeIs
  <2>12. FlattenSeq(SubSeq(W, 1, c)) = FlattenSeq(SubSeq(W, 1, m)) \o WordAt(t, i)
    <3>1. PICK u \in Seq(Seq(Nat)) : u = SubSeq(W, 1, m)
      BY <2>11
    <3>2. PICK v \in Seq(Nat) : v = WordAt(t, i)
      BY <2>6
    <3>3. FlattenSeq(Append(u, v)) = FlattenSeq(u) \o v
      BY FlattenAppend
    <3>4. QED
      BY <2>10, <3>1, <3>2, <3>3
  <2>13. FlattenSeq(SubSeq(W, 1, m)) = Chars(t, K)
    BY <2>1 DEF K
  <2>14. QED
    BY <2>6, <2>8, <2>9, <2>12, <2>13
<1>4. \A m \in Nat : m \in S
  <2> HIDE DEF S
  <2>1. QED
    BY <1>2, <1>3, SetInduction
<1>5. P(N)
  <2>1. N \in S /\ N <= N
    BY <1>1, <1>4
  <2> HIDE DEF P
  <2>2. QED
    BY <2>1
<1>6. SubSeq(W, 1, N) = W
  <2>1. /\ SubSeq(W, 1, N) \in Seq(Seq(Nat)) /\ Len(SubSeq(W, 1, N)) = N
        /\ \A k \in 1 .. N : SubSeq(W, 1, N)[k] = W[k]
    BY <1>1, TakeIs
  <2>2. QED
    BY <1>1, <2>1, SeqEqual
<1>7. Kept(t, Reach(t, N)) = NotSep(t)
  BY KeptAll DEF N
<1>8. QED
  BY <1>5, <1>6, <1>7 DEF W

\* A word begins behind each separator that no other follows, and first.
Gaps(t) == {i \in 1 .. Len(t) - 1 : t[i] = SEP /\ t[i + 1] # SEP}

LEMMA StartsCount ==
  ASSUME NEW t \in Seq(Nat)
  PROVE  Cardinality(starts(t))
           = Cardinality(Gaps(t)) + (IF t # <<>> /\ t[1] # SEP THEN 1 ELSE 0)
<1> DEFINE later == starts(t) \ {1}
           f == [i \in later |-> i - 1]
<1>1. Len(t) \in Nat /\ starts(t) \subseteq 1 .. Len(t) /\ IsFiniteSet(starts(t))
      /\ \A i \in 1 .. Len(t) : i \in starts(t) <=> t[i] # SEP /\ (i = 1 \/ t[i - 1] = SEP)
  BY StartsAre
<1>2. IsFiniteSet(later)
  BY <1>1, FS_Subset
<1>3. \A i \in later : i \in Nat /\ i - 1 \in Gaps(t)
  <2>1. ASSUME NEW i \in later PROVE i \in Nat /\ i - 1 \in Gaps(t)
    <3>1. i \in 2 .. Len(t) /\ t[i] # SEP /\ t[i - 1] = SEP
      BY <1>1
    <3>2. i - 1 \in 1 .. Len(t) - 1 /\ (i - 1) + 1 = i
      BY <1>1, <3>1
    <3>3. QED
      BY <3>1, <3>2 DEF Gaps
  <2>2. QED
    BY <2>1
<1>4. \A g \in Gaps(t) : g \in Nat /\ g + 1 \in later
  <2>1. ASSUME NEW g \in Gaps(t) PROVE g \in Nat /\ g + 1 \in later
    <3>1. g \in 1 .. Len(t) - 1 /\ t[g] = SEP /\ t[g + 1] # SEP
      BY DEF Gaps
    <3>2. g \in Nat /\ g + 1 \in 1 .. Len(t) /\ g + 1 # 1 /\ (g + 1) - 1 = g
      BY <1>1, <3>1
    <3>3. g + 1 \in starts(t)
      BY <1>1, <3>1, <3>2
    <3>4. QED
      BY <3>2, <3>3
  <2>2. QED
    BY <2>1
<1> HIDE DEF later
<1>5. f \in Bijection(later, Gaps(t))
  <2>1. f \in [later -> Gaps(t)]
    BY <1>3
  <2>2. \A a, b \in later : f[a] = f[b] => a = b
    BY <1>3
  <2>3. ASSUME NEW g \in Gaps(t) PROVE \E i \in later : f[i] = g
    <3>1. g + 1 \in later /\ f[g + 1] = g
      BY <1>4
    <3>2. QED
      BY <3>1
  <2> HIDE DEF f
  <2>4. QED
    BY <2>1, <2>2, <2>3 DEF Bijection, Injection, Surjection, IsInjective
<1>6. Cardinality(Gaps(t)) = Cardinality(later)
  BY <1>2, <1>5, FS_Bijection DEF ExistsBijection
<1>7. 1 \in starts(t) <=> t # <<>> /\ t[1] # SEP
  <2>1. t # <<>> <=> 1 \in 1 .. Len(t)
    <3>1. t # <<>> <=> Len(t) # 0
      BY EmptySeq
    <3>2. QED
      BY <1>1, <3>1
  <2>2. QED
    BY <1>1, <2>1
<1>8. Cardinality(starts(t)) \in Nat /\ Cardinality(later) \in Nat
  BY <1>1, <1>2, FS_CardinalityType
<1>9. CASE 1 \in starts(t)
  <2>1. Cardinality(later) = Cardinality(starts(t)) - 1
    BY <1>1, <1>9, FS_RemoveElement DEF later
  <2>2. QED
    BY <1>6, <1>7, <1>8, <1>9, <2>1
<1>10. CASE 1 \notin starts(t)
  <2>1. later = starts(t)
    BY <1>10 DEF later
  <2>2. QED
    BY <1>6, <1>7, <1>8, <1>10, <2>1
<1>11. QED
  BY <1>9, <1>10

LEMMA TextParsed ==
  ASSUME NEW s \in Seq(Nat)
  PROVE  parsed_text(s) \in Seq(Nat)
<1> DEFINE ends == {i \in 2 .. Len(s) : s[i] = LF}
<1>1. Len(s) \in Nat
  BY LenProperties
<1>2. CASE ends = {}
  BY <1>2 DEF parsed_text
<1>3. CASE ends # {}
  <2>1. ends \in SUBSET Nat
    BY <1>1
  <2>2. least(ends) \in ends
    <3> HIDE DEF ends
    <3>1. QED
      BY <1>3, <2>1, LeastIs
  <2>3. least(ends) \in 2 .. Len(s)
    BY <2>2
  <2> DEFINE n == least(ends) - 1
  <2>4. n \in Nat /\ n <= Len(s)
    <3> HIDE DEF ends
    <3>1. QED
      BY <1>1, <2>3
  <2>5. SubSeq(s, 1, n) \in Seq(Nat)
    <3> HIDE DEF n
    <3>1. QED
      BY <2>4, TakeIs
  <2>6. parsed_text(s) = SubSeq(s, 1, n)
    BY <1>3 DEF parsed_text
  <2>7. QED
    BY <2>5, <2>6
<1>4. QED
  BY <1>2, <1>3

LEMMA SplitsStep ==
  ASSUME splits PROVE SplitsWords'
<1>1. PICK s \in Strings({1, 2, SEP, LF}) :
        call' = [fn |-> "parseInputToParams", args |-> s, out |-> parseInputToParams(s)]
  BY DEF splits, computes, returned
<1>2. s \in Seq(Nat)
  <2>1. {1, 2, SEP, LF} \in SUBSET Nat
    BY DEF SEP, LF
  <2>2. QED
    BY <1>1, <2>1, StringsAre
<1>3. call'.args = s /\ call'.out = parseInputToParams(s)
  BY <1>1
<1> DEFINE t == parsed_text(s)
           kept == {i \in DOMAIN t : t[i] # SEP}
<1>4. parseInputToParams(s) = Words(t)
  BY Zenon DEF parseInputToParams, Words, WordAt, EndOf, Ends
<1>5. t \in Seq(Nat)
  BY <1>2, TextParsed
<1> HIDE DEF t
<1>6. kept = NotSep(t)
  BY <1>5, LenProperties DEF NotSep
<1>7. FlattenSeq(Words(t)) = [k \in 1 .. Cardinality(kept) |-> t[nth(kept, k)]]
  <2>1. \A k : nth(kept, k) = Ranked(kept, k)
    BY Zenon DEF nth, Ranked, UpTo
  <2> HIDE DEF kept
  <2>2. Chars(t, kept) = [k \in 1 .. Cardinality(kept) |-> t[nth(kept, k)]]
    BY <2>1 DEF Chars
  <2>3. QED
    BY <1>5, <1>6, <2>2, WordsFlatten
<1>8. \A k \in DOMAIN Words(t) : Words(t)[k] # <<>>
  <2>1. DOMAIN Words(t) = 1 .. Cardinality(starts(t))
    BY DEF Words
  <2>2. QED
    BY <1>5, <2>1, WordsAre
<1>9. Len(Words(t)) = Cardinality(Gaps(t)) + (IF t # <<>> /\ t[1] # SEP THEN 1 ELSE 0)
  BY <1>5, WordsAre, StartsCount
<1>10. QED
  BY <1>3, <1>4, <1>7, <1>8, <1>9, Zenon DEF SplitsWords, Gaps, t

\* What neither splits a line nor runs a script.
LEMMA OtherThanLines ==
  ASSUME call'.fn \notin {"parseInputToParams", "sh_cmd"}
  PROVE  LinesAreCut'
BY DEF LinesAreCut, SplitsWords, ScriptLineByLine, Called

\* parseInputToParams finds the words of a line of any length, each once and
\* whole, and sh_cmd the lines of any script that ends one and fits its buffer.
THEOREM LinesAreAlwaysCut == Spec => []LinesAreCut
<1>1. Init => LinesAreCut
  BY DEF Init, LinesAreCut, SplitsWords, ScriptLineByLine, Called, Idle
<1>2. LinesAreCut /\ [Next]_vars => LinesAreCut'
  <2> SUFFICES ASSUME LinesAreCut, [Next]_vars PROVE LinesAreCut'
    OBVIOUS
  <2>1. CASE splits
    <3>1. call'.fn = "parseInputToParams"
      BY <2>1, Computed DEF splits
    <3>2. ScriptLineByLine'
      BY <3>1 DEF ScriptLineByLine, Called
    <3>3. QED
      BY <2>1, <3>2, SplitsStep DEF LinesAreCut
  <2>2. CASE runs_script
    <3>1. call'.fn = "sh_cmd"
      BY <2>2, Computed DEF runs_script
    <3>2. SplitsWords'
      BY <3>1 DEF SplitsWords, Called
    <3>3. QED
      BY <2>2, <3>2, ScriptStep DEF LinesAreCut
  <2>3. CASE UNCHANGED call
    BY <2>3 DEF LinesAreCut, SplitsWords, ScriptLineByLine, Called
  <2> DEFINE Other == call'.fn \notin {"parseInputToParams", "sh_cmd"}
  <2>4. returns => Other
    BY DEF returns, Idle
  <2>5. compares => Other
    BY Computed DEF compares
  <2>6. searches => Other
    BY Computed DEF searches
  <2>7. prints => Other
    BY Computed DEF prints
  <2>8. prints_hex => Other
    BY Computed DEF prints_hex
  <2>9. converts => Other
    BY Computed DEF converts
  <2>10. measures => Other
    BY Computed DEF measures
  <2>11. walks => Other
    BY Computed DEF walks
  <2>12. passes => Other
    BY Computed DEF passes
  <2>13. scans => Other
    BY DEF scans, returned
  <2>14. opens => Other
    BY DEF opens, returned
  <2>15. reads => Other
    BY DEF reads, returned
  <2>16. malloc => Other
    BY DEF malloc, returned
  <2>17. splits \/ runs_script \/ UNCHANGED call \/ Other
    BY <2>4, <2>5, <2>6, <2>7, <2>8, <2>9, <2>10, <2>11, <2>12, <2>13, <2>14, <2>15, <2>16
       DEF Next, vars, do_execv
  <2>18. QED
    BY <2>1, <2>2, <2>3, <2>17, OtherThanLines
<1>3. QED
  BY <1>1, <1>2, PTL DEF Spec
-----------------------------------------------------------------------------
(* Arguments on the stack.                                                 *)

PageBytes == 0 .. STACK_PAGE - 1

\* Strings end at the first zero.
CString == Seq(Nat \ {0})

\* A string stands at byte a.
Held(page, a, s) == \A j \in 1 .. Len(s) : page[a + j - 1] = s[j]

\* What the proofs use of the page of the stack.
LEMMA StackIs ==
  /\ STACK_PAGE \in Nat /\ WORD \in Nat /\ WORD > 0 /\ STACK_BASE \in Nat /\ STACK_BASE > 0
  /\ MAX_ARGUMENT \in Nat /\ 4 * (MAX_ARGUMENT + 1) + 10 * WORD <= STACK_PAGE
BY LibraryAssumption

LEMMA StackProducts ==
  ASSUME NEW a \in Nat, NEW b \in Nat, NEW w \in Nat, a < b
  PROVE  a * w \in Nat /\ b * w \in Nat /\ a * w + w <= b * w
<1>1. a + 1 <= b
  OBVIOUS
<1>2. (a + 1) * w <= b * w
  BY <1>1, SMTT(30)
<1>3. (a + 1) * w = a * w + w
  BY SMTT(30)
<1>4. a * w \in Nat /\ b * w \in Nat
  BY SMTT(30)
<1>5. QED
  BY <1>2, <1>3, <1>4

\* Bytes that are put somewhere stand there, and the others stay.
LEMMA PutIs ==
  ASSUME NEW page, DOMAIN page = PageBytes, NEW i \in Nat,
         NEW S, NEW bytes \in Seq(S), i + Len(bytes) <= STACK_PAGE
  PROVE  /\ DOMAIN put(page, i, bytes) = PageBytes
         /\ \A j \in 1 .. Len(bytes) : put(page, i, bytes)[i + j - 1] = bytes[j]
         /\ \A j \in PageBytes : j < i \/ j >= i + Len(bytes) =>
              put(page, i, bytes)[j] = page[j]
<1> DEFINE q == put(page, i, bytes)
           n == Len(bytes)
<1>1. n \in Nat /\ STACK_PAGE \in Nat
  BY LenProperties, StackIs
<1>2. q = [j \in PageBytes |-> IF j \in i .. i + n - 1 THEN bytes[j - i + 1] ELSE page[j]]
  BY DEF put
<1> HIDE DEF q, n
<1>3. ASSUME NEW j \in 1 .. n PROVE q[i + j - 1] = bytes[j]
  <2>1. /\ i + j - 1 \in PageBytes /\ i + j - 1 \in i .. i + n - 1
        /\ (i + j - 1) - i + 1 = j
    BY <1>1 DEF PageBytes, n
  <2>2. QED
    BY <1>2, <2>1
<1>4. ASSUME NEW j \in PageBytes, j < i \/ j >= i + n PROVE q[j] = page[j]
  <2>1. j \notin i .. i + n - 1
    BY <1>1, <1>4 DEF PageBytes
  <2>2. QED
    BY <1>2, <2>1
<1>5. QED
  BY <1>2, <1>3, <1>4 DEF q, n

\* A string behind a zero.
LEMMA ZeroAndString ==
  ASSUME NEW page, DOMAIN page = PageBytes, NEW k \in Nat, NEW s \in CString,
         NEW b \in Nat, b = k + Len(s) + 1, b <= STACK_PAGE
  PROVE  LET q == put(page, k, <<0>> \o s)
         IN /\ DOMAIN q = PageBytes
            /\ q[k] = 0 /\ Held(q, k + 1, s)
            /\ \A j \in PageBytes : j < k \/ j >= b => q[j] = page[j]
<1>1. PICK n \in Nat : n = Len(s)
  BY LenProperties DEF CString
<1>2. PICK bytes \in Seq(Nat) :
        /\ bytes = <<0>> \o s /\ Len(bytes) = n + 1 /\ bytes[1] = 0
        /\ \A j \in 2 .. n + 1 : bytes[j] = s[j - 1]
  <2>1. s \in Seq(Nat)
    BY SeqWiden DEF CString
  <2>2. 0 \in Nat /\ \A i \in 2 .. Len(s) + 1 : i \in 2 .. n + 1
    BY <1>1
  <2>3. /\ <<0>> \o s \in Seq(Nat) /\ Len(<<0>> \o s) = Len(s) + 1
        /\ (<<0>> \o s)[1] = 0
        /\ \A i \in 2 .. Len(s) + 1 : (<<0>> \o s)[i] = s[i - 1]
    BY <2>1, <2>2, PushIs
  <2>4. QED
    BY <1>1, <2>3
<1>3. k + Len(bytes) = b
  BY <1>1, <1>2
<1>4. PICK q : q = put(page, k, bytes)
  OBVIOUS
<1>5. /\ DOMAIN q = PageBytes
      /\ \A j \in 1 .. n + 1 : q[k + j - 1] = bytes[j]
      /\ \A j \in PageBytes : j < k \/ j >= b => q[j] = page[j]
  <2>1. k + Len(bytes) <= STACK_PAGE
    BY <1>3
  <2>2. /\ DOMAIN put(page, k, bytes) = PageBytes
        /\ \A j \in 1 .. Len(bytes) : put(page, k, bytes)[k + j - 1] = bytes[j]
        /\ \A j \in PageBytes : j < k \/ j >= k + Len(bytes) => put(page, k, bytes)[j] = page[j]
    BY <2>1, PutIs
  <2>3. QED
    BY <1>2, <1>3, <1>4, <2>2
<1>6. q[k] = 0
  <2>1. 1 \in 1 .. n + 1 /\ k + 1 - 1 = k
    OBVIOUS
  <2>2. QED
    BY <1>2, <1>5, <2>1
<1>7. Held(q, k + 1, s)
  <2> SUFFICES ASSUME NEW j \in 1 .. n PROVE q[k + 1 + j - 1] = s[j]
    BY <1>1 DEF Held
  <2>1. /\ j + 1 \in 1 .. n + 1 /\ j + 1 \in 2 .. n + 1 /\ (j + 1) - 1 = j
        /\ k + (j + 1) - 1 = k + 1 + j - 1
    OBVIOUS
  <2>2. QED
    BY <1>2, <1>5, <2>1
<1>8. QED
  BY <1>2, <1>4, <1>5, <1>6, <1>7

\* One string below those that are there.
LEMMA PlacedIs ==
  ASSUME NEW r, DOMAIN r.page = PageBytes, r.rsp \in Nat, r.rsp <= STACK_PAGE,
         r.to \in Seq(Nat), NEW s \in CString, Len(s) + 1 <= r.rsp
  PROVE  LET q == placed(s, r)
         IN /\ DOMAIN q.page = PageBytes
            /\ q.rsp = r.rsp - Len(s) - 1 /\ q.rsp \in Nat
            /\ q.page[q.rsp] = 0
            /\ Held(q.page, q.rsp + 1, s)
            /\ \A j \in PageBytes : j < q.rsp \/ j >= r.rsp => q.page[j] = r.page[j]
            /\ q.to \in Seq(Nat) /\ Len(q.to) = Len(r.to) + 1
            /\ q.to[1] = STACK_BASE + (q.rsp + 1)
            /\ \A i \in 2 .. Len(r.to) + 1 : q.to[i] = r.to[i - 1]
<1>1. PICK b \in Nat, n \in Nat : b = r.rsp /\ n = Len(s) /\ n + 1 <= b /\ b <= STACK_PAGE
  BY LenProperties DEF CString
<1>2. PICK k \in Nat : k = b - n - 1 /\ b = k + n + 1 /\ b - n = k + 1
  <2>1. b - n - 1 \in Nat
    BY <1>1
  <2>2. QED
    BY <2>1
<1>3. PICK q : q = placed(s, r)
  OBVIOUS
<1>4. /\ q.page = put(r.page, k, <<0>> \o s) /\ q.rsp = k
      /\ q.to = <<STACK_BASE + (k + 1)>> \o r.to
  <2>1. r.rsp - Len(s) = k + 1 /\ (k + 1) - 1 = k
    BY <1>1, <1>2
  <2>2. QED
    BY <1>3, <2>1 DEF placed
<1>5. /\ DOMAIN q.page = PageBytes
      /\ q.page[k] = 0 /\ Held(q.page, k + 1, s)
      /\ \A j \in PageBytes : j < k \/ j >= b => q.page[j] = r.page[j]
  <2>1. b = k + Len(s) + 1
    BY <1>1, <1>2
  <2>2. LET p == put(r.page, k, <<0>> \o s)
        IN /\ DOMAIN p = PageBytes
           /\ p[k] = 0 /\ Held(p, k + 1, s)
           /\ \A j \in PageBytes : j < k \/ j >= b => p[j] = r.page[j]
    BY <1>1, <2>1, ZeroAndString
  <2>3. QED
    BY <1>4, <2>2
<1>6. /\ q.to \in Seq(Nat) /\ Len(q.to) = Len(r.to) + 1
      /\ q.to[1] = STACK_BASE + (k + 1)
      /\ \A j \in 2 .. Len(r.to) + 1 : q.to[j] = r.to[j - 1]
  <2>1. STACK_BASE + (k + 1) \in Nat
    BY StackIs
  <2>2. QED
    BY <1>4, <2>1, PushIs
<1>7. QED
  BY <1>1, <1>2, <1>3, <1>4, <1>5, <1>6

\* What a program finds where a string stands.
LEMMA StringFound ==
  ASSUME NEW page, DOMAIN page = PageBytes, NEW a \in Nat, NEW s \in CString,
         a + Len(s) \in PageBytes, Held(page, a, s), page[a + Len(s)] = 0
  PROVE  string_at(page, STACK_BASE + a) = s
<1> DEFINE ends == {j \in DOMAIN page : j >= a /\ page[j] = 0}
           n == Len(s)
<1>1. n \in Nat /\ STACK_PAGE \in Nat /\ STACK_BASE \in Nat
      /\ \A j \in 1 .. n : s[j] \in Nat \ {0}
  BY LenProperties, ElementOfSeq, StackIs DEF CString
<1>2. ends \in SUBSET Nat /\ a + n \in ends
  BY <1>1 DEF PageBytes
<1>3. ASSUME NEW j \in ends PROVE a + n <= j
  <2>1. j \in Nat /\ j >= a /\ page[j] = 0
    BY <1>2
  <2>2. CASE j < a + n
    <3>1. j - a + 1 \in 1 .. n /\ a + (j - a + 1) - 1 = j
      BY <1>1, <2>1, <2>2
    <3>2. page[j] = s[j - a + 1]
      BY <3>1 DEF Held
    <3>3. QED
      BY <1>1, <2>1, <3>1, <3>2
  <2>3. QED
    BY <1>1, <2>1, <2>2
<1>4. least(ends) = a + n
  <2>1. least(ends) \in ends /\ \A j \in ends : least(ends) <= j
    <3> HIDE DEF ends
    <3>1. QED
      BY <1>2, LeastIs
  <2>2. least(ends) \in Nat /\ a + n <= least(ends) /\ least(ends) <= a + n
    <3> HIDE DEF ends
    <3>1. QED
      BY <1>2, <1>3, <2>1
  <2> HIDE DEF ends
  <2>3. QED
    BY <1>1, <2>2
<1>5. string_at(page, STACK_BASE + a) = [k \in 1 .. n |-> page[a + k - 1]]
  <2>1. (STACK_BASE + a) - STACK_BASE = a
    BY <1>1
  <2>2. ends # {}
    BY <1>2
  <2>3. string_at(page, STACK_BASE + a) = [k \in 1 .. least(ends) - a |-> page[a + k - 1]]
    BY <2>1, <2>2 DEF string_at
  <2>4. least(ends) - a = n
    BY <1>1, <1>4
  <2>5. QED
    BY <2>3, <2>4
<1>6. \A k \in 1 .. n : page[a + k - 1] = s[k]
  BY DEF Held
<1>7. s = [k \in 1 .. n |-> s[k]]
  BY LenProperties DEF CString
<1>8. QED
  BY <1>5, <1>6, <1>7

\* The strings below each other, from the last to the k-th.
LaidItem(f, page, rsp, params, k) ==
  IF k > Len(params) THEN [page |-> page, rsp |-> rsp, to |-> <<>>]
  ELSE placed(params[k], f[k + 1])

LaidBy(f, page, rsp, params) ==
  f = [k \in 1 .. Len(params) + 1 |-> LaidItem(f, page, rsp, params, k)]

\* The function that set_params_to_stack recurs on exists.
LEMMA LayingExists ==
  ASSUME NEW page, NEW rsp, NEW params, Len(params) \in Nat
  PROVE  \E f : LaidBy(f, page, rsp, params)
<1>1. PICK n \in Nat : n = Len(params)
  OBVIOUS
<1> DEFINE item(f, k) == LaidItem(f, page, rsp, params, k)
           From(f, d) == /\ DOMAIN f = 1 .. n + 1
                         /\ f = [k \in 1 .. n + 1 |-> f[k]]
                         /\ \A k \in 1 .. n + 1 : k >= n + 1 - d => f[k] = item(f, k)
           S == {d \in Nat : d <= n => \E f : From(f, d)}
<1>2. 0 \in S
  <2> DEFINE last == [page |-> page, rsp |-> rsp, to |-> <<>>]
             f == [k \in 1 .. n + 1 |-> last]
  <2>1. \A k \in 1 .. n + 1 : k >= n + 1 - 0 => k > Len(params)
    BY <1>1
  <2>2. \A k \in 1 .. n + 1 : k >= n + 1 - 0 => f[k] = item(f, k)
    BY <2>1 DEF LaidItem
  <2> HIDE DEF item
  <2>3. From(f, 0)
    BY <2>2
  <2>4. QED
    BY <2>3
<1>3. ASSUME NEW d \in Nat, d \in S PROVE d + 1 \in S
  <2> SUFFICES ASSUME d + 1 <= n PROVE \E f : From(f, d + 1)
    OBVIOUS
  <2>1. PICK f : From(f, d)
    BY <1>3
  <2>2. PICK m \in 1 .. n : m = n + 1 - (d + 1) /\ m + 1 = n + 1 - d
    <3>1. n + 1 - (d + 1) \in 1 .. n /\ (n + 1 - (d + 1)) + 1 = n + 1 - d
      OBVIOUS
    <3>2. QED
      BY <3>1
  <2> DEFINE x == placed(params[m], f[m + 1])
             g == [k \in 1 .. n + 1 |-> IF k = m THEN x ELSE f[k]]
  <2>3. \A k \in 1 .. n + 1 : k # m => g[k] = f[k]
    OBVIOUS
  <2>4. ASSUME NEW k \in 1 .. n + 1, k >= n + 1 - (d + 1) PROVE g[k] = item(g, k)
    <3>1. CASE k = m
      <4>1. g[k] = x /\ ~(k > Len(params)) /\ m + 1 \in 1 .. n + 1 /\ m + 1 # m
        BY <1>1, <2>2, <3>1
      <4>2. g[m + 1] = f[m + 1]
        BY <2>3, <4>1
      <4> HIDE DEF g
      <4>3. QED
        BY <3>1, <4>1, <4>2 DEF LaidItem
    <3>2. CASE k # m
      <4>1. k >= n + 1 - d
        BY <2>2, <2>4, <3>2
      <4>2. f[k] = item(f, k) /\ g[k] = f[k]
        BY <2>1, <2>3, <3>2, <4>1
      <4>3. k > Len(params) \/ g[k + 1] = f[k + 1]
        <5>1. k = n + 1 \/ (k + 1 \in 1 .. n + 1 /\ k + 1 # m)
          BY <2>2, <4>1
        <5> HIDE DEF g
        <5>2. QED
          BY <1>1, <2>3, <5>1
      <4> HIDE DEF g
      <4>4. QED
        BY <4>2, <4>3 DEF LaidItem
    <3>3. QED
      BY <3>1, <3>2
  <2>5. DOMAIN g = 1 .. n + 1 /\ g = [k \in 1 .. n + 1 |-> g[k]]
    OBVIOUS
  <2> HIDE DEF g, item
  <2>6. From(g, d + 1)
    BY <2>4, <2>5
  <2>7. QED
    BY <2>6
<1>4. n \in S
  <2> HIDE DEF S
  <2>1. QED
    BY <1>2, <1>3, SetInduction
<1>5. PICK f : From(f, n)
  BY <1>4
<1>6. \A k \in 1 .. n + 1 : f[k] = item(f, k)
  <2>1. \A k \in 1 .. n + 1 : k >= n + 1 - n
    OBVIOUS
  <2> HIDE DEF item
  <2>2. QED
    BY <1>5, <2>1
<1>7. f = [k \in 1 .. n + 1 |-> item(f, k)]
  <2> HIDE DEF item
  <2>1. QED
    BY <1>5, <1>6
<1>8. QED
  BY <1>1, <1>7 DEF LaidBy

LEMMA LaidIs ==
  ASSUME NEW page, NEW rsp, NEW params, Len(params) \in Nat
  PROVE  \E f : LaidBy(f, page, rsp, params) /\ set_params_to_stack(page, rsp, params) = f[1]
<1> DEFINE F == CHOOSE f : LaidBy(f, page, rsp, params)
<1>1. LaidBy(F, page, rsp, params)
  BY LayingExists
<1>2. set_params_to_stack(page, rsp, params) = F[1]
  <2>1. set_params_to_stack(page, rsp, params)
          = (CHOOSE f : f = [k \in 1 .. Len(params) + 1 |->
               IF k > Len(params) THEN [page |-> page, rsp |-> rsp, to |-> <<>>]
               ELSE placed(params[k], f[k + 1])])[1]
    BY Zenon DEF set_params_to_stack
  <2>2. QED
    BY <2>1, Zenon DEF LaidBy, LaidItem
<1> HIDE DEF F
<1>3. QED
  BY <1>1, <1>2

\* When the strings from the k-th on have been placed: each stands between
\* the stack pointer and where the first was to end, and ends with a zero, or,
\* the last one, there.
Stands(r, rsp, s, i, left) ==
  \E a \in Nat : /\ r.to[i] = STACK_BASE + a /\ r.rsp < a /\ a + Len(s) <= rsp
                 /\ Held(r.page, a, s)
                 /\ IF left # 0 THEN a + Len(s) < rsp /\ r.page[a + Len(s)] = 0
                    ELSE a + Len(s) = rsp

Laid(r, page, rsp, params, k) ==
  /\ DOMAIN r.page = PageBytes
  /\ r.rsp \in Nat /\ r.rsp <= rsp
  /\ rsp <= r.rsp + (Len(params) + 1 - k) * (MAX_ARGUMENT + 1)
  /\ r.to \in Seq(Nat) /\ Len(r.to) = Len(params) + 1 - k
  /\ \A j \in PageBytes : j < r.rsp \/ j >= rsp => r.page[j] = page[j]
  /\ IF k <= Len(params) THEN r.rsp < rsp /\ r.page[r.rsp] = 0 ELSE r.rsp = rsp
  /\ \A m \in k .. Len(params) :
       Stands(r, rsp, params[m], m + 1 - k, Len(params) - m)

\* One more string leaves those above it as they are.
LEMMA StandsStill ==
  ASSUME NEW r, NEW q, NEW rsp \in Nat, rsp < STACK_PAGE, NEW s, Len(s) \in Nat,
         NEW i \in Nat, NEW left, Stands(r, rsp, s, i, left),
         r.rsp \in Nat, q.rsp \in Nat, q.rsp <= r.rsp, q.to[i + 1] = r.to[i],
         \A j \in PageBytes : j >= r.rsp => q.page[j] = r.page[j]
  PROVE  Stands(q, rsp, s, i + 1, left)
<1>1. PICK a \in Nat :
        /\ r.to[i] = STACK_BASE + a /\ r.rsp < a /\ a + Len(s) <= rsp
        /\ Held(r.page, a, s)
        /\ IF left # 0 THEN a + Len(s) < rsp /\ r.page[a + Len(s)] = 0 ELSE a + Len(s) = rsp
  BY DEF Stands
<1>2. STACK_PAGE \in Nat
  BY StackIs
<1>3. PICK n \in Nat : n = Len(s)
  OBVIOUS
<1>4. Held(q.page, a, s)
  <2> SUFFICES ASSUME NEW j \in 1 .. n PROVE q.page[a + j - 1] = s[j]
    BY <1>3 DEF Held
  <2>1. a + j - 1 \in PageBytes /\ a + j - 1 >= r.rsp
    BY <1>1, <1>2, <1>3 DEF PageBytes
  <2>2. r.page[a + j - 1] = s[j]
    BY <1>1, <1>3 DEF Held
  <2>3. QED
    BY <2>1, <2>2
<1>5. q.page[a + n] = r.page[a + n]
  <2>1. a + n \in PageBytes /\ a + n >= r.rsp
    BY <1>1, <1>2, <1>3 DEF PageBytes
  <2>2. QED
    BY <2>1
<1>6. q.rsp < a
  BY <1>1
<1>7. QED
  BY <1>1, <1>3, <1>4, <1>5, <1>6 DEF Stands

\* Arguments as the run has them, of any number.
ArgString == {s \in CString : Len(s) <= MAX_ARGUMENT}

\* One more string below those from the next on.
LEMMA LaidStep ==
  ASSUME NEW page, NEW rsp \in Nat, rsp < STACK_PAGE,
         NEW params \in Seq(ArgString), Len(params) * (MAX_ARGUMENT + 1) <= rsp,
         NEW k \in 1 .. Len(params), NEW r, Laid(r, page, rsp, params, k + 1)
  PROVE  Laid(placed(params[k], r), page, rsp, params, k)
<1>1. PICK n \in Nat : n = Len(params)
  BY LenProperties
<1>2. PICK M \in Nat : M = MAX_ARGUMENT + 1
  BY StackIs
<1>3. PICK s \in CString, l \in Nat : s = params[k] /\ l = Len(s) /\ l + 1 <= M
  <2>1. params[k] \in CString /\ Len(params[k]) <= MAX_ARGUMENT
    BY <1>1, ElementOfSeq DEF ArgString
  <2>2. Len(params[k]) \in Nat
    BY <2>1, LenProperties DEF CString
  <2>3. Len(params[k]) + 1 <= M
    BY <1>2, <2>1, <2>2, StackIs
  <2>4. QED
    BY <2>1, <2>2, <2>3
<1>4. STACK_PAGE \in Nat /\ k \in 1 .. n
  BY <1>1, StackIs
<1>5. PICK d \in Nat : d < n /\ n + 1 - (k + 1) = d /\ n + 1 - k = d + 1
  <2>1. n - k \in Nat /\ n - k < n /\ n + 1 - (k + 1) = n - k /\ n + 1 - k = n - k + 1
    BY <1>4
  <2>2. QED
    BY <2>1
<1>6. PICK e \in Nat : e = d * M /\ (d + 1) * M = e + M /\ e + M <= rsp
  <2>1. d * M + M <= n * M /\ d * M \in Nat /\ n * M \in Nat
    BY <1>5, StackProducts
  <2>2. n * M <= rsp
    BY <1>1, <1>2
  <2>3. d * M + M <= rsp
    BY <2>1, <2>2
  <2>4. (d + 1) * M = d * M + M
    BY SMTT(30)
  <2>5. QED
    BY <2>1, <2>3, <2>4
<1>7. /\ DOMAIN r.page = PageBytes
      /\ r.rsp \in Nat /\ r.rsp <= rsp
      /\ rsp <= r.rsp + d * M
      /\ r.to \in Seq(Nat) /\ Len(r.to) = d
      /\ \A j \in PageBytes : j < r.rsp \/ j >= rsp => r.page[j] = page[j]
      /\ IF k + 1 <= n THEN r.rsp < rsp /\ r.page[r.rsp] = 0 ELSE r.rsp = rsp
      /\ \A m \in k + 1 .. n : Stands(r, rsp, params[m], m + 1 - (k + 1), n - m)
  <2>1. Laid(r, page, rsp, params, k + 1) /\ n = Len(params) /\ M = MAX_ARGUMENT + 1
    BY <1>1, <1>2
  <2>2. n + 1 - (k + 1) = d
    BY <1>5
  <2>3. QED
    BY <2>1, <2>2, Zenon DEF Laid
<1>8. PICK b \in Nat : b = r.rsp /\ b <= rsp /\ rsp <= b + e
  BY <1>6, <1>7
<1>9. l + 1 <= b /\ b <= STACK_PAGE
  BY <1>3, <1>4, <1>6, <1>8
<1>10. PICK q : q = placed(s, r)
  OBVIOUS
<1>11. PICK c \in Nat :
       /\ c = q.rsp /\ b = c + l + 1
       /\ DOMAIN q.page = PageBytes
       /\ q.page[c] = 0
       /\ Held(q.page, c + 1, s)
       /\ \A j \in PageBytes : j < c \/ j >= b => q.page[j] = r.page[j]
       /\ q.to \in Seq(Nat) /\ Len(q.to) = d + 1
       /\ q.to[1] = STACK_BASE + (c + 1)
       /\ \A i \in 2 .. d + 1 : q.to[i] = r.to[i - 1]
  <2>1. /\ DOMAIN q.page = PageBytes
        /\ q.rsp = r.rsp - Len(s) - 1 /\ q.rsp \in Nat
        /\ q.page[q.rsp] = 0
        /\ Held(q.page, q.rsp + 1, s)
        /\ \A j \in PageBytes : j < q.rsp \/ j >= r.rsp => q.page[j] = r.page[j]
        /\ q.to \in Seq(Nat) /\ Len(q.to) = Len(r.to) + 1
        /\ q.to[1] = STACK_BASE + (q.rsp + 1)
        /\ \A i \in 2 .. Len(r.to) + 1 : q.to[i] = r.to[i - 1]
    BY <1>3, <1>7, <1>8, <1>9, <1>10, PlacedIs
  <2>2. PICK c \in Nat : c = q.rsp
    BY <2>1
  <2>3. b = c + l + 1
    <3>1. c = r.rsp - Len(s) - 1
      BY <2>1, <2>2
    <3>2. c = b - l - 1
      BY <1>3, <1>8, <3>1
    <3>3. QED
      BY <3>2
  <2>4. Len(r.to) = d /\ r.rsp = b
    BY <1>7, <1>8
  <2>5. QED
    BY <2>1, <2>2, <2>3, <2>4
<1>12. c < rsp /\ rsp <= c + (e + M)
  <2>1. b = c + l + 1
    BY <1>11
  <2>2. l + 1 <= M
    BY <1>3
  <2>3. b <= rsp /\ rsp <= b + e
    BY <1>8
  <2>4. QED
    BY <2>1, <2>2, <2>3
<1>13. c < b /\ c <= b
  <2>1. b = c + l + 1
    BY <1>11
  <2>2. QED
    BY <2>1
<1>14. \A j \in PageBytes : j < c \/ j >= rsp => q.page[j] = page[j]
  <2> SUFFICES ASSUME NEW j \in PageBytes, j < c \/ j >= rsp PROVE q.page[j] = page[j]
    OBVIOUS
  <2>1. j \in Nat
    BY <1>4 DEF PageBytes
  <2>2. (j < c \/ j >= b) /\ (j < r.rsp \/ j >= rsp)
    BY <1>8, <1>13, <2>1
  <2>3. QED
    BY <1>7, <1>11, <2>2
<1>15. ASSUME NEW m \in k .. n
       PROVE  Stands(q, rsp, params[m], m + 1 - k, n - m)
  <2>1. CASE m = k
    <3>1. PICK a \in Nat : a = c + 1 /\ a + l = b
      BY <1>11
    <3>2. m + 1 - k = 1 /\ params[m] = s
      BY <1>3, <1>4, <2>1
    <3>3. q.to[1] = STACK_BASE + a /\ q.rsp < a /\ a + l <= rsp /\ Held(q.page, a, s)
      BY <1>8, <1>11, <3>1
    <3>4. IF n - m # 0 THEN a + l < rsp /\ q.page[a + l] = 0 ELSE a + l = rsp
      <4>1. CASE m < n
        <5>1. k + 1 <= n
          BY <1>4, <2>1, <4>1
        <5>2. b < rsp /\ r.page[b] = 0
          BY <1>7, <1>8, <5>1
        <5>3. b \in PageBytes
          BY <1>4, <5>2 DEF PageBytes
        <5>4. q.page[b] = 0
          <6>1. b >= b
            OBVIOUS
          <6>2. q.page[b] = r.page[b]
            BY <1>11, <5>3, <6>1
          <6>3. QED
            BY <5>2, <6>2
        <5>5. n - m # 0
          BY <1>4, <4>1
        <5>6. QED
          BY <3>1, <5>2, <5>4, <5>5
      <4>2. CASE ~(m < n)
        <5>1. ~(k + 1 <= n)
          BY <1>4, <2>1, <4>2
        <5>2. b = rsp
          BY <1>7, <1>8, <5>1
        <5>3. ~(n - m # 0)
          BY <1>4, <4>2
        <5>4. QED
          BY <3>1, <5>2, <5>3
      <4>3. QED
        BY <4>1, <4>2
    <3>5. QED
      BY <1>3, <3>2, <3>3, <3>4 DEF Stands
  <2>2. CASE m # k
    <3>1. PICK i \in Nat : /\ i + 1 = m + 1 - k /\ i = m + 1 - (k + 1)
                           /\ i + 1 \in 2 .. d + 1 /\ (i + 1) - 1 = i
      <4>1. m - k \in Nat /\ m - k >= 1 /\ m - k <= d
        BY <1>4, <1>5, <2>2
      <4>2. PICK i \in Nat : i = m - k
        BY <4>1
      <4>3. i + 1 = m + 1 - k /\ i = m + 1 - (k + 1) /\ (i + 1) - 1 = i
        BY <1>4, <4>2
      <4>4. i + 1 \in 2 .. d + 1
        BY <4>1, <4>2
      <4>5. QED
        BY <4>3, <4>4
    <3>2. Stands(r, rsp, params[m], i, n - m)
      <4>1. m \in k + 1 .. n
        BY <1>4, <2>2
      <4>2. QED
        BY <1>7, <3>1, <4>1
    <3>3. q.to[i + 1] = r.to[i]
      BY <1>11, <3>1
    <3>4. Len(params[m]) \in Nat
      <4>1. m \in 1 .. Len(params)
        BY <1>1, <1>4
      <4>2. params[m] \in CString
        BY <4>1, ElementOfSeq DEF ArgString
      <4>3. QED
        BY <4>2, LenProperties DEF CString
    <3>5. q.rsp \in Nat /\ q.rsp <= r.rsp
      <4>1. q.rsp = c /\ r.rsp = b
        BY <1>8, <1>11
      <4>2. QED
        BY <1>13, <4>1
    <3>6. \A j \in PageBytes : j >= r.rsp => q.page[j] = r.page[j]
      BY <1>8, <1>11
    <3>7. Stands(q, rsp, params[m], i + 1, n - m)
      BY <1>8, <3>2, <3>3, <3>4, <3>5, <3>6, StandsStill
    <3>8. QED
      BY <3>1, <3>7
  <2>3. QED
    BY <2>1, <2>2
<1>16. rsp <= q.rsp + (n + 1 - k) * (MAX_ARGUMENT + 1)
  <2>1. (n + 1 - k) * (MAX_ARGUMENT + 1) = e + M
    BY <1>2, <1>5, <1>6
  <2>2. QED
    BY <1>11, <1>12, <2>1
<1>17. Laid(q, page, rsp, params, k)
  <2>1. k <= n /\ Len(q.to) = n + 1 - k /\ q.rsp \in Nat /\ q.rsp <= rsp /\ q.rsp < rsp
        /\ q.page[q.rsp] = 0
    BY <1>4, <1>5, <1>11, <1>12
  <2>2. QED
    BY <1>1, <1>11, <1>14, <1>15, <1>16, <2>1, Zenon DEF Laid
<1>18. QED
  BY <1>3, <1>10, <1>17

\* All strings of an array.
LEMMA LaidAll ==
  ASSUME NEW page, DOMAIN page = PageBytes, NEW rsp \in Nat, rsp < STACK_PAGE,
         NEW params \in Seq(ArgString), Len(params) * (MAX_ARGUMENT + 1) <= rsp
  PROVE  Laid(set_params_to_stack(page, rsp, params), page, rsp, params, 1)
<1>1. PICK n \in Nat : n = Len(params)
  BY LenProperties
<1>2. PICK f : LaidBy(f, page, rsp, params) /\ set_params_to_stack(page, rsp, params) = f[1]
  BY <1>1, LaidIs
<1>3. \A k \in 1 .. n + 1 : f[k] = LaidItem(f, page, rsp, params, k)
  BY <1>1, <1>2 DEF LaidBy
<1> DEFINE S == {d \in Nat : d <= n => Laid(f[n + 1 - d], page, rsp, params, n + 1 - d)}
<1>4. 0 \in S
  <2>1. PICK r : r = [page |-> page, rsp |-> rsp, to |-> <<>>]
    OBVIOUS
  <2>2. f[n + 1] = r
    <3>1. n + 1 > Len(params) /\ n + 1 \in 1 .. n + 1
      BY <1>1
    <3>2. QED
      BY <1>3, <2>1, <3>1 DEF LaidItem
  <2>3. n + 1 - 0 = n + 1 /\ Len(params) + 1 - (n + 1) = 0 /\ ~(n + 1 <= Len(params))
        /\ 0 * (MAX_ARGUMENT + 1) = 0 /\ n + 1 .. Len(params) = {}
    BY <1>1, StackIs
  <2>4. /\ r.page = page /\ r.rsp = rsp /\ r.to = <<>> /\ <<>> \in Seq(Nat) /\ Len(<<>>) = 0
    BY <2>1, EmptySeq
  <2>5. Laid(r, page, rsp, params, n + 1)
    BY <2>3, <2>4 DEF Laid
  <2>6. QED
    BY <2>2, <2>3, <2>5
<1>5. ASSUME NEW d \in Nat, d \in S PROVE d + 1 \in S
  <2> SUFFICES ASSUME d + 1 <= n
               PROVE  Laid(f[n + 1 - (d + 1)], page, rsp, params, n + 1 - (d + 1))
    OBVIOUS
  <2>1. PICK k \in 1 .. n : k = n + 1 - (d + 1) /\ k + 1 = n + 1 - d /\ k \in 1 .. n + 1
    <3>1. n + 1 - (d + 1) \in 1 .. n
      OBVIOUS
    <3>2. QED
      BY <3>1
  <2>2. Laid(f[k + 1], page, rsp, params, k + 1)
    BY <1>5, <2>1
  <2>3. f[k] = placed(params[k], f[k + 1])
    <3>1. ~(k > Len(params))
      BY <1>1
    <3>2. QED
      BY <1>3, <2>1, <3>1 DEF LaidItem
  <2>4. Laid(f[k], page, rsp, params, k)
    BY <1>1, <2>2, <2>3, LaidStep
  <2>5. QED
    BY <2>1, <2>4
<1>6. n \in S
  <2> HIDE DEF S
  <2>1. QED
    BY <1>4, <1>5, SetInduction
<1>7. n + 1 - n = 1
  OBVIOUS
<1>8. QED
  BY <1>2, <1>6, <1>7

\* The words of the stack as bytes: the first byte of each holds its value.
WordBytes(ws, k) == FlattenSeq([i \in 1 .. k |-> word(ws[i])])

LEMMA WordIsSeq ==
  ASSUME NEW v \in Nat
  PROVE  word(v) \in Seq(Nat) /\ Len(word(v)) = WORD /\ word(v)[1] = v
<1>1. WORD \in Nat /\ 1 \in 1 .. WORD
  BY StackIs
<1>2. \A i \in 1 .. WORD : (IF i = 1 THEN v ELSE 0) \in Nat
  OBVIOUS
<1>3. word(v) = [i \in 1 .. WORD |-> IF i = 1 THEN v ELSE 0]
  BY DEF word
<1>4. [i \in 1 .. WORD |-> IF i = 1 THEN v ELSE 0] \in Seq(Nat)
  BY <1>1, <1>2, IsASeq
<1>5. DOMAIN word(v) = 1 .. WORD /\ word(v) \in Seq(Nat)
  BY <1>3, <1>4
<1>6. Len(word(v)) = WORD
  BY <1>1, <1>5, LenProperties
<1>7. word(v)[1] = v
  BY <1>1, <1>3
<1>8. QED
  BY <1>5, <1>6, <1>7

\* The value of each word is at its first byte.
LEMMA WordBytesAre ==
  ASSUME NEW ws \in Seq(Nat)
  PROVE  \A k \in Nat : k <= Len(ws) =>
           /\ WordBytes(ws, k) \in Seq(Nat) /\ Len(WordBytes(ws, k)) = k * WORD
           /\ \A i \in 1 .. k : WordBytes(ws, k)[(i - 1) * WORD + 1] = ws[i]
<1>1. Len(ws) \in Nat /\ WORD \in Nat /\ WORD > 0
      /\ \A i \in 1 .. Len(ws) : ws[i] \in Nat
  BY StackIs, LenProperties, ElementOfSeq
<1> DEFINE part(k) == [i \in 1 .. k |-> word(ws[i])]
           P(k) == /\ FlattenSeq(part(k)) \in Seq(Nat) /\ Len(FlattenSeq(part(k))) = k * WORD
                   /\ \A i \in 1 .. k : FlattenSeq(part(k))[(i - 1) * WORD + 1] = ws[i]
           S == {k \in Nat : k <= Len(ws) => P(k)}
<1>2. 0 \in S
  <2>1. part(0) = <<>>
    OBVIOUS
  <2>2. FlattenSeq(part(0)) = <<>>
    BY <2>1 DEF FlattenSeq
  <2>3. 0 * WORD = 0 /\ <<>> \in Seq(Nat) /\ Len(<<>>) = 0
    BY <1>1, EmptySeq
  <2> HIDE DEF part
  <2>4. FlattenSeq(part(0)) \in Seq(Nat) /\ Len(FlattenSeq(part(0))) = 0 * WORD
    BY <2>2, <2>3
  <2>5. \A i \in 1 .. 0 : FlattenSeq(part(0))[(i - 1) * WORD + 1] = ws[i]
    OBVIOUS
  <2>6. P(0)
    BY <2>4, <2>5
  <2>7. QED
    BY <2>6
<1>3. ASSUME NEW k \in Nat, k \in S PROVE k + 1 \in S
  <2> SUFFICES ASSUME k + 1 <= Len(ws) PROVE P(k + 1)
    OBVIOUS
  <2>1. P(k)
    BY <1>1, <1>3
  <2>2. PICK x \in Seq(Nat) : x = word(ws[k + 1]) /\ Len(x) = WORD /\ x[1] = ws[k + 1]
    <3>1. ws[k + 1] \in Nat
      BY <1>1
    <3>2. QED
      BY <3>1, WordIsSeq
  <2>3. part(k) \in Seq(Seq(Nat)) /\ Len(part(k)) = k
    <3>1. ASSUME NEW i \in 1 .. k PROVE word(ws[i]) \in Seq(Nat)
      <4>1. ws[i] \in Nat
        BY <1>1
      <4>2. QED
        BY <4>1, WordIsSeq
    <3>2. part(k) \in Seq(Seq(Nat))
      BY <3>1, IsASeq
    <3>3. QED
      BY <3>2, LenProperties
  <2>4. part(k + 1) = Append(part(k), x)
    <3>1. /\ Append(part(k), x) \in Seq(Seq(Nat)) /\ Len(Append(part(k), x)) = k + 1
          /\ Append(part(k), x)[k + 1] = x
          /\ \A i \in 1 .. k : Append(part(k), x)[i] = part(k)[i]
      <4> HIDE DEF part
      <4>1. PICK p \in Seq(Seq(Nat)) : p = part(k) /\ Len(p) = k
        BY <2>3
      <4>2. /\ Append(p, x) \in Seq(Seq(Nat)) /\ Len(Append(p, x)) = Len(p) + 1
            /\ Append(p, x)[Len(p) + 1] = x
            /\ \A i \in 1 .. Len(p) : Append(p, x)[i] = p[i]
        BY AppendProperties
      <4>3. QED
        BY <4>1, <4>2
    <3>2. PICK t \in Seq(Seq(Nat)) : t = Append(part(k), x) /\ Len(t) = k + 1 /\ t[k + 1] = x
                        /\ \A i \in 1 .. k : t[i] = part(k)[i]
      BY <3>1
    <3>3. t = [i \in 1 .. k + 1 |-> t[i]]
      BY <3>2, SeqDef, LenProperties
    <3>4. \A i \in 1 .. k + 1 : t[i] = word(ws[i])
      BY <2>2, <3>2
    <3>5. t = part(k + 1)
      BY <3>3, <3>4
    <3>6. QED
      BY <3>2, <3>5
  <2> HIDE DEF part
  <2>5. PICK f \in Seq(Nat) : f = FlattenSeq(part(k)) /\ Len(f) = k * WORD
                              /\ \A i \in 1 .. k : f[(i - 1) * WORD + 1] = ws[i]
    BY <2>1
  <2>6. FlattenSeq(part(k + 1)) = f \o x
    BY <2>2, <2>3, <2>4, <2>5, FlattenAppend
  <2>7. /\ f \o x \in Seq(Nat) /\ Len(f \o x) = Len(f) + Len(x)
        /\ \A i \in 1 .. Len(f) : (f \o x)[i] = f[i]
        /\ \A i \in 1 .. Len(x) : (f \o x)[Len(f) + i] = x[i]
    BY ConcatIs
  <2>8. Len(f \o x) = (k + 1) * WORD
    <3>1. (k + 1) * WORD = k * WORD + WORD
      BY <1>1, SMTT(30)
    <3>2. QED
      BY <2>2, <2>5, <2>7, <3>1
  <2>9. ASSUME NEW i \in 1 .. k + 1 PROVE (f \o x)[(i - 1) * WORD + 1] = ws[i]
    <3>1. CASE i = k + 1
      <4>1. (i - 1) * WORD + 1 = Len(f) + 1 /\ 1 \in 1 .. Len(x)
        BY <1>1, <2>2, <2>5, <3>1
      <4>2. QED
        BY <2>2, <2>7, <3>1, <4>1
    <3>2. CASE i # k + 1
      <4>1. PICK j \in Nat : j = i - 1 /\ j < k /\ i \in 1 .. k
        BY <3>2
      <4>2. j * WORD \in Nat /\ k * WORD \in Nat /\ j * WORD + WORD <= k * WORD
        BY <1>1, <4>1, StackProducts
      <4>3. j * WORD + 1 \in 1 .. Len(f)
        <5>1. PICK a \in Nat, b \in Nat : a = j * WORD /\ b = k * WORD /\ a + WORD <= b
          BY <4>2
        <5>2. a + 1 \in 1 .. b
          <6>1. PICK w \in Nat : w = WORD /\ w > 0
            BY StackIs
          <6>2. a + w <= b
            BY <5>1, <6>1
          <6>3. QED
            BY <6>1, <6>2
        <5>3. QED
          BY <2>5, <5>1, <5>2
      <4>4. QED
        BY <2>5, <2>7, <4>1, <4>3
    <3>3. QED
      BY <3>1, <3>2
  <2>10. QED
    BY <2>6, <2>7, <2>8, <2>9
<1>4. S = Nat
  <2>1. \A k \in Nat : k \in S
    <3> HIDE DEF S
    <3>1. QED
      BY <1>2, <1>3, SetInduction
  <2>2. QED
    BY <2>1
<1>5. QED
  BY <1>4 DEF WordBytes

\* argc, the pointers of argv up to a zero, those of envp up to a zero.
WordsOf(n, s, t) == <<n>> \o s \o <<0>> \o t \o <<0>>

AreWords(ws, n, s, t) ==
  /\ ws \in Seq(Nat) /\ Len(ws) = Len(s) + Len(t) + 3
  /\ ws[1] = n
  /\ \A i \in 1 .. Len(s) : ws[1 + i] = s[i]
  /\ ws[Len(s) + 2] = 0
  /\ \A i \in 1 .. Len(t) : ws[Len(s) + 2 + i] = t[i]
  /\ ws[Len(s) + Len(t) + 3] = 0

LEMMA StackWords ==
  ASSUME NEW n \in Nat, NEW s \in Seq(Nat), NEW t \in Seq(Nat)
  PROVE  AreWords(WordsOf(n, s, t), n, s, t)
<1>1. PICK l \in Nat, m \in Nat : l = Len(s) /\ m = Len(t)
  BY LenProperties
<1>2. PICK z \in Seq(Nat) : z = <<0>> /\ Len(z) = 1 /\ z[1] = 0
  <2>1. 0 \in Nat /\ <<0>> \in Seq(Nat) /\ Len(<<0>>) = 1 /\ <<0>>[1] = 0
    OBVIOUS
  <2>2. QED
    BY <2>1
<1>3. PICK a \in Seq(Nat) : /\ a = <<n>> \o s /\ Len(a) = l + 1 /\ a[1] = n
                            /\ \A i \in 2 .. l + 1 : a[i] = s[i - 1]
  <2>1. /\ <<n>> \o s \in Seq(Nat) /\ Len(<<n>> \o s) = Len(s) + 1
        /\ (<<n>> \o s)[1] = n
        /\ \A i \in 2 .. Len(s) + 1 : (<<n>> \o s)[i] = s[i - 1]
    BY PushIs
  <2>2. QED
    BY <1>1, <2>1
<1>4. PICK b \in Seq(Nat) : /\ b = a \o z /\ Len(b) = l + 2 /\ b[l + 2] = 0
                            /\ \A i \in 1 .. l + 1 : b[i] = a[i]
  <2>1. /\ a \o z \in Seq(Nat) /\ Len(a \o z) = Len(a) + Len(z)
        /\ \A i \in 1 .. Len(a) : (a \o z)[i] = a[i]
        /\ \A i \in 1 .. Len(z) : (a \o z)[Len(a) + i] = z[i]
    BY ConcatIs
  <2>2. Len(a) + Len(z) = l + 2 /\ Len(a) + 1 = l + 2 /\ 1 \in 1 .. Len(z)
    BY <1>2, <1>3
  <2>3. QED
    BY <1>2, <1>3, <2>1, <2>2
<1>5. PICK c \in Seq(Nat) : /\ c = b \o t /\ Len(c) = l + 2 + m
                            /\ \A i \in 1 .. l + 2 : c[i] = b[i]
                            /\ \A i \in 1 .. m : c[l + 2 + i] = t[i]
  <2>1. /\ b \o t \in Seq(Nat) /\ Len(b \o t) = Len(b) + Len(t)
        /\ \A i \in 1 .. Len(b) : (b \o t)[i] = b[i]
        /\ \A i \in 1 .. Len(t) : (b \o t)[Len(b) + i] = t[i]
    BY ConcatIs
  <2>2. Len(b) = l + 2 /\ Len(t) = m
    BY <1>1, <1>4
  <2>3. QED
    BY <2>1, <2>2
<1>6. PICK d \in Seq(Nat) : /\ d = c \o z /\ Len(d) = l + m + 3 /\ d[l + m + 3] = 0
                            /\ \A i \in 1 .. l + 2 + m : d[i] = c[i]
  <2>1. /\ c \o z \in Seq(Nat) /\ Len(c \o z) = Len(c) + Len(z)
        /\ \A i \in 1 .. Len(c) : (c \o z)[i] = c[i]
        /\ \A i \in 1 .. Len(z) : (c \o z)[Len(c) + i] = z[i]
    BY ConcatIs
  <2>2. Len(c) = l + 2 + m /\ Len(c) + Len(z) = l + m + 3 /\ Len(c) + 1 = l + m + 3
        /\ 1 \in 1 .. Len(z)
    BY <1>2, <1>5
  <2>3. (c \o z)[l + m + 3] = 0
    BY <1>2, <2>1, <2>2
  <2>4. QED
    BY <2>1, <2>2, <2>3
<1>7. d[1] = n
  <2>1. 1 \in 1 .. l + 1 /\ 1 \in 1 .. l + 2 /\ 1 \in 1 .. l + 2 + m
    OBVIOUS
  <2>2. QED
    BY <1>3, <1>4, <1>5, <1>6, <2>1
<1>8. ASSUME NEW i \in 1 .. l PROVE d[1 + i] = s[i]
  <2>1. /\ 1 + i \in 2 .. l + 1 /\ 1 + i \in 1 .. l + 1 /\ 1 + i \in 1 .. l + 2
        /\ 1 + i \in 1 .. l + 2 + m /\ (1 + i) - 1 = i
    OBVIOUS
  <2>2. QED
    BY <1>3, <1>4, <1>5, <1>6, <2>1
<1>9. d[l + 2] = 0
  <2>1. l + 2 \in 1 .. l + 2 /\ l + 2 \in 1 .. l + 2 + m
    OBVIOUS
  <2>2. QED
    BY <1>4, <1>5, <1>6, <2>1
<1>10. ASSUME NEW i \in 1 .. m PROVE d[l + 2 + i] = t[i]
  <2>1. l + 2 + i \in 1 .. l + 2 + m
    OBVIOUS
  <2>2. QED
    BY <1>5, <1>6, <2>1
<1>11. d = WordsOf(n, s, t)
  BY <1>2, <1>3, <1>4, <1>5, <1>6 DEF WordsOf
<1>12. AreWords(d, n, s, t)
  BY <1>1, <1>6, <1>7, <1>8, <1>9, <1>10 DEF AreWords
<1>13. QED
  BY <1>11, <1>12

\* An array of n pointers at byte i.
Pointers(page, i, n) ==
  /\ i \in Nat /\ n \in Nat
  /\ \A k \in 0 .. n : i + k * WORD \in PageBytes
  /\ \A k \in 0 .. n - 1 : page[i + k * WORD] # 0
  /\ page[i + n * WORD] = 0

StringsOf(page, i, n) == [k \in 1 .. n |-> string_at(page, page[i + (k - 1) * WORD])]

\* The pointers up to the first zero are followed.
LEMMA StringsFound ==
  ASSUME NEW page, DOMAIN page = PageBytes, NEW i, NEW n, Pointers(page, i, n)
  PROVE  strings_at(page, i) = StringsOf(page, i, n)
<1> DEFINE ends == {k \in DOMAIN page :
                      i + k * WORD \in DOMAIN page => page[i + k * WORD] = 0}
<1>1. i \in Nat /\ n \in Nat /\ STACK_PAGE \in Nat /\ WORD \in Nat /\ WORD > 0
  BY StackIs DEF Pointers
<1>2. n \in ends
  <2>1. i + n * WORD \in PageBytes /\ page[i + n * WORD] = 0
    BY <1>1 DEF Pointers
  <2>2. n * WORD \in Nat /\ n <= n * WORD
    <3>1. n * 1 <= n * WORD
      BY <1>1, SMTT(30)
    <3>2. QED
      BY <1>1, <3>1
  <2>3. n \in PageBytes
    <3>1. PICK a \in Nat : a = n * WORD /\ n <= a
      BY <2>2
    <3>2. i + a \in 0 .. STACK_PAGE - 1
      BY <2>1, <3>1 DEF PageBytes
    <3>3. n <= STACK_PAGE - 1
      BY <1>1, <3>1, <3>2
    <3>4. QED
      BY <1>1, <3>3 DEF PageBytes
  <2>4. QED
    BY <2>1, <2>3
<1>3. ASSUME NEW k \in ends PROVE n <= k
  <2>1. k \in Nat
    BY DEF PageBytes
  <2>2. CASE k < n
    <3>1. k \in 0 .. n - 1 /\ k \in 0 .. n
      BY <1>1, <2>1, <2>2
    <3>2. page[i + k * WORD] # 0 /\ i + k * WORD \in PageBytes
      BY <3>1 DEF Pointers
    <3>3. QED
      BY <1>3, <3>2
  <2>3. QED
    BY <1>1, <2>1, <2>2
<1>4. ends \in SUBSET Nat
  BY DEF PageBytes
<1>5. least(ends) = n
  <2> HIDE DEF ends
  <2>1. least(ends) \in ends /\ \A j \in ends : least(ends) <= j
    BY <1>2, <1>4, LeastIs
  <2>2. least(ends) \in Nat /\ least(ends) <= n /\ n <= least(ends)
    BY <1>2, <1>3, <1>4, <2>1
  <2>3. QED
    BY <1>1, <2>2
<1>6. strings_at(page, i)
        = [k \in 1 .. least(ends) |-> string_at(page, page[i + (k - 1) * WORD])]
  BY Zenon DEF strings_at
<1>7. QED
  BY <1>5, <1>6, Zenon DEF StringsOf

\* What is found where a string was put, when nothing above rsp has changed.
KeptAbove(page, p, rsp) ==
  DOMAIN page = PageBytes /\ \A j \in PageBytes : j > rsp => page[j] = p[j]

LEMMA HeldFound ==
  ASSUME NEW p, NEW rsp \in Nat, NEW a \in Nat, rsp < a, NEW s \in CString,
         Held(p, a, s), a + Len(s) \in PageBytes,
         NEW page, KeptAbove(page, p, rsp),
         page[a + Len(s)] = 0
  PROVE  string_at(page, STACK_BASE + a) = s
<1>1. PICK n \in Nat, sp \in Nat : n = Len(s) /\ sp = STACK_PAGE
  BY LenProperties, StackIs DEF CString
<1>2. Held(page, a, s)
  <2> SUFFICES ASSUME NEW j \in 1 .. n PROVE page[a + j - 1] = s[j]
    BY <1>1 DEF Held
  <2>1. a + j - 1 \in PageBytes /\ a + j - 1 > rsp
    BY <1>1 DEF PageBytes
  <2>2. p[a + j - 1] = s[j]
    BY <1>1 DEF Held
  <2>3. QED
    BY <2>1, <2>2 DEF KeptAbove
<1>3. QED
  BY <1>2, StringFound DEF KeptAbove

\* The strings of an array, the last one where there is a zero at its end.
LEMMA StandsFound ==
  ASSUME NEW r, NEW rsp \in PageBytes, NEW s \in CString, NEW i, NEW left,
         Stands(r, rsp, s, i, left), r.rsp \in Nat,
         NEW page, KeptAbove(page, r.page, r.rsp),
         left # 0 \/ page[rsp] = 0
  PROVE  string_at(page, r.to[i]) = s
<1>1. PICK a \in Nat :
        /\ r.to[i] = STACK_BASE + a /\ r.rsp < a /\ a + Len(s) <= rsp
        /\ Held(r.page, a, s)
        /\ IF left # 0 THEN a + Len(s) < rsp /\ r.page[a + Len(s)] = 0 ELSE a + Len(s) = rsp
  BY DEF Stands
<1>2. PICK l \in Nat : l = Len(s)
  BY LenProperties DEF CString
<1>3. STACK_PAGE \in Nat
  BY StackIs
<1>4. a + l \in PageBytes /\ a + l > r.rsp
  BY <1>1, <1>2, <1>3 DEF PageBytes
<1>5. page[a + l] = 0
  BY <1>1, <1>2, <1>4 DEF KeptAbove
<1>6. PICK p : p = r.page
  OBVIOUS
<1>7. PICK low \in Nat : low = r.rsp
  OBVIOUS
<1>8. string_at(page, STACK_BASE + a) = s
  <2>1. Held(p, a, s) /\ low < a /\ a + Len(s) \in PageBytes /\ page[a + Len(s)] = 0
        /\ KeptAbove(page, p, low)
    BY <1>1, <1>2, <1>4, <1>5, <1>6, <1>7
  <2>2. QED
    BY <2>1, HeldFound
<1>9. QED
  BY <1>1, <1>8

\* The words lie below the strings, from a multiple of a word on.
LEMMA WordsBelow ==
  ASSUME NEW rsp \in Nat, NEW n \in Nat, n * WORD + WORD <= rsp
  PROVE  LET low == (rsp \div WORD) * WORD - WORD * n
         IN low \in Nat /\ low + n * WORD <= rsp
<1>1. PICK w \in Nat : w = WORD /\ w > 0
  BY StackIs
<1>2. PICK top \in Nat : top = (rsp \div w) * w /\ top <= rsp /\ rsp < top + w
  <2>1. /\ (rsp \div w) * w \in Nat /\ (rsp \div w) * w <= rsp
        /\ rsp < (rsp \div w) * w + w
    BY <1>1, SMTT(30)
  <2>2. QED
    BY <2>1
<1>3. PICK a \in Nat : a = n * w /\ a = w * n
  <2>1. n * w \in Nat /\ n * w = w * n
    BY SMTT(30)
  <2>2. QED
    BY <2>1
<1>4. a + w <= rsp
  BY <1>1, <1>3
<1>5. top - a \in Nat /\ (top - a) + a <= rsp
  BY <1>2, <1>4
<1>6. QED
  BY <1>1, <1>2, <1>3, <1>5

\* Both arrays fit the page, and leave room for the words.
LEMMA StackRoom ==
  ASSUME NEW n \in 1 .. 2, NEW m \in 1 .. 2, NEW erp \in Nat, NEW arp \in Nat,
         STACK_PAGE - 1 <= erp + m * (MAX_ARGUMENT + 1)
  PROVE  /\ m * (MAX_ARGUMENT + 1) <= STACK_PAGE - 1 /\ STACK_PAGE - 1 \in Nat
         /\ n * (MAX_ARGUMENT + 1) <= erp
         /\ erp <= arp + n * (MAX_ARGUMENT + 1) => (n + m + 3) * WORD + WORD <= arp
<1>1. PICK M \in Nat, w \in Nat :
        M = MAX_ARGUMENT + 1 /\ w = WORD /\ w > 0 /\ 4 * M + 10 * w <= STACK_PAGE
  BY StackIs
<1>2. n * M <= 2 * M /\ m * M <= 2 * M /\ n * M \in Nat /\ m * M \in Nat
  <2>1. (n = 1 \/ n = 2) /\ (m = 1 \/ m = 2)
    OBVIOUS
  <2>2. 1 * M = M
    OBVIOUS
  <2>3. QED
    BY <2>1, <2>2
<1>3. (n + m + 3) * w + w <= 8 * w
  <2>1. n + m + 3 \in {5, 6, 7}
    OBVIOUS
  <2>2. 5 * w + w <= 8 * w /\ 6 * w + w <= 8 * w /\ 7 * w + w <= 8 * w
    OBVIOUS
  <2>3. QED
    BY <2>1, <2>2
<1>4. PICK a \in Nat, b \in Nat, c \in Nat :
        /\ a = n * M /\ b = m * M /\ a <= 2 * M /\ b <= 2 * M
        /\ c = (n + m + 3) * w + w /\ c <= 8 * w
  <2>1. (n + m + 3) * w + w \in Nat
    OBVIOUS
  <2>2. QED
    BY <1>2, <1>3, <2>1
<1>5. STACK_PAGE \in Nat /\ STACK_PAGE - 1 <= erp + b
  BY <1>1, <1>4, StackIs
<1>6. b <= STACK_PAGE - 1 /\ STACK_PAGE - 1 \in Nat /\ a <= erp
  BY <1>1, <1>4, <1>5
<1>7. erp <= arp + a => c <= arp
  BY <1>1, <1>4, <1>5
<1>8. QED
  BY <1>1, <1>4, <1>6, <1>7

\* Where the words of ws stand when they are put at byte low.
PutWords(page, low, ws) == put(page, low, FlattenSeq([k \in DOMAIN ws |-> word(ws[k])]))

HasWords(q, page, low, ws) ==
  /\ DOMAIN q = PageBytes
  /\ \A k \in Nat : k < Len(ws) =>
       low + k * WORD \in PageBytes /\ q[low + k * WORD] = ws[k + 1]
  /\ \A j \in PageBytes : j >= low + Len(ws) * WORD => q[j] = page[j]

\* Each word is found there, and nothing above has changed.
LEMMA WordsPut ==
  ASSUME NEW page, DOMAIN page = PageBytes, NEW ws \in Seq(Nat), NEW low \in Nat,
         low + Len(ws) * WORD <= STACK_PAGE
  PROVE  HasWords(PutWords(page, low, ws), page, low, ws)
<1>1. PICK l \in Nat : l = Len(ws) /\ DOMAIN ws = 1 .. l
  BY LenProperties
<1>2. PICK w \in Nat, sp \in Nat : w = WORD /\ w > 0 /\ sp = STACK_PAGE
  BY StackIs
<1>3. PICK f \in Seq(Nat) :
        /\ f = FlattenSeq([k \in DOMAIN ws |-> word(ws[k])]) /\ Len(f) = l * w
        /\ \A i \in 1 .. l : f[(i - 1) * w + 1] = ws[i]
  <2>1. /\ WordBytes(ws, l) \in Seq(Nat) /\ Len(WordBytes(ws, l)) = l * WORD
        /\ \A i \in 1 .. l : WordBytes(ws, l)[(i - 1) * WORD + 1] = ws[i]
    BY <1>1, WordBytesAre
  <2>2. WordBytes(ws, l) = FlattenSeq([k \in DOMAIN ws |-> word(ws[k])])
    BY <1>1 DEF WordBytes
  <2>3. QED
    BY <1>2, <2>1, <2>2
<1>4. PICK n \in Nat : n = l * w /\ Len(f) = n /\ low + n <= sp
  <2>1. l * w \in Nat
    BY SMTT(30)
  <2>2. QED
    BY <1>1, <1>2, <1>3, <2>1
<1>5. PICK q : q = put(page, low, f)
  OBVIOUS
<1>6. /\ DOMAIN q = PageBytes
      /\ \A j \in 1 .. n : q[low + j - 1] = f[j]
      /\ \A j \in PageBytes : j < low \/ j >= low + n => q[j] = page[j]
  <2>1. low + Len(f) <= STACK_PAGE
    BY <1>2, <1>4
  <2>2. /\ DOMAIN put(page, low, f) = PageBytes
        /\ \A j \in 1 .. Len(f) : put(page, low, f)[low + j - 1] = f[j]
        /\ \A j \in PageBytes : j < low \/ j >= low + Len(f) =>
             put(page, low, f)[j] = page[j]
    BY <2>1, PutIs
  <2>3. QED
    BY <1>4, <1>5, <2>2
<1>7. ASSUME NEW k \in Nat, k < l
      PROVE  low + k * w \in PageBytes /\ q[low + k * w] = ws[k + 1]
  <2>1. k * w \in Nat /\ k * w + w <= l * w
    BY <1>7, StackProducts
  <2>2. PICK a \in Nat : a = k * w /\ a + w <= n
    BY <1>4, <2>1
  <2>3. a + 1 \in 1 .. n /\ low + (a + 1) - 1 = low + a
    BY <1>2, <2>2
  <2>4. q[low + a] = f[a + 1]
    BY <1>6, <2>3
  <2>5. k + 1 \in 1 .. l /\ (k + 1) - 1 = k
    BY <1>7
  <2>6. f[a + 1] = ws[k + 1]
    BY <1>3, <2>2, <2>5
  <2>7. low + a \in 0 .. sp - 1
    <3>1. \A x, y, z \in Nat : x + y <= z /\ y > 0 => x + 1 <= z
      OBVIOUS
    <3>2. a + 1 <= n
      BY <1>2, <2>2, <3>1
    <3>3. low + n <= sp
      BY <1>4
    <3>4. QED
      BY <3>2, <3>3
  <2>8. QED
    BY <1>2, <2>2, <2>4, <2>6, <2>7 DEF PageBytes
<1>8. HasWords(q, page, low, ws)
  BY <1>1, <1>2, <1>4, <1>6, <1>7 DEF HasWords
<1>9. QED
  BY <1>3, <1>5, <1>8 DEF PutWords

\* What the strings of a whole array are.
WholeLaid(r, page, rsp, params, n) ==
  /\ DOMAIN r.page = PageBytes /\ r.rsp \in Nat /\ r.rsp < rsp
  /\ rsp <= r.rsp + n * (MAX_ARGUMENT + 1) /\ r.page[r.rsp] = 0
  /\ r.to \in Seq(Nat) /\ Len(r.to) = n
  /\ \A j \in PageBytes : j >= rsp => r.page[j] = page[j]
  /\ \A m \in 1 .. n : Stands(r, rsp, params[m], m, n - m)

LEMMA LaidWhole ==
  ASSUME NEW page, DOMAIN page = PageBytes, NEW rsp \in Nat, rsp < STACK_PAGE,
         NEW params \in Seq(ArgString), NEW n \in Nat, n = Len(params), n > 0,
         n * (MAX_ARGUMENT + 1) <= rsp
  PROVE  WholeLaid(set_params_to_stack(page, rsp, params), page, rsp, params, n)
<1>1. PICK r : r = set_params_to_stack(page, rsp, params)
  OBVIOUS
<1>2. Laid(r, page, rsp, params, 1)
  BY <1>1, LaidAll
<1>3. n + 1 - 1 = n /\ 1 <= n /\ \A m \in 1 .. n : m + 1 - 1 = m
  OBVIOUS
<1>4. /\ DOMAIN r.page = PageBytes /\ r.rsp \in Nat /\ r.rsp < rsp
      /\ rsp <= r.rsp + (n + 1 - 1) * (MAX_ARGUMENT + 1) /\ r.page[r.rsp] = 0
      /\ r.to \in Seq(Nat) /\ Len(r.to) = n + 1 - 1
      /\ \A j \in PageBytes : j < r.rsp \/ j >= rsp => r.page[j] = page[j]
      /\ \A m \in 1 .. n : Stands(r, rsp, params[m], m + 1 - 1, n - m)
  BY <1>2, <1>3, Zenon DEF Laid
<1>5. \A m \in 1 .. n : Stands(r, rsp, params[m], m, n - m)
  <2> SUFFICES ASSUME NEW m \in 1 .. n PROVE Stands(r, rsp, params[m], m, n - m)
    OBVIOUS
  <2>1. m + 1 - 1 = m
    OBVIOUS
  <2>2. QED
    BY <1>4, <2>1
<1>6. QED
  BY <1>1, <1>3, <1>4, <1>5 DEF WholeLaid

\* The stack of a program: strings, and below them argc and the pointers to
\* the strings.
Stacked(st, env, arg, frame, argv, envp, n, m) ==
  /\ DOMAIN st.page = PageBytes
  /\ env.rsp \in Nat /\ env.rsp < STACK_PAGE - 1
  /\ arg.rsp \in Nat /\ arg.rsp < env.rsp
  /\ \A j \in PageBytes : j > arg.rsp => st.page[j] = arg.page[j]
  /\ \A j \in PageBytes : j >= env.rsp => arg.page[j] = env.page[j]
  /\ env.page[env.rsp] = 0 /\ env.page[STACK_PAGE - 1] = frame[STACK_PAGE - 1]
  /\ Len(arg.to) = n /\ Len(env.to) = m
  /\ \A k \in 1 .. n : Stands(arg, env.rsp, argv[k], k, n - k)
  /\ \A k \in 1 .. m : Stands(env, STACK_PAGE - 1, envp[k], k, m - k)
  /\ st.rsp \in Nat /\ st.page[st.rsp] = n
  /\ \A k \in 0 .. n + m + 2 : st.rsp + k * WORD \in PageBytes
  /\ \A k \in 1 .. n : st.page[st.rsp + k * WORD] = arg.to[k]
  /\ st.page[st.rsp + (n + 1) * WORD] = 0
  /\ \A k \in 1 .. m : st.page[st.rsp + (n + 1 + k) * WORD] = env.to[k]
  /\ st.page[st.rsp + (n + m + 2) * WORD] = 0

\* new_stack builds such a stack: strings and words fit the page.
LEMMA NewStackIs ==
  ASSUME NEW frame, DOMAIN frame = PageBytes,
         NEW argv \in Seq(ArgString), NEW envp \in Seq(ArgString),
         NEW n \in 1 .. 2, NEW m \in 1 .. 2, n = Len(argv), m = Len(envp)
  PROVE  \E env, arg : Stacked(new_stack(frame, argv, envp), env, arg, frame, argv, envp, n, m)
<1>1. PICK M \in Nat, w \in Nat, sp \in Nat :
        /\ M = MAX_ARGUMENT + 1 /\ w = WORD /\ w > 0 /\ sp = STACK_PAGE - 1
        /\ m * M <= sp
  <2>1. MAX_ARGUMENT + 1 \in Nat /\ WORD \in Nat /\ WORD > 0
    BY StackIs
  <2>2. PICK sp \in Nat : sp = STACK_PAGE - 1 /\ STACK_PAGE \in Nat
    <3>1. 4 * (MAX_ARGUMENT + 1) + 10 * WORD <= STACK_PAGE
          /\ MAX_ARGUMENT \in Nat /\ STACK_PAGE \in Nat
      BY StackIs
    <3>2. STACK_PAGE - 1 \in Nat
      BY <2>1, <3>1
    <3>3. QED
      BY <3>1, <3>2
  <2>3. sp <= sp + m * (MAX_ARGUMENT + 1)
    <3>1. m * (MAX_ARGUMENT + 1) \in Nat
      BY <2>1, SMTT(30)
    <3>2. QED
      BY <3>1
  <2>4. m * (MAX_ARGUMENT + 1) <= sp
    BY <2>2, <2>3, StackRoom
  <2>5. QED
    BY <2>1, <2>2, <2>4
<1>2. PICK env : env = set_params_to_stack(frame, sp, envp)
  OBVIOUS
<1>3. /\ DOMAIN env.page = PageBytes /\ env.rsp \in Nat /\ env.rsp < sp
      /\ sp <= env.rsp + m * M /\ env.page[env.rsp] = 0
      /\ env.to \in Seq(Nat) /\ Len(env.to) = m
      /\ \A j \in PageBytes : j >= sp => env.page[j] = frame[j]
      /\ \A k \in 1 .. m : Stands(env, sp, envp[k], k, m - k)
  <2>1. sp < STACK_PAGE /\ m \in Nat /\ m > 0 /\ m * (MAX_ARGUMENT + 1) <= sp
    BY <1>1, StackIs
  <2>2. WholeLaid(env, frame, sp, envp, m)
    BY <1>2, <2>1, LaidWhole
  <2>3. QED
    BY <1>1, <2>2 DEF WholeLaid
<1>4. PICK arg : arg = set_params_to_stack(env.page, env.rsp, argv)
  OBVIOUS
<1>5. n * M <= env.rsp /\ \A a \in Nat : env.rsp <= a + n * M => (n + m + 3) * w + w <= a
  <2>1. STACK_PAGE - 1 <= env.rsp + m * (MAX_ARGUMENT + 1)
    BY <1>1, <1>3
  <2>2. ASSUME NEW a \in Nat
        PROVE  /\ n * (MAX_ARGUMENT + 1) <= env.rsp
               /\ env.rsp <= a + n * (MAX_ARGUMENT + 1) => (n + m + 3) * WORD + WORD <= a
    BY <1>3, <2>1, StackRoom
  <2>3. QED
    BY <1>1, <2>2
<1>6. /\ DOMAIN arg.page = PageBytes /\ arg.rsp \in Nat /\ arg.rsp < env.rsp
      /\ env.rsp <= arg.rsp + n * M /\ arg.page[arg.rsp] = 0
      /\ arg.to \in Seq(Nat) /\ Len(arg.to) = n
      /\ \A j \in PageBytes : j >= env.rsp => arg.page[j] = env.page[j]
      /\ \A k \in 1 .. n : Stands(arg, env.rsp, argv[k], k, n - k)
  <2>1. env.rsp < STACK_PAGE
    <3>1. PICK b \in Nat : b = env.rsp /\ b < sp
      BY <1>3
    <3>2. QED
      BY <1>1, <3>1, StackIs
  <2>2. n \in Nat /\ n > 0 /\ n * (MAX_ARGUMENT + 1) <= env.rsp
    <3>1. n * M <= env.rsp /\ M = MAX_ARGUMENT + 1
      BY <1>1, <1>5
    <3>2. n \in Nat /\ n > 0
      OBVIOUS
    <3>3. QED
      BY <3>1, <3>2
  <2>3. WholeLaid(arg, env.page, env.rsp, argv, n)
    BY <1>3, <1>4, <2>1, <2>2, LaidWhole
  <2>4. QED
    BY <1>1, <2>3 DEF WholeLaid
<1>7. PICK ws, l :
        /\ l \in Nat /\ ws = WordsOf(n, arg.to, env.to) /\ ws \in Seq(Nat) /\ l = Len(ws) /\ l = n + m + 3
        /\ ws[1] = n /\ ws[n + 2] = 0 /\ ws[n + m + 3] = 0
        /\ \A i \in 1 .. n : ws[1 + i] = arg.to[i]
        /\ \A i \in 1 .. m : ws[n + 2 + i] = env.to[i]
  <2>1. PICK ws : ws = WordsOf(n, arg.to, env.to) /\ AreWords(ws, n, arg.to, env.to)
    <3>1. n \in Nat /\ arg.to \in Seq(Nat) /\ env.to \in Seq(Nat)
      BY <1>3, <1>6
    <3>2. QED
      BY <3>1, StackWords
  <2>2. Len(arg.to) = n /\ Len(env.to) = m /\ n + m + 3 \in Nat
    BY <1>3, <1>6
  <2>3. /\ ws \in Seq(Nat) /\ Len(ws) = n + m + 3
        /\ ws[1] = n /\ ws[n + 2] = 0 /\ ws[n + m + 3] = 0
        /\ \A i \in 1 .. n : ws[1 + i] = arg.to[i]
        /\ \A i \in 1 .. m : ws[n + 2 + i] = env.to[i]
    BY <2>1, <2>2, Zenon DEF AreWords
  <2>4. PICK l \in Nat : l = n + m + 3
    BY <2>2
  <2>5. l = Len(ws)
    BY <2>3, <2>4
  <2>6. QED
    BY <2>1, <2>3, <2>4, <2>5, Zenon
<1>8. l * w + w <= arg.rsp
  BY <1>5, <1>6, <1>7
<1>9. PICK low \in Nat : low = (arg.rsp \div WORD) * WORD - WORD * l /\ low + l * WORD <= arg.rsp
  BY <1>1, <1>6, <1>7, <1>8, WordsBelow
<1>10. PICK st : st = new_stack(frame, argv, envp)
  OBVIOUS
<1>11. /\ st.rsp = low
       /\ st.page = put(arg.page, low, FlattenSeq([k \in DOMAIN ws |-> word(ws[k])]))
  <2>1. Len(argv) = n
    OBVIOUS
  <2>2. new_stack(frame, argv, envp)
          = [page |-> put(arg.page, (arg.rsp \div WORD) * WORD - WORD * Len(ws),
                          FlattenSeq([k \in DOMAIN ws |-> word(ws[k])])),
             rsp |-> (arg.rsp \div WORD) * WORD - WORD * Len(ws)]
    BY <1>1, <1>2, <1>4, <1>7, <2>1, Zenon DEF new_stack, WordsOf
  <2>3. (arg.rsp \div WORD) * WORD - WORD * Len(ws) = low
    BY <1>7, <1>9
  <2>4. st = [page |-> put(arg.page, low, FlattenSeq([k \in DOMAIN ws |-> word(ws[k])])),
              rsp |-> low]
    BY <1>10, <2>2, <2>3, Zenon
  <2>5. QED
    BY <2>4, Zenon
<1>12. /\ DOMAIN st.page = PageBytes
       /\ \A k \in Nat : k < l => low + k * w \in PageBytes /\ st.page[low + k * w] = ws[k + 1]
       /\ \A j \in PageBytes : j >= low + l * w => st.page[j] = arg.page[j]
  <2>1. low + Len(ws) * WORD <= STACK_PAGE
    <3>1. PICK a \in Nat, b \in Nat : a = l * WORD /\ b = arg.rsp /\ low + a <= b /\ b < sp
      <4>1. l * WORD \in Nat
        BY <1>1, <1>7, SMTT(30)
      <4>2. QED
        BY <1>3, <1>6, <1>9, <4>1
    <3>2. low + a <= STACK_PAGE
      BY <1>1, <3>1, StackIs
    <3>3. QED
      BY <1>7, <3>1, <3>2
  <2>2. DOMAIN arg.page = PageBytes /\ ws \in Seq(Nat)
    BY <1>6, <1>7
  <2>3. HasWords(PutWords(arg.page, low, ws), arg.page, low, ws)
    BY <2>1, <2>2, WordsPut
  <2>4. st.page = PutWords(arg.page, low, ws) /\ Len(ws) = l /\ WORD = w
    BY <1>1, <1>7, <1>11 DEF PutWords
  <2>5. QED
    BY <2>3, <2>4, Zenon DEF HasWords
<1>13. \A j \in PageBytes : j > arg.rsp => st.page[j] = arg.page[j]
  <2> SUFFICES ASSUME NEW j \in PageBytes, j > arg.rsp PROVE j >= low + l * w
    BY <1>12
  <2>1. PICK a \in Nat : a = l * w /\ low + a <= arg.rsp
    <3>1. l * w \in Nat
      BY <1>7, SMTT(30)
    <3>2. QED
      BY <1>1, <1>9, <3>1
  <2>2. j \in Nat
    BY StackIs DEF PageBytes
  <2>3. QED
    BY <1>6, <2>1, <2>2
<1>14. \A k \in 0 .. n + m + 2 : low + k * w \in PageBytes /\ st.page[low + k * w] = ws[k + 1]
  <2> SUFFICES ASSUME NEW k \in 0 .. n + m + 2
               PROVE  low + k * w \in PageBytes /\ st.page[low + k * w] = ws[k + 1]
    OBVIOUS
  <2>1. k \in Nat /\ k < l
    <3>1. l = n + m + 3
      BY <1>7
    <3>2. QED
      BY <3>1
  <2>2. QED
    BY <1>12, <2>1
<1>15. st.page[low] = n
  <2>1. 0 \in 0 .. n + m + 2 /\ low + 0 * w = low /\ 0 + 1 = 1
    OBVIOUS
  <2>2. QED
    BY <1>7, <1>14, <2>1
<1>16. ASSUME NEW k \in 1 .. n PROVE st.page[low + k * w] = arg.to[k]
  <2>1. k \in 0 .. n + m + 2 /\ k + 1 = 1 + k
    OBVIOUS
  <2>2. st.page[low + k * w] = ws[k + 1]
    BY <1>14, <2>1
  <2>3. QED
    BY <1>7, <2>1, <2>2
<1>17. st.page[low + (n + 1) * w] = 0
  <2>1. n + 1 \in 0 .. n + m + 2 /\ (n + 1) + 1 = n + 2
    OBVIOUS
  <2>2. QED
    BY <1>7, <1>14, <2>1
<1>18. ASSUME NEW k \in 1 .. m PROVE st.page[low + (n + 1 + k) * w] = env.to[k]
  <2>1. n + 1 + k \in 0 .. n + m + 2 /\ (n + 1 + k) + 1 = n + 2 + k
    OBVIOUS
  <2>2. st.page[low + (n + 1 + k) * w] = ws[(n + 1 + k) + 1]
    BY <1>14, <2>1
  <2>3. QED
    BY <1>7, <2>1, <2>2
<1>19. st.page[low + (n + m + 2) * w] = 0
  <2>1. n + m + 2 \in 0 .. n + m + 2 /\ (n + m + 2) + 1 = n + m + 3
    OBVIOUS
  <2>2. QED
    BY <1>7, <1>14, <2>1
<1>20. env.page[sp] = frame[sp]
  <2>1. sp \in PageBytes
    BY <1>1 DEF PageBytes
  <2>2. QED
    BY <1>3, <2>1
<1>21. Stacked(st, env, arg, frame, argv, envp, n, m)
  BY <1>1, <1>3, <1>6, <1>11, <1>12, <1>13, <1>14, <1>15, <1>16, <1>17, <1>18, <1>19,
     <1>20 DEF Stacked
<1>22. QED
  BY <1>10, <1>21

\* The k-th pointer of either array, counted in words from the stack pointer.
LEMMA StackSteps ==
  ASSUME NEW rsp \in Nat, NEW n \in Nat, NEW k \in Nat
  PROVE  /\ rsp + WORD + k * WORD = rsp + (k + 1) * WORD
         /\ rsp + WORD + WORD + WORD * n + k * WORD = rsp + (n + 2 + k) * WORD
<1>1. PICK w \in Nat : w = WORD
  BY StackIs
<1>2. (k + 1) * w = k * w + w
  BY SMTT(30)
<1>3. (n + 2 + k) * w = w * n + w + w + k * w
  BY SMTT(30)
<1>4. k * w \in Nat /\ w * n \in Nat
  BY SMTT(30)
<1>5. QED
  BY <1>1, <1>2, <1>3, <1>4

\* argv, as main finds it.
LEMMA ArgvFound ==
  ASSUME NEW argv \in Seq(ArgString), NEW envp \in Seq(ArgString),
         NEW n \in 1 .. 2, NEW m \in 1 .. 2, n = Len(argv), m = Len(envp),
         NEW frame, NEW st, NEW env, NEW arg,
         Stacked(st, env, arg, frame, argv, envp, n, m)
  PROVE  strings_at(st.page, st.rsp + WORD) = argv
<1>1. PICK low \in Nat, w \in Nat : low = st.rsp /\ w = WORD /\ w > 0
  BY StackIs DEF Stacked
<1>2. PICK page : page = st.page /\ DOMAIN page = PageBytes
  BY DEF Stacked
<1>3. /\ \A k \in 0 .. n + m + 2 : low + k * w \in PageBytes
      /\ \A k \in 1 .. n : page[low + k * w] = arg.to[k]
      /\ page[low + (n + 1) * w] = 0
  BY <1>1, <1>2, Zenon DEF Stacked
<1>4. ASSUME NEW k \in 1 .. n PROVE arg.to[k] # 0
  <2>1. Stands(arg, env.rsp, argv[k], k, n - k)
    BY DEF Stacked
  <2>2. PICK a \in Nat : arg.to[k] = STACK_BASE + a
    BY <2>1 DEF Stands
  <2>3. QED
    BY <2>2, StackIs
<1>5. \A k \in Nat : low + w + k * w = low + (k + 1) * w
  BY <1>1, StackSteps
<1>6. Pointers(page, low + w, n)
  <2>1. ASSUME NEW k \in 0 .. n PROVE low + w + k * w \in PageBytes
    <3>1. k \in Nat /\ k + 1 \in 0 .. n + m + 2
      OBVIOUS
    <3>2. QED
      BY <1>3, <1>5, <3>1
  <2>2. ASSUME NEW k \in 0 .. n - 1 PROVE page[low + w + k * w] # 0
    <3>1. k \in Nat /\ k + 1 \in 1 .. n
      OBVIOUS
    <3>2. page[low + (k + 1) * w] = arg.to[k + 1]
      BY <1>3, <3>1
    <3>3. QED
      BY <1>4, <1>5, <3>1, <3>2
  <2>3. page[low + w + n * w] = 0
    <3>1. n \in Nat
      OBVIOUS
    <3>2. QED
      BY <1>3, <1>5, <3>1
  <2>4. low + w \in Nat /\ n \in Nat
    OBVIOUS
  <2>5. QED
    BY <1>1, <2>1, <2>2, <2>3, <2>4 DEF Pointers
<1>7. strings_at(page, low + w)
        = [k \in 1 .. n |-> string_at(page, page[low + w + (k - 1) * w])]
  <2>1. strings_at(page, low + w) = StringsOf(page, low + w, n)
    BY <1>2, <1>6, StringsFound
  <2>2. QED
    BY <1>1, <2>1, Zenon DEF StringsOf
<1>8. page[env.rsp] = 0
  <2>1. env.rsp \in PageBytes
    <3>1. PICK b \in Nat : b = env.rsp /\ b < STACK_PAGE - 1
      BY DEF Stacked
    <3>2. QED
      BY <3>1, StackIs DEF PageBytes
  <2>2. env.rsp > arg.rsp /\ env.rsp >= env.rsp /\ env.page[env.rsp] = 0
    BY DEF Stacked
  <2>3. page[env.rsp] = arg.page[env.rsp] /\ arg.page[env.rsp] = env.page[env.rsp]
    BY <1>2, <2>1, <2>2 DEF Stacked
  <2>4. QED
    BY <2>2, <2>3
<1>9. ASSUME NEW k \in 1 .. n
      PROVE  string_at(page, page[low + w + (k - 1) * w]) = argv[k]
  <2>1. page[low + w + (k - 1) * w] = arg.to[k]
    <3>1. k - 1 \in Nat /\ (k - 1) + 1 = k
      OBVIOUS
    <3>2. QED
      BY <1>3, <1>5, <3>1
  <2>2. argv[k] \in CString
    BY ElementOfSeq DEF ArgString
  <2>3. /\ Stands(arg, env.rsp, argv[k], k, n - k) /\ arg.rsp \in Nat
        /\ KeptAbove(page, arg.page, arg.rsp)
    BY <1>2 DEF Stacked, KeptAbove
  <2>4. PICK b \in PageBytes : b = env.rsp
    <3>1. env.rsp \in Nat /\ env.rsp < STACK_PAGE - 1
      BY DEF Stacked
    <3>2. QED
      BY <3>1, StackIs DEF PageBytes
  <2>5. PICK s \in CString : s = argv[k]
    BY <2>2
  <2>6. string_at(page, arg.to[k]) = s
    <3>1. Stands(arg, b, s, k, n - k) /\ page[b] = 0
      BY <1>8, <2>3, <2>4, <2>5
    <3>2. QED
      BY <1>2, <2>3, <3>1, StandsFound
  <2>7. QED
    BY <2>1, <2>5, <2>6
<1>10. argv = [k \in 1 .. n |-> argv[k]]
  BY SeqDef, LenProperties
<1>11. strings_at(page, low + w) = argv
  BY <1>7, <1>9, <1>10
<1>12. QED
  BY <1>1, <1>2, <1>11

\* envp, too, except for the last string where the frame held no zero.
EnvpIs(e, envp, m, byte) ==
  Len(e) = m /\ \A k \in 1 .. m : k < m \/ byte = 0 => e[k] = envp[k]

LEMMA EnvpFound ==
  ASSUME NEW argv \in Seq(ArgString), NEW envp \in Seq(ArgString),
         NEW n \in 1 .. 2, NEW m \in 1 .. 2, n = Len(argv), m = Len(envp),
         NEW frame, NEW st, NEW env, NEW arg,
         Stacked(st, env, arg, frame, argv, envp, n, m)
  PROVE  EnvpIs(strings_at(st.page, st.rsp + WORD + WORD + WORD * n), envp, m,
                frame[STACK_PAGE - 1])
<1>1. PICK low \in Nat, w \in Nat : low = st.rsp /\ w = WORD /\ w > 0
  BY StackIs DEF Stacked
<1>2. PICK page : page = st.page /\ DOMAIN page = PageBytes
  BY DEF Stacked
<1>3. /\ \A k \in 0 .. n + m + 2 : low + k * w \in PageBytes
      /\ \A k \in 1 .. m : page[low + (n + 1 + k) * w] = env.to[k]
      /\ page[low + (n + m + 2) * w] = 0
  BY <1>1, <1>2, Zenon DEF Stacked
<1>4. ASSUME NEW k \in 1 .. m PROVE env.to[k] # 0
  <2>1. Stands(env, STACK_PAGE - 1, envp[k], k, m - k)
    BY DEF Stacked
  <2>2. PICK a \in Nat : env.to[k] = STACK_BASE + a
    BY <2>1 DEF Stands
  <2>3. QED
    BY <2>2, StackIs
<1>5. PICK i \in Nat : i = low + w + w + w * n
  <2>1. w * n \in Nat
    BY SMTT(30)
  <2>2. QED
    BY <2>1
<1>6. \A k \in Nat : i + k * w = low + (n + 2 + k) * w
  BY <1>1, <1>5, StackSteps
<1>7. Pointers(page, i, m)
  <2>1. ASSUME NEW k \in 0 .. m PROVE i + k * w \in PageBytes
    <3>1. k \in Nat /\ n + 2 + k \in 0 .. n + m + 2
      OBVIOUS
    <3>2. QED
      BY <1>3, <1>6, <3>1
  <2>2. ASSUME NEW k \in 0 .. m - 1 PROVE page[i + k * w] # 0
    <3>1. k \in Nat /\ k + 1 \in 1 .. m /\ n + 1 + (k + 1) = n + 2 + k
      OBVIOUS
    <3>2. page[low + (n + 1 + (k + 1)) * w] = env.to[k + 1]
      BY <1>3, <3>1
    <3>3. QED
      BY <1>4, <1>6, <3>1, <3>2
  <2>3. page[i + m * w] = 0
    <3>1. m \in Nat /\ n + 2 + m = n + m + 2
      OBVIOUS
    <3>2. QED
      BY <1>3, <1>6, <3>1
  <2>4. m \in Nat
    OBVIOUS
  <2>5. QED
    BY <1>1, <2>1, <2>2, <2>3, <2>4 DEF Pointers
<1>8. strings_at(page, i) = [k \in 1 .. m |-> string_at(page, page[i + (k - 1) * w])]
  <2>1. strings_at(page, i) = StringsOf(page, i, m)
    BY <1>2, <1>7, StringsFound
  <2>2. QED
    BY <1>1, <2>1, Zenon DEF StringsOf
<1>9. PICK b \in PageBytes : b = STACK_PAGE - 1
  <2>1. STACK_PAGE \in Nat /\ env.rsp \in Nat /\ env.rsp < STACK_PAGE - 1
    BY StackIs DEF Stacked
  <2>2. QED
    BY <2>1 DEF PageBytes
<1>10. KeptAbove(page, env.page, env.rsp)
  <2> SUFFICES ASSUME NEW j \in PageBytes, j > env.rsp PROVE page[j] = env.page[j]
    BY <1>2 DEF KeptAbove
  <2>1. env.rsp \in Nat /\ arg.rsp \in Nat /\ arg.rsp < env.rsp /\ j \in Nat
    BY StackIs DEF Stacked, PageBytes
  <2>2. j > arg.rsp /\ j >= env.rsp
    BY <2>1
  <2>3. QED
    BY <1>2, <2>2 DEF Stacked
<1>11. page[b] = frame[STACK_PAGE - 1]
  <2>1. b > env.rsp
    BY <1>9 DEF Stacked
  <2>2. env.page[STACK_PAGE - 1] = frame[STACK_PAGE - 1]
    BY DEF Stacked
  <2>3. QED
    BY <1>9, <1>10, <2>1, <2>2 DEF KeptAbove
<1>12. ASSUME NEW k \in 1 .. m, k < m \/ frame[STACK_PAGE - 1] = 0
       PROVE  string_at(page, page[i + (k - 1) * w]) = envp[k]
  <2>1. page[i + (k - 1) * w] = env.to[k]
    <3>1. k - 1 \in Nat /\ n + 2 + (k - 1) = n + 1 + k
      OBVIOUS
    <3>2. QED
      BY <1>3, <1>6, <3>1
  <2>2. envp[k] \in CString
    BY ElementOfSeq DEF ArgString
  <2>3. Stands(env, b, envp[k], k, m - k) /\ env.rsp \in Nat
    BY <1>9 DEF Stacked
  <2>4. m - k # 0 \/ page[b] = 0
    BY <1>11, <1>12
  <2>5. PICK s \in CString : s = envp[k]
    BY <2>2
  <2>6. string_at(page, env.to[k]) = s
    <3>1. Stands(env, b, s, k, m - k)
      BY <2>3, <2>5
    <3>2. QED
      BY <1>10, <2>3, <2>4, <3>1, StandsFound
  <2>7. QED
    BY <2>1, <2>5, <2>6
<1>13. PICK e : e = strings_at(page, i)
  OBVIOUS
<1>14. Len(e) = m
  <2>1. m \in Nat
    OBVIOUS
  <2>2. PICK g : e = [k \in 1 .. m |-> g[k]]
    <3>1. e = [k \in 1 .. m |-> e[k]]
      BY <1>8, <1>13
    <3>2. QED
      BY <3>1
  <2>3. QED
    BY <2>1, <2>2
<1>15. EnvpIs(e, envp, m, frame[STACK_PAGE - 1])
  BY <1>8, <1>12, <1>13, <1>14 DEF EnvpIs
<1>16. QED
  BY <1>1, <1>2, <1>5, <1>13, <1>15

\* The arguments of a call.
LEMMA ArraysAre ==
  ASSUME NEW a \in Arrays
  PROVE  a \in Seq(ArgString) /\ \E n \in 1 .. 2 : n = Len(a)
<1>1. PICK n \in 1 .. 2 : a \in [1 .. n -> Arguments]
  BY DEF Arrays
<1>2. ASSUME NEW s \in Arguments PROVE s \in ArgString
  <2>1. PICK l \in 0 .. MAX_ARGUMENT : s = [i \in 1 .. l |-> i]
    BY DEF Arguments
  <2>2. l \in Nat /\ l <= MAX_ARGUMENT
    BY <2>1, StackIs
  <2>3. s \in CString
    <3>1. \A i \in 1 .. l : i \in Nat \ {0}
      BY <2>2
    <3>2. [i \in 1 .. l |-> i] \in Seq(Nat \ {0})
      BY <2>2, <3>1, IsASeq
    <3>3. QED
      BY <2>1, <3>2 DEF CString
  <2>4. Len(s) = l
    <3>1. DOMAIN s = 1 .. l /\ s \in Seq(Nat \ {0})
      BY <2>1, <2>3 DEF CString
    <3>2. QED
      BY <2>2, <3>1, LenProperties
  <2>5. QED
    BY <2>2, <2>3, <2>4 DEF ArgString
<1>3. a \in Seq(ArgString)
  <2>1. DOMAIN a = 1 .. n /\ \A i \in 1 .. n : a[i] \in ArgString
    BY <1>1, <1>2
  <2>2. a \in [1 .. n -> ArgString]
    BY <1>1, <2>1
  <2>3. n \in Nat
    OBVIOUS
  <2>4. QED
    BY <2>2, <2>3, SeqDef
<1>4. Len(a) = n
  <2>1. DOMAIN a = 1 .. n /\ n \in Nat
    BY <1>1
  <2>2. QED
    BY <1>3, <2>1, LenProperties
<1>5. QED
  BY <1>3, <1>4

\* What main finds.
Arrives(out, argv, envp, n) ==
  /\ out.argc = Len(argv) /\ out.argv = argv /\ Len(out.envp) = Len(envp)
  /\ \A k \in 1 .. n : out.envp[k] = envp[k]

LEMMA StackFound ==
  ASSUME NEW argv \in Seq(ArgString), NEW envp \in Seq(ArgString),
         NEW n \in 1 .. 2, NEW m \in 1 .. 2, n = Len(argv), m = Len(envp),
         NEW frame, NEW st, NEW env, NEW arg,
         Stacked(st, env, arg, frame, argv, envp, n, m)
  PROVE  /\ Arrives(_start(st.page, st.rsp), argv, envp, m - 1)
         /\ frame[STACK_PAGE - 1] = 0 => Arrives(_start(st.page, st.rsp), argv, envp, m)
<1>1. st.page[st.rsp] = n
  BY DEF Stacked
<1>2. strings_at(st.page, st.rsp + WORD) = argv
  BY ArgvFound
<1>3. PICK e : /\ e = strings_at(st.page, st.rsp + WORD + WORD + WORD * n)
               /\ EnvpIs(e, envp, m, frame[STACK_PAGE - 1])
  BY EnvpFound
<1>4. _start(st.page, st.rsp) = [argc |-> n, argv |-> argv, envp |-> e]
  BY <1>1, <1>2, <1>3, Zenon DEF _start
<1>5. PICK out : /\ out = _start(st.page, st.rsp)
                 /\ out.argc = n /\ out.argv = argv /\ out.envp = e
  BY <1>4
<1>6. Arrives(out, argv, envp, m - 1)
  <2>1. \A k \in 1 .. m - 1 : k \in 1 .. m /\ k < m
    OBVIOUS
  <2>2. QED
    BY <1>3, <1>5, <2>1 DEF Arrives, EnvpIs
<1>7. frame[STACK_PAGE - 1] = 0 => Arrives(out, argv, envp, m)
  BY <1>3, <1>5 DEF Arrives, EnvpIs
<1>8. QED
  BY <1>5, <1>6, <1>7

LEMMA StackArrives ==
  ASSUME NEW frame, DOMAIN frame = PageBytes,
         NEW argv \in Seq(ArgString), NEW envp \in Seq(ArgString),
         NEW n \in 1 .. 2, NEW m \in 1 .. 2, n = Len(argv), m = Len(envp),
         NEW st, st = new_stack(frame, argv, envp)
  PROVE  /\ Arrives(_start(st.page, st.rsp), argv, envp, m - 1)
         /\ frame[STACK_PAGE - 1] = 0 => Arrives(_start(st.page, st.rsp), argv, envp, m)
<1>1. PICK env, arg : Stacked(st, env, arg, frame, argv, envp, n, m)
  BY NewStackIs
<1>2. QED
  BY <1>1, StackFound

LEMMA PassesStep ==
  ASSUME passes PROVE ArgumentsArrive'
<1>1. PICK argv \in Arrays, envp \in Arrays, junk \in {0, 9} :
        call' = [fn |-> "execve", args |-> <<argv, envp, junk>>,
                 out |-> _start(new_stack([i \in 0 .. STACK_PAGE - 1 |-> junk], argv, envp).page,
                                new_stack([i \in 0 .. STACK_PAGE - 1 |-> junk], argv, envp).rsp)]
  BY DEF passes, computes, returned
<1>2. PICK frame : frame = [i \in 0 .. STACK_PAGE - 1 |-> junk]
  OBVIOUS
<1>3. PICK st : st = new_stack(frame, argv, envp)
  OBVIOUS
<1>4. PICK out : out = _start(st.page, st.rsp)
  OBVIOUS
<1>5. call' = [fn |-> "execve", args |-> <<argv, envp, junk>>, out |-> out]
  BY <1>1, <1>2, <1>3, <1>4, Zenon
<1>6. DOMAIN frame = PageBytes /\ frame[STACK_PAGE - 1] = junk
  <2>1. STACK_PAGE - 1 \in 0 .. STACK_PAGE - 1
    <3>1. PICK M \in Nat, w \in Nat, sp \in Nat :
            M = MAX_ARGUMENT + 1 /\ w = WORD /\ w > 0 /\ sp = STACK_PAGE /\ 4 * M + 10 * w <= sp
      BY StackIs
    <3>2. QED
      BY <3>1
  <2>2. QED
    BY <1>2, <2>1 DEF PageBytes
<1>7. PICK m : /\ m = Len(envp)
               /\ Arrives(out, argv, envp, m - 1)
               /\ junk = 0 => Arrives(out, argv, envp, m)
  <2>1. /\ argv \in Seq(ArgString) /\ \E n \in 1 .. 2 : n = Len(argv)
        /\ envp \in Seq(ArgString) /\ \E n \in 1 .. 2 : n = Len(envp)
    BY ArraysAre
  <2>2. PICK n \in 1 .. 2, m \in 1 .. 2 : n = Len(argv) /\ m = Len(envp)
    BY <2>1
  <2>3. QED
    BY <1>3, <1>4, <1>6, <2>1, <2>2, StackArrives
<1>8. /\ call'.args[1] = argv /\ call'.args[2] = envp /\ call'.args[3] = junk
      /\ call'.out = out
  BY <1>5
<1>9. Arrives(out, argv, envp, IF junk = 0 THEN Len(envp) ELSE Len(envp) - 1)
  BY <1>7
<1>10. QED
  BY <1>8, <1>9 DEF ArgumentsArrive, Arrives

\* What is no execve.
LEMMA OtherThanExec ==
  ASSUME call'.fn # "execve"
  PROVE  ArgumentsArrive'
BY DEF ArgumentsArrive, Called

\* The strings that execve puts on the new stack, and the pointers to them
\* below, are found by the first instructions of the program as they were
\* given, for arguments of any length with which the page has room.
THEOREM ArgumentsAlwaysArrive == Spec => []ArgumentsArrive
<1>1. Init => ArgumentsArrive
  BY DEF Init, ArgumentsArrive, Called, Idle
<1>2. ArgumentsArrive /\ [Next]_vars => ArgumentsArrive'
  <2> SUFFICES ASSUME ArgumentsArrive, [Next]_vars PROVE ArgumentsArrive'
    OBVIOUS
  <2>1. CASE passes
    BY <2>1, PassesStep
  <2>2. CASE UNCHANGED call
    BY <2>2 DEF ArgumentsArrive, Called
  <2> DEFINE Other == call'.fn # "execve"
  <2>3. returns => Other
    BY DEF returns, Idle
  <2>4. compares => Other
    BY Computed DEF compares
  <2>5. searches => Other
    BY Computed DEF searches
  <2>6. splits => Other
    BY Computed DEF splits
  <2>7. runs_script => Other
    BY Computed DEF runs_script
  <2>8. prints => Other
    BY Computed DEF prints
  <2>9. prints_hex => Other
    BY Computed DEF prints_hex
  <2>10. converts => Other
    BY Computed DEF converts
  <2>11. measures => Other
    BY Computed DEF measures
  <2>12. walks => Other
    BY Computed DEF walks
  <2>13. scans => Other
    BY DEF scans, returned
  <2>14. opens => Other
    BY DEF opens, returned
  <2>15. reads => Other
    BY DEF reads, returned
  <2>16. malloc => Other
    BY DEF malloc, returned
  <2>17. passes \/ UNCHANGED call \/ Other
    BY <2>3, <2>4, <2>5, <2>6, <2>7, <2>8, <2>9, <2>10, <2>11, <2>12, <2>13, <2>14, <2>15,
       <2>16 DEF Next, vars, do_execv
  <2>18. QED
    BY <2>1, <2>2, <2>17, OtherThanExec
<1>3. QED
  BY <1>1, <1>2, PTL DEF Spec
=============================================================================
