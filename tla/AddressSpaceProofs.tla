------------------------- MODULE AddressSpaceProofs -------------------------
(***************************************************************************)
(* Proofs about AddressSpace, for every value of its constants: reference  *)
(* counts and copy-on-write, that frames last, and that AddressSpace       *)
(* implements PrivateMemory.                                               *)
(*                                                                         *)
(* The invariant is stated of a memory m = [pte, content, ref_count,       *)
(* taken], so that there is one lemma for each function on memories, and a *)
(* call that makes several steps is their composition.                     *)
(***************************************************************************)
EXTENDS AddressSpace, FiniteSetTheorems, TLAPS

\* Enough frames for the bounds on processes and calls of execve.  (That they
\* are enough is proved.)
FramesLast == NFRAMES >= NPROC + MAX_EXECS

MemoryType ==
  [pte : [Processes -> [Pages -> Entry]],
   content : [Frames -> Contents],
   ref_count : [Frames -> -1 .. NPROC - 1],
   taken : [Pages -> 0 .. NFRAMES]]

\* What m has of a page of a process: whether it is present, writable, marked
\* by fork, and its frame; of a frame: its count and contents; and the number
\* of frames taken for a page.
Has(m, p, v)      == m.pte[p][v].p
Writable(m, p, v) == m.pte[p][v].w
Marked(m, p, v)   == m.pte[p][v].cow
FrameOf(m, p, v)  == m.pte[p][v].frame
Count(m, f)       == m.ref_count[f]
Held(m, f)        == m.content[f]
Taken(m, v)       == m.taken[v]

\* The users of frame i of page v, and the processes that have the page.
UsersIn(m, v, i) == {p \in Processes : Has(m, p, v) /\ FrameOf(m, p, v) = <<v, i>>}
Present(m, v)    == {p \in Processes : Has(m, p, v)}

\* What the kernel counts for a page: a pair for each frame taken for it, and
\* one more for each time that it has been shared.
Claims(m, v) ==
  {c \in (1 .. NFRAMES) \X (0 .. NPROC - 1) :
     c[1] <= Taken(m, v) /\ c[2] <= Count(m, <<v, c[1]>>)}

\* A page that is present has a frame that has been taken for it.
EntriesPlaced(m) ==
  \A p \in Processes, v \in Pages :
    /\ Has(m, p, v) => \E i \in 1 .. NFRAMES :
                         i <= Taken(m, v) /\ FrameOf(m, p, v) = <<v, i>>
    /\ Writable(m, p, v) => Has(m, p, v)

\* The count of a frame that has been taken covers its users.
Counted(m, v, i) ==
  /\ Count(m, <<v, i>>) >= 0
  /\ Cardinality(UsersIn(m, v, i)) <= Count(m, <<v, i>>) + 1

Untouched(m, v, i) ==
  Count(m, <<v, i>>) = -1 /\ Held(m, <<v, i>>) = holds("junk")

FramesCounted(m) ==
  \A v \in Pages, i \in 1 .. NFRAMES :
    IF i <= Taken(m, v) THEN Counted(m, v, i) ELSE Untouched(m, v, i)

\* What is not writable bears the mark of fork.
EntriesMarked(m) ==
  \A p \in Processes, v \in Pages :
    Has(m, p, v) => Writable(m, p, v) \/ Marked(m, p, v)

WritersAlone(m) ==
  \A p, q \in Processes, v \in Pages :
    /\ Writable(m, p, v) /\ Has(m, q, v)
    /\ FrameOf(m, q, v) = FrameOf(m, p, v)
    => q = p

Sound(m) ==
  /\ m \in MemoryType
  /\ EntriesPlaced(m)
  /\ FramesCounted(m)
  /\ EntriesMarked(m)
  /\ WritersAlone(m)

Live == {p \in Processes : state[p] = "live"}

ProcessesSound ==
  /\ state \in [Processes -> {"unborn", "live"}]
  /\ global_PML4 \in Live
  /\ heap \subseteq Live
  /\ execs \in 0 .. MAX_EXECS
  /\ \A p \in Live, v \in DOMAIN Loaded : Has(Memory, p, v)
  /\ \A p \in Processes \ Live, v \in Pages : ~Has(Memory, p, v)

\* Each claim to a frame stems from a process that has the page, or from one
\* of e calls of execve, which left a frame behind.
Accounted(m, v, e) ==
  Cardinality(Claims(m, v)) <= Cardinality(Present(m, v)) + e

FramesAccounted ==
  /\ \A f \in Frames : Count(Memory, f) < Cardinality(Live)
  /\ \A v \in Pages : Accounted(Memory, v, execs)

MemoryInv == Sound(Memory) /\ ProcessesSound /\ FramesAccounted
----------------------------------------------------------------------------
(* Frames and sets of processes.                                           *)

\* Frames are named for the page they are taken for.
LEMMA FrameNames ==
  ASSUME NEW v \in Pages, NEW i \in 1 .. NFRAMES
  PROVE  <<v, i>> \in Frames /\ <<v, i>> # NoFrame
BY MemoryAssumption DEF Frames, NoFrame

LEMMA SubsetSize ==
  ASSUME NEW T, IsFiniteSet(T), NEW S, S \subseteq T
  PROVE  /\ IsFiniteSet(S) /\ Cardinality(S) <= Cardinality(T)
         /\ Cardinality(S) \in Nat /\ Cardinality(T) \in Nat
<1>1. S \in SUBSET T
  OBVIOUS
<1>2. QED
  BY <1>1, FS_Subset, FS_CardinalityType

LEMMA OneMore ==
  ASSUME NEW T, IsFiniteSet(T), NEW x, NEW S, S \subseteq T \cup {x}
  PROVE  /\ IsFiniteSet(S) /\ Cardinality(S) <= Cardinality(T) + 1
         /\ Cardinality(S) \in Nat /\ Cardinality(T) \in Nat
<1>1. Cardinality(T) \in Nat
  BY FS_CardinalityType
<1>2. IsFiniteSet(T \cup {x}) /\ Cardinality(T \cup {x}) <= Cardinality(T) + 1
  BY <1>1, FS_AddElement
<1>3. QED
  BY <1>1, <1>2, SubsetSize

LEMMA ProcessesFinite ==
  ASSUME NEW S \in SUBSET Processes
  PROVE  /\ IsFiniteSet(S) /\ Cardinality(S) \in Nat
         /\ Cardinality(S) <= NPROC
<1>1. IsFiniteSet(Processes) /\ Cardinality(Processes) = NPROC
  BY FS_Interval, MemoryAssumption DEF Processes
<1>2. IsFiniteSet(S) /\ Cardinality(S) <= Cardinality(Processes)
  BY <1>1, FS_Subset
<1>3. QED
  BY <1>1, <1>2, FS_CardinalityType

LEMMA UsersFinite ==
  ASSUME NEW m, NEW v, NEW i
  PROVE  /\ UsersIn(m, v, i) \in SUBSET Processes
         /\ IsFiniteSet(UsersIn(m, v, i)) /\ Cardinality(UsersIn(m, v, i)) \in Nat
<1>1. UsersIn(m, v, i) \in SUBSET Processes
  BY DEF UsersIn
<1>2. QED
  BY <1>1, ProcessesFinite

LEMMA ClaimsFinite ==
  ASSUME NEW m, NEW v
  PROVE  IsFiniteSet(Claims(m, v)) /\ Cardinality(Claims(m, v)) \in Nat
<1>1. IsFiniteSet(1 .. NFRAMES) /\ IsFiniteSet(0 .. NPROC - 1)
  BY FS_Interval, MemoryAssumption
<1>2. IsFiniteSet((1 .. NFRAMES) \X (0 .. NPROC - 1))
  BY <1>1, FS_Product
<1>3. Claims(m, v) \in SUBSET ((1 .. NFRAMES) \X (0 .. NPROC - 1))
  BY DEF Claims
<1>4. QED
  BY <1>2, <1>3, FS_Subset, FS_CardinalityType

LEMMA MemoryTypes ==
  ASSUME NEW m \in MemoryType
  PROVE  /\ m.pte \in [Processes -> [Pages -> Entry]]
         /\ m.content \in [Frames -> Contents]
         /\ m.ref_count \in [Frames -> -1 .. NPROC - 1]
         /\ m.taken \in [Pages -> 0 .. NFRAMES]
         /\ \A v \in Pages : Taken(m, v) \in Nat /\ Taken(m, v) <= NFRAMES
         /\ \A f \in Frames : Count(m, f) \in Int
BY MemoryAssumption DEF MemoryType, Taken, Count
----------------------------------------------------------------------------
(* A new frame.                                                            *)

NextFrame(m, v) == <<v, Taken(m, v) + 1>>

\* n is m after p has got a new frame for v: its own before, if any, has been
\* given up for a copy, or has been left behind.
SameEntry(m, n, p, v) ==
  /\ Has(n, p, v) <=> Has(m, p, v)
  /\ Writable(n, p, v) <=> Writable(m, p, v)
  /\ Marked(n, p, v) <=> Marked(m, p, v)
  /\ FrameOf(n, p, v) = FrameOf(m, p, v)

GivesUp(m, n, p, v, f) ==
  /\ Has(m, p, v) /\ FrameOf(m, p, v) = f
  /\ Count(m, f) > 0 /\ Count(n, f) = Count(m, f) - 1

GetsFrame(m, n, p, v) ==
  /\ n \in MemoryType
  /\ Taken(m, v) < NFRAMES /\ Taken(n, v) = Taken(m, v) + 1
  /\ \A w \in Pages \ {v} : Taken(n, w) = Taken(m, w)
  /\ Has(n, p, v) /\ Writable(n, p, v) /\ FrameOf(n, p, v) = NextFrame(m, v)
  /\ \A q \in Processes, w \in Pages : q # p \/ w # v => SameEntry(m, n, q, w)
  /\ Count(n, NextFrame(m, v)) = 0
  /\ \A f \in Frames \ {NextFrame(m, v)} :
       /\ Held(n, f) = Held(m, f)
       /\ Count(n, f) = Count(m, f) \/ GivesUp(m, n, p, v, f)

\* The frame a page has, as one of those taken for it.
LEMMA TakenFrames ==
  ASSUME NEW m, Sound(m), NEW p \in Processes, NEW v \in Pages, Has(m, p, v)
  PROVE  \E i \in 1 .. NFRAMES :
           /\ FrameOf(m, p, v) = <<v, i>> /\ i <= Taken(m, v)
           /\ <<v, i>> # NextFrame(m, v)
<1>1. Taken(m, v) \in Nat
  BY MemoryTypes DEF Sound
<1>2. PICK i \in 1 .. NFRAMES : i <= Taken(m, v) /\ FrameOf(m, p, v) = <<v, i>>
  BY DEF Sound, EntriesPlaced
<1>3. i # Taken(m, v) + 1
  BY <1>1, <1>2
<1>4. QED
  BY <1>2, <1>3 DEF NextFrame

\* The frames but the new one.
LEMMA OtherFrames ==
  ASSUME NEW m, NEW n, NEW p \in Processes, NEW v \in Pages,
         Sound(m), GetsFrame(m, n, p, v),
         NEW w \in Pages, NEW i \in 1 .. NFRAMES, <<w, i>> # NextFrame(m, v)
  PROVE  /\ <<w, i>> \in Frames
         /\ Held(n, <<w, i>>) = Held(m, <<w, i>>)
         /\ \/ Count(n, <<w, i>>) = Count(m, <<w, i>>)
            \/ w = v /\ i <= Taken(m, v) /\ GivesUp(m, n, p, v, <<w, i>>)
         /\ i <= Taken(n, w) <=> i <= Taken(m, w)
<1>1. <<w, i>> \in Frames
  BY FrameNames
<1>2. Held(n, <<w, i>>) = Held(m, <<w, i>>)
  BY <1>1 DEF GetsFrame
<1>3. \/ Count(n, <<w, i>>) = Count(m, <<w, i>>)
      \/ GivesUp(m, n, p, v, <<w, i>>)
  BY <1>1 DEF GetsFrame
<1>4. GivesUp(m, n, p, v, <<w, i>>) => w = v /\ i <= Taken(m, v)
  BY TakenFrames DEF GivesUp
<1>5. i <= Taken(n, w) <=> i <= Taken(m, w)
  <2>1. CASE w = v
    <3>1. i # Taken(m, v) + 1
      BY <2>1 DEF NextFrame
    <3>2. Taken(m, v) \in Nat /\ Taken(n, v) = Taken(m, v) + 1
      BY MemoryTypes DEF Sound, GetsFrame
    <3>3. QED
      BY <2>1, <3>1, <3>2
  <2>2. CASE w # v
    BY <2>2 DEF GetsFrame
  <2>3. QED
    BY <2>1, <2>2
<1>6. QED
  BY <1>1, <1>2, <1>3, <1>4, <1>5

\* The new frame has one user, who no longer uses the one it had.
LEMMA NewFrameUsers ==
  ASSUME NEW m, NEW n, NEW p \in Processes, NEW v \in Pages,
         Sound(m), GetsFrame(m, n, p, v)
  PROVE  UsersIn(n, v, Taken(m, v) + 1) = {p}
<1>1. \A q \in Processes : ~(Has(m, q, v) /\ FrameOf(m, q, v) = NextFrame(m, v))
  BY TakenFrames
<1>2. \A q \in Processes :
        Has(n, q, v) /\ FrameOf(n, q, v) = NextFrame(m, v) <=> q = p
  BY <1>1 DEF GetsFrame, SameEntry
<1>3. QED
  BY <1>2 DEF UsersIn, NextFrame

LEMMA OtherUsers ==
  ASSUME NEW m, NEW n, NEW p \in Processes, NEW v \in Pages,
         Sound(m), GetsFrame(m, n, p, v),
         NEW w \in Pages, NEW i \in 1 .. NFRAMES, <<w, i>> # NextFrame(m, v)
  PROVE  UsersIn(n, w, i) = UsersIn(m, w, i) \ (IF w = v THEN {p} ELSE {})
<1>1. CASE w = v
  BY <1>1 DEF UsersIn, GetsFrame, SameEntry
<1>2. CASE w # v
  BY <1>2 DEF UsersIn, GetsFrame, SameEntry
<1>3. QED
  BY <1>1, <1>2

LEMMA NewFrameSound ==
  ASSUME NEW m, NEW n, NEW p \in Processes, NEW v \in Pages,
         Sound(m), GetsFrame(m, n, p, v)
  PROVE  Sound(n)
<1>1. /\ \A w \in Pages : Taken(m, w) \in Nat /\ Taken(n, w) \in Nat
      /\ Taken(m, v) + 1 \in 1 .. NFRAMES
      /\ m \in MemoryType /\ n \in MemoryType
  BY MemoryTypes, MemoryAssumption DEF Sound, GetsFrame
<1>2. EntriesPlaced(n)
  <2> SUFFICES ASSUME NEW q \in Processes, NEW w \in Pages
               PROVE  /\ Has(n, q, w) => \E i \in 1 .. NFRAMES :
                           i <= Taken(n, w) /\ FrameOf(n, q, w) = <<w, i>>
                      /\ Writable(n, q, w) => Has(n, q, w)
    BY DEF EntriesPlaced
  <2>1. CASE q = p /\ w = v
    BY <1>1, <2>1 DEF GetsFrame, NextFrame
  <2>2. CASE q # p \/ w # v
    <3>1. SameEntry(m, n, q, w) /\ Taken(m, w) <= Taken(n, w)
      BY <1>1, <2>2 DEF GetsFrame
    <3>2. /\ Has(m, q, w) => \E i \in 1 .. NFRAMES :
                           i <= Taken(m, w) /\ FrameOf(m, q, w) = <<w, i>>
          /\ Writable(m, q, w) => Has(m, q, w)
      BY DEF Sound, EntriesPlaced
    <3>3. QED
      BY <1>1, <3>1, <3>2 DEF SameEntry
  <2>3. QED
    BY <2>1, <2>2
<1>3. EntriesMarked(n)
  <2> SUFFICES ASSUME NEW q \in Processes, NEW w \in Pages, Has(n, q, w)
               PROVE  Writable(n, q, w) \/ Marked(n, q, w)
    BY DEF EntriesMarked
  <2>1. CASE q = p /\ w = v
    BY <2>1 DEF GetsFrame
  <2>2. CASE q # p \/ w # v
    BY <2>2 DEF GetsFrame, SameEntry, Sound, EntriesMarked
  <2>3. QED
    BY <2>1, <2>2
<1>4. FramesCounted(n)
  <2> SUFFICES ASSUME NEW w \in Pages, NEW i \in 1 .. NFRAMES
               PROVE  IF i <= Taken(n, w) THEN Counted(n, w, i)
                      ELSE Untouched(n, w, i)
    BY DEF FramesCounted
  <2>1. CASE <<w, i>> = NextFrame(m, v)
    <3>1. w = v /\ i = Taken(m, v) + 1
      BY <2>1 DEF NextFrame
    <3>2. Cardinality(UsersIn(n, w, i)) = 1
      <4>1. UsersIn(n, w, i) = {p}
        BY <3>1, NewFrameUsers
      <4>2. QED
        BY <4>1, FS_Singleton
    <3>3. Count(n, <<w, i>>) = 0 /\ i <= Taken(n, w)
      BY <1>1, <2>1, <3>1 DEF GetsFrame
    <3>4. QED
      BY <3>2, <3>3 DEF Counted
  <2>2. CASE <<w, i>> # NextFrame(m, v)
    <3>1. IF i <= Taken(m, w) THEN Counted(m, w, i) ELSE Untouched(m, w, i)
      BY DEF Sound, FramesCounted
    <3>2. /\ Held(n, <<w, i>>) = Held(m, <<w, i>>)
          /\ \/ Count(n, <<w, i>>) = Count(m, <<w, i>>)
             \/ w = v /\ i <= Taken(m, v) /\ GivesUp(m, n, p, v, <<w, i>>)
          /\ i <= Taken(n, w) <=> i <= Taken(m, w)
      BY <2>2, OtherFrames
    <3>3. UsersIn(n, w, i) = UsersIn(m, w, i) \ (IF w = v THEN {p} ELSE {})
      BY <2>2, OtherUsers
    <3>4. Count(m, <<w, i>>) \in Int /\ Count(n, <<w, i>>) \in Int
      BY <1>1, FrameNames, MemoryTypes
    <3>5. /\ Cardinality(UsersIn(n, w, i)) <= Cardinality(UsersIn(m, w, i))
          /\ Cardinality(UsersIn(n, w, i)) \in Nat
          /\ Cardinality(UsersIn(m, w, i)) \in Nat
      BY <3>3, UsersFinite, SubsetSize
    <3>6. CASE Count(n, <<w, i>>) = Count(m, <<w, i>>)
      BY <3>1, <3>2, <3>4, <3>5, <3>6 DEF Counted, Untouched
    <3>7. CASE w = v /\ i <= Taken(m, v) /\ GivesUp(m, n, p, v, <<w, i>>)
      <4>1. p \in UsersIn(m, w, i)
        BY <3>7 DEF UsersIn, GivesUp
      <4>2. Cardinality(UsersIn(n, w, i)) = Cardinality(UsersIn(m, w, i)) - 1
        <5>1. UsersIn(n, w, i) = UsersIn(m, w, i) \ {p}
          BY <3>3, <3>7
        <5>2. IsFiniteSet(UsersIn(m, w, i))
          BY UsersFinite
        <5>3. QED
          BY <4>1, <5>1, <5>2, FS_RemoveElement
      <4>3. QED
        BY <3>1, <3>2, <3>4, <3>5, <3>7, <4>2 DEF Counted, GivesUp
    <3>8. QED
      BY <3>2, <3>6, <3>7
  <2>3. QED
    BY <2>1, <2>2
<1>5. WritersAlone(n)
  <2> SUFFICES ASSUME NEW q \in Processes, NEW r \in Processes, NEW w \in Pages,
                      Writable(n, q, w), Has(n, r, w),
                      FrameOf(n, r, w) = FrameOf(n, q, w)
               PROVE  r = q
    BY DEF WritersAlone
  <2>1. \A x \in Processes : Has(n, x, w) /\ ~(x = p /\ w = v) =>
          /\ Has(m, x, w) /\ FrameOf(m, x, w) = FrameOf(n, x, w)
          /\ Writable(n, x, w) <=> Writable(m, x, w)
    BY DEF GetsFrame, SameEntry
  <2>2. Has(n, q, w)
    BY <1>2 DEF EntriesPlaced
  <2>3. w = v => \A x \in Processes : Has(m, x, w) => FrameOf(m, x, w) # NextFrame(m, v)
    BY TakenFrames
  <2>4. FrameOf(n, p, v) = NextFrame(m, v)
    BY DEF GetsFrame
  <2>5. QED
    BY <2>1, <2>2, <2>3, <2>4 DEF Sound, WritersAlone
<1>6. QED
  BY <1>1, <1>2, <1>3, <1>4, <1>5 DEF Sound

\* A new frame adds a claim; a copy gives one up for it.
LEMMA NewFrameClaims ==
  ASSUME NEW m, NEW n, NEW p \in Processes, NEW v \in Pages,
         Sound(m), GetsFrame(m, n, p, v)
  PROVE  /\ \A w \in Pages \ {v} : /\ Claims(n, w) = Claims(m, w)
                                   /\ Present(n, w) = Present(m, w)
         /\ Present(n, v) = Present(m, v) \cup {p}
         /\ Cardinality(Claims(n, v)) <= Cardinality(Claims(m, v)) + 1
         /\ \A f \in Frames \ {NextFrame(m, v)} : GivesUp(m, n, p, v, f) =>
              Cardinality(Claims(n, v)) <= Cardinality(Claims(m, v))
<1> DEFINE new == <<Taken(m, v) + 1, 0>>
<1>1. /\ \A w \in Pages : Taken(m, w) \in Nat /\ Taken(n, w) \in Nat
      /\ m \in MemoryType /\ n \in MemoryType
  BY MemoryTypes DEF Sound, GetsFrame
<1>2. ASSUME NEW w \in Pages \ {v}
      PROVE  Claims(n, w) = Claims(m, w) /\ Present(n, w) = Present(m, w)
  <2>1. Taken(n, w) = Taken(m, w)
    BY DEF GetsFrame
  <2>2. \A i \in 1 .. NFRAMES : Count(n, <<w, i>>) = Count(m, <<w, i>>)
    BY OtherFrames DEF NextFrame
  <2>3. QED
    BY <2>1, <2>2 DEF Claims, Present, GetsFrame, SameEntry
<1>3. Present(n, v) = Present(m, v) \cup {p}
  BY DEF Present, GetsFrame, SameEntry
<1>4. ASSUME NEW i \in 1 .. NFRAMES, NEW j \in 0 .. NPROC - 1,
             <<i, j>> \in Claims(n, v), <<i, j>> # new
      PROVE  <<i, j>> \in Claims(m, v) /\ j <= Count(n, <<v, i>>)
  <2>1. i <= Taken(n, v) /\ j <= Count(n, <<v, i>>)
    BY <1>4 DEF Claims
  <2>2. <<v, i>> # NextFrame(m, v)
    <3> SUFFICES ASSUME i = Taken(m, v) + 1 PROVE FALSE
      BY DEF NextFrame
    <3>1. Count(n, <<v, i>>) = 0
      BY DEF GetsFrame, NextFrame
    <3>2. j = 0
      BY <2>1, <3>1
    <3>3. QED
      BY <3>2, <1>4
  <2>3. Count(n, <<v, i>>) \in Int /\ Count(m, <<v, i>>) \in Int
    BY <1>1, FrameNames, MemoryTypes
  <2>4. i <= Taken(m, v) /\ Count(n, <<v, i>>) <= Count(m, <<v, i>>)
    BY <2>1, <2>2, <2>3, OtherFrames DEF GivesUp
  <2>5. j <= Count(m, <<v, i>>)
    BY <2>1, <2>3, <2>4
  <2>6. QED
    BY <2>1, <2>4, <2>5 DEF Claims
<1>5. Claims(n, v) \subseteq Claims(m, v) \cup {new}
  <2> SUFFICES ASSUME NEW c \in Claims(n, v), c # new PROVE c \in Claims(m, v)
    OBVIOUS
  <2>1. PICK i \in 1 .. NFRAMES, j \in 0 .. NPROC - 1 : c = <<i, j>>
    BY DEF Claims
  <2>2. QED
    BY <1>4, <2>1
<1>6. Cardinality(Claims(n, v)) <= Cardinality(Claims(m, v)) + 1
  BY <1>5, ClaimsFinite, OneMore
<1>7. ASSUME NEW f \in Frames \ {NextFrame(m, v)}, GivesUp(m, n, p, v, f)
      PROVE  Cardinality(Claims(n, v)) <= Cardinality(Claims(m, v))
  <2>1. PICK i \in 1 .. NFRAMES : f = <<v, i>> /\ i <= Taken(m, v)
    BY <1>7, TakenFrames DEF GivesUp
  <2> DEFINE gone == <<i, Count(m, f)>>
             left == Claims(m, v) \ {gone}
  <2>2. Count(m, f) \in -1 .. NPROC - 1 /\ Count(n, f) \in -1 .. NPROC - 1
    BY <1>1, MemoryTypes DEF Count
  <2>3. gone \in Claims(m, v)
    BY <1>7, <2>1, <2>2, MemoryAssumption DEF Claims, GivesUp
  <2>4. gone \notin Claims(n, v)
    BY <1>7, <2>1, <2>2, MemoryAssumption DEF Claims, GivesUp
  <2>5. Claims(n, v) \subseteq left \cup {new}
    BY <2>4, <1>5
  <2>6. IsFiniteSet(left) /\ Cardinality(left) = Cardinality(Claims(m, v)) - 1
    BY <2>3, ClaimsFinite, FS_RemoveElement
  <2>7. Cardinality(Claims(n, v)) <= Cardinality(left) + 1
    BY <2>5, <2>6, OneMore
  <2>8. QED
    BY <2>6, <2>7, ClaimsFinite
<1>8. QED
  BY <1>2, <1>3, <1>6, <1>7
----------------------------------------------------------------------------
(* The functions on memories.                                              *)

LEMMA MapNewGets ==
  ASSUME NEW m, Sound(m), NEW p \in Processes, NEW v \in Pages,
         Taken(m, v) < NFRAMES
  PROVE  LET n == map_new(m, p, v)
         IN  /\ GetsFrame(m, n, p, v)
             /\ \A f \in Frames : Held(n, f) = Held(m, f)
             /\ \A f \in Frames \ {NextFrame(m, v)} : Count(n, f) = Count(m, f)
<1> DEFINE f == NextFrame(m, v)
           n == [pte |-> [m.pte EXCEPT ![p][v] = mapped(f)],
                 content |-> m.content,
                 ref_count |-> [m.ref_count EXCEPT ![f] = 0],
                 taken |-> [m.taken EXCEPT ![v] = @ + 1]]
<1>1. /\ m \in MemoryType /\ Taken(m, v) + 1 \in 1 .. NFRAMES
      /\ f \in Frames /\ f # NoFrame
  <2>1. m \in MemoryType /\ Taken(m, v) \in Nat
    BY MemoryTypes DEF Sound
  <2>2. Taken(m, v) + 1 \in 1 .. NFRAMES
    BY <2>1, MemoryAssumption
  <2>3. QED
    BY <2>1, <2>2, FrameNames DEF NextFrame
<1>2. map_new(m, p, v) = n
  BY <1>1 DEF map_new, new_frame, NextFrame, MemoryType, Taken
<1>3. n \in MemoryType
  <2>1. mapped(f) \in Entry
    BY <1>1 DEF mapped, Entry
  <2>2. m.taken[v] + 1 \in 0 .. NFRAMES
    BY <1>1 DEF Taken
  <2>3. 0 \in -1 .. NPROC - 1
    BY MemoryAssumption
  <2>4. QED
    BY <1>1, <2>1, <2>2, <2>3 DEF MemoryType
<1>4. /\ Taken(n, v) = Taken(m, v) + 1
      /\ \A w \in Pages \ {v} : Taken(n, w) = Taken(m, w)
  BY <1>1 DEF MemoryType, Taken
<1>5. /\ Has(n, p, v) /\ Writable(n, p, v) /\ FrameOf(n, p, v) = f
      /\ \A q \in Processes, w \in Pages :
           q # p \/ w # v => SameEntry(m, n, q, w)
  <2>1. /\ n.pte[p][v] = mapped(f)
        /\ \A q \in Processes, w \in Pages :
             q # p \/ w # v => n.pte[q][w] = m.pte[q][w]
    BY <1>1 DEF MemoryType
  <2>2. QED
    BY <2>1 DEF Has, Writable, Marked, FrameOf, SameEntry, mapped
<1>6. /\ Count(n, f) = 0
      /\ \A g \in Frames \ {f} : Count(n, g) = Count(m, g)
      /\ \A g \in Frames : Held(n, g) = Held(m, g)
  BY <1>1 DEF MemoryType, Count, Held
<1>7. QED
  BY <1>2, <1>3, <1>4, <1>5, <1>6 DEF GetsFrame

\* A page that is shared has a copy of what it held.
LEMMA CopiedGets ==
  ASSUME NEW m, Sound(m), NEW p \in Processes, NEW v \in Pages,
         Taken(m, v) < NFRAMES, Has(m, p, v), Count(m, FrameOf(m, p, v)) # 0
  PROVE  LET n == copied(m, p, v)
         IN  /\ GetsFrame(m, n, p, v)
             /\ GivesUp(m, n, p, v, FrameOf(m, p, v))
             /\ Held(n, NextFrame(m, v)) = Held(m, FrameOf(m, p, v))
             /\ \A g \in Frames \ {FrameOf(m, p, v), NextFrame(m, v)} :
                  Count(n, g) = Count(m, g)
<1> DEFINE f   == NextFrame(m, v)
           old == FrameOf(m, p, v)
           m1  == map_new(m, p, v)
           n   == [m1 EXCEPT !.content[f] = m.content[old],
                             !.ref_count[old] = @ - 1]
<1>1. /\ m \in MemoryType /\ Taken(m, v) + 1 \in 1 .. NFRAMES
      /\ f \in Frames /\ f # NoFrame
  <2>1. m \in MemoryType /\ Taken(m, v) \in Nat
    BY MemoryTypes DEF Sound
  <2>2. Taken(m, v) + 1 \in 1 .. NFRAMES
    BY <2>1, MemoryAssumption
  <2>3. QED
    BY <2>1, <2>2, FrameNames DEF NextFrame
<1>2. /\ GetsFrame(m, m1, p, v) /\ m1 \in MemoryType
      /\ \A g \in Frames : Held(m1, g) = Held(m, g)
      /\ \A g \in Frames \ {f} : Count(m1, g) = Count(m, g)
  BY MapNewGets DEF GetsFrame
<1>3. old \in Frames /\ old # f /\ Count(m, old) \in 1 .. NPROC - 1
  <2>1. PICK i \in 1 .. NFRAMES : old = <<v, i>> /\ i <= Taken(m, v) /\ old # f
    BY TakenFrames
  <2>2. Count(m, old) >= 0
    BY <2>1 DEF Sound, FramesCounted, Counted
  <2>3. Count(m, old) \in -1 .. NPROC - 1 /\ old \in Frames
    BY <1>1, <2>1, FrameNames DEF MemoryType, Count
  <2>4. QED
    BY <2>1, <2>2, <2>3, MemoryAssumption
<1>4. copied(m, p, v) = n
  BY <1>1 DEF copied, new_frame, NextFrame, Taken, FrameOf
<1>5. n \in MemoryType
  <2>1. m.content[old] \in Contents
    BY <1>1, <1>3 DEF MemoryType
  <2>2. m1.ref_count[old] = Count(m, old)
    BY <1>2, <1>3 DEF Count
  <2>3. m1.ref_count[old] - 1 \in -1 .. NPROC - 1
    BY <1>3, <2>2, MemoryAssumption
  <2>4. QED
    BY <1>2, <1>3, <2>1, <2>3 DEF MemoryType
<1>6. \A q \in Processes, w \in Pages : SameEntry(m1, n, q, w)
  BY <1>2 DEF MemoryType, SameEntry, Has, Writable, Marked, FrameOf
<1>7. \A w \in Pages : Taken(n, w) = Taken(m1, w)
  BY <1>2 DEF MemoryType, Taken
<1>8. /\ Held(n, f) = Held(m, old)
      /\ \A g \in Frames \ {f} : Held(n, g) = Held(m1, g)
  BY <1>1, <1>2 DEF MemoryType, Held
<1>9. /\ Count(n, old) = Count(m1, old) - 1
      /\ \A g \in Frames \ {old} : Count(n, g) = Count(m1, g)
  BY <1>2, <1>3 DEF MemoryType, Count
<1>10. GivesUp(m, n, p, v, old)
  BY <1>2, <1>3, <1>9 DEF GivesUp
<1>11. GetsFrame(m, n, p, v)
  <2>1. /\ Has(n, p, v) /\ Writable(n, p, v) /\ FrameOf(n, p, v) = f
        /\ \A q \in Processes, w \in Pages :
             q # p \/ w # v => SameEntry(m, n, q, w)
    BY <1>2, <1>6 DEF GetsFrame, SameEntry
  <2>2. /\ Taken(n, v) = Taken(m, v) + 1
        /\ \A w \in Pages \ {v} : Taken(n, w) = Taken(m, w)
    BY <1>2, <1>7 DEF GetsFrame
  <2>3. Count(n, f) = 0
    BY <1>1, <1>2, <1>3, <1>9 DEF GetsFrame
  <2>4. \A g \in Frames \ {f} :
          /\ Held(n, g) = Held(m, g)
          /\ Count(n, g) = Count(m, g) \/ GivesUp(m, n, p, v, g)
    BY <1>2, <1>8, <1>9, <1>10
  <2>5. QED
    BY <1>5, <2>1, <2>2, <2>3, <2>4 DEF GetsFrame
<1>12. QED
  BY <1>2, <1>4, <1>8, <1>9, <1>10, <1>11

\* n is m after a change that takes no frame: what the frame of a page holds
\* has changed, or p has taken over the frame, whose last user it is.
Keeps(m, n, p, v) ==
  /\ n \in MemoryType
  /\ \A w \in Pages : Taken(n, w) = Taken(m, w)
  /\ \A f \in Frames : Count(n, f) = Count(m, f)
  /\ \A q \in Processes, w \in Pages :
       /\ Has(n, q, w) <=> Has(m, q, w)
       /\ FrameOf(n, q, w) = FrameOf(m, q, w)
       /\ \/ SameEntry(m, n, q, w)
          \/ /\ q = p /\ w = v /\ Has(m, p, v) /\ Writable(n, p, v)
             /\ \A r \in Processes :
                  Has(m, r, v) /\ FrameOf(m, r, v) = FrameOf(m, p, v) => r = p
  /\ Has(m, p, v)
  /\ \A f \in Frames \ {FrameOf(m, p, v)} : Held(n, f) = Held(m, f)

LEMMA KeepsSound ==
  ASSUME NEW m, NEW n, NEW p \in Processes, NEW v \in Pages,
         Sound(m), Keeps(m, n, p, v)
  PROVE  /\ Sound(n)
         /\ \A w \in Pages : /\ Claims(n, w) = Claims(m, w)
                             /\ Present(n, w) = Present(m, w)
<1>1. m \in MemoryType /\ n \in MemoryType
  BY DEF Sound, Keeps
<1>2. EntriesPlaced(n)
  BY DEF Sound, Keeps, EntriesPlaced, SameEntry
<1>3. EntriesMarked(n)
  BY DEF Sound, Keeps, EntriesMarked, SameEntry
<1>4. ASSUME NEW w \in Pages, NEW i \in 1 .. NFRAMES
      PROVE  /\ UsersIn(n, w, i) = UsersIn(m, w, i)
             /\ Count(n, <<w, i>>) = Count(m, <<w, i>>)
  BY FrameNames DEF Keeps, UsersIn
<1>5. FramesCounted(n)
  <2> SUFFICES ASSUME NEW w \in Pages, NEW i \in 1 .. NFRAMES
               PROVE  IF i <= Taken(n, w) THEN Counted(n, w, i)
                      ELSE Untouched(n, w, i)
    BY DEF FramesCounted
  <2>1. IF i <= Taken(m, w) THEN Counted(m, w, i) ELSE Untouched(m, w, i)
    BY DEF Sound, FramesCounted
  <2>2. Taken(n, w) = Taken(m, w)
    BY DEF Keeps
  <2>3. CASE i <= Taken(m, w)
    BY <1>4, <2>1, <2>2, <2>3 DEF Counted
  <2>4. CASE ~(i <= Taken(m, w))
    <3>1. <<w, i>> # FrameOf(m, p, v)
      <4>1. PICK j \in 1 .. NFRAMES :
              FrameOf(m, p, v) = <<v, j>> /\ j <= Taken(m, v)
        BY TakenFrames DEF Keeps
      <4>2. QED
        BY <2>4, <4>1
    <3>2. Held(n, <<w, i>>) = Held(m, <<w, i>>)
      BY <3>1, FrameNames DEF Keeps
    <3>3. QED
      BY <1>4, <2>1, <2>2, <2>4, <3>2 DEF Untouched
  <2>5. QED
    BY <2>3, <2>4
<1>6. WritersAlone(n)
  <2> SUFFICES ASSUME NEW q \in Processes, NEW r \in Processes, NEW w \in Pages,
                      Writable(n, q, w), Has(n, r, w),
                      FrameOf(n, r, w) = FrameOf(n, q, w)
               PROVE  r = q
    BY DEF WritersAlone
  <2>1. Has(m, r, w) /\ FrameOf(m, r, w) = FrameOf(m, q, w)
    BY DEF Keeps
  <2>2. CASE Writable(m, q, w)
    BY <2>1, <2>2 DEF Sound, WritersAlone
  <2>3. CASE ~Writable(m, q, w)
    BY <2>1, <2>3 DEF Keeps, SameEntry
  <2>4. QED
    BY <2>2, <2>3
<1>7. \A w \in Pages : /\ Claims(n, w) = Claims(m, w)
                       /\ Present(n, w) = Present(m, w)
  BY <1>4 DEF Claims, Present, Keeps
<1>8. QED
  BY <1>1, <1>2, <1>3, <1>5, <1>6, <1>7 DEF Sound

LEMMA FrameTaken ==
  ASSUME NEW m, Sound(m), NEW p \in Processes, NEW v \in Pages, Has(m, p, v)
  PROVE  /\ FrameOf(m, p, v) \in Frames \ {NoFrame}
         /\ FrameOf(m, p, v) # NextFrame(m, v)
         /\ Count(m, FrameOf(m, p, v)) \in Nat
<1>1. PICK i \in 1 .. NFRAMES : /\ FrameOf(m, p, v) = <<v, i>>
                                /\ i <= Taken(m, v) /\ <<v, i>> # NextFrame(m, v)
  BY TakenFrames
<1>2. Count(m, <<v, i>>) >= 0 /\ Count(m, <<v, i>>) \in Int
  BY <1>1, FrameNames, MemoryTypes DEF Sound, FramesCounted, Counted
<1>3. QED
  BY <1>1, <1>2, FrameNames

LEMMA WriteKeeps ==
  ASSUME NEW m, Sound(m), NEW p \in Processes, NEW v \in Pages, Has(m, p, v),
         NEW x \in Contents
  PROVE  LET n == [m EXCEPT !.content[FrameOf(m, p, v)] = x]
         IN  /\ Keeps(m, n, p, v)
             /\ Held(n, FrameOf(m, p, v)) = x
             /\ \A q \in Processes, w \in Pages : SameEntry(m, n, q, w)
<1> DEFINE f == FrameOf(m, p, v)
           n == [m EXCEPT !.content[f] = x]
<1>1. m \in MemoryType /\ f \in Frames
  BY FrameTaken DEF Sound
<1>2. n \in MemoryType
  BY <1>1 DEF MemoryType
<1>3. \A q \in Processes, w \in Pages : SameEntry(m, n, q, w)
  BY <1>1 DEF MemoryType, SameEntry, Has, Writable, Marked, FrameOf
<1>4. /\ \A w \in Pages : Taken(n, w) = Taken(m, w)
      /\ \A g \in Frames : Count(n, g) = Count(m, g)
  BY <1>1 DEF MemoryType, Taken, Count
<1>5. /\ Held(n, f) = x
      /\ \A g \in Frames \ {f} : Held(n, g) = Held(m, g)
  BY <1>1 DEF MemoryType, Held
<1>6. Keeps(m, n, p, v)
  BY <1>2, <1>3, <1>4, <1>5 DEF Keeps, SameEntry
<1>7. QED
  BY <1>3, <1>5, <1>6

\* A count of 0: no other process uses the frame.
LEMMA LastUser ==
  ASSUME NEW m, Sound(m), NEW p \in Processes, NEW v \in Pages, Has(m, p, v),
         Count(m, FrameOf(m, p, v)) = 0,
         NEW q \in Processes, Has(m, q, v), FrameOf(m, q, v) = FrameOf(m, p, v)
  PROVE  q = p
<1>1. PICK i \in 1 .. NFRAMES : FrameOf(m, p, v) = <<v, i>> /\ i <= Taken(m, v)
  BY TakenFrames
<1> DEFINE U == UsersIn(m, v, i)
<1>2. Cardinality(U) <= 1
  BY <1>1 DEF Sound, FramesCounted, Counted
<1>3. p \in U /\ q \in U
  BY <1>1 DEF UsersIn
<1>4. IsFiniteSet(U) /\ Cardinality(U) \in Nat
  BY UsersFinite
<1> HIDE DEF U
<1>5. SUFFICES ASSUME q # p PROVE FALSE
  OBVIOUS
<1>6. IsFiniteSet(U \ {p}) /\ Cardinality(U \ {p}) = Cardinality(U) - 1
  BY <1>3, <1>4, FS_RemoveElement
<1>7. Cardinality(U \ {p}) = 0
  <2>1. Cardinality(U \ {p}) \in Nat
    BY <1>6, FS_CardinalityType
  <2>2. QED
    BY <1>2, <1>4, <1>6, <2>1
<1>8. U \ {p} = {}
  BY <1>6, <1>7, FS_EmptySet
<1>9. QED
  BY <1>3, <1>5, <1>8

LEMMA TakeOverKeeps ==
  ASSUME NEW m, Sound(m), NEW p \in Processes, NEW v \in Pages, Has(m, p, v),
         Count(m, FrameOf(m, p, v)) = 0
  PROVE  LET n == [m EXCEPT !.pte[p][v] = mapped(FrameOf(m, p, v))]
         IN  /\ Keeps(m, n, p, v) /\ Writable(n, p, v)
             /\ \A g \in Frames : Held(n, g) = Held(m, g)
<1> DEFINE f == FrameOf(m, p, v)
           n == [m EXCEPT !.pte[p][v] = mapped(f)]
<1>1. m \in MemoryType /\ f \in Frames
  BY FrameTaken DEF Sound
<1>2. n \in MemoryType
  <2>1. mapped(f) \in Entry
    BY <1>1 DEF mapped, Entry
  <2>2. QED
    BY <1>1, <2>1 DEF MemoryType
<1>3. /\ n.pte[p][v] = mapped(f)
      /\ \A q \in Processes, w \in Pages :
           q # p \/ w # v => n.pte[q][w] = m.pte[q][w]
  BY <1>1 DEF MemoryType
<1>4. /\ Has(n, p, v) /\ Writable(n, p, v) /\ FrameOf(n, p, v) = f
      /\ \A q \in Processes, w \in Pages :
           q # p \/ w # v => SameEntry(m, n, q, w)
  BY <1>3 DEF SameEntry, Has, Writable, Marked, FrameOf, mapped
<1>5. /\ \A w \in Pages : Taken(n, w) = Taken(m, w)
      /\ \A g \in Frames : Count(n, g) = Count(m, g)
      /\ \A g \in Frames : Held(n, g) = Held(m, g)
  BY <1>1 DEF MemoryType, Taken, Count, Held
<1>6. \A r \in Processes :
        Has(m, r, v) /\ FrameOf(m, r, v) = FrameOf(m, p, v) => r = p
  BY LastUser
<1>7. Keeps(m, n, p, v)
  <2>1. ASSUME NEW q \in Processes, NEW w \in Pages
        PROVE  /\ Has(n, q, w) <=> Has(m, q, w)
               /\ FrameOf(n, q, w) = FrameOf(m, q, w)
               /\ SameEntry(m, n, q, w) \/ (q = p /\ w = v)
    <3> HIDE DEF n
    <3>1. CASE q = p /\ w = v
      BY <1>4, <3>1
    <3>2. CASE q # p \/ w # v
      BY <1>4, <3>2 DEF SameEntry
    <3>3. QED
      BY <3>1, <3>2
  <2>2. QED
    BY <1>2, <1>4, <1>5, <1>6, <2>1 DEF Keeps
<1>8. QED
  BY <1>4, <1>5, <1>7
----------------------------------------------------------------------------
(* Frames last: as long as the claims to the frames of a page stem from    *)
(* the processes that have it and from the calls of execve so far, there   *)
(* is one for each that needs it.                                          *)

LEMMA Pigeonholes ==
  ASSUME NEW C, IsFiniteSet(C), NEW k \in Nat, \A i \in 1 .. k : <<i, 0>> \in C
  PROVE  k <= Cardinality(C)
<1> DEFINE f == [i \in 1 .. k |-> <<i, 0>>]
<1>1. f \in Injection(1 .. k, C)
  BY DEF Injection, IsInjective
<1>2. Cardinality(1 .. k) <= Cardinality(C)
  BY <1>1, FS_Injection
<1>3. Cardinality(1 .. k) = k
  BY FS_Interval
<1>4. QED
  BY <1>2, <1>3

\* Each frame that is taken is claimed once, and a shared one twice.
LEMMA TakenIsClaimed ==
  ASSUME NEW m, Sound(m), NEW v \in Pages
  PROVE  /\ Taken(m, v) <= Cardinality(Claims(m, v))
         /\ \A p \in Processes :
              Has(m, p, v) /\ Count(m, FrameOf(m, p, v)) # 0
                => Taken(m, v) < Cardinality(Claims(m, v))
<1> DEFINE C == Claims(m, v)
           k == Taken(m, v)
<1>1. k \in Nat /\ k <= NFRAMES /\ IsFiniteSet(C) /\ Cardinality(C) \in Nat
  BY MemoryTypes, ClaimsFinite DEF Sound
<1>2. \A i \in 1 .. k : <<i, 0>> \in C
  <2> SUFFICES ASSUME NEW i \in 1 .. k PROVE <<i, 0>> \in C
    OBVIOUS
  <2>1. i \in 1 .. NFRAMES /\ i <= Taken(m, v)
    BY <1>1, MemoryAssumption
  <2>2. Count(m, <<v, i>>) >= 0
    BY <2>1 DEF Sound, FramesCounted, Counted
  <2>3. 0 \in 0 .. NPROC - 1
    BY MemoryAssumption
  <2>4. QED
    BY <2>1, <2>2, <2>3 DEF Claims
<1>3. k <= Cardinality(C)
  BY <1>1, <1>2, Pigeonholes
<1>4. ASSUME NEW p \in Processes, Has(m, p, v), Count(m, FrameOf(m, p, v)) # 0
      PROVE  k < Cardinality(C)
  <2>1. PICK i \in 1 .. NFRAMES : FrameOf(m, p, v) = <<v, i>> /\ i <= k
    BY <1>4, TakenFrames
  <2>2. Count(m, <<v, i>>) >= 1
    BY <1>4, <2>1, FrameTaken
  <2>3. Count(m, <<v, i>>) \in -1 .. NPROC - 1
    BY FrameNames DEF Sound, MemoryType, Count
  <2>4. <<i, 1>> \in C
    BY <2>1, <2>2, <2>3, MemoryAssumption DEF Claims
  <2> DEFINE D == C \ {<<i, 1>>}
  <2>5. IsFiniteSet(D) /\ Cardinality(D) = Cardinality(C) - 1
    BY <1>1, <2>4, FS_RemoveElement
  <2>6. ASSUME NEW j \in 1 .. k PROVE <<j, 0>> \in D
    <3>1. <<j, 0>> \in C
      BY <1>2
    <3>2. <<j, 0>> # <<i, 1>>
      OBVIOUS
    <3> HIDE DEF C
    <3>3. QED
      BY <3>1, <3>2
  <2> HIDE DEF D
  <2>7. k <= Cardinality(D)
    BY <1>1, <2>5, <2>6, Pigeonholes
  <2>8. QED
    BY <1>1, <2>5, <2>7
<1>5. QED
  BY <1>3, <1>4

LEMMA FrameIsLeft ==
  ASSUME FramesLast, NEW m, Sound(m), NEW e \in 0 .. MAX_EXECS,
         NEW v \in Pages, NEW p \in Processes, Accounted(m, v, e),
         \/ e < MAX_EXECS
         \/ ~Has(m, p, v)
         \/ Count(m, FrameOf(m, p, v)) # 0
  PROVE  Taken(m, v) < NFRAMES
<1> DEFINE P == Present(m, v)
           C == Claims(m, v)
<1>1. P \in SUBSET Processes
  BY DEF Present
<1>2. /\ Cardinality(P) \in Nat /\ Cardinality(P) <= NPROC /\ IsFiniteSet(P)
      /\ Cardinality(C) \in Nat /\ Taken(m, v) \in Nat
  BY <1>1, ProcessesFinite, ClaimsFinite, MemoryTypes DEF Sound
<1>3. Cardinality(C) <= Cardinality(P) + e /\ Taken(m, v) <= Cardinality(C)
  BY TakenIsClaimed DEF Accounted
<1>4. CASE ~Has(m, p, v)
  <2>1. P \cup {p} \in SUBSET Processes /\ p \notin P
    BY <1>1, <1>4 DEF Present
  <2> HIDE DEF P
  <2>2. Cardinality(P \cup {p}) = Cardinality(P) + 1
    BY <1>2, <2>1, FS_AddElement
  <2>3. Cardinality(P \cup {p}) <= NPROC
    BY <2>1, ProcessesFinite
  <2> HIDE DEF C
  <2>4. QED
    BY <1>2, <1>3, <2>2, <2>3, MemoryAssumption DEF FramesLast
<1>5. CASE Has(m, p, v) /\ Count(m, FrameOf(m, p, v)) # 0
  <2>1. Taken(m, v) < Cardinality(C)
    BY <1>5, TakenIsClaimed
  <2> HIDE DEF P, C
  <2>2. QED
    BY <1>2, <1>3, <2>1, MemoryAssumption DEF FramesLast
<1>6. CASE e < MAX_EXECS
  <2> HIDE DEF P, C
  <2>1. QED
    BY <1>2, <1>3, <1>6, MemoryAssumption DEF FramesLast
<1>7. QED
  BY <1>4, <1>5, <1>6
----------------------------------------------------------------------------
(* The page fault handler and the stores it serves: what they leave, and   *)
(* what the processes see of it.                                           *)

Seen(m, p, v) ==
  IF Has(m, p, v) THEN Held(m, FrameOf(m, p, v)) ELSE holds("nothing")

SeenOnlyBy(m, n, p, v) ==
  \A q \in Processes, w \in Pages :
    q # p \/ w # v => Seen(n, q, w) = Seen(m, q, w)

\* n is m after an access of p to page v, which may have taken a frame.
Served(m, n, p, v) ==
  /\ Sound(n)
  /\ Has(n, p, v)
  /\ \A w \in Pages \ {v} : /\ Claims(n, w) = Claims(m, w)
                            /\ Present(n, w) = Present(m, w)
  /\ Present(n, v) = Present(m, v) \cup {p}
  /\ Cardinality(Claims(n, v)) <=
       Cardinality(Claims(m, v)) + IF Has(m, p, v) THEN 0 ELSE 1
  /\ \A f \in Frames : Count(n, f) <= Count(m, f) \/ Count(n, f) <= 0

LEMMA NewFrameServes ==
  ASSUME NEW m, NEW n, NEW p \in Processes, NEW v \in Pages,
         Sound(m), GetsFrame(m, n, p, v),
         Has(m, p, v) => \E f \in Frames \ {NextFrame(m, v)} : GivesUp(m, n, p, v, f)
  PROVE  Served(m, n, p, v) /\ SeenOnlyBy(m, n, p, v)
<1>1. Sound(n) /\ Has(n, p, v)
  BY NewFrameSound DEF GetsFrame
<1>2. /\ \A w \in Pages \ {v} : /\ Claims(n, w) = Claims(m, w)
                                /\ Present(n, w) = Present(m, w)
      /\ Present(n, v) = Present(m, v) \cup {p}
      /\ Cardinality(Claims(n, v)) <= Cardinality(Claims(m, v)) + 1
  <2>1. \A w \in Pages \ {v} : /\ Claims(n, w) = Claims(m, w)
                                /\ Present(n, w) = Present(m, w)
    BY NewFrameClaims
  <2>2. Present(n, v) = Present(m, v) \cup {p}
    BY DEF Present, GetsFrame, SameEntry
  <2>3. Cardinality(Claims(n, v)) <= Cardinality(Claims(m, v)) + 1
    BY NewFrameClaims
  <2>4. QED
    BY <2>1, <2>2, <2>3
<1>3. ASSUME Has(m, p, v)
      PROVE  Cardinality(Claims(n, v)) <= Cardinality(Claims(m, v))
  <2>1. PICK f \in Frames \ {NextFrame(m, v)} : GivesUp(m, n, p, v, f)
    BY <1>3
  <2>2. QED
    BY <2>1, NewFrameClaims
<1>4. Cardinality(Claims(n, v)) <=
        Cardinality(Claims(m, v)) + IF Has(m, p, v) THEN 0 ELSE 1
  BY <1>2, <1>3, ClaimsFinite
<1>5. ASSUME NEW f \in Frames
      PROVE  Count(n, f) <= Count(m, f) \/ Count(n, f) <= 0
  <2>1. Count(m, f) \in Int /\ Count(n, f) \in Int
    BY <1>1, MemoryTypes DEF Sound
  <2>2. QED
    BY <2>1 DEF GetsFrame, GivesUp
<1>6. ASSUME NEW q \in Processes, NEW w \in Pages, q # p \/ w # v
      PROVE  Seen(n, q, w) = Seen(m, q, w)
  <2>1. SameEntry(m, n, q, w)
    BY <1>6 DEF GetsFrame
  <2>2. CASE Has(m, q, w)
    <3>1. PICK i \in 1 .. NFRAMES : FrameOf(m, q, w) = <<w, i>> /\ i <= Taken(m, w)
      BY <2>2, TakenFrames
    <3>2. <<w, i>> # NextFrame(m, v)
      BY <2>2, <3>1, FrameTaken DEF NextFrame
    <3>3. Held(n, <<w, i>>) = Held(m, <<w, i>>)
      BY <3>2, OtherFrames
    <3>4. QED
      BY <2>1, <2>2, <3>1, <3>3 DEF Seen, SameEntry
  <2>3. CASE ~Has(m, q, w)
    BY <2>1, <2>3 DEF Seen, SameEntry
  <2>4. QED
    BY <2>2, <2>3
<1>7. QED
  BY <1>1, <1>2, <1>4, <1>5, <1>6 DEF Served, SeenOnlyBy

LEMMA KeepsServes ==
  ASSUME NEW m, NEW n, NEW p \in Processes, NEW v \in Pages,
         Sound(m), Keeps(m, n, p, v)
  PROVE  /\ Served(m, n, p, v)
         /\ \A l : Served(l, m, p, v) => Served(l, n, p, v)
<1>1. /\ Sound(n) /\ Has(m, p, v) /\ Has(n, p, v)
      /\ \A w \in Pages : /\ Claims(n, w) = Claims(m, w)
                          /\ Present(n, w) = Present(m, w)
      /\ \A f \in Frames : Count(n, f) = Count(m, f)
  BY KeepsSound DEF Keeps
<1>2. Present(n, v) = Present(m, v) \cup {p}
  BY <1>1 DEF Present
<1>3. \A f \in Frames : Count(m, f) \in Int
  BY MemoryTypes DEF Sound
<1>4. Cardinality(Claims(n, v)) <= Cardinality(Claims(m, v))
  BY <1>1, ClaimsFinite
<1>5. Served(m, n, p, v)
  BY <1>1, <1>2, <1>3, <1>4, ClaimsFinite DEF Served
<1>6. ASSUME NEW l, Served(l, m, p, v) PROVE Served(l, n, p, v)
  BY <1>1, <1>6 DEF Served
<1>7. QED
  BY <1>5, <1>6

\* A change to the frame of a page that no other process uses.
LEMMA KeepsSeen ==
  ASSUME NEW m, NEW n, NEW p \in Processes, NEW v \in Pages,
         Sound(m), Keeps(m, n, p, v),
         \/ \A f \in Frames : Held(n, f) = Held(m, f)
         \/ \A q \in Processes : Has(m, q, v) /\ FrameOf(m, q, v) = FrameOf(m, p, v)
                                   => q = p
  PROVE  SeenOnlyBy(m, n, p, v)
<1> SUFFICES ASSUME NEW q \in Processes, NEW w \in Pages, q # p \/ w # v
             PROVE  Seen(n, q, w) = Seen(m, q, w)
  BY DEF SeenOnlyBy
<1>1. Has(n, q, w) <=> Has(m, q, w)
  BY DEF Keeps
<1>2. FrameOf(n, q, w) = FrameOf(m, q, w)
  BY DEF Keeps
<1>3. CASE Has(m, q, w)
  <2>1. FrameOf(m, q, w) \in Frames
    BY <1>3, FrameTaken
  <2>2. CASE FrameOf(m, q, w) = FrameOf(m, p, v)
    <3>1. Has(m, p, v)
      BY DEF Keeps
    <3>2. w = v
      BY <1>3, <2>2, <3>1, TakenFrames
    <3>3. \A f \in Frames : Held(n, f) = Held(m, f)
      BY <1>3, <2>2, <3>2
    <3>4. QED
      BY <1>1, <1>2, <2>1, <3>3 DEF Seen
  <2>3. CASE FrameOf(m, q, w) # FrameOf(m, p, v)
    <3>1. Held(n, FrameOf(m, q, w)) = Held(m, FrameOf(m, q, w))
      BY <2>1, <2>3 DEF Keeps
    <3>2. QED
      BY <1>1, <1>2, <3>1 DEF Seen
  <2>4. QED
    BY <2>2, <2>3
<1>4. CASE ~Has(m, q, w)
  BY <1>1, <1>4 DEF Seen
<1>5. QED
  BY <1>3, <1>4

\* A page that is not there gets a new frame, which holds anything.
LEMMA DemandServes ==
  ASSUME NEW m, Sound(m), NEW p \in Processes, NEW v \in Pages, ~Has(m, p, v),
         Taken(m, v) < NFRAMES
  PROVE  LET n == map_new(m, p, v)
         IN  /\ Served(m, n, p, v) /\ SeenOnlyBy(m, n, p, v)
             /\ Writable(n, p, v) /\ Seen(n, p, v) = holds("junk")
<1> DEFINE n == map_new(m, p, v)
<1>1. /\ GetsFrame(m, n, p, v)
      /\ \A f \in Frames : Held(n, f) = Held(m, f)
  BY MapNewGets
<1>2. Served(m, n, p, v) /\ SeenOnlyBy(m, n, p, v)
  BY <1>1, NewFrameServes
<1>3. Taken(m, v) + 1 \in 1 .. NFRAMES /\ ~(Taken(m, v) + 1 <= Taken(m, v))
  BY MemoryTypes, MemoryAssumption DEF Sound
<1>4. Held(m, NextFrame(m, v)) = holds("junk")
  BY <1>3 DEF Sound, FramesCounted, Untouched, NextFrame
<1>5. Held(n, NextFrame(m, v)) = holds("junk")
  BY <1>1, <1>3, <1>4, FrameNames DEF NextFrame
<1>6. QED
  BY <1>1, <1>2, <1>5 DEF GetsFrame, Seen

\* A write to a page that is not writable: its last user takes it over, others
\* get a copy.
LEMMA MadeWritableServes ==
  ASSUME NEW m, Sound(m), NEW p \in Processes, NEW v \in Pages, Has(m, p, v),
         Count(m, FrameOf(m, p, v)) # 0 => Taken(m, v) < NFRAMES
  PROVE  LET n == made_writable(m, p, v)
         IN  /\ Served(m, n, p, v) /\ SeenOnlyBy(m, n, p, v)
             /\ Writable(n, p, v) /\ Seen(n, p, v) = Seen(m, p, v)
<1> DEFINE n == made_writable(m, p, v)
<1>1. CASE Count(m, FrameOf(m, p, v)) = 0
  <2> DEFINE o == [m EXCEPT !.pte[p][v] = mapped(FrameOf(m, p, v))]
  <2>1. n = o
    BY <1>1 DEF made_writable, Count, FrameOf
  <2>2. /\ Keeps(m, o, p, v) /\ Writable(o, p, v)
        /\ \A g \in Frames : Held(o, g) = Held(m, g)
    BY <1>1, TakeOverKeeps
  <2> HIDE DEF o, n
  <2>3. Served(m, o, p, v) /\ SeenOnlyBy(m, o, p, v)
    BY <2>2, KeepsServes, KeepsSeen
  <2>4. Seen(o, p, v) = Seen(m, p, v)
    BY <2>2, FrameTaken DEF Keeps, Seen
  <2>5. QED
    BY <2>1, <2>2, <2>3, <2>4 DEF n
<1>2. CASE Count(m, FrameOf(m, p, v)) # 0
  <2> DEFINE o == copied(m, p, v)
  <2>1. n = o
    BY <1>2 DEF made_writable, Count, FrameOf
  <2>2. /\ GetsFrame(m, o, p, v)
        /\ GivesUp(m, o, p, v, FrameOf(m, p, v))
        /\ Held(o, NextFrame(m, v)) = Held(m, FrameOf(m, p, v))
    BY <1>2, CopiedGets
  <2> HIDE DEF o, n
  <2>3. FrameOf(m, p, v) \in Frames \ {NextFrame(m, v)}
    BY FrameTaken
  <2>4. Served(m, o, p, v) /\ SeenOnlyBy(m, o, p, v)
    BY <2>2, <2>3, NewFrameServes
  <2>5. Seen(o, p, v) = Seen(m, p, v) /\ Writable(o, p, v)
    BY <2>2 DEF GetsFrame, Seen
  <2>6. QED
    BY <2>1, <2>4, <2>5 DEF n
<1>3. QED
  BY <1>1, <1>2

\* What p reads from a page, or would once the page is there.
Read(m, p, v) == IF Has(m, p, v) THEN Seen(m, p, v) ELSE holds("junk")

LEMMA AccessServes ==
  ASSUME FramesLast, NEW m, Sound(m), NEW e \in 0 .. MAX_EXECS,
         NEW p \in Processes, NEW v \in Pages, Accounted(m, v, e), NEW write \in BOOLEAN
  PROVE  LET n == accessed(m, p, v, write)
         IN  /\ Served(m, n, p, v) /\ SeenOnlyBy(m, n, p, v)
             /\ Seen(n, p, v) = Read(m, p, v)
             /\ write \/ Writable(m, p, v) \/ ~Has(m, p, v) => Writable(n, p, v)
<1> DEFINE n == accessed(m, p, v, write)
<1>1. faults(m, p, v, write) <=> ~Has(m, p, v) \/ (write /\ ~Writable(m, p, v))
  BY DEF faults, Has, Writable
<1>2. CASE ~Has(m, p, v)
  <2>1. n = map_new(m, p, v)
    BY <1>1, <1>2 DEF accessed, page_fault_handler, Has
  <2>2. Taken(m, v) < NFRAMES
    BY <1>2, FrameIsLeft
  <2>3. QED
    BY <1>2, <2>1, <2>2, DemandServes DEF Read
<1>3. CASE Has(m, p, v) /\ write /\ ~Writable(m, p, v)
  <2>1. n = made_writable(m, p, v)
    BY <1>1, <1>3 DEF accessed, page_fault_handler, Has
  <2>2. Count(m, FrameOf(m, p, v)) # 0 => Taken(m, v) < NFRAMES
    BY FrameIsLeft
  <2>3. QED
    BY <1>3, <2>1, <2>2, MadeWritableServes DEF Read
<1>4. CASE Has(m, p, v) /\ ~(write /\ ~Writable(m, p, v))
  <2>1. n = m
    BY <1>1, <1>4 DEF accessed
  <2>2. Keeps(m, m, p, v)
    BY <1>4 DEF Keeps, SameEntry, Sound
  <2>3. Served(m, m, p, v) /\ SeenOnlyBy(m, m, p, v)
    BY <2>2, KeepsServes DEF SeenOnlyBy
  <2>4. QED
    BY <1>4, <2>1, <2>3 DEF Read
<1>5. QED
  BY <1>2, <1>3, <1>4

\* A page that is there holds a member of Contents.
LEMMA ContentsType ==
  ASSUME NEW m, Sound(m), NEW p \in Processes, NEW v \in Pages, Has(m, p, v)
  PROVE  /\ m.content[m.pte[p][v].frame] = Seen(m, p, v)
         /\ Seen(m, p, v) \in Contents /\ word_stored(Seen(m, p, v)) \in Contents
<1>1. m.content \in [Frames -> Contents] /\ FrameOf(m, p, v) \in Frames
  BY FrameTaken DEF Sound, MemoryType
<1>2. Seen(m, p, v) = m.content[FrameOf(m, p, v)]
  BY DEF Seen, Held
<1>3. Seen(m, p, v) \in Contents
  BY <1>1, <1>2
<1> DEFINE x == Seen(m, p, v)
<1> HIDE DEF x
<1>4. word_stored(x) \in Contents
  BY <1>3 DEF word_stored, Contents, x
<1>5. QED
  BY <1>2, <1>3, <1>4 DEF x, FrameOf

\* A word stored to a page that is there is seen by p; and by no other process
\* when the page is writable.
LEMMA WordServes ==
  ASSUME NEW l, NEW m, Sound(m), NEW p \in Processes, NEW v \in Pages,
         Served(l, m, p, v)
  PROVE  LET n == [m EXCEPT !.content[m.pte[p][v].frame] = word_stored(@)]
         IN  /\ Served(l, n, p, v)
             /\ Writable(m, p, v) => SeenOnlyBy(m, n, p, v)
             /\ Seen(n, p, v) = word_stored(Seen(m, p, v))
<1> DEFINE x == word_stored(Seen(m, p, v))
           o == [m EXCEPT !.content[FrameOf(m, p, v)] = x]
<1>1. Has(m, p, v)
  BY DEF Served
<1>2. x \in Contents /\ m.content[m.pte[p][v].frame] = Seen(m, p, v)
  BY <1>1, ContentsType
<1>3. [m EXCEPT !.content[m.pte[p][v].frame] = word_stored(@)] = o
  BY <1>2 DEF FrameOf, word_stored
<1>4. Keeps(m, o, p, v) /\ Held(o, FrameOf(m, p, v)) = x
  BY <1>1, <1>2, WriteKeeps
<1> HIDE DEF o, x
<1>5. Served(l, o, p, v)
  BY <1>4, KeepsServes
<1>6. ASSUME Writable(m, p, v) PROVE SeenOnlyBy(m, o, p, v)
  <2>1. \A q \in Processes : Has(m, q, v) /\ FrameOf(m, q, v) = FrameOf(m, p, v)
                               => q = p
    BY <1>6 DEF Sound, WritersAlone
  <2>2. QED
    BY <1>4, <2>1, KeepsSeen
<1>7. Seen(o, p, v) = x
  BY <1>1, <1>4 DEF Seen, Keeps
<1>8. QED
  BY <1>3, <1>5, <1>6, <1>7 DEF x

LEMMA StoreServes ==
  ASSUME FramesLast, NEW m, Sound(m), NEW e \in 0 .. MAX_EXECS,
         NEW p \in Processes, NEW v \in Pages, Accounted(m, v, e)
  PROVE  LET n == stored(m, p, v)
         IN  /\ Served(m, n, p, v) /\ SeenOnlyBy(m, n, p, v)
             /\ Seen(n, p, v) = word_stored(Read(m, p, v))
<1> DEFINE m1 == accessed(m, p, v, TRUE)
<1>1. /\ Served(m, m1, p, v) /\ SeenOnlyBy(m, m1, p, v)
      /\ Seen(m1, p, v) = Read(m, p, v) /\ Writable(m1, p, v)
  BY AccessServes
<1>2. Sound(m1)
  BY <1>1 DEF Served
<1> HIDE DEF m1
<1>3. LET n == [m1 EXCEPT !.content[m1.pte[p][v].frame] = word_stored(@)]
      IN  /\ Served(m, n, p, v) /\ SeenOnlyBy(m1, n, p, v)
          /\ Seen(n, p, v) = word_stored(Seen(m1, p, v))
  BY <1>1, <1>2, WordServes
<1>4. QED
  BY <1>1, <1>3 DEF stored, m1, SeenOnlyBy

LEMMA KernelStoreServes ==
  ASSUME FramesLast, NEW m, Sound(m), NEW e \in 0 .. MAX_EXECS,
         NEW p \in Processes, NEW v \in Pages, Accounted(m, v, e)
  PROVE  LET n == kernel_stored(m, p, v)
         IN  /\ Served(m, n, p, v)
             /\ Writable(m, p, v) \/ ~Has(m, p, v) => SeenOnlyBy(m, n, p, v)
             /\ Seen(n, p, v) = word_stored(Read(m, p, v))
<1> DEFINE m1 == accessed(m, p, v, FALSE)
<1>1. /\ Served(m, m1, p, v) /\ SeenOnlyBy(m, m1, p, v)
      /\ Seen(m1, p, v) = Read(m, p, v)
      /\ Writable(m, p, v) \/ ~Has(m, p, v) => Writable(m1, p, v)
  BY AccessServes
<1>2. Sound(m1)
  BY <1>1 DEF Served
<1> HIDE DEF m1
<1>3. LET n == [m1 EXCEPT !.content[m1.pte[p][v].frame] = word_stored(@)]
      IN  /\ Served(m, n, p, v)
          /\ Writable(m1, p, v) => SeenOnlyBy(m1, n, p, v)
          /\ Seen(n, p, v) = word_stored(Seen(m1, p, v))
  BY <1>1, <1>2, WordServes
<1>4. QED
  BY <1>1, <1>3 DEF kernel_stored, m1, SeenOnlyBy
----------------------------------------------------------------------------
(* Fork.                                                                   *)

\* n is m after c, which has no page, has got the pages V of p.
Shares(m, n, p, c, V) ==
  /\ n \in MemoryType
  /\ c # p /\ V \subseteq Pages
  /\ \A w \in Pages : Taken(n, w) = Taken(m, w) /\ ~Has(m, c, w)
  /\ \A f \in Frames : Held(n, f) = Held(m, f)
  /\ \A q \in Processes \ {p, c}, w \in Pages : SameEntry(m, n, q, w)
  /\ \A w \in Pages \ V : /\ SameEntry(m, n, p, w)
                          /\ ~Has(n, c, w) /\ ~Writable(n, c, w)
  /\ \A v \in V : Has(m, p, v)
  /\ \A v \in V, q \in {p, c} :
       /\ Has(n, q, v) /\ ~Writable(n, q, v) /\ Marked(n, q, v)
       /\ FrameOf(n, q, v) = FrameOf(m, p, v)
  /\ \A w \in Pages, i \in 1 .. NFRAMES :
       Count(n, <<w, i>>) = Count(m, <<w, i>>) +
         IF w \in V /\ <<w, i>> = FrameOf(m, p, w) THEN 1 ELSE 0

LEMMA SharedUsers ==
  ASSUME NEW m, NEW n, NEW p \in Processes, NEW c \in Processes, NEW V,
         Sound(m), Shares(m, n, p, c, V),
         NEW w \in Pages, NEW i \in 1 .. NFRAMES
  PROVE  UsersIn(n, w, i) = UsersIn(m, w, i) \cup
           IF w \in V /\ <<w, i>> = FrameOf(m, p, w) THEN {c} ELSE {}
<1> DEFINE New == IF w \in V /\ <<w, i>> = FrameOf(m, p, w) THEN {c} ELSE {}
<1> SUFFICES ASSUME NEW q \in Processes
             PROVE  q \in UsersIn(n, w, i) <=> q \in UsersIn(m, w, i) \cup New
  BY DEF UsersIn
<1>1. CASE q # p /\ q # c
  BY <1>1 DEF UsersIn, Shares, SameEntry
<1>2. CASE q = p
  <2>1. CASE w \in V
    BY <1>2, <2>1 DEF UsersIn, Shares
  <2>2. CASE w \notin V
    BY <1>2, <2>2 DEF UsersIn, Shares, SameEntry
  <2>3. QED
    BY <2>1, <2>2
<1>3. CASE q = c
  BY <1>3 DEF UsersIn, Shares
<1>4. QED
  BY <1>1, <1>2, <1>3

LEMMA SharesSound ==
  ASSUME NEW m, NEW n, NEW p \in Processes, NEW c \in Processes, NEW V,
         Sound(m), Shares(m, n, p, c, V)
  PROVE  Sound(n)
<1>1. n \in MemoryType /\ m \in MemoryType
  BY DEF Shares, Sound
<1>2. ASSUME NEW q \in Processes, NEW w \in Pages, Has(n, q, w)
      PROVE  \E o \in Processes :
               /\ Has(m, o, w) /\ FrameOf(n, q, w) = FrameOf(m, o, w)
               /\ w \notin V \/ (q # p /\ q # c) => o = q
               /\ w \in V /\ (q = p \/ q = c) => o = p
  <2>1. CASE q # p /\ q # c
    BY <1>2, <2>1 DEF Shares, SameEntry
  <2>2. CASE w \in V /\ (q = p \/ q = c)
    BY <1>2, <2>2 DEF Shares
  <2>3. CASE w \notin V /\ q = p
    BY <1>2, <2>3 DEF Shares, SameEntry
  <2>4. CASE w \notin V /\ q = c
    BY <1>2, <2>4 DEF Shares
  <2>5. QED
    BY <2>1, <2>2, <2>3, <2>4
<1>3. ASSUME NEW q \in Processes, NEW w \in Pages, Writable(n, q, w)
      PROVE  /\ Writable(m, q, w) /\ SameEntry(m, n, q, w) /\ q # c
             /\ w \notin V \/ q # p
  <2>1. CASE q # p /\ q # c
    BY <1>3, <2>1 DEF Shares, SameEntry
  <2>2. CASE w \in V /\ (q = p \/ q = c)
    BY <1>3, <2>2 DEF Shares
  <2>3. CASE w \notin V /\ q = p
    BY <1>3, <2>3 DEF Shares, SameEntry
  <2>4. CASE w \notin V /\ q = c
    BY <1>3, <2>4 DEF Shares
  <2>5. QED
    BY <2>1, <2>2, <2>3, <2>4
<1>4. EntriesPlaced(n)
  <2> SUFFICES ASSUME NEW q \in Processes, NEW w \in Pages
               PROVE  /\ Has(n, q, w) => \E i \in 1 .. NFRAMES :
                           i <= Taken(n, w) /\ FrameOf(n, q, w) = <<w, i>>
                      /\ Writable(n, q, w) => Has(n, q, w)
    BY DEF EntriesPlaced
  <2>1. Taken(n, w) = Taken(m, w)
    BY DEF Shares
  <2>2. Has(n, q, w) => \E i \in 1 .. NFRAMES :
                           i <= Taken(n, w) /\ FrameOf(n, q, w) = <<w, i>>
    BY <1>2, <2>1, TakenFrames
  <2>3. Writable(n, q, w) => Has(n, q, w)
    BY <1>3 DEF SameEntry, Sound, EntriesPlaced
  <2>4. QED
    BY <2>2, <2>3
<1>5. EntriesMarked(n)
  <2> SUFFICES ASSUME NEW q \in Processes, NEW w \in Pages, Has(n, q, w)
               PROVE  Writable(n, q, w) \/ Marked(n, q, w)
    BY DEF EntriesMarked
  <2>1. CASE w \in V /\ (q = p \/ q = c)
    BY <2>1 DEF Shares
  <2>2. CASE ~(w \in V /\ (q = p \/ q = c))
    BY <2>2 DEF Shares, SameEntry, Sound, EntriesMarked
  <2>3. QED
    BY <2>1, <2>2
<1>6. FramesCounted(n)
  <2> SUFFICES ASSUME NEW w \in Pages, NEW i \in 1 .. NFRAMES
               PROVE  IF i <= Taken(n, w) THEN Counted(n, w, i)
                      ELSE Untouched(n, w, i)
    BY DEF FramesCounted
  <2> DEFINE isNew == w \in V /\ <<w, i>> = FrameOf(m, p, w)
  <2>1. IF i <= Taken(m, w) THEN Counted(m, w, i) ELSE Untouched(m, w, i)
    BY DEF Sound, FramesCounted
  <2>2. /\ Taken(n, w) = Taken(m, w)
        /\ Held(n, <<w, i>>) = Held(m, <<w, i>>)
    BY FrameNames DEF Shares
  <2>3. UsersIn(n, w, i) = UsersIn(m, w, i) \cup IF isNew THEN {c} ELSE {}
    BY SharedUsers
  <2>4. Count(n, <<w, i>>) = Count(m, <<w, i>>) + IF isNew THEN 1 ELSE 0
    BY DEF Shares
  <2>5. Count(m, <<w, i>>) \in Int
    BY <1>1, FrameNames, MemoryTypes
  <2>6. CASE isNew
    <3>1. i <= Taken(m, w)
      BY <2>6, TakenFrames DEF Shares
    <3>2. UsersIn(n, w, i) \subseteq UsersIn(m, w, i) \cup {c}
      BY <2>3, <2>6
    <3>3. /\ Cardinality(UsersIn(n, w, i)) <= Cardinality(UsersIn(m, w, i)) + 1
          /\ Cardinality(UsersIn(n, w, i)) \in Nat
          /\ Cardinality(UsersIn(m, w, i)) \in Nat
      BY <3>2, UsersFinite, OneMore
    <3>4. Count(n, <<w, i>>) = Count(m, <<w, i>>) + 1
      BY <2>4, <2>6
    <3> HIDE DEF isNew
    <3>5. QED
      BY <2>1, <2>2, <2>5, <3>1, <3>3, <3>4 DEF Counted
  <2>7. CASE ~isNew
    <3>1. UsersIn(n, w, i) = UsersIn(m, w, i)
      BY <2>3, <2>7
    <3>2. Count(n, <<w, i>>) = Count(m, <<w, i>>)
      BY <2>4, <2>5, <2>7
    <3> HIDE DEF isNew
    <3>3. QED
      BY <2>1, <2>2, <3>1, <3>2 DEF Counted, Untouched
  <2>8. QED
    BY <2>6, <2>7
<1>7. WritersAlone(n)
  <2> SUFFICES ASSUME NEW q \in Processes, NEW r \in Processes, NEW w \in Pages,
                      Writable(n, q, w), Has(n, r, w),
                      FrameOf(n, r, w) = FrameOf(n, q, w)
               PROVE  r = q
    BY DEF WritersAlone
  <2>1. /\ Writable(m, q, w) /\ FrameOf(n, q, w) = FrameOf(m, q, w)
        /\ q # c /\ (w \notin V \/ q # p)
    BY <1>3 DEF SameEntry
  <2>2. PICK o \in Processes :
               /\ Has(m, o, w) /\ FrameOf(n, r, w) = FrameOf(m, o, w)
               /\ w \notin V \/ (r # p /\ r # c) => o = r
               /\ w \in V /\ (r = p \/ r = c) => o = p
    BY <1>2
  <2>3. o = q
    BY <2>1, <2>2 DEF Sound, WritersAlone
  <2>4. QED
    BY <2>1, <2>2, <2>3
<1>8. QED
  BY <1>1, <1>4, <1>5, <1>6, <1>7 DEF Sound

\* Each page that is shared is claimed once more, by the child.
LEMMA SharesClaims ==
  ASSUME NEW m, NEW n, NEW p \in Processes, NEW c \in Processes, NEW V,
         Sound(m), Shares(m, n, p, c, V), NEW w \in Pages
  PROVE  Cardinality(Claims(n, w)) - Cardinality(Present(n, w))
           <= Cardinality(Claims(m, w)) - Cardinality(Present(m, w))
<1>1. /\ Taken(n, w) = Taken(m, w) /\ Taken(m, w) \in Nat
      /\ \A i \in 1 .. NFRAMES : Count(m, <<w, i>>) \in Int
  BY MemoryTypes, FrameNames DEF Shares, Sound
<1>2. /\ Present(m, w) \in SUBSET Processes /\ c \notin Present(m, w)
      /\ Present(n, w) \in SUBSET Processes
  BY DEF Shares, Present
<1>3. /\ IsFiniteSet(Present(m, w)) /\ Cardinality(Present(m, w)) \in Nat
      /\ IsFiniteSet(Present(n, w)) /\ Cardinality(Present(n, w)) \in Nat
  BY <1>2, ProcessesFinite
<1>4. /\ IsFiniteSet(Claims(m, w)) /\ Cardinality(Claims(m, w)) \in Nat
      /\ IsFiniteSet(Claims(n, w)) /\ Cardinality(Claims(n, w)) \in Nat
  BY ClaimsFinite
<1>5. CASE w \in V
  <2>1. PICK j \in 1 .. NFRAMES : FrameOf(m, p, w) = <<w, j>>
    BY <1>5, TakenFrames DEF Shares
  <2> DEFINE new == <<j, Count(m, <<w, j>>) + 1>>
  <2>2. ASSUME NEW d \in Claims(n, w), d # new PROVE d \in Claims(m, w)
    <3>1. PICK i \in 1 .. NFRAMES, k \in 0 .. NPROC - 1 : d = <<i, k>>
      BY DEF Claims
    <3>2. i <= Taken(m, w) /\ k <= Count(n, <<w, i>>)
      BY <1>1, <3>1 DEF Claims
    <3>3. Count(n, <<w, i>>) = Count(m, <<w, i>>) + IF i = j THEN 1 ELSE 0
      BY <1>5, <2>1 DEF Shares
    <3>4. i = j => k # Count(m, <<w, i>>) + 1
      BY <2>2, <3>1
    <3>5. k <= Count(m, <<w, i>>)
      <4>1. Count(m, <<w, i>>) \in Int /\ k \in Int
        BY <1>1
      <4>2. QED
        BY <3>2, <3>3, <3>4, <4>1
    <3>6. QED
      BY <3>1, <3>2, <3>5 DEF Claims
  <2>3. Claims(n, w) \subseteq Claims(m, w) \cup {new}
    BY <2>2
  <2> HIDE DEF new
  <2>4. Cardinality(Claims(n, w)) <= Cardinality(Claims(m, w)) + 1
    BY <1>4, <2>3, OneMore
  <2>5. Present(n, w) = Present(m, w) \cup {c}
    <3> SUFFICES ASSUME NEW q \in Processes
                 PROVE  Has(n, q, w) <=> Has(m, q, w) \/ q = c
      BY DEF Present
    <3>1. CASE q = p \/ q = c
      BY <1>5, <3>1 DEF Shares
    <3>2. CASE q # p /\ q # c
      BY <3>2 DEF Shares, SameEntry
    <3>3. QED
      BY <3>1, <3>2
  <2>6. Cardinality(Present(n, w)) = Cardinality(Present(m, w)) + 1
    BY <1>2, <1>3, <2>5, FS_AddElement
  <2>7. QED
    BY <1>3, <1>4, <2>4, <2>6
<1>6. CASE w \notin V
  <2>1. \A i \in 1 .. NFRAMES : Count(n, <<w, i>>) = Count(m, <<w, i>>)
    BY <1>1, <1>6 DEF Shares
  <2>2. Claims(n, w) = Claims(m, w)
    BY <1>1, <2>1 DEF Claims
  <2>3. Present(n, w) = Present(m, w)
    <3> SUFFICES ASSUME NEW q \in Processes
                 PROVE  Has(n, q, w) <=> Has(m, q, w)
      BY DEF Present
    <3>1. CASE q = c
      BY <1>6, <3>1 DEF Shares
    <3>2. CASE q # c
      BY <1>6, <3>2 DEF Shares, SameEntry
    <3>3. QED
      BY <3>1, <3>2
  <2>4. QED
    BY <1>3, <1>4, <2>2, <2>3
<1>7. QED
  BY <1>5, <1>6

\* The child sees what its parent sees, and nothing else changes.
LEMMA SharesSeen ==
  ASSUME NEW m, NEW n, NEW p \in Processes, NEW c \in Processes, NEW V,
         Sound(m), Shares(m, n, p, c, V), NEW w \in Pages
  PROVE  /\ \A q \in Processes \ {c} : Seen(n, q, w) = Seen(m, q, w)
         /\ Seen(n, c, w) = IF w \in V THEN Seen(m, p, w) ELSE holds("nothing")
<1>1. ASSUME NEW q \in Processes \ {c} PROVE Seen(n, q, w) = Seen(m, q, w)
  <2>1. /\ Has(n, q, w) <=> Has(m, q, w)
        /\ Has(m, q, w) => FrameOf(n, q, w) = FrameOf(m, q, w)
    <3>1. CASE q = p
      <4>1. CASE w \in V
        BY <3>1, <4>1 DEF Shares
      <4>2. CASE w \notin V
        BY <3>1, <4>2 DEF Shares, SameEntry
      <4>3. QED
        BY <4>1, <4>2
    <3>2. CASE q # p
      BY <3>2 DEF Shares, SameEntry
    <3>3. QED
      BY <3>1, <3>2
  <2>2. Has(m, q, w) => FrameOf(m, q, w) \in Frames
    BY FrameTaken
  <2>3. \A f \in Frames : Held(n, f) = Held(m, f)
    BY DEF Shares
  <2>4. QED
    BY <2>1, <2>2, <2>3 DEF Seen
<1>2. Seen(n, c, w) = IF w \in V THEN Seen(m, p, w) ELSE holds("nothing")
  <2>1. CASE w \in V
    <3>1. /\ Has(n, c, w) /\ Has(m, p, w)
          /\ FrameOf(n, c, w) = FrameOf(m, p, w)
      BY <2>1 DEF Shares
    <3>2. Held(n, FrameOf(m, p, w)) = Held(m, FrameOf(m, p, w))
      BY <3>1, FrameTaken DEF Shares
    <3>3. QED
      BY <2>1, <3>1, <3>2 DEF Seen
  <2>2. CASE w \notin V
    BY <2>2 DEF Shares, Seen
  <2>3. QED
    BY <2>1, <2>2
<1>3. QED
  BY <1>1, <1>2
----------------------------------------------------------------------------
(* Exec.                                                                   *)

\* n is m after an exec has replaced page v of p, which has it, and has left
\* the frame it had behind.
Replaced(m, n, v) ==
  /\ Sound(n)
  /\ \A w \in Pages \ {v} : Claims(n, w) = Claims(m, w)
  /\ \A w \in Pages : Present(n, w) = Present(m, w)
  /\ Cardinality(Claims(n, v)) <= Cardinality(Claims(m, v)) + 1
  /\ \A f \in Frames : Count(n, f) <= Count(m, f) \/ Count(n, f) <= 0

LEMMA LoadedType ==
  ASSUME NEW v \in Pages, v # "heap"
  PROVE  Loaded[v] \in Contents
<1>1. v \in {"code", "data", "stack"}
  BY MemoryAssumption
<1>2. CASE v = "code"
  BY <1>2 DEF Loaded, Contents, holds
<1>3. CASE v = "data"
  BY <1>3 DEF Loaded, Contents, holds
<1>4. CASE v = "stack"
  BY <1>4 DEF Loaded, Contents, holds
<1>5. QED
  BY <1>1, <1>2, <1>3, <1>4

\* A new frame for g, written to where p has the page.
LEMMA WrittenReplaces ==
  ASSUME NEW m, Sound(m), NEW g \in Processes, NEW p \in Processes,
         NEW v \in Pages, Has(m, g, v), Has(m, p, v), Taken(m, v) < NFRAMES,
         NEW x \in Contents
  PROVE  LET m1 == map_new(m, g, v)
             n  == [m1 EXCEPT !.content[FrameOf(m1, p, v)] = x]
         IN  /\ Replaced(m, n, v)
             /\ g = p => SeenOnlyBy(m, n, p, v) /\ Seen(n, p, v) = x
<1> DEFINE m1 == map_new(m, g, v)
           n  == [m1 EXCEPT !.content[FrameOf(m1, p, v)] = x]
<1>1. /\ GetsFrame(m, m1, g, v)
      /\ \A f \in Frames : Held(m1, f) = Held(m, f)
      /\ \A f \in Frames \ {NextFrame(m, v)} : Count(m1, f) = Count(m, f)
  BY MapNewGets
<1>2. Sound(m1) /\ Has(m1, p, v)
  BY <1>1, NewFrameSound DEF GetsFrame, SameEntry
<1>3. /\ Keeps(m1, n, p, v) /\ Held(n, FrameOf(m1, p, v)) = x
      /\ \A q \in Processes, w \in Pages : SameEntry(m1, n, q, w)
  BY <1>2, WriteKeeps
<1> HIDE DEF m1, n
<1>4. /\ Sound(n)
      /\ \A w \in Pages : Claims(n, w) = Claims(m1, w)
      /\ \A w \in Pages : Present(n, w) = Present(m1, w)
      /\ \A f \in Frames : Count(n, f) = Count(m1, f)
  BY <1>2, <1>3, KeepsSound DEF Keeps
<1>5. \A w \in Pages \ {v} : Claims(m1, w) = Claims(m, w)
  BY <1>1, NewFrameClaims
<1>6. Cardinality(Claims(m1, v)) <= Cardinality(Claims(m, v)) + 1
  BY <1>1, NewFrameClaims
<1>7. \A w \in Pages : Present(m1, w) = Present(m, w)
  BY <1>1 DEF Present, GetsFrame, SameEntry
<1>8. ASSUME NEW f \in Frames
      PROVE  Count(m1, f) <= Count(m, f) \/ Count(m1, f) <= 0
  <2>1. Count(m, f) \in Int
    BY MemoryTypes DEF Sound
  <2>2. QED
    BY <1>1, <2>1 DEF GetsFrame
<1>9. Replaced(m, n, v)
  BY <1>4, <1>5, <1>6, <1>7, <1>8 DEF Replaced
<1>10. ASSUME g = p PROVE SeenOnlyBy(m, n, p, v) /\ Seen(n, p, v) = x
  <2>1. FrameOf(m1, p, v) = NextFrame(m, v)
    BY <1>1, <1>10 DEF GetsFrame
  <2>2. ASSUME NEW q \in Processes, NEW w \in Pages, q # p \/ w # v
        PROVE  Seen(n, q, w) = Seen(m, q, w)
    <3>1. SameEntry(m, n, q, w)
      BY <1>1, <1>3, <1>10, <2>2 DEF GetsFrame, SameEntry
    <3>2. ASSUME Has(m, q, w)
          PROVE  Held(n, FrameOf(m, q, w)) = Held(m, FrameOf(m, q, w))
      <4>1. PICK i \in 1 .. NFRAMES :
              FrameOf(m, q, w) = <<w, i>> /\ i <= Taken(m, w)
        BY <3>2, TakenFrames
      <4>2. FrameOf(m, q, w) \in Frames \ {NextFrame(m, v)}
        BY <3>2, <4>1, FrameTaken DEF NextFrame
      <4>3. QED
        BY <1>1, <1>3, <2>1, <4>2 DEF Keeps
    <3>3. QED
      BY <3>1, <3>2 DEF Seen, SameEntry
  <2>3. Seen(n, p, v) = x
    <3>1. Has(n, p, v) /\ FrameOf(n, p, v) = FrameOf(m1, p, v)
      BY <1>2, <1>3 DEF Keeps
    <3>2. QED
      BY <1>3, <3>1 DEF Seen
  <2>4. QED
    BY <2>2, <2>3 DEF SeenOnlyBy
<1>11. QED
  BY <1>9, <1>10 DEF n, m1

LEMMA NewStackReplaces ==
  ASSUME NEW m, Sound(m), NEW p \in Processes, Has(m, p, "stack"),
         Taken(m, "stack") < NFRAMES
  PROVE  LET n == new_stack(m, p)
         IN  /\ Replaced(m, n, "stack")
             /\ SeenOnlyBy(m, n, p, "stack") /\ Seen(n, p, "stack") = Loaded["stack"]
<1>1. "stack" \in Pages /\ Loaded["stack"] \in Contents
  BY MemoryAssumption, LoadedType
<1> DEFINE m1 == map_new(m, p, "stack")
           n  == [m1 EXCEPT !.content[FrameOf(m1, p, "stack")] = Loaded["stack"]]
<1>2. FrameOf(m1, p, "stack") = NextFrame(m, "stack")
  BY <1>1, MapNewGets DEF GetsFrame
<1>3. new_frame(m, "stack") = NextFrame(m, "stack")
  BY DEF new_frame, NextFrame, Taken
<1>4. new_stack(m, p) = n
  <2> HIDE DEF m1
  <2>1. QED
    BY <1>2, <1>3 DEF new_stack, m1
<1>5. /\ Replaced(m, n, "stack")
      /\ SeenOnlyBy(m, n, p, "stack") /\ Seen(n, p, "stack") = Loaded["stack"]
  <2> HIDE DEF Loaded
  <2>1. QED
    BY <1>1, WrittenReplaces
<1>6. QED
  BY <1>4, <1>5

LEMMA SegmentReplaces ==
  ASSUME NEW m, Sound(m), NEW p \in Processes, global_PML4 \in Processes,
         NEW v \in {"code", "data"},
         v \in Pages =>
           Has(m, p, v) /\ Has(m, global_PML4, v) /\ Taken(m, v) < NFRAMES
  PROVE  LET n == load_segment(m, p, v)
         IN  IF v \in Pages
             THEN /\ Replaced(m, n, v)
                  /\ global_PML4 = p => /\ SeenOnlyBy(m, n, p, v)
                                        /\ Seen(n, p, v) = Loaded[v]
             ELSE n = m
<1>1. CASE v \in Pages
  <2> DEFINE m1 == map_new(m, global_PML4, v)
             n  == [m1 EXCEPT !.content[FrameOf(m1, p, v)] = Loaded[v]]
  <2>1. Loaded[v] \in Contents
    BY <1>1, LoadedType
  <2>2. load_segment(m, p, v) = n
    <3> HIDE DEF m1
    <3>1. QED
      BY <1>1 DEF load_segment, filled, FrameOf, m1
  <2>3. /\ Replaced(m, n, v)
        /\ global_PML4 = p => /\ SeenOnlyBy(m, n, p, v)
                              /\ Seen(n, p, v) = Loaded[v]
    <3> HIDE DEF Loaded
    <3>1. QED
      BY <1>1, <2>1, WrittenReplaces
  <2>4. QED
    BY <1>1, <2>2, <2>3
<1>2. CASE v \notin Pages
  BY <1>2 DEF load_segment
<1>3. QED
  BY <1>1, <1>2
----------------------------------------------------------------------------
(* The invariant of AddressSpace.                                          *)

LEMMA Becomes ==
  ASSUME NEW m, Sound(m), becomes(m)
  PROVE  Memory' = m
BY DEF Sound, MemoryType, becomes, Memory

LEMMA LiveFacts ==
  ASSUME ProcessesSound
  PROVE  /\ Live \in SUBSET Processes /\ IsFiniteSet(Live)
         /\ Cardinality(Live) \in 1 .. NPROC
<1>1. Live \in SUBSET Processes
  BY DEF Live
<1>2. IsFiniteSet(Live) /\ Cardinality(Live) \in Nat /\ Cardinality(Live) <= NPROC
  BY <1>1, ProcessesFinite
<1>3. Cardinality(Live) # 0
  BY <1>2, FS_EmptySet DEF ProcessesSound
<1>4. QED
  BY <1>1, <1>2, <1>3, MemoryAssumption

LEMMA ServedStep ==
  ASSUME MemoryInv, NEW p \in Live, NEW v \in Pages, Served(Memory, Memory', p, v),
         UNCHANGED <<global_PML4, heap, state, execs>>
  PROVE  MemoryInv'
<1>1. Sound(Memory')
  BY DEF Served
<1>2. p \in Processes /\ Live' = Live
  BY DEF Live
<1>3. \A w \in Pages : /\ Present(Memory, w) \subseteq Present(Memory', w)
                       /\ Present(Memory', w) \subseteq Present(Memory, w) \cup {p}
  BY DEF Served
<1>4. ProcessesSound'
  <2>1. ASSUME NEW q \in Live, NEW w \in DOMAIN Loaded
        PROVE  Has(Memory', q, w)
    <3>1. w \in Pages /\ q \in Present(Memory, w)
      BY DEF MemoryInv, ProcessesSound, Loaded, Present, Live
    <3>2. QED
      BY <1>3, <3>1 DEF Present
  <2>2. ASSUME NEW q \in Processes \ Live, NEW w \in Pages
        PROVE  ~Has(Memory', q, w)
    <3>1. q \notin Present(Memory, w) /\ q # p
      BY DEF MemoryInv, ProcessesSound, Present
    <3>2. QED
      BY <1>3, <3>1 DEF Present
  <2>3. QED
    BY <1>2, <2>1, <2>2 DEF MemoryInv, ProcessesSound
<1>5. ASSUME NEW f \in Frames PROVE Count(Memory', f) < Cardinality(Live)
  <2>1. Count(Memory, f) < Cardinality(Live) /\ Count(Memory, f) \in Int
    BY MemoryTypes DEF MemoryInv, FramesAccounted, Sound
  <2>2. Count(Memory', f) <= Count(Memory, f) \/ Count(Memory', f) <= 0
    BY DEF Served
  <2>3. Cardinality(Live) \in 1 .. NPROC /\ Count(Memory', f) \in Int
    BY <1>1, LiveFacts, MemoryTypes DEF MemoryInv, Sound
  <2>4. QED
    BY <2>1, <2>2, <2>3
<1>6. ASSUME NEW w \in Pages PROVE Accounted(Memory', w, execs)
  <2>1. Accounted(Memory, w, execs)
    BY DEF MemoryInv, FramesAccounted
  <2>2. CASE w # v
    BY <2>1, <2>2 DEF Served, Accounted
  <2>3. CASE w = v
    <3> DEFINE P  == Present(Memory, v)
    <3>1. /\ Present(Memory', v) = P \cup {p}
          /\ Cardinality(Claims(Memory', v)) <=
               Cardinality(Claims(Memory, v)) + IF Has(Memory, p, v) THEN 0 ELSE 1
      BY DEF Served
    <3>2. P \in SUBSET Processes /\ (p \in P <=> Has(Memory, p, v))
      BY <1>2 DEF Present
    <3> HIDE DEF P
    <3>3. IsFiniteSet(P) /\ Cardinality(P) \in Nat
      BY <3>2, ProcessesFinite
    <3>4. Cardinality(P \cup {p}) =
            IF p \in P THEN Cardinality(P) ELSE Cardinality(P) + 1
      BY <3>3, FS_AddElement
    <3>5. /\ Cardinality(Claims(Memory, v)) \in Nat
          /\ Cardinality(Claims(Memory', v)) \in Nat /\ execs \in Nat
      BY ClaimsFinite, MemoryAssumption DEF MemoryInv, ProcessesSound
    <3>6. Cardinality(Claims(Memory, v)) <= Cardinality(P) + execs
      BY <2>1, <2>3 DEF Accounted, P
    <3>7. Cardinality(Claims(Memory', v)) <= Cardinality(Present(Memory', v)) + execs
      BY <3>1, <3>2, <3>3, <3>4, <3>5, <3>6
    <3>8. QED
      BY <2>3, <3>7 DEF Accounted
  <2>4. QED
    BY <2>2, <2>3
<1>7. FramesAccounted'
  BY <1>2, <1>5, <1>6 DEF FramesAccounted
<1>8. QED
  BY <1>1, <1>4, <1>7 DEF MemoryInv

LEMMA StoreStep ==
  ASSUME FramesLast, MemoryInv, NEW p \in Processes, NEW v \in Pages,
         store(p, v) \/ kernel_store(p, v) \/ load(p, v)
  PROVE  /\ MemoryInv' /\ state[p] = "live"
         /\ Sound(Memory) /\ execs \in 0 .. MAX_EXECS /\ Accounted(Memory, v, execs)
         /\ store(p, v) => Memory' = stored(Memory, p, v)
         /\ kernel_store(p, v) => Memory' = kernel_stored(Memory, p, v)
         /\ load(p, v) => Memory' = accessed(Memory, p, v, FALSE)
<1>1. Sound(Memory) /\ execs \in 0 .. MAX_EXECS /\ Accounted(Memory, v, execs)
  BY DEF MemoryInv, ProcessesSound, FramesAccounted
<1>2. /\ state[p] = "live" /\ p \in Live
      /\ UNCHANGED <<global_PML4, heap, state, execs>>
  BY DEF store, kernel_store, load, Live
<1>3. ASSUME store(p, v)
      PROVE  Memory' = stored(Memory, p, v) /\ Served(Memory, Memory', p, v)
  <2>1. Served(Memory, stored(Memory, p, v), p, v)
    BY <1>1, StoreServes
  <2>2. Sound(stored(Memory, p, v)) /\ becomes(stored(Memory, p, v))
    BY <1>3, <2>1 DEF Served, store
  <2>3. QED
    BY <2>1, <2>2, Becomes
<1>4. ASSUME kernel_store(p, v)
      PROVE  Memory' = kernel_stored(Memory, p, v) /\ Served(Memory, Memory', p, v)
  <2>1. Served(Memory, kernel_stored(Memory, p, v), p, v)
    BY <1>1, KernelStoreServes
  <2>2. Sound(kernel_stored(Memory, p, v)) /\ becomes(kernel_stored(Memory, p, v))
    BY <1>4, <2>1 DEF Served, kernel_store
  <2>3. QED
    BY <2>1, <2>2, Becomes
<1>5. ASSUME load(p, v)
      PROVE  /\ Memory' = accessed(Memory, p, v, FALSE)
             /\ Served(Memory, Memory', p, v)
  <2>1. Served(Memory, accessed(Memory, p, v, FALSE), p, v)
    BY <1>1, AccessServes
  <2>2. faults(Memory, p, v, FALSE)
    BY <1>5 DEF load, faults, Memory
  <2>3. /\ Sound(accessed(Memory, p, v, FALSE))
        /\ becomes(accessed(Memory, p, v, FALSE))
    BY <1>5, <2>1, <2>2 DEF Served, load, accessed
  <2>4. QED
    BY <2>1, <2>3, Becomes
<1>6. Served(Memory, Memory', p, v)
  BY <1>3, <1>4, <1>5
<1>7. MemoryInv'
  BY <1>2, <1>6, ServedStep
<1>8. QED
  BY <1>1, <1>2, <1>3, <1>4, <1>5, <1>7

SharedPages(p) == {v \in Pages : in_vma(p, v) /\ Has(Memory, p, v)}

LEMMA ForkShares ==
  ASSUME MemoryInv, NEW p \in Processes, NEW c \in Processes, do_fork(p, c)
  PROVE  /\ p \in Live /\ c \notin Live /\ Live' = Live \cup {c}
         /\ Shares(Memory, Memory', p, c, SharedPages(p))
<1> DEFINE V == SharedPages(p)
           shared == {pte[p][v].frame : v \in V}
<1>1. Sound(Memory) /\ Memory \in MemoryType /\ ProcessesSound
  BY DEF MemoryInv, Sound
<1>2. /\ pte \in [Processes -> [Pages -> Entry]]
      /\ content \in [Frames -> Contents]
      /\ ref_count \in [Frames -> -1 .. NPROC - 1]
      /\ taken \in [Pages -> 0 .. NFRAMES]
      /\ state \in [Processes -> {"unborn", "live"}]
  BY <1>1 DEF MemoryType, Memory, ProcessesSound
<1>3. p \in Live /\ c \notin Live /\ Live' = Live \cup {c} /\ c # p
  BY <1>2 DEF do_fork, Live
<1>4. V = {v \in Pages : in_vma(p, v) /\ pte[p][v].p}
  BY DEF SharedPages, Has, Memory
<1>5. /\ pte' = [pte EXCEPT
          ![p] = [v \in Pages |->
                    IF v \in V THEN shared_entry(@[v]) ELSE @[v]],
          ![c] = [v \in Pages |->
                    IF v \in V THEN shared_entry(pte[p][v]) ELSE Absent]]
      /\ ref_count' = [f \in Frames |-> count_after_fork(f, shared)]
      /\ content' = content /\ taken' = taken
  BY <1>4 DEF do_fork
<1> HIDE DEF V
<1>6. V \subseteq Pages /\ \A v \in V : Has(Memory, p, v)
  BY DEF V, SharedPages
<1>7. \A w \in Pages : ~Has(Memory, c, w)
  BY <1>1, <1>3 DEF ProcessesSound
<1>8. /\ \A q \in Processes \ {p, c} : pte'[q] = pte[q]
      /\ \A w \in Pages \ V : pte'[p][w] = pte[p][w] /\ pte'[c][w] = Absent
      /\ \A v \in V : /\ pte'[p][v] = shared_entry(pte[p][v])
                      /\ pte'[c][v] = shared_entry(pte[p][v])
  BY <1>2, <1>3, <1>5, <1>6
<1>9. ASSUME NEW w \in Pages, NEW i \in 1 .. NFRAMES
      PROVE  <<w, i>> \in shared <=> w \in V /\ <<w, i>> = FrameOf(Memory, p, w)
  <2>1. \A v \in V : \E j \in 1 .. NFRAMES : pte[p][v].frame = <<v, j>>
    <3> SUFFICES ASSUME NEW v \in V
                 PROVE  \E j \in 1 .. NFRAMES : pte[p][v].frame = <<v, j>>
      OBVIOUS
    <3>1. v \in Pages /\ Has(Memory, p, v)
      BY <1>6
    <3>2. \E j \in 1 .. NFRAMES : FrameOf(Memory, p, v) = <<v, j>>
      BY <1>1, <3>1, TakenFrames
    <3>3. QED
      BY <3>2 DEF FrameOf, Memory
  <2>2. QED
    BY <2>1 DEF FrameOf, Memory
<1>10. \A f \in Frames : /\ ref_count'[f] = ref_count[f] + IF f \in shared THEN 1 ELSE 0
                         /\ ref_count[f] < NPROC - 1
  <2>1. Cardinality(Live \cup {c}) = Cardinality(Live) + 1
    BY <1>1, <1>3, LiveFacts, FS_AddElement
  <2>2. Cardinality(Live \cup {c}) <= NPROC
    BY <1>1, LiveFacts, ProcessesFinite
  <2>3. Cardinality(Live) < NPROC /\ Cardinality(Live) \in Nat
    BY <1>1, <2>1, <2>2, LiveFacts, MemoryAssumption
  <2>4. \A f \in Frames : ref_count[f] < Cardinality(Live)
    BY DEF MemoryInv, FramesAccounted, Count, Memory
  <2>5. \A f \in Frames : ref_count[f] < NPROC - 1
    BY <1>2, <2>3, <2>4, MemoryAssumption
  <2>6. QED
    BY <1>5, <2>5 DEF count_after_fork
<1> HIDE DEF shared
<1>11. Memory' \in MemoryType
  <2>1. pte' \in [Processes -> [Pages -> Entry]]
    <3>1. Absent \in Entry
      BY DEF Absent, Entry, Frames
    <3>2. \A e \in Entry : shared_entry(e) \in Entry
      BY DEF shared_entry, Entry
    <3>3. /\ [v \in Pages |-> IF v \in V THEN shared_entry(pte[p][v]) ELSE pte[p][v]]
               \in [Pages -> Entry]
          /\ [v \in Pages |-> IF v \in V THEN shared_entry(pte[p][v]) ELSE Absent]
               \in [Pages -> Entry]
      BY <1>2, <1>3, <3>1, <3>2
    <3>4. QED
      BY <1>2, <1>3, <1>5, <3>3
  <2>2. ref_count' \in [Frames -> -1 .. NPROC - 1]
    <3>1. \A f \in Frames : ref_count'[f] \in -1 .. NPROC - 1
      BY <1>2, <1>10, MemoryAssumption
    <3>2. QED
      BY <1>5, <3>1
  <2>3. QED
    BY <1>2, <1>5, <2>1, <2>2 DEF MemoryType, Memory
<1>12. /\ \A q \in Processes \ {p, c}, w \in Pages : SameEntry(Memory, Memory', q, w)
       /\ \A w \in Pages \ V : /\ SameEntry(Memory, Memory', p, w)
                               /\ ~Has(Memory', c, w) /\ ~Writable(Memory', c, w)
  BY <1>8 DEF SameEntry, Has, Writable, Marked, FrameOf, Memory, Absent
<1>13. \A v \in V, q \in {p, c} :
         /\ Has(Memory', q, v) /\ ~Writable(Memory', q, v) /\ Marked(Memory', q, v)
         /\ FrameOf(Memory', q, v) = FrameOf(Memory, p, v)
  <2>1. \A e \in Entry : /\ shared_entry(e).p = e.p /\ shared_entry(e).frame = e.frame
                         /\ ~shared_entry(e).w /\ shared_entry(e).cow
    BY DEF shared_entry, Entry
  <2>2. \A v \in V : pte[p][v] \in Entry /\ pte[p][v].p
    BY <1>2, <1>6 DEF Has, Memory
  <2>3. QED
    BY <1>8, <2>1, <2>2 DEF Has, Writable, Marked, FrameOf, Memory
<1>14. \A w \in Pages, i \in 1 .. NFRAMES :
         Count(Memory', <<w, i>>) = Count(Memory, <<w, i>>) +
           IF w \in V /\ <<w, i>> = FrameOf(Memory, p, w) THEN 1 ELSE 0
  <2> SUFFICES ASSUME NEW w \in Pages, NEW i \in 1 .. NFRAMES
               PROVE  Count(Memory', <<w, i>>) = Count(Memory, <<w, i>>) +
                        IF w \in V /\ <<w, i>> = FrameOf(Memory, p, w) THEN 1 ELSE 0
    OBVIOUS
  <2>1. ref_count'[<<w, i>>] = ref_count[<<w, i>>] + IF <<w, i>> \in shared THEN 1 ELSE 0
    BY <1>10, FrameNames
  <2>2. QED
    BY <1>9, <2>1 DEF Count, Memory
<1>15. \A w \in Pages : Taken(Memory', w) = Taken(Memory, w)
  BY <1>5 DEF Taken, Memory
<1>16. \A f \in Frames : Held(Memory', f) = Held(Memory, f)
  BY <1>5 DEF Held, Memory
<1>17. Shares(Memory, Memory', p, c, V)
  BY <1>3, <1>6, <1>7, <1>11, <1>12, <1>13, <1>14, <1>15, <1>16 DEF Shares
<1>18. QED
  BY <1>3, <1>17 DEF V

LEMMA ForkStep ==
  ASSUME MemoryInv, NEW p \in Processes, NEW c \in Processes, do_fork(p, c)
  PROVE  MemoryInv'
<1> DEFINE V == SharedPages(p)
<1>1. Sound(Memory) /\ ProcessesSound
  BY DEF MemoryInv
<1>2. /\ p \in Live /\ c \notin Live /\ Live' = Live \cup {c}
      /\ Shares(Memory, Memory', p, c, V)
  BY ForkShares
<1>3. Sound(Memory')
  BY <1>1, <1>2, SharesSound
<1>4. /\ \A w \in DOMAIN Loaded : w \in V /\ w \in Pages
      /\ V \subseteq Pages
  BY <1>1, <1>2 DEF SharedPages, in_vma, Loaded, ProcessesSound
<1> HIDE DEF V
<1>5. ASSUME NEW q \in Processes \ {c}, NEW w \in Pages
      PROVE  Has(Memory', q, w) <=> Has(Memory, q, w)
  <2>1. CASE q = p
    <3>1. CASE w \in V
      BY <1>2, <2>1, <3>1 DEF Shares
    <3>2. CASE w \notin V
      BY <1>2, <2>1, <3>2 DEF Shares, SameEntry
    <3>3. QED
      BY <3>1, <3>2
  <2>2. CASE q # p
    BY <1>2, <2>2 DEF Shares, SameEntry
  <2>3. QED
    BY <2>1, <2>2
<1>6. ProcessesSound'
  <2>1. state' \in [Processes -> {"unborn", "live"}]
    BY <1>1 DEF ProcessesSound, do_fork
  <2>2. global_PML4' \in Live' /\ heap' \subseteq Live' /\ execs' \in 0 .. MAX_EXECS
    BY <1>1, <1>2 DEF ProcessesSound, do_fork
  <2>3. \A q \in Live \cup {c}, w \in DOMAIN Loaded : Has(Memory', q, w)
    <3>1. \A w \in DOMAIN Loaded : Has(Memory', c, w)
      BY <1>2, <1>4 DEF Shares
    <3>2. \A q \in Live, w \in DOMAIN Loaded : Has(Memory', q, w)
      BY <1>1, <1>2, <1>4, <1>5 DEF ProcessesSound, Live
    <3>3. QED
      BY <3>1, <3>2
  <2>4. \A q \in Processes \ (Live \cup {c}), w \in Pages : ~Has(Memory', q, w)
    BY <1>1, <1>5 DEF ProcessesSound
  <2>5. QED
    BY <1>2, <2>1, <2>2, <2>3, <2>4 DEF ProcessesSound
<1>7. FramesAccounted'
  <2>1. Cardinality(Live \cup {c}) = Cardinality(Live) + 1
    BY <1>1, <1>2, LiveFacts, FS_AddElement
  <2>2. ASSUME NEW f \in Frames
        PROVE  Count(Memory', f) < Cardinality(Live \cup {c})
    <3>1. Count(Memory', f) <= Count(Memory, f) + 1
      <4>1. Count(Memory, f) \in Int
        BY <1>1, MemoryTypes DEF Sound
      <4>2. Count(Memory', f) = ref_count[f] \/ Count(Memory', f) = ref_count[f] + 1
        BY <4>1 DEF do_fork, count_after_fork, Count, Memory
      <4>3. QED
        BY <4>1, <4>2 DEF Count, Memory
    <3>2. Count(Memory, f) < Cardinality(Live)
      BY DEF MemoryInv, FramesAccounted
    <3>3. /\ Count(Memory, f) \in Int /\ Count(Memory', f) \in Int
          /\ Cardinality(Live) \in Int
      BY <1>1, <1>3, MemoryTypes, LiveFacts DEF Sound
    <3>4. QED
      BY <2>1, <3>1, <3>2, <3>3
  <2>3. ASSUME NEW w \in Pages PROVE Accounted(Memory', w, execs)
    <3>1. Accounted(Memory, w, execs)
      BY DEF MemoryInv, FramesAccounted
    <3>2. Cardinality(Claims(Memory', w)) - Cardinality(Present(Memory', w))
           <= Cardinality(Claims(Memory, w)) - Cardinality(Present(Memory, w))
      BY <1>1, <1>2, SharesClaims
    <3>3. /\ Present(Memory, w) \in SUBSET Processes
          /\ Present(Memory', w) \in SUBSET Processes
      BY DEF Present
    <3>4. /\ Cardinality(Claims(Memory, w)) \in Nat
          /\ Cardinality(Claims(Memory', w)) \in Nat
          /\ Cardinality(Present(Memory, w)) \in Nat
          /\ Cardinality(Present(Memory', w)) \in Nat
          /\ execs \in Nat
      BY <1>1, <3>3, ClaimsFinite, ProcessesFinite, MemoryAssumption
      DEF ProcessesSound
    <3>5. QED
      BY <3>1, <3>2, <3>4 DEF Accounted
  <2>4. execs' = execs
    BY DEF do_fork
  <2>5. QED
    BY <1>2, <2>2, <2>3, <2>4 DEF FramesAccounted
<1>8. QED
  BY <1>3, <1>6, <1>7 DEF MemoryInv

\* What both forms of execve do to the memory.
LEMMA ExecReplaces ==
  ASSUME FramesLast, MemoryInv, NEW p \in Processes, calls_exec(p)
  PROVE  LET m1 == new_stack(Memory, p)
             m2 == load_segment(m1, p, "code")
             m3 == load_segment(m2, p, "data")
         IN  /\ p \in Live /\ global_PML4 \in Live
             /\ Replaced(Memory, m1, "stack")
             /\ Replaced(m1, m2, "code")
             /\ IF "data" \in Pages THEN Replaced(m2, m3, "data") ELSE m3 = m2
             /\ SeenOnlyBy(Memory, m1, p, "stack")
             /\ Seen(m1, p, "stack") = Loaded["stack"]
             /\ global_PML4 = p =>
                  /\ SeenOnlyBy(m1, m2, p, "code")
                  /\ Seen(m2, p, "code") = Loaded["code"]
                  /\ "data" \in Pages => /\ SeenOnlyBy(m2, m3, p, "data")
                                         /\ Seen(m3, p, "data") = Loaded["data"]
<1> DEFINE m1 == new_stack(Memory, p)
           m2 == load_segment(m1, p, "code")
           m3 == load_segment(m2, p, "data")
<1>1. /\ Sound(Memory) /\ p \in Live /\ global_PML4 \in Live
      /\ global_PML4 \in Processes
      /\ execs \in 0 .. MAX_EXECS /\ execs < MAX_EXECS
  BY DEF MemoryInv, ProcessesSound, calls_exec, Live
<1>2. "code" \in Pages /\ "stack" \in Pages
  BY MemoryAssumption
<1>3. \A q \in Live, w \in Pages \ {"heap"} : Has(Memory, q, w)
  BY DEF MemoryInv, ProcessesSound, Loaded
<1>4. ASSUME NEW m, Sound(m), NEW w \in Pages,
             Claims(m, w) = Claims(Memory, w), Present(m, w) = Present(Memory, w)
      PROVE  Taken(m, w) < NFRAMES
  <2>1. Accounted(m, w, execs)
    BY <1>4 DEF MemoryInv, FramesAccounted, Accounted
  <2>2. QED
    BY <1>1, <1>4, <2>1, FrameIsLeft
<1>5. ASSUME NEW m, \A w \in Pages : Present(m, w) = Present(Memory, w)
      PROVE  \A q \in Live, w \in Pages \ {"heap"} : Has(m, q, w)
  <2> SUFFICES ASSUME NEW q \in Live, NEW w \in Pages \ {"heap"}
               PROVE  Has(m, q, w)
    OBVIOUS
  <2>1. q \in Present(Memory, w)
    BY <1>3 DEF Present, Live
  <2>2. q \in Present(m, w)
    BY <1>5, <2>1
  <2>3. QED
    BY <2>2 DEF Present
<1>6. /\ Replaced(Memory, m1, "stack")
      /\ SeenOnlyBy(Memory, m1, p, "stack")
      /\ Seen(m1, p, "stack") = Loaded["stack"]
  <2>1. Taken(Memory, "stack") < NFRAMES /\ Has(Memory, p, "stack")
    BY <1>1, <1>2, <1>3, <1>4
  <2> HIDE DEF Loaded
  <2>2. QED
    BY <1>1, <2>1, NewStackReplaces
<1> HIDE DEF m1
<1>7. /\ Sound(m1) /\ \A w \in Pages : Present(m1, w) = Present(Memory, w)
      /\ \A w \in Pages \ {"stack"} : Claims(m1, w) = Claims(Memory, w)
  BY <1>6 DEF Replaced
<1>8. /\ Replaced(m1, m2, "code")
      /\ global_PML4 = p => /\ SeenOnlyBy(m1, m2, p, "code")
                            /\ Seen(m2, p, "code") = Loaded["code"]
  <2>1. Taken(m1, "code") < NFRAMES /\ Has(m1, p, "code") /\ Has(m1, global_PML4, "code")
    BY <1>1, <1>2, <1>4, <1>5, <1>7
  <2> HIDE DEF Loaded
  <2>2. QED
    BY <1>1, <1>2, <1>7, <2>1, SegmentReplaces
<1> HIDE DEF m2
<1>9. /\ Sound(m2) /\ \A w \in Pages : Present(m2, w) = Present(Memory, w)
      /\ \A w \in Pages \ {"stack", "code"} : Claims(m2, w) = Claims(Memory, w)
  BY <1>7, <1>8 DEF Replaced
<1>10. IF "data" \in Pages
       THEN /\ Replaced(m2, m3, "data")
            /\ global_PML4 = p => /\ SeenOnlyBy(m2, m3, p, "data")
                                  /\ Seen(m3, p, "data") = Loaded["data"]
       ELSE m3 = m2
  <2>1. "data" \in Pages => /\ Taken(m2, "data") < NFRAMES /\ Has(m2, p, "data")
                            /\ Has(m2, global_PML4, "data")
    BY <1>1, <1>4, <1>5, <1>9
  <2> HIDE DEF Loaded
  <2>2. QED
    BY <1>1, <1>9, <2>1, SegmentReplaces
<1> HIDE DEF m3, Loaded
<1>11. QED
  BY <1>1, <1>6, <1>8, <1>10 DEF m1, m2, m3

LEMMA ReplacedStep ==
  ASSUME MemoryInv, NEW m, becomes(m), Sound(m),
         \A w \in Pages : /\ Present(m, w) = Present(Memory, w)
                          /\ Cardinality(Claims(m, w)) <=
                               Cardinality(Claims(Memory, w)) + 1,
         \A f \in Frames : Count(m, f) <= Count(Memory, f) \/ Count(m, f) <= 0,
         execs < MAX_EXECS, execs' = execs + 1,
         UNCHANGED <<global_PML4, state>>, heap' \subseteq heap
  PROVE  MemoryInv'
<1>1. Memory' = m /\ Live' = Live /\ ProcessesSound /\ Sound(Memory)
  BY Becomes DEF Live, MemoryInv
<1>2. \A q \in Processes, w \in Pages : Has(m, q, w) <=> Has(Memory, q, w)
  BY DEF Present
<1>3. ProcessesSound'
  <2>1. \A q \in Live, w \in DOMAIN Loaded : Has(m, q, w)
    BY <1>1, <1>2 DEF ProcessesSound, Loaded, Live
  <2>2. \A q \in Processes \ Live, w \in Pages : ~Has(m, q, w)
    BY <1>1, <1>2 DEF ProcessesSound
  <2>3. execs' \in 0 .. MAX_EXECS
    BY <1>1, MemoryAssumption DEF ProcessesSound
  <2>4. QED
    BY <1>1, <2>1, <2>2, <2>3 DEF ProcessesSound
<1>4. ASSUME NEW f \in Frames PROVE Count(m, f) < Cardinality(Live)
  <2>1. Count(Memory, f) < Cardinality(Live)
    BY DEF MemoryInv, FramesAccounted
  <2>2. /\ Count(Memory, f) \in Int /\ Count(m, f) \in Int
        /\ Cardinality(Live) \in 1 .. NPROC
    BY <1>1, LiveFacts, MemoryTypes DEF Sound
  <2>3. QED
    BY <2>1, <2>2
<1>5. ASSUME NEW w \in Pages PROVE Accounted(m, w, execs + 1)
  <2>1. /\ Accounted(Memory, w, execs) /\ Present(m, w) \in SUBSET Processes
        /\ Present(m, w) = Present(Memory, w)
    BY DEF MemoryInv, FramesAccounted, Present
  <2>2. /\ Cardinality(Claims(m, w)) \in Nat
        /\ Cardinality(Claims(Memory, w)) \in Nat
        /\ Cardinality(Present(m, w)) \in Nat /\ execs \in Nat
    BY <1>1, <2>1, ClaimsFinite, ProcessesFinite, MemoryAssumption
    DEF ProcessesSound
  <2>3. QED
    BY <2>1, <2>2 DEF Accounted
<1>6. FramesAccounted'
  BY <1>1, <1>4, <1>5 DEF FramesAccounted
<1>7. QED
  BY <1>1, <1>3, <1>6 DEF MemoryInv

LEMMA ExecStep ==
  ASSUME FramesLast, MemoryInv, NEW p \in Processes,
         do_execv(p) \/ do_execv_fails(p)
  PROVE  MemoryInv'
<1> DEFINE m1 == new_stack(Memory, p)
           m2 == load_segment(m1, p, "code")
           m3 == load_segment(m2, p, "data")
<1>1. /\ calls_exec(p) /\ UNCHANGED <<global_PML4, state>> /\ heap' \subseteq heap
      /\ IF do_execv(p) THEN becomes(m3) ELSE becomes(m1)
  BY DEF do_execv, do_execv_fails
<1>2. /\ Replaced(Memory, m1, "stack")
      /\ Replaced(m1, m2, "code")
      /\ IF "data" \in Pages THEN Replaced(m2, m3, "data") ELSE m3 = m2
  BY <1>1, ExecReplaces
<1> HIDE DEF m1, m2, m3
<1>3. Sound(Memory)
  BY DEF MemoryInv
<1>4. \A w : /\ Cardinality(Claims(m1, w)) \in Nat
             /\ Cardinality(Claims(m2, w)) \in Nat
             /\ Cardinality(Claims(m3, w)) \in Nat
             /\ Cardinality(Claims(Memory, w)) \in Nat
  BY ClaimsFinite
<1>5. ASSUME NEW m, NEW n, NEW v, Sound(m), Replaced(m, n, v)
      PROVE  /\ Sound(n)
             /\ \A w \in Pages : w # v => Claims(n, w) = Claims(m, w)
             /\ \A w \in Pages : Present(n, w) = Present(m, w)
             /\ Cardinality(Claims(n, v)) <= Cardinality(Claims(m, v)) + 1
             /\ \A f \in Frames : Count(n, f) <= Count(m, f) \/ Count(n, f) <= 0
             /\ \A f \in Frames : Count(n, f) \in Int /\ Count(m, f) \in Int
  BY <1>5, MemoryTypes DEF Replaced, Sound
<1>6. /\ Sound(m1)
      /\ \A w \in Pages : /\ Present(m1, w) = Present(Memory, w)
                          /\ Cardinality(Claims(m1, w)) <=
                               Cardinality(Claims(Memory, w)) + 1
                          /\ w # "stack" => Claims(m1, w) = Claims(Memory, w)
      /\ \A f \in Frames : Count(m1, f) <= Count(Memory, f) \/ Count(m1, f) <= 0
  BY <1>2, <1>3, <1>4, <1>5
<1>7. /\ Sound(m2)
      /\ \A w \in Pages : /\ Present(m2, w) = Present(Memory, w)
                          /\ Cardinality(Claims(m2, w)) <=
                               Cardinality(Claims(Memory, w)) + 1
                          /\ w # "stack" /\ w # "code"
                               => Claims(m2, w) = Claims(Memory, w)
  <2>1. /\ Sound(m2)
        /\ \A w \in Pages : w # "code" => Claims(m2, w) = Claims(m1, w)
        /\ \A w \in Pages : Present(m2, w) = Present(m1, w)
        /\ Cardinality(Claims(m2, "code")) <= Cardinality(Claims(m1, "code")) + 1
    BY <1>2, <1>5, <1>6
  <2>2. "code" \in Pages /\ Claims(m1, "code") = Claims(Memory, "code")
    BY <1>6, MemoryAssumption
  <2>3. ASSUME NEW w \in Pages
        PROVE  Cardinality(Claims(m2, w)) <= Cardinality(Claims(Memory, w)) + 1
    <3>1. CASE w = "code"
      BY <2>1, <2>2, <3>1
    <3>2. CASE w # "code"
      BY <1>6, <2>1, <3>2
    <3>3. QED
      BY <3>1, <3>2
  <2>4. QED
    BY <1>6, <2>1, <2>3
<1>8. \A f \in Frames : Count(m2, f) <= Count(Memory, f) \/ Count(m2, f) <= 0
  <2>1. \A f \in Frames : /\ Count(m2, f) <= Count(m1, f) \/ Count(m2, f) <= 0
                          /\ Count(m2, f) \in Int /\ Count(m1, f) \in Int
    BY <1>2, <1>5, <1>6
  <2>2. \A f \in Frames : /\ Count(m1, f) <= Count(Memory, f) \/ Count(m1, f) <= 0
                          /\ Count(Memory, f) \in Int
    BY <1>2, <1>3, <1>5, <1>6
  <2>3. QED
    BY <2>1, <2>2
<1>9. /\ Sound(m3)
      /\ \A w \in Pages : /\ Present(m3, w) = Present(Memory, w)
                          /\ Cardinality(Claims(m3, w)) <=
                               Cardinality(Claims(Memory, w)) + 1
      /\ \A f \in Frames : Count(m3, f) <= Count(Memory, f) \/ Count(m3, f) <= 0
  <2>1. CASE "data" \notin Pages
    BY <1>2, <1>7, <1>8, <2>1
  <2>2. CASE "data" \in Pages
    <3>1. /\ Sound(m3)
          /\ \A w \in Pages : w # "data" => Claims(m3, w) = Claims(m2, w)
          /\ \A w \in Pages : Present(m3, w) = Present(m2, w)
          /\ Cardinality(Claims(m3, "data")) <= Cardinality(Claims(m2, "data")) + 1
          /\ \A f \in Frames : Count(m3, f) <= Count(m2, f) \/ Count(m3, f) <= 0
          /\ \A f \in Frames : Count(m3, f) \in Int /\ Count(m2, f) \in Int
      BY <1>2, <1>5, <1>7, <2>2
    <3>2. Claims(m2, "data") = Claims(Memory, "data")
      BY <1>7, <2>2
    <3>3. ASSUME NEW w \in Pages
          PROVE  Cardinality(Claims(m3, w)) <= Cardinality(Claims(Memory, w)) + 1
      <4>1. CASE w = "data"
        BY <3>1, <3>2, <4>1
      <4>2. CASE w # "data"
        BY <1>7, <3>1, <4>2
      <4>3. QED
        BY <4>1, <4>2
    <3>4. ASSUME NEW f \in Frames
          PROVE  Count(m3, f) <= Count(Memory, f) \/ Count(m3, f) <= 0
      <4>1. Count(Memory, f) \in Int
        BY <1>3, MemoryTypes DEF Sound
      <4>2. QED
        BY <1>8, <3>1, <4>1
    <3>5. QED
      BY <1>7, <3>1, <3>3, <3>4
  <2>3. QED
    BY <2>1, <2>2
<1>10. execs < MAX_EXECS /\ execs' = execs + 1
  BY <1>1 DEF calls_exec
<1>11. CASE do_execv(p)
  BY <1>1, <1>9, <1>10, <1>11, ReplacedStep
<1>12. CASE ~do_execv(p)
  BY <1>1, <1>6, <1>10, <1>12, ReplacedStep
<1>13. QED
  BY <1>11, <1>12

LEMMA SbrkStep ==
  ASSUME MemoryInv, NEW p \in Processes, do_sbrk(p)
  PROVE  MemoryInv'
<1>1. /\ p \in Live /\ Live' = Live /\ Memory' = Memory
      /\ UNCHANGED <<global_PML4, state, execs>> /\ heap' = heap \cup {p}
  BY DEF do_sbrk, Live, Memory, ram
<1>2. ProcessesSound'
  BY <1>1 DEF MemoryInv, ProcessesSound
<1>3. FramesAccounted'
  BY <1>1 DEF MemoryInv, FramesAccounted
<1>4. QED
  BY <1>1, <1>2, <1>3 DEF MemoryInv

LEMMA StutterStep ==
  ASSUME MemoryInv, UNCHANGED vars
  PROVE  MemoryInv'
<1>1. /\ Live' = Live /\ Memory' = Memory
      /\ UNCHANGED <<global_PML4, heap, state, execs>>
  BY DEF vars, Live, Memory
<1>2. ProcessesSound'
  BY <1>1 DEF MemoryInv, ProcessesSound
<1>3. FramesAccounted'
  BY <1>1 DEF MemoryInv, FramesAccounted
<1>4. QED
  BY <1>1, <1>2, <1>3 DEF MemoryInv

LEMMA InitSound ==
  ASSUME FramesLast, Init
  PROVE  MemoryInv
<1>1. /\ NPROC \in Nat \ {0} /\ NFRAMES \in Nat \ {0} /\ MAX_EXECS \in Nat
      /\ \A v \in Pages : v # "heap" <=> v \in DOMAIN Loaded
      /\ DOMAIN Loaded \subseteq Pages /\ 0 \in Processes /\ 1 \in 1 .. NFRAMES
  BY MemoryAssumption DEF Loaded, Processes
<1>2. /\ \A p \in Processes, v \in Pages :
           /\ Has(Memory, p, v) <=> p = 0 /\ v # "heap"
           /\ Writable(Memory, p, v) <=> p = 0 /\ v # "heap"
           /\ p = 0 /\ v # "heap" => FrameOf(Memory, p, v) = <<v, 1>>
      /\ \A v \in Pages : Taken(Memory, v) = IF v = "heap" THEN 0 ELSE 1
  BY DEF Init, Memory, Has, Writable, FrameOf, Taken, mapped, Absent
<1>3. \A v \in Pages, i \in 1 .. NFRAMES :
        /\ Count(Memory, <<v, i>>) = IF v # "heap" /\ i = 1 THEN 0 ELSE -1
        /\ v = "heap" \/ i # 1 => Held(Memory, <<v, i>>) = holds("junk")
  <2> SUFFICES ASSUME NEW v \in Pages, NEW i \in 1 .. NFRAMES
               PROVE  /\ Count(Memory, <<v, i>>) = IF v # "heap" /\ i = 1 THEN 0 ELSE -1
                      /\ v = "heap" \/ i # 1 => Held(Memory, <<v, i>>) = holds("junk")
    OBVIOUS
  <2>1. <<v, i>> \in (DOMAIN Loaded) \X {1} <=> v # "heap" /\ i = 1
    BY <1>1
  <2> HIDE DEF Loaded, holds
  <2>2. /\ ref_count[<<v, i>>] = IF v # "heap" /\ i = 1 THEN 0 ELSE -1
        /\ v = "heap" \/ i # 1 => content[<<v, i>>] = holds("junk")
    BY <2>1, FrameNames DEF Init
  <2>3. QED
    BY <2>2 DEF Count, Held, Memory
<1>4. Memory \in MemoryType
  <2>1. pte \in [Processes -> [Pages -> Entry]]
    <3>1. \A v \in Pages : <<v, 1>> \in Frames
      BY <1>1, FrameNames
    <3>2. Absent \in Entry /\ \A v \in Pages : mapped(<<v, 1>>) \in Entry
      BY <3>1 DEF Absent, mapped, Entry, Frames
    <3>3. QED
      BY <3>2 DEF Init
  <2>2. content \in [Frames -> Contents]
    <3>1. holds("junk") \in Contents
      BY DEF holds, Contents
    <3>2. \A f \in Frames : f \in (DOMAIN Loaded) \X {1} => Loaded[f[1]] \in Contents
      <4> SUFFICES ASSUME NEW v \in DOMAIN Loaded PROVE Loaded[v] \in Contents
        OBVIOUS
      <4>1. v \in Pages /\ v # "heap"
        BY <1>1
      <4> HIDE DEF Loaded
      <4>2. QED
        BY <4>1, LoadedType
    <3> HIDE DEF Loaded, holds, Contents
    <3>3. QED
      BY <3>1, <3>2 DEF Init
  <2>3. ref_count \in [Frames -> -1 .. NPROC - 1]
    BY <1>1 DEF Init
  <2>4. taken \in [Pages -> 0 .. NFRAMES]
    BY <1>1 DEF Init
  <2>5. QED
    BY <2>1, <2>2, <2>3, <2>4 DEF MemoryType, Memory
<1> HIDE DEF Loaded, Memory
<1>5. EntriesPlaced(Memory) /\ EntriesMarked(Memory) /\ WritersAlone(Memory)
  BY <1>1, <1>2 DEF EntriesPlaced, EntriesMarked, WritersAlone
<1>6. FramesCounted(Memory)
  <2> SUFFICES ASSUME NEW v \in Pages, NEW i \in 1 .. NFRAMES
               PROVE  IF i <= Taken(Memory, v) THEN Counted(Memory, v, i)
                      ELSE Untouched(Memory, v, i)
    BY DEF FramesCounted
  <2>1. CASE i <= Taken(Memory, v)
    <3>1. v # "heap" /\ i = 1
      BY <1>2, <2>1
    <3>2. UsersIn(Memory, v, i) \subseteq {0}
      BY <1>2 DEF UsersIn
    <3>3. Cardinality(UsersIn(Memory, v, i)) <= 1
      <4>1. IsFiniteSet({0}) /\ Cardinality({0}) = 1
        BY FS_Singleton
      <4>2. QED
        BY <3>2, <4>1, SubsetSize
    <3>4. Count(Memory, <<v, i>>) = 0
      BY <1>3, <3>1
    <3>5. QED
      BY <2>1, <3>3, <3>4 DEF Counted
  <2>2. CASE ~(i <= Taken(Memory, v))
    <3>1. v = "heap" \/ i # 1
      BY <1>2, <2>2
    <3>2. QED
      BY <1>3, <2>2, <3>1 DEF Untouched
  <2>3. QED
    BY <2>1, <2>2
<1>7. Live = {0}
  BY <1>1 DEF Init, Live
<1>8. ProcessesSound
  <2>1. state \in [Processes -> {"unborn", "live"}]
    BY DEF Init
  <2>2. global_PML4 \in Live /\ heap \subseteq Live /\ execs \in 0 .. MAX_EXECS
    BY <1>1, <1>7 DEF Init
  <2>3. QED
    BY <1>1, <1>2, <1>7, <2>1, <2>2 DEF ProcessesSound
<1>9. Cardinality(Live) = 1
  BY <1>7, FS_Singleton
<1>10. \A f \in Frames : Count(Memory, f) < Cardinality(Live)
  BY <1>9 DEF Init, Count, Memory
<1>11. ASSUME NEW v \in Pages PROVE Accounted(Memory, v, execs)
  <2>1. execs = 0
    BY DEF Init
  <2>2. CASE v = "heap"
    <3>1. Claims(Memory, v) = {} /\ Present(Memory, v) = {}
      BY <1>2, <2>2 DEF Claims, Present
    <3>2. Cardinality({}) = 0
      BY FS_EmptySet
    <3>3. QED
      BY <2>1, <3>1, <3>2 DEF Accounted
  <2>3. CASE v # "heap"
    <3>1. Present(Memory, v) = {0}
      BY <1>1, <1>2, <2>3 DEF Present
    <3>2. Claims(Memory, v) \subseteq {<<1, 0>>}
      <4> SUFFICES ASSUME NEW i \in 1 .. NFRAMES, NEW j \in 0 .. NPROC - 1,
                          i <= Taken(Memory, v), j <= Count(Memory, <<v, i>>)
                   PROVE  i = 1 /\ j = 0
        BY DEF Claims
      <4>1. i = 1
        BY <1>2, <2>3
      <4>2. Count(Memory, <<v, i>>) = 0
        BY <1>3, <2>3, <4>1
      <4>3. QED
        BY <4>1, <4>2
    <3>3. /\ Cardinality({0}) = 1
          /\ IsFiniteSet({<<1, 0>>}) /\ Cardinality({<<1, 0>>}) = 1
      BY FS_Singleton
    <3>4. Cardinality(Claims(Memory, v)) <= 1
      BY <3>2, <3>3, SubsetSize
    <3>5. QED
      BY <2>1, <3>1, <3>3, <3>4 DEF Accounted
  <2>4. QED
    BY <2>2, <2>3
<1>12. QED
  BY <1>4, <1>5, <1>6, <1>8, <1>10, <1>11
  DEF MemoryInv, Sound, FramesAccounted

LEMMA MemoryInvStep ==
  ASSUME FramesLast, MemoryInv, [Next]_vars
  PROVE  MemoryInv'
<1>1. ASSUME NEW p \in Processes, NEW v \in Pages,
             store(p, v) \/ kernel_store(p, v) \/ load(p, v)
      PROVE  MemoryInv'
  BY <1>1, StoreStep
<1>2. ASSUME NEW p \in Processes, do_sbrk(p) PROVE MemoryInv'
  BY <1>2, SbrkStep
<1>3. ASSUME NEW p \in Processes, NEW c \in Processes, do_fork(p, c)
      PROVE  MemoryInv'
  BY <1>3, ForkStep
<1>4. ASSUME NEW p \in Processes, do_execv(p) \/ do_execv_fails(p)
      PROVE  MemoryInv'
  BY <1>4, ExecStep
<1>5. ASSUME UNCHANGED vars PROVE MemoryInv'
  BY <1>5, StutterStep
<1>6. QED
  BY <1>1, <1>2, <1>3, <1>4, <1>5 DEF Next

\* Page frames: the kernel's counts and page tables stay as fork, exec, sbrk
\* and the page fault handler need them, and there is a frame whenever one is
\* asked for.
THEOREM MemoryStaysSound ==
  ASSUME FramesLast
  PROVE  Spec => []MemoryInv
<1>1. Init => MemoryInv
  BY InitSound
<1>2. MemoryInv /\ [Next]_vars => MemoryInv'
  BY MemoryInvStep
<1>3. QED
  BY <1>1, <1>2, PTL DEF Spec

\* The reference counts of the kernel, which are int64_t (physical.h, struct
\* page_sp), stay between that of a free frame and the number of processes.
THEOREM CountsStayInRange ==
  ASSUME FramesLast
  PROVE  Spec => []TypeOK
<1>1. MemoryInv => TypeOK
  <2> SUFFICES ASSUME MemoryInv PROVE TypeOK
    OBVIOUS
  <2>1. /\ pte \in [Processes -> [Pages -> Entry]]
        /\ content \in [Frames -> Contents]
        /\ ref_count \in [Frames -> -1 .. NPROC - 1]
        /\ taken \in [Pages -> 0 .. NFRAMES]
    BY DEF MemoryInv, Sound, MemoryType, Memory
  <2>2. /\ global_PML4 \in Processes /\ heap \subseteq Processes
        /\ state \in [Processes -> {"unborn", "live"}]
        /\ execs \in 0 .. MAX_EXECS
    BY DEF MemoryInv, ProcessesSound, Live
  <2>3. QED
    BY <2>1, <2>2 DEF TypeOK
<1>2. QED
  BY <1>1, MemoryStaysSound, PTL

\* The users of a frame are those of the page it was taken for.
LEMMA UsersOfFrame ==
  ASSUME NEW v \in Pages, NEW i \in 1 .. NFRAMES
  PROVE  users(<<v, i>>) = UsersIn(Memory, v, i)
BY DEF users, UsersIn, Has, FrameOf, Memory

\* copied and made_writable give a frame up, or take it over, by its count
\* alone: it is never less than what fork has shared.
THEOREM CountsCoverUsers ==
  ASSUME FramesLast
  PROVE  Spec => []RefCountCovers
<1>1. ASSUME MemoryInv PROVE RefCountCovers
  <2> SUFFICES ASSUME NEW v \in Pages, NEW i \in 1 .. NFRAMES
               PROVE  Cardinality(users(<<v, i>>)) <= ref_count[<<v, i>>] + 1
    BY DEF RefCountCovers, Frames
  <2>1. Sound(Memory) /\ users(<<v, i>>) = UsersIn(Memory, v, i)
    BY <1>1, UsersOfFrame DEF MemoryInv
  <2>2. CASE i <= Taken(Memory, v)
    BY <2>1, <2>2 DEF Sound, FramesCounted, Counted, Count, Memory
  <2>3. CASE ~(i <= Taken(Memory, v))
    <3>1. UsersIn(Memory, v, i) = {}
      BY <2>1, <2>3 DEF UsersIn, Sound, EntriesPlaced
    <3>2. ref_count[<<v, i>>] = -1
      BY <2>1, <2>3 DEF Sound, FramesCounted, Untouched, Count, Memory
    <3>3. Cardinality({}) = 0
      BY FS_EmptySet
    <3>4. QED
      BY <2>1, <3>1, <3>2, <3>3
  <2>4. QED
    BY <2>2, <2>3
<1>2. QED
  BY <1>1, MemoryStaysSound, PTL

\* Copy on write: whoever may write to a frame is its only user, after any
\* sequence of forks, faults and calls of execve.
THEOREM WritableIsNotShared ==
  ASSUME FramesLast
  PROVE  Spec => []SharedIsReadOnly
<1>1. ASSUME MemoryInv PROVE SharedIsReadOnly
  <2> SUFFICES ASSUME NEW p \in Processes, NEW v \in Pages, pte[p][v].w
               PROVE  users(pte[p][v].frame) = {p}
    BY DEF SharedIsReadOnly
  <2>1. Sound(Memory) /\ Writable(Memory, p, v)
    BY <1>1 DEF MemoryInv, Writable, Memory
  <2>2. Has(Memory, p, v)
    BY <2>1 DEF Sound, EntriesPlaced
  <2>3. PICK i \in 1 .. NFRAMES : FrameOf(Memory, p, v) = <<v, i>>
    BY <2>1, <2>2, TakenFrames
  <2>4. UsersIn(Memory, v, i) = {p}
    BY <2>1, <2>2, <2>3 DEF UsersIn, Sound, WritersAlone
  <2>5. QED
    BY <2>3, <2>4, UsersOfFrame DEF FrameOf, Memory
<1>2. QED
  BY <1>1, MemoryStaysSound, PTL

\* No store to a page of an area that may be written ends in "SEGMENTATION
\* FAULT": what fork made read-only bears its mark.
THEOREM LegalStoresSucceed ==
  ASSUME FramesLast
  PROVE  Spec => []LegalStoreSucceeds
<1>1. ASSUME MemoryInv PROVE LegalStoreSucceeds
  <2>1. \A p \in Processes, v \in Pages :
          pte[p][v].p => pte[p][v].w \/ pte[p][v].cow
    BY <1>1 DEF MemoryInv, Sound, EntriesMarked, Has, Writable, Marked, Memory
  <2>2. QED
    BY <2>1 DEF LegalStoreSucceeds, segv, faults, may_write, Memory
<1>2. QED
  BY <1>1, MemoryStaysSound, PTL
----------------------------------------------------------------------------
(* AddressSpace implements PrivateMemory.                                  *)

ViewOf(m) == [p \in Processes |-> [v \in Pages |-> Seen(m, p, v)]]

LEMMA ViewIsSeen ==
  view = ViewOf(Memory) /\ view' = ViewOf(Memory')
BY DEF view, ViewOf, Seen, Has, Held, FrameOf, Memory

LEMMA SeenPages ==
  ASSUME NEW m, Sound(m), NEW p \in Processes, NEW v \in Pages
  PROVE  Has(m, p, v) <=> Seen(m, p, v) # holds("nothing")
<1>1. CASE Has(m, p, v)
  <2>1. Seen(m, p, v) \in Contents
    BY <1>1, ContentsType
  <2>2. holds("nothing") \notin Contents
    BY DEF holds, Contents
  <2>3. QED
    BY <1>1, <2>1, <2>2
<1>2. CASE ~Has(m, p, v)
  BY <1>2 DEF Seen
<1>3. QED
  BY <1>1, <1>2

\* A store, or a first access to a page of the heap.
LEMMA AccessImplements ==
  ASSUME NEW m, Sound(m), NEW n, NEW p \in Processes, NEW v \in Pages,
         SeenOnlyBy(m, n, p, v), v \in DOMAIN Loaded => Has(m, p, v),
         \/ Seen(n, p, v) = word_stored(Read(m, p, v))
         \/ ~Has(m, p, v) /\ Seen(n, p, v) = holds("junk")
  PROVE  Private!Step(p, ViewOf(m), ViewOf(n))
<1> DEFINE old == ViewOf(m)
           new == ViewOf(n)
<1>1. /\ \A q \in Processes \ {p} : new[q] = old[q]
      /\ new[p] = [old[p] EXCEPT ![v] = Seen(n, p, v)]
      /\ old[p][v] = Seen(m, p, v)
  BY DEF ViewOf, SeenOnlyBy
<1> HIDE DEF old, new
<1>2. CASE Has(m, p, v)
  <2>1. old[p][v] # holds("nothing")
    BY <1>1, <1>2, SeenPages
  <2>2. new[p] = [old[p] EXCEPT ![v] = word_stored(@)]
    BY <1>1, <1>2 DEF Read
  <2>3. Private!Stored(p, old, new)
    BY <2>1, <2>2 DEF Private!Stored
  <2>4. QED
    BY <1>1, <2>3 DEF Private!Step, old, new
<1>3. CASE ~Has(m, p, v)
  <2>1. old[p][v] = holds("nothing") /\ v \in Pages \ DOMAIN Loaded
    BY <1>1, <1>3, SeenPages
  <2>2. Seen(n, p, v) \in {holds("junk"), word_stored(holds("junk"))}
    BY <1>3 DEF Read
  <2>3. Private!Touched(p, old, new)
    BY <1>1, <2>1, <2>2 DEF Private!Touched
  <2>4. QED
    BY <1>1, <2>3 DEF Private!Step, old, new
<1>4. QED
  BY <1>2, <1>3

LEMMA ForkImplements ==
  ASSUME MemoryInv, NEW p \in Processes, NEW c \in Processes, do_fork(p, c)
  PROVE  Private!Step(c, view, view')
<1> DEFINE V == SharedPages(p)
<1>1. /\ Sound(Memory) /\ ProcessesSound /\ p \in Live /\ c \notin Live
      /\ Shares(Memory, Memory', p, c, V)
  BY ForkShares DEF MemoryInv
<1>2. DOMAIN Loaded \subseteq V /\ V \subseteq Pages
  BY <1>1 DEF SharedPages, in_vma, Loaded, ProcessesSound
<1> HIDE DEF V
<1>3. \A q \in Processes \ {c}, w \in Pages : Seen(Memory', q, w) = Seen(Memory, q, w)
  BY <1>1, SharesSeen
<1>4. \A w \in Pages :
        Seen(Memory', c, w) = IF w \in V THEN Seen(Memory, p, w) ELSE holds("nothing")
  BY <1>1, SharesSeen
<1>5. \A w \in Pages : Seen(Memory, c, w) = holds("nothing")
  BY <1>1 DEF ProcessesSound, Seen
<1>6. \A q \in Processes \ {c} : view'[q] = view[q]
  BY <1>3, ViewIsSeen DEF ViewOf
<1>7. view[c] = Private!NoMemory
  BY <1>5, ViewIsSeen DEF ViewOf, Private!NoMemory
<1>8. view'[c] = [v \in Pages |-> IF v \in V THEN view[p][v] ELSE holds("nothing")]
  BY <1>4, ViewIsSeen DEF ViewOf
<1>9. p \in Processes \ {c}
  BY <1>1
<1>10. Private!Forked(c, p, view, view')
  <2> HIDE DEF Loaded
  <2>1. QED
    BY <1>2, <1>7, <1>8 DEF Private!Forked
<1>11. QED
  BY <1>6, <1>9, <1>10 DEF Private!Step

\* Exec, by a process whose table is the one that load_elf changes.
LEMMA ExecImplements ==
  ASSUME FramesLast, ExecFirst = TRUE, MemoryInv, MemoryInv', NEW p \in Processes,
         do_execv(p) \/ do_execv_fails(p)
  PROVE  Private!Step(p, view, view')
<1> DEFINE m1 == new_stack(Memory, p)
           m2 == load_segment(m1, p, "code")
           m3 == load_segment(m2, p, "data")
<1>1. /\ calls_exec(p) /\ global_PML4 = p
      /\ IF do_execv(p) THEN becomes(m3) ELSE becomes(m1)
  BY DEF do_execv, do_execv_fails, calls_exec
<1>2. /\ Replaced(Memory, m1, "stack")
      /\ Replaced(m1, m2, "code")
      /\ IF "data" \in Pages THEN Replaced(m2, m3, "data") ELSE m3 = m2
      /\ SeenOnlyBy(Memory, m1, p, "stack")
      /\ Seen(m1, p, "stack") = Loaded["stack"]
      /\ SeenOnlyBy(m1, m2, p, "code")
      /\ Seen(m2, p, "code") = Loaded["code"]
      /\ "data" \in Pages => /\ SeenOnlyBy(m2, m3, p, "data")
                             /\ Seen(m3, p, "data") = Loaded["data"]
  <2> HIDE DEF Loaded
  <2>1. QED
    BY <1>1, ExecReplaces
<1> HIDE DEF m1, m2, m3
<1>3. Sound(m1) /\ Sound(m3)
  BY <1>2 DEF Replaced
<1>4. /\ "code" \in Pages /\ "stack" \in Pages
      /\ \A v : v \in DOMAIN Loaded <=>
           v \in Pages /\ (v = "code" \/ v = "data" \/ v = "stack")
  BY MemoryAssumption DEF Loaded
<1> HIDE DEF Loaded
<1>5. \A q \in Processes, w \in Pages :
        Seen(m1, q, w) = IF q = p /\ w = "stack" THEN Loaded[w]
                         ELSE Seen(Memory, q, w)
  BY <1>2 DEF SeenOnlyBy
<1>6. \A q \in Processes, w \in Pages :
        Seen(m2, q, w) = IF q = p /\ w = "code" THEN Loaded[w]
                         ELSE Seen(m1, q, w)
  BY <1>2 DEF SeenOnlyBy
<1>7. \A q \in Processes, w \in Pages :
        Seen(m3, q, w) = IF q = p /\ w = "data" THEN Loaded[w]
                         ELSE Seen(m2, q, w)
  BY <1>2 DEF SeenOnlyBy
<1>8. \A q \in Processes, w \in Pages :
        Seen(m3, q, w) = IF q = p /\ w \in DOMAIN Loaded THEN Loaded[w]
                         ELSE Seen(Memory, q, w)
  <2> SUFFICES ASSUME NEW q \in Processes, NEW w \in Pages
               PROVE  Seen(m3, q, w) = IF q = p /\ w \in DOMAIN Loaded THEN Loaded[w]
                                       ELSE Seen(Memory, q, w)
    OBVIOUS
  <2>1. CASE q = p /\ w \in DOMAIN Loaded
    BY <1>4, <1>5, <1>6, <1>7, <2>1
  <2>2. CASE q # p \/ w \notin DOMAIN Loaded
    BY <1>4, <1>5, <1>6, <1>7, <2>2
  <2>3. QED
    BY <2>1, <2>2
<1>9. CASE do_execv(p)
  <2>1. Memory' = m3
    BY <1>1, <1>3, <1>9, Becomes
  <2>2. \A q \in Processes \ {p} : view'[q] = view[q]
    BY <1>8, <2>1, ViewIsSeen DEF ViewOf
  <2>3. view'[p] = [v \in Pages |-> IF v \in DOMAIN Loaded THEN Loaded[v] ELSE view[p][v]]
    BY <1>8, <2>1, ViewIsSeen DEF ViewOf
  <2>4. QED
    BY <2>2, <2>3 DEF Private!Step, Private!Executed
<1>10. CASE ~do_execv(p)
  <2>1. Memory' = m1
    BY <1>1, <1>3, <1>10, Becomes
  <2>2. \A q \in Processes \ {p} : view'[q] = view[q]
    BY <1>5, <2>1, ViewIsSeen DEF ViewOf
  <2>3. view'[p] = [v \in Pages |-> IF v \in {"stack"} THEN Loaded[v] ELSE view[p][v]]
    BY <1>5, <2>1, ViewIsSeen DEF ViewOf
  <2>4. QED
    BY <2>2, <2>3 DEF Private!Step, Private!Executed
<1>11. QED
  BY <1>9, <1>10

LEMMA StoreImplements ==
  ASSUME FramesLast, StoreFirst = TRUE, MemoryInv,
         NEW p \in Processes, NEW v \in Pages,
         store(p, v) \/ kernel_store(p, v) \/ load(p, v)
  PROVE  Private!Step(p, view, view')
<1>1. /\ state[p] = "live" /\ Sound(Memory) /\ execs \in 0 .. MAX_EXECS
      /\ Accounted(Memory, v, execs)
      /\ store(p, v) => Memory' = stored(Memory, p, v)
      /\ kernel_store(p, v) => Memory' = kernel_stored(Memory, p, v)
      /\ load(p, v) => Memory' = accessed(Memory, p, v, FALSE)
  BY StoreStep
<1>2. v \in DOMAIN Loaded => Has(Memory, p, v)
  BY <1>1 DEF MemoryInv, ProcessesSound, Live
<1>3. /\ SeenOnlyBy(Memory, Memory', p, v)
      /\ \/ Seen(Memory', p, v) = word_stored(Read(Memory, p, v))
         \/ ~Has(Memory, p, v) /\ Seen(Memory', p, v) = holds("junk")
  <2>1. CASE store(p, v)
    BY <1>1, <2>1, StoreServes
  <2>2. CASE kernel_store(p, v)
    <3>1. Writable(Memory, p, v) \/ ~Has(Memory, p, v)
      BY <2>2 DEF kernel_store, Writable, Has, Memory
    <3>2. QED
      BY <1>1, <2>2, <3>1, KernelStoreServes
  <2>3. CASE load(p, v)
    <3>1. ~Has(Memory, p, v)
      BY <2>3 DEF load, Has, Memory
    <3>2. SeenOnlyBy(Memory, Memory', p, v) /\ Seen(Memory', p, v) = Read(Memory, p, v)
      BY <1>1, <2>3, AccessServes
    <3>3. QED
      BY <3>1, <3>2 DEF Read
  <2>4. QED
    BY <2>1, <2>2, <2>3
<1>4. Private!Step(p, ViewOf(Memory), ViewOf(Memory'))
  BY <1>1, <1>2, <1>3, AccessImplements
<1>5. QED
  BY <1>4, ViewIsSeen

\* What a process finds in its memory depends on its own stores, on fork and
\* on exec alone: fork, copied, made_writable, map_new and load_elf, on frames
\* that processes share, implement memories that they do not.  As the run
\* memory, for programs that call execve in the process forked last and give
\* system calls buffers that they have written to since; the runs
\* exec_elsewhere and kernel_writes show what happens to others.
THEOREM MemoryIsPrivate ==
  ASSUME FramesLast, ExecFirst = TRUE, StoreFirst = TRUE
  PROVE  Spec => HasPrivateMemory
<1>1. ASSUME Init PROVE Private!Init
  <2>1. 0 \in Processes /\ \A v \in Pages : v # "heap" <=> v \in DOMAIN Loaded
    BY MemoryAssumption DEF Processes, Loaded
  <2>2. \A v \in Pages : v # "heap" => <<v, 1>> \in (DOMAIN Loaded) \X {1}
    BY <2>1
  <2>3. \A v \in Pages : <<v, 1>> \in Frames
    BY MemoryAssumption DEF Frames
  <2> HIDE DEF Loaded
  <2>4. \A v \in Pages : v # "heap" => content[<<v, 1>>] = Loaded[v]
    BY <1>1, <2>2, <2>3 DEF Init
  <2>5. \A q \in Processes, v \in Pages :
          view[q][v] = IF q = 0 /\ v # "heap" THEN Loaded[v] ELSE holds("nothing")
    BY <1>1, <2>4 DEF Init, view, mapped, Absent
  <2>6. view = [q \in Processes |->
             IF q = 0
             THEN [v \in Pages |->
                     IF v \in DOMAIN Loaded THEN Loaded[v] ELSE holds("nothing")]
             ELSE [v \in Pages |-> holds("nothing")]]
    BY <2>1, <2>5 DEF view
  <2>7. QED
    BY <2>1, <2>6 DEF Private!Init, Private!NoMemory
<1>2. MemoryInv /\ MemoryInv' /\ [Next]_vars => [Private!Next]_view
  <2> SUFFICES ASSUME MemoryInv, MemoryInv', [Next]_vars
               PROVE  (\E p \in Processes : Private!Step(p, view, view')) \/ view' = view
    BY DEF Private!Next
  <2>1. ASSUME NEW p \in Processes, NEW v \in Pages,
               store(p, v) \/ kernel_store(p, v) \/ load(p, v)
        PROVE  Private!Step(p, view, view')
    BY <2>1, StoreImplements
  <2>2. ASSUME NEW p \in Processes, do_sbrk(p) PROVE view' = view
    BY <2>2 DEF do_sbrk, ram, view
  <2>3. ASSUME NEW p \in Processes, NEW c \in Processes, do_fork(p, c)
        PROVE  Private!Step(c, view, view')
    BY <2>3, ForkImplements
  <2>4. ASSUME NEW p \in Processes, do_execv(p) \/ do_execv_fails(p)
        PROVE  Private!Step(p, view, view')
    BY <2>4, ExecImplements
  <2>5. ASSUME UNCHANGED vars PROVE view' = view
    BY <2>5 DEF vars, view
  <2>6. QED
    BY <2>1, <2>2, <2>3, <2>4, <2>5 DEF Next
<1>3. QED
  BY <1>1, <1>2, MemoryStaysSound, PTL DEF Spec, HasPrivateMemory, Private!Spec
=============================================================================
