---------------------------- MODULE AddressSpace ----------------------------
(***************************************************************************)
(* The memory of user processes in SBUnix: page frames and their reference *)
(* counts, the page table of each process, fork with copy-on-write, the    *)
(* page fault handler, sbrk and exec.                                      *)
(*                                                                         *)
(* System calls and the page fault handler run with interrupts off: each   *)
(* is one step, a load or store together with the fault it causes.  Which  *)
(* process runs is left to Process: here any live one may.  do_exit frees  *)
(* no frame and no table: a process that has ended, be it by a             *)
(* segmentation fault, takes no further step and is not told apart.        *)
(*                                                                         *)
(* A store is made by the program, or by the kernel in a system call: read *)
(* fills a buffer, waitpid a status.  The kernel may write to read-only    *)
(* pages, as CR0.WP is clear: the entry that it reaches its page tables    *)
(* through (virmm.c, line 193) gives no right to write.                    *)
(*                                                                         *)
(* self_ref_read and self_ref_write reach the table of the running         *)
(* process; map_virmem_to_phymem the table that global_PML4 points to,     *)
(* which is that of the process forked last.                               *)
(***************************************************************************)
EXTENDS Integers, FiniteSets

CONSTANTS
  NPROC,       \* bound: processes that are ever created
  Pages,       \* of a process: "code", "data", "heap" and "stack", or some
  NFRAMES,     \* bound: frames for copies of one page; they are never freed
  MAX_EXECS,   \* bound: calls of execve
  ExecFirst,   \* TRUE: programs call execve in the process forked last only
  StoreFirst   \* TRUE: a buffer given to a system call has been written to by
               \* the program since the last fork, or never

ASSUME MemoryAssumption ==
  /\ NPROC \in Nat \ {0} /\ NFRAMES \in Nat \ {0} /\ MAX_EXECS \in Nat
  /\ Pages \subseteq {"code", "data", "heap", "stack"}
  /\ {"code", "stack"} \subseteq Pages
  /\ ExecFirst \in BOOLEAN /\ StoreFirst \in BOOLEAN

VARIABLES
  pte,         \* process -> page -> page table entry
  content,     \* frame -> what it holds
  ref_count,   \* frame -> its reference count, as the kernel keeps it
  taken,       \* page -> frames that have been taken for it
  global_PML4, \* the process whose table map_virmem_to_phymem changes
  heap,        \* processes whose heap VMA includes the page "heap"
  state,       \* process -> "unborn" or "live"
  execs        \* calls of execve

vars == <<pte, content, ref_count, taken, global_PML4, heap, state, execs>>
ram  == <<pte, content, ref_count, taken>>

Processes == 0 .. NPROC - 1

\* The code takes the first free frame.  Which one does not matter, so they
\* are named for the page they were taken for.  allocate_page_user returns 0
\* when all are in use, which is then mapped.
NoFrame == <<"code", 0>>
Frames  == {NoFrame} \cup (Pages \X (1 .. NFRAMES))

\* What a page holds: what exec has put there, and whether a program has since
\* stored a word.  Exec does not load the heap; a new frame holds anything.
holds(x)       == [loaded |-> x, stored |-> FALSE]
word_stored(x) == [x EXCEPT !.stored = TRUE]
Loaded   == [v \in Pages \ {"heap"} |->
  holds(CASE v = "code"  -> "text"
          [] v = "data"  -> "initialized"
          [] v = "stack" -> "arguments")]
Contents ==
  [loaded : {"text", "initialized", "arguments", "junk"}, stored : BOOLEAN]

\* Page table entries: the frame, and the bits PTE_P, PTE_W and PTE_COW.
Absent   == [frame |-> NoFrame, p |-> FALSE, w |-> FALSE, cow |-> FALSE]
Entry    == [frame : Frames, p : BOOLEAN, w : BOOLEAN, cow : BOOLEAN]
mapped(f) == [frame |-> f, p |-> TRUE, w |-> TRUE, cow |-> FALSE]
----------------------------------------------------------------------------
(* The steps of a call as functions on the memory m = [pte, content,       *)
(* ref_count, taken], so that a call can make several.                     *)

Memory ==
  [pte |-> pte, content |-> content, ref_count |-> ref_count, taken |-> taken]

becomes(m) ==
  /\ pte' = m.pte
  /\ content' = m.content
  /\ ref_count' = m.ref_count
  /\ taken' = m.taken

\* The frame that allocate_page_user returns for page v.
new_frame(m, v) ==
  IF m.taken[v] < NFRAMES THEN <<v, m.taken[v] + 1>> ELSE NoFrame

\* A new frame for page v of process p.
map_new(m, p, v) ==
  LET f == new_frame(m, v)
      t == [m EXCEPT !.pte[p][v] = mapped(f)]
  IN IF f = NoFrame THEN t
     ELSE [t EXCEPT !.taken[v] = @ + 1, !.ref_count[f] = 0]

\* The areas of p: code is the only one that may not be written.
in_vma(p, v)   == v = "heap" => p \in heap
may_write(p, v) == in_vma(p, v) /\ v # "code"

\* Faulty variant: the page moves without its contents.
copied_empty(m, p, v) ==
  [map_new(m, p, v) EXCEPT !.ref_count[m.pte[p][v].frame] = @ - 1]

\* Copy on write: the page moves to a new frame.
copied(m, p, v) ==
  LET old == m.pte[p][v].frame
      m1  == map_new(m, p, v)
  IN [m1 EXCEPT !.content[new_frame(m, v)] = m.content[old],
                !.ref_count[old] = @ - 1]

\* A write to a page that is present and read-only: it is copied, or taken
\* over by its last user.
made_writable(m, p, v) ==
  IF m.ref_count[m.pte[p][v].frame] = 0
  THEN [m EXCEPT !.pte[p][v] = mapped(m.pte[p][v].frame)]
  ELSE copied(m, p, v)

\* The page fault handler, called for an access to a page that does not allow
\* it, ends in do_exit: "SEGMENTATION FAULT".
faults(m, p, v, write) == ~m.pte[p][v].p \/ (write /\ ~m.pte[p][v].w)

segv(m, p, v, write) ==
  /\ faults(m, p, v, write)
  /\ \/ ~in_vma(p, v)
     \/ m.pte[p][v].p /\ ~(may_write(p, v) /\ m.pte[p][v].cow)

page_fault_handler(m, p, v) ==
  IF ~m.pte[p][v].p THEN map_new(m, p, v) ELSE made_writable(m, p, v)

\* An access that does not end in a segmentation fault.
accessed(m, p, v, write) ==
  IF faults(m, p, v, write) THEN page_fault_handler(m, p, v) ELSE m

\* A word that the program stores.
stored(m, p, v) ==
  LET m1 == accessed(m, p, v, TRUE)
  IN [m1 EXCEPT !.content[m1.pte[p][v].frame] = word_stored(@)]

\* A word that the kernel stores: it faults only when the page is not there.
kernel_stored(m, p, v) ==
  LET m1 == accessed(m, p, v, FALSE)
  IN [m1 EXCEPT !.content[m1.pte[p][v].frame] = word_stored(@)]

\* The whole page, as load_elf writes it.
filled(m, p, v) == [m EXCEPT !.content[m.pte[p][v].frame] = Loaded[v]]
----------------------------------------------------------------------------
\* init, once it has executed bin/init; its table is the kernel's.
Init ==
  /\ pte = [p \in Processes |-> [v \in Pages |->
              IF p = 0 /\ v # "heap" THEN mapped(<<v, 1>>) ELSE Absent]]
  /\ content = [f \in Frames |-> IF f \in (DOMAIN Loaded) \X {1}
                                 THEN Loaded[f[1]] ELSE holds("junk")]
  /\ ref_count = [f \in Frames |->
                    IF f \in (DOMAIN Loaded) \X {1} THEN 0 ELSE -1]
  /\ taken = [v \in Pages |-> IF v = "heap" THEN 0 ELSE 1]
  /\ global_PML4 = 0
  /\ heap = {}
  /\ state = [p \in Processes |-> IF p = 0 THEN "live" ELSE "unborn"]
  /\ execs = 0

store(p, v) ==
  /\ state[p] = "live"
  /\ ~segv(Memory, p, v, TRUE)
  /\ becomes(stored(Memory, p, v))
  /\ UNCHANGED <<global_PML4, heap, state, execs>>

\* A system call writes to a page that p may write to.
kernel_store(p, v) ==
  /\ state[p] = "live" /\ may_write(p, v)
  /\ StoreFirst => pte[p][v].w \/ ~pte[p][v].p
  /\ becomes(kernel_stored(Memory, p, v))
  /\ UNCHANGED <<global_PML4, heap, state, execs>>

\* A load changes something only when the page is not there.
load(p, v) ==
  /\ state[p] = "live"
  /\ ~pte[p][v].p /\ ~segv(Memory, p, v, FALSE)
  /\ becomes(page_fault_handler(Memory, p, v))
  /\ UNCHANGED <<global_PML4, heap, state, execs>>

\* Bound: a program enlarges its heap once.
do_sbrk(p) ==
  /\ state[p] = "live" /\ p \notin heap
  /\ heap' = heap \cup {p}
  /\ UNCHANGED <<ram, global_PML4, state, execs>>

\* Faulty variants: parent and child keep write access; or lose it without
\* the mark that fork took it; or the new user is not counted, or parent and
\* child both are.
shared_entry_writable(e) == [e EXCEPT !.cow = TRUE]
shared_entry_unmarked(e) == [e EXCEPT !.w = FALSE]
count_after_fork_kept(f, shared) == ref_count[f]
count_after_fork_both(f, shared) ==
  ref_count[f] + IF f \in shared THEN 2 ELSE 0

shared_entry(e) == [e EXCEPT !.w = FALSE, !.cow = TRUE]

count_after_fork(f, shared) == ref_count[f] + IF f \in shared THEN 1 ELSE 0

\* copy_mm and set_child_pt: the child shares every present page of the areas
\* of the parent.
do_fork(p, c) ==
  LET pages  == {v \in Pages : in_vma(p, v) /\ pte[p][v].p}
      shared == {pte[p][v].frame : v \in pages}
  IN /\ state[p] = "live" /\ state[c] = "unborn"
     /\ \A d \in Processes : state[d] = "unborn" => c <= d
     /\ pte' = [pte EXCEPT
          ![p] = [v \in Pages |->
                    IF v \in pages THEN shared_entry(@[v]) ELSE @[v]],
          ![c] = [v \in Pages |->
                    IF v \in pages THEN shared_entry(pte[p][v]) ELSE Absent]]
     /\ ref_count' = [f \in Frames |-> count_after_fork(f, shared)]
     /\ global_PML4' = c
     /\ heap' = IF p \in heap THEN heap \cup {c} ELSE heap
     /\ state' = [state EXCEPT ![c] = "live"]
     /\ UNCHANGED <<content, taken, execs>>

\* The new stack goes into the table of p; it is filled through a kernel
\* address.
new_stack(m, p) ==
  LET m1 == map_new(m, p, "stack")
  IN [m1 EXCEPT !.content[new_frame(m, "stack")] = Loaded["stack"]]

\* load_elf maps a segment where global_PML4 points to, and copies it to the
\* address it has for p, be it in the table of another process.
load_segment(m, p, v) ==
  IF v \in Pages THEN filled(map_new(m, global_PML4, v), p, v) ELSE m

calls_exec(p) ==
  /\ state[p] = "live"
  /\ ExecFirst => global_PML4 = p
  /\ execs < MAX_EXECS
  /\ execs' = execs + 1

\* load_elf finds no such file, when the stack has been replaced.
do_execv_fails(p) ==
  /\ calls_exec(p)
  /\ becomes(new_stack(Memory, p))
  /\ UNCHANGED <<global_PML4, heap, state>>

do_execv(p) ==
  LET m == load_segment(new_stack(Memory, p), p, "code")
  IN /\ calls_exec(p)
     /\ becomes(load_segment(m, p, "data"))
     /\ heap' = heap \ {p}
     /\ UNCHANGED <<global_PML4, state>>

Next ==
  \E p \in Processes :
    \/ \E v \in Pages : store(p, v) \/ kernel_store(p, v) \/ load(p, v)
    \/ do_sbrk(p)
    \/ \E c \in Processes : do_fork(p, c)
    \/ do_execv(p)
    \/ do_execv_fails(p)

Spec == Init /\ [][Next]_vars
----------------------------------------------------------------------------
\* The kernel's counts stay in range: none falls below free, and none exceeds
\* what all processes make together that could share the frame.
TypeOK ==
  /\ pte \in [Processes -> [Pages -> Entry]]
  /\ content \in [Frames -> Contents]
  /\ ref_count \in [Frames -> -1 .. NPROC - 1]
  /\ taken \in [Pages -> 0 .. NFRAMES]
  /\ global_PML4 \in Processes
  /\ heap \subseteq Processes
  /\ state \in [Processes -> {"unborn", "live"}]
  /\ execs \in 0 .. MAX_EXECS

\* The processes that use a frame, for the page it was taken for.
users(f) == {p \in Processes : pte[p][f[1]].p /\ pte[p][f[1]].frame = f}

\* "-1: free, 0: used by one process, n: used by n+1 process" (physical.h):
\* the count may be too high, as exec and exit do not lower it, and never too
\* low.
RefCountCovers ==
  \A f \in Frames \ {NoFrame} : Cardinality(users(f)) <= ref_count[f] + 1

\* A frame that two processes use is writable in neither: a store goes through
\* the handler.
SharedIsReadOnly ==
  \A p \in Processes, v \in Pages :
    pte[p][v].w => users(pte[p][v].frame) = {p}

\* do_fork takes the right to write from pages that the program may write.
\* Each is marked then, or writable: the handler does not take a legal store
\* for a segmentation fault.
LegalStoreSucceeds ==
  \A p \in Processes, v \in Pages :
    state[p] = "live" /\ may_write(p, v) => ~segv(Memory, p, v, TRUE)

\* elf.c: "map code/text segment".  A process executes the program that was
\* loaded for it.
ProgramIsLoaded ==
  \A p \in Processes :
    state[p] = "live" => content[pte[p]["code"].frame].loaded = "text"

\* What the processes see of it all: the contents of their pages.
view == [p \in Processes |-> [v \in Pages |->
           IF pte[p][v].p THEN content[pte[p][v].frame] ELSE holds("nothing")]]

Private == INSTANCE PrivateMemory WITH
  Fresh <- holds("junk"), Absent <- holds("nothing"), Written <- word_stored,
  mem <- view

\* Each process has a memory of its own: fork, exec, copy-on-write and demand
\* paging implement PrivateMemory.
HasPrivateMemory == Private!Spec
============================================================================
