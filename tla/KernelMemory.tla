---------------------------- MODULE KernelMemory ----------------------------
(***************************************************************************)
(* What the kernel of SBUnix allocates for its processes: the pools of     *)
(* kmalloc, the page tables of four levels with their self-reference, and  *)
(* the way both change in fork, exec, demand paging and clean_dead.        *)
(*                                                                         *)
(* Physical memory is numbered in pages.  The kernel sees page n at        *)
(* VIR_START + n pages, so one number stands for both addresses of a page  *)
(* of a pool.  Virtual addresses are numbered in pages as well; where the  *)
(* code computes with bytes they are in table entries, of which a page     *)
(* holds TABLE_SIZE.                                                       *)
(*                                                                         *)
(* A system call is one step: interrupts are off.  kmalloc without a page, *)
(* and a fault in the kernel, end in hlt with interrupts off: the machine  *)
(* stops within the call.                                                  *)
(*                                                                         *)
(* Which process runs next is Process; reference counts and the contents   *)
(* of pages are AddressSpace.                                              *)
(***************************************************************************)
EXTENDS Integers, Sequences, FiniteSets

CONSTANTS
  TABLE_SIZE,      \* entries of a table (512)
  KERNPT_NUMBER,   \* size of the pool of the kernel's own tables (128)
  PROCESS_NUMBER,  \* processes, and the unit of the other pools (128)
  KMALLOC_BASE,    \* the first page of the pools
  KERNEL_PAGES,    \* pages the kernel keeps and maps (8192, 32 MB)
  PAGE_NUM         \* pages of the machine

ASSUME KernelMemoryAssumption ==
  /\ {TABLE_SIZE, KERNPT_NUMBER, PROCESS_NUMBER, KMALLOC_BASE, KERNEL_PAGES,
      PAGE_NUM} \subseteq Nat
  /\ TABLE_SIZE >= 8 /\ PROCESS_NUMBER >= 2 /\ KERNPT_NUMBER > 0
  /\ 0 < KMALLOC_BASE /\ KERNEL_PAGES <= PAGE_NUM
  /\ KERNEL_PAGES % TABLE_SIZE = 0
  /\ KMALLOC_BASE + KERNPT_NUMBER + PROCESS_NUMBER * 24 <= KERNEL_PAGES

\* One table of level 2 maps the pages the kernel keeps; the pool of tables and
\* the frames suffice for the boot and the first program, with three tables for
\* each mapping at most.
ASSUME BootAssumption ==
  /\ KERNEL_PAGES <= TABLE_SIZE * TABLE_SIZE
  /\ 3 * (KERNEL_PAGES \div TABLE_SIZE) < KERNPT_NUMBER
  /\ KERNEL_PAGES + 6 <= PAGE_NUM

VARIABLES
  used,        \* pool -> indices whose bit is set in its bitmap
  table,       \* page of a table -> its entries that are not zero
  frames,      \* page frames of user memory that have been taken
  global_PML4, \* the table that map_virmem_to_phymem changes
  task,        \* slot of the TASK pool -> task_struct, or NoTask
  current,     \* the slot of the running task
  halted       \* hlt with interrupts off

vars == <<used, table, frames, global_PML4, task, current, halted>>
ram  == <<used, table, frames, global_PML4>>
----------------------------------------------------------------------------
(* kmalloc                                                                 *)

Flags == {"KERNPT", "TASK", "KSTACK", "MM", "USERPT", "VMA", "FILE"}

NUMBER == [f \in Flags |->
             CASE f = "KERNPT"           -> KERNPT_NUMBER
               [] f \in {"USERPT", "VMA"} -> PROCESS_NUMBER * 10
               [] OTHER                  -> PROCESS_NUMBER]

get_base ==
  LET task_base   == KMALLOC_BASE + NUMBER["KERNPT"]
      kstack_base == task_base + NUMBER["TASK"]
      mm_base     == kstack_base + NUMBER["KSTACK"]
      userpt_base == mm_base + NUMBER["MM"]
      vma_base    == userpt_base + NUMBER["USERPT"]
  IN [KERNPT |-> KMALLOC_BASE, TASK |-> task_base, KSTACK |-> kstack_base,
      MM |-> mm_base, USERPT |-> userpt_base, VMA |-> vma_base,
      FILE |-> vma_base + NUMBER["VMA"]]

\* The steps of a call are functions on the memory m = [used, table, frames,
\* global_PML4, halted], so that a call can make several.  Once the machine
\* has halted, no step changes anything.
Memory == [used |-> used, table |-> table, frames |-> frames,
           global_PML4 |-> global_PML4, halted |-> FALSE]

put(f, i, v) == [j \in DOMAIN f \cup {i} |-> IF j = i THEN v ELSE f[j]]

lowest(S) == CHOOSE x \in S : \A y \in S : x <= y

\* Faulty variants: the last page of a pool is never given out, or the one
\* behind it is.
unused_but_last(m, f) == (0 .. NUMBER[f] - 2) \ m.used[f]
unused_and_next(m, f) == (0 .. NUMBER[f]) \ m.used[f]

unused(m, f) == (0 .. NUMBER[f] - 1) \ m.used[f]

\* The address that kmalloc returns.  That of a stack is its upper end.
page_of(m, f) == get_base[f] + lowest(unused(m, f))
address(m, f) == IF f = "KSTACK" THEN page_of(m, f) + 1 ELSE page_of(m, f)

marked(m, f) == [m EXCEPT !.used[f] = @ \cup {lowest(unused(m, f))}]

kmalloc(m, f) ==
  IF m.halted \/ unused(m, f) = {} THEN [m EXCEPT !.halted = TRUE]
  ELSE IF f \in {"KERNPT", "USERPT"}
  THEN [marked(m, f) EXCEPT !.table = put(@, page_of(m, f), <<>>)]
  ELSE marked(m, f)

\* Faulty variant: the stack is freed by its upper end.
bit_of_upper_end(f, addr) == addr - get_base[f]

bit_of(f, addr) == (IF f = "KSTACK" THEN addr - 1 ELSE addr) - get_base[f]

\* The calls of kfree for some addresses.
kfree(m, f, addrs) == [m EXCEPT !.used[f] = @ \ {bit_of(f, addr) : addr \in addrs}]

\* allocate_page_user: 0 when there is none.
free_frames(m) == (KERNEL_PAGES .. PAGE_NUM - 1) \ m.frames
new_frame(m)   == IF free_frames(m) = {} THEN 0 ELSE lowest(free_frames(m))
take_frame(m)  ==
  [m EXCEPT !.frames = IF m.halted THEN @ ELSE @ \cup ({new_frame(m)} \ {0})]
----------------------------------------------------------------------------
(* Page tables                                                             *)

PML4 == 4
PDPT == 3
PDT  == 2
PT   == 1
Levels == PT .. PML4

SELF == TABLE_SIZE - 2

\* Page numbers of the addresses the code uses.
at(i4, i3, i2, i1) ==
  ((i4 * TABLE_SIZE + i3) * TABLE_SIZE + i2) * TABLE_SIZE + i1
VIR_START == at(TABLE_SIZE - 1, TABLE_SIZE - 2, 0, 0)
CODE      == at(0, 0, 2, 0)
DATA      == at(0, 0, 3, 0)
HEAP_BASE == at(0, 1, 0, 0)
STACK_TOP == at(0, 4, 0, 0)

\* get_pml4e_index and its likes; an entry of each level spans so many pages.
span == <<at(0, 0, 0, 1), at(0, 0, 1, 0), at(0, 1, 0, 0), at(1, 0, 0, 0)>>
index(level, page) == (page \div span[level]) % TABLE_SIZE

\* An entry: the page it leads to, and its flags.
NoEntry == [to |-> 0, bits |-> {}]
entry(page, bits) == [to |-> page, bits |-> bits]

content(tables, t, i) ==
  IF t \in DOMAIN tables /\ i \in DOMAIN tables[t]
  THEN tables[t][i] ELSE NoEntry

set_content(m, t, i, e) ==
  IF m.halted THEN m
  ELSE [m EXCEPT !.table[t] =
          IF e = NoEntry THEN [j \in DOMAIN @ \ {i} |-> @[j]] ELSE put(@, i, e)]

\* Where the processor looks for the entry of a page at each level, from the
\* table in CR3; 0 where there is no table.
walk(tables, root, page) ==
  LET pdpt == content(tables, root, index(PML4, page)).to
      pdt  == content(tables, pdpt, index(PDPT, page)).to
      pt   == content(tables, pdt, index(PDT, page)).to
  IN <<pt, pdt, pdpt, root>>

translate(tables, root, page) ==
  content(tables, walk(tables, root, page)[PT], index(PT, page))

\* set_pdpt, set_pdt and set_pt: a table for the entry of a page at a level, if
\* it has none.
with_table(m, level, page, flag, map) ==
  LET t == walk(m.table, m.global_PML4, page)[level]
      user == IF map = "USER_MAP" THEN {"U"} ELSE {}
  IN IF m.halted \/ content(m.table, t, index(level, page)) # NoEntry THEN m
     ELSE set_content(kmalloc(m, flag), t, index(level, page),
                      entry(page_of(m, flag), {"P", "W"} \cup user))

with_entry(m, page, e) ==
  set_content(m, walk(m.table, m.global_PML4, page)[PT], index(PT, page), e)

\* Faulty variant: the self-reference is not set.
referenced_never(m) == m

self_referenced(m) ==
  set_content(m, m.global_PML4, SELF, entry(m.global_PML4, {"P"}))

map_virmem_to_phymem(m, page, e, flag, map) ==
  LET pdpt(n) == with_table(n, PML4, page, flag, map)
      pdt(n)  == with_table(n, PDPT, page, flag, map)
      pt(n)   == with_table(n, PDT, page, flag, map)
  IN self_referenced(with_entry(pt(pdt(pdpt(m))), page, e))

\* Once the first page of a table is mapped, the others need no further one.
map_rest(m, first) ==
  IF m.halted THEN m
  ELSE [m EXCEPT !.table[walk(m.table, m.global_PML4, VIR_START + first)[PT]] =
          [j \in 0 .. TABLE_SIZE - 1 |-> entry(first + j, {"P", "W"})]]

map_kernel(m, flag) ==
  LET with_first(n, i) ==
        map_virmem_to_phymem(n, VIR_START + i, entry(i, {"P", "W"}), flag,
                             "KERN_MAP")
      mapped[i \in 0 .. KERNEL_PAGES \div TABLE_SIZE] ==
        IF i = 0 THEN m
        ELSE map_rest(with_first(mapped[i - 1], (i - 1) * TABLE_SIZE),
                      (i - 1) * TABLE_SIZE)
  IN mapped[KERNEL_PAGES \div TABLE_SIZE]

umalloc(m, page) ==
  map_virmem_to_phymem(take_frame(m), page,
    entry(new_frame(m), {"P", "W", "U"}), "USERPT", "USER_MAP")

\* The address at which the kernel finds the entry of an address at a level:
\* one shift for each level.  The sign bits above PML4 are left out.
self_ref_read_entry_vir(level, vir) ==
  LET shifted[n \in 0 .. PML4] ==
        IF n = 0 THEN vir
        ELSE (shifted[n - 1] \div TABLE_SIZE) + at(SELF, 0, 0, 0) * TABLE_SIZE
  IN shifted[level]

\* The table and the index this leads to; table 0: the access faults.
self_ref(tables, root, level, page) ==
  LET vir == self_ref_read_entry_vir(level, page * TABLE_SIZE)
  IN <<translate(tables, root, vir \div TABLE_SIZE).to, vir % TABLE_SIZE>>

self_ref_read(m, root, level, page) ==
  LET r == self_ref(m.table, root, level, page) IN content(m.table, r[1], r[2])

self_ref_write(m, root, level, page, e) ==
  LET r == self_ref(m.table, root, level, page) IN set_content(m, r[1], r[2], e)
----------------------------------------------------------------------------
(* Tasks                                                                   *)

Slots   == 0 .. PROCESS_NUMBER - 1
IDLE    == 0
INIT    == 1
AREAS   == 4   \* VMAs of an mm_struct: code, data, heap, stack
STACK_PAGES == 2   \* scaled, 256

NoTask == [state |-> "none"]
Tasks  == {t \in Slots : task[t] # NoTask}
Users  == Tasks \ {IDLE}
Ready  == {t \in Tasks : task[t].state = "ready"}

areas(t) == {task[t].mmap[i] : i \in 1 .. AREAS}

kmallocs(m, f, n) ==
  LET after[i \in 0 .. n] == IF i = 0 THEN m ELSE kmalloc(after[i - 1], f)
  IN after[n]

\* The pages of a new task and its mm_struct, in the order of the calls; the
\* TASK page is the slot.
task_pages(m) ==
  kmallocs(kmalloc(kmalloc(kmalloc(m, "TASK"), "KSTACK"), "MM"), "VMA", AREAS)

\* vm_end is that of the heap.
new_task(m, cr3, brk, vm_end) ==
  [state |-> "ready", cr3 |-> cr3, init_kern |-> address(m, "KSTACK"),
   mm |-> page_of(m, "MM"), brk |-> brk, vm_end |-> vm_end,
   mmap |-> [i \in 1 .. AREAS |-> page_of(kmallocs(m, "VMA", i - 1), "VMA")]]

\* init_mm, initial_mapping, two threads, and func_init up to its do_execv.
booted ==
  LET m0 == [used |-> [f \in Flags |-> {}], table |-> <<>>, frames |-> {},
             global_PML4 |-> page_of([used |-> [f \in Flags |-> {}]], "KERNPT"),
             halted |-> FALSE]
      m1 == map_kernel(kmalloc(m0, "KERNPT"), "KERNPT")
      m2 == kmallocs(kmallocs(m1, "TASK", 2), "KSTACK", 2)
      m3 == kmallocs(kmalloc(m2, "MM"), "VMA", AREAS)
  IN umalloc(umalloc(umalloc(m3, HEAP_BASE), STACK_TOP), STACK_TOP - 1)

\* do_execv up to load_elf: a new page for the stack, filled at VIR_START.
moved_to_stack(m, root) ==
  self_ref_write(
    self_ref_write(m, root, PT, STACK_TOP - 1,
                   self_ref_read(m, root, PT, VIR_START)),
    root, PT, VIR_START, NoEntry)

new_stack(m, root) ==
  moved_to_stack(
    self_ref_write(take_frame(m), root, PT, VIR_START,
                   entry(new_frame(m), {"P", "W", "U"})), root)

\* load_elf of a program with one page of code and one of data.  The page that
\* tarfs_open takes for the file is never freed.
load_elf(m) == umalloc(umalloc(kmalloc(m, "FILE"), CODE), DATA)

becomes(m) ==
  /\ used' = m.used /\ table' = m.table /\ frames' = m.frames
  /\ global_PML4' = m.global_PML4 /\ halted' = m.halted

\* func_init executes the first program.
started(m) == load_elf(new_stack(m, m.global_PML4))

first_task(t, root) ==
  CASE t = IDLE -> [state |-> "ready", cr3 |-> root,
                    init_kern |-> get_base["KSTACK"] + 1,
                    mm |-> 0, brk |-> 0, vm_end |-> 0, mmap |-> <<>>]
    [] t = INIT -> [state |-> "ready", cr3 |-> root,
                    init_kern |-> get_base["KSTACK"] + 2,
                    mm |-> get_base["MM"],
                    brk |-> HEAP_BASE + 1, vm_end |-> HEAP_BASE + 1,
                    mmap |-> [i \in 1 .. AREAS |-> get_base["VMA"] + i - 1]]
    [] OTHER -> NoTask

Init ==
  \E m \in {started(booted)} :
    /\ used = m.used /\ table = m.table /\ frames = m.frames
    /\ global_PML4 = m.global_PML4
    /\ task = [t \in Slots |-> first_task(t, m.global_PML4)]
    /\ current = INIT
    /\ halted = m.halted

\* A program makes a call, or an access that faults.  Bound: the frames of the
\* machine last; allocate_page_user would return 0 then.
FRAMES_OF_A_CALL == 4
calls     == ~halted /\ current \in Users
allocates == calls /\ Cardinality(free_frames(Memory)) >= FRAMES_OF_A_CALL
----------------------------------------------------------------------------
(* System calls and faults of the running task                             *)

cr3 == task[current].cr3

\* The pages of the areas, in the order of the list; the stack has one more.
area_pages ==
  <<CODE, DATA>>
    \o [i \in 1 .. task[current].vm_end - HEAP_BASE |-> HEAP_BASE + i - 1]
    \o [i \in 1 .. STACK_PAGES + 1 |-> STACK_TOP - STACK_PAGES + i - 1]

\* Faulty variant: the page is shared, and the parent may still write to it.
shared_by_child(m, page, e) ==
  map_virmem_to_phymem(m, page, e, "USERPT", "USER_MAP")

shared(m, page, e) ==
  LET cow == entry(e.to, (e.bits \ {"W"}) \cup {"COW"})
  IN map_virmem_to_phymem(self_ref_write(m, cr3, PT, page, cow), page, cow,
       "USERPT", "USER_MAP")

\* An entry is read where its table should be; without one, the kernel faults.
child_shares(m, page) ==
  LET e == self_ref_read(m, cr3, PT, page)
  IN IF m.halted \/ self_ref(m.table, cr3, PT, page)[1] = 0
     THEN [m EXCEPT !.halted = TRUE]
     ELSE IF e = NoEntry THEN m ELSE shared(m, page, e)

changes(m, pml4) == IF m.halted THEN m ELSE [m EXCEPT !.global_PML4 = pml4]

set_child_pt(m) ==
  LET child == changes(kmalloc(m, "USERPT"), page_of(m, "USERPT"))
      after[i \in 0 .. Len(area_pages)] ==
        IF i = 0 THEN map_kernel(child, "USERPT")
        ELSE child_shares(after[i - 1], area_pages[i])
  IN after[Len(area_pages)]

do_fork ==
  LET m == set_child_pt(task_pages(Memory))
      c == lowest(unused(Memory, "TASK"))
  IN /\ calls
     /\ becomes(m)
     /\ task' = IF m.halted THEN task
                ELSE [task EXCEPT ![c] =
                        new_task(Memory, m.global_PML4,
                                 task[current].brk, task[current].vm_end)]
     /\ UNCHANGED current

\* The heap is reset before load_elf finds that there is no such file.
do_execv_fails ==
  /\ allocates
  /\ becomes(new_stack(Memory, cr3))
  /\ task' = [task EXCEPT ![current].brk = HEAP_BASE + 1]
  /\ UNCHANGED current

do_execv ==
  LET m == load_elf(new_stack(Memory, cr3))
  IN /\ allocates
     /\ becomes(m)
     /\ task' = IF m.halted THEN task
                ELSE [task EXCEPT ![current].brk = HEAP_BASE + 1,
                                  ![current].vm_end = HEAP_BASE + 1]
     /\ UNCHANGED current

\* Bound: init enlarges its heap once, to the first page of a second table.
INCREMENTS == {TABLE_SIZE}

do_sbrk(n) ==
  /\ calls
  /\ current = INIT /\ task[INIT].brk = HEAP_BASE + 1
  /\ task' = [task EXCEPT ![current].brk = @ + n,
                          ![current].vm_end = task[current].brk + n]
  /\ UNCHANGED <<ram, current, halted>>

\* Bound: a program accesses the last page of the heap.
accessible == {task[current].vm_end - 1}

\* Demand paging: a frame for each table that is not there, and for the page.
user_entry(m) == entry(new_frame(m), {"P", "W", "U"})

\* Faulty variant: the frame of a table is not marked as taken.
demanded_untaken(m, level, page) ==
  LET m1 == IF level = PT THEN take_frame(m)
            ELSE [m EXCEPT !.table = put(@, new_frame(m), <<>>)]
  IN self_ref_write(m1, cr3, level, page, user_entry(m))

demanded(m, level, page) ==
  LET m1 == take_frame(m)
      m2 == IF level = PT THEN m1
            ELSE [m1 EXCEPT !.table = put(@, new_frame(m), <<>>)]
  IN self_ref_write(m2, cr3, level, page, user_entry(m))

demand_paging(page) ==
  LET present(m, level) == "P" \in self_ref_read(m, cr3, level, page).bits
      down[level \in PT .. PML4 + 1] ==
        IF level > PML4 THEN Memory
        ELSE IF present(down[level + 1], level) THEN down[level + 1]
        ELSE demanded(down[level + 1], level, page)
  IN /\ allocates /\ page \in accessible
     /\ translate(table, cr3, page) = NoEntry
     /\ becomes(down[PT])
     /\ UNCHANGED <<task, current>>

\* Faulty variant: the kernel's page stays with the new frame.
kept_by_kernel(m, old) == m

\* The second page of the kernel gets its entry back.
put_back(m, old) == self_ref_write(m, cr3, PT, VIR_START + 1, old)

\* A store to a page marked by fork.  Whether another process uses the page is
\* in its reference count.  The new frame is filled at the kernel's second page.
copy_on_write(page, is_shared) ==
  LET old == self_ref_read(Memory, cr3, PT, page)
      m1  == take_frame(Memory)
      m2  == self_ref_write(m1, cr3, PT, VIR_START + 1, user_entry(Memory))
      m3  == self_ref_write(m2, cr3, PT, page, user_entry(Memory))
  IN /\ allocates /\ page \in accessible
     /\ "COW" \in old.bits
     /\ becomes(IF is_shared
          THEN put_back(m3, self_ref_read(m1, cr3, PT, VIR_START + 1))
          ELSE self_ref_write(Memory, cr3, PT, page,
                              entry(old.to, {"P", "W", "U"})))
     /\ UNCHANGED <<task, current>>

switched(ready) == IF ready = {} THEN {IDLE} ELSE ready

\* Zombies and dead tasks are not told apart: which zombies have been waited
\* for, and which tasks the run queue reaches, is in Process.
do_exit ==
  /\ calls
  /\ task' = [task EXCEPT ![current].state = "ended"]
  /\ current' \in switched((Ready \cap Users) \ {current})
  /\ UNCHANGED <<ram, halted>>

do_kill(t) ==
  /\ calls /\ t > INIT
  /\ task' = [task EXCEPT ![t].state = "ended"]
  /\ UNCHANGED <<ram, current, halted>>

schedule ==
  /\ ~halted
  /\ current' \in switched((Ready \cap Users) \ {current})
  /\ UNCHANGED <<ram, task, halted>>

clean_dead(m, dead) ==
  LET m1 == kfree(m, "KSTACK", {task[t].init_kern : t \in dead})
      m2 == kfree(m1, "VMA", UNION {areas(t) : t \in dead})
      m3 == kfree(m2, "MM", {task[t].mm : t \in dead})
  IN kfree(m3, "TASK", {get_base["TASK"] + t : t \in dead})

\* clean_dead frees tasks that are dead.
Ended == {t \in Users \ {current} : task[t].state = "ended"}

do_ps(dead) ==
  /\ calls
  /\ becomes(clean_dead(Memory, dead))
  /\ task' = [t \in Slots |-> IF t \in dead THEN NoTask ELSE task[t]]
  /\ UNCHANGED current

Next ==
  \/ do_fork \/ do_execv \/ do_execv_fails \/ do_exit \/ schedule
  \/ \E n \in INCREMENTS : do_sbrk(n)
  \/ \E page \in accessible : demand_paging(page)
  \/ \E page \in accessible, b \in BOOLEAN : copy_on_write(page, b)
  \/ \E t \in Users : do_kill(t)
  \/ \E dead \in SUBSET Ended : do_ps(dead)

Spec == Init /\ [][Next]_vars
----------------------------------------------------------------------------
Pools == get_base["KERNPT"] .. get_base["FILE"] + PROCESS_NUMBER - 1

TypeOK ==
  /\ used \in [Flags -> SUBSET Nat]
  /\ \A f \in Flags : used[f] \subseteq 0 .. NUMBER[f] - 1
  /\ DOMAIN table \subseteq Pools \cup (KERNEL_PAGES .. PAGE_NUM - 1)
  /\ frames \subseteq KERNEL_PAGES .. PAGE_NUM - 1
  /\ global_PML4 \in DOMAIN table
  /\ current \in Tasks
  /\ halted \in BOOLEAN

\* "each process has" a kernel stack, an mm_struct and its areas of its own
\* (process.c): the pages that the pools have given out are those of the tasks
\* there are.  None is held by two, none is free while it is held, and none is
\* lost when clean_dead frees a task.
allocated(f) == {get_base[f] + i : i \in used[f]}

PoolsMatchTasks ==
  ~halted =>
    /\ used["TASK"] = Tasks
    /\ \A t, u \in Users : t # u =>
         /\ task[t].init_kern # task[u].init_kern
         /\ task[t].mm # task[u].mm
         /\ areas(t) \cap areas(u) = {}
    /\ allocated("KSTACK") = {task[t].init_kern - 1 : t \in Tasks}
    /\ allocated("MM") = {task[t].mm : t \in Users}
    /\ allocated("VMA") = UNION {areas(t) : t \in Users}

\* set_pdpt, set_pdt, set_pt, and the handler that takes a frame for a table:
\* a table belongs to one address range of one process.  No entry of another
\* table leads to it, be it as a table or as a page a program may write.
Roots == {task[t].cr3 : t \in Tasks}

entries_of(S) == UNION {{<<t, i>> : i \in DOMAIN table[t]} : t \in S}
leads_to(E)   == {table[e[1]][e[2]].to : e \in E}

TablesAreTrees ==
  LET links(root) ==
        LET of_pml4 == entries_of({root}) \ {<<root, SELF>>}
            of_pdpt == entries_of(leads_to(of_pml4))
        IN of_pml4 \cup of_pdpt \cup entries_of(leads_to(of_pdpt))
      all == UNION {links(root) : root \in Roots}
  IN ~halted =>
       /\ Cardinality(leads_to(all) \cup Roots)
            = Cardinality(all) + Cardinality(Roots)
       /\ leads_to(entries_of(leads_to(all)) \ all) \cap frames
            \cap (leads_to(all) \cup Roots) = {}

\* "(page walk)PML4 entry ... (self refer) PML4 entry value" (test_selfref):
\* the address that the kernel computes for an entry leads to the entry that
\* the processor uses, at each level, in every table and for every page whose
\* table is there.
UserPages == {CODE, DATA, HEAP_BASE, HEAP_BASE + TABLE_SIZE,
              STACK_TOP - STACK_PAGES, STACK_TOP - 1, STACK_TOP}

SelfReferenceReachesTable ==
  ~halted => \A root \in Roots, page \in UserPages \cup {VIR_START} :
    \A level \in Levels :
      self_ref(table, root, level, page) =
        <<walk(table, root, page)[level], index(level, page)>>
      \/ walk(table, root, page)[level] = 0

\* The kernel sees its memory at VIR_START in every process: the temporary
\* mappings of exec and of copy-on-write leave no trace, but for the first
\* page, which exec unmaps.
KernelIsMapped ==
  ~halted => \A root \in Roots, k \in 0 .. KERNEL_PAGES \div TABLE_SIZE - 1 :
    LET first == k * TABLE_SIZE
        pt    == walk(table, root, VIR_START + first)[PT]
    IN \A j \in 0 .. TABLE_SIZE - 1 :
         first + j > 0 => table[pt][j] = entry(first + j, {"P", "W"})

\* The machine stops when a pool is spent, or in a fork by a process whose
\* heap is larger than what one table maps ("this assumes PT is already in
\* memory, buggy!").
HaltsOnlyWhenSpent ==
  halted => \/ \E f \in Flags : Cardinality(used[f]) = NUMBER[f]
            \/ task[current].vm_end > HEAP_BASE + TABLE_SIZE

\* The tables of the user's pages.  A task that has ended keeps its table
\* until it is removed.
flat_entry(e) == [frame |-> e.to, writable |-> "W" \in e.bits]

next_level(T, i)  == {table[t][i] : t \in {u \in T : i \in DOMAIN table[u]}}
below(T, level, v) == {e.to : e \in next_level(T, index(level, v))}

\* The entry for page v, if there is one.
entries_for(root, v) ==
  next_level(below(below(below({root}, PML4, v), PDPT, v), PDT, v),
             index(PT, v))

flat_table(root) ==
  [v \in {w \in UserPages : entries_for(root, w) # {}} |->
     flat_entry(CHOOSE e \in entries_for(root, v) : TRUE)]

Flat == INSTANCE FlatTables WITH
  Processes <- Slots \ {IDLE},
  Frames <- KERNEL_PAGES .. PAGE_NUM - 1,
  Program <- {CODE, DATA}, Stack <- STACK_TOP - 1, Top <- STACK_TOP,
  Heap <- {HEAP_BASE, HEAP_BASE + TABLE_SIZE},
  flat <- [t \in IF halted THEN {} ELSE Users |-> flat_table(task[t].cr3)],
  last <- {t \in IF halted THEN {} ELSE Users : task[t].cr3 = global_PML4}

\* Tables of four levels, changed through map_virmem_to_phymem and through the
\* self-reference, act as one table for each process.
HasFlatTables == Flat!Spec
============================================================================
