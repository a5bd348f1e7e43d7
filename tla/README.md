# SBUnix: models and proofs

SBUnix (`src/SBUnix`) is a small 64-bit kernel: preemptive processes with
copy-on-write fork, a terminal, a read-only tar file system, a libc and a
shell. This directory holds TLA+ models of its kernel, libc and shell, the TLC
runs that check them, and TLAPS proofs of most of their invariants for all
values of the constants. All names of variables, actions and operators are those of the C code where TLA+ allows it; `PROJECT.json` gives
the lines behind each definition.

Paths below are relative to `src/SBUnix`.

## 1. Inventory

| Component | State | Operations | What makes it correct |
|---|---|---|---|
| Process management, `sys/process.c` | task slots, `pid_list`, circular list through `front`/`end`/`next`, `wait_pid` | fork, exit, waitpid, kill, ps, sleep, yield | the list stays one ring; no task is lost; the right child is reaped; wake-ups arrive |
| Scheduler, `sys/schedule.c` | `current`, `end` | `schedule`, `clean_dead` | one task runs; every ready task runs in the end |
| Timer, `sys/timer.c` | `boot_count`, `ready_schedule` | `isr_timer` | sleepers wake; a slice ends; kernel code is not preempted |
| Page frames, `sys/physical.c` | `info`, `ref_count` per frame | allocate, free | the count covers the users |
| Page tables, `sys/virmm.c` | four levels per process, `global_PML4` | map, self-reference read and write | an entry is changed in the table it is meant for |
| kmalloc pools, `sys/virmm.c` | bitmaps and lists of pages per pool | `kmalloc`, `kfree` | a page is in one use; an empty pool is survived |
| Areas and sbrk, `sys/process.c`, `sys/virmm.c` | `mm_struct`, list of `vma_struct` | copy, set up, `do_sbrk` | the areas and the page table agree |
| Page faults, `sys/page_fault_handler.c` | none | demand paging, copy-on-write, segmentation fault | legal accesses succeed; memory is private |
| exec, `do_execv`, `sys/elf.c` | stack, segments | `execve` | the program that was asked for runs |
| Terminal, `sys/terminal.c`, and keyboard, `sys/keyboard.c` | buffer, `press_over`, `user_input` | read, write, clear, key interrupts | what is typed arrives once, in order, line by line, and is echoed |
| Console, `sys/printf.c` | row, column, VGA memory | `console_putchar`, formats | stays on the screen and off the timer's row |
| tarfs, `sys/tarfs.c` | the archive, one current directory for all, a pointer per open file | open, read, close, opendir, readdir, get and set the directory | names find their file; listings are complete; a read returns the file's bytes |
| System call entry, `sys/syscall.c`, `sys/isr.s` | registers, kernel stacks | 23 calls | interrupts are off, registers survive |
| libc, `libc/`, `crt/` | the buffer of scanf | strings, printf, scanf, malloc on sbrk (nothing is freed) | blocks do not overlap; numbers and words arrive as meant |
| Shell, `bin/sbush`, and init, `bin/init` | environment, the line and the scripts it is in | run, background, cd, PATH, sh | the right child is waited for; there is a prompt again; commands run where they were typed |

How they interact. A system call enters with interrupts off, so apart from
`terminal_read` (which executes `sti` and spins) it is atomic up to a call of
`schedule()`. The timer interrupts user code and schedules; when it interrupts
kernel code it counts only. The keyboard interrupts user code and
`terminal_read`. `fork` connects the run queue with the tables (`set_child_pt`
leaves `global_PML4` at the child); `execve` uses it later, and hands its
arguments to the next program on the new stack. `exit` and `waitpid` meet in
`wait_pid` and `task_state` only. Shells meet in the process table and in
`cwd_shell`, which `ls`, `cat` and `cd` ask the kernel for. Page faults in user code or
inside a system call enter the handler, which may call `do_exit`.

The hard parts are the order in which children exit and parents wait; kills
that cross wake-ups; a freed slot that `end` still points at; interrupts at any
instruction of a read; frames that several tables share; tables that the kernel
changes through addresses inside of themselves; pools that run out in the
middle of a fork; a global that names the wrong table after a switch; and one
current directory for shells that run at the same time. `PROJECT.json` lists
each under `hazards`, at its line. Section 10 says what is not modelled.

## 2. Plan

1. `Process`, then `ProcessProofs`: processes and the scheduler (done).
2. `Terminal`: keyboard, buffer, console and read (done).
3. `AddressSpace`, with the abstract specification `PrivateMemory` that it
   implements (done); now with the stores of the kernel.
4. `KernelMemory`: kmalloc's pools and tables of four levels, with the abstract
   `FlatTables` that they implement (done).
5. `TarFs` and `Shell`, with `ShellMC`: the archive, init, shells and the
   programs that show files (done).
6. `Library`: strings, lines, numbers, fields, arguments, the first read of a
   file, and malloc (done).
7. Proofs about each: `ProcessProofs`, `TerminalProofs`, `AddressSpaceProofs`,
   `KernelMemoryProofs`, `KernelTablesProofs`, `ShellProofs`, `LibraryProofs`, on
   `SequenceLemmas` (done, see section 9).
8. A composition of `Process` and `AddressSpace`: which process runs decides
   when `execve` meets a stale `global_PML4`.

Runs are few and wide, one per question. No module has a RECURSIVE operator.

| Run | Module | Takes |
|---|---|---|
| `lifecycle`, `foreground` | `Process` | a minute |
| `lost_task`, `reaped_alive`, `lost_wakeup` (violated) | `Process` | seconds |
| `terminal` | `Terminal` | two minutes |
| `memory` | `AddressSpace` | three minutes |
| `exec_elsewhere`, `kernel_writes` (violated) | `AddressSpace` | seconds |
| `kernel_memory` | `KernelMemory` | a minute |
| `shell` | `ShellMC` | a minute |
| `library` | `Library` | ten seconds |

## 3. Process

Variables are the fields of `task_struct`, one function per field over the
slots of the TASK pool (`task_state`, `pid`, `ppid`, `next`, `wait_pid`,
`sleep_time`), the globals `current`, `end`, `ready_schedule`, `boot_count`,
and three that stand for execution: `pc` (the task is in user code, in the
kernel, or suspended in a waitpid or a read), `wait_arg` (the local variable
`pid` of a suspended waitpid) and `halted` (`hlt` with interrupts off).
`unwaited` is what a well-behaved program knows: the children it has not waited
for.

Each system call is an action of the same name. `schedule(st)` is the C
function applied to task states `st`; `Reach` is what a loop along `next`
visits, defined as the least set that the links do not lead out of, so that it
makes sense on a list that is broken, and needs no recursion. `do_ps` includes
`clean_dead`, which zeroes the slots it frees and does not look at `end`.
`isr_timer` counts, wakes sleepers and, if it interrupted user code, schedules
at the end of a slice. Programs are nondeterministic up to `MayCall`: init only
forks and waits, and without `Background` a program waits for each child before
the next fork, as the shell does for commands without `&`.

Runs:

* `lifecycle`: `Spec`, all calls but yield, background jobs and kills.
  `RunQueueSound`, `OnlyCurrentRuns`, `LastExitedEnded`, `TerminatedIsFinal`
  hold whatever programs do, also while `end` dangles.
* `foreground`: `FairSpec`, no kills, no reads, no background jobs. Under this
  discipline `NoTaskLost` and `ReapedHadExited` hold, and `WaiterReturns`,
  `ReadyRuns` and `SleepersWake` as well.
* `lost_task` (violated): fork, kill of the child and ps in one slice leave
  `end` at a freed slot; the next child is linked behind it and never runs.
* `reaped_alive` (violated): the exit of a background job wakes a waitpid for
  another child, which is marked dead while it runs.
* `lost_wakeup` (violated): two children exit, the parent waits for the first;
  `wait_pid` holds the second only, and it blocks for ever.

`foreground` leaves out what breaks it. A kill wakes no parent: init waits for
ever for a shell that is killed. A read holds the CPU in kernel mode, where the
timer does not schedule: ready processes wait for the user.

Bounds. Five slots and three forks beyond idle and init allow a parent with two
children and a grandchild, a freed slot that is used again, and the fork that
finds the pool exhausted; a dangling `end` needs three. Slices of one or two
ticks, a tick of 5 ms and a second of 10 keep sleeps longer than a tick and
counts small; 2^32 and 2^64 are scaled to 64 and 128 to keep the wrap-around.
The assumption `FORK_LIMIT + 2 <= PROCESS_NUMBER` says that page-table pages
(about 29 per fork, of 1280) run out before the 128 pids do.

Fairness. The timer keeps ticking (hardware), and the CPU goes on executing
kernel code that is about to return. Nothing is assumed of programs or of the
user: a program may compute for ever. The system may stop where the code
executes `hlt` with interrupts off, hence `CHECK_DEADLOCK FALSE` in the runs of
this module.

## 4. Terminal

`terminal_read` runs with interrupts on, and with it the `console_putchar` that
draws its cursor, which the keyboard interrupt calls as well: a key may come
between any two instructions of either. So both are cut at every load and store
of what the two share (`pc`): the row is blanked cell by cell, each index
computed and then stored at (`putchar_blank` and `putchar_erase`), the index of
the cursor is computed in two steps (`putchar_offset`, `putchar_index`) before
the store (`putchar_put`), the column is loaded, stored, and stored again as 0
(`putchar_next`, `putchar_column`, `putchar_wrap`), the row likewise
(`putchar_down`, `putchar_row`, `putchar_top`); then come `console_column--`
(`read_back`, one instruction), the loop of `clear_bottom`, the wait, and the
copy, count, clearing and reset of the buffer. memcpy and memset are one step
each: a key changes one byte of the buffer, which they have passed or not.
`key_character`, `key_enter` and `key_backspace` are `isr_keyboard` with
`terminal_get_char`, which run with interrupts off and are atomic, as are
terminal_write and clear, which leave interrupts off; `console_putchar` is the
function they call. `console` is row, column and the cells of the screen;
indices are computed with a column that may have become one below zero, modulo
`SIZE_MAX_1` (2^64, scaled down).

The comment of printf.c:53, "don't write to the last row (used by timer)", does
not hold for a key in two windows: at the last column of the last row but
one, a key between the stores of :51 and :52 finds column 80, and one between
those of :53 and :54 finds row 24. Its echo goes into the timer's row. `torn`
says that a key came there, and `TimerRowKept` gives up that row from then on;
without this exception TLC finds the echo in it. The stores are those of the
source: a compiler may keep the 80 and the 24 in registers, which leaves fewer
behaviours than the model has.

Typed characters carry their number, so that the order and the loss of each can
be told. History variables record what was typed and returned; `careful` says
that the user typed into waiting reads only, and no more than the buffer takes,
`late` that a key arrived after the memcpy of a read, `torn` what is said above,
`forfeited` what the code
gives up by design or in its last instructions (a full buffer is emptied).

* `terminal` (pass, `FairSpec`): `InOrder` (each character at most once, in
  order, over all reads), `TypedIsKept` (none vanishes outside the windows
  named), `LinesArrive` (a careful user's lines arrive as edited),
  `ScreenIsKept` (and are on the screen with the cursor behind them, also
  wrapped, while the row of the timer is left alone unless a key was `torn`),
  `EnterEndsRead`.

`press_over` is reset when a read begins: a line typed before it does not end
it, and comes together with the next one. A user who does that is not careful,
and `LinesArrive` promises nothing.

Bounds. A buffer of 2 and three keys overflow it; a screen 2 wide and 3 high
wraps at each line and returns to the top, so that the cursor of a read is drawn
in the last column and the last row but one; a write moves the column between
reads. Fairness: the CPU keeps executing
`terminal_read`; neither the user nor the program owes anything.

## 5. AddressSpace and PrivateMemory

A process has four pages: code (not writable by its area), data and stack, which
exec loads, and one page of heap beyond the first, which sbrk adds to its area
and a fault maps. `pte` is the entry of each page in the table of each process
(frame, present, writable, copy-on-write), `content` and `ref_count` belong to
frames. What the code does in several steps of one call is written as functions
on the memory as a record (`map_new`, `copied`, `filled`), so that an action is
one call. A page's content is what exec put there and whether a word has been
stored since: enough to see a missing copy, a shared write and a wrong program.

A system call or a fault is one step, as interrupts are off. Any live process
may act next; the order is that of the scheduler in `Process`. Exit frees
nothing, so a process that has ended is one that no longer acts.

Whose table is changed matters: `self_ref_write` reaches the running process,
`map_virmem_to_phymem` the one `global_PML4` points to, which is the process
forked last. `ExecFirst` restricts execve to that process.

* `memory` (pass): `RefCountCovers` (the count never says "last user" while
  there are two), `SharedIsReadOnly`, `LegalStoreSucceeds` (no legal store is
  taken for a segmentation fault), and `HasPrivateMemory`: the module implements
  `PrivateMemory`, where a step changes the memory of one process, fork copies
  and exec loads.
* `exec_elsewhere` (violated): without `ExecFirst`, a program is loaded into
  the table of another process.
* `kernel_writes` (violated): a system call that stores a result, as `waitpid`
  does its status, into a page shared by fork changes it for all processes.

Whether the kernel may write to a read-only page depends on CR0.WP, which no
line sets. It must be clear: the tables are written through the entry
`map_virmem_to_phymem` makes for the self-reference, which gives no right to
write. So `kernel_store` goes through (`kernel_stored`) without a fault.
`StoreFirst` says that programs give system calls buffers they have written to
since the last fork, or never, which keeps `memory` clear of this.

Bounds. Three processes share a frame three ways and allow a fork of a fork; one
exec, or a failed one, at any point; code, heap and stack (data behaves as
stack does). Four frames per page are never used up in the run; a program
enlarges its heap once. Left out: the
TLB, sizes, and frames running out, after which the code maps physical page 0.
Pages of tables are in `KernelMemory`.

## 6. KernelMemory and FlatTables

Physical memory is numbered in pages: first the pools of kmalloc, in the order
of `get_base`, then the user's frames. `used` are the bitmaps, `table` the pages
that serve as tables, as functions from indices to entries. A call of several
steps is a function on the memory as a record; one that halts (`kmalloc_error`
with interrupts off, or a fault in the kernel) leaves `halted`, and what it had
done by then. `walk` and `translate` are what the processor does; the kernel
reads and writes entries at the addresses of `self_ref_read_entry_vir`, which
`self_ref` hands to `translate` like any other. So a table without its
self-reference, or a wrong shift, shows.

`task` has the pages of a task (kernel stack, `mm_struct`, areas), its table and
the end of its heap. `do_fork` takes pages from five pools, maps the kernel into
the new table and walks the areas; `do_execv` replaces the stack through the
kernel's first page and loads a program of two pages into the table that
`global_PML4` names; `demand_paging` takes frames for missing tables;
`copy_on_write` fills its frame through the kernel's second page; `clean_dead`
frees. Zombies and dead tasks are one state here, and `do_ps` frees any of them
but the running one: who has been waited for, and whom the queue reaches, is in
`Process`. Whether a frame is shared is either, as the count is in
`AddressSpace`.

* `kernel_memory` (pass): `PoolsMatchTasks` (pages that are taken are those of
  tasks, each of one), `TablesAreTrees` (no page is a table twice, or a table
  and a page of a program), `SelfReferenceReachesTable` (the address computed
  for an entry leads to the entry the processor uses, at all levels),
  `KernelIsMapped` (no temporary mapping is left behind, but for the first page
  that exec unmaps), `HaltsOnlyWhenSpent` and `HasFlatTables`: four levels act as
  the one table per process of `FlatTables`, in which fork shares, exec replaces
  three pages and a fault adds or replaces one, with frames nobody had. init can
  enlarge its heap, use it, execute a program and then fork: an exec shrinks the
  heap's area and leaves the pages in the table, and the fork shares what the
  area has. So `Forked` lets pages of the heap be left out. A write of the kernel at
  an address without a table changes nothing in the model, where the code would
  fault and halt: that it does not happen follows from `SelfReferenceReachesTable`
  and `HasFlatTables` (an entry that is not written shows there), and only a read
  that misses its table halts.

Bounds. Tables of 32 entries, where the kernel's memory fills five tables and
the user's addresses several; pools so small that one fork succeeds and a second
spends the page tables in its middle, as the 1280 pages of the code do after
some forty; the theorems of section 9 hold for any number. Six frames are left, and a call that takes frames begins only if
there are enough for it: tables at three levels and the page
(`FRAMES_OF_A_CALL`). init enlarges its heap once, to
the first page of a second table, which a fork then finds missing or not. A
program accesses the last page of its heap. Frames that become tables are taken
as zero. The machine may halt, hence `CHECK_DEADLOCK FALSE`.

`BootAssumption` says that one table of level 2 maps what the kernel keeps
(8192 pages in the code, of 262144), that the pool of page tables suffices for
the mappings of the boot (three of 16 tables, of 128), and that six frames are
there for the first program.

## 7. TarFs and Shell

`TarFs` is the archive, a sequence of headers, and the calls that walk it.
Names are sequences of words with "/" as a word, so that prefixes and slashes
are what they are in the code. The zero block behind the last entry is a header
with an empty name, which the listing of the root shows, as the code does. A
call that fills an array from the headers it passes is the set of their indices,
in order (`names`). `ArchiveAssumption` is what tar writes; NULL is neither a name
nor a header (`NoFileAssumption`).

`Shell` has the kernel's `cwd_shell` and, by task, where it is and the locals
that matter: the words of the line, the stack of scripts, PATH, the child. A
step goes up to the next system call that touches what shells share: `cd_cmd`
reads the directory, `cd_set` looks up and sets it, with others in between.
`parsed` is what `parseInputToParams` leaves of PATH: its first directory.
`dies` are the lines for which the code compares NULL. Programs show something
and end, or never end (`Endless`). Files that are no programs are not executed.

fork, exit and waitpid are those of the kernel, each a step of its own, so that
a shell can be preempted between fork and waitpid while any task ends. An exit
overwrites `wait_pid` of its parent, and wakes it out of any waitpid (`told`, in
`over`). `waitpid` compares `wait_pid` once, then blocks; woken, it marks the
child it was called for dead without looking which one ended (`waitpid_return`,
`reaps`). So a shell with a job can return too early, kill its foreground task
that way, or block for ever, as in `reaped_alive` and `lost_wakeup`; init, which
has no jobs, cannot. Tasks here are names, and used again: a zombie whom
nobody will wait for is free. kill is left to `Process`.

Assumed is that execve loads into the caller's own table. In the code it does so
if no other task was forked since the caller was (`exec_elsewhere`): a script
that starts a job with `&` and a program right behind it, as one of this archive
does, can break that.

* `shell` (pass, `FairSpec`, in `ShellMC`): `CwdIsDirectory` and
  `SearchIsStable` whatever waitpid does. `ForegroundIsAwaited`: a shell that had
  no child left when it forked its foreground task, and init always, is back only
  when that task has ended, and is not left blocked once it has. With jobs of its
  own (`jobs`) this fails, and nothing is promised. `ShowsWhatWasAsked`: ls and
  cat show what the archive has in the directory the line was typed in, if at the
  fork init and all shells waited for one another down to that shell, none of
  those above it with a job that could wake it (`Undisturbed`).
  `PromptComesBack`: whatever ran, shells ended or scripts called, there is a
  prompt again, unless a shell with a job is blocked for a task that has ended
  (`Stuck`).

`README:1` says that "the OS will not hang when shell exits unexpectedly". It does hang in `Stuck`: shell A starts shell B with `sbush &`,
then forks a program, and the program and B end before A calls waitpid.
`wait_pid` holds B, A blocks, and init waits for A. The run reaches this state;
the model may stop there, hence `CHECK_DEADLOCK FALSE`.

Bounds. Three tasks besides init, two of them shells (`MAX_TASKS`, `MAX_SHELLS`):
enough for a shell in the background of another, whose `cd` falls between the
steps of the first, and whose end falls before, between or after the end of the
first one's program and its waitpid. The fork of one more fails. A job that ends
while its shell waits for a shell that runs a program takes four tasks: the run
does not reach it, the theorems do. Lines: none,
`cd`, `ls`, a script and a shell in the background; the scripts change the
directory, call each other, start a job that never ends, a shell, a program and
one that is missing, and end by `exit`. The archive has files and directories in
the root, below it, and two levels down. Fairness: weak fairness of each task's
step while nobody reads the terminal (a read keeps the CPU until the user has
typed a line), and nobody has to type. It is what the timer and the circular
search of `schedule` give to a ready task; `ReadyRuns` shows it for programs
without jobs, and with them as long as the task is in the queue, from which, as
`NoTaskIsLost` proves, none is lost without a kill.

## 8. Library

Each function is an operator that follows the loop of the code; a call is an
action whose arguments and result stay in `call`, so that invariants compare
them with a definition that does not. Three things outlive a call: the buffer of
scanf, an open file and the heap. What lies behind the bytes known is `Wild`.

* `library` (pass): `StringsAgree` (strcmp, strncmp and strstr), `LinesAreCut`
  (words of a line, lines of a script), `NumbersAndFields` (print_int, hex,
  stoi, octal sizes, scanf), `ArgumentsArrive` (`main` gets the arguments of
  `execve`, over a frame of zeros or of junk), `FilesAreRead` (headers, first
  read) and `BlocksAreDisjoint` (malloc in any sequence of sizes).

Preconditions are the programs': a string searched for that is there (strstr
otherwise runs over the end), a script that ends with a line feed and fits the
buffer, numbers other than INT_MIN and within an int, one read of a file, heaps
below 2^32, non-empty arrays of arguments, and the last string of the
environment only if its frame was zero.

Bounds. Every string of up to four characters over two to four kinds; 2^31
scaled to 128 and 10 digits to 3, which print_int's array just holds; 2^32 to
64, pages to 4 and blocks to 4 bytes; three calls of malloc, with sizes of
nothing, less than a page, a page, more, the limit and beyond it; one or two
strings per array of arguments.


## 9. Proofs

Every theorem is about a `Spec` above and holds for all values of the constants
that the named assumption of its module allows: any number of tasks, frames,
pages, keys or lines. What it assumes beyond that is a hypothesis of the
theorem, given below.

| Module | Theorem | States | Under |
|---|---|---|---|
| `ProcessProofs` | `TypeCorrect`, `RunQueueStaysSound`, `OnlyCurrentEverRuns`, `TerminatedStaysFinal`, `LastExitedHasEnded` | `TypeOK`, `RunQueueSound`, `OnlyCurrentRuns`, `TerminatedIsFinal`, `LastExitedEnded` | |
| | `NoTaskIsLost` | `NoTaskLost` | no kills |
| | `ReapedHaveExited` | `ReapedHadExited` | no kills, no background jobs |
| `TerminalProofs` | `TypeCorrect`, `TypedStaysKept`, `ArrivesInOrder`, `EveryLineArrives` | `TypeOK`, `TypedIsKept`, `InOrder`, `LinesArrive` | |
| | `ScreenStaysKept` | `ScreenIsKept` | `KeysFit` |
| `AddressSpaceProofs` | `MemoryStaysSound`, `CountsStayInRange`, `CountsCoverUsers`, `WritableIsNotShared`, `LegalStoresSucceed` | the invariant, `TypeOK`, `RefCountCovers`, `SharedIsReadOnly`, `LegalStoreSucceeds` | `FramesLast` |
| | `MemoryIsPrivate` | `HasPrivateMemory` | `FramesLast`, `ExecFirst`, `StoreFirst` |
| `KernelMemoryProofs` | `MemoryStaysTyped`, `PoolsStayMatched` | `TypeOK`, `PoolsMatchTasks` | |
| `KernelTablesProofs` | `TablesStayTrees`, `SelfReferenceAlwaysReaches`, `KernelStaysMapped`, `OnlySpentPoolsHalt` | `TablesAreTrees`, `SelfReferenceReachesTable`, `KernelIsMapped`, `HaltsOnlyWhenSpent` | |
| | `TablesActFlat` | `HasFlatTables` | |
| `ShellProofs` | `ForegroundStaysAwaited`, `CwdStaysDirectory` | `ForegroundIsAwaited`, `CwdIsDirectory` | |
| | `ProgramsShowWhatWasAsked` | `ShowsWhatWasAsked` | |
| | `CommandsStayStable` | `SearchIsStable` | `NoRootfs` |
| | `ShellsStayTyped` | `TypeOK` | `LinesNamePrograms` |
| `LibraryProofs` | `BlocksStayDisjoint`, `FilesAreAlwaysRead`, `StringsAlwaysAgree`, `LinesAreAlwaysCut`, `ArgumentsAlwaysArrive` | `BlocksAreDisjoint`, `FilesAreRead`, `StringsAgree`, `LinesAreCut`, `ArgumentsArrive` | |

The hypotheses are there because the code needs them.

* No kills, no background jobs: `lost_task` and `reaped_alive` show that the
  properties fail otherwise.
* `FramesLast`: there are as many frames for a page as processes and execs can
  take. No frame is ever freed, and where none is left the code maps physical
  page 0 (section 10); the run `memory` has just as many.
* `ExecFirst` and `StoreFirst`: as in the run; `exec_elsewhere` and
  `kernel_writes` show what happens without.
* `KeysFit`: the console's index is computed modulo 2^64; a user who erases more
  than that moves it anywhere.
* `NoRootfs`: no entry of the archive begins with `rootfs`. The Makefile makes
  the archive inside of that directory, with names relative to it; PATH names a
  directory `rootfs/bin` that a search would find otherwise.
* `LinesNamePrograms`: no line of a user or of a script gives as its command a
  file of the archive that is no program. `sbush` executes whatever file the
  search finds, and execve does not look whether it is one. The lines and the
  scripts of the run `shell` fulfil it.

**Run queue** (`ProcessProofs`). `RunQueueSound` is not inductive by itself. The
ring must keep the idle thread, so no call may make it dead: it keeps pid 0,
stays in the kernel, where no program calls for it, and is ready or running
(`IdleStays`). `waitpid` marks a task dead by its pid, so no program may hold a
pid of 0 or 1 to wait for (`WaitsForChildren`); together with `TypeOK` this is
`QueueInv`. The lemmas about rings carry the argument: from a member of a ring,
`Reach` is the ring (`RingReached`); it stays one when a task is inserted behind
a member (`RingInsert`), and when tasks are removed and each kept one is linked
to the next kept one, which exists (`WalkToKept`, `RingDelete`). When `end`
points at a slot outside of the queue, a fork links the new task there and the
ring is untouched: a case of its own.

Then, each on top of the one before: a pid is never given twice and what
`wait_pid` names has left the CPU for good (`ExitInv`); without kills, `end` is
the task that runs or one added behind it in this slice, so that no task is
linked to a freed slot (`EndInv`); and if a program waits for each child before
the next fork, a parent that is blocked in waitpid and is woken was woken by the
child it waits for (`ReapInv`).

**Terminal** (`TerminalProofs`). A character is in what programs have received,
in the copy a read has made, in the buffer, or given up, at every instruction of
`terminal_read` (`KeptInv`); these three parts rise in this order unless a key
came late (`OrderInv`); for a careful user the buffer is the line, or the copy of
it, at each `pc` (`LinesInv`). The screen needs most: how far below zero the
column may go (`ColumnInv`), also for a read that goes on with a column or an index it
has loaded before a key (`StoreInv`), that no path writes into the last row
(`ClockInv`), where the cursor is at each step of its drawing (`CursorInv`) and
what is echoed before its position, through wraps and backspaces (`EchoInv`).
All this holds until a key is `torn`; a careful user presses none (`TornInv`).
The read's own locals stay within the rows above the clock at each `pc`
(`LocalInv`). FlattenSeq, which joins the pieces, is in
`SequenceLemmas`.

**Pages** (`AddressSpaceProofs`). What makes the counts right is what a frame
has when it is shared, taken over or left: the tables that hold it are no more
than its count says (`FramesCounted`), each is read-only and marked or the only
one (`Sound`), and the frames taken for a page are never more than the claims of
processes and execs on it (`FramesAccounted`), so that there is always another.
Each call is shown to keep this as a function on the memory. `MemoryIsPrivate` is a step
simulation: the view of each process in its table is its memory in
`PrivateMemory`, and each action is one of its steps or leaves all views alone.

**Pools** (`KernelMemoryProofs`). `PoolInv` says that the page of each stack,
`mm_struct` and area is held by one task, that what the bitmaps have is what
tasks hold, and that the table of each task exists. A call may halt in its
middle and has some fifteen steps, so its steps are related one by one: `Takes`
(the memory stays sound, and only pages of the pools named are taken), `Maps`,
`Serves`. `map_kernel`, `set_child_pt` and a number of `kmalloc`s are recursive
functions: their lemmas are inductions over the number of steps. A page is given
that was free (`KmallocIs`), so those of a new task are nobody's; `clean_dead`
frees those of the tasks it removes, which nobody else holds. Demand paging
takes up to four frames, which must be there (`FRAMES_OF_A_CALL`). After a call
that halted in its middle `TypeOK` still holds; `PoolsMatchTasks` promises
nothing then, as the pages it took are not linked to a task yet.

**Tables** (`KernelTablesProofs`). The four invariants about tables and the
refinement rest on one inductive invariant, `TablesInv`. Each page that serves as
a table has a level; an entry leads one level down, only a root leads to itself,
and no two entries lead to the same table (`Tree`). So walks that arrive at one
table are of one root and one range of addresses (`WalkSingle`): this is what
makes a change of one entry a change of one page in one process. On top of it,
every root leads to itself and maps what the kernel keeps, but for the first
page (`Served`), each program has its pages, no two processes have one root, and
the heap ends at one of the two ends it can have.

The code never writes an entry by its table: it computes an address, which the
processor translates through the entries there are. `Shift` is one step of that
arithmetic, and `index` of a shifted address is the index one level up, with
divisors that are powers of a variable `TABLE_SIZE`: the digits of a page are
handled by `DigitIs` alone. So the self-reference reaches the entry at each
level, and `map_virmem_to_phymem` sets the one entry it means
(`IsMapped`, `SetsView`), adding tables where they are missing, through a
self-reference of the table just added. The mappings of the kernel are
inductions over their parts and pages (`SetsKernel`, `IsRest`), a fork one over
the pages of the areas (`Shares`). Temporary mappings are shown to be put back.
`OnlySpentPoolsHalt` is the converse: where no pool is spent, each step finds its
tables and goes on.

`TablesActFlat` is a step simulation: the table of a process in `FlatTables` is
what a walk from its root finds for each user page (`FlatOf`), and each call is
one of `FlatTables`' steps or leaves all flat tables alone. That Init maps to
Init needs the boot to succeed: how many tables it takes is counted against the
pools (`Uses`, `BootGoesOn`), for which there is `BootAssumption`. The attempt at
the proof showed that an earlier `Forked`, where the child gets each page of the
parent, was wrong after an exec that shrinks the heap: `kernel_memory` reaches
that case.

**Shells** (`ShellProofs`). `ForegroundInv` relates parents and children in both
directions. A task has a parent only while that one is there to be told
(`LiveParents`), none is its own grandparent (`NoCircle`); every foreground task
has a parent that waits for it and for no other (`Awaited`, `WaitsForOwn`), and
only such a task leaves a zombie (`Zombies`). A shell that knows of an exit,
because it was woken or because `wait_pid` names its child, knows of that of its
child, and the child's exit is known to it (`Noted`), if it has no other child:
and who had no job when it forked has none while it waits (`OnlyChild`). This is
what separates such a shell from the exits of all others: an exit changes its
parent only, and its parent is not this one unless it is the awaited child
(`OthersAre`). Each call is first reduced to what it does to the tasks (`StepIs`);
that a waitpid which returns too early frees a task in the middle of a wait of
its own is a case of it (`ForegroundReturns`). A slot that is given up and taken
again would break the invariant, hence the conditions on who may be freed.
`DirectoryInv` carries what `cd_cmd` has read of the common directory to the step
that sets it, while other shells change it: what is looked up is an absolute
path inside rootfs or the root, and what was set was found. `PathInv` says that
PATH is the original or its first directory.

`ProgramsShowWhatWasAsked` has two halves. One is about the archive: what
`do_readdir` selects by counting slashes behind a prefix, and `do_read_rootfs` by
where they stand, are the entries whose parent is the directory (`ListedIs`,
`PlainIs`, `ReaddirIs`, `RootfsIs`), in their order, which is a matter of the ranks
of indices (`SequenceLemmas`); so `shows` is `meant` in every directory (`ShowsIs`).
The other is about the tasks: from the fork until the program asks for the
directory, every shell and init wait, for it or for a shell, and those that wait
for a shell have no job whose exit would wake them (`AskedWaits`), by an
induction along the chain of parents at the fork (`ChainIs`); while they wait
only programs go on or end, and only the wait for the program itself ends
(`OnlyPrograms`). A job of the shell that forked it may end that wait, but then
the program is marked dead and shows nothing. So the directory is the one the line
was typed in.

`ShellsStayTyped` needs both ends of a command: that the line a shell runs was
given, by a user or in one of the scripts it has nested (`AllGiven`), and that
what a search makes of it in the directory and the PATH it has is a file the
command can stand for (`SearchNames`), for which the directory must be one and
PATH be as `DirectoryInv` and `PathInv` say.

**Programs** (`LibraryProofs`). The heap's end is at a page boundary and below
what the calls so far can have added (`HeapInv`), so the masked sum of `do_sbrk`
is the true one, or wraps to something below the old end, never equal to it. A
walk's next header is less than a block behind the end of the body
(`HeaderIsBehind`). `strcmp` and `strncmp` stop at the first character that
decides (`OrderedByNext`); a walk of `strstr` finds the first place by induction
backwards from it (`SearchFinds`).

A word reaches up to the first separator behind it (`EndOfIs`) and ends before
the next begins (`WordsApart`), and each character that separates nothing is in
one (`InAWord`); so word by word, in the order of their beginnings, they add up
to the line without its separators (`KeptMore`, `WordsFlatten`). `sh_cmd` is
followed from the end of the script: from each place on, what it executes are
the lines from there (`LinesPush`, `LineWalkFinds`).

The strings of an array are laid from the last to the first: those from the k-th
on stand between the stack pointer and the place where the first was to end, each
but the last with a zero behind it (`Laid`, `LaidStep`, `LaidAll`). The array of
the environment leaves a zero where the one of the arguments begins, so all
strings of `argv` end; the last one of `envp` ends at the frame's last byte, which
nothing has written. The words lie below (`StackRoom`, `WordsPut`), so no string is
overwritten, and a pointer is never zero, so an array ends where it should
(`StringsFound`). The page has room by `LibraryAssumption`; `execve` itself does
not look.

Inductions over numbers use `SetInduction` of `SequenceLemmas`, which is stated for
a set instead of a predicate and follows from the well-foundedness of strict
subsets, in a form that first-order provers can use.

Only model-checked:

* Liveness under fairness (`WaiterReturns`, `ReadyRuns`, `SleepersWake`,
  `EnterEndsRead`, `PromptComesBack`), which is out of the prover's reach.
* `Library`: `NumbersAndFields`, where powers and the recursion over digits would
  have to be followed for every input.

## 10. Not modelled

* Boot, the descriptor tables and the stack switch of system calls are
  straight-line code whose result is `Init`; registers are not state here, so
  that an exec which fails after it has replaced its caller's stack is seen in
  memory only.
* The TLB, and what the code maps when frames run out: nothing is promised then.
* Two areas that meet on one page, and ELF files of other shapes than one page
  of code and one of data.
* Layout of formats, `%p`, escapes, shift and function keys, the clock.
* tarfs_close and closedir, which no program calls; `find_file`; the sizes of
  the shell's buffers and of `dirent`.
* newfs, which writes an empty image, the FreeBSD loader files in `rootfs/boot`,
  and the two warm-up exercises, which SBUnix supersedes.

## 11. Findings

`PROJECT.json` lists five disagreements between code and its comments or README,
each with the run that shows it: `lost_task`, `reaped_alive`, `lost_wakeup`,
`exec_elsewhere` and `kernel_writes`. Two more need no run of their own: the
comment of printf.c:53 (section 4), and `README:1` on shells that exit
(section 7).

## 12. Running

    tlc -workers 2 -config lifecycle.cfg Process.tla
    tlc -workers 2 -config shell.cfg ShellMC.tla
    tlapm ProcessProofs.tla
    tlapm KernelTablesProofs.tla

Runs and modules are paired in `PROJECT.json`. The longest, `memory`, takes
about three minutes on two cores; a module of proofs takes up to ten.
