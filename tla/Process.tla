------------------------------ MODULE Process ------------------------------
(***************************************************************************)
(* Processes and the scheduler of SBUnix: the run queue, fork, exit,       *)
(* waitpid, kill, ps (which also frees dead tasks), sleep, yield, a read   *)
(* from the terminal, and the timer interrupt that preempts user code.     *)
(*                                                                         *)
(* The kernel is not preemptive.  do_syscall runs with interrupts off, so  *)
(* a system call is one step up to its return or to the schedule() that    *)
(* suspends it.  A call suspended by schedule() resumes later, with        *)
(* interrupts on: waitpid then still has work to do (waitpid_return).      *)
(* terminal_read turns interrupts on and spins, so it is two steps.        *)
(* User programs are nondeterministic: see MayCall.                        *)
(***************************************************************************)
EXTENDS Integers, FiniteSets

CONSTANTS
  PROCESS_NUMBER, \* slots of the TASK pool, and pids: 128 in the code
  FORK_LIMIT,     \* forks until the USERPT pool is exhausted (never refilled)
  BOOT_TICKS,     \* ticks before the first scheduling: 300
  SLICE,          \* ticks of a time slice: 50
  IRQ0_period,    \* ms between two ticks: 5
  SECOND,         \* ms that sleep counts for a second: 1000
  UINT32, UINT64, \* 2^32 and 2^64, scaled down in the bounded models
  SleepArgs,      \* the arguments programs give to sleep()
  Calls,          \* the system calls that programs make
  Background,     \* TRUE: a program may leave a child running unwaited ("&")
  NULL            \* the null pointer

\* The scheduler starts on a slice boundary, as 300 and 50 do.
ASSUME TimerAssumption ==
  /\ BOOT_TICKS \in Nat \ {0} /\ SLICE \in Nat \ {0}
  /\ BOOT_TICKS % SLICE = 0
  /\ IRQ0_period \in Nat \ {0} /\ SECOND \in Nat
  /\ UINT32 \in Nat \ {0} /\ UINT64 \in Nat \ {0} /\ UINT32 <= UINT64
  /\ SleepArgs \subseteq Nat

\* About 29 pages of page tables per fork and 1280 in the pool: forks stop
\* before the 128 pids and task slots run out.
ASSUME PoolAssumption ==
  /\ PROCESS_NUMBER \in Nat /\ FORK_LIMIT \in Nat
  /\ FORK_LIMIT + 2 <= PROCESS_NUMBER
  /\ NULL \notin 0 .. PROCESS_NUMBER - 1

ASSUME ProgramAssumption ==
  /\ Calls \subseteq {"fork", "exit", "waitpid", "kill", "ps", "sleep",
                      "yield", "read"}
  /\ Background \in BOOLEAN

VARIABLES
  task_state,     \* slot -> state; "free": the slot is not allocated
  pid, ppid,      \* slot -> pid, pid of the parent
  next,           \* slot -> next task of the circular run queue
  wait_pid,       \* slot -> pid of the child that exited last
  sleep_time,     \* slot -> ms remaining
  current,        \* the task that has the CPU
  end,            \* where add_task inserts
  npid,           \* pids below npid have been assigned
  ready_schedule, \* a time slice has run up
  boot_count,     \* ticks since boot
  pc,             \* slot -> where its execution is (see Where)
  wait_arg,       \* slot -> the pid a suspended waitpid is about
  unwaited,       \* slot -> children its program has not waited for
  halted          \* the CPU executed hlt with interrupts off

vars == <<task_state, pid, ppid, next, wait_pid, sleep_time, current, end,
          npid, ready_schedule, boot_count, pc, wait_arg, unwaited, halted>>

Slots == 0 .. PROCESS_NUMBER - 1
Pids  == 0 .. FORK_LIMIT + 1
IDLE  == 0        \* the slot, and the pid, of the idle thread
INIT  == 1        \* the slot, and the pid, of init

State == {"free", "ready", "running", "sleeping", "blocked", "zombie", "dead"}
Where == {"kernel", "user", "waitpid", "read"}

Terminated == {"zombie", "dead"}
FreeTasks  == {s \in Slots : task_state[s] = "free"}
----------------------------------------------------------------------------
(* The run queue.                                                          *)

\* The tasks a walk along the links nxt visits from a on, when it goes no
\* further than the members of stops: the least set with a that nxt leads out
\* of only at stops.
Reach(nxt, a, stops) ==
  LET closed == {T \in SUBSET Slots :
        /\ a = NULL \/ a \in T
        /\ \A y \in T : y \in stops \/ nxt[y] = NULL \/ nxt[y] \in T}
  IN {x \in Slots : \A T \in closed : x \in T}

\* The run queue as every loop of the kernel sees it: from current on.
Queue == Reach(next, current, {})

find_task_struct(p) == {s \in Queue : pid[s] = p}

\* Faulty variant: the new task is linked but does not link back.
add_task_no_link(t, nxt) == [nxt EXCEPT ![end] = t]

add_task(t, nxt) == [nxt EXCEPT ![t] = nxt[end], ![end] = t]

\* Faulty variant: the preempted task keeps its state.
after_preempt_kept(ts) == ts

\* The task that loses the CPU, if it still runs, becomes ready.
after_preempt(ts) ==
  IF ts[current] = "running" THEN [ts EXCEPT ![current] = "ready"] ELSE ts

Runnable(ts) == {s \in Slots : ts[s] = "ready" /\ pid[s] # 0}

\* Faulty variant: the search starts at the head of the queue.
Candidates_from_head(ts) ==
  (Reach(next, next[IDLE], Runnable(ts) \cup {current}) \cap Runnable(ts))
    \ {current}

\* The first runnable task after current; the loop gives up when it is back
\* at current, even if current itself is ready.
Candidates(ts) ==
  (Reach(next, next[current], Runnable(ts) \cup {current}) \cap Runnable(ts))
    \ {current}

pick(ts) ==
  LET found == Candidates(ts)
  IN IF found = {} THEN IDLE ELSE CHOOSE s \in found : TRUE

\* Faulty variant: end stays where the last fork left it.
schedule_stale_end(st) ==
  LET ts  == after_preempt(st)
      nxt == pick(ts)
  IN /\ current' = nxt
     /\ end' = end
     /\ task_state' = [ts EXCEPT ![nxt] = "running"]

\* schedule(), called when the task states are st.
schedule(st) ==
  LET ts  == after_preempt(st)
      nxt == pick(ts)
  IN /\ current' = nxt
     /\ end' = nxt
     /\ task_state' = [ts EXCEPT ![nxt] = "running"]

\* The first task of keep after x.
next_kept(x, keep) == CHOOSE y \in Reach(next, next[x], keep) \cap keep : TRUE
----------------------------------------------------------------------------
(* User programs.  init forks a shell and waits for it; the shell waits    *)
(* for the program it starts unless the command ends with "&".  A program  *)
(* may be ended at any point by a page fault, which calls do_exit.         *)

MayCall(c) ==
  /\ ~halted
  /\ c \in Calls
  /\ pc[current] = "user"
  /\ current = INIT => c \in {"fork", "waitpid"}
  /\ c = "fork" /\ (current = INIT \/ ~Background) => unwaited[current] = {}
----------------------------------------------------------------------------
Init ==
  /\ task_state = [s \in Slots |->
                     IF s \in {IDLE, INIT} THEN "ready" ELSE "free"]
  /\ pid = [s \in Slots |-> IF s = INIT THEN 1 ELSE 0]
  /\ ppid = [s \in Slots |-> 0]
  /\ next = [s \in Slots |-> CASE s = IDLE -> INIT
                               [] s = INIT -> IDLE
                               [] OTHER -> NULL]
  /\ wait_pid = [s \in Slots |-> 0]
  /\ sleep_time = [s \in Slots |-> 0]
  /\ current = IDLE
  /\ end = INIT
  /\ npid = 2
  /\ ready_schedule = FALSE
  /\ boot_count = 0
  /\ pc = [s \in Slots |-> "kernel"]
  /\ wait_arg = [s \in Slots |-> 0]
  /\ unwaited = [s \in Slots |-> {}]
  /\ halted = FALSE

\* The kernel code at w, that current executes, returns to the program.
leaves_kernel(w) ==
  /\ ~halted
  /\ pc[current] = w
  /\ pc' = [pc EXCEPT ![current] = "user"]

\* The init thread becomes a user process: do_execv("bin/init").
func_init ==
  /\ current = INIT
  /\ leaves_kernel("kernel")
  /\ UNCHANGED <<task_state, pid, ppid, next, wait_pid, sleep_time, current,
                 end, npid, ready_schedule, boot_count, wait_arg, unwaited,
                 halted>>
----------------------------------------------------------------------------
(* The timer interrupt.                                                    *)

\* Faulty variant: the tick is not taken off.
time_left_kept(s) == sleep_time[s]

\* sleep_time is a uint64_t: below zero it wraps.
time_left(s) == (sleep_time[s] - IRQ0_period) % UINT64

Sleepers == {s \in Queue : task_state[s] = "sleeping"}

\* sleep_time <= 0, on an unsigned number.
expired(s) == time_left(s) = 0

Expired == {s \in Sleepers : expired(s)}

tick_states ==
  LET woken_up == Expired
  IN [s \in Slots |-> IF s \in woken_up THEN "ready" ELSE task_state[s]]

slice_over(n) == n % SLICE = 0

\* boot_count is kept below BOOT_TICKS + SLICE: both tests the code makes of
\* it only depend on it up to there.
next_count ==
  IF boot_count + 1 = BOOT_TICKS + SLICE THEN BOOT_TICKS ELSE boot_count + 1

tick == ~halted /\ boot_count' = next_count

isr_timer ==
  LET due     == ready_schedule \/ slice_over(next_count)
      preempt == due /\ (pc[current] = "user" \/ pid[current] = 0)
  IN /\ tick
     /\ IF next_count < BOOT_TICKS
        THEN UNCHANGED <<task_state, sleep_time, ready_schedule, current, end>>
        ELSE /\ LET asleep == Sleepers IN
                sleep_time' = [s \in Slots |-> IF s \in asleep THEN time_left(s)
                                               ELSE sleep_time[s]]
             /\ IF preempt
                THEN ready_schedule' = FALSE /\ schedule(tick_states)
                ELSE /\ ready_schedule' = due
                     /\ task_state' = tick_states
                     /\ UNCHANGED <<current, end>>
     /\ UNCHANGED <<pid, ppid, next, wait_pid, npid, pc, wait_arg, unwaited,
                    halted>>
----------------------------------------------------------------------------
(* System calls.                                                           *)

\* Faulty variant: the pool is never found empty.
pool_exhausted_never == FALSE

\* kmalloc(USERPT) fails: kmalloc_error() executes hlt, with interrupts off.
pool_exhausted == npid = FORK_LIMIT + 2

\* Faulty variant: the parent's wait_pid already names the new child.
wait_pid_after_fork_named(c) == [wait_pid EXCEPT ![c] = 0, ![current] = npid]

wait_pid_after_fork(c) == [wait_pid EXCEPT ![c] = 0]

do_fork ==
  /\ MayCall("fork")
  /\ IF pool_exhausted
     THEN /\ halted' = TRUE
          /\ UNCHANGED <<task_state, pid, ppid, next, wait_pid, sleep_time,
                         end, npid, pc, wait_arg, unwaited>>
     ELSE \E c \in FreeTasks :
          /\ \A f \in FreeTasks : c <= f         \* kmalloc takes the first
          /\ pid' = [pid EXCEPT ![c] = npid]
          /\ ppid' = [ppid EXCEPT ![c] = pid[current]]
          /\ task_state' = [task_state EXCEPT ![c] = "ready"]
          /\ next' = add_task(c, next)
          /\ end' = c
          /\ npid' = npid + 1
          /\ wait_pid' = wait_pid_after_fork(c)
          /\ sleep_time' = [sleep_time EXCEPT ![c] = 0]
          /\ wait_arg' = [wait_arg EXCEPT ![c] = 0]
          /\ pc' = [pc EXCEPT ![c] = "user"]
          /\ unwaited' = [unwaited EXCEPT ![current] = @ \cup {npid}]
          /\ halted' = FALSE
  /\ UNCHANGED <<current, ready_schedule, boot_count>>

\* The task with pid p, if the queue has one, is made dead.
made_dead(p) ==
  LET found == find_task_struct(p)
  IN [s \in Slots |-> IF s \in found THEN "dead" ELSE task_state[s]]

\* Faulty variant: the child is reaped without waiting for its exit.
exit_seen_always(p) == TRUE

exit_seen(p) == wait_pid[current] = p

do_waitpid(p) ==
  /\ MayCall("waitpid")
  /\ p \in unwaited[current]
  /\ IF exit_seen(p)
     THEN /\ task_state' = made_dead(p)
          /\ unwaited' = [unwaited EXCEPT ![current] = @ \ {p}]
          /\ UNCHANGED <<current, end, pc, wait_arg>>
     ELSE /\ pc' = [pc EXCEPT ![current] = "waitpid"]
          /\ wait_arg' = [wait_arg EXCEPT ![current] = p]
          /\ schedule([task_state EXCEPT ![current] = "blocked"])
          /\ UNCHANGED unwaited
  /\ UNCHANGED <<pid, ppid, next, wait_pid, sleep_time, npid, ready_schedule,
                 boot_count, halted>>

\* A suspended waitpid runs again and finishes, without looking at wait_pid.
waitpid_return ==
  /\ leaves_kernel("waitpid")
  /\ task_state' = made_dead(wait_arg[current])
  /\ unwaited' = [unwaited EXCEPT ![current] = @ \ {wait_arg[current]}]
  /\ wait_arg' = [wait_arg EXCEPT ![current] = 0]
  /\ UNCHANGED <<pid, ppid, next, wait_pid, sleep_time, current, end, npid,
                 ready_schedule, boot_count, halted>>

\* A call with pid 0 or 1, or with a pid that is not found, changes nothing.
do_kill(p) ==
  /\ MayCall("kill")
  /\ p > 1 /\ find_task_struct(p) # {}
  /\ task_state' = made_dead(p)
  /\ UNCHANGED <<pid, ppid, next, wait_pid, sleep_time, current, end, npid,
                 ready_schedule, boot_count, pc, wait_arg, unwaited, halted>>

\* Faulty variants: the parent is made ready in any state, or never.
woken_any(parent) == parent
woken_never(parent) == {}

\* The parent, if it is blocked, as only waitpid blocks a task.
woken(parent) == {s \in parent : task_state[s] = "blocked"}

do_exit ==
  LET parent == find_task_struct(ppid[current])
      wakes  == woken(parent)
  IN
  /\ MayCall("exit")
  /\ wait_pid' = [s \in Slots |-> IF s \in parent THEN pid[current]
                                  ELSE wait_pid[s]]
  /\ schedule([s \in Slots |-> IF s = current THEN "zombie"
                               ELSE IF s \in wakes THEN "ready"
                               ELSE task_state[s]])
  /\ UNCHANGED <<pid, ppid, next, sleep_time, npid, ready_schedule,
                 boot_count, pc, wait_arg, unwaited, halted>>

\* do_ps lists the run queue, then clean_dead unlinks and frees its dead
\* tasks other than current; kfree zeroes them.  end may be one of them.
do_ps ==
  LET gone == {s \in Queue \ {current} : task_state[s] = "dead"}
      keep == Queue \ gone
      zeroed(f, zero) == [s \in Slots |-> IF s \in gone THEN zero ELSE f[s]]
  IN /\ MayCall("ps")
     /\ next' = [s \in Slots |-> IF s \in gone THEN NULL
                                 ELSE IF s \in keep THEN next_kept(s, keep)
                                 ELSE next[s]]
     /\ task_state' = zeroed(task_state, "free")
     /\ pid' = zeroed(pid, 0)
     /\ ppid' = zeroed(ppid, 0)
     /\ wait_pid' = zeroed(wait_pid, 0)
     /\ sleep_time' = zeroed(sleep_time, 0)
     /\ pc' = zeroed(pc, "kernel")
     /\ wait_arg' = zeroed(wait_arg, 0)
     /\ unwaited' = zeroed(unwaited, {})
     /\ UNCHANGED <<current, end, npid, ready_schedule, boot_count, halted>>

\* seconds and the product are uint32_t.
do_sleep(seconds) ==
  /\ MayCall("sleep")
  /\ sleep_time' = [sleep_time EXCEPT ![current] = (seconds * SECOND) % UINT32]
  /\ schedule([task_state EXCEPT ![current] = "sleeping"])
  /\ UNCHANGED <<pid, ppid, next, wait_pid, npid, ready_schedule, boot_count,
                 pc, wait_arg, unwaited, halted>>

do_yield ==
  /\ MayCall("yield")
  /\ schedule(task_state)
  /\ UNCHANGED <<pid, ppid, next, wait_pid, sleep_time, npid, ready_schedule,
                 boot_count, pc, wait_arg, unwaited, halted>>

\* terminal_read spins in kernel mode, interrupts on, until Enter is pressed.
terminal_read ==
  /\ MayCall("read")
  /\ pc' = [pc EXCEPT ![current] = "read"]
  /\ UNCHANGED <<task_state, pid, ppid, next, wait_pid, sleep_time, current,
                 end, npid, ready_schedule, boot_count, wait_arg, unwaited,
                 halted>>

terminal_read_return ==
  /\ leaves_kernel("read")
  /\ UNCHANGED <<task_state, pid, ppid, next, wait_pid, sleep_time, current,
                 end, npid, ready_schedule, boot_count, wait_arg, unwaited,
                 halted>>
----------------------------------------------------------------------------
Next ==
  \/ func_init
  \/ isr_timer
  \/ do_fork
  \/ \E p \in Pids : do_waitpid(p)
  \/ waitpid_return
  \/ \E p \in Pids : do_kill(p)
  \/ do_exit
  \/ do_ps
  \/ \E t \in SleepArgs : do_sleep(t)
  \/ do_yield
  \/ terminal_read
  \/ terminal_read_return

Spec == Init /\ [][Next]_vars

\* The timer keeps interrupting, and the CPU keeps executing kernel code: the
\* end of a waitpid and of func_init.  Programs owe nothing, nor does the user
\* at the keyboard.  Only isr_timer changes boot_count, and it can always take
\* a tick; the other two are the only steps with the second formula's change
\* of pc, and are enabled when it is: this is their weak fairness.
Fairness ==
  /\ WF_boot_count(tick)
  /\ WF_pc(\/ leaves_kernel("waitpid")
           \/ current = INIT /\ leaves_kernel("kernel"))

FairSpec == Spec /\ Fairness
----------------------------------------------------------------------------
(* Safety.                                                                 *)

\* The types; in particular that no pid, count or time leaves its range, which
\* holds as a fork beyond the pool of page tables halts the machine.
TypeOK ==
  /\ task_state \in [Slots -> State]
  /\ pid \in [Slots -> Pids]
  /\ ppid \in [Slots -> Pids]
  /\ next \in [Slots -> Slots \cup {NULL}]
  /\ wait_pid \in [Slots -> Pids]
  /\ sleep_time \in [Slots -> 0 .. UINT64 - 1]
  /\ current \in Slots
  /\ end \in Slots
  /\ npid \in 2 .. FORK_LIMIT + 2
  /\ ready_schedule \in BOOLEAN
  /\ boot_count \in 0 .. BOOT_TICKS + SLICE - 1
  /\ pc \in [Slots -> Where]
  /\ wait_arg \in [Slots -> Pids]
  /\ unwaited \in [Slots -> SUBSET Pids]
  /\ halted \in BOOLEAN

\* A set of tasks that the links nxt do not lead out of.
Closed(nxt, T) == \A s \in T : nxt[s] \in T

\* T is one cycle of tasks: no proper part of it is closed.
IsRing(nxt, T) ==
  /\ Closed(nxt, T)
  /\ \A U \in SUBSET T : U # {} /\ Closed(nxt, U) => U = T

\* The tasks reached from current form one cycle through the idle thread, of
\* allocated slots only: every walk of schedule(), find_task_struct(),
\* sleep_time_decrease() and clean_dead() comes back to where it started and
\* never touches freed memory, even while end points at a freed slot.
RunQueueSound ==
  LET Q == Queue
  IN /\ IDLE \in Q
     /\ \A s \in Q : task_state[s] # "free"
     /\ IsRing(next, Q)

\* The CPU is given to one task: nothing but current is marked running, and
\* current never sleeps, waits or is a zombie while it executes.
OnlyCurrentRuns ==
  /\ \A s \in Slots : task_state[s] = "running" => s = current
  /\ task_state[current] \in {"ready", "running", "dead"}
  /\ task_state[current] = "ready" => current = IDLE /\ boot_count < BOOT_TICKS

\* wait_pid, "pid of child last exited" (process.h), names a process that has
\* ended: do_waitpid may take it as proof that it need not wait.
LastExitedEnded ==
  \A s, c \in Slots :
    task_state[s] # "free" /\ wait_pid[s] # 0 /\ pid[c] = wait_pid[s]
      => task_state[c] \in Terminated

\* A zombie, or a task killed by another, never runs, sleeps or blocks again:
\* a late wake-up by a child's exit or by the timer does not revive it.
TerminatedIsFinal ==
  [][\A s \in Slots :
       \/ task_state[s] = "zombie"
       \/ task_state[s] = "dead" /\ s # current
       => task_state'[s] \in Terminated \cup {"free"}]_vars

\* Every allocated task is on the run queue, where schedule() can find it:
\* "add child task to run queue" (do_fork).
NoTaskLost == {s \in Slots : task_state[s] # "free"} \subseteq Queue

\* Only a process that has exited is reaped: "zombie become dead when its
\* parent read the return value" (schedule.c).
ReapedHadExited ==
  [][\A s \in Slots : task_state[s] # "dead" /\ task_state'[s] = "dead"
       => task_state[s] = "zombie"]_vars

\* A process blocked in waitpid waits for a child that is still to exit.
NoLostWakeup ==
  \A s \in Slots : pc[s] = "waitpid" /\ task_state[s] = "blocked" =>
    \E c \in Queue : /\ pid[c] = wait_arg[s]
                     /\ task_state[c] \notin Terminated

----------------------------------------------------------------------------
(* Liveness.                                                               *)

\* A sleeping process is woken: ticks count its time down in every mode.
SleepersWake ==
  \A s \in Slots \ {IDLE, INIT} :
    task_state[s] = "sleeping" ~> task_state[s] # "sleeping" \/ halted

\* A ready process gets the CPU (or is killed): no process starves, however
\* long the others compute, as the timer preempts them.
ReadyRuns ==
  \A s \in Slots \ {IDLE} :
    task_state[s] = "ready" ~> task_state[s] # "ready" \/ halted

\* waitpid returns once the child it waits for has exited.
WaiterReturns ==
  \A s \in Slots \ {IDLE} :
    /\ pc[s] = "waitpid"
    /\ \E c \in Slots : pid[c] = wait_arg[s] /\ task_state[c] = "zombie"
    ~> pc[s] # "waitpid" \/ halted
============================================================================
