--------------------------- MODULE ProcessProofs ---------------------------
(***************************************************************************)
(* Proofs about the run queue and the task states of Process, for every    *)
(* value of its constants.                                                 *)
(***************************************************************************)
EXTENDS Process, TLAPS

Links == [Slots -> Slots \cup {NULL}]
----------------------------------------------------------------------------
(* Walks and rings.                                                        *)

\* A walk visits its start, and the successor of what it visits and does not
\* stop at.
LEMMA ReachClosed ==
  ASSUME NEW n \in Links, NEW a \in Slots, NEW stops
  PROVE  /\ a \in Reach(n, a, stops)
         /\ Reach(n, a, stops) \subseteq Slots
         /\ \A y \in Reach(n, a, stops) \ stops :
               n[y] # NULL => n[y] \in Reach(n, a, stops)
<1>1. a # NULL
  BY PoolAssumption DEF Slots
<1>2. ASSUME NEW y \in Reach(n, a, stops) \ stops, n[y] # NULL
      PROVE  n[y] \in Reach(n, a, stops)
  <2>1. y \in Slots /\ n[y] \in Slots
    BY <1>2 DEF Reach, Links
  <2>2. ASSUME NEW T \in SUBSET Slots, a \in T,
               \A z \in T : z \in stops \/ n[z] = NULL \/ n[z] \in T
        PROVE  n[y] \in T
    <3>1. y \in T
      BY <1>2, <2>2 DEF Reach
    <3>2. QED
      BY <3>1, <2>2, <1>2
  <2>3. QED
    BY <2>1, <2>2, <1>1 DEF Reach
<1>3. QED
  BY <1>1, <1>2 DEF Reach

\* A walk stays in every set that it starts in and that is closed except at
\* the stops.
LEMMA ReachLeast ==
  ASSUME NEW n \in Links, NEW a \in Slots, NEW stops, NEW T \in SUBSET Slots,
         a \in T, \A y \in T : y \in stops \/ n[y] = NULL \/ n[y] \in T
  PROVE  Reach(n, a, stops) \subseteq T
BY DEF Reach

\* All of a ring is reached from any of its tasks.
LEMMA RingReached ==
  ASSUME NEW n \in Links, NEW Q \in SUBSET Slots, IsRing(n, Q), NEW c \in Q
  PROVE  Reach(n, c, {}) = Q
<1> DEFINE R == Reach(n, c, {})
<1>1. R \subseteq Q
  BY ReachLeast DEF IsRing, Closed
<1>2. c \in R
  BY ReachClosed
<1>3. Closed(n, R)
  <2> SUFFICES ASSUME NEW y \in R PROVE n[y] \in R
    BY DEF Closed
  <2>1. n[y] # NULL
    BY <1>1, PoolAssumption DEF IsRing, Closed, Slots
  <2>2. QED
    BY <2>1, ReachClosed
<1>4. QED
  BY <1>1, <1>2, <1>3 DEF IsRing

\* Links changed outside a ring leave it a ring.
LEMMA RingFrame ==
  ASSUME NEW n, NEW m, NEW Q, IsRing(n, Q), \A s \in Q : m[s] = n[s]
  PROVE  IsRing(m, Q)
BY DEF IsRing, Closed

\* add_task on a ring: a task inserted after a member makes a larger ring.
LEMMA RingInsert ==
  ASSUME NEW n \in Links, NEW Q \in SUBSET Slots, IsRing(n, Q),
         NEW e \in Q, NEW t \in Slots \ Q
  PROVE  IsRing([n EXCEPT ![t] = n[e], ![e] = t], Q \cup {t})
<1> DEFINE m == [n EXCEPT ![t] = n[e], ![e] = t]
<1>1. /\ m[t] = n[e] /\ m[e] = t
      /\ \A s \in Q : s # e => m[s] = n[s]
  BY DEF Links
<1> HIDE DEF m
<1>2. \A s \in Q : n[s] \in Q
  BY DEF IsRing, Closed
<1>3. Closed(m, Q \cup {t})
  BY <1>1, <1>2 DEF Closed
<1>4. ASSUME NEW U \in SUBSET (Q \cup {t}), U # {}, Closed(m, U)
      PROVE  U = Q \cup {t}
  <2> DEFINE V == U \cap Q
  <2>1. \A s \in U : m[s] \in U
    BY <1>4 DEF Closed
  <2>2. t \in U => n[e] \in V
    BY <2>1, <1>1, <1>2
  <2>3. V # {}
    BY <2>2, <1>4
  <2>4. Closed(n, V)
    <3> SUFFICES ASSUME NEW s \in V PROVE n[s] \in V
      BY DEF Closed
    <3>1. CASE s = e
      BY <3>1, <2>1, <2>2, <1>1
    <3>2. CASE s # e
      BY <3>2, <2>1, <1>1, <1>2
    <3>3. QED
      BY <3>1, <3>2
  <2>5. V = Q
    BY <2>3, <2>4 DEF IsRing
  <2>6. QED
    BY <2>5, <2>1, <1>1
<1>5. QED
  BY <1>3, <1>4 DEF IsRing, m

\* What a walk over a ring stops at, when it stops at the members of keep.
Kept(n, x, keep) == Reach(n, n[x], keep) \cap keep

LEMMA WalkToKept ==
  ASSUME NEW n \in Links, NEW Q \in SUBSET Slots, IsRing(n, Q),
         NEW keep \in SUBSET Q, keep # {}, NEW x \in Q
  PROVE  /\ Kept(n, x, keep) # {}
         /\ n[x] \in keep => Kept(n, x, keep) = {n[x]}
         /\ n[x] \notin keep => Kept(n, x, keep) = Kept(n, n[x], keep)
<1> DEFINE R == Reach(n, n[x], keep)
<1>1. \A s \in Q : n[s] \in Q /\ n[s] # NULL /\ n[s] \in Slots
  BY PoolAssumption DEF IsRing, Closed, Slots
<1>2. R \subseteq Q
  BY <1>1, ReachLeast
<1>3. n[x] \in R /\ \A y \in R \ keep : n[y] \in R
  BY <1>1, <1>2, ReachClosed
<1> HIDE DEF R
<1>4. R \cap keep # {}
  <2> SUFFICES ASSUME R \cap keep = {} PROVE FALSE
    OBVIOUS
  <2>1. Closed(n, R)
    BY <1>3 DEF Closed
  <2>2. R = Q
    BY <2>1, <1>2, <1>3 DEF IsRing
  <2>3. QED
    BY <2>2
<1>5. n[x] \in keep => R = {n[x]}
  <2> SUFFICES ASSUME n[x] \in keep PROVE R = {n[x]}
    OBVIOUS
  <2>1. R \subseteq {n[x]}
    <3> DEFINE T == {n[x]}
    <3>1. T \in SUBSET Slots /\ n[x] \in T
      BY <1>1
    <3>2. \A y \in T : y \in keep \/ n[y] = NULL \/ n[y] \in T
      OBVIOUS
    <3> HIDE DEF T
    <3>3. R \subseteq T
      BY <1>1, <3>1, <3>2, ReachLeast DEF R
    <3>4. QED
      BY <3>3 DEF T
  <2>2. QED
    BY <2>1, <1>3
<1>6. n[x] \notin keep => R \cap keep = Reach(n, n[n[x]], keep) \cap keep
  <2> SUFFICES ASSUME n[x] \notin keep
               PROVE  R \cap keep = Reach(n, n[n[x]], keep) \cap keep
    OBVIOUS
  <2> DEFINE P == Reach(n, n[n[x]], keep)
  <2>1. n[n[x]] \in Slots
    BY <1>1
  <2>2. P \subseteq Slots /\ n[n[x]] \in P /\ \A y \in P \ keep : n[y] # NULL => n[y] \in P
    BY <2>1, ReachClosed
  <2>3. n[n[x]] \in R
    BY <1>3
  <2>4. \A y \in R : y \in keep \/ n[y] = NULL \/ n[y] \in R
    BY <1>3
  <2>5. P \subseteq R
    BY <1>2, <2>1, <2>3, <2>4, ReachLeast
  <2> HIDE DEF P
  <2>6. R \subseteq P \cup {n[x]}
    <3> DEFINE T == P \cup {n[x]}
    <3>1. T \in SUBSET Slots /\ n[x] \in T
      BY <1>1, <2>2
    <3>2. \A y \in T : y \in keep \/ n[y] = NULL \/ n[y] \in T
      BY <2>2
    <3> HIDE DEF T
    <3>3. R \subseteq T
      BY <1>1, <3>1, <3>2, ReachLeast DEF R
    <3>4. QED
      BY <3>3 DEF T
  <2>7. QED
    BY <2>5, <2>6 DEF P
<1>7. QED
  BY <1>4, <1>5, <1>6 DEF R, Kept

\* clean_dead on a ring: when every kept task is linked to the first kept
\* task after it, the kept tasks are a ring.
LEMMA RingDelete ==
  ASSUME NEW n \in Links, NEW Q \in SUBSET Slots, IsRing(n, Q),
         NEW keep \in SUBSET Q, keep # {}, NEW m,
         \A x \in keep : m[x] = CHOOSE y \in Kept(n, x, keep) : TRUE
  PROVE  IsRing(m, keep)
<1> DEFINE First(x) == CHOOSE y \in Kept(n, x, keep) : TRUE
<1>1. \A x \in Q : Kept(n, x, keep) # {}
  BY WalkToKept
<1>2. \A x \in Q : First(x) \in keep
  BY <1>1 DEF Kept
<1>3. \A x \in Q : n[x] \in keep => First(x) = n[x]
  BY WalkToKept
<1>4. \A x \in Q : n[x] \notin keep => First(x) = First(n[x])
  BY WalkToKept
<1>5. \A x \in keep : m[x] = First(x)
  OBVIOUS
<1> HIDE DEF First
<1>6. Closed(m, keep)
  BY <1>2, <1>5 DEF Closed
<1>7. ASSUME NEW U \in SUBSET keep, U # {}, Closed(m, U)
      PROVE  U = keep
  <2> DEFINE V == U \cup {y \in Q \ keep : First(y) \in U}
  <2>1. \A y \in V : First(y) \in U
    BY <1>5, <1>7 DEF Closed
  <2>2. ASSUME NEW y \in V PROVE n[y] \in V
    <3>1. y \in Q /\ n[y] \in Q
      BY DEF IsRing, Closed
    <3>2. CASE n[y] \in keep
      BY <3>1, <3>2, <2>1, <1>3
    <3>3. CASE n[y] \notin keep
      BY <3>1, <3>3, <2>1, <1>4
    <3>4. QED
      BY <3>2, <3>3
  <2>3. V = Q
    BY <2>2, <1>7 DEF IsRing, Closed
  <2>4. QED
    BY <2>3
<1>8. QED
  BY <1>6, <1>7 DEF IsRing
----------------------------------------------------------------------------
(* The inductive invariant.                                                *)

\* The idle thread stays in the kernel, and no call is made about it.
IdleStays ==
  /\ pid[IDLE] = 0 /\ pc[IDLE] = "kernel"
  /\ task_state[IDLE] \in {"ready", "running"}

\* Programs wait for children only, whose pids come after init's.
WaitsForChildren ==
  \A s \in Slots : /\ pc[s] = "waitpid" => wait_arg[s] > 1
                   /\ \A p \in unwaited[s] : p > 1

QueueInv == TypeOK /\ RunQueueSound /\ IdleStays /\ WaitsForChildren

\* What RunQueueSound says of the queue.
LEMMA QueueFacts ==
  ASSUME TypeOK, RunQueueSound
  PROVE  /\ Queue \in SUBSET Slots /\ current \in Queue /\ IDLE \in Queue
         /\ IsRing(next, Queue) /\ next \in Links
         /\ \A s \in Queue : next[s] \in Queue /\ next[s] # NULL
         /\ \A s \in Queue : task_state[s] # "free"
<1>1. next \in Links /\ current \in Slots
  BY DEF TypeOK, Links
<1>2. Queue \subseteq Slots /\ current \in Queue
  BY <1>1, ReachClosed DEF Queue
<1>3. IsRing(next, Queue) /\ IDLE \in Queue /\ \A s \in Queue : task_state[s] # "free"
  BY DEF RunQueueSound
<1>4. \A s \in Queue : next[s] \in Queue /\ next[s] # NULL
  BY <1>2, <1>3, PoolAssumption DEF IsRing, Closed, Slots
<1>5. QED
  BY <1>1, <1>2, <1>3, <1>4

\* A step that keeps the links, moves the CPU along the queue and frees none
\* of its tasks keeps the queue as it is.
LEMMA SameQueue ==
  ASSUME TypeOK, RunQueueSound, next' = next, current' \in Queue
  PROVE  /\ Queue' = Queue
         /\ (\A s \in Queue : task_state'[s] # "free") => RunQueueSound'
<1>1. Reach(next, current', {}) = Queue
  BY QueueFacts, RingReached
<1>2. Queue' = Queue
  BY <1>1 DEF Queue
<1>3. QED
  BY <1>2, QueueFacts DEF RunQueueSound

\* The scheduler picks a task of the queue.
LEMMA PickInQueue ==
  ASSUME TypeOK, RunQueueSound, NEW ts
  PROVE  /\ pick(ts) \in Queue
         /\ pick(ts) # IDLE =>
              pick(ts) # current /\ ts[pick(ts)] = "ready" /\ pid[pick(ts)] # 0
<1> DEFINE stops == Runnable(ts) \cup {current}
           R == Reach(next, next[current], stops)
<1>1. next[current] \in Queue /\ next[current] \in Slots
  BY QueueFacts
<1>2. \A y \in Queue : y \in stops \/ next[y] = NULL \/ next[y] \in Queue
  BY QueueFacts
<1>3. next \in Links /\ Queue \in SUBSET Slots /\ IDLE \in Queue
  BY QueueFacts
<1> HIDE DEF stops
<1>4. R \subseteq Queue
  BY <1>1, <1>2, <1>3, ReachLeast
<1> HIDE DEF R
<1>5. Candidates(ts) = (R \cap Runnable(ts)) \ {current}
  BY DEF Candidates, R, stops
<1>6. CASE Candidates(ts) = {}
  BY <1>6, <1>3 DEF pick
<1>7. CASE Candidates(ts) # {}
  <2>1. pick(ts) \in Candidates(ts)
    BY <1>7 DEF pick
  <2>2. QED
    BY <2>1, <1>5, <1>4 DEF Runnable
<1>8. QED
  BY <1>6, <1>7

\* What schedule() does to the CPU and to the task states.
LEMMA ScheduleFacts ==
  ASSUME TypeOK, RunQueueSound, NEW st \in [Slots -> State], schedule(st)
  PROVE  /\ current' \in Queue /\ current' \in Slots /\ end' = current'
         /\ task_state' \in [Slots -> State]
         /\ task_state'[current'] = "running"
         /\ \A s \in Slots : s # current' =>
              task_state'[s] = IF s = current /\ st[s] = "running"
                               THEN "ready" ELSE st[s]
         /\ current' # IDLE => /\ current' # current
                               /\ st[current'] = "ready"
                               /\ pid[current'] # 0
<1> DEFINE ts == after_preempt(st)
           nxt == pick(ts)
<1>1. ts \in [Slots -> State]
  BY DEF after_preempt, State, TypeOK
<1>2. \A s \in Slots : ts[s] = IF s = current /\ st[s] = "running"
                               THEN "ready" ELSE st[s]
  BY DEF after_preempt, TypeOK
<1> HIDE DEF ts
<1>3. /\ nxt \in Queue
      /\ nxt # IDLE => nxt # current /\ ts[nxt] = "ready" /\ pid[nxt] # 0
  BY PickInQueue
<1>4. Queue \subseteq Slots
  BY QueueFacts
<1>5. current' = nxt /\ end' = nxt /\ task_state' = [ts EXCEPT ![nxt] = "running"]
  BY DEF schedule, ts
<1> HIDE DEF nxt
<1>6. task_state' \in [Slots -> State]
  BY <1>1, <1>5 DEF State
<1>7. QED
  BY <1>1, <1>2, <1>3, <1>4, <1>5, <1>6

\* A call that ends in schedule() keeps the queue, and the idle thread, if the
\* states it hands over do.
LEMMA ScheduleKeeps ==
  ASSUME TypeOK, RunQueueSound, NEW st \in [Slots -> State], schedule(st),
         next' = next, \A s \in Queue : st[s] # "free",
         st[IDLE] \in {"ready", "running"}
  PROVE  RunQueueSound' /\ task_state'[IDLE] \in {"ready", "running"}
<1>1. /\ current' \in Queue /\ task_state'[current'] = "running"
      /\ \A s \in Slots : s # current' =>
           task_state'[s] = IF s = current /\ st[s] = "running"
                            THEN "ready" ELSE st[s]
  BY ScheduleFacts
<1>2. Queue \subseteq Slots /\ IDLE \in Queue
  BY QueueFacts
<1>3. \A s \in Queue : task_state'[s] # "free"
  BY <1>1, <1>2
<1>4. QED
  BY <1>1, <1>2, <1>3, SameQueue

\* A call finds its caller on the queue, and that is not the idle thread.
LEMMA Caller ==
  ASSUME QueueInv, NEW c, MayCall(c)
  PROVE  current # IDLE /\ current \in Queue /\ current \in Slots /\ ~halted
BY QueueFacts DEF QueueInv, IdleStays, MayCall, TypeOK

\* Killing, or reaping, a process other than init spares the idle thread and
\* the free slots.
LEMMA MadeDead ==
  ASSUME QueueInv, NEW p, p > 1, p \in Nat
  PROVE  /\ made_dead(p) \in [Slots -> State]
         /\ made_dead(p)[IDLE] = task_state[IDLE]
         /\ \A s \in Queue : made_dead(p)[s] # "free"
         /\ \A s \in Slots : s \notin Queue => made_dead(p)[s] = task_state[s]
         /\ \A s \in Slots : made_dead(p)[s] # task_state[s] =>
                             made_dead(p)[s] = "dead"
<1>1. IDLE \notin find_task_struct(p)
  BY DEF find_task_struct, QueueInv, IdleStays
<1>2. Queue \subseteq Slots /\ IDLE \in Queue /\ \A s \in Queue : task_state[s] # "free"
  BY QueueFacts DEF QueueInv
<1>3. find_task_struct(p) \subseteq Queue
  BY DEF find_task_struct
<1>4. QED
  BY <1>1, <1>2, <1>3 DEF made_dead, QueueInv, TypeOK, State

LEMMA QueueInvInit == Init => QueueInv
<1> SUFFICES ASSUME Init PROVE QueueInv
  OBVIOUS
<1>1. IDLE \in Slots /\ INIT \in Slots
  BY PoolAssumption DEF Slots, IDLE, INIT
<1>2. TypeOK
  <2>1. 0 \in Pids /\ 1 \in Pids
    BY PoolAssumption DEF Pids
  <2>2. npid \in 2 .. FORK_LIMIT + 2
    BY PoolAssumption DEF Init
  <2>3. boot_count \in 0 .. BOOT_TICKS + SLICE - 1
    BY TimerAssumption DEF Init
  <2>4. sleep_time \in [Slots -> 0 .. UINT64 - 1]
    BY TimerAssumption DEF Init
  <2>5. next \in [Slots -> Slots \cup {NULL}]
    BY <1>1 DEF Init
  <2>6. /\ task_state \in [Slots -> State] /\ pid \in [Slots -> Pids]
        /\ ppid \in [Slots -> Pids] /\ wait_pid \in [Slots -> Pids]
        /\ wait_arg \in [Slots -> Pids] /\ pc \in [Slots -> Where]
        /\ unwaited \in [Slots -> SUBSET Pids]
    BY <2>1 DEF Init, State, Where
  <2>7. current \in Slots /\ end \in Slots
    BY <1>1 DEF Init
  <2>8. ready_schedule \in BOOLEAN /\ halted \in BOOLEAN
    BY DEF Init
  <2>9. QED
    BY <2>2, <2>3, <2>4, <2>5, <2>6, <2>7, <2>8 DEF TypeOK
<1> DEFINE Q == {IDLE, INIT}
<1>3. next[IDLE] = INIT /\ next[INIT] = IDLE
  BY <1>1 DEF Init, IDLE, INIT
<1>4. IsRing(next, Q)
  BY <1>3 DEF IsRing, Closed
<1>5. next \in Links /\ current \in Q
  BY <1>2 DEF TypeOK, Links, Init
<1>6. Queue = Q
  BY <1>1, <1>4, <1>5, RingReached DEF Queue
<1>7. RunQueueSound
  BY <1>1, <1>4, <1>6 DEF RunQueueSound, Init
<1>8. IdleStays /\ WaitsForChildren
  BY <1>1 DEF IdleStays, WaitsForChildren, Init, IDLE, INIT
<1>9. QED
  BY <1>2, <1>7, <1>8 DEF QueueInv

LEMMA FuncInitStep ==
  ASSUME QueueInv, func_init  PROVE QueueInv'
<1>1. TypeOK /\ RunQueueSound /\ IdleStays /\ WaitsForChildren
  BY DEF QueueInv
<1>2. TypeOK'
  BY <1>1 DEF TypeOK, func_init, leaves_kernel, Where
<1>3. RunQueueSound'
  BY <1>1, QueueFacts, SameQueue DEF func_init
<1>4. IdleStays' /\ WaitsForChildren'
  BY <1>1 DEF IdleStays, WaitsForChildren, func_init, leaves_kernel, IDLE, INIT, TypeOK
<1>5. QED
  BY <1>2, <1>3, <1>4 DEF QueueInv

LEMMA ReadStep ==
  ASSUME QueueInv, terminal_read \/ terminal_read_return  PROVE QueueInv'
<1>1. TypeOK /\ RunQueueSound /\ IdleStays /\ WaitsForChildren
  BY DEF QueueInv
<1>2. TypeOK'
  BY <1>1 DEF TypeOK, terminal_read, terminal_read_return, leaves_kernel, Where
<1>3. RunQueueSound'
  BY <1>1, QueueFacts, SameQueue DEF terminal_read, terminal_read_return
<1>4. IdleStays' /\ WaitsForChildren'
  <2>1. CASE terminal_read
    BY <1>1, <2>1, Caller DEF IdleStays, WaitsForChildren, terminal_read, TypeOK
  <2>2. CASE terminal_read_return
    BY <1>1, <2>2
    DEF IdleStays, WaitsForChildren, terminal_read_return, leaves_kernel, TypeOK
  <2>3. QED
    BY <2>1, <2>2
<1>5. QED
  BY <1>2, <1>3, <1>4 DEF QueueInv

LEMMA YieldSleepStep ==
  ASSUME QueueInv, do_yield \/ \E t \in SleepArgs : do_sleep(t)
  PROVE  QueueInv'
<1>1. TypeOK /\ RunQueueSound /\ IdleStays /\ WaitsForChildren
  BY DEF QueueInv
<1>2. /\ next' = next /\ pid' = pid /\ ppid' = ppid /\ wait_pid' = wait_pid
      /\ npid' = npid /\ ready_schedule' = ready_schedule /\ boot_count' = boot_count
      /\ pc' = pc /\ wait_arg' = wait_arg /\ unwaited' = unwaited /\ halted' = halted
  BY DEF do_yield, do_sleep
<1>3. PICK st \in [Slots -> State] :
        /\ schedule(st)
        /\ st = task_state \/ st = [task_state EXCEPT ![current] = "sleeping"]
  BY <1>1 DEF do_yield, do_sleep, TypeOK, State
<1>4. current # IDLE /\ current \in Slots
  BY Caller DEF do_yield, do_sleep
<1>5. sleep_time' \in [Slots -> 0 .. UINT64 - 1]
  <2>1. CASE do_yield
    BY <1>1, <2>1 DEF do_yield, TypeOK
  <2>2. CASE \E t \in SleepArgs : do_sleep(t)
    <3>1. PICK t \in SleepArgs : do_sleep(t)
      BY <2>2
    <3>2. t * SECOND \in Nat
      BY TimerAssumption
    <3>3. (t * SECOND) % UINT32 \in 0 .. UINT64 - 1
      BY <3>2, TimerAssumption
    <3>4. QED
      BY <1>1, <3>1, <3>3 DEF do_sleep, TypeOK
  <2>3. QED
    BY <2>1, <2>2
<1>6. TypeOK'
  BY <1>1, <1>2, <1>3, <1>5, ScheduleFacts DEF TypeOK
<1>7. /\ \A s \in Queue : st[s] # "free"
      /\ st[IDLE] \in {"ready", "running"}
  BY <1>1, <1>3, <1>4, QueueFacts DEF IdleStays, TypeOK
<1>8. RunQueueSound' /\ task_state'[IDLE] \in {"ready", "running"}
  BY <1>1, <1>2, <1>3, <1>7, ScheduleKeeps
<1>9. IdleStays' /\ WaitsForChildren'
  BY <1>1, <1>2, <1>8 DEF IdleStays, WaitsForChildren
<1>10. QED
  BY <1>6, <1>8, <1>9 DEF QueueInv

LEMMA ExitStep ==
  ASSUME QueueInv, do_exit  PROVE QueueInv'
<1> DEFINE parent == find_task_struct(ppid[current])
           wakes == woken(parent)
           st == [s \in Slots |-> IF s = current THEN "zombie"
                                 ELSE IF s \in wakes THEN "ready"
                                 ELSE task_state[s]]
<1>1. TypeOK /\ RunQueueSound /\ IdleStays /\ WaitsForChildren
  BY DEF QueueInv
<1>2. /\ next' = next /\ pid' = pid /\ ppid' = ppid /\ sleep_time' = sleep_time
      /\ npid' = npid /\ ready_schedule' = ready_schedule /\ boot_count' = boot_count
      /\ pc' = pc /\ wait_arg' = wait_arg /\ unwaited' = unwaited /\ halted' = halted
      /\ schedule(st)
      /\ wait_pid' = [s \in Slots |-> IF s \in parent THEN pid[current] ELSE wait_pid[s]]
  BY DEF do_exit
<1>3. current # IDLE /\ current \in Slots
  BY Caller DEF do_exit
<1>4. wakes \subseteq {s \in Slots : task_state[s] = "blocked"}
  BY <1>1, QueueFacts DEF woken, find_task_struct
<1> HIDE DEF wakes
<1>5. /\ st \in [Slots -> State]
      /\ \A s \in Queue : st[s] # "free"
      /\ st[IDLE] \in {"ready", "running"}
  BY <1>1, <1>3, <1>4, QueueFacts DEF TypeOK, State, IdleStays
<1> HIDE DEF st, parent
<1>6. wait_pid' \in [Slots -> Pids]
  BY <1>1, <1>2, <1>3 DEF TypeOK
<1>7. TypeOK'
  BY <1>1, <1>2, <1>5, <1>6, ScheduleFacts DEF TypeOK
<1>8. RunQueueSound' /\ task_state'[IDLE] \in {"ready", "running"}
  BY <1>1, <1>2, <1>5, ScheduleKeeps
<1>9. IdleStays' /\ WaitsForChildren'
  BY <1>1, <1>2, <1>8 DEF IdleStays, WaitsForChildren
<1>10. QED
  BY <1>7, <1>8, <1>9 DEF QueueInv

LEMMA WaitpidStep ==
  ASSUME QueueInv, NEW p \in Pids, do_waitpid(p)  PROVE QueueInv'
<1>1. TypeOK /\ RunQueueSound /\ IdleStays /\ WaitsForChildren
  BY DEF QueueInv
<1>2. current # IDLE /\ current \in Slots /\ current \in Queue
  BY Caller DEF do_waitpid
<1>3. p > 1 /\ p \in Nat
  BY <1>1, <1>2, PoolAssumption DEF do_waitpid, WaitsForChildren, Pids
<1>4. CASE exit_seen(p)
  <2>1. /\ task_state' = made_dead(p)
        /\ next' = next /\ current' = current /\ pid' = pid /\ pc' = pc
        /\ wait_arg' = wait_arg
        /\ unwaited' = [unwaited EXCEPT ![current] = @ \ {p}]
    BY <1>4 DEF do_waitpid
  <2>2. TypeOK'
    BY <1>1, <1>3, <1>4, <2>1, MadeDead DEF do_waitpid, TypeOK
  <2>3. RunQueueSound'
    BY <1>1, <1>2, <1>3, <2>1, MadeDead, SameQueue
  <2>4. IdleStays' /\ WaitsForChildren'
    BY <1>1, <1>2, <1>3, <2>1, MadeDead DEF IdleStays, WaitsForChildren, TypeOK
  <2>5. QED
    BY <2>2, <2>3, <2>4 DEF QueueInv
<1>5. CASE ~exit_seen(p)
  <2> DEFINE st == [task_state EXCEPT ![current] = "blocked"]
  <2>1. /\ schedule(st) /\ next' = next /\ pid' = pid
        /\ pc' = [pc EXCEPT ![current] = "waitpid"]
        /\ wait_arg' = [wait_arg EXCEPT ![current] = p]
        /\ unwaited' = unwaited
        /\ ppid' = ppid /\ wait_pid' = wait_pid /\ sleep_time' = sleep_time
        /\ npid' = npid /\ ready_schedule' = ready_schedule
        /\ boot_count' = boot_count /\ halted' = halted
    BY <1>5 DEF do_waitpid
  <2>2. /\ st \in [Slots -> State]
        /\ \A s \in Queue : st[s] # "free"
        /\ st[IDLE] \in {"ready", "running"}
    BY <1>1, <1>2, QueueFacts DEF TypeOK, State, IdleStays
  <2> HIDE DEF st
  <2>3. pc' \in [Slots -> Where] /\ wait_arg' \in [Slots -> Pids]
    BY <1>1, <2>1 DEF TypeOK, Where
  <2>4. TypeOK'
    BY <1>1, <2>1, <2>2, <2>3, ScheduleFacts DEF TypeOK
  <2>5. RunQueueSound' /\ task_state'[IDLE] \in {"ready", "running"}
    BY <1>1, <2>1, <2>2, ScheduleKeeps
  <2>6. IdleStays' /\ WaitsForChildren'
    BY <1>1, <1>2, <1>3, <2>1, <2>5 DEF IdleStays, WaitsForChildren, TypeOK
  <2>7. QED
    BY <2>4, <2>5, <2>6 DEF QueueInv
<1>6. QED
  BY <1>4, <1>5

LEMMA WaitpidReturnStep ==
  ASSUME QueueInv, waitpid_return  PROVE QueueInv'
<1> DEFINE p == wait_arg[current]
<1>1. TypeOK /\ RunQueueSound /\ IdleStays /\ WaitsForChildren
  BY DEF QueueInv
<1>2. current # IDLE /\ current \in Slots /\ current \in Queue
  BY <1>1, QueueFacts DEF waitpid_return, leaves_kernel, IdleStays, TypeOK
<1>3. p > 1 /\ p \in Nat
  BY <1>1, <1>2, PoolAssumption
  DEF waitpid_return, leaves_kernel, WaitsForChildren, TypeOK, Pids
<1>4. /\ task_state' = made_dead(p)
      /\ next' = next /\ current' = current /\ pid' = pid
      /\ pc' = [pc EXCEPT ![current] = "user"]
      /\ wait_arg' = [wait_arg EXCEPT ![current] = 0]
      /\ unwaited' = [unwaited EXCEPT ![current] = @ \ {p}]
  BY DEF waitpid_return, leaves_kernel
<1> HIDE DEF p
<1>5. /\ pc' \in [Slots -> Where] /\ wait_arg' \in [Slots -> Pids]
      /\ unwaited' \in [Slots -> SUBSET Pids]
  BY <1>1, <1>4, PoolAssumption DEF TypeOK, Where, Pids
<1>6. TypeOK'
  BY <1>1, <1>3, <1>4, <1>5, MadeDead DEF waitpid_return, TypeOK
<1>7. RunQueueSound'
  BY <1>1, <1>2, <1>3, <1>4, MadeDead, SameQueue
<1>8. IdleStays' /\ WaitsForChildren'
  BY <1>1, <1>2, <1>3, <1>4, MadeDead DEF IdleStays, WaitsForChildren, TypeOK
<1>9. QED
  BY <1>6, <1>7, <1>8 DEF QueueInv

LEMMA KillStep ==
  ASSUME QueueInv, NEW p \in Pids, do_kill(p)  PROVE QueueInv'
<1>1. TypeOK /\ RunQueueSound /\ IdleStays /\ WaitsForChildren
  BY DEF QueueInv
<1>2. p > 1 /\ p \in Nat /\ current \in Queue
  BY Caller, PoolAssumption DEF do_kill, Pids
<1>3. /\ task_state' = made_dead(p)
      /\ next' = next /\ current' = current /\ pid' = pid /\ pc' = pc
      /\ wait_arg' = wait_arg /\ unwaited' = unwaited
  BY DEF do_kill
<1>4. TypeOK'
  BY <1>1, <1>2, <1>3, MadeDead DEF do_kill, TypeOK
<1>5. RunQueueSound'
  BY <1>1, <1>2, <1>3, MadeDead, SameQueue
<1>6. IdleStays' /\ WaitsForChildren'
  BY <1>1, <1>2, <1>3, MadeDead DEF IdleStays, WaitsForChildren, TypeOK
<1>7. QED
  BY <1>4, <1>5, <1>6 DEF QueueInv

\* What a tick does to the states: sleepers of the queue may become ready.
LEMMA TickStates ==
  ASSUME QueueInv
  PROVE  /\ tick_states \in [Slots -> State]
         /\ tick_states[IDLE] = task_state[IDLE]
         /\ \A s \in Queue : tick_states[s] # "free"
         /\ \A s \in Slots : tick_states[s] # task_state[s] =>
              task_state[s] = "sleeping" /\ tick_states[s] = "ready"
<1>1. Expired \subseteq Queue /\ \A s \in Expired : task_state[s] = "sleeping"
  BY DEF Expired, Sleepers
<1>2. Queue \subseteq Slots /\ IDLE \in Queue /\ \A s \in Queue : task_state[s] # "free"
  BY QueueFacts DEF QueueInv
<1>3. QED
  BY <1>1, <1>2 DEF tick_states, QueueInv, TypeOK, State, IdleStays

\* The tick counter wraps on a slice boundary, after the boot phase.
LEMMA NextCount ==
  ASSUME boot_count \in 0 .. BOOT_TICKS + SLICE - 1
  PROVE  next_count \in 0 .. BOOT_TICKS + SLICE - 1
BY TimerAssumption DEF next_count

LEMMA TimerStep ==
  ASSUME QueueInv, isr_timer  PROVE QueueInv'
<1>1. TypeOK /\ RunQueueSound /\ IdleStays /\ WaitsForChildren
  BY DEF QueueInv
<1>2. /\ next' = next /\ pid' = pid /\ ppid' = ppid /\ wait_pid' = wait_pid
      /\ npid' = npid /\ pc' = pc /\ wait_arg' = wait_arg
      /\ unwaited' = unwaited /\ halted' = halted
      /\ boot_count' = next_count
  BY DEF isr_timer, tick
<1>3. boot_count' \in 0 .. BOOT_TICKS + SLICE - 1
  BY <1>1, <1>2, NextCount DEF TypeOK
<1>4. ready_schedule' \in BOOLEAN
  BY <1>1 DEF isr_timer, slice_over, TypeOK
<1>5. sleep_time' \in [Slots -> 0 .. UINT64 - 1]
  <2>1. \A s \in Slots : time_left(s) \in 0 .. UINT64 - 1
    BY <1>1, TimerAssumption DEF TypeOK, time_left
  <2>2. \/ sleep_time' = sleep_time
        \/ sleep_time' = [s \in Slots |-> IF s \in Sleepers THEN time_left(s)
                                         ELSE sleep_time[s]]
    BY DEF isr_timer
  <2>3. QED
    BY <1>1, <2>1, <2>2 DEF TypeOK
<1>6. current \in Queue /\ current \in Slots
  BY <1>1, QueueFacts DEF TypeOK
<1>7. CASE task_state' = task_state /\ current' = current /\ end' = end
  <2>1. TypeOK'
    BY <1>1, <1>2, <1>3, <1>4, <1>5, <1>7 DEF TypeOK
  <2>2. RunQueueSound'
    BY <1>1, <1>2, <1>6, <1>7, QueueFacts, SameQueue
  <2>3. IdleStays' /\ WaitsForChildren'
    BY <1>1, <1>2, <1>7 DEF IdleStays, WaitsForChildren
  <2>4. QED
    BY <2>1, <2>2, <2>3 DEF QueueInv
<1>8. CASE task_state' = tick_states /\ current' = current /\ end' = end
  <2>1. TypeOK'
    BY <1>1, <1>2, <1>3, <1>4, <1>5, <1>8, TickStates DEF TypeOK
  <2>2. RunQueueSound'
    BY <1>1, <1>2, <1>6, <1>8, TickStates, SameQueue
  <2>3. IdleStays' /\ WaitsForChildren'
    BY <1>1, <1>2, <1>8, TickStates DEF IdleStays, WaitsForChildren
  <2>4. QED
    BY <2>1, <2>2, <2>3 DEF QueueInv
<1>9. CASE schedule(tick_states)
  <2>1. TypeOK'
    BY <1>1, <1>2, <1>3, <1>4, <1>5, <1>9, TickStates, ScheduleFacts DEF TypeOK
  <2>2. RunQueueSound' /\ task_state'[IDLE] \in {"ready", "running"}
    BY <1>1, <1>2, <1>9, TickStates, ScheduleKeeps DEF IdleStays
  <2>3. IdleStays' /\ WaitsForChildren'
    BY <1>1, <1>2, <2>2 DEF IdleStays, WaitsForChildren
  <2>4. QED
    BY <2>1, <2>2, <2>3 DEF QueueInv
<1>10. QED
  BY <1>7, <1>8, <1>9 DEF isr_timer

\* add_task puts the new task into the queue, unless end is not on it.
LEMMA ForkQueue ==
  ASSUME QueueInv, NEW c \in FreeTasks, next' = add_task(c, next), current' = current
  PROVE  /\ Queue' = IF end \in Queue THEN Queue \cup {c} ELSE Queue
         /\ IsRing(next', Queue')
<1>1. TypeOK /\ RunQueueSound
  BY DEF QueueInv
<1>2. /\ next \in Links /\ Queue \in SUBSET Slots /\ IsRing(next, Queue)
      /\ current \in Queue /\ c \in Slots /\ c \notin Queue
  BY <1>1, QueueFacts DEF FreeTasks
<1>3. next' = [next EXCEPT ![c] = next[end], ![end] = c]
  BY DEF add_task
<1>4. next' \in Links
  BY <1>1, <1>2, <1>3 DEF TypeOK, Links
<1>5. CASE end \in Queue
  <2> DEFINE inserted == [next EXCEPT ![c] = next[end], ![end] = c]
  <2>0. IsRing(inserted, Queue \cup {c})
    <3>1. c \in Slots \ Queue
      BY <1>2
    <3>2. QED
      BY <1>2, <1>5, <3>1, RingInsert
  <2>1. IsRing(next', Queue \cup {c})
    BY <1>3, <2>0
  <2>2. Reach(next', current, {}) = Queue \cup {c}
    BY <1>2, <1>4, <2>1, RingReached
  <2>3. QED
    BY <1>5, <2>1, <2>2 DEF Queue
<1>6. CASE end \notin Queue
  <2>1. \A s \in Queue : next'[s] = next[s]
    BY <1>1, <1>2, <1>3, <1>6 DEF TypeOK
  <2>2. IsRing(next', Queue)
    BY <1>2, <2>1, RingFrame
  <2>3. Reach(next', current, {}) = Queue
    BY <1>2, <1>4, <2>2, RingReached
  <2>4. QED
    BY <1>6, <2>2, <2>3 DEF Queue
<1>7. QED
  BY <1>5, <1>6

LEMMA ForkStep ==
  ASSUME QueueInv, do_fork  PROVE QueueInv'
<1>1. TypeOK /\ RunQueueSound /\ IdleStays /\ WaitsForChildren
  BY DEF QueueInv
<1>2. current # IDLE /\ current \in Slots /\ current \in Queue
  BY Caller DEF do_fork
<1>3. current' = current /\ ready_schedule' = ready_schedule /\ boot_count' = boot_count
  BY DEF do_fork
<1>4. CASE pool_exhausted
  <2>1. /\ task_state' = task_state /\ pid' = pid /\ ppid' = ppid /\ next' = next
        /\ wait_pid' = wait_pid /\ sleep_time' = sleep_time /\ end' = end
        /\ npid' = npid /\ pc' = pc /\ wait_arg' = wait_arg
        /\ unwaited' = unwaited /\ halted' = TRUE
    BY <1>4 DEF do_fork
  <2>2. TypeOK' /\ IdleStays' /\ WaitsForChildren'
    BY <1>1, <1>3, <2>1 DEF TypeOK, IdleStays, WaitsForChildren
  <2>3. RunQueueSound'
    BY <1>1, <1>2, <1>3, <2>1, QueueFacts, SameQueue
  <2>4. QED
    BY <2>2, <2>3 DEF QueueInv
<1>5. CASE ~pool_exhausted
  <2>1. PICK c \in FreeTasks :
          /\ pid' = [pid EXCEPT ![c] = npid]
          /\ ppid' = [ppid EXCEPT ![c] = pid[current]]
          /\ task_state' = [task_state EXCEPT ![c] = "ready"]
          /\ next' = add_task(c, next)
          /\ end' = c
          /\ npid' = npid + 1
          /\ wait_pid' = wait_pid_after_fork(c)
          /\ sleep_time' = [sleep_time EXCEPT ![c] = 0]
          /\ wait_arg' = [wait_arg EXCEPT ![c] = 0]
          /\ pc' = [pc EXCEPT ![c] = "user"]
          /\ unwaited' = [unwaited EXCEPT ![current] = @ \cup {npid}]
          /\ halted' = FALSE
    BY <1>5 DEF do_fork
  <2>2. c \in Slots /\ c \notin Queue /\ c # IDLE /\ task_state[c] = "free"
    BY <1>1, <2>1, QueueFacts DEF FreeTasks
  <2>3. npid \in Pids /\ npid > 1 /\ npid + 1 \in 2 .. FORK_LIMIT + 2 /\ 0 \in Pids
    BY <1>1, <1>5, PoolAssumption DEF pool_exhausted, TypeOK, Pids
  <2>4. next' = [next EXCEPT ![c] = next[end], ![end] = c]
    BY <2>1 DEF add_task
  <2>5. next' \in [Slots -> Slots \cup {NULL}]
    BY <1>1, <2>2, <2>4 DEF TypeOK
  <2>6. TypeOK'
    <3>1. /\ task_state' \in [Slots -> State] /\ pc' \in [Slots -> Where]
      BY <1>1, <2>1, <2>2 DEF TypeOK, State, Where
    <3>2. /\ pid' \in [Slots -> Pids] /\ ppid' \in [Slots -> Pids]
          /\ wait_pid' \in [Slots -> Pids] /\ wait_arg' \in [Slots -> Pids]
      BY <1>1, <1>2, <2>1, <2>2, <2>3 DEF TypeOK, wait_pid_after_fork
    <3>3. sleep_time' \in [Slots -> 0 .. UINT64 - 1]
      BY <1>1, <2>1, <2>2, TimerAssumption DEF TypeOK
    <3>4. unwaited' \in [Slots -> SUBSET Pids]
      BY <1>1, <1>2, <2>1, <2>3 DEF TypeOK
    <3>5. QED
      BY <1>1, <1>3, <2>1, <2>2, <2>3, <2>5, <3>1, <3>2, <3>3, <3>4 DEF TypeOK
  <2>7. RunQueueSound'
    <3>1. /\ Queue' = IF end \in Queue THEN Queue \cup {c} ELSE Queue
          /\ IsRing(next', Queue')
      BY <1>3, <2>1, ForkQueue
    <3>2. \A s \in Queue \cup {c} : task_state'[s] # "free"
      BY <1>1, <2>1, <2>2, QueueFacts DEF TypeOK
    <3>3. QED
      BY <1>1, <3>1, <3>2, QueueFacts DEF RunQueueSound
  <2>8. IdleStays'
    BY <1>1, <2>1, <2>2 DEF IdleStays, TypeOK
  <2>9. WaitsForChildren'
    BY <1>1, <1>2, <2>1, <2>2, <2>3 DEF WaitsForChildren, TypeOK
  <2>10. QED
    BY <2>6, <2>7, <2>8, <2>9 DEF QueueInv
<1>6. QED
  BY <1>4, <1>5

LEMMA PsStep ==
  ASSUME QueueInv, do_ps
  PROVE  /\ QueueInv'
         /\ Queue' = Queue \ {s \in Queue \ {current} : task_state[s] = "dead"}
<1> DEFINE gone == {s \in Queue \ {current} : task_state[s] = "dead"}
           keep == Queue \ gone
           nx == [s \in Slots |-> IF s \in gone THEN NULL
                                 ELSE IF s \in keep THEN next_kept(s, keep)
                                 ELSE next[s]]
<1>1. TypeOK /\ RunQueueSound /\ IdleStays /\ WaitsForChildren
  BY DEF QueueInv
<1>2. /\ next' = nx
      /\ task_state' = [s \in Slots |-> IF s \in gone THEN "free" ELSE task_state[s]]
      /\ pid' = [s \in Slots |-> IF s \in gone THEN 0 ELSE pid[s]]
      /\ ppid' = [s \in Slots |-> IF s \in gone THEN 0 ELSE ppid[s]]
      /\ wait_pid' = [s \in Slots |-> IF s \in gone THEN 0 ELSE wait_pid[s]]
      /\ sleep_time' = [s \in Slots |-> IF s \in gone THEN 0 ELSE sleep_time[s]]
      /\ pc' = [s \in Slots |-> IF s \in gone THEN "kernel" ELSE pc[s]]
      /\ wait_arg' = [s \in Slots |-> IF s \in gone THEN 0 ELSE wait_arg[s]]
      /\ unwaited' = [s \in Slots |-> IF s \in gone THEN {} ELSE unwaited[s]]
      /\ current' = current /\ end' = end /\ npid' = npid
      /\ ready_schedule' = ready_schedule /\ boot_count' = boot_count
      /\ halted' = halted
  BY DEF do_ps
<1>3. /\ next \in Links /\ Queue \in SUBSET Slots /\ IsRing(next, Queue)
      /\ current \in Queue /\ IDLE \in Queue
      /\ \A s \in Queue : task_state[s] # "free"
  BY <1>1, QueueFacts
<1>4. /\ keep \in SUBSET Queue /\ keep # {} /\ current \in keep /\ IDLE \in keep
      /\ IDLE \notin gone /\ gone \subseteq Slots
  BY <1>1, <1>3 DEF IdleStays
<1> HIDE DEF gone
<1>5. \A x \in keep : nx[x] = CHOOSE y \in Kept(next, x, keep) : TRUE
  BY <1>3, <1>4 DEF next_kept, Kept
<1>6. \A x \in keep : next_kept(x, keep) \in Slots
  <2>1. \A x \in keep : Kept(next, x, keep) # {}
    BY <1>3, <1>4, WalkToKept
  <2>2. \A x \in keep : next_kept(x, keep) \in Kept(next, x, keep)
    BY <2>1 DEF next_kept, Kept
  <2>3. QED
    BY <2>2, <1>3, <1>4 DEF Kept
<1> HIDE DEF keep
<1>7. nx \in [Slots -> Slots \cup {NULL}]
  BY <1>1, <1>6 DEF TypeOK
<1> HIDE DEF nx
<1>8. IsRing(nx, keep)
  BY <1>3, <1>4, <1>5, RingDelete
<1>9. Queue' = keep
  <2>1. nx \in Links /\ keep \in SUBSET Slots
    BY <1>3, <1>4, <1>7 DEF Links
  <2>2. Reach(nx, current, {}) = keep
    BY <1>4, <1>8, <2>1, RingReached
  <2>3. QED
    BY <2>2, <1>2 DEF Queue
<1>10. RunQueueSound'
  <2>1. \A s \in keep : task_state'[s] # "free"
    BY <1>2, <1>3, <1>4 DEF keep
  <2>2. QED
    BY <1>2, <1>4, <1>8, <1>9, <2>1 DEF RunQueueSound
<1>11. TypeOK'
  <2>1. /\ task_state' \in [Slots -> State] /\ pc' \in [Slots -> Where]
        /\ unwaited' \in [Slots -> SUBSET Pids] /\ next' \in [Slots -> Slots \cup {NULL}]
    BY <1>1, <1>2, <1>7 DEF TypeOK, State, Where
  <2>2. /\ pid' \in [Slots -> Pids] /\ ppid' \in [Slots -> Pids]
        /\ wait_pid' \in [Slots -> Pids] /\ wait_arg' \in [Slots -> Pids]
    BY <1>1, <1>2, PoolAssumption DEF TypeOK, Pids
  <2>3. sleep_time' \in [Slots -> 0 .. UINT64 - 1]
    BY <1>1, <1>2, TimerAssumption DEF TypeOK
  <2>4. QED
    BY <1>1, <1>2, <2>1, <2>2, <2>3 DEF TypeOK
<1>12. IdleStays' /\ WaitsForChildren'
  BY <1>1, <1>2, <1>3, <1>4 DEF IdleStays, WaitsForChildren
<1>13. QED
  BY <1>9, <1>10, <1>11, <1>12 DEF QueueInv, keep, gone

LEMMA QueueInvStep == QueueInv /\ [Next]_vars => QueueInv'
<1> SUFFICES ASSUME QueueInv, [Next]_vars PROVE QueueInv'
  OBVIOUS
<1>1. CASE UNCHANGED vars
  BY <1>1 DEF QueueInv, vars, TypeOK, RunQueueSound, Queue, IdleStays,
              WaitsForChildren
<1>2. CASE Next
  BY <1>2, FuncInitStep, TimerStep, ForkStep, WaitpidStep, WaitpidReturnStep,
     KillStep, ExitStep, PsStep, YieldSleepStep, ReadStep DEF Next
<1>3. QED
  BY <1>1, <1>2

\* What every call of the kernel and every tick of the timer keep of the run
\* queue (add_task, schedule, clean_dead), with what that takes.
THEOREM QueueInvariant == Spec => []QueueInv
BY QueueInvInit, QueueInvStep, PTL DEF Spec
----------------------------------------------------------------------------
(* The theorems on the run queue.                                          *)

\* Every variable keeps its type; for next, this rests on the queue being a
\* ring: a walk of clean_dead always ends at a task that stays.
THEOREM TypeCorrect == Spec => []TypeOK
<1>1. QueueInv => TypeOK
  BY DEF QueueInv
<1>2. QED
  BY <1>1, QueueInvariant, PTL

\* Whatever programs fork, kill, wait for or list, the run queue stays one
\* cycle of allocated tasks through the idle thread.
THEOREM RunQueueStaysSound == Spec => []RunQueueSound
<1>1. QueueInv => RunQueueSound
  BY DEF QueueInv
<1>2. QED
  BY <1>1, QueueInvariant, PTL
----------------------------------------------------------------------------
(* The states of the tasks.                                                *)

\* After schedule(), the task that has the CPU is the one that runs, and a
\* task that had ended is as it was.
LEMMA ScheduleStates ==
  ASSUME QueueInv, NEW st \in [Slots -> State], schedule(st),
         \A s \in Slots : st[s] = "running" => s = current
  PROVE  /\ OnlyCurrentRuns'
         /\ \A s \in Slots \ {IDLE} : st[s] \in Terminated => task_state'[s] = st[s]
<1>1. TypeOK /\ RunQueueSound
  BY DEF QueueInv
<1>2. /\ current' \in Slots /\ task_state'[current'] = "running"
      /\ \A s \in Slots : s # current' =>
           task_state'[s] = IF s = current /\ st[s] = "running"
                            THEN "ready" ELSE st[s]
      /\ current' # IDLE => st[current'] = "ready"
  BY <1>1, ScheduleFacts
<1>3. OnlyCurrentRuns'
  BY <1>2 DEF OnlyCurrentRuns
<1>4. QED
  BY <1>2, <1>3 DEF Terminated

\* A call, and the states it hands to schedule() when it gives up the CPU.
LEMMA CallerRuns ==
  ASSUME QueueInv, OnlyCurrentRuns, NEW c, MayCall(c)
  PROVE  /\ current # IDLE /\ current \in Slots /\ current \in Queue
         /\ task_state[current] \in {"running", "dead"}
BY Caller DEF OnlyCurrentRuns

\* What one step may do to the task states.
LEMMA StateStep ==
  ASSUME QueueInv, OnlyCurrentRuns, [Next]_vars
  PROVE  /\ OnlyCurrentRuns'
         /\ \A s \in Slots :
              \/ task_state[s] = "zombie"
              \/ task_state[s] = "dead" /\ s # current
              => task_state'[s] \in Terminated \cup {"free"}
<1> DEFINE Final == \A s \in Slots :
                      \/ task_state[s] = "zombie"
                      \/ task_state[s] = "dead" /\ s # current
                      => task_state'[s] \in Terminated \cup {"free"}
<1> SUFFICES OnlyCurrentRuns' /\ Final
  OBVIOUS
<1>1. /\ TypeOK /\ RunQueueSound /\ IdleStays
      /\ current \in Queue /\ current \in Slots /\ Queue \subseteq Slots
      /\ task_state \in [Slots -> State]
  BY QueueFacts DEF QueueInv, TypeOK
<1>2. /\ \A s \in Slots : task_state[s] = "running" => s = current
      /\ task_state[current] \in {"ready", "running", "dead"}
      /\ task_state[current] = "ready" => current = IDLE /\ boot_count < BOOT_TICKS
  BY DEF OnlyCurrentRuns
<1>3. ASSUME UNCHANGED <<task_state, current, boot_count>>
      PROVE  OnlyCurrentRuns' /\ Final
  BY <1>2, <1>3 DEF OnlyCurrentRuns, Terminated
<1>4. ASSUME NEW p \in Nat, p > 1, task_state' = made_dead(p),
             UNCHANGED <<current, boot_count>>
      PROVE  OnlyCurrentRuns' /\ Final
  <2>1. \A s \in Slots : task_state'[s] # task_state[s] => task_state'[s] = "dead"
    BY <1>4, MadeDead
  <2>2. Final
    BY <2>1 DEF Terminated
  <2>3. OnlyCurrentRuns'
    BY <1>1, <1>2, <1>4, <2>1 DEF OnlyCurrentRuns
  <2>4. QED
    BY <2>2, <2>3
<1>5. ASSUME NEW st \in [Slots -> State], schedule(st),
             \A s \in Slots : st[s] = "running" => s = current,
             \A s \in Slots : task_state[s] \in Terminated /\ s # current =>
                             st[s] = task_state[s]
      PROVE  OnlyCurrentRuns' /\ Final
  <2>1. /\ OnlyCurrentRuns'
        /\ \A s \in Slots \ {IDLE} : st[s] \in Terminated => task_state'[s] = st[s]
    BY <1>5, ScheduleStates
  <2>2. \A s \in Slots : task_state[s] = "zombie" => s # current
    BY <1>2
  <2>3. task_state[IDLE] \notin Terminated
    BY <1>1 DEF IdleStays, Terminated
  <2>4. Final
    BY <1>5, <2>1, <2>2, <2>3 DEF Terminated
  <2>5. QED
    BY <2>1, <2>4
<1>6. CASE func_init \/ terminal_read \/ terminal_read_return \/ UNCHANGED vars
  BY <1>3, <1>6 DEF func_init, terminal_read, terminal_read_return, vars
<1>7. CASE isr_timer
  <2>1. CASE UNCHANGED <<task_state, current>> /\ next_count < BOOT_TICKS
    BY <1>2, <1>7, <2>1 DEF OnlyCurrentRuns, Terminated, isr_timer, tick
  <2>2. CASE next_count >= BOOT_TICKS /\ schedule(tick_states)
    <3>1. /\ tick_states \in [Slots -> State]
          /\ \A s \in Slots : tick_states[s] = "running" => s = current
          /\ \A s \in Slots : task_state[s] \in Terminated => tick_states[s] = task_state[s]
      BY <1>2, TickStates DEF Terminated
    <3>2. QED
      BY <1>5, <2>2, <3>1
  <2>3. CASE /\ next_count >= BOOT_TICKS
             /\ task_state' = tick_states /\ current' = current
             /\ ~((ready_schedule \/ slice_over(next_count)) /\ pid[current] = 0)
    <3>1. task_state[current] # "ready"
      <4> SUFFICES ASSUME task_state[current] = "ready" PROVE FALSE
        OBVIOUS
      <4>1. current = IDLE /\ boot_count < BOOT_TICKS
        BY <1>2
      <4>2. next_count = BOOT_TICKS
        BY <1>1, <2>3, <4>1, TimerAssumption DEF next_count, TypeOK
      <4>3. slice_over(next_count)
        BY <4>2, TimerAssumption DEF slice_over
      <4>4. QED
        BY <1>1, <2>3, <4>1, <4>3 DEF IdleStays
    <3>2. QED
      BY <1>1, <1>2, <2>3, <3>1, TickStates DEF OnlyCurrentRuns, Terminated
  <2>4. next_count \in Int /\ BOOT_TICKS \in Int
    BY <1>1, NextCount, TimerAssumption DEF TypeOK
  <2>5. QED
    BY <1>7, <2>1, <2>2, <2>3, <2>4 DEF isr_timer
<1>8. CASE do_fork
  <2>1. CASE pool_exhausted
    BY <1>3, <1>8, <2>1 DEF do_fork
  <2>2. CASE ~pool_exhausted
    <3>1. PICK c \in FreeTasks : task_state' = [task_state EXCEPT ![c] = "ready"]
      BY <1>8, <2>2 DEF do_fork
    <3>2. c \in Slots /\ c # current /\ task_state[c] = "free"
      BY <1>1, <3>1, QueueFacts DEF FreeTasks
    <3>3. current' = current /\ boot_count' = boot_count
      BY <1>8 DEF do_fork
    <3>4. QED
      BY <1>1, <1>2, <3>1, <3>2, <3>3 DEF OnlyCurrentRuns, Terminated
  <2>3. QED
    BY <2>1, <2>2
<1>9. CASE \E p \in Pids : do_waitpid(p)
  <2>1. PICK p \in Pids : do_waitpid(p)
    BY <1>9
  <2>2. p > 1 /\ p \in Nat
    BY <1>1, <2>1, PoolAssumption DEF do_waitpid, QueueInv, WaitsForChildren, Pids
  <2>3. CASE exit_seen(p)
    BY <1>4, <2>1, <2>2, <2>3 DEF do_waitpid
  <2>4. CASE ~exit_seen(p)
    <3> DEFINE st == [task_state EXCEPT ![current] = "blocked"]
    <3>1. schedule(st)
      BY <2>1, <2>4 DEF do_waitpid
    <3>2. /\ st \in [Slots -> State]
          /\ \A s \in Slots : st[s] = "running" => s = current
          /\ \A s \in Slots : s # current => st[s] = task_state[s]
      BY <1>1, <1>2 DEF State
    <3>3. QED
      BY <1>5, <3>1, <3>2
  <2>5. QED
    BY <2>3, <2>4
<1>10. CASE waitpid_return
  <2>1. wait_arg[current] > 1 /\ wait_arg[current] \in Nat
    BY <1>1, <1>10, PoolAssumption
    DEF waitpid_return, leaves_kernel, QueueInv, WaitsForChildren, TypeOK, Pids
  <2>2. QED
    BY <1>4, <1>10, <2>1 DEF waitpid_return
<1>11. CASE \E p \in Pids : do_kill(p)
  <2>1. PICK p \in Pids : do_kill(p)
    BY <1>11
  <2>2. p > 1 /\ p \in Nat
    BY <2>1, PoolAssumption DEF do_kill, Pids
  <2>3. QED
    BY <1>4, <2>1, <2>2 DEF do_kill
<1>12. CASE do_exit
  <2> DEFINE wakes == woken(find_task_struct(ppid[current]))
             st == [s \in Slots |-> IF s = current THEN "zombie"
                                   ELSE IF s \in wakes THEN "ready"
                                   ELSE task_state[s]]
  <2>1. schedule(st)
    BY <1>12 DEF do_exit
  <2>2. \A s \in wakes : task_state[s] = "blocked"
    BY DEF woken
  <2> HIDE DEF wakes
  <2>3. /\ st \in [Slots -> State]
        /\ \A s \in Slots : st[s] = "running" => s = current
        /\ \A s \in Slots : task_state[s] \in Terminated /\ s # current =>
                           st[s] = task_state[s]
    BY <1>1, <1>2, <2>2 DEF State, Terminated
  <2>4. QED
    BY <1>5, <2>1, <2>3
<1>13. CASE do_ps
  <2>1. PICK gone \in SUBSET (Queue \ {current}) :
          task_state' = [s \in Slots |-> IF s \in gone THEN "free" ELSE task_state[s]]
    BY <1>13 DEF do_ps
  <2>2. current' = current /\ boot_count' = boot_count
    BY <1>13 DEF do_ps
  <2>3. QED
    BY <1>1, <1>2, <2>1, <2>2 DEF OnlyCurrentRuns, Terminated
<1>14. CASE do_yield \/ \E t \in SleepArgs : do_sleep(t)
  <2>1. PICK st \in [Slots -> State] :
          /\ schedule(st)
          /\ st = task_state \/ st = [task_state EXCEPT ![current] = "sleeping"]
    BY <1>1, <1>14 DEF do_yield, do_sleep, State
  <2>2. /\ \A s \in Slots : st[s] = "running" => s = current
        /\ \A s \in Slots : s # current => st[s] = task_state[s]
    BY <1>1, <1>2, <2>1
  <2>3. QED
    BY <1>5, <2>1, <2>2
<1>15. QED
  BY <1>6, <1>7, <1>8, <1>9, <1>10, <1>11, <1>12, <1>13, <1>14 DEF Next

\* One task runs at a time, and the CPU is never left to a task that sleeps,
\* waits or has exited.
THEOREM OnlyCurrentEverRuns == Spec => []OnlyCurrentRuns
<1>1. Init => OnlyCurrentRuns
  BY TimerAssumption, PoolAssumption DEF Init, OnlyCurrentRuns, Slots, IDLE, INIT
<1>2. QueueInv /\ OnlyCurrentRuns /\ [Next]_vars => OnlyCurrentRuns'
  BY StateStep
<1>3. QED
  BY <1>1, <1>2, QueueInvariant, PTL DEF Spec

\* A zombie, or a task killed by another, stays so until its slot is freed.
THEOREM TerminatedStaysFinal == Spec => TerminatedIsFinal
<1>1. QueueInv /\ OnlyCurrentRuns /\ [Next]_vars =>
        [\A s \in Slots :
           \/ task_state[s] = "zombie"
           \/ task_state[s] = "dead" /\ s # current
           => task_state'[s] \in Terminated \cup {"free"}]_vars
  BY StateStep
<1>2. QED
  BY <1>1, QueueInvariant, OnlyCurrentEverRuns, PTL DEF Spec, TerminatedIsFinal
----------------------------------------------------------------------------
(* What wait_pid says.                                                     *)

\* A pid is given to one task and never again, and what wait_pid names has
\* given up the CPU for good.
ExitInv ==
  /\ \A s \in Slots : pid[s] < npid /\ wait_pid[s] < npid
  /\ \A s \in Slots : task_state[s] = "free" => pid[s] = 0 /\ wait_pid[s] = 0
  /\ \A s, c \in Slots : pid[s] = pid[c] /\ pid[s] # 0 => s = c
  /\ \A s, c \in Slots : wait_pid[s] # 0 /\ pid[c] = wait_pid[s] =>
       task_state[c] \in Terminated /\ c # current

\* Whoever gets the CPU is running; the free slots stay free.
LEMMA ScheduleGives ==
  ASSUME QueueInv, NEW st \in [Slots -> State], schedule(st)
  PROVE  /\ current' \in Slots /\ task_state'[current'] = "running"
         /\ \A s \in Slots : task_state'[s] = "free" => st[s] = "free"
<1>1. TypeOK /\ RunQueueSound
  BY DEF QueueInv
<1>2. /\ current' \in Slots /\ task_state'[current'] = "running"
      /\ \A s \in Slots : s # current' =>
           task_state'[s] = IF s = current /\ st[s] = "running"
                            THEN "ready" ELSE st[s]
  BY <1>1, ScheduleFacts
<1>3. QED
  BY <1>2

\* Steps that give no pid, record no exit and free no task.
LEMMA SamePids ==
  ASSUME QueueInv, OnlyCurrentRuns, ExitInv, [Next]_vars,
         UNCHANGED <<pid, wait_pid, npid>>,
         \A s \in Slots : task_state'[s] = "free" => task_state[s] = "free",
         current' = current \/ task_state'[current'] = "running"
  PROVE  ExitInv'
<1>1. \A s \in Slots :
        \/ task_state[s] = "zombie"
        \/ task_state[s] = "dead" /\ s # current
        => task_state'[s] \in Terminated \cup {"free"}
  BY StateStep
<1>2. ASSUME NEW c \in Slots, task_state[c] \in Terminated, c # current
      PROVE  task_state'[c] \in Terminated /\ c # current'
  BY <1>1, <1>2 DEF Terminated
<1>3. QED
  BY <1>2 DEF ExitInv

LEMMA ExitInvStep ==
  ASSUME QueueInv, OnlyCurrentRuns, ExitInv, [Next]_vars
  PROVE  ExitInv'
<1>1. /\ TypeOK /\ current \in Slots
      /\ task_state \in [Slots -> State]
  BY DEF QueueInv, TypeOK
<1>2. ASSUME NEW st \in [Slots -> State], schedule(st),
             \A s \in Slots : st[s] = "free" => task_state[s] = "free",
             UNCHANGED <<pid, wait_pid, npid>>
      PROVE  ExitInv'
  BY <1>2, ScheduleGives, SamePids
<1>3. CASE func_init \/ terminal_read \/ terminal_read_return \/ UNCHANGED vars
  <2>1. UNCHANGED <<task_state, pid, wait_pid, npid, current>>
    BY <1>3 DEF func_init, terminal_read, terminal_read_return, vars
  <2>2. QED
    BY <2>1, SamePids
<1>4. CASE isr_timer
  <2>1. UNCHANGED <<pid, wait_pid, npid>>
    BY <1>4 DEF isr_timer
  <2>2. /\ tick_states \in [Slots -> State]
        /\ \A s \in Slots : tick_states[s] = "free" => task_state[s] = "free"
    BY TickStates DEF tick_states
  <2>3. CASE schedule(tick_states)
    BY <1>2, <2>1, <2>2, <2>3
  <2>4. CASE (task_state' = task_state \/ task_state' = tick_states)
             /\ current' = current
    BY <2>1, <2>2, <2>4, SamePids
  <2>5. QED
    BY <1>4, <2>3, <2>4 DEF isr_timer
<1>5. ASSUME NEW p \in Nat, p > 1, task_state' = made_dead(p),
             UNCHANGED <<current, pid, wait_pid, npid>>
      PROVE  ExitInv'
  <2>1. \A s \in Slots : task_state'[s] = "free" => task_state[s] = "free"
    BY <1>5, MadeDead
  <2>2. QED
    BY <1>5, <2>1, SamePids
<1>6. CASE \E p \in Pids : do_waitpid(p)
  <2>1. PICK p \in Pids : do_waitpid(p)
    BY <1>6
  <2>2. p > 1 /\ p \in Nat
    BY <1>1, <2>1, PoolAssumption DEF do_waitpid, QueueInv, WaitsForChildren, Pids
  <2>3. CASE exit_seen(p)
    BY <1>5, <2>1, <2>2, <2>3 DEF do_waitpid
  <2>4. CASE ~exit_seen(p)
    <3> DEFINE st == [task_state EXCEPT ![current] = "blocked"]
    <3>1. schedule(st) /\ UNCHANGED <<pid, wait_pid, npid>>
      BY <2>1, <2>4 DEF do_waitpid
    <3>2. /\ st \in [Slots -> State]
          /\ \A s \in Slots : st[s] = "free" => task_state[s] = "free"
      BY <1>1 DEF State
    <3>3. QED
      BY <1>2, <3>1, <3>2
  <2>5. QED
    BY <2>3, <2>4
<1>7. CASE waitpid_return
  <2>1. wait_arg[current] > 1 /\ wait_arg[current] \in Nat
    BY <1>1, <1>7, PoolAssumption
    DEF waitpid_return, leaves_kernel, QueueInv, WaitsForChildren, TypeOK, Pids
  <2>2. QED
    BY <1>5, <1>7, <2>1 DEF waitpid_return
<1>8. CASE \E p \in Pids : do_kill(p)
  <2>1. PICK p \in Pids : do_kill(p)
    BY <1>8
  <2>2. p > 1 /\ p \in Nat
    BY <2>1, PoolAssumption DEF do_kill, Pids
  <2>3. QED
    BY <1>5, <2>1, <2>2 DEF do_kill
<1>9. CASE do_yield \/ \E t \in SleepArgs : do_sleep(t)
  <2>1. PICK st \in [Slots -> State] :
          /\ schedule(st)
          /\ st = task_state \/ st = [task_state EXCEPT ![current] = "sleeping"]
    BY <1>1, <1>9 DEF do_yield, do_sleep, State
  <2>2. /\ \A s \in Slots : st[s] = "free" => task_state[s] = "free"
        /\ UNCHANGED <<pid, wait_pid, npid>>
    BY <1>1, <1>9, <2>1 DEF do_yield, do_sleep
  <2>3. QED
    BY <1>2, <2>1, <2>2
<1>10. CASE do_fork
  <2>1. CASE pool_exhausted
    <3>1. UNCHANGED <<task_state, pid, wait_pid, npid, current>>
      BY <1>10, <2>1 DEF do_fork
    <3>2. QED
      BY <3>1, SamePids
  <2>2. CASE ~pool_exhausted
    <3>1. PICK c \in FreeTasks :
            /\ pid' = [pid EXCEPT ![c] = npid]
            /\ task_state' = [task_state EXCEPT ![c] = "ready"]
            /\ npid' = npid + 1
            /\ wait_pid' = [wait_pid EXCEPT ![c] = 0]
      BY <1>10, <2>2 DEF do_fork, wait_pid_after_fork
    <3>2. current' = current
      BY <1>10 DEF do_fork
    <3>3. /\ c \in Slots /\ npid \in Nat /\ npid >= 2
          /\ \A s \in Slots : pid[s] \in Nat /\ wait_pid[s] \in Nat
      BY <1>1, PoolAssumption DEF FreeTasks, TypeOK, Pids
    <3>4. /\ pid'[c] = npid /\ wait_pid'[c] = 0 /\ task_state'[c] = "ready"
          /\ \A s \in Slots \ {c} : /\ pid'[s] = pid[s] /\ wait_pid'[s] = wait_pid[s]
                                    /\ task_state'[s] = task_state[s]
      BY <1>1, <3>1, <3>3 DEF TypeOK
    <3>5. \A s \in Slots : pid'[s] < npid' /\ wait_pid'[s] < npid'
      BY <3>1, <3>3, <3>4 DEF ExitInv
    <3>6. \A s \in Slots : task_state'[s] = "free" => pid'[s] = 0 /\ wait_pid'[s] = 0
      BY <3>4 DEF ExitInv
    <3>7. \A s \in Slots : pid[s] # npid /\ wait_pid[s] # npid
      BY <3>3 DEF ExitInv
    <3>8. \A s, d \in Slots : pid'[s] = pid'[d] /\ pid'[s] # 0 => s = d
      BY <3>4, <3>7 DEF ExitInv
    <3>9. ASSUME NEW s \in Slots, NEW d \in Slots,
                 wait_pid'[s] # 0, pid'[d] = wait_pid'[s]
          PROVE  task_state'[d] \in Terminated /\ d # current'
      <4>1. s # c /\ wait_pid'[s] = wait_pid[s]
        BY <3>4, <3>9
      <4>2. d # c
        BY <3>4, <3>7, <3>9, <4>1
      <4>3. QED
        BY <3>2, <3>4, <3>9, <4>1, <4>2 DEF ExitInv
    <3>10. QED
      BY <3>5, <3>6, <3>8, <3>9 DEF ExitInv
  <2>3. QED
    BY <2>1, <2>2
<1>11. CASE do_exit
  <2> DEFINE parent == find_task_struct(ppid[current])
             wakes == woken(parent)
             st == [s \in Slots |-> IF s = current THEN "zombie"
                                    ELSE IF s \in wakes THEN "ready"
                                    ELSE task_state[s]]
  <2>1. /\ schedule(st) /\ pid' = pid /\ npid' = npid
        /\ wait_pid' = [s \in Slots |-> IF s \in parent THEN pid[current]
                                        ELSE wait_pid[s]]
    BY <1>11 DEF do_exit
  <2>2. \A s \in wakes : task_state[s] = "blocked"
    BY DEF woken
  <2>3. parent \subseteq Queue /\ \A s \in Queue : s \in Slots /\ task_state[s] # "free"
    BY QueueFacts DEF find_task_struct, QueueInv
  <2> HIDE DEF wakes, parent
  <2>4. /\ st \in [Slots -> State] /\ st[current] = "zombie"
        /\ \A s \in Slots : st[s] = "running" => s = current
        /\ \A s \in Slots : st[s] = "free" => task_state[s] = "free"
    BY <1>1, <2>2 DEF State, OnlyCurrentRuns
  <2>5. current # IDLE
    BY <1>11, Caller DEF do_exit
  <2>6. /\ task_state'[current] = "zombie" /\ current' # current
        /\ current' \in Slots /\ task_state'[current'] = "running"
        /\ \A s \in Slots : task_state'[s] = "free" => task_state[s] = "free"
    <3> HIDE DEF st
    <3>1. /\ current' \in Slots /\ task_state'[current'] = "running"
          /\ \A s \in Slots : task_state'[s] = "free" => st[s] = "free"
      BY <2>1, <2>4, ScheduleGives
    <3>2. \A s \in Slots \ {IDLE} : st[s] \in Terminated => task_state'[s] = st[s]
      BY <2>1, <2>4, ScheduleStates
    <3>3. task_state'[current] = "zombie"
      BY <1>1, <2>4, <2>5, <3>2 DEF Terminated
    <3>4. QED
      BY <2>4, <3>1, <3>3
  <2>7. \A s \in Slots : wait_pid'[s] = wait_pid[s]
                         \/ (wait_pid'[s] = pid[current] /\ task_state[s] # "free")
    BY <2>1, <2>3
  <2>8. \A s \in Slots :
          \/ task_state[s] = "zombie"
          \/ task_state[s] = "dead" /\ s # current
          => task_state'[s] \in Terminated \cup {"free"}
    BY StateStep
  <2>9. ASSUME NEW c \in Slots, task_state[c] \in Terminated, c # current
        PROVE  task_state'[c] \in Terminated /\ c # current'
    BY <2>6, <2>8, <2>9 DEF Terminated
  <2>10. ASSUME NEW s \in Slots, NEW c \in Slots,
                wait_pid'[s] # 0, pid[c] = wait_pid'[s]
         PROVE  task_state'[c] \in Terminated /\ c # current'
    <3>1. CASE wait_pid'[s] = wait_pid[s]
      BY <2>9, <2>10, <3>1 DEF ExitInv
    <3>2. CASE wait_pid'[s] = pid[current]
      <4>1. c = current
        BY <1>1, <2>10, <3>2 DEF ExitInv
      <4>2. QED
        BY <2>6, <4>1 DEF Terminated
    <3>3. QED
      BY <2>7, <3>1, <3>2
  <2>11. QED
    BY <1>1, <2>1, <2>6, <2>7, <2>10 DEF ExitInv
<1>12. CASE do_ps
  <2>1. PICK gone \in SUBSET (Queue \ {current}) :
          /\ task_state' = [s \in Slots |-> IF s \in gone THEN "free" ELSE task_state[s]]
          /\ pid' = [s \in Slots |-> IF s \in gone THEN 0 ELSE pid[s]]
          /\ wait_pid' = [s \in Slots |-> IF s \in gone THEN 0 ELSE wait_pid[s]]
    BY <1>12 DEF do_ps
  <2>2. UNCHANGED <<npid, current>>
    BY <1>12 DEF do_ps
  <2>3. npid > 0
    BY <1>1, PoolAssumption DEF TypeOK
  <2>4. QED
    BY <2>1, <2>2, <2>3 DEF ExitInv
<1>13. QED
  BY <1>3, <1>4, <1>6, <1>7, <1>8, <1>9, <1>10, <1>11, <1>12 DEF Next

LEMMA ExitInvariant == Spec => []ExitInv
<1>1. Init => ExitInv
  BY PoolAssumption DEF Init, ExitInv, Slots, IDLE, INIT
<1>2. QueueInv /\ OnlyCurrentRuns /\ ExitInv /\ [Next]_vars => ExitInv'
  BY ExitInvStep
<1>3. QED
  BY <1>1, <1>2, QueueInvariant, OnlyCurrentEverRuns, PTL DEF Spec

\* do_waitpid may take wait_pid for a proof that a child has ended: the
\* process it names has called do_exit, and its pid is not given again.
THEOREM LastExitedHasEnded == Spec => []LastExitedEnded
<1>1. ExitInv => LastExitedEnded
  BY DEF ExitInv, LastExitedEnded
<1>2. QED
  BY <1>1, ExitInvariant, PTL
----------------------------------------------------------------------------
(* Where add_task inserts, when no process is killed.                      *)

\* end is on the queue whenever a task may be added after it: it is the task
\* that has the CPU, or one that has been added since and is still ready.
EndInv ==
  /\ NoTaskLost
  /\ \/ end = current
     \/ end \in Queue /\ task_state[end] = "ready" /\ pc[current] # "waitpid"

\* Steps that leave the queue, the CPU and end alone.
LEMMA EndStays ==
  ASSUME QueueInv, EndInv, UNCHANGED <<next, current, end>>,
         \A s \in Slots : task_state'[s] # "free" => task_state[s] # "free",
         \/ end = current
         \/ /\ task_state[end] = "ready" => task_state'[end] = "ready"
            /\ pc'[current] # "waitpid"
  PROVE  EndInv'
<1>1. Queue' = Queue
  BY DEF Queue
<1>2. QED
  BY <1>1 DEF EndInv, NoTaskLost

\* schedule() sets end to the task that gets the CPU.
LEMMA EndScheduled ==
  ASSUME QueueInv, EndInv, NEW st \in [Slots -> State], schedule(st), next' = next,
         \A s \in Slots : st[s] # "free" => task_state[s] # "free"
  PROVE  EndInv'
<1>1. TypeOK /\ RunQueueSound
  BY DEF QueueInv
<1>2. /\ current' \in Queue /\ end' = current'
      /\ \A s \in Slots : s # current' =>
           task_state'[s] = IF s = current /\ st[s] = "running"
                            THEN "ready" ELSE st[s]
  BY <1>1, ScheduleFacts
<1>3. Queue' = Queue
  BY <1>1, <1>2, SameQueue
<1>4. QED
  BY <1>2, <1>3 DEF EndInv, NoTaskLost

LEMMA EndInvStep ==
  ASSUME "kill" \notin Calls, QueueInv, OnlyCurrentRuns, ExitInv, EndInv, [Next]_vars
  PROVE  EndInv'
<1>1. /\ TypeOK /\ RunQueueSound /\ current \in Queue /\ current \in Slots
      /\ task_state \in [Slots -> State] /\ end \in Queue /\ end \in Slots
      /\ pc \in [Slots -> Where]
  BY QueueFacts DEF QueueInv, TypeOK, EndInv
<1>2. CASE func_init \/ terminal_read \/ terminal_read_return \/ UNCHANGED vars
  <2>1. UNCHANGED <<next, current, end, task_state>>
    BY <1>2 DEF func_init, terminal_read, terminal_read_return, vars
  <2>2. pc' = pc \/ pc'[current] # "waitpid"
    BY <1>1, <1>2
    DEF func_init, terminal_read, terminal_read_return, leaves_kernel, vars
  <2>3. QED
    BY <2>1, <2>2, EndStays DEF EndInv
<1>3. CASE isr_timer
  <2>1. UNCHANGED <<next, pc>>
    BY <1>3 DEF isr_timer
  <2>2. /\ tick_states \in [Slots -> State]
        /\ \A s \in Slots : tick_states[s] # "free" => task_state[s] # "free"
        /\ task_state[end] = "ready" => tick_states[end] = "ready"
    BY <1>1, TickStates
  <2>3. CASE schedule(tick_states)
    BY <2>1, <2>2, <2>3, EndScheduled
  <2>4. CASE (task_state' = task_state \/ task_state' = tick_states)
             /\ UNCHANGED <<current, end>>
    BY <2>1, <2>2, <2>4, EndStays DEF EndInv
  <2>5. QED
    BY <1>3, <2>3, <2>4 DEF isr_timer
<1>4. CASE do_fork
  <2>1. CASE pool_exhausted
    <3>1. UNCHANGED <<next, current, end, task_state, pc>>
      BY <1>4, <2>1 DEF do_fork
    <3>2. QED
      BY <3>1, EndStays DEF EndInv
  <2>2. CASE ~pool_exhausted
    <3>1. PICK c \in FreeTasks :
            /\ task_state' = [task_state EXCEPT ![c] = "ready"]
            /\ next' = add_task(c, next) /\ end' = c
            /\ pc' = [pc EXCEPT ![c] = "user"]
      BY <1>4, <2>2 DEF do_fork
    <3>2. current' = current /\ pc[current] = "user"
      BY <1>4 DEF do_fork, MayCall
    <3>3. Queue' = Queue \cup {c}
      BY <1>1, <3>1, <3>2, ForkQueue
    <3>4. c \in Slots
      BY <3>1 DEF FreeTasks
    <3>5. pc'[current] = "user"
      BY <1>1, <3>1, <3>2, <3>4
    <3>6. QED
      BY <1>1, <3>1, <3>2, <3>3, <3>4, <3>5 DEF EndInv, NoTaskLost
  <2>3. QED
    BY <2>1, <2>2
<1>5. CASE \E p \in Pids : do_waitpid(p)
  <2>1. PICK p \in Pids : do_waitpid(p)
    BY <1>5
  <2>2. p > 1 /\ p \in Nat
    BY <1>1, <2>1, PoolAssumption DEF do_waitpid, QueueInv, WaitsForChildren, Pids
  <2>3. CASE exit_seen(p)
    <3>1. UNCHANGED <<next, current, end, pc>> /\ task_state' = made_dead(p)
      BY <2>1, <2>3 DEF do_waitpid
    <3>2. wait_pid[current] = p
      BY <2>3 DEF exit_seen
    <3>3. \A s \in find_task_struct(p) : task_state[s] \in Terminated
      BY <1>1, <2>2, <3>2, QueueFacts DEF find_task_struct, ExitInv
    <3>4. task_state[end] = "ready" => made_dead(p)[end] = "ready"
      BY <1>1, <3>3 DEF made_dead, Terminated
    <3>5. \A s \in Slots : made_dead(p)[s] # "free" => task_state[s] # "free"
      BY <1>1, QueueFacts DEF made_dead, find_task_struct
    <3>6. QED
      BY <3>1, <3>4, <3>5, EndStays DEF EndInv
  <2>4. CASE ~exit_seen(p)
    <3> DEFINE st == [task_state EXCEPT ![current] = "blocked"]
    <3>1. schedule(st) /\ next' = next
      BY <2>1, <2>4 DEF do_waitpid
    <3>2. /\ st \in [Slots -> State]
          /\ \A s \in Slots : st[s] # "free" => task_state[s] # "free"
      BY <1>1, QueueFacts DEF State
    <3>3. QED
      BY <3>1, <3>2, EndScheduled
  <2>5. QED
    BY <2>3, <2>4
<1>6. CASE waitpid_return
  <2>1. /\ UNCHANGED <<next, current, end>>
        /\ task_state' = made_dead(wait_arg[current]) /\ pc[current] = "waitpid"
    BY <1>6 DEF waitpid_return, leaves_kernel
  <2>2. end = current
    BY <2>1 DEF EndInv
  <2>3. \A s \in Slots : task_state'[s] # "free" => task_state[s] # "free"
    BY <1>1, <2>1, QueueFacts DEF made_dead, find_task_struct
  <2>4. QED
    BY <2>1, <2>2, <2>3, EndStays
<1>7. CASE \E p \in Pids : do_kill(p)
  BY <1>7 DEF do_kill, MayCall
<1>8. CASE do_exit
  <2> DEFINE wakes == woken(find_task_struct(ppid[current]))
             st == [s \in Slots |-> IF s = current THEN "zombie"
                                    ELSE IF s \in wakes THEN "ready"
                                    ELSE task_state[s]]
  <2>1. schedule(st) /\ next' = next
    BY <1>8 DEF do_exit
  <2>2. \A s \in wakes : task_state[s] = "blocked"
    BY DEF woken
  <2> HIDE DEF wakes
  <2>3. /\ st \in [Slots -> State]
        /\ \A s \in Slots : st[s] # "free" => task_state[s] # "free"
    BY <1>1, <2>2, QueueFacts DEF State
  <2>4. QED
    BY <2>1, <2>3, EndScheduled
<1>9. CASE do_ps
  <2> DEFINE gone == {s \in Queue \ {current} : task_state[s] = "dead"}
  <2>1. /\ Queue' = Queue \ gone
        /\ task_state' = [s \in Slots |-> IF s \in gone THEN "free" ELSE task_state[s]]
        /\ pc' = [s \in Slots |-> IF s \in gone THEN "kernel" ELSE pc[s]]
        /\ current' = current /\ end' = end
    BY <1>9, PsStep DEF do_ps
  <2>2. current \notin gone /\ end \notin gone
    BY DEF EndInv
  <2> HIDE DEF gone
  <2>3. pc'[current] = pc[current] /\ task_state'[end] = task_state[end]
    BY <1>1, <2>1, <2>2
  <2>4. QED
    BY <1>1, <2>1, <2>2, <2>3 DEF EndInv, NoTaskLost
<1>10. CASE do_yield \/ \E t \in SleepArgs : do_sleep(t)
  <2>1. PICK st \in [Slots -> State] :
          /\ schedule(st)
          /\ st = task_state \/ st = [task_state EXCEPT ![current] = "sleeping"]
    BY <1>1, <1>10 DEF do_yield, do_sleep, State
  <2>2. /\ \A s \in Slots : st[s] # "free" => task_state[s] # "free"
        /\ next' = next
    BY <1>1, <1>10, <2>1, QueueFacts DEF do_yield, do_sleep
  <2>3. QED
    BY <2>1, <2>2, EndScheduled
<1>11. QED
  BY <1>2, <1>3, <1>4, <1>5, <1>6, <1>7, <1>8, <1>9, <1>10 DEF Next

\* While no process is killed, do_fork never links a child behind a task that
\* ps has freed: schedule() finds every task, wherever end was left.
THEOREM NoTaskIsLost ==
  ASSUME "kill" \notin Calls
  PROVE  Spec => []NoTaskLost
<1>1. Init => EndInv
  <2> SUFFICES ASSUME Init PROVE EndInv
    OBVIOUS
  <2>1. QueueInv /\ TypeOK /\ RunQueueSound
    BY QueueInvInit DEF QueueInv
  <2>2. IDLE \in Slots /\ INIT \in Slots
    BY PoolAssumption DEF Slots, IDLE, INIT
  <2>3. INIT = next[IDLE]
    BY <2>2 DEF Init, IDLE, INIT
  <2>4. IDLE \in Queue /\ INIT \in Queue
    BY <2>1, <2>3, QueueFacts
  <2>5. QED
    BY <2>2, <2>4 DEF Init, EndInv, NoTaskLost
<1>2. QueueInv /\ OnlyCurrentRuns /\ ExitInv /\ EndInv /\ [Next]_vars => EndInv'
  BY EndInvStep
<1>3. EndInv => NoTaskLost
  BY DEF EndInv
<1>4. QED
  BY <1>1, <1>2, <1>3, QueueInvariant, OnlyCurrentEverRuns, ExitInvariant, PTL DEF Spec
----------------------------------------------------------------------------
(* Reaping, when programs wait for each child before they fork again.      *)

\* A program has at most one child to wait for, and its pid has been given.
OneAwaited ==
  \A s \in Slots : /\ ppid[s] < npid
                   /\ \A p \in unwaited[s] : p < npid
                   /\ \A p, q \in unwaited[s] : p = q

\* A process that has not ended is one its parent has still to wait for.
ChildrenAwaited ==
  \A s, c \in Slots :
    task_state[c] \notin Terminated \cup {"free"} /\ pid[s] # 0 /\ ppid[c] = pid[s]
      => pid[c] \in unwaited[s]

\* The children of pid p have ended.
HasEnded(p) ==
  \A c \in Slots : pid[c] = p => task_state[c] \in Terminated /\ c # current

\* A waitpid that is no longer blocked was woken by the exit of its child.
WaiterInv ==
  \A s \in Slots : pc[s] = "waitpid" =>
    /\ wait_arg[s] \in unwaited[s]
    /\ task_state[s] # "blocked" => HasEnded(wait_arg[s])

HavePids == \A s \in Slots \ {IDLE} : task_state[s] # "free" => pid[s] # 0

ReapInv == /\ task_state[current] # "dead"
           /\ OneAwaited /\ ChildrenAwaited /\ WaiterInv /\ HavePids

\* A step of the CPU alone: who has ended, has; who is blocked, stays blocked.
LEMMA EndedStays ==
  ASSUME QueueInv, OnlyCurrentRuns, ReapInv, [Next]_vars, pid' = pid,
         \A s \in Slots : task_state'[s] = "free" => task_state[s] = "free",
         current' = current \/ task_state'[current'] = "running"
  PROVE  /\ \A c \in Slots : task_state[c] \in Terminated =>
              task_state'[c] \in Terminated /\ c # current /\ c # current'
         /\ \A p : HasEnded(p) => HasEnded(p)'
<1>1. \A s \in Slots :
        \/ task_state[s] = "zombie"
        \/ task_state[s] = "dead" /\ s # current
        => task_state'[s] \in Terminated \cup {"free"}
  BY StateStep
<1>2. task_state[current] \notin Terminated
  BY DEF ReapInv, OnlyCurrentRuns, Terminated
<1>3. \A c \in Slots : task_state[c] \in Terminated =>
        task_state'[c] \in Terminated /\ c # current /\ c # current'
  BY <1>1, <1>2 DEF Terminated
<1>4. QED
  BY <1>3 DEF HasEnded

LEMMA ReapInvStays ==
  ASSUME QueueInv, OnlyCurrentRuns, ReapInv, [Next]_vars,
         UNCHANGED <<pid, ppid, npid, unwaited, wait_arg>>,
         \A s \in Slots : pc'[s] = "waitpid" => pc[s] = "waitpid",
         \A s \in Slots : task_state'[s] = "free" <=> task_state[s] = "free",
         \A s \in Slots : task_state[s] = "blocked" => task_state'[s] = "blocked",
         \/ current' = current /\ task_state'[current] # "dead"
         \/ task_state'[current'] = "running"
  PROVE  ReapInv'
<1>1. /\ \A c \in Slots : task_state[c] \in Terminated =>
           task_state'[c] \in Terminated /\ c # current /\ c # current'
      /\ \A p : HasEnded(p) => HasEnded(p)'
  BY EndedStays
<1>2. OneAwaited' /\ HavePids'
  BY DEF ReapInv, OneAwaited, HavePids
<1>3. ChildrenAwaited'
  BY <1>1 DEF ReapInv, ChildrenAwaited
<1>4. WaiterInv'
  BY <1>1 DEF ReapInv, WaiterInv
<1>5. QED
  BY <1>2, <1>3, <1>4 DEF ReapInv

\* do_waitpid makes a child dead that has ended.
LEMMA ReapChild ==
  ASSUME QueueInv, OnlyCurrentRuns, ReapInv, [Next]_vars,
         NEW p \in Nat, p > 1, HasEnded(p),
         task_state' = made_dead(p),
         unwaited' = [unwaited EXCEPT ![current] = @ \ {p}],
         UNCHANGED <<pid, ppid, npid, current>>,
         \A s \in Slots : pc'[s] = "waitpid" =>
           s # current /\ pc[s] = "waitpid" /\ wait_arg'[s] = wait_arg[s]
  PROVE  /\ ReapInv'
         /\ \A s \in Slots : task_state[s] # "dead" /\ task_state'[s] = "dead" =>
              task_state[s] = "zombie"
<1>1. /\ Queue \subseteq Slots /\ current \in Slots
      /\ unwaited \in [Slots -> SUBSET Pids]
  BY QueueFacts DEF QueueInv, TypeOK
<1>2. \A s \in Slots :
        /\ task_state'[s] = IF s \in Queue /\ pid[s] = p THEN "dead" ELSE task_state[s]
        /\ pid[s] = p => task_state[s] \in Terminated /\ s # current
  BY DEF made_dead, find_task_struct, HasEnded
<1>3. \A s \in Slots : task_state'[s] # task_state[s] =>
        task_state[s] = "zombie" /\ task_state'[s] = "dead"
  BY <1>2 DEF Terminated
<1>4. /\ \A c \in Slots : task_state[c] \in Terminated =>
           task_state'[c] \in Terminated /\ c # current /\ c # current'
      /\ \A q : HasEnded(q) => HasEnded(q)'
  BY <1>3, EndedStays
<1>5. \A s \in Slots : unwaited'[s] = IF s = current THEN unwaited[s] \ {p} ELSE unwaited[s]
  BY <1>1
<1>6. OneAwaited' /\ HavePids' /\ task_state'[current'] # "dead"
  BY <1>1, <1>2, <1>3, <1>5 DEF ReapInv, OneAwaited, HavePids
<1>7. ChildrenAwaited'
  <2> SUFFICES ASSUME NEW s \in Slots, NEW c \in Slots,
                      task_state'[c] \notin Terminated \cup {"free"},
                      pid[s] # 0, ppid[c] = pid[s]
               PROVE  pid[c] \in unwaited'[s]
    BY DEF ChildrenAwaited
  <2>1. task_state[c] \notin Terminated \cup {"free"}
    BY <1>3, <1>4
  <2>2. pid[c] \in unwaited[s]
    BY <2>1 DEF ReapInv, ChildrenAwaited
  <2>3. pid[c] # p
    BY <1>2, <2>1
  <2>4. QED
    BY <1>5, <2>2, <2>3
<1>8. WaiterInv'
  <2> SUFFICES ASSUME NEW s \in Slots, pc'[s] = "waitpid"
               PROVE  /\ wait_arg'[s] \in unwaited'[s]
                      /\ task_state'[s] # "blocked" => HasEnded(wait_arg[s])'
    BY DEF WaiterInv
  <2>1. s # current /\ pc[s] = "waitpid" /\ wait_arg'[s] = wait_arg[s]
    OBVIOUS
  <2>2. /\ wait_arg[s] \in unwaited[s]
        /\ task_state[s] # "blocked" => HasEnded(wait_arg[s])
    BY <2>1 DEF ReapInv, WaiterInv
  <2>3. task_state'[s] # "blocked" => task_state[s] # "blocked"
    BY <1>3
  <2>4. QED
    BY <1>4, <1>5, <2>1, <2>2, <2>3 DEF HasEnded
<1>9. QED
  BY <1>3, <1>6, <1>7, <1>8 DEF ReapInv

\* The exit of a child wakes nobody but the parent that waits for it.
LEMMA ReapExit ==
  ASSUME QueueInv, OnlyCurrentRuns, ExitInv, ReapInv, do_exit
  PROVE  /\ ReapInv'
         /\ \A s \in Slots : task_state[s] # "dead" => task_state'[s] # "dead"
<1> DEFINE parent == find_task_struct(ppid[current])
           wakes == woken(parent)
           st == [s \in Slots |-> IF s = current THEN "zombie"
                                  ELSE IF s \in wakes THEN "ready"
                                  ELSE task_state[s]]
<1>1. /\ TypeOK /\ RunQueueSound /\ IdleStays
      /\ task_state \in [Slots -> State] /\ Queue \subseteq Slots
  BY QueueFacts DEF QueueInv, TypeOK
<1>2. /\ schedule(st)
      /\ UNCHANGED <<pid, ppid, npid, pc, wait_arg, unwaited>>
  BY DEF do_exit
<1>3. /\ current # IDLE /\ current \in Slots /\ task_state[current] = "running"
  BY CallerRuns DEF do_exit, ReapInv
<1>4. /\ wakes \subseteq parent /\ \A s \in wakes : task_state[s] = "blocked"
      /\ \A s \in parent : s \in Slots /\ pid[s] = ppid[current] /\ task_state[s] # "free"
  BY <1>1, QueueFacts DEF woken, find_task_struct
<1> HIDE DEF wakes, parent
<1>5. /\ st \in [Slots -> State]
      /\ \A s \in Slots : st[s] = IF s = current THEN "zombie"
                                  ELSE IF s \in wakes THEN "ready"
                                  ELSE task_state[s]
  BY <1>1 DEF State
<1> HIDE DEF st
<1>6. /\ current' \in Slots /\ task_state'[current'] = "running"
      /\ \A s \in Slots : s # current' =>
           task_state'[s] = IF s = current /\ st[s] = "running"
                            THEN "ready" ELSE st[s]
      /\ current' # IDLE => current' # current /\ st[current'] = "ready"
  BY <1>1, <1>2, <1>5, ScheduleFacts
<1>7. /\ current' # current /\ task_state'[current] = "zombie"
      /\ \A s \in Slots : /\ task_state'[s] = "free" <=> task_state[s] = "free"
                          /\ task_state[s] # "dead" => task_state'[s] # "dead"
  <2>1. current' # current
    BY <1>3, <1>6
  <2>2. task_state[IDLE] # "free"
    BY <1>1 DEF IdleStays
  <2>3. task_state[current'] # "free"
    BY <1>3, <1>4, <1>5, <1>6, <2>1, <2>2
  <2>4. QED
    BY <1>3, <1>4, <1>5, <1>6, <2>1, <2>3
<1>8. pid' = pid /\ [Next]_vars
  BY <1>2 DEF Next
<1>9. /\ \A c \in Slots : task_state[c] \in Terminated =>
           task_state'[c] \in Terminated /\ c # current /\ c # current'
      /\ \A p : HasEnded(p) => HasEnded(p)'
  BY <1>6, <1>7, <1>8, EndedStays
<1>10. OneAwaited' /\ HavePids' /\ task_state'[current'] # "dead"
  BY <1>2, <1>6, <1>7 DEF ReapInv, OneAwaited, HavePids
<1>11. ChildrenAwaited'
  BY <1>2, <1>7, <1>9 DEF ReapInv, ChildrenAwaited
<1>12. WaiterInv'
  <2> SUFFICES ASSUME NEW s \in Slots, pc[s] = "waitpid"
               PROVE  /\ wait_arg[s] \in unwaited[s]
                      /\ task_state'[s] # "blocked" => (HasEnded(wait_arg[s]))'
    BY <1>2 DEF WaiterInv
  <2>1. /\ wait_arg[s] \in unwaited[s]
        /\ task_state[s] # "blocked" => HasEnded(wait_arg[s])
    BY DEF ReapInv, WaiterInv
  <2>2. CASE task_state[s] # "blocked"
    BY <1>2, <1>9, <2>1, <2>2 DEF HasEnded
  <2>3. CASE task_state[s] = "blocked" /\ task_state'[s] # "blocked"
    <3>1. s \in wakes
      BY <1>1, <1>3, <1>5, <1>6, <2>3 DEF IdleStays
    <3>2. s # IDLE
      BY <1>1, <2>3 DEF IdleStays
    <3>3. pid[s] = ppid[current] /\ pid[s] # 0
      BY <1>4, <3>1, <3>2 DEF ReapInv, HavePids
    <3>4. pid[current] \in unwaited[s]
      BY <1>3, <3>3 DEF ReapInv, ChildrenAwaited, Terminated
    <3>5. pid[current] = wait_arg[s] /\ pid[current] # 0
      BY <1>3, <2>1, <3>4 DEF ReapInv, OneAwaited, HavePids
    <3>6. \A c \in Slots : pid[c] = wait_arg[s] => c = current
      BY <1>3, <3>5 DEF ExitInv
    <3>7. \A c \in Slots : pid'[c] = wait_arg'[s] =>
            task_state'[c] \in Terminated /\ c # current'
      BY <1>2, <1>7, <3>6 DEF Terminated
    <3>8. QED
      BY <2>1, <3>7 DEF HasEnded
  <2>4. QED
    BY <2>1, <2>2, <2>3
<1>13. QED
  BY <1>7, <1>10, <1>11, <1>12 DEF ReapInv

\* A child that is forked is the only one to wait for.
LEMMA ReapFork ==
  ASSUME Background = FALSE, QueueInv, OnlyCurrentRuns, ExitInv, ReapInv, do_fork,
         ~pool_exhausted
  PROVE  /\ ReapInv'
         /\ \A s \in Slots : task_state[s] # "dead" => task_state'[s] # "dead"
<1>1. /\ TypeOK /\ IdleStays /\ current \in Slots /\ task_state[current] # "free"
      /\ current # IDLE
  BY QueueFacts, Caller DEF QueueInv, do_fork
<1>2. PICK c \in FreeTasks :
        /\ pid' = [pid EXCEPT ![c] = npid]
        /\ ppid' = [ppid EXCEPT ![c] = pid[current]]
        /\ task_state' = [task_state EXCEPT ![c] = "ready"]
        /\ npid' = npid + 1
        /\ wait_arg' = [wait_arg EXCEPT ![c] = 0]
        /\ pc' = [pc EXCEPT ![c] = "user"]
        /\ unwaited' = [unwaited EXCEPT ![current] = @ \cup {npid}]
  BY DEF do_fork
<1>3. current' = current /\ unwaited[current] = {}
  BY DEF do_fork, MayCall
<1>4. /\ c \in Slots /\ c # current /\ c # IDLE /\ task_state[c] = "free"
      /\ npid \in Nat /\ npid >= 2
      /\ \A s \in Slots : pid[s] \in Nat /\ ppid[s] \in Nat /\ unwaited[s] \subseteq Nat
  BY <1>1, PoolAssumption DEF FreeTasks, TypeOK, Pids, IdleStays
<1>5. /\ pid'[c] = npid /\ ppid'[c] = pid[current] /\ task_state'[c] = "ready"
      /\ pc'[c] = "user"
      /\ \A s \in Slots \ {c} :
           /\ pid'[s] = pid[s] /\ ppid'[s] = ppid[s] /\ task_state'[s] = task_state[s]
           /\ pc'[s] = pc[s] /\ wait_arg'[s] = wait_arg[s]
      /\ \A s \in Slots : unwaited'[s] = IF s = current THEN {npid} ELSE unwaited[s]
  BY <1>1, <1>2, <1>3, <1>4 DEF TypeOK
<1>6. \A s \in Slots : pid[s] < npid /\ ppid[s] < npid /\ \A p \in unwaited[s] : p < npid
  BY DEF ExitInv, ReapInv, OneAwaited
<1>7. OneAwaited'
  <2>1. \A s \in Slots : ppid'[s] < npid'
    BY <1>1, <1>2, <1>4, <1>5, <1>6
  <2>2. \A s \in Slots : \A p \in unwaited'[s] : p < npid'
    BY <1>2, <1>4, <1>5, <1>6
  <2>3. \A s \in Slots : \A p, q \in unwaited'[s] : p = q
    BY <1>5 DEF ReapInv, OneAwaited
  <2>4. QED
    BY <2>1, <2>2, <2>3 DEF OneAwaited
<1>8. ChildrenAwaited'
  <2> SUFFICES ASSUME NEW s \in Slots, NEW d \in Slots,
                      task_state'[d] \notin Terminated \cup {"free"},
                      pid'[s] # 0, ppid'[d] = pid'[s]
               PROVE  pid'[d] \in unwaited'[s]
    BY DEF ChildrenAwaited
  <2>1. pid'[s] # npid
    BY <1>1, <1>4, <1>5, <1>6
  <2>2. s # c /\ pid'[s] = pid[s]
    BY <1>5, <2>1
  <2>3. CASE d = c
    <3>1. pid[s] = pid[current]
      BY <1>5, <2>2, <2>3
    <3>2. s = current
      BY <1>1, <2>2, <3>1 DEF ExitInv
    <3>3. QED
      BY <1>5, <2>3, <3>2
  <2>4. CASE d # c
    <3>1. pid[d] \in unwaited[s]
      BY <1>5, <2>2, <2>4 DEF ReapInv, ChildrenAwaited
    <3>2. QED
      BY <1>3, <1>5, <2>4, <3>1
  <2>5. QED
    BY <2>3, <2>4
<1>9. WaiterInv'
  <2> SUFFICES ASSUME NEW s \in Slots, pc'[s] = "waitpid"
               PROVE  /\ wait_arg'[s] \in unwaited'[s]
                      /\ task_state'[s] # "blocked" => (HasEnded(wait_arg[s]))'
    BY DEF WaiterInv
  <2>1. s # c /\ pc[s] = "waitpid" /\ wait_arg'[s] = wait_arg[s] /\ task_state'[s] = task_state[s]
    BY <1>5
  <2>2. /\ wait_arg[s] \in unwaited[s]
        /\ task_state[s] # "blocked" => HasEnded(wait_arg[s])
    BY <2>1 DEF ReapInv, WaiterInv
  <2>3. s # current
    BY <1>3, <2>2
  <2>4. wait_arg[s] # npid
    BY <1>4, <1>6, <2>2
  <2>5. HasEnded(wait_arg[s]) => (HasEnded(wait_arg[s]))'
    BY <1>3, <1>5, <2>1, <2>4 DEF HasEnded
  <2>6. QED
    BY <1>5, <2>1, <2>2, <2>3, <2>5
<1>10. HavePids' /\ task_state'[current'] # "dead"
  <2>1. HavePids /\ task_state[current] # "dead"
    BY DEF ReapInv
  <2>2. task_state'[current'] # "dead"
    BY <1>1, <1>3, <1>4, <1>5, <2>1
  <2>3. HavePids'
    <3> SUFFICES ASSUME NEW s \in Slots \ {IDLE}, task_state'[s] # "free"
                 PROVE  pid'[s] # 0
      BY DEF HavePids
    <3>1. CASE s = c
      BY <1>4, <1>5, <3>1
    <3>2. CASE s # c
      BY <1>5, <2>1, <3>2 DEF HavePids
    <3>3. QED
      BY <3>1, <3>2
  <2>4. QED
    BY <2>2, <2>3
<1>11. QED
  BY <1>5, <1>7, <1>8, <1>9, <1>10 DEF ReapInv

\* clean_dead forgets processes that nobody waits for any more.
LEMMA ReapPs ==
  ASSUME QueueInv, ReapInv, do_ps
  PROVE  /\ ReapInv'
         /\ \A s \in Slots : task_state[s] # "dead" => task_state'[s] # "dead"
<1>1. PICK gone \in SUBSET (Queue \ {current}) :
        /\ task_state' = [s \in Slots |-> IF s \in gone THEN "free" ELSE task_state[s]]
        /\ pid' = [s \in Slots |-> IF s \in gone THEN 0 ELSE pid[s]]
        /\ ppid' = [s \in Slots |-> IF s \in gone THEN 0 ELSE ppid[s]]
        /\ pc' = [s \in Slots |-> IF s \in gone THEN "kernel" ELSE pc[s]]
        /\ wait_arg' = [s \in Slots |-> IF s \in gone THEN 0 ELSE wait_arg[s]]
        /\ unwaited' = [s \in Slots |-> IF s \in gone THEN {} ELSE unwaited[s]]
  BY DEF do_ps
<1>2. UNCHANGED <<npid, current>> /\ npid \in Nat /\ npid > 0 /\ current \in Slots
  BY PoolAssumption DEF do_ps, QueueInv, TypeOK
<1>3. \A s \in Slots :
        IF s \in gone
        THEN /\ task_state'[s] = "free" /\ pid'[s] = 0 /\ ppid'[s] = 0
             /\ pc'[s] = "kernel" /\ unwaited'[s] = {}
        ELSE /\ task_state'[s] = task_state[s] /\ pid'[s] = pid[s]
             /\ ppid'[s] = ppid[s] /\ pc'[s] = pc[s]
             /\ wait_arg'[s] = wait_arg[s] /\ unwaited'[s] = unwaited[s]
  BY <1>1
<1>4. OneAwaited'
  BY <1>2, <1>3 DEF ReapInv, OneAwaited
<1>5. ChildrenAwaited'
  BY <1>3 DEF ReapInv, ChildrenAwaited
<1>6. WaiterInv'
  <2> SUFFICES ASSUME NEW s \in Slots, pc'[s] = "waitpid"
               PROVE  /\ wait_arg'[s] \in unwaited'[s]
                      /\ task_state'[s] # "blocked" => (HasEnded(wait_arg[s]))'
    BY DEF WaiterInv
  <2>1. s \notin gone /\ pc[s] = "waitpid"
    BY <1>3
  <2>2. /\ wait_arg[s] \in unwaited[s] /\ wait_arg[s] > 1
        /\ task_state[s] # "blocked" => HasEnded(wait_arg[s])
    BY <2>1 DEF ReapInv, WaiterInv, QueueInv, WaitsForChildren
  <2>3. HasEnded(wait_arg[s]) => (HasEnded(wait_arg[s]))'
    BY <1>2, <1>3, <2>1, <2>2 DEF HasEnded
  <2>4. QED
    BY <1>3, <2>1, <2>2, <2>3
<1>7. HavePids' /\ task_state'[current'] # "dead"
  BY <1>2, <1>3 DEF ReapInv, HavePids
<1>8. QED
  BY <1>3, <1>4, <1>5, <1>6, <1>7 DEF ReapInv

LEMMA ReapInvStep ==
  ASSUME "kill" \notin Calls, Background = FALSE,
         QueueInv, OnlyCurrentRuns, ExitInv, ReapInv, [Next]_vars
  PROVE  /\ ReapInv'
         /\ \A s \in Slots : task_state[s] # "dead" /\ task_state'[s] = "dead" =>
              task_state[s] = "zombie"
<1> DEFINE Reaps == \A s \in Slots :
                      task_state[s] # "dead" /\ task_state'[s] = "dead" =>
                        task_state[s] = "zombie"
<1> SUFFICES ReapInv' /\ Reaps
  OBVIOUS
<1>1. /\ TypeOK /\ RunQueueSound /\ IdleStays /\ current \in Queue /\ current \in Slots
      /\ Queue \subseteq Slots
      /\ task_state \in [Slots -> State] /\ pc \in [Slots -> Where]
      /\ wait_arg \in [Slots -> Pids]
  BY QueueFacts DEF QueueInv, TypeOK
<1>2. task_state[current] \notin {"free", "blocked", "dead"}
  BY <1>1, QueueFacts DEF OnlyCurrentRuns, ReapInv
<1>3. ASSUME UNCHANGED <<task_state, current, pid, ppid, npid, unwaited, wait_arg>>,
             \A s \in Slots : pc'[s] = "waitpid" => pc[s] = "waitpid"
      PROVE  ReapInv' /\ Reaps
  BY <1>2, <1>3, ReapInvStays
<1>4. ASSUME NEW st \in [Slots -> State], schedule(st),
             UNCHANGED <<pid, ppid, npid, pc, unwaited, wait_arg>>,
             \A s \in Slots : st[s] = "free" <=> task_state[s] = "free",
             \A s \in Slots : task_state[s] = "blocked" => st[s] = "blocked",
             \A s \in Slots : st[s] = "dead" => task_state[s] = "dead"
      PROVE  ReapInv' /\ Reaps
  <2>1. /\ current' \in Slots /\ task_state'[current'] = "running"
        /\ \A s \in Slots : s # current' =>
             task_state'[s] = IF s = current /\ st[s] = "running"
                              THEN "ready" ELSE st[s]
        /\ current' # IDLE => st[current'] = "ready"
    BY <1>1, <1>4, ScheduleFacts
  <2>2. task_state[current'] # "free" /\ task_state[current'] # "blocked"
    BY <1>1, <1>4, <2>1 DEF IdleStays
  <2>3. /\ \A s \in Slots : task_state'[s] = "free" <=> task_state[s] = "free"
        /\ \A s \in Slots : task_state[s] = "blocked" => task_state'[s] = "blocked"
        /\ \A s \in Slots : task_state'[s] = "dead" => task_state[s] = "dead"
    BY <1>4, <2>1, <2>2
  <2>4. QED
    BY <1>4, <2>1, <2>3, ReapInvStays
<1>5. CASE func_init \/ terminal_read \/ terminal_read_return \/ UNCHANGED vars
  <2>1. UNCHANGED <<task_state, current, pid, ppid, npid, unwaited, wait_arg>>
    BY <1>5 DEF func_init, terminal_read, terminal_read_return, vars
  <2>2. \A s \in Slots : pc'[s] = "waitpid" => pc[s] = "waitpid"
    BY <1>1, <1>5
    DEF func_init, terminal_read, terminal_read_return, leaves_kernel, vars
  <2>3. QED
    BY <1>3, <2>1, <2>2
<1>6. CASE isr_timer
  <2>1. UNCHANGED <<pid, ppid, npid, pc, unwaited, wait_arg>>
    BY <1>6 DEF isr_timer
  <2>2. /\ tick_states \in [Slots -> State]
        /\ \A s \in Slots : tick_states[s] = "free" <=> task_state[s] = "free"
        /\ \A s \in Slots : task_state[s] = "blocked" => tick_states[s] = "blocked"
        /\ \A s \in Slots : tick_states[s] = "dead" => task_state[s] = "dead"
    BY TickStates
  <2>3. CASE schedule(tick_states)
    BY <1>4, <2>1, <2>2, <2>3
  <2>4. CASE task_state' = task_state /\ current' = current
    BY <1>3, <2>1, <2>4
  <2>5. CASE task_state' = tick_states /\ current' = current
    <3>1. task_state'[current] # "dead"
      BY <1>1, <1>2, <2>2, <2>5
    <3>2. /\ \A s \in Slots : task_state'[s] = "free" <=> task_state[s] = "free"
          /\ \A s \in Slots : task_state[s] = "blocked" => task_state'[s] = "blocked"
          /\ \A s \in Slots : task_state'[s] = "dead" => task_state[s] = "dead"
      BY <2>2, <2>5
    <3>3. ReapInv'
      BY <2>1, <2>5, <3>1, <3>2, ReapInvStays
    <3>4. QED
      BY <3>2, <3>3
  <2>6. QED
    BY <1>6, <2>3, <2>4, <2>5 DEF isr_timer
<1>7. CASE do_fork
  <2>1. CASE pool_exhausted
    <3>1. UNCHANGED <<task_state, current, pid, ppid, npid, unwaited, wait_arg, pc>>
      BY <1>7, <2>1 DEF do_fork
    <3>2. QED
      BY <1>3, <3>1
  <2>2. QED
    BY <1>7, <2>1, ReapFork
<1>8. CASE \E p \in Pids : do_waitpid(p)
  <2>1. PICK p \in Pids : do_waitpid(p)
    BY <1>8
  <2>2. p > 1 /\ p \in Nat /\ p \in unwaited[current]
    BY <1>1, <2>1, PoolAssumption DEF do_waitpid, QueueInv, WaitsForChildren, Pids
  <2>3. CASE exit_seen(p)
    <3>1. /\ UNCHANGED <<pid, ppid, npid, current, pc, wait_arg>>
          /\ task_state' = made_dead(p) /\ pc[current] = "user"
          /\ unwaited' = [unwaited EXCEPT ![current] = @ \ {p}]
      BY <2>1, <2>3 DEF do_waitpid, MayCall
    <3>2. HasEnded(p)
      BY <1>1, <2>2, <2>3 DEF exit_seen, HasEnded, ExitInv
    <3>3. QED
      BY <2>2, <3>1, <3>2, ReapChild
  <2>4. CASE ~exit_seen(p)
    <3> DEFINE st == [task_state EXCEPT ![current] = "blocked"]
    <3>1. /\ schedule(st) /\ UNCHANGED <<pid, ppid, npid, unwaited>>
          /\ pc' = [pc EXCEPT ![current] = "waitpid"]
          /\ wait_arg' = [wait_arg EXCEPT ![current] = p]
      BY <2>1, <2>4 DEF do_waitpid
    <3>2. current # IDLE /\ task_state[current] = "running"
      BY <1>2, <2>1, CallerRuns DEF do_waitpid
    <3>3. /\ st \in [Slots -> State] /\ st[current] = "blocked"
          /\ \A s \in Slots : s # current => st[s] = task_state[s]
      BY <1>1 DEF State
    <3> HIDE DEF st
    <3>4. /\ current' \in Slots /\ task_state'[current'] = "running"
          /\ \A s \in Slots : s # current' =>
               task_state'[s] = IF s = current /\ st[s] = "running"
                                THEN "ready" ELSE st[s]
          /\ current' # IDLE => current' # current /\ st[current'] = "ready"
      BY <1>1, <3>1, <3>3, ScheduleFacts
    <3>5. task_state'[current] = "blocked"
      BY <1>1, <3>2, <3>3, <3>4
    <3>6. \A s \in Slots :
            /\ task_state'[s] = "free" <=> task_state[s] = "free"
            /\ task_state[s] = "blocked" => task_state'[s] = "blocked"
            /\ task_state'[s] = "dead" => task_state[s] = "dead"
      BY <1>1, <3>2, <3>3, <3>4, <3>5 DEF IdleStays
    <3>7. /\ \A c \in Slots : task_state[c] \in Terminated =>
               task_state'[c] \in Terminated /\ c # current /\ c # current'
          /\ \A q : HasEnded(q) => HasEnded(q)'
      BY <3>1, <3>4, <3>6, EndedStays
    <3>8. OneAwaited' /\ HavePids' /\ task_state'[current'] # "dead"
      BY <3>1, <3>4, <3>6 DEF ReapInv, OneAwaited, HavePids
    <3>9. ChildrenAwaited'
      BY <3>1, <3>6, <3>7 DEF ReapInv, ChildrenAwaited
    <3>10. WaiterInv'
      <4> SUFFICES ASSUME NEW s \in Slots, pc'[s] = "waitpid"
                   PROVE  /\ wait_arg'[s] \in unwaited'[s]
                          /\ task_state'[s] # "blocked" => (HasEnded(wait_arg[s]))'
        BY DEF WaiterInv
      <4>1. CASE s = current
        BY <1>1, <2>2, <3>1, <3>5, <4>1
      <4>2. CASE s # current
        <5>1. pc[s] = "waitpid" /\ wait_arg'[s] = wait_arg[s]
          BY <1>1, <3>1, <4>2
        <5>2. /\ wait_arg[s] \in unwaited[s]
              /\ task_state'[s] # "blocked" => HasEnded(wait_arg[s])
          BY <3>6, <5>1 DEF ReapInv, WaiterInv
        <5>3. QED
          BY <3>1, <3>7, <5>1, <5>2 DEF HasEnded
      <4>3. QED
        BY <4>1, <4>2
    <3>11. QED
      BY <3>6, <3>8, <3>9, <3>10 DEF ReapInv
  <2>5. QED
    BY <2>3, <2>4
<1>9. CASE waitpid_return
  <2> DEFINE p == wait_arg[current]
  <2>1. /\ task_state' = made_dead(p) /\ pc[current] = "waitpid"
        /\ pc' = [pc EXCEPT ![current] = "user"]
        /\ wait_arg' = [wait_arg EXCEPT ![current] = 0]
        /\ unwaited' = [unwaited EXCEPT ![current] = @ \ {p}]
        /\ UNCHANGED <<pid, ppid, npid, current>>
    BY <1>9 DEF waitpid_return, leaves_kernel
  <2>2. p \in Nat /\ p > 1
    BY <1>1, <2>1, PoolAssumption DEF QueueInv, WaitsForChildren, Pids
  <2>3. HasEnded(p)
    BY <1>1, <1>2, <2>1 DEF ReapInv, WaiterInv
  <2> HIDE DEF p
  <2>4. \A s \in Slots : pc'[s] = "waitpid" =>
          s # current /\ pc[s] = "waitpid" /\ wait_arg'[s] = wait_arg[s]
    BY <1>1, <2>1
  <2>5. QED
    BY <2>1, <2>2, <2>3, <2>4, ReapChild
<1>10. CASE \E p \in Pids : do_kill(p)
  BY <1>10 DEF do_kill, MayCall
<1>11. CASE do_exit
  BY <1>11, ReapExit
<1>12. CASE do_ps
  BY <1>12, ReapPs
<1>13. CASE do_yield \/ \E t \in SleepArgs : do_sleep(t)
  <2>1. PICK st \in [Slots -> State] :
          /\ schedule(st)
          /\ st = task_state \/ st = [task_state EXCEPT ![current] = "sleeping"]
    BY <1>1, <1>13 DEF do_yield, do_sleep, State
  <2>2. /\ \A s \in Slots : st[s] = "free" <=> task_state[s] = "free"
        /\ \A s \in Slots : task_state[s] = "blocked" => st[s] = "blocked"
        /\ \A s \in Slots : st[s] = "dead" => task_state[s] = "dead"
        /\ UNCHANGED <<pid, ppid, npid, pc, unwaited, wait_arg>>
    BY <1>1, <1>2, <1>13, <2>1 DEF do_yield, do_sleep
  <2>3. QED
    BY <1>4, <2>1, <2>2
<1>14. QED
  BY <1>5, <1>6, <1>7, <1>8, <1>9, <1>10, <1>11, <1>12, <1>13 DEF Next

\* While nothing is killed and every child is waited for before the next, a
\* wait that ends reaps a process that has exited: do_waitpid does not look at
\* wait_pid again after it was woken, and need not.
THEOREM ReapedHaveExited ==
  ASSUME "kill" \notin Calls, Background = FALSE
  PROVE  Spec => ReapedHadExited
<1>1. Init => ReapInv
  <2> SUFFICES ASSUME Init PROVE ReapInv
    OBVIOUS
  <2>1. IDLE \in Slots /\ INIT \in Slots /\ IDLE # INIT
    BY PoolAssumption DEF Slots, IDLE, INIT
  <2>2. OneAwaited /\ WaiterInv /\ HavePids /\ task_state[current] # "dead"
    BY <2>1 DEF Init, OneAwaited, WaiterInv, HavePids, IDLE, INIT
  <2>3. ChildrenAwaited
    BY DEF Init, ChildrenAwaited
  <2>4. QED
    BY <2>2, <2>3 DEF ReapInv
<1>2. QueueInv /\ OnlyCurrentRuns /\ ExitInv /\ ReapInv /\ [Next]_vars => ReapInv'
  BY ReapInvStep
<1>3. QueueInv /\ OnlyCurrentRuns /\ ExitInv /\ ReapInv /\ [Next]_vars =>
        [\A s \in Slots : task_state[s] # "dead" /\ task_state'[s] = "dead" =>
           task_state[s] = "zombie"]_vars
  BY ReapInvStep
<1>4. QED
  BY <1>1, <1>2, <1>3, QueueInvariant, OnlyCurrentEverRuns, ExitInvariant, PTL
  DEF Spec, ReapedHadExited
=============================================================================
