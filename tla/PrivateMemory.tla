--------------------------- MODULE PrivateMemory ---------------------------
(***************************************************************************)
(* What processes may expect of memory in SBUnix: each has its own.  A     *)
(* store changes the memory of the process that makes it, fork gives the   *)
(* child a copy, exec replaces code, data and stack of its caller.         *)
(* AddressSpace implements it with page frames that processes share.       *)
(***************************************************************************)
CONSTANTS
  Processes, Pages,
  Loaded,      \* page -> what exec puts into it; a page that exec replaces
  Fresh,       \* a page of the heap at its first access
  Absent,      \* a page that is not there
  Written(_)   \* a page after a store

VARIABLE mem   \* process -> page -> contents

NoMemory == [v \in Pages |-> Absent]

\* One process runs, with a program loaded.
Init ==
  \E p \in Processes :
    mem = [q \in Processes |->
             IF q = p
             THEN [v \in Pages |->
                     IF v \in DOMAIN Loaded THEN Loaded[v] ELSE Absent]
             ELSE NoMemory]

\* A step is a relation between the memories before it and after it.

\* A store to a page that is there.
Stored(p, old, new) ==
  \E v \in Pages :
    old[p][v] # Absent /\ new[p] = [old[p] EXCEPT ![v] = Written(@)]

\* The first access to a page of the heap: a load or a store.
Touched(p, old, new) ==
  \E v \in Pages \ DOMAIN Loaded, x \in {Fresh, Written(Fresh)} :
    old[p][v] = Absent /\ new[p] = [old[p] EXCEPT ![v] = x]

\* p is a new child of q.  It gets all pages that exec loads, and others if q
\* has them.
Forked(p, q, old, new) ==
  /\ old[p] = NoMemory
  /\ \E shared \in SUBSET Pages :
       /\ DOMAIN Loaded \subseteq shared
       /\ new[p] = [v \in Pages |-> IF v \in shared THEN old[q][v] ELSE Absent]

\* An exec that fails has replaced the stack only.
Executed(p, replaced, old, new) ==
  new[p] = [v \in Pages |-> IF v \in replaced THEN Loaded[v] ELSE old[p][v]]

\* A step changes the memory of one process.
Step(p, old, new) ==
  /\ \A q \in Processes \ {p} : new[q] = old[q]
  /\ \/ Stored(p, old, new) \/ Touched(p, old, new)
     \/ \E q \in Processes \ {p} : Forked(p, q, old, new)
     \/ Executed(p, DOMAIN Loaded, old, new)
     \/ Executed(p, {"stack"}, old, new)

Next == \E old \in {mem}, new \in {mem'} : \E p \in Processes : Step(p, old, new)

Spec == Init /\ [][Next]_mem
============================================================================
