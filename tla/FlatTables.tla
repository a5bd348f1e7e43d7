----------------------------- MODULE FlatTables -----------------------------
(***************************************************************************)
(* What page tables are for in SBUnix: each process has one flat table     *)
(* from pages to frames.  Fork marks the entries of the parent and gives   *)
(* the child the same, a fault or an exec puts a frame in that nobody had. *)
(* KernelMemory implements it with tables of four levels, taken from a     *)
(* pool or from the user's frames, that it changes through addresses in    *)
(* the tables themselves.                                                  *)
(***************************************************************************)
EXTENDS Naturals, FiniteSets

CONSTANTS
  Processes,
  Frames,
  Program,   \* pages that exec replaces in the table of the last child
  Stack,     \* the page that exec replaces in the table of its caller
  Top,       \* the page above it
  Heap       \* pages of the heap that may be accessed

VARIABLES
  flat,      \* process -> page -> entry; no processes once the machine halts
  last       \* the process forked last; {} when it is gone

Pages  == Program \cup Heap \cup {Stack, Top}
own(f) == [frame |-> f, writable |-> TRUE]

\* A step is a relation between the tables before it and after it.
Mapped(t) == {t[v].frame : v \in DOMAIN t}
Fresh(t)  == Frames \ UNION {Mapped(t[p]) : p \in DOMAIN t}
with(t, v, f) == [w \in DOMAIN t \cup {v} |-> IF w = v THEN own(f) ELSE t[w]]

\* q shares the pages of p, but those of the heap outside the area: an exec
\* shrinks the area and leaves its pages mapped.
Forked(p, q, old, new) ==
  \E shared \in {DOMAIN old[p] \ outside : outside \in SUBSET Heap} :
    LET marked == [v \in shared |-> [old[p][v] EXCEPT !.writable = FALSE]]
    IN new = [r \in DOMAIN old \cup {q} |->
         CASE r = q -> marked
           [] r = p -> [v \in DOMAIN old[p] |->
                          IF v \in shared THEN marked[v] ELSE old[p][v]]
           [] OTHER -> old[r]]

\* Demand paging: a page of the heap that is not there.
Demanded(p, old, new) ==
  \E v \in Heap \ DOMAIN old[p], f \in Fresh(old) :
    new = [old EXCEPT ![p] = with(@, v, f)]

\* Copy-on-write: a copy, or the frame itself to its last user.
Stored(p, old, new) ==
  \E v \in DOMAIN old[p] : \E f \in Fresh(old) \cup {old[p][v].frame} :
    /\ ~old[p][v].writable
    /\ new = [old EXCEPT ![p] = with(@, v, f)]

\* Exec by p.  It may fail when the stack has been replaced.
Executed(p, old, new, l) ==
  \E f \in Fresh(old) :
    LET failed == [old EXCEPT ![p] = with(@, Stack, f)]
    IN \/ new = failed
       \/ \E g \in [Program -> Fresh(old) \ {f}] :
            /\ \A v, w \in Program : g[v] = g[w] => v = w
            /\ new = [r \in DOMAIN old |->
                 IF r \notin l THEN failed[r]
                 ELSE [v \in DOMAIN failed[r] \cup Program |->
                         IF v \in Program THEN own(g[v]) ELSE failed[r][v]]]

Removed(old, new) ==
  /\ DOMAIN new \subseteq DOMAIN old
  /\ \A p \in DOMAIN new : new[p] = old[p]

\* One process runs, with a program loaded.
First(t, l) ==
  \E p \in Processes :
    /\ l = {p} /\ DOMAIN t = {p}
    /\ Program \cup {Stack, Top} \subseteq DOMAIN t[p]
    /\ \A v \in DOMAIN t[p] : v \in Pages /\ t[p][v].writable
    /\ Cardinality(Mapped(t[p]) \cap Frames) = Cardinality(DOMAIN t[p])

Step(old, new, l, l2) ==
  \/ l2 = l /\ \E p \in DOMAIN old :
       Demanded(p, old, new) \/ Stored(p, old, new) \/ Executed(p, old, new, l)
  \/ \E q \in Processes \ DOMAIN old :
       l2 = {q} /\ \E p \in DOMAIN old : Forked(p, q, old, new)
  \/ l2 = l \cap DOMAIN new /\ Removed(old, new)

Init == First(flat, last)
Next == \E old \in {flat}, new \in {flat'} : Step(old, new, last, last')

Spec == Init /\ [][Next]_<<flat, last>>
=============================================================================
