------------------------------- MODULE Shell --------------------------------
(***************************************************************************)
(* The user space of SBUnix: init, which forks a shell whenever the last   *)
(* one ended, the shells (sbush), which run built-in commands, scripts and *)
(* programs in the foreground and the background, and the programs that    *)
(* show files: ls and cat.                                                 *)
(*                                                                         *)
(* A shell can be preempted between any two instructions, but what it      *)
(* shares with the others is cwd_shell and the process table only, and     *)
(* only system calls reach these: a step ends before the next call that    *)
(* touches them.  fork, exit and waitpid are those of the kernel, with all *)
(* that the exit of one child does to a wait for another.  A shell killed  *)
(* for an illegal access ends like one that exits.                         *)
(*                                                                         *)
(* Assumed: execve loads into the caller's own table.  In the code it does *)
(* so only if no other task was forked since (exec_elsewhere, a run of     *)
(* AddressSpace), which a job and a program right behind it may meet.      *)
(***************************************************************************)
EXTENDS TarFs, FiniteSets

CONSTANTS
  MAX_TASKS,    \* bounds: the tasks besides init, and the shells among them;
  MAX_SHELLS,   \* the fork of one more fails
  Lines,        \* the command lines users type: sequences of names
  Programs,     \* the names of the archive's programs
  Endless       \* those of them that never end

Nobody    == 0
Init_task == 1
Tasks     == 1 .. MAX_TASKS + 1
SBUSH     == <<"bin", "/", "sbush">>
ROOTFS    == <<"rootfs", "/">>
FULL_PATH == << <<"bin">>, <<"rootfs", "/", "bin">> >>

\* The archive has the directory that a shell begins in.
ASSUME ShellAssumption ==
  /\ MAX_TASKS \in Nat
  /\ Lines \subseteq Seq(Seq(STRING))
  /\ <<"bin", "/">> \in Directories

VARIABLES
  cwd_shell,    \* the kernel's, one for all shells
  task          \* by task

vars == <<cwd_shell, task>>

\* pc is where a task is: a shell prompts, runs the line args, is inside cd,
\* has forked its foreground task child, is blocked in waitpid for it, or woken
\* there; a program shows something and is done.  wait_pid is the child, if it
\* was the last to exit; that another was is as good as none.  History: bg, it
\* was started with "&"; jobs, it had children running when it forked child; at,
\* the directory the command of a foreground program was given in, if only the
\* shells that wait for it could change it; and out, what the program showed.
Free == [pc |-> "free", prog |-> <<>>, args |-> <<>>, script |-> <<>>,
         path |-> <<>>, PATH |-> <<>>, child |-> Nobody, parent |-> Nobody,
         wait_pid |-> Nobody, bg |-> FALSE, jobs |-> FALSE, at |-> <<>>,
         out |-> <<>>]

Waiting == {"forked", "blocked", "woken"}
Pcs == {"free", "fork", "main", "prompt", "run", "cd", "show", "done", "zombie"}
         \cup Waiting

IsShell(t) == task[t].pc # "free" /\ task[t].prog = SBUSH

Init ==
  /\ cwd_shell = <<>>
  /\ task = [t \in Tasks |-> IF t = Init_task THEN [Free EXCEPT !.pc = "fork"]
                             ELSE Free]
----------------------------------------------------------------------------
(* Paths.                                                                  *)

cut_rootfs(path) == SubSeq(path, 3, Len(path))

add_rootfs(path) == ROOTFS \o path

\* cd ..: back to the last slash but the one at the end.
up(path) == IF Parent(path) = <<>> THEN <<"/">> ELSE Parent(path)

trimmed(input) ==
  IF input[Len(input)] = "/" THEN SubSeq(input, 1, Len(input) - 1) ELSE input

cd_path(cwd, input) ==
  IF input = <<"..">> THEN up(cwd) ELSE cwd \o trimmed(input) \o <<"/">>

\* Faulty variant: PATH names the directories in the other order.
parsed_last(PATH) == SubSeq(PATH, Len(PATH), Len(PATH))

\* The first search puts an end behind the first directory of PATH.
parsed(PATH) == SubSeq(PATH, 1, 1)

direct(cwd, cmd) ==
  IF IsPrefix(<<"bin", "/">>, cmd) THEN cmd ELSE cut_rootfs(cwd) \o cmd

\* Faulty variant: the last candidate is run, found or not.
search_anyway(cwd, cmd, PATH) ==
  IF check_file_exist(direct(cwd, cmd)) = 0 THEN direct(cwd, cmd)
  ELSE PATH[Len(PATH)] \o <<"/">> \o cmd

\* The file a command names: in the directory, else in those of PATH.
search(cwd, cmd, PATH) ==
  LET in_path(i) == PATH[i] \o <<"/">> \o cmd
      found(i)   == check_file_exist(in_path(i)) = 0
  IN IF check_file_exist(direct(cwd, cmd)) = 0 THEN direct(cwd, cmd)
     ELSE IF \A i \in DOMAIN PATH : ~found(i) THEN NoFile
     ELSE in_path(CHOOSE i \in DOMAIN PATH : found(i) /\ \A j \in 1 .. i - 1 : ~found(j))

\* PATH is touched only if the directory does not have the file.
PATH_after(cwd, cmd, PATH) ==
  IF check_file_exist(direct(cwd, cmd)) = 0 THEN PATH ELSE parsed(PATH)
----------------------------------------------------------------------------
(* Lines.                                                                  *)

isBgJob(line) == line[Len(line)] = <<"&">>

\* args, once "&" is cut off.
arguments(line) ==
  IF line # <<>> /\ isBgJob(line) THEN SubSeq(line, 1, Len(line) - 1) ELSE line

\* param is read before "&" is cut off.
param(line) == IF Len(line) > 1 THEN line[2] ELSE NoFile

\* A NULL is compared: no word, or none but "&".
dies(line) == line = <<>> \/ line = << <<"&">> >>

Builtin == {<<"cd">>, <<"pwd">>, <<"sh">>, <<"clear">>, <<"cls">>, <<"exit">>,
            <<"help">>}

\* The scripts that have a line left: only the innermost one may have none.
unfinished(script) ==
  IF script # <<>> /\ Head(script) = <<>> THEN Tail(script) ELSE script

prompted(r) == [r EXCEPT !.pc = "prompt", !.args = <<>>, !.path = <<>>,
                         !.script = <<>>, !.child = Nobody, !.jobs = FALSE]

\* Faulty variant: the script does not go on to its next line.
resumed_again(r, left) ==
  IF left = <<>> THEN prompted(r)
  ELSE [r EXCEPT !.pc = "run", !.args = Head(Head(left)), !.path = <<>>,
                 !.script = left, !.child = Nobody, !.jobs = FALSE]

\* The shell after a command: the next line of its innermost script, or the
\* prompt.
resumed(r, left) ==
  IF left = <<>> THEN prompted(r)
  ELSE [r EXCEPT !.pc = "run", !.args = Head(Head(left)), !.path = <<>>,
                 !.script = <<Tail(Head(left))>> \o Tail(left),
                 !.child = Nobody, !.jobs = FALSE]

continued(r) == resumed(r, unfinished(r.script))

\* The lines of a script; none if the file is not a script.
script_of(file) ==
  IF file = NoFile \/ file.body = <<>> THEN <<>>
  ELSE IF Head(file.body) = << <<"#!">> >> THEN Tail(file.body) ELSE <<>>

goes_on(t) == task' = [task EXCEPT ![t] = continued(@)]
----------------------------------------------------------------------------
(* fork, exit and waitpid.  Tasks are names that are taken again where     *)
(* pids are not: what is freed here is named by nobody any more.           *)

\* find_task_struct(current->ppid).
parent_of(t) == {p \in Tasks : p = task[t].parent}

children(t) == {v \in Tasks : task[v].parent = t}

\* u without t: nobody has t for a parent, or will wait for a zombie it leaves.
without(t, u) ==
  IF u = t \/ (task[u].parent = t /\ task[u].pc = "zombie") THEN Free
  ELSE IF task[u].parent = t THEN [task[u] EXCEPT !.parent = Nobody]
  ELSE task[u]

\* Faulty variant: the exit is noted only for a parent that is blocked.
told_late(r, t) ==
  IF r.pc = "blocked" THEN [r EXCEPT !.wait_pid = t, !.pc = "woken"] ELSE r

\* The parent, with the exit of t: blocked in waitpid, it is woken, whichever
\* child it waits for.
told(r, t) ==
  [r EXCEPT !.wait_pid = IF r.child = t THEN t ELSE Nobody,
            !.pc = IF @ = "blocked" THEN "woken" ELSE @]

\* do_exit.  t leaves a zombie if its parent is going to wait for it.
over(t) ==
  LET awaited == \E p \in parent_of(t) : task[p].child = t
      zombie  == [Free EXCEPT !.pc = "zombie", !.parent = task[t].parent]
  IN task' = [u \in Tasks |->
                IF u = t THEN IF awaited THEN zombie ELSE Free
                ELSE IF u \in parent_of(t) THEN told(without(t, u), t)
                ELSE without(t, u)]

\* t and the shells that wait for it, or for one of these.
Chain(t) ==
  LET upto[n \in 0 .. MAX_TASKS] ==
        IF n = 0 THEN {t}
        ELSE UNION {{u} \cup (IF task[u].bg THEN {} ELSE parent_of(u)) : u \in upto[n - 1]}
  IN upto[MAX_TASKS]

\* Only t can start anything before its next child ends: init and all shells
\* wait for t, or for one another up to t, and none of them for a child that
\* is not the only one it has.
Undisturbed(t) ==
  /\ {u \in Tasks : IsShell(u) \/ u = Init_task} \subseteq Chain(t)
  /\ \A u \in Chain(t) \ {t} : ~task[u].jobs

\* The child of a fork, which executes its program before it calls anything
\* that others notice.
child_of(t, prog, line) ==
  LET bg == line # <<>> /\ line[Len(line)] = <<"&">>
  IN [Free EXCEPT !.pc = IF prog = SBUSH THEN "main" ELSE "show",
                  !.prog = prog, !.args = arguments(line), !.parent = t, !.bg = bg,
                  !.at = IF prog # SBUSH /\ ~bg /\ Undisturbed(t) THEN cwd_shell
                         ELSE <<>>]

\* The task that a fork for prog takes, if any.  Which one does not matter:
\* they are names for tasks.
free_task(prog) ==
  {u \in Tasks : /\ task[u].pc = "free"
                 /\ \A v \in Tasks : task[v].pc = "free" => u <= v
                 /\ prog = SBUSH => Cardinality({v \in Tasks : IsShell(v)}) < MAX_SHELLS}

\* fork of u, and what becomes of the parent.
forks(t, u, prog, line, parent) ==
  task' = [task EXCEPT ![u] = child_of(t, prog, line), ![t] = parent]

\* t, which is going to wait for u.
forked(t, u) ==
  [task[t] EXCEPT !.pc = "forked", !.child = u, !.args = <<>>,
                  !.jobs = children(t) # {}]

\* The end of a waitpid: the child is made dead, whether it has exited or not.
reaps(t) ==
  LET u == task[t].child
      r == [without(u, t) EXCEPT !.wait_pid = Nobody]
      after == IF t = Init_task THEN [r EXCEPT !.pc = "fork", !.child = Nobody]
               ELSE continued(r)
  IN task' = [v \in Tasks |-> IF v = t THEN after ELSE without(u, v)]

\* do_waitpid: if the child was the last to exit there is no need to wait.
waitpid(t) ==
  /\ task[t].pc = "forked"
  /\ IF task[t].wait_pid = task[t].child THEN reaps(t)
     ELSE task' = [task EXCEPT ![t].pc = "blocked"]
  /\ UNCHANGED cwd_shell

\* It does not look at wait_pid again.
waitpid_return(t) ==
  /\ task[t].pc = "woken"
  /\ reaps(t)
  /\ UNCHANGED cwd_shell
----------------------------------------------------------------------------
(* Shells.                                                                 *)

\* init tries again until the fork succeeds.
init_fork ==
  /\ task[Init_task].pc = "fork"
  /\ \E u \in free_task(SBUSH) :
       forks(Init_task, u, SBUSH, <<>>, forked(Init_task, u))
  /\ UNCHANGED cwd_shell

\* The shell begins.
main(t) ==
  /\ task[t].pc = "main"
  /\ cwd_shell' = ROOTFS \o <<"bin", "/">>
  /\ task' = [task EXCEPT ![t].pc = "prompt", ![t].PATH = FULL_PATH]

\* gets returns a line; nothing happens after an empty one.
gets(t, line) ==
  /\ task[t].pc = "prompt"
  /\ task' = [task EXCEPT ![t].pc = "run", ![t].args = line]
  /\ UNCHANGED cwd_shell

runs(t, cmd) ==
  /\ task[t].pc = "run"
  /\ ~dies(task[t].args)
  /\ task[t].args[1] = cmd

illegal_access(t) ==
  /\ task[t].pc = "run" /\ dies(task[t].args)
  /\ over(t)
  /\ UNCHANGED cwd_shell

exit_cmd(t) == runs(t, <<"exit">>) /\ over(t) /\ UNCHANGED cwd_shell

quiet_cmd(t) ==
  /\ \E cmd \in {<<"pwd">>, <<"clear">>, <<"cls">>, <<"help">>} : runs(t, cmd)
  /\ goes_on(t)
  /\ UNCHANGED cwd_shell

\* cd without a directory.
cd_root(t) ==
  /\ runs(t, <<"cd">>) /\ param(task[t].args) = NoFile
  /\ cwd_shell' = ROOTFS
  /\ goes_on(t)

\* cd_cmd up to opendir and set_cwd, between which others run.
cd_cmd(t) ==
  /\ runs(t, <<"cd">>) /\ param(task[t].args) # NoFile
  /\ task' = [task EXCEPT ![t].pc = "cd",
                          ![t].path = cd_path(cwd_shell, param(task[t].args))]
  /\ UNCHANGED cwd_shell

\* Faulty variant: the directory is not looked up.
cd_set_unchecked(t) ==
  /\ task[t].pc = "cd"
  /\ cwd_shell' = task[t].path
  /\ goes_on(t)

\* opendir and set_cwd of cd_cmd.
cd_set(t) ==
  LET path  == task[t].path
      found == path = ROOTFS \/ do_opendir(cut_rootfs(path)) # NoFile
  IN /\ task[t].pc = "cd"
     /\ cwd_shell' = IF found THEN path ELSE cwd_shell
     /\ goes_on(t)

\* The lines of the script come before what is left of the one it is in.
sh_cmd(t) ==
  LET name == param(task[t].args)
      script == IF name = NoFile THEN <<>>
                ELSE script_of(do_tarfs_open(cut_rootfs(cwd_shell) \o name))
  IN /\ runs(t, <<"sh">>)
     /\ task' = [task EXCEPT ![t] = resumed(@, unfinished(<<script>> \o unfinished(@.script)))]
     /\ UNCHANGED cwd_shell

\* There is no such program, or the fork fails.
not_found(t) ==
  LET line == task[t].args
      prog == search(cwd_shell, line[1], task[t].PATH)
      after == [continued(task[t]) EXCEPT !.PATH = PATH_after(cwd_shell, line[1], @)]
  IN /\ task[t].pc = "run" /\ ~dies(line) /\ line[1] \notin Builtin
     /\ prog = NoFile \/ free_task(prog) = {}
     /\ task' = [task EXCEPT ![t] = after]
     /\ UNCHANGED cwd_shell

\* The parent of a background job does not wait.
executeCmd(t) ==
  LET line == task[t].args
      prog == search(cwd_shell, line[1], task[t].PATH)
      after(u) == [IF isBgJob(line) THEN continued(task[t]) ELSE forked(t, u)
                     EXCEPT !.PATH = PATH_after(cwd_shell, line[1], @)]
  IN /\ task[t].pc = "run" /\ ~dies(line) /\ line[1] \notin Builtin
     /\ prog # NoFile
     /\ \E u \in free_task(prog) : forks(t, u, prog, line, after(u))
     /\ UNCHANGED cwd_shell
----------------------------------------------------------------------------
(* Programs.                                                               *)

ls_shows(cwd) ==
  LET dir == cut_rootfs(cwd)
      shown == [names_found \in Seq(Seq(STRING)) |->
                  [i \in DOMAIN names_found |->
                     SubSeq(names_found[i], Len(dir) + 1, Len(names_found[i]))]]
  IN IF cwd = ROOTFS THEN do_read_rootfs
     ELSE IF do_opendir(dir) = NoFile THEN <<>>
     ELSE shown[do_readdir(dir)]

cat_shows(cwd, args) ==
  IF param(args) = NoFile THEN <<>>
  ELSE LET file == do_tarfs_open(cut_rootfs(cwd) \o param(args))
       IN IF file = NoFile THEN <<>> ELSE file.body

shows(prog, cwd, args) ==
  CASE prog = <<"bin", "/", "ls">>  -> ls_shows(cwd)
    [] prog = <<"bin", "/", "cat">> -> cat_shows(cwd, args)
    [] OTHER -> <<>>

program_main(t) ==
  /\ task[t].pc = "show"
  /\ task[t].prog \notin Endless
  /\ task' = [task EXCEPT ![t].pc = "done",
                          ![t].out = shows(task[t].prog, cwd_shell, task[t].args)]
  /\ UNCHANGED cwd_shell

program_exit(t) == task[t].pc = "done" /\ over(t) /\ UNCHANGED cwd_shell
----------------------------------------------------------------------------
runs_on(t) ==
  \/ main(t) \/ illegal_access(t) \/ exit_cmd(t) \/ quiet_cmd(t) \/ cd_root(t)
  \/ cd_cmd(t) \/ cd_set(t) \/ sh_cmd(t) \/ not_found(t) \/ executeCmd(t)
  \/ waitpid(t) \/ waitpid_return(t) \/ program_main(t) \/ program_exit(t)

Next ==
  \/ init_fork
  \/ \E t \in Tasks : \/ runs_on(t)
                      \/ \E line \in Lines : gets(t, line)

Spec == Init /\ [][Next]_vars

\* A shell that reads its line keeps the CPU, in kernel mode, until the user
\* types one, who may never do so.  While nobody reads, the scheduler runs
\* every task that can run.
Reading == \E t \in Tasks : task[t].pc = "prompt"

Fairness ==
  /\ WF_vars(~Reading /\ init_fork)
  /\ \A t \in Tasks : WF_vars(~Reading /\ runs_on(t))

FairSpec == Spec /\ Fairness
----------------------------------------------------------------------------
\* Types: above all, what a shell executes is a program of the archive.
TypeOK ==
  /\ DOMAIN task = Tasks
  /\ \A t \in Tasks :
       /\ task[t].pc \in Pcs
       /\ {task[t].child, task[t].parent, task[t].wait_pid} \subseteq
            Tasks \cup {Nobody}
       /\ task[t].pc \in {"prompt", "run", "cd"} => task[t].prog = SBUSH
       /\ task[t].pc \in {"main", "show", "done"} => task[t].prog \in Programs

\* The directory of the shells is always one of the archive, whichever shells
\* change it in between and whatever cd is given.
CwdIsDirectory ==
  cwd_shell # <<>> =>
    /\ IsPrefix(ROOTFS, cwd_shell)
    /\ cut_rootfs(cwd_shell) \in Directories

\* A command found once is found again: what the searches did to PATH does
\* not change which file a command names.
SearchIsStable ==
  \A t \in Tasks : task[t].pc \in {"prompt", "run"} =>
    \A line \in {l \in Lines : l # <<>>} :
      search(cwd_shell, line[1], task[t].PATH) = search(cwd_shell, line[1], FULL_PATH)

\* A shell that has no job of its own while it forks a foreground task waits as
\* it should, whatever jobs other shells have and however they end: waitpid
\* does not return, at once or woken, before the task has ended, and does not
\* block, or stay blocked, once it has.  init never has a job.
ForegroundIsAwaited ==
  \A t \in Tasks : ~task[t].jobs =>
    LET ended == task[task[t].child].pc = "zombie"
    IN /\ task[t].pc = "forked"  => (task[t].wait_pid = task[t].child <=> ended)
       /\ task[t].pc = "blocked" => ~ended
       /\ task[t].pc = "woken"   => ended

\* What ls and cat are meant to show, of the archive alone: the entries of
\* the directory, in the root with an empty name behind them, and the body
\* of the file.
meant(prog, cwd, args) ==
  LET dir == SubSeq(cwd, 3, Len(cwd))
      entries == [i \in DOMAIN Entries(dir) |->
                    SubSeq(Entries(dir)[i], Len(dir) + 1, Len(Entries(dir)[i]))]
      bodies == {Archive[i].body : i \in {j \in DOMAIN Archive :
                                            Archive[j].name = dir \o args[2]}}
  IN CASE prog = <<"bin", "/", "ls">> -> IF dir = <<>> THEN Append(entries, <<>>)
                                         ELSE entries
       [] prog = <<"bin", "/", "cat">> /\ Len(args) > 1 /\ bodies # {} ->
            CHOOSE b \in bodies : TRUE
       [] OTHER -> <<>>

\* A foreground program that no other shell can interfere with shows what its
\* line asked for in the directory it was typed in, though it asks the kernel
\* for the directory long after.
ShowsWhatWasAsked ==
  \A t \in Tasks : task[t].pc = "done" /\ task[t].at # <<>> =>
    task[t].out = meant(task[t].prog, task[t].at, task[t].args)

\* A shell waits for ever for a task that has ended: the exit of a job has made
\* the kernel forget the one of the task before waitpid was called.
Stuck ==
  \E t \in Tasks : /\ task[t].pc = "blocked" /\ task[t].jobs
                    /\ task[task[t].child].pc = "zombie"

\* README: "This guarantees that the OS will not hang when shell exits
\* unexpectedly": there is always a shell to type to again, however the shells
\* end, in whatever scripts, and with jobs that end at any time or never.  The
\* one thing that keeps it away is a shell that waits for ever, for a job.
PromptComesBack == []<>((\E t \in Tasks : task[t].pc = "prompt") \/ Stuck)
=============================================================================
