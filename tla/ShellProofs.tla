---------------------------- MODULE ShellProofs -----------------------------
(***************************************************************************)
(* Proofs about the shells: what a shell waits for, where it stands, what  *)
(* its commands name and execute, and what its programs show, for every    *)
(* archive, number of tasks and set of command lines.                      *)
(***************************************************************************)
EXTENDS Shell, SequenceLemmas

\* The words of names; that these are strings the provers are not told.
Word == STRING \cup {"/", "bin", "sbush", "rootfs", ".."}
Name == Seq(Word)
Line == Seq(Seq(STRING))

Fields == {"pc", "prog", "args", "script", "path", "PATH", "child", "parent",
           "wait_pid", "bg", "jobs", "at", "out"}

\* Of the scripts a shell is in, those that wait for an inner one have a line
\* left.
IsScript(s) == s \in Seq(Seq(Line)) /\ \A i \in 2 .. Len(s) : s[i] # <<>>

IsTask(r) ==
  /\ DOMAIN r = Fields
  /\ r.pc \in Pcs
  /\ r.args \in Line /\ IsScript(r.script)
  /\ r.path \in Name
  /\ {r.child, r.parent, r.wait_pid} \subseteq Tasks \cup {Nobody}
  /\ r.bg \in BOOLEAN /\ r.jobs \in BOOLEAN

TypeInv ==
  /\ cwd_shell \in Name
  /\ DOMAIN task = Tasks
  /\ \A t \in Tasks : IsTask(task[t])

Waits(t) == task[t].pc \in Waiting

InitWaits ==
  \A t \in Tasks : t = Init_task =>
    task[t].pc \in {"fork"} \cup Waiting /\ task[t].parent = Nobody

\* A task has a parent only while that one is there to be told.
LiveParents ==
  \A t \in Tasks : task[t].parent # Nobody =>
    task[t].pc # "free" /\ task[task[t].parent].pc \notin {"free", "zombie"}

NoCircle == \A t, u \in Tasks : task[u].parent = t => task[t].parent # u

\* Nothing but the child a shell, or init, waits for was started without "&",
\* and has a parent; only such a task leaves a zombie.
Awaited ==
  \A t \in Tasks : ~task[t].bg /\ task[t].parent # Nobody =>
    Waits(task[t].parent) /\ task[task[t].parent].child = t

Zombies == \A t \in Tasks : task[t].pc = "zombie" => ~task[t].bg /\ task[t].parent # Nobody

WaitsForOwn ==
  \A t \in Tasks :
    IF Waits(t) THEN /\ task[t].child # Nobody
                     /\ task[task[t].child].parent = t /\ ~task[task[t].child].bg
    ELSE task[t].child = Nobody

\* Who knows of an exit knows of that of the child it waits for.
Noted ==
  \A t \in Tasks : task[t].wait_pid # Nobody =>
    task[t].wait_pid = task[t].child /\ task[task[t].child].pc = "zombie"

\* Who had no job when it forked has no other child while it waits.
OnlyChild ==
  \A t, u \in Tasks : Waits(t) /\ ~task[t].jobs /\ task[u].parent = t => task[t].child = u

ForegroundInv ==
  /\ InitWaits /\ LiveParents /\ NoCircle /\ Awaited /\ Zombies /\ WaitsForOwn /\ Noted
  /\ OnlyChild /\ ForegroundIsAwaited

\* A shell that has begun.
Begun(t) == t # Init_task /\ task[t].pc \in {"prompt", "run", "cd"} \cup Waiting

InRoot(path) == Len(path) >= 2 /\ path[1] = "rootfs" /\ path[2] = "/"

DirectoryInv ==
  /\ cwd_shell # <<>> => InRoot(cwd_shell) /\ cut_rootfs(cwd_shell) \in Directories
  /\ \A t \in Tasks : Begun(t) => cwd_shell # <<>>
  /\ \A t \in Tasks : task[t].pc = "cd" =>
       task[t].path = <<"/">> \/ InRoot(task[t].path)

\* The first directory of PATH is what a search leaves of it.
PathInv ==
  \A t \in Tasks : Begun(t) =>
    task[t].PATH = FULL_PATH \/ task[t].PATH = SubSeq(FULL_PATH, 1, 1)
-----------------------------------------------------------------------------
(* Types.                                                                  *)

LEMMA NobodyIs == Nobody \notin Tasks /\ Init_task \in Tasks
BY ShellAssumption DEF Nobody, Init_task, Tasks

LEMMA FreeIs ==
  /\ IsTask(Free) /\ Free.pc = "free" /\ Free.PATH = <<>> /\ Free.prog = <<>>
  /\ Free.child = Nobody /\ Free.parent = Nobody /\ Free.wait_pid = Nobody
  /\ Free.bg = FALSE /\ Free.jobs = FALSE /\ Free.at = <<>>
  /\ DOMAIN Free = Fields
<1>1. DOMAIN Free = Fields
  BY DEF Free, Fields
<1>2. /\ Free.pc = "free" /\ Free.args = <<>> /\ Free.script = <<>> /\ Free.path = <<>>
      /\ Free.PATH = <<>> /\ Free.child = Nobody /\ Free.parent = Nobody
      /\ Free.wait_pid = Nobody /\ Free.bg = FALSE /\ Free.jobs = FALSE
      /\ Free.prog = <<>> /\ Free.at = <<>>
  BY DEF Free
<1>3. /\ <<>> \in Line /\ <<>> \in Name /\ <<>> \in Seq(Name) /\ <<>> \in Seq(Seq(Line))
  BY EmptySeq DEF Line, Name
<1>4. IsScript(<<>>)
  BY <1>3 DEF IsScript
<1>5. QED
  BY <1>1, <1>2, <1>3, <1>4 DEF IsTask, Pcs

LEMMA UnfinishedIs ==
  ASSUME NEW s, IsScript(s)
  PROVE  /\ unfinished(s) \in Seq(Seq(Line))
         /\ \A i \in 1 .. Len(unfinished(s)) : unfinished(s)[i] # <<>>
<1>1. s \in Seq(Seq(Line)) /\ \A i \in 2 .. Len(s) : s[i] # <<>>
  BY DEF IsScript
<1>2. CASE s = <<>>
  BY <1>2, EmptySeq DEF unfinished
<1>3. CASE s # <<>> /\ Head(s) = <<>>
  <2>1. unfinished(s) = Tail(s)
    BY <1>3 DEF unfinished
  <2>2. /\ Tail(s) \in Seq(Seq(Line)) /\ Len(Tail(s)) = Len(s) - 1 /\ Len(s) \in Nat
        /\ \A i \in 1 .. Len(Tail(s)) : Tail(s)[i] = s[i + 1]
    BY <1>1, <1>3
  <2>3. ASSUME NEW i \in 1 .. Len(Tail(s)) PROVE Tail(s)[i] # <<>>
    <3>1. i + 1 \in 2 .. Len(s)
      BY <2>2, <2>3
    <3>2. QED
      BY <1>1, <2>2, <3>1
  <2>4. QED
    BY <2>1, <2>2, <2>3
<1>4. CASE s # <<>> /\ Head(s) # <<>>
  <2>1. unfinished(s) = s /\ Head(s) = s[1]
    BY <1>1, <1>4 DEF unfinished
  <2>2. \A i \in 1 .. Len(s) : i = 1 \/ i \in 2 .. Len(s)
    BY <1>1, LenProperties
  <2>3. QED
    BY <1>1, <1>4, <2>1, <2>2
<1>5. QED
  BY <1>2, <1>3, <1>4

\* A shell goes on with a line of its script or at the prompt; nothing of it
\* changes that others see.
LEMMA ResumedIs ==
  ASSUME NEW r, IsTask(r), NEW left \in Seq(Seq(Line)),
         \A i \in 1 .. Len(left) : left[i] # <<>>
  PROVE  LET q == resumed(r, left)
         IN /\ IsTask(q) /\ q.pc \in {"prompt", "run"}
            /\ q.parent = r.parent /\ q.bg = r.bg /\ q.PATH = r.PATH /\ q.prog = r.prog
            /\ q.child = Nobody /\ q.wait_pid = r.wait_pid
<1>1. /\ DOMAIN r = Fields /\ {r.parent, r.wait_pid} \subseteq Tasks \cup {Nobody}
      /\ r.bg \in BOOLEAN
  BY DEF IsTask
<1>2. <<>> \in Line /\ <<>> \in Name /\ IsScript(<<>>)
  BY EmptySeq DEF Line, Name, IsScript
<1>3. CASE left = <<>>
  <2>1. resumed(r, left) = [r EXCEPT !.pc = "prompt", !.args = <<>>, !.path = <<>>,
                                     !.script = <<>>, !.child = Nobody, !.jobs = FALSE]
    BY <1>3 DEF resumed, prompted
  <2> DEFINE q == [r EXCEPT !.pc = "prompt", !.args = <<>>, !.path = <<>>,
                            !.script = <<>>, !.child = Nobody, !.jobs = FALSE]
  <2>2. /\ DOMAIN q = Fields /\ q.pc = "prompt" /\ q.args = <<>> /\ q.path = <<>>
        /\ q.script = <<>> /\ q.child = Nobody /\ q.PATH = r.PATH /\ q.parent = r.parent
        /\ q.bg = r.bg /\ q.prog = r.prog /\ q.wait_pid = r.wait_pid /\ q.jobs = FALSE
    BY <1>1 DEF Fields
  <2> HIDE DEF q
  <2>3. IsTask(q)
    BY <1>1, <1>2, <2>2 DEF IsTask, Pcs
  <2>4. QED
    BY <2>1, <2>2, <2>3 DEF q
<1>4. CASE left # <<>>
  <2> DEFINE args   == Head(Head(left))
             script == <<Tail(Head(left))>> \o Tail(left)
             q == [r EXCEPT !.pc = "run", !.args = args, !.path = <<>>,
                            !.script = script, !.child = Nobody, !.jobs = FALSE]
  <2>1. resumed(r, left) = q
    BY <1>4 DEF resumed
  <2>2. /\ Head(left) \in Seq(Line) /\ Head(left) # <<>>
        /\ Tail(left) \in Seq(Seq(Line)) /\ Len(Tail(left)) = Len(left) - 1
        /\ Len(left) \in Nat /\ Len(left) # 0
        /\ \A i \in 1 .. Len(Tail(left)) : Tail(left)[i] = left[i + 1]
    <3>1. Len(left) \in Nat /\ Len(left) # 0 /\ 1 \in 1 .. Len(left)
      BY <1>4, EmptySeq, LenProperties
    <3>2. Head(left) = left[1] /\ left[1] \in Seq(Line)
      BY <1>4, <3>1, ElementOfSeq
    <3>3. /\ Tail(left) \in Seq(Seq(Line)) /\ Len(Tail(left)) = Len(left) - 1
          /\ \A i \in 1 .. Len(Tail(left)) : Tail(left)[i] = left[i + 1]
      BY <1>4
    <3>4. QED
      BY <3>1, <3>2, <3>3
  <2>3. args \in Line /\ Tail(Head(left)) \in Seq(Line)
    BY <2>2, HeadTailProperties
  <2>4. IsScript(script)
    <3>1. Tail(Head(left)) \in Seq(Line) /\ Tail(left) \in Seq(Seq(Line))
      BY <2>2, <2>3
    <3>2. /\ script \in Seq(Seq(Line)) /\ Len(script) = Len(left)
          /\ \A i \in 2 .. Len(left) : script[i] = Tail(left)[i - 1]
      <4>1. /\ script \in Seq(Seq(Line)) /\ Len(script) = Len(Tail(left)) + 1
            /\ \A i \in 2 .. Len(Tail(left)) + 1 : script[i] = Tail(left)[i - 1]
        BY <3>1, PushIs
      <4>2. QED
        BY <2>2, <4>1
    <3>3. ASSUME NEW i \in 2 .. Len(left) PROVE script[i] # <<>>
      <4>1. i - 1 \in 1 .. Len(Tail(left)) /\ (i - 1) + 1 = i /\ i \in 1 .. Len(left)
        BY <2>2, <3>3
      <4>2. QED
        BY <2>2, <3>2, <4>1
    <3>4. QED
      BY <3>2, <3>3 DEF IsScript
  <2> HIDE DEF args, script
  <2>5. /\ DOMAIN q = Fields /\ q.pc = "run" /\ q.args = args /\ q.path = <<>>
        /\ q.script = script /\ q.child = Nobody /\ q.PATH = r.PATH /\ q.parent = r.parent
        /\ q.bg = r.bg /\ q.prog = r.prog /\ q.wait_pid = r.wait_pid /\ q.jobs = FALSE
    BY <1>1 DEF Fields
  <2> HIDE DEF q
  <2>6. IsTask(q)
    BY <1>1, <1>2, <2>3, <2>4, <2>5 DEF IsTask, Pcs
  <2>7. QED
    BY <2>1, <2>5, <2>6
<1>5. QED
  BY <1>3, <1>4

LEMMA ContinuedIs ==
  ASSUME NEW r, IsTask(r)
  PROVE  LET q == continued(r)
         IN /\ IsTask(q) /\ q.pc \in {"prompt", "run"}
            /\ q.parent = r.parent /\ q.bg = r.bg /\ q.PATH = r.PATH /\ q.prog = r.prog
            /\ q.child = Nobody /\ q.wait_pid = r.wait_pid
<1>1. IsScript(r.script)
  BY DEF IsTask
<1>2. QED
  BY <1>1, UnfinishedIs, ResumedIs DEF continued
-----------------------------------------------------------------------------
(* The archive and paths.                                                  *)

LEMMA StringsAreNames == Seq(STRING) \subseteq Name /\ Seq(Seq(STRING)) \subseteq Line
<1>1. STRING \subseteq Word
  BY DEF Word
<1>2. Seq(STRING) \subseteq Name
  BY <1>1, SeqWiden DEF Name
<1>3. QED
  BY <1>2, SeqWiden DEF Line

Header == [name : Name, typeflag : STRING \cup {""}, body : Seq(Line)]

LEMMA HeadersIs ==
  /\ Headers \in Seq(Header) /\ Archive \in Seq(Header)
  /\ Len(Headers) = Len(Archive) + 1
  /\ \A i \in 1 .. Len(Archive) : Headers[i] = Archive[i]
  /\ Headers[Len(Archive) + 1] = Trailer
<1>1. Archive \in Seq(Header)
  <2> DEFINE Entry == [name : Seq(STRING), typeflag : STRING,
                       body : Seq(Seq(Seq(STRING)))]
  <2>1. Seq(Seq(Seq(STRING))) \subseteq Seq(Line)
    BY StringsAreNames, SeqWiden DEF Line
  <2>2. Entry \subseteq Header
    BY <2>1, StringsAreNames DEF Header
  <2>3. Archive \in Seq(Entry)
    BY ArchiveAssumption
  <2> HIDE DEF Entry
  <2>4. QED
    BY <2>2, <2>3, SeqWiden
<1>2. Trailer \in Header
  <2>1. <<>> \in Name /\ <<>> \in Seq(Line)
    BY EmptySeq DEF Name
  <2>2. QED
    BY <2>1 DEF Trailer, Header
<1>3. QED
  BY <1>1, <1>2, AppendProperties DEF Headers

\* The header that a name stands for is one of that name that matches.
LEMMA FirstHeader ==
  ASSUME NEW matches, matches \subseteq ToSet(Headers),
         NEW name \in DOMAIN first_header(matches)
  PROVE  /\ first_header(matches)[name] \in matches
         /\ first_header(matches)[name].name = name
<1> DEFINE I == {i \in 1 .. Len(Headers) : Headers[i].name = name /\ Headers[i] \in matches}
           m == CHOOSE x \in I : \A y \in I : x =< y
<1>1. PICK h \in matches : h.name = name
  BY DEF first_header
<1>2. Len(Headers) \in Nat /\ DOMAIN Headers = 1 .. Len(Headers)
  BY HeadersIs, LenProperties
<1>3. PICK i \in 1 .. Len(Headers) : Headers[i] = h
  BY <1>1, <1>2 DEF ToSet
<1>4. I \in SUBSET Nat /\ i \in I
  BY <1>1, <1>2, <1>3
<1>5. \E x \in I : \A y \in I : x =< y
  <2> HIDE DEF I
  <2>1. QED
    BY <1>4, NatMin
<1>6. m \in I
  <2> HIDE DEF I
  <2>1. QED
    BY <1>5
<1>7. first_header(matches)[name] = Headers[m]
  <2>1. first_header(matches)[name]
          = Headers[SelectInSeq(Headers, LAMBDA x : x.name = name /\ x \in matches)]
    BY DEF first_header
  <2>2. SelectInSeq(Headers, LAMBDA x : x.name = name /\ x \in matches) = m
    BY <1>4 DEF SelectInSeq, Min
  <2>3. QED
    BY <2>1, <2>2
<1>8. QED
  BY <1>6, <1>7

\* do_tarfs_open gives an entry of the archive or its trailer,
LEMMA OpenIs ==
  ASSUME NEW name, do_tarfs_open(name) # NoFile
  PROVE  do_tarfs_open(name) \in Header
<1>1. name \in DOMAIN Files /\ do_tarfs_open(name) = Files[name]
  BY DEF do_tarfs_open
<1>2. Files[name] \in ToSet(Headers)
  BY <1>1, FirstHeader DEF Files
<1>3. ToSet(Headers) \subseteq Header
  BY HeadersIs, ElementOfSeq, LenProperties DEF ToSet
<1>4. QED
  BY <1>1, <1>2, <1>3

\* and do_opendir a directory of the archive.
LEMMA OpendirIs ==
  ASSUME NEW name, do_opendir(name) # NoFile
  PROVE  name \in Directories /\ name # <<>>
<1> DEFINE matches == {h \in ToSet(Headers) : IsDirectory(h)}
<1>1. name \in DOMAIN Folders
  BY DEF do_opendir
<1>2. Folders[name] \in matches /\ Folders[name].name = name
  <2>1. matches \subseteq ToSet(Headers) /\ Folders = first_header(matches)
    BY DEF Folders
  <2> HIDE DEF matches
  <2>2. QED
    BY <1>1, <2>1, FirstHeader
<1>3. Len(Archive) \in Nat /\ DOMAIN Headers = 1 .. Len(Archive) + 1
      /\ DOMAIN Archive = 1 .. Len(Archive)
  BY HeadersIs, LenProperties
<1>4. PICK i \in 1 .. Len(Archive) + 1 : Headers[i] = Folders[name]
  BY <1>2, <1>3 DEF ToSet
<1>5. Headers[i].typeflag = "5"
  BY <1>2, <1>4 DEF IsDirectory
<1>6. i # Len(Archive) + 1
  <2>1. Trailer.typeflag # "5"
    BY DEF Trailer
  <2>2. QED
    BY <1>5, <2>1, HeadersIs
<1>7. i \in 1 .. Len(Archive) /\ Headers[i] = Archive[i]
  BY <1>3, <1>6, HeadersIs
<1>8. Archive[i].name = name /\ IsDirectory(Archive[i]) /\ i \in DOMAIN Archive
  BY <1>2, <1>3, <1>4, <1>5, <1>7 DEF IsDirectory
<1>9. QED
  BY <1>8, ArchiveAssumption DEF Directories

\* The directory of a name is empty or ends where one of its slashes does.
LEMMA ParentIs ==
  ASSUME NEW path \in Name
  PROVE  \/ Parent(path) = <<>>
         \/ \E k \in Nat : /\ 1 <= k /\ k <= Len(path) - 1 /\ path[k] = "/"
                           /\ Parent(path) = SubSeq(path, 1, k)
<1> DEFINE slashes == {i \in 1 .. Len(path) - 1 : path[i] = "/"}
           k == CHOOSE i \in slashes : \A j \in slashes : j <= i
<1>1. Len(path) \in Nat
  BY LenProperties DEF Name
<1>2. CASE slashes = {}
  <2>1. Parent(path) = SubSeq(path, 1, 0)
    BY <1>2 DEF Parent
  <2>2. QED
    BY <2>1, SubSeqEmpty
<1>3. CASE slashes # {}
  <2>1. \E i \in slashes : \A j \in slashes : j <= i
    <3>1. slashes \in SUBSET (0 .. Len(path))
      BY <1>1
    <3> HIDE DEF slashes
    <3>2. QED
      BY <1>1, <1>3, <3>1, NatMax
  <2>2. k \in slashes
    <3> HIDE DEF slashes
    <3>1. QED
      BY <2>1
  <2>3. Parent(path) = SubSeq(path, 1, k)
    BY <1>3 DEF Parent
  <2>4. QED
    <3> HIDE DEF k
    <3>1. QED
      BY <1>1, <2>2, <2>3
<1>4. QED
  BY <1>2, <1>3

\* cd .. leads to the root or stays in it.
LEMMA UpIs ==
  ASSUME NEW path \in Name
  PROVE  /\ up(path) \in Name
         /\ InRoot(path) => up(path) = <<"/">> \/ InRoot(up(path))
<1>1. <<"/">> \in Name
  BY DEF Name, Word
<1>2. CASE Parent(path) = <<>>
  BY <1>1, <1>2 DEF up
<1>3. CASE Parent(path) # <<>>
  <2>1. PICK k \in Nat : /\ 1 <= k /\ k <= Len(path) - 1 /\ path[k] = "/"
                         /\ Parent(path) = SubSeq(path, 1, k)
    BY <1>3, ParentIs
  <2>2. Len(path) \in Nat
    BY LenProperties DEF Name
  <2>3. /\ up(path) \in Name /\ Len(up(path)) = k
        /\ \A i \in 1 .. k : up(path)[i] = path[i]
    <3>1. up(path) = SubSeq(path, 1, k)
      BY <1>3, <2>1 DEF up
    <3>2. QED
      BY <2>1, <2>2, <3>1, TakeIs DEF Name
  <2>4. ASSUME InRoot(path) PROVE InRoot(up(path))
    <3>1. k # 1
      BY <2>1, <2>4 DEF InRoot
    <3>2. 1 \in 1 .. k /\ 2 \in 1 .. k /\ k >= 2
      BY <2>1, <3>1
    <3>3. QED
      BY <2>3, <2>4, <3>2 DEF InRoot
  <2>5. QED
    BY <2>3, <2>4
<1>4. QED
  BY <1>2, <1>3

LEMMA TrimmedIs ==
  ASSUME NEW input \in Name PROVE trimmed(input) \in Name
<1>1. Len(input) \in Nat
  BY LenProperties DEF Name
<1>2. CASE Len(input) = 0
  <2>1. SubSeq(input, 1, Len(input) - 1) = <<>>
    BY <1>2, SubSeqEmpty
  <2>2. QED
    BY <2>1, EmptySeq DEF trimmed, Name
<1>3. CASE Len(input) # 0
  <2>1. Len(input) - 1 \in Nat /\ Len(input) - 1 <= Len(input)
    BY <1>1, <1>3
  <2>2. SubSeq(input, 1, Len(input) - 1) \in Name
    BY <2>1, TakeIs DEF Name
  <2>3. QED
    BY <2>2 DEF trimmed
<1>4. QED
  BY <1>2, <1>3

\* What cd makes of the directory and its argument begins where the directory
\* does, unless it leaves the root.
LEMMA CdPathIs ==
  ASSUME NEW cwd \in Name, NEW input \in Name
  PROVE  /\ cd_path(cwd, input) \in Name
         /\ InRoot(cwd) => \/ cd_path(cwd, input) = <<"/">>
                           \/ InRoot(cd_path(cwd, input))
<1>1. CASE input = <<"..">>
  BY <1>1, UpIs DEF cd_path
<1>2. CASE input # <<"..">>
  <2> DEFINE a == cwd \o trimmed(input)
             b == a \o <<"/">>
  <2>1. /\ a \in Name /\ Len(a) >= Len(cwd)
        /\ \A i \in 1 .. Len(cwd) : a[i] = cwd[i]
    <3>1. trimmed(input) \in Name /\ Len(trimmed(input)) \in Nat /\ Len(cwd) \in Nat
      BY TrimmedIs, LenProperties DEF Name
    <3>2. QED
      BY <3>1, ConcatIs DEF Name
  <2> HIDE DEF a
  <2>2. /\ b \in Name /\ Len(b) >= Len(a)
        /\ \A i \in 1 .. Len(a) : b[i] = a[i]
    <3>1. <<"/">> \in Name
      BY DEF Name, Word
    <3>2. QED
      BY <2>1, <3>1, ConcatIs DEF Name
  <2>3. cd_path(cwd, input) = b
    BY <1>2 DEF cd_path, a
  <2> HIDE DEF b
  <2>4. ASSUME InRoot(cwd) PROVE InRoot(b)
    <3>1. Len(cwd) \in Nat /\ Len(a) \in Nat /\ Len(b) \in Nat
      BY <2>1, <2>2, LenProperties DEF Name
    <3>2. /\ 1 \in 1 .. Len(cwd) /\ 2 \in 1 .. Len(cwd)
          /\ 1 \in 1 .. Len(a) /\ 2 \in 1 .. Len(a) /\ Len(b) >= 2
      BY <2>1, <2>2, <2>4, <3>1 DEF InRoot
    <3>3. QED
      BY <2>1, <2>2, <2>4, <3>2 DEF InRoot
  <2>5. QED
    BY <2>2, <2>3, <2>4
<1>3. QED
  BY <1>1, <1>2

\* The directory of the root, as CwdIsDirectory has it.
LEMMA RootIs ==
  /\ ROOTFS \in Name /\ InRoot(ROOTFS) /\ ROOTFS # <<>>
  /\ \A path \in Name : InRoot(path) => IsPrefix(ROOTFS, path)
<1>1. ROOTFS = <<"rootfs", "/">> /\ Len(ROOTFS) = 2 /\ ROOTFS[1] = "rootfs" /\ ROOTFS[2] = "/"
  BY DEF ROOTFS
<1>2. ROOTFS \in Name
  BY <1>1 DEF Name, Word
<1>3. ASSUME NEW path \in Name, InRoot(path) PROVE IsPrefix(ROOTFS, path)
  <2> DEFINE a == SubSeq(ROOTFS, 1, 2)
             b == SubSeq(path, 1, 2)
  <2>1. Len(path) \in Nat /\ 2 <= Len(path) /\ path[1] = "rootfs" /\ path[2] = "/"
    BY <1>3, LenProperties DEF Name, InRoot
  <2>2. /\ a \in Name /\ Len(a) = 2 /\ \A i \in 1 .. 2 : a[i] = ROOTFS[i]
    BY <1>1, <1>2, TakeIs DEF Name
  <2>3. /\ b \in Name /\ Len(b) = 2 /\ \A i \in 1 .. 2 : b[i] = path[i]
    BY <2>1, TakeIs DEF Name
  <2>4. a = b
    <3> HIDE DEF a, b
    <3>1. \A i \in 1 .. 2 : a[i] = b[i]
      <4>1. \A i \in 1 .. 2 : i = 1 \/ i = 2
        OBVIOUS
      <4>2. QED
        BY <1>1, <2>1, <2>2, <2>3, <4>1
    <3>2. QED
      BY <2>2, <2>3, <3>1, SeqEqual DEF Name
  <2>5. QED
    BY <1>1, <2>1, <2>4 DEF IsPrefix
<1>4. QED
  BY <1>1, <1>2, <1>3 DEF InRoot
-----------------------------------------------------------------------------
(* What the steps do to the tasks.                                         *)

Own == {"main", "prompt", "run", "cd", "show", "done"}

\* Only the task t changes.
Only(t) == DOMAIN task' = Tasks /\ \A u \in Tasks : u # t => task'[u] = task[u]

\* It goes on, and nothing the others depend on changes,
Goes(t) ==
  /\ Only(t)
  /\ task[t].pc \in Own /\ task'[t].pc \in Own
  /\ IsTask(task'[t])
  /\ task'[t].bg = task[t].bg /\ task'[t].parent = task[t].parent
  /\ task'[t].prog = task[t].prog
  /\ task'[t].child \in {task[t].child, Nobody} /\ task'[t].wait_pid = task[t].wait_pid

\* as a shell that stays one.
ShellGoes(t) ==
  /\ Goes(t)
  /\ task[t].pc \in {"prompt", "run", "cd"} /\ task'[t].pc \in {"prompt", "run", "cd"}
  /\ task'[t].PATH = task[t].PATH \/ task'[t].PATH = parsed(task[t].PATH)
  /\ task'[t].pc = "cd" /\ InRoot(cwd_shell) =>
       task'[t].path = <<"/">> \/ InRoot(task'[t].path)

\* What the exit of another task leaves of r, which is not what that one knows
\* of its family.
Alike(q, r) ==
  /\ DOMAIN q = Fields
  /\ q.prog = r.prog /\ q.args = r.args /\ q.script = r.script /\ q.path = r.path
  /\ q.PATH = r.PATH /\ q.child = r.child /\ q.bg = r.bg /\ q.jobs = r.jobs
  /\ q.at = r.at /\ q.out = r.out

Gone(q) == Alike(q, Free) /\ q.pc = "free" /\ q.parent = Nobody /\ q.wait_pid = Nobody

\* u is without x from now on,
Left(x, u) ==
  IF task[u].parent = x /\ task[u].pc = "zombie" THEN Gone(task'[u])
  ELSE /\ Alike(task'[u], task[u])
       /\ task'[u].pc = task[u].pc /\ task'[u].wait_pid = task[u].wait_pid
       /\ task'[u].parent = IF task[u].parent = x THEN Nobody ELSE task[u].parent

\* or was told that x has exited.
Told(x, u) ==
  /\ Alike(task'[u], task[u])
  /\ task'[u].pc = IF task[u].pc = "blocked" THEN "woken" ELSE task[u].pc
  /\ task'[u].wait_pid = IF task[u].child = x THEN x ELSE Nobody
  /\ task'[u].parent = IF task[u].parent = x THEN Nobody ELSE task[u].parent

\* t is over.
Ends(t) ==
  /\ DOMAIN task' = Tasks
  /\ task[t].pc \in Own
  /\ \A u \in Tasks : u # t => IF u = task[t].parent THEN Told(t, u) ELSE Left(t, u)
  /\ IF task[t].parent # Nobody /\ task[task[t].parent].child = t
     THEN /\ Alike(task'[t], Free) /\ task'[t].pc = "zombie"
          /\ task'[t].parent = task[t].parent /\ task'[t].wait_pid = Nobody
     ELSE Gone(task'[t])

\* t forks u and is going to wait for it, or goes on if it is a background job.
Forks(t, u) ==
  /\ DOMAIN task' = Tasks /\ \A v \in Tasks : v # t /\ v # u => task'[v] = task[v]
  /\ task[t].pc = "run" \/ (task[t].pc = "fork" /\ t = Init_task)
  /\ task[u].pc = "free" /\ u # t
  /\ IsTask(task'[u]) /\ task'[u].pc \in {"main", "show"} /\ task'[u].parent = t
  /\ task'[u].child = Nobody /\ task'[u].wait_pid = Nobody
  /\ IsTask(task'[t])
  /\ task'[u].pc = "main" <=> task'[u].prog = SBUSH
  /\ task[t].pc = "fork" => task'[u].pc = "main"
  /\ task'[u].pc = "show" /\ task'[u].at # <<>> =>
       Undisturbed(t) /\ ~task'[u].bg /\ task'[u].at = cwd_shell
  /\ task'[t].bg = task[t].bg /\ task'[t].parent = task[t].parent
  /\ task'[t].prog = task[t].prog /\ task'[t].wait_pid = task[t].wait_pid
  /\ task'[t].PATH = task[t].PATH \/ task'[t].PATH = parsed(task[t].PATH)
  /\ \/ /\ ~task'[u].bg /\ task'[t].pc = "forked" /\ task'[t].child = u
        /\ ~task'[t].jobs => \A v \in Tasks : task[v].parent # t
     \/ /\ task'[u].bg /\ task[t].pc = "run" /\ task'[t].pc \in {"prompt", "run"}
        /\ task'[t].child = Nobody
  /\ \/ task'[u].prog = SBUSH
     \/ /\ executeCmd(t)
        /\ task'[u].prog = search(cwd_shell, task[t].args[1], task[t].PATH)

\* t is blocked in waitpid.
Blocks(t) ==
  /\ Only(t)
  /\ task[t].pc = "forked" /\ task[t].wait_pid # task[t].child
  /\ Alike(task'[t], task[t]) /\ task'[t].pc = "blocked"
  /\ task'[t].parent = task[t].parent /\ task'[t].wait_pid = task[t].wait_pid

\* t returns from waitpid and makes x dead.
Returns(t, x) ==
  /\ DOMAIN task' = Tasks
  /\ task[t].child = x /\ x \in Tasks /\ x # t /\ Gone(task'[x])
  /\ task[t].pc = "woken" \/ (task[t].pc = "forked" /\ task[t].wait_pid = x)
  /\ \A v \in Tasks : v # t /\ v # x => Left(x, v)
  /\ IsTask(task'[t])
  /\ task'[t].pc \in (IF t = Init_task THEN {"fork"} ELSE {"prompt", "run"})
  /\ task'[t].child = Nobody /\ task'[t].wait_pid = Nobody
  /\ task'[t].bg = task[t].bg /\ task'[t].parent = task[t].parent
  /\ task'[t].PATH = task[t].PATH /\ task'[t].prog = task[t].prog
  /\ \E r : /\ IsTask(r) /\ r.pc = task[t].pc /\ r.script = task[t].script
           /\ IF t = Init_task THEN task'[t].script = r.script
              ELSE task'[t] = continued(r)

\* A program shows what it shows in the directory as it is.
ProgramShows(t) ==
  /\ Goes(t) /\ task[t].pc = "show" /\ task'[t].pc = "done" /\ cwd_shell' = cwd_shell
  /\ task'[t].at = task[t].at /\ task'[t].args = task[t].args
  /\ task'[t].out = shows(task[t].prog, cwd_shell, task[t].args)

LEMMA OnlyIs ==
  ASSUME TypeInv, NEW t \in Tasks, NEW q, task' = [task EXCEPT ![t] = q]
  PROVE  Only(t) /\ task'[t] = q
BY DEF TypeInv, Only

LEMMA MainIs ==
  ASSUME TypeInv, NEW t \in Tasks, main(t)
  PROVE  /\ Goes(t) /\ task[t].pc = "main" /\ task'[t].pc = "prompt"
         /\ task'[t].PATH = FULL_PATH
         /\ cwd_shell' = ROOTFS \o <<"bin", "/">>
<1>1. IsTask(task[t])
  BY DEF TypeInv
<1> DEFINE q == [task[t] EXCEPT !.pc = "prompt", !.PATH = FULL_PATH]
<1>2. task' = [task EXCEPT ![t] = q]
  BY <1>1 DEF main, TypeInv, IsTask
<1>3. /\ DOMAIN q = Fields /\ q.pc = "prompt" /\ q.args = task[t].args
      /\ q.script = task[t].script /\ q.path = task[t].path /\ q.PATH = FULL_PATH
      /\ q.child = task[t].child /\ q.parent = task[t].parent /\ q.bg = task[t].bg
      /\ q.wait_pid = task[t].wait_pid /\ q.jobs = task[t].jobs
      /\ q.prog = task[t].prog
  BY <1>1 DEF IsTask, Fields
<1> HIDE DEF q
<1>4. IsTask(q)
  BY <1>1, <1>3 DEF IsTask, Pcs
<1>5. Only(t) /\ task'[t] = q
  BY <1>2, OnlyIs
<1>6. QED
  BY <1>3, <1>4, <1>5 DEF main, Goes, Own

LEMMA ProgramMainIs ==
  ASSUME TypeInv, NEW t \in Tasks, program_main(t)
  PROVE  ProgramShows(t)
<1>1. IsTask(task[t])
  BY DEF TypeInv
<1> DEFINE out == shows(task[t].prog, cwd_shell, task[t].args)
           q == [task[t] EXCEPT !.pc = "done", !.out = out]
<1>2. task' = [task EXCEPT ![t] = q]
  <2>1. task' = [task EXCEPT ![t].pc = "done", ![t].out = out]
    BY DEF program_main
  <2> HIDE DEF out
  <2>2. QED
    BY <1>1, <2>1 DEF TypeInv, IsTask
<1>3. /\ DOMAIN q = Fields /\ q.pc = "done" /\ q.args = task[t].args
      /\ q.script = task[t].script /\ q.path = task[t].path /\ q.PATH = task[t].PATH
      /\ q.child = task[t].child /\ q.parent = task[t].parent /\ q.bg = task[t].bg
      /\ q.wait_pid = task[t].wait_pid /\ q.jobs = task[t].jobs
      /\ q.prog = task[t].prog /\ q.at = task[t].at /\ q.out = out
  BY <1>1 DEF IsTask, Fields
<1> HIDE DEF q
<1>4. IsTask(q)
  BY <1>1, <1>3 DEF IsTask, Pcs
<1>5. Only(t) /\ task'[t] = q
  BY <1>2, OnlyIs
<1>6. QED
  BY <1>3, <1>4, <1>5 DEF program_main, ProgramShows, Goes, Own

LEMMA GetsIs ==
  ASSUME TypeInv, NEW t \in Tasks, NEW line \in Lines, gets(t, line)
  PROVE  ShellGoes(t) /\ cwd_shell' = cwd_shell
<1>1. IsTask(task[t])
  BY DEF TypeInv
<1> DEFINE q == [task[t] EXCEPT !.pc = "run", !.args = line]
<1>2. task' = [task EXCEPT ![t] = q]
  BY <1>1 DEF gets, TypeInv, IsTask
<1>3. /\ DOMAIN q = Fields /\ q.pc = "run" /\ q.args = line
      /\ q.script = task[t].script /\ q.path = task[t].path /\ q.PATH = task[t].PATH
      /\ q.child = task[t].child /\ q.parent = task[t].parent /\ q.bg = task[t].bg
      /\ q.wait_pid = task[t].wait_pid /\ q.jobs = task[t].jobs
      /\ q.prog = task[t].prog
  BY <1>1 DEF IsTask, Fields
<1>4. line \in Line
  BY ShellAssumption, StringsAreNames
<1> HIDE DEF q
<1>5. IsTask(q)
  BY <1>1, <1>3, <1>4 DEF IsTask, Pcs
<1>6. Only(t) /\ task'[t] = q
  BY <1>2, OnlyIs
<1>7. QED
  BY <1>3, <1>5, <1>6 DEF gets, Goes, ShellGoes, Own

\* A shell that goes on with its next command.
LEMMA ShellGoesOn ==
  ASSUME TypeInv, NEW t \in Tasks, task[t].pc \in {"run", "cd"}, goes_on(t)
  PROVE  ShellGoes(t)
<1>1. IsTask(task[t])
  BY DEF TypeInv
<1> DEFINE q == continued(task[t])
<1>2. task' = [task EXCEPT ![t] = q]
  BY <1>1 DEF goes_on, TypeInv
<1>3. /\ IsTask(q) /\ q.pc \in {"prompt", "run"}
      /\ q.parent = task[t].parent /\ q.bg = task[t].bg /\ q.PATH = task[t].PATH
      /\ q.prog = task[t].prog /\ q.child = Nobody /\ q.wait_pid = task[t].wait_pid
  BY <1>1, ContinuedIs
<1> HIDE DEF q
<1>4. Only(t) /\ task'[t] = q
  BY <1>2, OnlyIs
<1>5. QED
  BY <1>3, <1>4 DEF Goes, ShellGoes, Own

LEMMA LineIs ==
  ASSUME NEW line \in Line
  PROVE  /\ param(line) # NoFile => param(line) \in Name
         /\ line # <<>> => line[1] \in Name
         /\ arguments(line) \in Line
<1>1. Len(line) \in Nat
  BY LenProperties DEF Line
<1>2. param(line) # NoFile => Len(line) > 1 /\ param(line) = line[2]
  BY DEF param
<1>3. Len(line) > 1 => line[2] \in Name
  BY <1>1, ElementOfSeq, StringsAreNames DEF Line, Name
<1>4. line # <<>> => Len(line) # 0
  BY EmptySeq DEF Line
<1>5. line # <<>> => line[1] \in Name
  BY <1>1, <1>4, ElementOfSeq, StringsAreNames DEF Line, Name
<1>6. arguments(line) \in Line
  <2>1. CASE line # <<>>
    <3>1. Len(line) - 1 \in Nat /\ Len(line) - 1 <= Len(line)
      BY <1>1, <1>4, <2>1
    <3>2. SubSeq(line, 1, Len(line) - 1) \in Line
      BY <3>1, TakeIs DEF Line
    <3>3. QED
      BY <3>2 DEF arguments
  <2>2. CASE line = <<>>
    BY <2>2 DEF arguments
  <2>3. QED
    BY <2>1, <2>2
<1>7. QED
  BY <1>2, <1>3, <1>5, <1>6

LEMMA CdCmdIs ==
  ASSUME TypeInv, NEW t \in Tasks, cd_cmd(t)
  PROVE  ShellGoes(t) /\ cwd_shell' = cwd_shell
<1>1. IsTask(task[t]) /\ task[t].pc = "run"
  BY DEF TypeInv, cd_cmd, runs
<1> DEFINE path == cd_path(cwd_shell, param(task[t].args))
           q == [task[t] EXCEPT !.pc = "cd", !.path = path]
<1>2. task' = [task EXCEPT ![t] = q]
  <2>1. task' = [task EXCEPT ![t].pc = "cd", ![t].path = path]
    BY DEF cd_cmd
  <2> HIDE DEF path
  <2>2. QED
    BY <1>1, <2>1 DEF TypeInv, IsTask
<1>3. path \in Name /\ (InRoot(cwd_shell) => path = <<"/">> \/ InRoot(path))
  <2>1. param(task[t].args) \in Name
    BY <1>1, LineIs DEF cd_cmd, IsTask
  <2>2. QED
    BY <2>1, CdPathIs DEF TypeInv
<1> HIDE DEF path
<1>4. /\ DOMAIN q = Fields /\ q.pc = "cd" /\ q.args = task[t].args
      /\ q.script = task[t].script /\ q.path = path /\ q.PATH = task[t].PATH
      /\ q.child = task[t].child /\ q.parent = task[t].parent /\ q.bg = task[t].bg
      /\ q.wait_pid = task[t].wait_pid /\ q.jobs = task[t].jobs
      /\ q.prog = task[t].prog
  BY <1>1 DEF IsTask, Fields
<1> HIDE DEF q
<1>5. IsTask(q)
  BY <1>1, <1>3, <1>4 DEF IsTask, Pcs
<1>6. Only(t) /\ task'[t] = q
  BY <1>2, OnlyIs
<1>7. QED
  BY <1>1, <1>3, <1>4, <1>5, <1>6 DEF cd_cmd, Goes, ShellGoes, Own

\* What opendir and set_cwd leave as the directory.
LEMMA CdSetIs ==
  ASSUME TypeInv, NEW t \in Tasks, cd_set(t)
  PROVE  /\ ShellGoes(t) /\ task[t].pc = "cd"
         /\ \/ cwd_shell' = cwd_shell
            \/ cwd_shell' = ROOTFS
            \/ /\ cwd_shell' = task[t].path
               /\ cut_rootfs(task[t].path) \in Directories
               /\ cut_rootfs(task[t].path) # <<>>
<1>1. task[t].pc = "cd" /\ goes_on(t)
  BY DEF cd_set
<1>2. ShellGoes(t)
  BY <1>1, ShellGoesOn
<1>3. cwd_shell' = IF task[t].path = ROOTFS \/ do_opendir(cut_rootfs(task[t].path)) # NoFile
                   THEN task[t].path ELSE cwd_shell
  BY DEF cd_set
<1>4. QED
  BY <1>1, <1>2, <1>3, OpendirIs

LEMMA ScriptIs ==
  ASSUME NEW file, file = NoFile \/ file \in Header
  PROVE  script_of(file) \in Seq(Line)
<1>1. <<>> \in Seq(Line)
  BY EmptySeq
<1>2. CASE file # NoFile /\ file.body # <<>> /\ Head(file.body) = << <<"#!">> >>
  <2>1. file.body \in Seq(Line)
    BY <1>2 DEF Header
  <2>2. Tail(file.body) \in Seq(Line)
    BY <1>2, <2>1, HeadTailProperties
  <2>3. QED
    BY <1>2, <2>2 DEF script_of
<1>3. CASE ~(file # NoFile /\ file.body # <<>> /\ Head(file.body) = << <<"#!">> >>)
  BY <1>1, <1>3 DEF script_of
<1>4. QED
  BY <1>2, <1>3

LEMMA ShCmdIs ==
  ASSUME TypeInv, NEW t \in Tasks, sh_cmd(t)
  PROVE  ShellGoes(t) /\ cwd_shell' = cwd_shell
<1>1. IsTask(task[t]) /\ task[t].pc = "run"
  BY DEF TypeInv, sh_cmd, runs
<1> DEFINE name == param(task[t].args)
           file == do_tarfs_open(cut_rootfs(cwd_shell) \o name)
           script == IF name = NoFile THEN <<>> ELSE script_of(file)
           stack == <<script>> \o unfinished(task[t].script)
           q == resumed(task[t], unfinished(stack))
<1>2. script \in Seq(Line)
  <2>1. file = NoFile \/ file \in Header
    BY OpenIs
  <2> HIDE DEF file, name
  <2>2. script_of(file) \in Seq(Line) /\ <<>> \in Seq(Line)
    BY <2>1, ScriptIs, EmptySeq
  <2>3. QED
    BY <2>2
<1>3. task' = [task EXCEPT ![t] = q]
  <2>1. task' = [task EXCEPT ![t] = resumed(task[t], unfinished(<<script>> \o unfinished(task[t].script)))]
    BY DEF sh_cmd, TypeInv
  <2>2. QED
    BY <2>1
<1> HIDE DEF script
<1>4. IsScript(stack)
  <2> DEFINE left == unfinished(task[t].script)
  <2>1. left \in Seq(Seq(Line)) /\ \A i \in 1 .. Len(left) : left[i] # <<>>
    BY <1>1, UnfinishedIs DEF IsTask
  <2> HIDE DEF left
  <2>2. /\ <<script>> \o left \in Seq(Seq(Line)) /\ Len(<<script>> \o left) = Len(left) + 1
        /\ \A i \in 2 .. Len(left) + 1 : (<<script>> \o left)[i] = left[i - 1]
    BY <1>2, <2>1, PushIs
  <2>3. \A i \in 2 .. Len(left) + 1 : i - 1 \in 1 .. Len(left)
    BY <2>1, LenProperties
  <2>4. QED
    BY <2>1, <2>2, <2>3 DEF IsScript, left
<1> HIDE DEF stack
<1>5. /\ unfinished(stack) \in Seq(Seq(Line))
      /\ \A i \in 1 .. Len(unfinished(stack)) : unfinished(stack)[i] # <<>>
  BY <1>4, UnfinishedIs
<1>6. /\ IsTask(q) /\ q.pc \in {"prompt", "run"}
      /\ q.parent = task[t].parent /\ q.bg = task[t].bg /\ q.PATH = task[t].PATH
      /\ q.prog = task[t].prog /\ q.child = Nobody /\ q.wait_pid = task[t].wait_pid
  BY <1>1, <1>5, ResumedIs
<1> HIDE DEF q
<1>7. Only(t) /\ task'[t] = q
  BY <1>3, OnlyIs
<1>8. QED
  BY <1>1, <1>6, <1>7 DEF sh_cmd, Goes, ShellGoes, Own

\* PATH after a search.
LEMMA PathAfter ==
  ASSUME NEW PATH, NEW cwd, NEW cmd
  PROVE  PATH_after(cwd, cmd, PATH) = PATH \/ PATH_after(cwd, cmd, PATH) = parsed(PATH)
BY DEF PATH_after

LEMMA NotFoundIs ==
  ASSUME TypeInv, NEW t \in Tasks, not_found(t)
  PROVE  ShellGoes(t) /\ cwd_shell' = cwd_shell
<1>1. IsTask(task[t]) /\ task[t].pc = "run"
  BY DEF TypeInv, not_found
<1> DEFINE c == continued(task[t])
           PATH == PATH_after(cwd_shell, task[t].args[1], c.PATH)
           q == [c EXCEPT !.PATH = PATH]
<1>2. /\ IsTask(c) /\ c.pc \in {"prompt", "run"}
      /\ c.parent = task[t].parent /\ c.bg = task[t].bg /\ c.PATH = task[t].PATH
      /\ c.prog = task[t].prog /\ c.child = Nobody /\ c.wait_pid = task[t].wait_pid
  BY <1>1, ContinuedIs
<1>3. task' = [task EXCEPT ![t] = q] /\ cwd_shell' = cwd_shell
  BY DEF not_found
<1>4. PATH = task[t].PATH \/ PATH = parsed(task[t].PATH)
  BY <1>2, PathAfter
<1> HIDE DEF c, PATH
<1>5. /\ DOMAIN q = Fields /\ q.pc = c.pc /\ q.args = c.args
      /\ q.script = c.script /\ q.path = c.path /\ q.PATH = PATH
      /\ q.child = c.child /\ q.parent = c.parent /\ q.bg = c.bg
      /\ q.wait_pid = c.wait_pid /\ q.jobs = c.jobs
      /\ q.prog = c.prog
  BY <1>2 DEF IsTask, Fields
<1> HIDE DEF q
<1>6. IsTask(q)
  BY <1>2, <1>5 DEF IsTask, Pcs
<1>7. Only(t) /\ task'[t] = q
  BY <1>3, OnlyIs
<1>8. QED
  BY <1>1, <1>2, <1>3, <1>4, <1>5, <1>6, <1>7 DEF Goes, ShellGoes, Own

\* The child of a fork; it is a background job if the line ends with "&".
LEMMA ChildIs ==
  ASSUME NEW t \in Tasks, NEW prog, NEW line \in Line
  PROVE  LET q == child_of(t, prog, line)
         IN /\ IsTask(q) /\ q.pc \in {"main", "show"} /\ q.parent = t
            /\ q.child = Nobody /\ q.wait_pid = Nobody
            /\ q.bg <=> (line # <<>> /\ isBgJob(line))
            /\ q.prog = prog /\ (q.pc = "main" <=> prog = SBUSH)
            /\ q.at # <<>> => Undisturbed(t) /\ ~q.bg /\ q.at = cwd_shell
<1> DEFINE bg == line # <<>> /\ line[Len(line)] = <<"&">>
           pc == IF prog = SBUSH THEN "main" ELSE "show"
           at == IF prog # SBUSH /\ ~bg /\ Undisturbed(t) THEN cwd_shell ELSE <<>>
           q  == [Free EXCEPT !.pc = pc, !.prog = prog, !.args = arguments(line),
                              !.parent = t, !.bg = bg, !.at = at]
<1>1. child_of(t, prog, line) = q
  BY DEF child_of
<1>2. bg \in BOOLEAN /\ bg = (line # <<>> /\ isBgJob(line))
  BY DEF isBgJob
<1>3. /\ pc \in {"main", "show"} /\ (pc = "main" <=> prog = SBUSH)
      /\ at # <<>> => Undisturbed(t) /\ ~bg /\ at = cwd_shell
  OBVIOUS
<1>4. arguments(line) \in Line
  BY LineIs
<1> HIDE DEF bg, pc, at
<1>5. /\ DOMAIN q = Fields /\ q.pc = pc /\ q.args = arguments(line)
      /\ q.script = Free.script /\ q.path = Free.path
      /\ q.child = Free.child /\ q.parent = t /\ q.bg = bg /\ q.prog = prog /\ q.at = at
      /\ q.wait_pid = Free.wait_pid /\ q.jobs = Free.jobs
  BY FreeIs DEF Fields
<1> HIDE DEF q
<1>6. IsTask(q)
  BY <1>2, <1>3, <1>4, <1>5, FreeIs DEF IsTask, Pcs
<1>7. QED
  BY <1>1, <1>2, <1>3, <1>5, <1>6, FreeIs

LEMMA ForkedIs ==
  ASSUME TypeInv, NEW t \in Tasks, NEW u \in Tasks
  PROVE  LET q == forked(t, u)
         IN /\ IsTask(q) /\ q.pc = "forked" /\ q.child = u /\ q.PATH = task[t].PATH
            /\ q.parent = task[t].parent /\ q.bg = task[t].bg /\ q.prog = task[t].prog
            /\ q.wait_pid = task[t].wait_pid
            /\ ~q.jobs => \A v \in Tasks : task[v].parent # t
<1>1. IsTask(task[t])
  BY DEF TypeInv
<1>2. <<>> \in Line
  BY EmptySeq DEF Line
<1> DEFINE jobs == children(t) # {}
           q == [task[t] EXCEPT !.pc = "forked", !.child = u, !.args = <<>>, !.jobs = jobs]
<1>3. jobs \in BOOLEAN /\ (~jobs => \A v \in Tasks : task[v].parent # t)
  BY DEF children
<1>4. forked(t, u) = q
  BY DEF forked
<1> HIDE DEF jobs
<1>5. /\ DOMAIN q = Fields /\ q.pc = "forked" /\ q.args = <<>>
      /\ q.script = task[t].script /\ q.path = task[t].path /\ q.PATH = task[t].PATH
      /\ q.child = u /\ q.parent = task[t].parent /\ q.bg = task[t].bg
      /\ q.prog = task[t].prog /\ q.wait_pid = task[t].wait_pid /\ q.jobs = jobs
  BY <1>1 DEF IsTask, Fields
<1> HIDE DEF q
<1>6. IsTask(q)
  BY <1>1, <1>2, <1>3, <1>5 DEF IsTask, Pcs, Waiting
<1>7. QED
  BY <1>3, <1>4, <1>5, <1>6

LEMMA InitForkIs ==
  ASSUME TypeInv, init_fork
  PROVE  /\ \E u \in Tasks : Forks(Init_task, u) /\ task'[u].pc = "main"
         /\ task[Init_task].pc = "fork" /\ cwd_shell' = cwd_shell
<1>1. Init_task \in Tasks
  BY NobodyIs
<1>2. PICK u \in free_task(SBUSH) :
        forks(Init_task, u, SBUSH, <<>>, forked(Init_task, u))
  BY DEF init_fork
<1>3. u \in Tasks /\ task[u].pc = "free" /\ task[Init_task].pc = "fork"
  BY <1>2 DEF free_task, init_fork
<1>4. <<>> \in Line
  BY EmptySeq DEF Line
<1> DEFINE q == child_of(Init_task, SBUSH, <<>>)
           r == forked(Init_task, u)
<1>5. /\ IsTask(q) /\ q.parent = Init_task /\ ~q.bg /\ q.prog = SBUSH
      /\ q.child = Nobody /\ q.wait_pid = Nobody
  BY <1>1, <1>4, ChildIs
<1>6. q.pc = "main"
  BY FreeIs DEF child_of, Fields
<1>7. /\ IsTask(r) /\ r.pc = "forked" /\ r.child = u /\ r.PATH = task[Init_task].PATH
      /\ r.parent = task[Init_task].parent /\ r.bg = task[Init_task].bg
      /\ r.prog = task[Init_task].prog /\ r.wait_pid = task[Init_task].wait_pid
      /\ ~r.jobs => \A v \in Tasks : task[v].parent # Init_task
  BY <1>1, <1>3, ForkedIs
<1>8. task' = [task EXCEPT ![u] = q, ![Init_task] = r]
  BY <1>2 DEF forks
<1> HIDE DEF q, r
<1>9. /\ DOMAIN task' = Tasks /\ task'[u] = q /\ task'[Init_task] = r /\ u # Init_task
      /\ \A v \in Tasks : v # Init_task /\ v # u => task'[v] = task[v]
  BY <1>1, <1>3, <1>8 DEF TypeInv
<1>10. Forks(Init_task, u)
  BY <1>3, <1>5, <1>6, <1>7, <1>9 DEF Forks
<1>11. QED
  BY <1>3, <1>6, <1>9, <1>10 DEF init_fork

LEMMA ExecuteCmdIs ==
  ASSUME TypeInv, NEW t \in Tasks, executeCmd(t)
  PROVE  /\ \E u \in Tasks :
              /\ Forks(t, u)
              /\ task'[u].prog = search(cwd_shell, task[t].args[1], task[t].PATH)
              /\ task'[u].pc = "main" => task'[u].prog = SBUSH
              /\ task'[t].prog = task[t].prog
         /\ search(cwd_shell, task[t].args[1], task[t].PATH) # NoFile
         /\ task[t].pc = "run" /\ task[t].args # <<>> /\ cwd_shell' = cwd_shell
<1> DEFINE line == task[t].args
           prog == search(cwd_shell, line[1], task[t].PATH)
           PATH == PATH_after(cwd_shell, line[1], task[t].PATH)
<1>1. IsTask(task[t]) /\ task[t].pc = "run" /\ line # <<>> /\ line \in Line
  BY DEF TypeInv, executeCmd, dies, IsTask
<1> DEFINE after(u) == [IF isBgJob(line) THEN continued(task[t]) ELSE forked(t, u)
                          EXCEPT !.PATH = PATH_after(cwd_shell, line[1], @)]
<1>2. PICK u \in free_task(prog) : forks(t, u, prog, line, after(u))
  BY DEF executeCmd
<1>3. u \in Tasks /\ task[u].pc = "free"
  BY <1>2 DEF free_task
<1> DEFINE q == child_of(t, prog, line)
           p == IF isBgJob(line) THEN continued(task[t]) ELSE forked(t, u)
           r == [p EXCEPT !.PATH = PATH]
<1>4. /\ IsTask(q) /\ q.pc \in {"main", "show"} /\ q.parent = t
      /\ q.child = Nobody /\ q.wait_pid = Nobody
      /\ q.bg <=> isBgJob(line)
      /\ q.prog = prog /\ (q.pc = "main" <=> prog = SBUSH)
      /\ q.at # <<>> => Undisturbed(t) /\ ~q.bg /\ q.at = cwd_shell
  <2> HIDE DEF prog
  <2>1. QED
    BY <1>1, ChildIs
<1>5. /\ IsTask(p) /\ p.PATH = task[t].PATH /\ p.prog = task[t].prog
      /\ p.parent = task[t].parent /\ p.bg = task[t].bg /\ p.wait_pid = task[t].wait_pid
      /\ isBgJob(line) => p.pc \in {"prompt", "run"} /\ p.child = Nobody
      /\ ~isBgJob(line) => /\ p.pc = "forked" /\ p.child = u
                           /\ ~p.jobs => \A v \in Tasks : task[v].parent # t
  <2>1. CASE isBgJob(line)
    <3>1. p = continued(task[t])
      BY <2>1
    <3>2. QED
      BY <1>1, <2>1, <3>1, ContinuedIs
  <2>2. CASE ~isBgJob(line)
    <3>1. p = forked(t, u)
      BY <2>2
    <3>2. QED
      BY <1>3, <2>2, <3>1, ForkedIs
  <2>3. QED
    BY <2>1, <2>2
<1>6. task' = [task EXCEPT ![u] = q, ![t] = r]
  <2>1. after(u) = r
    BY <1>5
  <2>2. QED
    BY <1>2, <2>1 DEF forks
<1>7. PATH = task[t].PATH \/ PATH = parsed(task[t].PATH)
  BY PathAfter
<1> HIDE DEF q, p, PATH, prog, line
<1>8. /\ DOMAIN r = Fields /\ r.pc = p.pc /\ r.args = p.args
      /\ r.script = p.script /\ r.path = p.path /\ r.PATH = PATH /\ r.prog = p.prog
      /\ r.child = p.child /\ r.parent = p.parent /\ r.bg = p.bg
      /\ r.wait_pid = p.wait_pid /\ r.jobs = p.jobs
  BY <1>5 DEF IsTask, Fields
<1> HIDE DEF r
<1>9. IsTask(r)
  BY <1>5, <1>8 DEF IsTask
<1>10. /\ DOMAIN task' = Tasks /\ task'[u] = q /\ task'[t] = r /\ u # t
       /\ \A v \in Tasks : v # t /\ v # u => task'[v] = task[v]
  BY <1>1, <1>3, <1>6 DEF TypeInv
<1>11. Forks(t, u)
  BY <1>1, <1>3, <1>4, <1>5, <1>7, <1>8, <1>9, <1>10 DEF Forks, prog, line
<1>12. prog # NoFile /\ cwd_shell' = cwd_shell
  BY DEF executeCmd, prog, line
<1>13. QED
  BY <1>1, <1>3, <1>4, <1>5, <1>8, <1>10, <1>11, <1>12 DEF prog, line

\* Of a task that is a record of its fields, what is left without another.
LEMMA WithoutIs ==
  ASSUME TypeInv, NEW x \in Tasks, NEW u \in Tasks, u # x
  PROVE  LET q == without(x, u)
         IN IF task[u].parent = x /\ task[u].pc = "zombie" THEN Gone(q)
            ELSE /\ Alike(q, task[u])
                 /\ q.pc = task[u].pc /\ q.wait_pid = task[u].wait_pid
                 /\ q.parent = IF task[u].parent = x THEN Nobody ELSE task[u].parent
<1>1. DOMAIN task[u] = Fields
  BY DEF TypeInv, IsTask
<1>2. CASE task[u].parent = x /\ task[u].pc = "zombie"
  <2>1. without(x, u) = Free
    BY <1>2 DEF without
  <2>2. QED
    BY <1>2, <2>1, FreeIs DEF Gone, Alike
<1>3. CASE task[u].parent = x /\ task[u].pc # "zombie"
  <2> DEFINE q == [task[u] EXCEPT !.parent = Nobody]
  <2>1. without(x, u) = q
    BY <1>3 DEF without
  <2>2. /\ DOMAIN q = Fields /\ q.pc = task[u].pc /\ q.prog = task[u].prog
        /\ q.args = task[u].args /\ q.script = task[u].script /\ q.path = task[u].path
        /\ q.PATH = task[u].PATH /\ q.child = task[u].child /\ q.bg = task[u].bg
        /\ q.jobs = task[u].jobs /\ q.at = task[u].at /\ q.out = task[u].out
        /\ q.wait_pid = task[u].wait_pid /\ q.parent = Nobody
    BY <1>1 DEF Fields
  <2> HIDE DEF q
  <2>3. QED
    BY <1>3, <2>1, <2>2 DEF Alike
<1>4. CASE task[u].parent # x
  <2>1. without(x, u) = task[u]
    BY <1>4 DEF without
  <2>2. QED
    BY <1>1, <1>4, <2>1 DEF Alike
<1>5. QED
  BY <1>2, <1>3, <1>4

LEMMA ToldIs ==
  ASSUME NEW r, DOMAIN r = Fields, NEW t
  PROVE  LET q == told(r, t)
         IN /\ Alike(q, r) /\ q.parent = r.parent
            /\ q.pc = IF r.pc = "blocked" THEN "woken" ELSE r.pc
            /\ q.wait_pid = IF r.child = t THEN t ELSE Nobody
<1> DEFINE pc == IF r.pc = "blocked" THEN "woken" ELSE r.pc
           wait_pid == IF r.child = t THEN t ELSE Nobody
           q == [r EXCEPT !.wait_pid = wait_pid, !.pc = pc]
<1>1. told(r, t) = q
  BY DEF told
<1> HIDE DEF pc, wait_pid
<1>2. /\ DOMAIN q = Fields /\ q.pc = pc /\ q.prog = r.prog
      /\ q.args = r.args /\ q.script = r.script /\ q.path = r.path
      /\ q.PATH = r.PATH /\ q.child = r.child /\ q.bg = r.bg
      /\ q.jobs = r.jobs /\ q.at = r.at /\ q.out = r.out
      /\ q.wait_pid = wait_pid /\ q.parent = r.parent
  BY DEF Fields
<1> HIDE DEF q
<1>3. QED
  BY <1>1, <1>2 DEF Alike, pc, wait_pid

LEMMA AlikeTask ==
  ASSUME NEW r, IsTask(r), NEW q, Alike(q, r), q.pc \in Pcs,
         q.parent \in Tasks \cup {Nobody}, q.wait_pid \in Tasks \cup {Nobody}
  PROVE  IsTask(q)
BY DEF Alike, IsTask

LEMMA GoneTask ==
  ASSUME NEW q, Gone(q)
  PROVE  IsTask(q) /\ q.prog = <<>> /\ q.pc = "free" /\ ~q.bg /\ q.child = Nobody
BY FreeIs, AlikeTask DEF Gone, Alike, Pcs

LEMMA LeftTask ==
  ASSUME TypeInv, NEW x, NEW u \in Tasks, Left(x, u) \/ (x \in Tasks /\ Told(x, u))
  PROVE  IsTask(task'[u])
<1>1. IsTask(task[u])
  BY DEF TypeInv
<1>2. CASE Gone(task'[u])
  BY <1>2, GoneTask
<1>3. CASE ~Gone(task'[u])
  <2>1. /\ Alike(task'[u], task[u]) /\ task'[u].pc \in Pcs
        /\ task'[u].parent \in Tasks \cup {Nobody}
        /\ task'[u].wait_pid \in Tasks \cup {Nobody}
    BY <1>1, <1>3 DEF Left, Told, IsTask, Pcs, Waiting
  <2>2. QED
    BY <1>1, <2>1, AlikeTask
<1>4. QED
  BY <1>2, <1>3

LEMMA OverIs ==
  ASSUME TypeInv, ForegroundInv, NEW t \in Tasks, over(t), task[t].pc \in Own
  PROVE  Ends(t)
<1> DEFINE p == task[t].parent
           awaited == \E u \in parent_of(t) : task[u].child = t
           e == [Free EXCEPT !.pc = "zombie", !.parent = p]
           s == IF awaited THEN e ELSE Free
<1>1. p \in Tasks \cup {Nobody} /\ parent_of(t) = {u \in Tasks : u = p}
  BY DEF TypeInv, IsTask, parent_of
<1>2. awaited <=> p # Nobody /\ task[p].child = t
  BY <1>1, NobodyIs
<1>3. /\ DOMAIN task' = Tasks /\ task'[t] = s
      /\ \A u \in Tasks : u # t =>
           task'[u] = IF u = p THEN told(without(t, u), t) ELSE without(t, u)
  BY <1>1 DEF over
<1>4. Alike(e, Free) /\ e.pc = "zombie" /\ e.parent = p /\ e.wait_pid = Nobody
  <2>1. /\ DOMAIN e = Fields /\ e.pc = "zombie" /\ e.prog = Free.prog
        /\ e.args = Free.args /\ e.script = Free.script /\ e.path = Free.path
        /\ e.PATH = Free.PATH /\ e.child = Free.child /\ e.bg = Free.bg
        /\ e.jobs = Free.jobs /\ e.at = Free.at /\ e.out = Free.out
        /\ e.wait_pid = Free.wait_pid /\ e.parent = p
    BY FreeIs DEF Fields
  <2> HIDE DEF e
  <2>2. QED
    BY <2>1, FreeIs DEF Alike
<1>5. Gone(Free)
  BY FreeIs DEF Gone, Alike
<1>6. IF p # Nobody /\ task[p].child = t
      THEN /\ Alike(task'[t], Free) /\ task'[t].pc = "zombie"
           /\ task'[t].parent = p /\ task'[t].wait_pid = Nobody
      ELSE Gone(task'[t])
  <2> HIDE DEF e, awaited
  <2>1. QED
    BY <1>2, <1>3, <1>4, <1>5
<1> HIDE DEF e, awaited, s
<1>7. ASSUME NEW u \in Tasks, u # t, u # p PROVE Left(t, u)
  BY <1>3, <1>7, WithoutIs DEF Left
<1>8. ASSUME NEW u \in Tasks, u # t, u = p PROVE Told(t, u)
  <2>1. task[u].pc # "zombie"
    BY <1>8, NobodyIs DEF ForegroundInv, LiveParents
  <2> DEFINE w == without(t, u)
  <2>2. /\ Alike(w, task[u]) /\ w.pc = task[u].pc
        /\ w.parent = IF task[u].parent = t THEN Nobody ELSE task[u].parent
    BY <1>8, <2>1, WithoutIs
  <2>3. task'[u] = told(w, t)
    BY <1>3, <1>8
  <2> HIDE DEF w
  <2>4. DOMAIN w = Fields /\ w.child = task[u].child
    BY <2>2 DEF Alike
  <2>5. /\ Alike(task'[u], w) /\ task'[u].parent = w.parent
        /\ task'[u].pc = IF w.pc = "blocked" THEN "woken" ELSE w.pc
        /\ task'[u].wait_pid = IF w.child = t THEN t ELSE Nobody
    BY <2>3, <2>4, ToldIs
  <2>6. Alike(task'[u], task[u])
    BY <2>2, <2>5 DEF Alike
  <2>7. QED
    BY <2>2, <2>4, <2>5, <2>6 DEF Told
<1>9. QED
  BY <1>3, <1>6, <1>7, <1>8 DEF Ends

\* A waitpid that ends, whether it was blocked or not.
LEMMA ReapsIs ==
  ASSUME TypeInv, ForegroundInv, NEW t \in Tasks, reaps(t),
         task[t].pc = "woken" \/ (task[t].pc = "forked" /\ task[t].wait_pid = task[t].child)
  PROVE  Returns(t, task[t].child)
<1> DEFINE x == task[t].child
           w == without(x, t)
           r == [w EXCEPT !.wait_pid = Nobody]
           after == IF t = Init_task THEN [r EXCEPT !.pc = "fork", !.child = Nobody]
                    ELSE continued(r)
<1>1. IsTask(task[t]) /\ task[t].pc \in Waiting /\ x \in Tasks /\ x # t
  <2>1. IsTask(task[t]) /\ Waits(t) /\ x \in Tasks \cup {Nobody} /\ x # Nobody
    BY DEF TypeInv, IsTask, Waits, Waiting, ForegroundInv, WaitsForOwn
  <2>2. task[x].parent = t /\ t # Nobody
    BY <2>1, NobodyIs DEF ForegroundInv, WaitsForOwn
  <2>3. x # t
    BY <2>1, <2>2 DEF ForegroundInv, NoCircle
  <2>4. QED
    BY <2>1, <2>3 DEF Waits
\* t is not a child of the child it waits for.
<1>2. task[t].parent # x
  <2> SUFFICES ASSUME task[t].parent = x PROVE FALSE
    OBVIOUS
  <2>1. x # Nobody /\ task[x].parent = t /\ ~task[x].bg /\ t # Nobody
    BY <1>1, NobodyIs DEF ForegroundInv, WaitsForOwn, Waits
  <2>2. QED
    BY <1>1, <2>1 DEF ForegroundInv, NoCircle
<1>3. w = task[t]
  BY <1>1, <1>2 DEF without
<1>4. /\ DOMAIN task' = Tasks /\ task'[t] = after
      /\ \A v \in Tasks : v # t => task'[v] = without(x, v)
  BY DEF reaps
<1> HIDE DEF w
<1>5. /\ IsTask(r) /\ r.wait_pid = Nobody /\ r.PATH = task[t].PATH /\ r.prog = task[t].prog
      /\ r.parent = task[t].parent /\ r.bg = task[t].bg
      /\ r.pc = task[t].pc /\ r.script = task[t].script
  <2>1. /\ DOMAIN r = Fields /\ r.pc = task[t].pc /\ r.args = task[t].args
        /\ r.script = task[t].script /\ r.path = task[t].path /\ r.PATH = task[t].PATH
        /\ r.child = task[t].child /\ r.parent = task[t].parent /\ r.bg = task[t].bg
        /\ r.prog = task[t].prog /\ r.wait_pid = Nobody /\ r.jobs = task[t].jobs
    BY <1>1, <1>3 DEF IsTask, Fields
  <2> HIDE DEF r
  <2>2. QED
    BY <1>1, <2>1 DEF IsTask
<1> HIDE DEF r
<1>6. /\ IsTask(after) /\ after.PATH = task[t].PATH
      /\ after.parent = task[t].parent /\ after.bg = task[t].bg /\ after.prog = task[t].prog
      /\ after.child = Nobody /\ after.wait_pid = Nobody
      /\ after.pc \in (IF t = Init_task THEN {"fork"} ELSE {"prompt", "run"})
      /\ IF t = Init_task THEN after.script = r.script ELSE after = continued(r)
  <2>1. CASE t = Init_task
    <3> DEFINE f == [r EXCEPT !.pc = "fork", !.child = Nobody]
    <3>1. /\ DOMAIN f = Fields /\ f.pc = "fork" /\ f.args = r.args
          /\ f.script = r.script /\ f.path = r.path /\ f.PATH = r.PATH
          /\ f.child = Nobody /\ f.parent = r.parent /\ f.bg = r.bg
          /\ f.prog = r.prog /\ f.wait_pid = r.wait_pid /\ f.jobs = r.jobs
      BY <1>5 DEF IsTask, Fields
    <3>2. after = f
      BY <2>1
    <3> HIDE DEF f, after
    <3>3. IsTask(f)
      BY <1>5, <3>1 DEF IsTask, Pcs
    <3>4. QED
      BY <1>5, <2>1, <3>1, <3>2, <3>3
  <2>2. CASE t # Init_task
    <3>1. after = continued(r)
      BY <2>2
    <3> HIDE DEF after
    <3>2. QED
      BY <1>5, <2>2, <3>1, ContinuedIs
  <2>3. QED
    BY <2>1, <2>2
<1> HIDE DEF after
<1>7. Gone(task'[x])
  <2>1. task'[x] = Free
    BY <1>1, <1>4 DEF without
  <2>2. QED
    BY <2>1, FreeIs DEF Gone, Alike
<1>8. ASSUME NEW v \in Tasks, v # t, v # x PROVE Left(x, v)
  BY <1>1, <1>4, <1>8, WithoutIs DEF Left
<1>9. QED
  BY <1>1, <1>4, <1>5, <1>6, <1>7, <1>8 DEF Returns, Waiting

\* A step of the system, by what it does to the tasks and to the directory.
ShellBegins(t) ==
  /\ Goes(t) /\ task[t].pc = "main" /\ task'[t].pc = "prompt"
  /\ task'[t].PATH = FULL_PATH
  /\ cwd_shell' = ROOTFS \o <<"bin", "/">>

ShellActs(t) ==
  /\ ShellGoes(t)
  /\ \/ cwd_shell' = cwd_shell
     \/ cwd_shell' = ROOTFS /\ task[t].pc \in {"run", "cd"}
     \/ /\ task[t].pc = "cd" /\ cwd_shell' = task[t].path
        /\ cut_rootfs(task[t].path) \in Directories
        /\ cut_rootfs(task[t].path) # <<>>

TaskEnds(t) == Ends(t) /\ cwd_shell' = cwd_shell

TaskForks(t) == (\E u \in Tasks : Forks(t, u)) /\ cwd_shell' = cwd_shell

TaskBlocks(t) == Blocks(t) /\ cwd_shell' = cwd_shell

TaskReturns(t) == Returns(t, task[t].child) /\ cwd_shell' = cwd_shell

Step(t) ==
  \/ ShellBegins(t) \/ ProgramShows(t) \/ ShellActs(t)
  \/ TaskEnds(t) \/ TaskForks(t) \/ TaskBlocks(t) \/ TaskReturns(t)

LEMMA WaitpidIs ==
  ASSUME TypeInv, ForegroundInv, NEW t \in Tasks, waitpid(t) \/ waitpid_return(t)
  PROVE  TaskBlocks(t) \/ TaskReturns(t)
<1>1. CASE waitpid_return(t)
  BY <1>1, ReapsIs DEF waitpid_return, TaskReturns
<1>2. CASE waitpid(t) /\ task[t].wait_pid = task[t].child
  BY <1>2, ReapsIs DEF waitpid, TaskReturns
<1>3. CASE waitpid(t) /\ task[t].wait_pid # task[t].child
  <2> DEFINE q == [task[t] EXCEPT !.pc = "blocked"]
  <2>1. IsTask(task[t]) /\ task[t].pc = "forked" /\ cwd_shell' = cwd_shell
    BY <1>3 DEF TypeInv, waitpid
  <2>2. task' = [task EXCEPT ![t] = q]
    BY <1>3 DEF waitpid
  <2>3. /\ DOMAIN q = Fields /\ q.pc = "blocked" /\ q.prog = task[t].prog
        /\ q.args = task[t].args /\ q.script = task[t].script /\ q.path = task[t].path
        /\ q.PATH = task[t].PATH /\ q.child = task[t].child /\ q.bg = task[t].bg
        /\ q.jobs = task[t].jobs /\ q.at = task[t].at /\ q.out = task[t].out
        /\ q.wait_pid = task[t].wait_pid /\ q.parent = task[t].parent
    BY <2>1 DEF IsTask, Fields
  <2> HIDE DEF q
  <2>4. Only(t) /\ task'[t] = q
    BY <2>2, OnlyIs
  <2>5. QED
    BY <1>3, <2>1, <2>3, <2>4 DEF TaskBlocks, Blocks, Alike
<1>4. QED
  BY <1>1, <1>2, <1>3

LEMMA StepIs ==
  ASSUME TypeInv, ForegroundInv, Next
  PROVE  \E t \in Tasks : Step(t)
<1>1. CASE init_fork
  <2>1. Init_task \in Tasks
    BY NobodyIs
  <2>2. TaskForks(Init_task)
    BY <1>1, InitForkIs DEF TaskForks
  <2>3. QED
    BY <2>1, <2>2 DEF Step
<1>2. CASE \E t \in Tasks, line \in Lines : gets(t, line)
  BY <1>2, GetsIs DEF ShellActs, Step
<1>3. ASSUME NEW t \in Tasks, runs_on(t)
      PROVE  Step(t)
  <2>1. CASE main(t)
    BY <2>1, MainIs DEF ShellBegins, Step
  <2>2. CASE illegal_access(t) \/ exit_cmd(t) \/ program_exit(t)
    <3>1. over(t) /\ task[t].pc \in Own /\ cwd_shell' = cwd_shell
      BY <2>2 DEF illegal_access, exit_cmd, program_exit, runs, Own
    <3>2. QED
      BY <3>1, OverIs DEF TaskEnds, Step
  <2>3. CASE quiet_cmd(t)
    <3>1. task[t].pc = "run" /\ goes_on(t) /\ cwd_shell' = cwd_shell
      BY <2>3 DEF quiet_cmd, runs
    <3>2. QED
      BY <3>1, ShellGoesOn DEF ShellActs, Step
  <2>4. CASE cd_root(t)
    <3>1. task[t].pc = "run" /\ goes_on(t) /\ cwd_shell' = ROOTFS
      BY <2>4 DEF cd_root, runs
    <3>2. QED
      BY <3>1, ShellGoesOn DEF ShellActs, Step
  <2>5. CASE cd_cmd(t)
    BY <2>5, CdCmdIs DEF ShellActs, Step
  <2>6. CASE cd_set(t)
    BY <2>6, CdSetIs DEF ShellActs, Step
  <2>7. CASE sh_cmd(t)
    BY <2>7, ShCmdIs DEF ShellActs, Step
  <2>8. CASE not_found(t)
    BY <2>8, NotFoundIs DEF ShellActs, Step
  <2>9. CASE executeCmd(t)
    BY <2>9, ExecuteCmdIs DEF TaskForks, Step
  <2>10. CASE waitpid(t) \/ waitpid_return(t)
    BY <2>10, WaitpidIs DEF Step
  <2>11. CASE program_main(t)
    BY <2>11, ProgramMainIs DEF ProgramShows, Step
  <2>12. QED
    BY <1>3, <2>1, <2>2, <2>3, <2>4, <2>5, <2>6, <2>7, <2>8, <2>9, <2>10, <2>11
       DEF runs_on
<1>4. QED
  BY <1>1, <1>2, <1>3 DEF Next

LEMMA InitIs ==
  ASSUME Init
  PROVE  /\ cwd_shell = <<>> /\ DOMAIN task = Tasks
         /\ \A t \in Tasks :
              /\ IsTask(task[t]) /\ Alike(task[t], Free)
              /\ task[t].pc = IF t = Init_task THEN "fork" ELSE "free"
              /\ task[t].parent = Nobody /\ task[t].wait_pid = Nobody
<1> DEFINE q == [Free EXCEPT !.pc = "fork"]
<1>1. /\ DOMAIN q = Fields /\ q.pc = "fork" /\ q.prog = Free.prog
      /\ q.args = Free.args /\ q.script = Free.script /\ q.path = Free.path
      /\ q.PATH = Free.PATH /\ q.child = Free.child /\ q.bg = Free.bg
      /\ q.jobs = Free.jobs /\ q.at = Free.at /\ q.out = Free.out
      /\ q.wait_pid = Nobody /\ q.parent = Nobody
  BY FreeIs DEF Fields
<1>2. /\ cwd_shell = <<>> /\ DOMAIN task = Tasks
      /\ \A t \in Tasks : task[t] = IF t = Init_task THEN q ELSE Free
  BY DEF Init
<1> HIDE DEF q
<1>3. Alike(q, Free) /\ Alike(Free, Free)
  BY <1>1, FreeIs DEF Alike
<1>4. IsTask(q)
  BY <1>1, <1>3, FreeIs, AlikeTask DEF Pcs
<1>5. QED
  BY <1>1, <1>2, <1>3, <1>4, FreeIs

LEMMA TypeInit ==
  ASSUME Init PROVE TypeInv
<1>1. cwd_shell \in Name
  BY InitIs, EmptySeq DEF Name
<1>2. QED
  BY <1>1, InitIs DEF TypeInv

LEMMA BinIs == ROOTFS \o <<"bin", "/">> \in Name
<1>1. <<"bin", "/">> \in Name
  BY DEF Name, Word
<1>2. QED
  BY <1>1, RootIs, ConcatIs DEF Name

LEMMA TypeStep ==
  ASSUME TypeInv, ForegroundInv, [Next]_vars PROVE TypeInv'
<1>1. CASE UNCHANGED vars
  BY <1>1 DEF vars, TypeInv
<1>2. CASE Next
  <2>1. PICK t \in Tasks : Step(t)
    BY <1>2, StepIs
  <2>2. IsTask(task[t]) /\ \A u \in Tasks : IsTask(task[u])
    BY DEF TypeInv
  <2>3. cwd_shell' \in Name
    <3>1. cwd_shell \in Name /\ task[t].path \in Name
      BY <2>2 DEF TypeInv, IsTask
    <3>2. QED
      BY <2>1, <3>1, BinIs, RootIs
         DEF Step, ShellBegins, ProgramShows, ShellActs, TaskEnds, TaskForks, TaskBlocks,
             TaskReturns
  <2>4. CASE Only(t) /\ IsTask(task'[t])
    BY <2>2, <2>3, <2>4 DEF Only, TypeInv
  <2>5. CASE TaskForks(t)
    BY <2>2, <2>3, <2>5 DEF TaskForks, Forks, TypeInv
  <2>6. CASE TaskReturns(t)
    <3> DEFINE x == task[t].child
    <3>1. Returns(t, x)
      BY <2>6 DEF TaskReturns
    <3> HIDE DEF x
    <3>2. ASSUME NEW u \in Tasks PROVE IsTask(task'[u])
      <4>1. CASE u = t
        BY <3>1, <4>1 DEF Returns
      <4>2. CASE u = x
        BY <3>1, <4>2, GoneTask DEF Returns
      <4>3. CASE u # t /\ u # x
        BY <3>1, <4>3, LeftTask DEF Returns
      <4>4. QED
        BY <4>1, <4>2, <4>3
    <3>3. QED
      BY <2>3, <3>1, <3>2 DEF Returns, TypeInv
  <2>7. CASE TaskEnds(t)
    <3>1. ASSUME NEW u \in Tasks PROVE IsTask(task'[u])
      <4>1. CASE u = t /\ Gone(task'[t])
        BY <4>1, GoneTask
      <4>2. CASE u = t /\ ~Gone(task'[t])
        <5>1. /\ Alike(task'[t], Free) /\ task'[t].pc = "zombie"
              /\ task'[t].parent = task[t].parent /\ task'[t].wait_pid = Nobody
          BY <2>7, <4>2 DEF TaskEnds, Ends
        <5>2. QED
          BY <2>2, <4>2, <5>1, FreeIs, AlikeTask DEF IsTask, Pcs
      <4>3. CASE u # t
        BY <2>7, <4>3, LeftTask DEF TaskEnds, Ends
      <4>4. QED
        BY <4>1, <4>2, <4>3
    <3>2. QED
      BY <2>3, <2>7, <3>1 DEF TaskEnds, Ends, TypeInv
  <2>8. CASE TaskBlocks(t)
    <3>1. IsTask(task'[t])
      BY <2>2, <2>8, AlikeTask DEF TaskBlocks, Blocks, IsTask, Pcs, Waiting
    <3>2. QED
      BY <2>4, <2>8, <3>1 DEF TaskBlocks, Blocks
  <2>9. QED
    BY <2>1, <2>4, <2>5, <2>6, <2>7, <2>8
       DEF Step, ShellBegins, ProgramShows, ShellActs, ShellGoes, Goes
<1>3. QED
  BY <1>1, <1>2

\* What a step of t does to another task: nothing to what that one is doing,
\* unless it wakes, frees or forks it.
LEMMA OthersAre ==
  ASSUME TypeInv, ForegroundInv, NEW t \in Tasks, Step(t), NEW u \in Tasks, u # t
  PROVE  \/ /\ Alike(task'[u], task[u])
            /\ \/ task'[u].pc = task[u].pc
               \/ task[u].pc = "blocked" /\ task'[u].pc = "woken"
         \/ Gone(task'[u])
         \/ Forks(t, u) /\ TaskForks(t)
<1>1. CASE task'[u] = task[u]
  BY <1>1 DEF TypeInv, IsTask, Alike
<1>2. CASE TaskForks(t)
  BY <1>1, <1>2 DEF TaskForks, Forks
<1>3. CASE TaskEnds(t)
  BY <1>3 DEF TaskEnds, Ends, Told, Left
<1>4. CASE TaskReturns(t)
  BY <1>4 DEF TaskReturns, Returns, Left
<1>5. CASE ShellBegins(t) \/ ProgramShows(t) \/ ShellActs(t) \/ TaskBlocks(t)
  BY <1>1, <1>5
     DEF ShellBegins, ProgramShows, ShellActs, ShellGoes, Goes, Only, TaskBlocks, Blocks
<1>6. QED
  BY <1>2, <1>3, <1>4, <1>5 DEF Step

-----------------------------------------------------------------------------
(* A shell waits for its foreground task.                                  *)

LEMMA RefsIs ==
  ASSUME TypeInv, NEW t \in Tasks
  PROVE  /\ task[t].parent \in Tasks \cup {Nobody} /\ task[t].child \in Tasks \cup {Nobody}
         /\ task[t].wait_pid \in Tasks \cup {Nobody}
         /\ task[t].bg \in BOOLEAN /\ task[t].pc \in Pcs /\ IsTask(task[t])
BY DEF TypeInv, IsTask

LEMMA ForegroundInit ==
  ASSUME Init PROVE ForegroundInv
<1>1. \A t \in Tasks :
        /\ task[t].pc = IF t = Init_task THEN "fork" ELSE "free"
        /\ task[t].parent = Nobody /\ task[t].wait_pid = Nobody
        /\ task[t].child = Nobody /\ task[t].bg = FALSE
  BY InitIs, FreeIs DEF Alike
<1>2. QED
  BY <1>1, NobodyIs DEF ForegroundInv, InitWaits, LiveParents, NoCircle, Awaited, Zombies,
     WaitsForOwn, Noted, OnlyChild, ForegroundIsAwaited, Waits, Waiting

LEMMA ForegroundGoes ==
  ASSUME TypeInv, ForegroundInv, NEW t \in Tasks, Goes(t)
  PROVE  ForegroundInv'
<1>1. /\ \A u \in Tasks : u # t => task'[u] = task[u]
      /\ task[t].pc \in Own /\ task'[t].pc \in Own
      /\ task'[t].bg = task[t].bg /\ task'[t].parent = task[t].parent
      /\ task'[t].wait_pid = task[t].wait_pid /\ task[t].child = Nobody
      /\ task'[t].child = Nobody
  BY DEF Goes, Only, Own, ForegroundInv, WaitsForOwn, Waits, Waiting
<1>2. /\ \A u \in Tasks : /\ task'[u].bg = task[u].bg /\ task'[u].parent = task[u].parent
                          /\ task'[u].wait_pid = task[u].wait_pid
                          /\ task'[u].child = task[u].child
                          /\ Waits(u)' <=> Waits(u)
                          /\ task'[u].pc = "free" <=> task[u].pc = "free"
                          /\ task'[u].pc = "zombie" <=> task[u].pc = "zombie"
                          /\ task'[u].pc = "fork" <=> task[u].pc = "fork"
      /\ \A u \in Tasks : Waits(u) => task'[u] = task[u]
  BY <1>1 DEF Own, Waits, Waiting
<1> HIDE DEF Waits
<1>3. \A u \in Tasks : /\ task[u].parent \in Tasks \cup {Nobody}
                       /\ task[u].child \in Tasks \cup {Nobody}
  BY RefsIs
<1>4. InitWaits'
  BY <1>2 DEF ForegroundInv, InitWaits, Waits
<1>5. LiveParents' /\ NoCircle'
  <2>1. LiveParents'
    BY <1>2, <1>3 DEF ForegroundInv, LiveParents
  <2>2. NoCircle'
    BY <1>2 DEF ForegroundInv, NoCircle
  <2>3. QED
    BY <2>1, <2>2
<1>6. Awaited' /\ Zombies'
  BY <1>2, <1>3 DEF ForegroundInv, Awaited, Zombies
<1>7. WaitsForOwn'
  BY <1>2, <1>3 DEF ForegroundInv, WaitsForOwn
<1>8. Noted'
  <2> SUFFICES ASSUME NEW u \in Tasks, task'[u].wait_pid # Nobody
               PROVE  task'[u].wait_pid = task'[u].child /\ task'[task'[u].child].pc = "zombie"
    BY DEF Noted
  <2>1. task[u].wait_pid = task[u].child /\ task[task[u].child].pc = "zombie"
    BY <1>2 DEF ForegroundInv, Noted
  <2>2. task[u].child \in Tasks
    BY <1>2, <1>3, <2>1
  <2>3. QED
    BY <1>2, <2>1, <2>2
<1>9. OnlyChild'
  BY <1>2 DEF ForegroundInv, OnlyChild
<1>10. ForegroundIsAwaited'
  <2> SUFFICES ASSUME NEW u \in Tasks, ~task'[u].jobs
               PROVE  LET ended == task'[task'[u].child].pc = "zombie"
                      IN /\ task'[u].pc = "forked"  => (task'[u].wait_pid = task'[u].child <=> ended)
                         /\ task'[u].pc = "blocked" => ~ended
                         /\ task'[u].pc = "woken"   => ended
    BY DEF ForegroundIsAwaited
  <2>1. CASE ~Waits(u)
    BY <1>2, <2>1 DEF Waits, Waiting
  <2>2. CASE Waits(u)
    <3>1. task'[u] = task[u] /\ task[u].child \in Tasks
      BY <1>2, <1>3, <2>2 DEF ForegroundInv, WaitsForOwn
    <3>2. task'[task[u].child].pc = "zombie" <=> task[task[u].child].pc = "zombie"
      BY <1>2, <3>1
    <3>3. QED
      BY <3>1, <3>2 DEF ForegroundInv, ForegroundIsAwaited
  <2>3. QED
    BY <2>1, <2>2
<1>11. QED
  BY <1>4, <1>5, <1>6, <1>7, <1>8, <1>9, <1>10 DEF ForegroundInv

LEMMA ForegroundForks ==
  ASSUME TypeInv, ForegroundInv, NEW t \in Tasks, NEW u \in Tasks, Forks(t, u)
  PROVE  ForegroundInv'
<1>1. /\ \A v \in Tasks : v # t /\ v # u => task'[v] = task[v]
      /\ task[t].pc \in {"fork", "run"} /\ task[u].pc = "free" /\ u # t
      /\ task'[u].pc \in {"main", "show"} /\ task'[u].parent = t
      /\ task'[u].child = Nobody /\ task'[u].wait_pid = Nobody
      /\ task'[t].bg = task[t].bg /\ task'[t].parent = task[t].parent
      /\ task'[t].wait_pid = task[t].wait_pid
      /\ \/ /\ ~task'[u].bg /\ task'[t].pc = "forked" /\ task'[t].child = u
            /\ ~task'[t].jobs => \A v \in Tasks : task[v].parent # t
         \/ /\ task'[u].bg /\ task[t].pc = "run" /\ task'[t].pc \in {"prompt", "run"}
            /\ task'[t].child = Nobody
  BY DEF Forks
<1>2. /\ u # Init_task /\ ~Waits(t) /\ ~Waits(u) /\ (task[t].pc = "run" => t # Init_task)
      /\ task[t].child = Nobody /\ task[u].child = Nobody /\ task[u].parent = Nobody
      /\ task[t].wait_pid = Nobody /\ ~Waits(u)'
  BY <1>1, RefsIs, NobodyIs
     DEF ForegroundInv, InitWaits, WaitsForOwn, LiveParents, Noted, Waits, Waiting
\* Nobody has u for a parent or waits for it; nobody waits for t but a parent.
<1>3. \A v \in Tasks : task[v].parent # u /\ (Waits(v) => task[v].child # u)
  <2>1. \A v \in Tasks : task[v].parent # u
    BY <1>1, NobodyIs DEF ForegroundInv, LiveParents
  <2>2. \A v \in Tasks : Waits(v) => task[v].child # u
    BY <1>2, NobodyIs DEF ForegroundInv, WaitsForOwn
  <2>3. QED
    BY <2>1, <2>2
<1>4. /\ \A v \in Tasks : v # u => task'[v].parent = task[v].parent /\ task'[v].bg = task[v].bg
      /\ \A v \in Tasks : v # t /\ v # u => (Waits(v)' <=> Waits(v))
      /\ \A v \in Tasks : Waits(v) => task'[v] = task[v] /\ v # t /\ v # u
      /\ \A v \in Tasks : v # u => (task'[v].pc = "zombie" <=> task[v].pc = "zombie")
      /\ \A v \in Tasks : task'[v].pc = "free" => task[v].pc = "free" /\ v # u /\ v # t
  BY <1>1, <1>2 DEF Waits
<1>5. \A v \in Tasks : /\ task[v].parent \in Tasks \cup {Nobody}
                       /\ task[v].child \in Tasks \cup {Nobody}
  BY RefsIs
<1>6. InitWaits'
  BY <1>1, <1>2 DEF ForegroundInv, InitWaits, Waiting
<1>7. LiveParents'
  <2> SUFFICES ASSUME NEW v \in Tasks, task'[v].parent # Nobody
               PROVE  task'[v].pc # "free" /\ task'[task'[v].parent].pc \notin {"free", "zombie"}
    BY DEF LiveParents
  <2>1. CASE v = u
    BY <1>1, <2>1
  <2>2. CASE v # u
    <3>1. /\ task'[v].parent = task[v].parent /\ task[v].pc # "free"
          /\ task[task[v].parent].pc \notin {"free", "zombie"} /\ task[v].parent \in Tasks
      BY <1>4, <1>5, <2>2 DEF ForegroundInv, LiveParents
    <3>2. QED
      BY <1>1, <1>4, <2>2, <3>1
  <2>3. QED
    BY <2>1, <2>2
<1>8. NoCircle'
  BY <1>1, <1>2, <1>3, <1>4 DEF ForegroundInv, NoCircle
<1>9. Awaited'
  <2> SUFFICES ASSUME NEW v \in Tasks, ~task'[v].bg, task'[v].parent # Nobody
               PROVE  task'[task'[v].parent].pc \in Waiting /\ task'[task'[v].parent].child = v
    BY DEF Awaited, Waits
  <2>1. CASE v = u
    BY <1>1, <2>1 DEF Waits, Waiting
  <2>2. CASE v # u
    <3>1. /\ Waits(task[v].parent) /\ task[task[v].parent].child = v
          /\ task[v].parent \in Tasks /\ task'[v].parent = task[v].parent
      BY <1>4, <1>5, <2>2 DEF ForegroundInv, Awaited
    <3>2. task'[task[v].parent] = task[task[v].parent]
      BY <1>4, <3>1
    <3>3. QED
      BY <3>1, <3>2 DEF Waits
  <2>3. QED
    BY <2>1, <2>2
<1>10. Zombies'
  BY <1>1, <1>4 DEF ForegroundInv, Zombies
<1>11. WaitsForOwn'
  <2> SUFFICES ASSUME NEW v \in Tasks
               PROVE  IF Waits(v)' THEN /\ task'[v].child # Nobody
                                        /\ task'[task'[v].child].parent = v
                                        /\ ~task'[task'[v].child].bg
                      ELSE task'[v].child = Nobody
    BY DEF WaitsForOwn, Waits
  <2>1. CASE v = u
    BY <1>1, <1>2, <2>1
  <2>2. CASE v = t
    BY <1>1, <2>2, NobodyIs DEF Waits, Waiting
  <2>3. CASE v # t /\ v # u
    <3>1. task'[v] = task[v] /\ (Waits(v)' <=> Waits(v))
      BY <1>1, <1>4, <2>3
    <3>2. CASE Waits(v)
      <4>1. /\ task[v].child \in Tasks /\ task[v].child # u /\ task[v].child # Nobody
            /\ task[task[v].child].parent = v /\ ~task[task[v].child].bg
        BY <1>3, <1>5, <3>2 DEF ForegroundInv, WaitsForOwn
      <4>2. QED
        BY <1>4, <3>1, <3>2, <4>1
    <3>3. CASE ~Waits(v)
      BY <3>1, <3>3 DEF ForegroundInv, WaitsForOwn
    <3>4. QED
      BY <3>2, <3>3
  <2>4. QED
    BY <2>1, <2>2, <2>3
<1>12. Noted'
  <2> SUFFICES ASSUME NEW v \in Tasks, task'[v].wait_pid # Nobody
               PROVE  task'[v].wait_pid = task'[v].child /\ task'[task'[v].child].pc = "zombie"
    BY DEF Noted
  <2>1. v # t /\ v # u /\ task'[v] = task[v]
    BY <1>1, <1>2
  <2>2. /\ task[v].wait_pid = task[v].child /\ task[task[v].child].pc = "zombie"
        /\ task[v].child \in Tasks
    BY <1>5, <2>1 DEF ForegroundInv, Noted
  <2>3. QED
    BY <1>1, <1>4, <2>1, <2>2
<1>13. OnlyChild'
  <2> SUFFICES ASSUME NEW v \in Tasks, NEW w \in Tasks, Waits(v)', ~task'[v].jobs,
                      task'[w].parent = v
               PROVE  task'[v].child = w
    BY DEF OnlyChild, Waits
  <2>1. CASE v = t
    <3>1. ~task'[u].bg /\ task'[t].child = u /\ \A x \in Tasks : task[x].parent # t
      BY <1>1, <2>1 DEF Waits, Waiting
    <3>2. w = u
      BY <1>4, <2>1, <3>1
    <3>3. QED
      BY <2>1, <3>1, <3>2
  <2>2. CASE v # t
    <3>1. v # u /\ w # u
      BY <1>1, <1>2, <2>2
    <3>2. task'[v] = task[v] /\ Waits(v) /\ task[w].parent = v
      BY <1>1, <1>4, <2>2, <3>1
    <3>3. QED
      BY <3>2 DEF ForegroundInv, OnlyChild
  <2>3. QED
    BY <2>1, <2>2
<1>14. ForegroundIsAwaited'
  <2> SUFFICES ASSUME NEW v \in Tasks, ~task'[v].jobs
               PROVE  LET ended == task'[task'[v].child].pc = "zombie"
                      IN /\ task'[v].pc = "forked"  => (task'[v].wait_pid = task'[v].child <=> ended)
                         /\ task'[v].pc = "blocked" => ~ended
                         /\ task'[v].pc = "woken"   => ended
    BY DEF ForegroundIsAwaited
  <2>1. CASE v = u
    BY <1>1, <2>1
  <2>2. CASE v = t
    BY <1>1, <1>2, <2>2, NobodyIs
  <2>3. CASE v # t /\ v # u /\ ~Waits(v)
    BY <1>4, <2>3 DEF Waits, Waiting
  <2>4. CASE Waits(v)
    <3>1. /\ task'[v] = task[v] /\ task[v].child \in Tasks /\ task[v].child # u
      BY <1>3, <1>4, <1>5, <2>4 DEF ForegroundInv, WaitsForOwn
    <3>2. task'[task[v].child].pc = "zombie" <=> task[task[v].child].pc = "zombie"
      BY <1>4, <3>1
    <3>3. QED
      BY <3>1, <3>2 DEF ForegroundInv, ForegroundIsAwaited
  <2>5. QED
    BY <2>1, <2>2, <2>3, <2>4
<1>15. QED
  BY <1>6, <1>7, <1>8, <1>9, <1>10, <1>11, <1>12, <1>13, <1>14 DEF ForegroundInv

LEMMA ForegroundBlocks ==
  ASSUME TypeInv, ForegroundInv, NEW t \in Tasks, Blocks(t)
  PROVE  ForegroundInv'
<1>1. /\ \A u \in Tasks : u # t => task'[u] = task[u]
      /\ task[t].pc = "forked" /\ task'[t].pc = "blocked" /\ task[t].wait_pid # task[t].child
      /\ task'[t].parent = task[t].parent /\ task'[t].wait_pid = task[t].wait_pid
      /\ task'[t].bg = task[t].bg /\ task'[t].child = task[t].child
      /\ task'[t].jobs = task[t].jobs
  BY DEF Blocks, Only, Alike
<1>2. \A u \in Tasks : /\ task'[u].bg = task[u].bg /\ task'[u].parent = task[u].parent
                       /\ task'[u].wait_pid = task[u].wait_pid
                       /\ task'[u].child = task[u].child /\ task'[u].jobs = task[u].jobs
                       /\ Waits(u)' <=> Waits(u)
                       /\ task'[u].pc = "zombie" <=> task[u].pc = "zombie"
                       /\ task'[u].pc = "free" <=> task[u].pc = "free"
  BY <1>1 DEF Waits, Waiting
<1>3. \A u \in Tasks : /\ task[u].parent \in Tasks \cup {Nobody}
                       /\ task[u].child \in Tasks \cup {Nobody}
  BY RefsIs
<1>4. InitWaits'
  BY <1>1 DEF ForegroundInv, InitWaits, Waiting
<1>5. LiveParents' /\ NoCircle'
  <2>1. LiveParents'
    BY <1>2, <1>3 DEF ForegroundInv, LiveParents
  <2>2. NoCircle'
    BY <1>2 DEF ForegroundInv, NoCircle
  <2>3. QED
    BY <2>1, <2>2
<1>6. Awaited' /\ Zombies'
  BY <1>2, <1>3 DEF ForegroundInv, Awaited, Zombies
<1>7. WaitsForOwn'
  BY <1>2, <1>3 DEF ForegroundInv, WaitsForOwn
<1>8. Noted'
  <2> SUFFICES ASSUME NEW u \in Tasks, task'[u].wait_pid # Nobody
               PROVE  task'[u].wait_pid = task'[u].child /\ task'[task'[u].child].pc = "zombie"
    BY DEF Noted
  <2>1. task[u].wait_pid = task[u].child /\ task[task[u].child].pc = "zombie"
    BY <1>2 DEF ForegroundInv, Noted
  <2>2. task[u].child \in Tasks
    BY <1>2, <1>3, <2>1
  <2>3. QED
    BY <1>2, <2>1, <2>2
<1>9. OnlyChild'
  BY <1>2 DEF ForegroundInv, OnlyChild
<1>10. ForegroundIsAwaited'
  <2> SUFFICES ASSUME NEW u \in Tasks, ~task'[u].jobs
               PROVE  LET ended == task'[task'[u].child].pc = "zombie"
                      IN /\ task'[u].pc = "forked"  => (task'[u].wait_pid = task'[u].child <=> ended)
                         /\ task'[u].pc = "blocked" => ~ended
                         /\ task'[u].pc = "woken"   => ended
    BY DEF ForegroundIsAwaited
  <2>1. CASE ~Waits(u)
    BY <1>2, <2>1 DEF Waits, Waiting
  <2>2. CASE Waits(u)
    <3>1. task[u].child \in Tasks
      BY <1>3, <2>2 DEF ForegroundInv, WaitsForOwn
    <3>2. task'[task'[u].child].pc = "zombie" <=> task[task[u].child].pc = "zombie"
      BY <1>2, <3>1
    <3>3. task[u].pc \in Waiting /\ ~task[u].jobs
      BY <1>2, <2>2 DEF Waits
    <3>4. QED
      BY <1>1, <1>2, <3>2, <3>3 DEF ForegroundInv, ForegroundIsAwaited
  <2>3. QED
    BY <2>1, <2>2
<1>11. QED
  BY <1>4, <1>5, <1>6, <1>7, <1>8, <1>9, <1>10 DEF ForegroundInv

\* The exit of t.  It leaves no zombie behind: it waits for nobody.
LEMMA ForegroundEnds ==
  ASSUME TypeInv, ForegroundInv, NEW t \in Tasks, Ends(t)
  PROVE  ForegroundInv'
<1> DEFINE p == task[t].parent
           awaited == p # Nobody /\ task[p].child = t
<1>1. \A u \in Tasks : /\ task[u].parent \in Tasks \cup {Nobody}
                       /\ task[u].child \in Tasks \cup {Nobody} /\ u # Nobody
  BY RefsIs, NobodyIs
<1>2. /\ task[t].pc \in Own /\ ~Waits(t) /\ task[t].child = Nobody /\ t # Init_task
      /\ p # t
  BY <1>1 DEF Ends, Own, ForegroundInv, WaitsForOwn, InitWaits, NoCircle, Waits, Waiting
<1>3. \A u \in Tasks : task[u].parent = t => task[u].pc # "zombie"
  BY <1>1, <1>2 DEF ForegroundInv, Zombies, Awaited
<1>4. ASSUME NEW u \in Tasks, u # t
      PROVE  /\ task'[u].bg = task[u].bg /\ task'[u].child = task[u].child
             /\ task'[u].jobs = task[u].jobs
             /\ task'[u].parent = IF task[u].parent = t THEN Nobody ELSE task[u].parent
             /\ task'[u].pc = IF u = p /\ task[u].pc = "blocked" THEN "woken" ELSE task[u].pc
             /\ task'[u].wait_pid = IF u # p THEN task[u].wait_pid
                                    ELSE IF task[u].child = t THEN t ELSE Nobody
  BY <1>3, <1>4 DEF Ends, Told, Left, Alike
<1>5. /\ task'[t].bg = FALSE /\ task'[t].child = Nobody /\ task'[t].wait_pid = Nobody
      /\ IF awaited THEN task'[t].pc = "zombie" /\ task'[t].parent = p
         ELSE task'[t].pc = "free" /\ task'[t].parent = Nobody
  BY FreeIs DEF Ends, Gone, Alike
<1>6. \A u \in Tasks : task[u].child = t => u = p /\ Waits(u) /\ awaited
  BY <1>1 DEF ForegroundInv, WaitsForOwn
<1>7. /\ \A u \in Tasks : u # t => /\ Waits(u)' <=> Waits(u)
                                   /\ task'[u].pc = "zombie" <=> task[u].pc = "zombie"
                                   /\ task'[u].pc = "free" <=> task[u].pc = "free"
                                   /\ task'[u].pc = "fork" <=> task[u].pc = "fork"
      /\ ~Waits(t)'
  BY <1>4, <1>5 DEF Waits, Waiting
<1>8. \A u \in Tasks : task'[u].parent = task[u].parent \/ task'[u].parent = Nobody
  BY <1>4, <1>5
<1> HIDE DEF awaited
<1>9. InitWaits'
  BY <1>1, <1>2, <1>4, <1>7 DEF ForegroundInv, InitWaits, Waits
<1>10. LiveParents'
  <2> SUFFICES ASSUME NEW v \in Tasks, task'[v].parent # Nobody
               PROVE  task'[v].pc # "free" /\ task'[task'[v].parent].pc \notin {"free", "zombie"}
    BY DEF LiveParents
  <2>1. /\ task'[v].parent = task[v].parent /\ task[v].parent \in Tasks
        /\ task[v].pc # "free" /\ task[task[v].parent].pc \notin {"free", "zombie"}
    BY <1>1, <1>8 DEF ForegroundInv, LiveParents
  <2>2. task[v].parent # t /\ task'[v].pc # "free"
    BY <1>1, <1>2, <1>4, <1>5, <1>7, <2>1
  <2>3. QED
    BY <1>7, <2>1, <2>2
<1>11. NoCircle'
  BY <1>1, <1>8 DEF ForegroundInv, NoCircle
<1>12. Awaited'
  <2> SUFFICES ASSUME NEW v \in Tasks, ~task'[v].bg, task'[v].parent # Nobody
               PROVE  task'[task'[v].parent].pc \in Waiting /\ task'[task'[v].parent].child = v
    BY DEF Awaited, Waits
  <2>1. task'[v].parent = task[v].parent /\ task[v].parent \in Tasks
    BY <1>1, <1>8
  <2>2. CASE v = t
    <3>1. awaited /\ task[p].child = t /\ p \in Tasks
      BY <1>5, <2>1, <2>2 DEF awaited
    <3>2. QED
      BY <1>2, <1>4, <1>6, <1>7, <2>1, <2>2, <3>1 DEF Waits
  <2>3. CASE v # t
    <3>1. /\ Waits(task[v].parent) /\ task[task[v].parent].child = v /\ task[v].parent # t
      BY <1>2, <1>4, <2>1, <2>3 DEF ForegroundInv, Awaited
    <3>2. QED
      BY <1>4, <1>7, <2>1, <3>1 DEF Waits
  <2>4. QED
    BY <2>2, <2>3
<1>13. Zombies'
  <2> SUFFICES ASSUME NEW v \in Tasks, task'[v].pc = "zombie"
               PROVE  ~task'[v].bg /\ task'[v].parent # Nobody
    BY DEF Zombies
  <2>1. CASE v = t
    BY <1>5, <2>1 DEF awaited
  <2>2. CASE v # t
    BY <1>3, <1>4, <1>7, <2>2 DEF ForegroundInv, Zombies
  <2>3. QED
    BY <2>1, <2>2
<1>14. WaitsForOwn'
  <2> SUFFICES ASSUME NEW v \in Tasks
               PROVE  IF Waits(v)' THEN /\ task'[v].child # Nobody
                                        /\ task'[task'[v].child].parent = v
                                        /\ ~task'[task'[v].child].bg
                      ELSE task'[v].child = Nobody
    BY DEF WaitsForOwn, Waits
  <2>1. CASE v = t
    BY <1>5, <1>7, <2>1
  <2>2. CASE v # t /\ ~Waits(v)
    BY <1>4, <1>7, <2>2 DEF ForegroundInv, WaitsForOwn
  <2>3. CASE v # t /\ Waits(v)
    <3>1. /\ task[v].child \in Tasks /\ task[v].child # Nobody
          /\ task[task[v].child].parent = v /\ ~task[task[v].child].bg
          /\ task'[v].child = task[v].child
      BY <1>1, <1>4, <2>3 DEF ForegroundInv, WaitsForOwn
    <3>2. CASE task[v].child = t
      BY <1>5, <1>6, <1>7, <2>3, <3>1, <3>2
    <3>3. CASE task[v].child # t
      BY <1>4, <1>7, <2>3, <3>1, <3>3
    <3>4. QED
      BY <3>2, <3>3
  <2>4. QED
    BY <2>1, <2>2, <2>3
<1>15. Noted'
  <2> SUFFICES ASSUME NEW v \in Tasks, task'[v].wait_pid # Nobody
               PROVE  task'[v].wait_pid = task'[v].child /\ task'[task'[v].child].pc = "zombie"
    BY DEF Noted
  <2>1. v # t
    BY <1>5
  <2>2. CASE v = p
    <3>1. task[v].child = t /\ task'[v].wait_pid = t /\ task'[v].child = t
      BY <1>4, <2>1, <2>2
    <3>2. QED
      BY <1>5, <1>6, <3>1
  <2>3. CASE v # p
    <3>1. /\ task'[v].wait_pid = task[v].wait_pid /\ task'[v].child = task[v].child
          /\ task[v].wait_pid = task[v].child /\ task[task[v].child].pc = "zombie"
          /\ task[v].child \in Tasks /\ task[v].child # t
      BY <1>1, <1>4, <1>6, <2>1, <2>3 DEF ForegroundInv, Noted
    <3>2. QED
      BY <1>7, <3>1
  <2>4. QED
    BY <2>2, <2>3
<1>16. OnlyChild'
  <2> SUFFICES ASSUME NEW v \in Tasks, NEW w \in Tasks, Waits(v)', ~task'[v].jobs,
                      task'[w].parent = v
               PROVE  task'[v].child = w
    BY DEF OnlyChild, Waits
  <2>1. /\ v # t /\ Waits(v) /\ ~task[v].jobs /\ task[w].parent = v
        /\ task'[v].child = task[v].child
    BY <1>1, <1>4, <1>7, <1>8
  <2>2. QED
    BY <2>1 DEF ForegroundInv, OnlyChild
\* Who has no job and is not the parent of t does not notice; the parent has
\* no other child than t.
<1>17. ForegroundIsAwaited'
  <2> SUFFICES ASSUME NEW v \in Tasks, ~task'[v].jobs, Waits(v)'
               PROVE  LET ended == task'[task'[v].child].pc = "zombie"
                      IN /\ task'[v].pc = "forked"  => (task'[v].wait_pid = task'[v].child <=> ended)
                         /\ task'[v].pc = "blocked" => ~ended
                         /\ task'[v].pc = "woken"   => ended
    BY DEF ForegroundIsAwaited, Waits, Waiting
  <2>1. /\ v # t /\ Waits(v) /\ ~task[v].jobs /\ task'[v].child = task[v].child
        /\ task[v].child \in Tasks
    BY <1>1, <1>4, <1>7 DEF ForegroundInv, WaitsForOwn
  <2>2. CASE v = p
    <3>1. task[v].child = t
      BY <2>1, <2>2 DEF ForegroundInv, OnlyChild
    <3>2. /\ task'[t].pc = "zombie" /\ task'[v].wait_pid = t
          /\ task'[v].pc # "blocked"
      BY <1>4, <1>5, <1>6, <2>1, <2>2, <3>1
    <3>3. QED
      BY <2>1, <3>1, <3>2
  <2>3. CASE v # p
    <3>1. task[v].child # t
      BY <1>6, <2>3
    <3>2. task'[task[v].child].pc = "zombie" <=> task[task[v].child].pc = "zombie"
      BY <1>7, <2>1, <3>1
    <3>3. task'[v].pc = task[v].pc /\ task'[v].wait_pid = task[v].wait_pid
      BY <1>4, <2>1, <2>3
    <3>4. QED
      BY <2>1, <3>2, <3>3 DEF ForegroundInv, ForegroundIsAwaited
  <2>4. QED
    BY <2>2, <2>3
<1>18. QED
  BY <1>9, <1>10, <1>11, <1>12, <1>13, <1>14, <1>15, <1>16, <1>17 DEF ForegroundInv

\* The end of a wait for x, which a job of t may have ended while x runs on:
\* then x is made dead with all it was waiting for itself.
LEMMA ForegroundReturns ==
  ASSUME TypeInv, ForegroundInv, NEW t \in Tasks, NEW x \in Tasks, Returns(t, x)
  PROVE  ForegroundInv'
<1>1. \A u \in Tasks : /\ task[u].parent \in Tasks \cup {Nobody}
                       /\ task[u].child \in Tasks \cup {Nobody} /\ u # Nobody
  BY RefsIs, NobodyIs
<1>2. /\ Waits(t) /\ task[t].child = x /\ x # t /\ task[x].parent = t /\ x # Init_task
      /\ task[t].parent # x /\ task[t].parent # t /\ task[t].pc # "zombie"
  BY <1>1 DEF Returns, Waits, Waiting, ForegroundInv, WaitsForOwn, InitWaits, NoCircle
<1>3. /\ task'[x].bg = FALSE /\ task'[x].child = Nobody /\ task'[x].wait_pid = Nobody
      /\ task'[x].pc = "free" /\ task'[x].parent = Nobody
  BY FreeIs DEF Returns, Gone, Alike
<1>4. /\ task'[t].pc \in (IF t = Init_task THEN {"fork"} ELSE {"prompt", "run"})
      /\ task'[t].child = Nobody /\ task'[t].wait_pid = Nobody
      /\ task'[t].bg = task[t].bg /\ task'[t].parent = task[t].parent
  BY DEF Returns
<1> DEFINE gone(u) == task[u].parent = x /\ task[u].pc = "zombie"
<1>5. ASSUME NEW u \in Tasks, u # t, u # x, gone(u)
      PROVE  /\ task'[u].bg = FALSE /\ task'[u].child = Nobody /\ task'[u].wait_pid = Nobody
             /\ task'[u].pc = "free" /\ task'[u].parent = Nobody
  BY <1>5, FreeIs DEF Returns, Left, Gone, Alike
<1>6. ASSUME NEW u \in Tasks, u # t, u # x, ~gone(u)
      PROVE  /\ task'[u].bg = task[u].bg /\ task'[u].child = task[u].child
             /\ task'[u].jobs = task[u].jobs /\ task'[u].pc = task[u].pc
             /\ task'[u].wait_pid = task[u].wait_pid
             /\ task'[u].parent = IF task[u].parent = x THEN Nobody ELSE task[u].parent
  BY <1>6 DEF Returns, Left, Alike
<1>7. \A u \in Tasks :
        /\ task'[u].parent # Nobody => /\ u # x /\ task'[u].parent = task[u].parent
                                       /\ task[u].parent \in Tasks /\ task[u].parent # x
                                       /\ task'[u].bg = task[u].bg
        /\ task'[u].pc \in {"zombie", "blocked", "forked", "woken"} =>
             u # t /\ u # x /\ ~gone(u)
  BY <1>1, <1>2, <1>3, <1>4, <1>5, <1>6
<1>8. \A u \in Tasks : task[u].pc \notin {"free", "zombie"} /\ u # x =>
        task'[u].pc \notin {"free", "zombie"} /\ (u # t => ~gone(u))
  BY <1>4, <1>6
<1> HIDE DEF gone
<1>9. InitWaits'
  <2> SUFFICES ASSUME Init_task \in Tasks
               PROVE  /\ task'[Init_task].pc \in {"fork"} \cup Waiting
                      /\ task'[Init_task].parent = Nobody
    BY DEF InitWaits
  <2>1. task[Init_task].pc \in {"fork"} \cup Waiting /\ task[Init_task].parent = Nobody
    BY DEF ForegroundInv, InitWaits
  <2>2. QED
    BY <1>1, <1>2, <1>4, <1>6, <1>8, <2>1 DEF Waiting
<1>10. LiveParents'
  <2> SUFFICES ASSUME NEW v \in Tasks, task'[v].parent # Nobody
               PROVE  task'[v].pc # "free" /\ task'[task'[v].parent].pc \notin {"free", "zombie"}
    BY DEF LiveParents
  <2>1. /\ task'[v].parent = task[v].parent /\ task[v].parent \in Tasks /\ task[v].parent # x
        /\ task[v].pc # "free" /\ task[task[v].parent].pc \notin {"free", "zombie"} /\ v # x
    BY <1>7 DEF ForegroundInv, LiveParents
  <2>2. task'[v].pc # "free"
    BY <1>4, <1>5, <1>6, <2>1
  <2>3. QED
    BY <1>8, <2>1, <2>2
<1>11. NoCircle'
  BY <1>1, <1>7 DEF ForegroundInv, NoCircle
<1>12. Awaited'
  <2> SUFFICES ASSUME NEW v \in Tasks, ~task'[v].bg, task'[v].parent # Nobody
               PROVE  task'[task'[v].parent].pc \in Waiting /\ task'[task'[v].parent].child = v
    BY DEF Awaited, Waits
  <2> DEFINE q == task[v].parent
  <2>1. /\ task'[v].parent = q /\ q \in Tasks /\ q # x /\ v # x
        /\ Waits(q) /\ task[q].child = v
    BY <1>1, <1>7 DEF ForegroundInv, Awaited
  <2>2. q # t /\ task[q].pc \notin {"free", "zombie"}
    BY <1>2, <2>1 DEF Waits, Waiting
  <2>3. task'[q].pc = task[q].pc /\ task'[q].child = v
    BY <1>6, <1>8, <2>1, <2>2
  <2>4. QED
    BY <2>1, <2>3 DEF Waits
<1>13. Zombies'
  <2> SUFFICES ASSUME NEW v \in Tasks, task'[v].pc = "zombie"
               PROVE  ~task'[v].bg /\ task'[v].parent # Nobody
    BY DEF Zombies
  <2>1. v # t /\ v # x /\ ~gone(v) /\ task[v].pc = "zombie"
    BY <1>6, <1>7
  <2>2. task[v].parent # x
    BY <2>1 DEF gone
  <2>3. QED
    BY <1>6, <2>1, <2>2 DEF ForegroundInv, Zombies
\* Who else waits, waits for what was left as it is.
<1>14. ASSUME NEW v \in Tasks, Waits(v)'
       PROVE  LET c == task[v].child
              IN /\ v # t /\ v # x /\ Waits(v) /\ task'[v].pc = task[v].pc
                 /\ task'[v].child = c /\ task'[v].jobs = task[v].jobs
                 /\ task'[v].wait_pid = task[v].wait_pid
                 /\ c \in Tasks /\ c # Nobody /\ c # x /\ task'[c].parent = v
                 /\ task'[c].bg = task[c].bg /\ ~task[c].bg
                 /\ task'[c].pc = "zombie" <=> task[c].pc = "zombie"
  <2> DEFINE c == task[v].child
  <2>1. /\ v # t /\ v # x /\ ~gone(v)
    BY <1>7, <1>14 DEF Waits, Waiting
  <2>2. /\ task'[v].pc = task[v].pc /\ task'[v].child = c /\ task'[v].jobs = task[v].jobs
        /\ task'[v].wait_pid = task[v].wait_pid /\ Waits(v)
    BY <1>6, <1>14, <2>1 DEF Waits
  <2>3. c \in Tasks /\ c # Nobody /\ task[c].parent = v /\ ~task[c].bg /\ c # x
    BY <1>1, <1>2, <2>1, <2>2 DEF ForegroundInv, WaitsForOwn
  <2>4. ~gone(c)
    BY <2>1, <2>3 DEF gone
  <2>5. CASE c = t
    BY <1>2, <1>4, <2>1, <2>2, <2>3, <2>5
  <2>6. CASE c # t
    BY <1>6, <2>1, <2>2, <2>3, <2>4, <2>6
  <2>7. QED
    BY <2>5, <2>6
<1>15. WaitsForOwn'
  <2> SUFFICES ASSUME NEW v \in Tasks
               PROVE  IF Waits(v)' THEN /\ task'[v].child # Nobody
                                        /\ task'[task'[v].child].parent = v
                                        /\ ~task'[task'[v].child].bg
                      ELSE task'[v].child = Nobody
    BY DEF WaitsForOwn, Waits
  <2>1. CASE Waits(v)'
    BY <1>14, <2>1
  <2>2. CASE ~Waits(v)' /\ v # t /\ v # x /\ ~gone(v)
    <3>1. ~Waits(v)
      BY <1>6, <2>2 DEF Waits
    <3>2. QED
      BY <1>6, <2>2, <3>1 DEF ForegroundInv, WaitsForOwn
  <2>3. QED
    BY <1>3, <1>4, <1>5, <2>1, <2>2
<1>16. Noted'
  <2> SUFFICES ASSUME NEW v \in Tasks, task'[v].wait_pid # Nobody
               PROVE  task'[v].wait_pid = task'[v].child /\ task'[task'[v].child].pc = "zombie"
    BY DEF Noted
  <2>1. v # t /\ v # x /\ ~gone(v)
    BY <1>3, <1>4, <1>5
  <2>2. /\ task'[v].wait_pid = task[v].wait_pid /\ task'[v].child = task[v].child
        /\ task'[v].pc = task[v].pc
    BY <1>6, <2>1
  <2>3. /\ task[v].wait_pid = task[v].child /\ task[task[v].child].pc = "zombie"
        /\ task[v].child # Nobody
    BY <2>2 DEF ForegroundInv, Noted
  <2>4. Waits(v) /\ Waits(v)'
    BY <2>2, <2>3 DEF ForegroundInv, WaitsForOwn, Waits
  <2>5. QED
    BY <1>14, <2>2, <2>3, <2>4
<1>17. OnlyChild'
  <2> SUFFICES ASSUME NEW v \in Tasks, NEW w \in Tasks, Waits(v)', ~task'[v].jobs,
                      task'[w].parent = v
               PROVE  task'[v].child = w
    BY DEF OnlyChild, Waits
  <2>1. Waits(v) /\ ~task[v].jobs /\ task'[v].child = task[v].child /\ task[w].parent = v
    BY <1>1, <1>7, <1>14
  <2>2. QED
    BY <2>1 DEF ForegroundInv, OnlyChild
<1>18. ForegroundIsAwaited'
  <2> SUFFICES ASSUME NEW v \in Tasks, ~task'[v].jobs, Waits(v)'
               PROVE  LET ended == task'[task'[v].child].pc = "zombie"
                      IN /\ task'[v].pc = "forked"  => (task'[v].wait_pid = task'[v].child <=> ended)
                         /\ task'[v].pc = "blocked" => ~ended
                         /\ task'[v].pc = "woken"   => ended
    BY DEF ForegroundIsAwaited, Waits, Waiting
  <2>1. /\ ~task[v].jobs /\ task'[v].pc = task[v].pc /\ task'[v].child = task[v].child
        /\ task'[v].wait_pid = task[v].wait_pid
        /\ task'[task[v].child].pc = "zombie" <=> task[task[v].child].pc = "zombie"
    BY <1>14
  <2>2. QED
    BY <2>1 DEF ForegroundInv, ForegroundIsAwaited
<1>19. QED
  BY <1>9, <1>10, <1>11, <1>12, <1>13, <1>15, <1>16, <1>17, <1>18 DEF ForegroundInv

LEMMA ForegroundStep ==
  ASSUME TypeInv, ForegroundInv, [Next]_vars
  PROVE  ForegroundInv'
<1>1. CASE UNCHANGED vars
  BY <1>1 DEF vars, ForegroundInv, InitWaits, LiveParents, NoCircle, Awaited, Zombies,
     WaitsForOwn, Noted, OnlyChild, ForegroundIsAwaited, Waits
<1>2. CASE Next
  <2>1. PICK t \in Tasks : Step(t)
    BY <1>2, StepIs
  <2>2. CASE ShellBegins(t) \/ ProgramShows(t) \/ ShellActs(t)
    <3>1. Goes(t)
      BY <2>2 DEF ShellBegins, ProgramShows, ShellActs, ShellGoes
    <3>2. QED
      BY <3>1, ForegroundGoes
  <2>3. CASE TaskForks(t)
    BY <2>3, ForegroundForks DEF TaskForks
  <2>4. CASE TaskEnds(t)
    BY <2>4, ForegroundEnds DEF TaskEnds
  <2>5. CASE TaskBlocks(t)
    BY <2>5, ForegroundBlocks DEF TaskBlocks
  <2>6. CASE TaskReturns(t)
    <3>1. Returns(t, task[t].child) /\ task[t].child \in Tasks
      BY <2>6 DEF TaskReturns, Returns
    <3>2. QED
      BY <3>1, ForegroundReturns
  <2>7. QED
    BY <2>1, <2>2, <2>3, <2>4, <2>5, <2>6 DEF Step
<1>3. QED
  BY <1>1, <1>2

LEMMA ForegroundInvariant == Spec => [](TypeInv /\ ForegroundInv)
<1>1. Init => TypeInv /\ ForegroundInv
  BY TypeInit, ForegroundInit
<1>2. TypeInv /\ ForegroundInv /\ [Next]_vars => (TypeInv /\ ForegroundInv)'
  BY TypeStep, ForegroundStep
<1>3. QED
  BY <1>1, <1>2, PTL DEF Spec

\* With any number of shells and jobs, which end whenever they like and whose
\* exits the kernel takes for those of others: a shell that had no child left
\* when it forked its foreground task returns from waitpid when that task has
\* ended, never before, and never misses its end (do_exit, do_waitpid).
THEOREM ForegroundStaysAwaited == Spec => []ForegroundIsAwaited
<1>1. ForegroundInv => ForegroundIsAwaited
  BY DEF ForegroundInv
<1>2. QED
  BY <1>1, ForegroundInvariant, PTL

-----------------------------------------------------------------------------
(* Where the shells stand.                                                 *)

LEMMA JoinedPairs ==
  ASSUME NEW S, NEW s \in Seq(S), NEW t \in Seq(S), Len(s) = 2, Len(t) = 2
  PROVE  /\ s \o t \in Seq(S) /\ Len(s \o t) = 4
         /\ (s \o t)[1] = s[1] /\ (s \o t)[2] = s[2]
         /\ (s \o t)[3] = t[1] /\ (s \o t)[4] = t[2]
<1>1. /\ s \o t \in Seq(S) /\ Len(s \o t) = Len(s) + Len(t)
      /\ \A i \in 1 .. Len(s) + Len(t) :
           (s \o t)[i] = IF i <= Len(s) THEN s[i] ELSE t[i - Len(s)]
  BY ConcatProperties
<1> DEFINE j == s \o t
<1>2. /\ j \in Seq(S) /\ Len(j) = 4
      /\ \A i \in 1 .. 4 : j[i] = IF i <= 2 THEN s[i] ELSE t[i - 2]
  BY <1>1
<1> HIDE DEF j
<1>3. QED
  BY <1>2 DEF j

\* What cut_rootfs leaves of the root, of / and of the directory that a
\* shell begins in.
LEMMA CutRoot ==
  /\ cut_rootfs(ROOTFS) = <<>> /\ cut_rootfs(<<"/">>) = <<>>
  /\ InRoot(ROOTFS \o <<"bin", "/">>)
  /\ cut_rootfs(ROOTFS \o <<"bin", "/">>) = <<"bin", "/">>
<1>1. Len(ROOTFS) = 2 /\ ROOTFS[1] = "rootfs" /\ ROOTFS[2] = "/" /\ ROOTFS \in Name
  BY RootIs DEF ROOTFS
<1>2. <<"/">> \in Name /\ <<"bin", "/">> \in Name
  BY DEF Name, Word
<1>3. cut_rootfs(ROOTFS) = <<>> /\ cut_rootfs(<<"/">>) = <<>>
  BY <1>1, <1>2, DropIs DEF cut_rootfs, Name
<1> DEFINE w == <<"bin", "/">>
           p == ROOTFS \o w
           c == SubSeq(p, 3, Len(p))
<1>4. /\ p \in Name /\ Len(p) = 4
      /\ p[1] = "rootfs" /\ p[2] = "/" /\ p[3] = "bin" /\ p[4] = "/"
  <2>1. /\ w \in Name /\ Len(w) = 2 /\ w[1] = "bin" /\ w[2] = "/"
    BY <1>2
  <2> HIDE DEF w
  <2>2. /\ ROOTFS \o w \in Name /\ Len(ROOTFS \o w) = 4
        /\ (ROOTFS \o w)[1] = ROOTFS[1] /\ (ROOTFS \o w)[2] = ROOTFS[2]
        /\ (ROOTFS \o w)[3] = w[1] /\ (ROOTFS \o w)[4] = w[2]
    BY <1>1, <2>1, JoinedPairs DEF Name
  <2>3. QED
    BY <1>1, <2>1, <2>2
<1> HIDE DEF p
<1>5. c = <<"bin", "/">>
  <2>1. /\ c \in Name /\ Len(c) = 2 /\ \A i \in 1 .. 2 : c[i] = p[3 + i - 1]
    BY <1>4, DropIs DEF Name
  <2> HIDE DEF c
  <2>2. \A i \in 1 .. 2 : c[i] = <<"bin", "/">>[i]
    <3>1. \A i \in 1 .. 2 : i = 1 \/ i = 2
      OBVIOUS
    <3>2. QED
      BY <1>4, <2>1, <3>1
  <2>3. QED
    BY <1>2, <2>1, <2>2, SeqEqual DEF Name
<1>6. QED
  BY <1>3, <1>4, <1>5 DEF InRoot, cut_rootfs, p

LEMMA DirectoryIs ==
  ASSUME TypeInv, DirectoryInv PROVE CwdIsDirectory
BY RootIs DEF TypeInv, DirectoryInv, CwdIsDirectory

LEMMA DirectoryInit ==
  ASSUME Init PROVE DirectoryInv
BY InitIs DEF DirectoryInv, Begun, Waiting

\* A directory that was set stays set, to one of the archive.
LEMMA DirectorySet ==
  ASSUME TypeInv, ForegroundInv, DirectoryInv, NEW t \in Tasks, Step(t)
  PROVE  /\ cwd_shell' # <<>> =>
              InRoot(cwd_shell') /\ cut_rootfs(cwd_shell') \in Directories
         /\ cwd_shell # <<>> => cwd_shell' # <<>>
         /\ ShellBegins(t) => cwd_shell' # <<>>
<1>1. \A path : InRoot(path) => path # <<>>
  BY DEF InRoot
<1>2. <<>> \in Directories
  BY DEF Directories
<1>3. CASE cwd_shell' = cwd_shell
  <2>1. ShellBegins(t) => InRoot(cwd_shell')
    BY CutRoot DEF ShellBegins
  <2>2. QED
    BY <1>1, <1>3, <2>1 DEF DirectoryInv
<1>4. CASE cwd_shell' = ROOTFS
  BY <1>1, <1>2, <1>4, CutRoot, RootIs
<1>5. CASE ShellBegins(t)
  BY <1>1, <1>5, CutRoot, ShellAssumption DEF ShellBegins
<1>6. CASE /\ task[t].pc = "cd" /\ cwd_shell' = task[t].path
           /\ cut_rootfs(task[t].path) \in Directories
           /\ cut_rootfs(task[t].path) # <<>>
  <2>1. task[t].path = <<"/">> \/ InRoot(task[t].path)
    BY <1>6 DEF DirectoryInv
  <2>2. InRoot(task[t].path)
    BY <1>6, <2>1, CutRoot
  <2>3. QED
    BY <1>1, <1>6, <2>2
<1>7. QED
  BY <1>3, <1>4, <1>5, <1>6
     DEF Step, ProgramShows, ShellActs, TaskEnds, TaskForks, TaskBlocks, TaskReturns

\* Only a shell that begins becomes one that has begun: init forks no shell
\* that has, and a shell that forks or returns from waitpid has begun.
LEMMA BegunIs ==
  ASSUME TypeInv, ForegroundInv, NEW t \in Tasks, Step(t), NEW u \in Tasks, Begun(u)'
  PROVE  Begun(u) \/ (u = t /\ ShellBegins(t))
<1>1. u # Init_task /\ task'[u].pc \in {"prompt", "run", "cd"} \cup Waiting
  BY DEF Begun
<1>2. CASE u # t
  <2>1. \/ task'[u].pc = task[u].pc
        \/ task[u].pc = "blocked" /\ task'[u].pc = "woken"
    BY <1>1, <1>2, OthersAre DEF Gone, Forks, Waiting
  <2>2. QED
    BY <1>1, <2>1 DEF Begun, Waiting
<1>3. CASE u = t
  BY <1>1, <1>3
     DEF Step, ProgramShows, ShellActs, ShellGoes, TaskEnds, Ends, Gone, TaskForks, Forks,
         TaskBlocks, Blocks, TaskReturns, Returns, Begun, Waiting
<1>4. QED
  BY <1>2, <1>3

LEMMA DirectoryStep ==
  ASSUME TypeInv, ForegroundInv, DirectoryInv, [Next]_vars PROVE DirectoryInv'
<1>1. CASE UNCHANGED vars
  BY <1>1 DEF vars, DirectoryInv, Begun
<1>2. CASE Next
  <2>1. PICK t \in Tasks : Step(t)
    BY <1>2, StepIs
  <2>2. /\ cwd_shell' # <<>> =>
             InRoot(cwd_shell') /\ cut_rootfs(cwd_shell') \in Directories
        /\ cwd_shell # <<>> => cwd_shell' # <<>>
        /\ ShellBegins(t) => cwd_shell' # <<>>
    BY <2>1, DirectorySet
  <2>3. ASSUME NEW u \in Tasks, Begun(u)' PROVE cwd_shell' # <<>>
    <3>1. Begun(u) \/ ShellBegins(t)
      BY <2>1, <2>3, BegunIs
    <3>2. QED
      BY <2>2, <3>1 DEF DirectoryInv
  <2>4. ASSUME NEW u \in Tasks, task'[u].pc = "cd"
        PROVE  task'[u].path = <<"/">> \/ InRoot(task'[u].path)
    <3>1. CASE u = t
      <4>1. ShellActs(t)
        BY <2>1, <2>4, <3>1
           DEF Step, ShellBegins, ProgramShows, TaskEnds, Ends, Gone, TaskForks, Forks,
               TaskBlocks, Blocks, TaskReturns, Returns
      <4>2. Begun(t)
        BY <4>1 DEF ShellActs, ShellGoes, ForegroundInv, InitWaits, Begun, Waiting
      <4>3. InRoot(cwd_shell)
        BY <4>2 DEF DirectoryInv
      <4>4. QED
        BY <2>4, <3>1, <4>1, <4>3 DEF ShellActs, ShellGoes
    <3>2. CASE u # t
      <4>1. task[u].pc = "cd" /\ task'[u].path = task[u].path
        BY <2>1, <2>4, <3>2, OthersAre DEF Alike, Gone, Forks
      <4>2. QED
        BY <4>1 DEF DirectoryInv
    <3>3. QED
      BY <3>1, <3>2
  <2>5. QED
    BY <2>2, <2>3, <2>4 DEF DirectoryInv
<1>3. QED
  BY <1>1, <1>2

\* Whichever shells change the directory that all of them share, between
\* another's cd_cmd and its opendir or anywhere else, and whatever cd is
\* given, in every archive: it is a directory of the archive, inside rootfs.
THEOREM CwdStaysDirectory == Spec => []CwdIsDirectory
<1>1. Init => DirectoryInv
  BY DirectoryInit
<1>2. TypeInv /\ ForegroundInv /\ DirectoryInv /\ [Next]_vars => DirectoryInv'
  BY DirectoryStep
<1>3. TypeInv /\ DirectoryInv => CwdIsDirectory
  BY DirectoryIs
<1>4. QED
  BY <1>1, <1>2, <1>3, ForegroundInvariant, PTL DEF Spec
-----------------------------------------------------------------------------
(* What the commands name.                                                 *)

\* The Makefile makes the archive inside rootfs: no entry's name begins with
\* that of rootfs itself, as the second directory of FULL_PATH does.
NoRootfs == \A i \in DOMAIN Archive : Archive[i].name[1] # "rootfs"

First == SubSeq(FULL_PATH, 1, 1)

LEMMA PathsAre ==
  /\ FULL_PATH \in Seq(Name) /\ Len(FULL_PATH) = 2 /\ DOMAIN FULL_PATH = {1, 2}
  /\ FULL_PATH[2] = <<"rootfs", "/", "bin">>
  /\ First \in Seq(Name) /\ Len(First) = 1 /\ DOMAIN First = {1}
  /\ First[1] = FULL_PATH[1]
  /\ parsed(FULL_PATH) = First /\ parsed(First) = First
<1>1. <<"bin">> \in Name /\ <<"rootfs", "/", "bin">> \in Name
  BY DEF Name, Word
<1>2. /\ FULL_PATH \in Seq(Name) /\ Len(FULL_PATH) = 2 /\ DOMAIN FULL_PATH = {1, 2}
      /\ FULL_PATH[2] = <<"rootfs", "/", "bin">>
  <2> DEFINE a == <<"bin">>
             b == <<"rootfs", "/", "bin">>
  <2>1. FULL_PATH = <<a, b>> /\ a \in Name /\ b \in Name
    BY <1>1 DEF FULL_PATH
  <2> HIDE DEF a, b
  <2>2. FULL_PATH \in Seq(Name) /\ Len(FULL_PATH) = 2 /\ FULL_PATH[2] = b
    BY <2>1
  <2>3. DOMAIN FULL_PATH = 1 .. 2
    BY <2>2, LenProperties
  <2>4. QED
    BY <2>2, <2>3 DEF b
<1>3. /\ First \in Seq(Name) /\ Len(First) = 1 /\ First[1] = FULL_PATH[1]
  BY <1>2, TakeIs DEF First
<1>4. DOMAIN First = {1}
  <2>1. DOMAIN First = 1 .. 1
    BY <1>3, LenProperties
  <2>2. QED
    BY <2>1
<1>5. parsed(First) = First
  <2> DEFINE a == SubSeq(First, 1, 1)
  <2>1. a \in Seq(Name) /\ Len(a) = 1 /\ \A i \in 1 .. 1 : a[i] = First[i]
    BY <1>3, TakeIs
  <2> HIDE DEF a
  <2>2. a = First
    BY <1>3, <2>1, SeqEqual
  <2>3. QED
    BY <2>2 DEF parsed, a
<1>6. QED
  BY <1>2, <1>3, <1>4, <1>5 DEF parsed, First

\* Nothing is found in the second directory of FULL_PATH.
LEMMA SecondIsMissed ==
  ASSUME NoRootfs, NEW cmd \in Name
  PROVE  check_file_exist(FULL_PATH[2] \o <<"/">> \o cmd) # 0
<1> DEFINE a == FULL_PATH[2] \o <<"/">>
           name == a \o cmd
<1>1. FULL_PATH[2] \in Name /\ Len(FULL_PATH[2]) = 3 /\ FULL_PATH[2][1] = "rootfs"
  <2>1. <<"rootfs", "/", "bin">> \in Name
    BY DEF Name, Word
  <2>2. QED
    BY <2>1, PathsAre
<1>2. a \in Name /\ Len(a) >= 3 /\ a[1] = "rootfs"
  <2>1. <<"/">> \in Name
    BY DEF Name, Word
  <2>2. a \in Name /\ Len(a) >= Len(FULL_PATH[2]) /\ a[1] = FULL_PATH[2][1]
    BY <1>1, <2>1, ConcatIs DEF Name
  <2>3. QED
    BY <1>1, <2>2
<1> HIDE DEF a
<1>3. name \in Name /\ Len(name) >= 3 /\ name[1] = "rootfs"
  <2>1. name \in Name /\ Len(name) >= Len(a) /\ \A i \in 1 .. Len(a) : name[i] = a[i]
    BY <1>2, ConcatIs DEF Name
  <2>2. Len(name) \in Nat /\ Len(a) \in Nat
    BY <1>2, <2>1, LenProperties DEF Name
  <2> HIDE DEF name
  <2>3. QED
    BY <1>2, <2>1, <2>2
<1> HIDE DEF name
<1>4. ASSUME name \in DOMAIN Files PROVE FALSE
  <2>1. Files[name] \in ToSet(Headers) /\ Files[name].name = name
    BY <1>4, FirstHeader DEF Files
  <2>2. Len(Archive) \in Nat /\ DOMAIN Headers = 1 .. Len(Archive) + 1
        /\ DOMAIN Archive = 1 .. Len(Archive)
    BY HeadersIs, LenProperties
  <2>3. PICK i \in 1 .. Len(Archive) + 1 : Headers[i] = Files[name]
    BY <2>1, <2>2 DEF ToSet
  <2>4. CASE i = Len(Archive) + 1
    <3>1. Files[name] = Trailer
      BY <2>3, <2>4, HeadersIs
    <3>2. Trailer.name = <<>>
      BY DEF Trailer
    <3>3. name = <<>>
      BY <2>1, <3>1, <3>2
    <3>4. Len(name) = 0
      BY <3>3
    <3>5. QED
      BY <1>3, <3>4
  <2>5. CASE i # Len(Archive) + 1
    <3>1. i \in DOMAIN Archive /\ Headers[i] = Archive[i]
      BY <2>2, <2>5, HeadersIs
    <3>2. QED
      BY <1>3, <2>1, <2>3, <3>1 DEF NoRootfs
  <2>6. QED
    BY <2>4, <2>5
<1>5. check_file_exist(name) = -1
  BY <1>4 DEF check_file_exist
<1>6. QED
  BY <1>5 DEF name, a

\* So the first alone names what both do.
LEMMA SearchedAlike ==
  ASSUME NoRootfs, NEW cwd, NEW cmd \in Name
  PROVE  search(cwd, cmd, First) = search(cwd, cmd, FULL_PATH)
<1> DEFINE f(i) == check_file_exist(First[i] \o <<"/">> \o cmd) = 0
           g(i) == check_file_exist(FULL_PATH[i] \o <<"/">> \o cmd) = 0
           m == CHOOSE i \in DOMAIN First : f(i) /\ \A j \in 1 .. i - 1 : ~f(j)
           n == CHOOSE i \in DOMAIN FULL_PATH : g(i) /\ \A j \in 1 .. i - 1 : ~g(j)
<1>1. DOMAIN First = {1} /\ DOMAIN FULL_PATH = {1, 2} /\ First[1] = FULL_PATH[1]
  BY PathsAre
<1>2. (f(1) <=> g(1)) /\ ~g(2)
  BY <1>1, SecondIsMissed
<1>3. search(cwd, cmd, First)
        = IF check_file_exist(direct(cwd, cmd)) = 0 THEN direct(cwd, cmd)
          ELSE IF \A i \in DOMAIN First : ~f(i) THEN NoFile
          ELSE First[m] \o <<"/">> \o cmd
  BY DEF search
<1>4. search(cwd, cmd, FULL_PATH)
        = IF check_file_exist(direct(cwd, cmd)) = 0 THEN direct(cwd, cmd)
          ELSE IF \A i \in DOMAIN FULL_PATH : ~g(i) THEN NoFile
          ELSE FULL_PATH[n] \o <<"/">> \o cmd
  BY DEF search
<1>5. (\A i \in DOMAIN First : ~f(i)) <=> (\A i \in DOMAIN FULL_PATH : ~g(i))
  <2> HIDE DEF f, g
  <2>1. QED
    BY <1>1, <1>2
<1>6. ASSUME f(1) PROVE m = 1 /\ n = 1
  <2> HIDE DEF f, g
  <2>1. \A j \in 1 .. 1 - 1 : ~f(j) /\ ~g(j)
    OBVIOUS
  <2>2. m = 1
    <3>1. \E i \in DOMAIN First : f(i) /\ \A j \in 1 .. i - 1 : ~f(j)
      BY <1>1, <1>6, <2>1
    <3>2. m \in DOMAIN First
      BY <3>1
    <3>3. QED
      BY <1>1, <3>2
  <2>3. n = 1
    <3>1. \E i \in DOMAIN FULL_PATH : g(i) /\ \A j \in 1 .. i - 1 : ~g(j)
      BY <1>1, <1>2, <1>6, <2>1
    <3>2. n \in DOMAIN FULL_PATH /\ g(n)
      BY <3>1
    <3>3. QED
      BY <1>1, <1>2, <3>2
  <2>4. QED
    BY <2>2, <2>3
<1>7. (\A i \in DOMAIN First : ~f(i)) <=> ~f(1)
  BY <1>1
<1> HIDE DEF f, g, m, n
<1>8. QED
  BY <1>1, <1>3, <1>4, <1>5, <1>6, <1>7

LEMMA SearchIs ==
  ASSUME NoRootfs, TypeInv, ForegroundInv, PathInv PROVE SearchIsStable
<1> SUFFICES ASSUME NEW t \in Tasks, task[t].pc \in {"prompt", "run"},
                    NEW line \in Lines, line # <<>>
             PROVE  search(cwd_shell, line[1], task[t].PATH)
                      = search(cwd_shell, line[1], FULL_PATH)
  BY DEF SearchIsStable
<1>1. line[1] \in Name
  BY ShellAssumption, StringsAreNames, LineIs
<1>2. Begun(t)
  BY DEF Begun, ForegroundInv, InitWaits, Waiting
<1>3. task[t].PATH = FULL_PATH \/ task[t].PATH = First
  BY <1>2 DEF PathInv, First
<1>4. QED
  BY <1>1, <1>3, SearchedAlike

LEMMA PathInit ==
  ASSUME Init PROVE PathInv
BY InitIs DEF PathInv, Begun, Waiting

LEMMA PathStep ==
  ASSUME TypeInv, ForegroundInv, PathInv, [Next]_vars PROVE PathInv'
<1>1. CASE UNCHANGED vars
  BY <1>1 DEF vars, PathInv, Begun
<1>2. CASE Next
  <2>1. PICK t \in Tasks : Step(t)
    BY <1>2, StepIs
  <2> SUFFICES ASSUME NEW u \in Tasks, Begun(u)'
               PROVE  task'[u].PATH = FULL_PATH \/ task'[u].PATH = First
    BY DEF PathInv, First
  <2>2. CASE u = t /\ ShellBegins(t)
    BY <2>2 DEF ShellBegins
  <2>3. CASE Begun(u)
    <3>1. task[u].PATH = FULL_PATH \/ task[u].PATH = First
      BY <2>3 DEF PathInv, First
    <3>2. task'[u].PATH = task[u].PATH \/ task'[u].PATH = parsed(task[u].PATH)
      <4>1. /\ task[u].pc \in {"prompt", "run", "cd"} \cup Waiting
            /\ task'[u].pc \in {"prompt", "run", "cd"} \cup Waiting
        BY <2>3 DEF Begun
      <4>2. CASE u # t
        BY <2>1, <4>1, <4>2, OthersAre DEF Alike, Gone, Forks, Waiting
      <4>3. CASE u = t
        BY <2>1, <4>1, <4>3
           DEF Step, ShellBegins, ProgramShows, ShellActs, ShellGoes, TaskEnds, Ends, Gone,
               TaskForks, Forks, TaskBlocks, Blocks, Alike, TaskReturns, Returns, Waiting
      <4>4. QED
        BY <4>2, <4>3
    <3>3. QED
      BY <3>1, <3>2, PathsAre
  <2>4. QED
    BY <2>1, <2>2, <2>3, BegunIs
<1>3. QED
  BY <1>1, <1>2

\* Whatever the searches leave of a shell's PATH, in whatever order commands
\* are given and found or not, a command names the file it named at first.
THEOREM CommandsStayStable ==
  ASSUME NoRootfs
  PROVE  Spec => []SearchIsStable
<1>1. Init => PathInv
  BY PathInit
<1>2. TypeInv /\ ForegroundInv /\ PathInv /\ [Next]_vars => PathInv'
  BY PathStep
<1>3. TypeInv /\ ForegroundInv /\ PathInv => SearchIsStable
  BY SearchIs
<1>4. QED
  BY <1>1, <1>2, <1>3, ForegroundInvariant, PTL DEF Spec
-----------------------------------------------------------------------------
(* What programs show is what the archive has.                             *)

\* The indices of a set, in order.
LEMMA NthIs ==
  ASSUME NEW I \in SUBSET Nat, IsFiniteSet(I), NEW k \in 1 .. Cardinality(I)
  PROVE  nth(I, k) \in I /\ Cardinality(UpTo(I, nth(I, k))) = k
BY RankedIs DEF nth, Ranked, UpTo

LEMMA NthMore ==
  ASSUME NEW I \in SUBSET Nat, IsFiniteSet(I), NEW m \in Nat, \A i \in I : i < m
  PROVE  /\ IsFiniteSet(I \cup {m}) /\ Cardinality(I \cup {m}) = Cardinality(I) + 1
         /\ nth(I \cup {m}, Cardinality(I) + 1) = m
         /\ \A k \in 1 .. Cardinality(I) : nth(I \cup {m}, k) = nth(I, k)
BY RankedMore DEF nth, Ranked, UpTo

\* The slashes of a name that others follow, as Parent looks for them.
Inside(name) == {i \in 1 .. Len(name) - 1 : name[i] = "/"}

LEMMA ParentEnds ==
  ASSUME NEW name \in Name
  PROVE  /\ Inside(name) = {} => Parent(name) = <<>>
         /\ \A k \in Inside(name) : (\A j \in Inside(name) : j <= k) =>
              Parent(name) = SubSeq(name, 1, k) /\ Len(Parent(name)) = k
         /\ Parent(name) = <<>> => Inside(name) = {}
<1>1. Len(name) \in Nat
  BY LenProperties DEF Name
<1>2. Parent(name) = SubSeq(name, 1, IF Inside(name) = {} THEN 0
                       ELSE CHOOSE i \in Inside(name) : \A j \in Inside(name) : j <= i)
  BY DEF Parent, Inside
<1>3. Inside(name) = {} => Parent(name) = <<>>
  BY <1>2, SubSeqEmpty
<1>4. ASSUME NEW k \in Inside(name), \A j \in Inside(name) : j <= k
      PROVE  Parent(name) = SubSeq(name, 1, k) /\ Len(Parent(name)) = k
  <2> DEFINE m == CHOOSE i \in Inside(name) : \A j \in Inside(name) : j <= i
  <2>1. m \in Inside(name) /\ \A j \in Inside(name) : j <= m
    BY <1>4
  <2>2. m = k
    BY <1>1, <1>4, <2>1 DEF Inside
  <2>3. Parent(name) = SubSeq(name, 1, k)
    BY <1>2, <2>2
  <2>4. k \in Nat /\ k <= Len(name)
    BY <1>1 DEF Inside
  <2>5. QED
    BY <2>3, <2>4, TakeIs DEF Name
<1>5. ASSUME Inside(name) # {} PROVE Parent(name) # <<>>
  <2>1. Inside(name) \in SUBSET (0 .. Len(name))
    BY <1>1 DEF Inside
  <2>2. PICK k \in Inside(name) : \A j \in Inside(name) : j <= k
    BY <1>1, <1>5, <2>1, NatMax
  <2>3. Len(Parent(name)) = k /\ k # 0
    BY <1>1, <1>4, <2>2 DEF Inside
  <2>4. QED
    BY <2>3
<1>6. QED
  BY <1>3, <1>4, <1>5

\* The root has the names without a slash, or with one at their end only.
LEMMA PlainIs ==
  ASSUME NEW name \in Name, name # <<>>
  PROVE  contain_slash(name) = 0 \/ Len(strstr_slash(name)) = 1 <=> Parent(name) = <<>>
<1> DEFINE A == {i \in DOMAIN name : name[i] = "/"}
           first == SelectInSeq(name, LAMBDA w : w = "/")
<1>1. Len(name) \in Nat /\ DOMAIN name = 1 .. Len(name) /\ Len(name) # 0
  BY LenProperties, EmptySeq DEF Name
<1>2. A = {i \in 1 .. Len(name) : name[i] = "/"}
  BY <1>1
<1>3. IsFiniteSet(A) /\ contain_slash(name) = Cardinality(A)
  <2>1. IsFiniteSet(1 .. Len(name)) /\ A \subseteq 1 .. Len(name)
    BY <1>1, FS_Interval
  <2>2. IsFiniteSet(A)
    BY <2>1, FS_Subset
  <2>3. QED
    BY <2>2 DEF contain_slash
<1>4. A # {} => first = CHOOSE x \in A : \A y \in A : x =< y
  <2> DEFINE B == {i \in 1 .. Len(name) : name[i] = "/"}
  <2>1. first = IF B # {} THEN Min(B) ELSE 0
    BY DEF SelectInSeq
  <2>2. A = B
    BY <1>2
  <2> HIDE DEF A, B, first
  <2>3. QED
    BY <2>1, <2>2 DEF Min
<1>5. strstr_slash(name) = SubSeq(name, first, Len(name))
  BY DEF strstr_slash
<1> HIDE DEF first
<1>6. CASE A = {}
  <2>1. contain_slash(name) = 0
    BY <1>3, <1>6, FS_EmptySet
  <2>2. Inside(name) = {}
    BY <1>1, <1>2, <1>6 DEF Inside
  <2>3. QED
    BY <2>1, <2>2, ParentEnds
<1>7. CASE A # {}
  <2>1. contain_slash(name) # 0
    BY <1>3, <1>7, FS_EmptySet
  <2>2. first \in A /\ \A y \in A : first <= y
    <3>1. A \in SUBSET Nat
      BY <1>2
    <3>2. \E x \in A : \A y \in A : x <= y
      <4> HIDE DEF A
      <4>1. QED
        BY <1>7, <3>1, NatMin
    <3> HIDE DEF A
    <3>3. QED
      BY <1>4, <1>7, <3>2
  <2>3. PICK n \in Nat : n = Len(name)
    BY <1>1
  <2>4. PICK f \in 1 .. n : f = first /\ name[f] = "/"
    BY <1>2, <2>2, <2>3
  <2>5. Len(strstr_slash(name)) = 1 <=> f = n
    <3>1. Len(strstr_slash(name)) = n - f + 1
      BY <1>5, <2>3, <2>4, DropIs DEF Name
    <3>2. QED
      BY <3>1
  <2>6. f = n <=> Inside(name) = {}
    <3>1. Inside(name) = {i \in 1 .. n - 1 : name[i] = "/"}
      BY <2>3 DEF Inside
    <3>2. ASSUME NEW i \in Inside(name) PROVE f # n
      <4>1. i \in A /\ i \in 1 .. n - 1
        BY <1>2, <2>3, <3>1
      <4>2. f <= i
        BY <2>2, <2>4, <4>1
      <4>3. QED
        BY <4>1, <4>2
    <3>3. f # n => f \in Inside(name)
      BY <2>4, <3>1
    <3>4. QED
      BY <3>2, <3>3
  <2>7. QED
    BY <2>1, <2>5, <2>6, ParentEnds
<1>8. QED
  BY <1>6, <1>7

\* do_readdir lists what stands in the directory.
LEMMA ListedIs ==
  ASSUME NEW h \in Header, h.name # <<>>, IsDirectory(h) <=> h.name[Len(h.name)] = "/",
         NEW dir \in Name, dir # <<>>, dir[Len(dir)] = "/"
  PROVE  listed(dir, h) <=> Parent(h.name) = dir
<1> DEFINE name == h.name
           rest == SubSeq(name, Len(dir) + 1, Len(name))
<1>1. name \in Name
  BY DEF Header
<1> HIDE DEF name
<1>2. PICK n \in Nat : n = Len(name)
  BY <1>1, LenProperties DEF Name
<1>3. PICK d \in Nat : d = Len(dir) /\ d # 0
  BY LenProperties, EmptySeq DEF Name
<1>4. IsPrefix(dir, name) <=> d <= n /\ dir = SubSeq(name, 1, d)
  <2>1. SubSeq(dir, 1, d) = dir
    <3>1. /\ SubSeq(dir, 1, d) \in Name /\ Len(SubSeq(dir, 1, d)) = d
          /\ \A i \in 1 .. d : SubSeq(dir, 1, d)[i] = dir[i]
      BY <1>3, TakeIs DEF Name
    <3>2. QED
      BY <1>3, <3>1, SeqEqual DEF Name
  <2>2. QED
    BY <1>2, <1>3, <2>1 DEF IsPrefix
<1>5. listed(dir, h) <=> /\ IsPrefix(dir, name) /\ name # dir
                         /\ contain_slash(rest) = IF IsDirectory(h) THEN 1 ELSE 0
  BY DEF listed, name
<1> DEFINE S == {i \in 1 .. n - d : name[d + i] = "/"}
<1>6. ASSUME d < n PROVE IsFiniteSet(S) /\ contain_slash(rest) = Cardinality(S)
  <2>1. rest \in Name /\ Len(rest) = n - d /\ \A i \in 1 .. n - d : rest[i] = name[d + i]
    <3>1. /\ rest \in Name /\ Len(rest) = n - (d + 1) + 1
          /\ \A i \in 1 .. n - (d + 1) + 1 : rest[i] = name[d + 1 + i - 1]
      BY <1>1, <1>2, <1>3, <1>6, DropIs DEF Name
    <3> HIDE DEF rest
    <3>2. QED
      BY <3>1
  <2> HIDE DEF rest
  <2>2. DOMAIN rest = 1 .. n - d
    BY <2>1, LenProperties DEF Name
  <2>3. {i \in DOMAIN rest : rest[i] = "/"} = S
    BY <2>1, <2>2
  <2>4. IsFiniteSet(1 .. n - d) /\ S \subseteq 1 .. n - d
    <3>1. 1 \in Int /\ n - d \in Int
      OBVIOUS
    <3>2. QED
      BY <3>1, FS_Interval
  <2> HIDE DEF S
  <2>5. QED
    BY <2>3, <2>4, FS_Subset DEF contain_slash
<1> HIDE DEF rest
<1>7. Inside(name) = {i \in 1 .. n - 1 : name[i] = "/"}
  BY <1>2 DEF Inside
<1>8. IsDirectory(h) <=> name[n] = "/"
  BY <1>2 DEF name
<1>9. ASSUME Parent(name) = dir PROVE listed(dir, h)
  <2>1. Inside(name) # {}
    BY <1>1, <1>9, ParentEnds
  <2>2. PICK k \in Inside(name) : \A j \in Inside(name) : j <= k
    <3>1. Inside(name) \in SUBSET (0 .. n)
      BY <1>7
    <3>2. QED
      BY <2>1, <3>1, NatMax
  <2>3. dir = SubSeq(name, 1, k) /\ k = d
    BY <1>1, <1>3, <1>9, <2>2, ParentEnds
  <2>4. d < n /\ IsPrefix(dir, name) /\ name # dir
    BY <1>2, <1>3, <1>4, <1>7, <2>3
  <2>5. IsFiniteSet(S) /\ contain_slash(rest) = Cardinality(S)
    BY <1>6, <2>4
  <2>6. ASSUME NEW i \in S PROVE i = n - d
    <3>1. d + i \in 1 .. n /\ name[d + i] = "/" /\ i > 0
      OBVIOUS
    <3>2. d + i \notin Inside(name)
      BY <2>2, <2>3, <3>1
    <3>3. QED
      BY <1>7, <3>1, <3>2
  <2>7. n - d \in S <=> name[n] = "/"
    BY <2>4
  <2>8. CASE IsDirectory(h)
    <3>1. n - d \in S
      BY <1>8, <2>7, <2>8
    <3> HIDE DEF S
    <3>2. S = {n - d}
      BY <2>6, <3>1
    <3>3. QED
      BY <1>5, <2>4, <2>5, <2>8, <3>2, FS_Singleton
  <2>9. CASE ~IsDirectory(h)
    <3>1. n - d \notin S
      BY <1>8, <2>7, <2>9
    <3> HIDE DEF S
    <3>2. S = {}
      BY <2>6, <3>1
    <3>3. QED
      BY <1>5, <2>4, <2>5, <2>9, <3>2, FS_EmptySet
  <2>10. QED
    BY <2>8, <2>9
<1>10. ASSUME listed(dir, h) PROVE Parent(name) = dir
  <2>1. d <= n /\ dir = SubSeq(name, 1, d) /\ name # dir
    BY <1>4, <1>5, <1>10
  <2>2. \A i \in 1 .. d : dir[i] = name[i]
    BY <1>1, <1>2, <2>1, TakeIs DEF Name
  <2>3. d # n
    <3>1. SUFFICES ASSUME d = n PROVE name = dir
      BY <2>1
    <3>2. QED
      BY <1>1, <1>2, <1>3, <2>2, <3>1, SeqEqual DEF Name
  <2>4. d < n
    BY <2>1, <2>3
  <2>5. d \in Inside(name)
    BY <1>3, <1>7, <2>2, <2>4
  <2>6. IsFiniteSet(S) /\ Cardinality(S) = IF IsDirectory(h) THEN 1 ELSE 0
    BY <1>5, <1>6, <1>10, <2>4
  <2>7. n - d \in S <=> IsDirectory(h)
    BY <1>8, <2>4
  <2>8. ASSUME NEW j \in Inside(name) PROVE j <= d
    <3>1. SUFFICES ASSUME j > d PROVE FALSE
      BY <1>7
    <3>2. j - d \in S /\ j - d # n - d
      BY <1>7, <3>1
    <3> HIDE DEF S
    <3>3. CASE IsDirectory(h)
      <4>1. PICK x : S = {x}
        BY <2>6, <3>3, FS_Singleton
      <4>2. QED
        BY <2>7, <3>2, <3>3, <4>1
    <3>4. CASE ~IsDirectory(h)
      BY <2>6, <3>2, <3>4, FS_EmptySet
    <3>5. QED
      BY <3>3, <3>4
  <2>9. QED
    BY <1>1, <2>1, <2>5, <2>8, ParentEnds
<1>11. QED
  BY <1>9, <1>10 DEF name

\* The entries of the archive.
LEMMA EntryIs ==
  ASSUME NEW i \in DOMAIN Archive
  PROVE  /\ Headers[i] = Archive[i] /\ Archive[i] \in Header /\ Archive[i].name \in Name
         /\ Archive[i].name # <<>>
         /\ IsDirectory(Archive[i]) <=> Archive[i].name[Len(Archive[i].name)] = "/"
<1>1. DOMAIN Archive = 1 .. Len(Archive) /\ Archive[i] \in Header
  BY HeadersIs, LenProperties, ElementOfSeq
<1>2. Headers[i] = Archive[i]
  BY <1>1, HeadersIs
<1>3. Archive[i].name \in Name
  BY <1>1 DEF Header
<1>4. QED
  BY <1>1, <1>2, <1>3, ArchiveAssumption

LEMMA DirectoryName ==
  ASSUME NEW dir \in Directories, dir # <<>>
  PROVE  dir \in Name /\ dir[Len(dir)] = "/" /\ do_opendir(dir) # NoFile
<1>1. PICK i \in DOMAIN Archive : dir = Archive[i].name /\ IsDirectory(Archive[i])
  BY DEF Directories
<1>2. dir \in Name /\ dir[Len(dir)] = "/"
  BY <1>1, EntryIs
<1> DEFINE D == {h \in ToSet(Headers) : IsDirectory(h)}
<1>3. Archive[i] \in D
  <2>1. i \in DOMAIN Headers
    BY HeadersIs, LenProperties
  <2>2. Headers[i] \in ToSet(Headers)
    BY <2>1 DEF ToSet
  <2>3. QED
    BY <1>1, <2>2, EntryIs
<1>4. D \subseteq ToSet(Headers) /\ Folders = first_header(D)
  BY DEF Folders
<1> HIDE DEF D
<1>5. dir \in DOMAIN first_header(D)
  BY <1>1, <1>3 DEF first_header
<1>6. Folders[dir] \in ToSet(Headers)
  BY <1>4, <1>5, FirstHeader
<1>7. QED
  BY <1>2, <1>4, <1>5, <1>6, NoFileAssumption DEF do_opendir

\* The indices of the entries of a directory, and the last one's.
Children(dir) == {i \in DOMAIN Archive : Parent(Archive[i].name) = dir}

LEMMA ChildrenAre ==
  ASSUME NEW dir
  PROVE  /\ Children(dir) \in SUBSET Nat /\ IsFiniteSet(Children(dir))
         /\ \A i \in Children(dir) : i < Len(Archive) + 1
         /\ Len(Archive) \in Nat /\ DOMAIN Archive = 1 .. Len(Archive)
         /\ DOMAIN Headers = DOMAIN Archive \cup {Len(Archive) + 1}
         /\ Headers[Len(Archive) + 1] = Trailer /\ Len(Archive) + 1 \notin DOMAIN Archive
<1>1. Len(Archive) \in Nat /\ DOMAIN Archive = 1 .. Len(Archive)
      /\ DOMAIN Headers = 1 .. Len(Archive) + 1
  BY HeadersIs, LenProperties
<1>2. IsFiniteSet(1 .. Len(Archive)) /\ Children(dir) \subseteq 1 .. Len(Archive)
  BY <1>1, FS_Interval DEF Children
<1>3. IsFiniteSet(Children(dir))
  BY <1>2, FS_Subset
<1>4. QED
  BY <1>1, <1>2, <1>3, HeadersIs

LEMMA EntriesAre ==
  ASSUME NEW dir PROVE Entries(dir) \in Seq(Seq(STRING))
<1> DEFINE I == Children(dir)
           c == Cardinality(I)
<1>1. I \in SUBSET Nat /\ IsFiniteSet(I) /\ c \in Nat
  BY ChildrenAre, FS_CardinalityType
<1>2. ASSUME NEW k \in 1 .. c PROVE Headers[nth(I, k)].name \in Seq(STRING)
  <2> HIDE DEF I
  <2>1. nth(I, k) \in I
    BY <1>1, <1>2, NthIs
  <2>2. nth(I, k) \in DOMAIN Archive
    BY <2>1 DEF I, Children
  <2> DEFINE n == nth(I, k)
  <2> HIDE DEF n
  <2>3. n \in DOMAIN Archive
    BY <2>2 DEF n
  <2>4. Headers[n] = Archive[n] /\ n \in 1 .. Len(Archive)
    BY <2>3, EntryIs, ChildrenAre
  <2>5. Archive[n].name \in Seq(STRING)
    <3> DEFINE H == [name : Seq(STRING), typeflag : STRING, body : Seq(Seq(Seq(STRING)))]
    <3>1. Archive \in Seq(H)
      BY ArchiveAssumption
    <3> HIDE DEF H
    <3>2. Archive[n] \in H
      BY <2>4, <3>1, ElementOfSeq
    <3>3. QED
      BY <3>2 DEF H
  <2>6. QED
    BY <2>4, <2>5 DEF n
<1>3. Entries(dir) = [k \in 1 .. c |-> Headers[nth(I, k)].name]
  BY DEF Entries, names, Children
<1> HIDE DEF c, I
<1>4. QED
  BY <1>1, <1>2, <1>3

LEMMA ReaddirIs ==
  ASSUME NEW dir \in Directories, dir # <<>> PROVE do_readdir(dir) = Entries(dir)
<1>1. ASSUME NEW i \in DOMAIN Archive
      PROVE  listed(dir, Headers[i]) <=> Parent(Archive[i].name) = dir
  BY EntryIs, DirectoryName, ListedIs
<1>2. ~listed(dir, Trailer)
  <2>1. Trailer.name = <<>> /\ Len(dir) \in Nat /\ Len(dir) # 0
    BY DirectoryName, LenProperties, EmptySeq DEF Trailer, Name
  <2>2. Len(Trailer.name) = 0
    BY <2>1
  <2>3. QED
    BY <2>1, <2>2 DEF listed, IsPrefix
<1>3. {i \in DOMAIN Headers : listed(dir, Headers[i])} = Children(dir)
  BY <1>1, <1>2, ChildrenAre DEF Children
<1>4. QED
  BY <1>3 DEF do_readdir, Entries, Children

LEMMA RootfsIs ==
  /\ do_read_rootfs = Append(Entries(<<>>), <<>>)
  /\ Entries(<<>>) \in Seq(Name)
<1> DEFINE plain(name) == contain_slash(name) = 0 \/ Len(strstr_slash(name)) = 1
           I == Children(<<>>)
           m == Len(Archive) + 1
           c == Cardinality(I)
<1>1. ASSUME NEW i \in DOMAIN Archive
      PROVE  plain(Headers[i].name) <=> Parent(Archive[i].name) = <<>>
  BY EntryIs, PlainIs
<1>2. plain(Trailer.name)
  <2>1. Trailer.name = <<>>
    BY DEF Trailer
  <2>2. {i \in DOMAIN <<>> : <<>>[i] = "/"} = {}
    OBVIOUS
  <2>3. contain_slash(<<>>) = 0
    BY <2>2, FS_EmptySet DEF contain_slash
  <2>4. QED
    BY <2>1, <2>3
<1>3. do_read_rootfs = names({i \in DOMAIN Headers : plain(Headers[i].name)})
  BY DEF do_read_rootfs
<1> HIDE DEF plain
<1>4. {i \in DOMAIN Headers : plain(Headers[i].name)} = I \cup {m}
  BY <1>1, <1>2, ChildrenAre DEF Children
<1>5. /\ I \in SUBSET Nat /\ IsFiniteSet(I) /\ m \in Nat /\ \A i \in I : i < m
      /\ Headers[m] = Trailer /\ c \in Nat
  BY ChildrenAre, FS_CardinalityType
<1>6. do_read_rootfs = names(I \cup {m}) /\ Entries(<<>>) = names(I)
  BY <1>3, <1>4 DEF Entries, Children
<1> HIDE DEF I, m
<1>7. names(I \cup {m}) = [k \in 1 .. c + 1 |-> IF k = c + 1 THEN <<>> ELSE names(I)[k]]
  <2>1. /\ Cardinality(I \cup {m}) = c + 1
        /\ nth(I \cup {m}, c + 1) = m
        /\ \A k \in 1 .. c : nth(I \cup {m}, k) = nth(I, k)
    BY <1>5, NthMore
  <2>2. names(I \cup {m}) = [k \in 1 .. c + 1 |-> Headers[nth(I \cup {m}, k)].name]
    BY <2>1 DEF names
  <2>3. names(I) = [k \in 1 .. c |-> Headers[nth(I, k)].name]
    BY DEF names
  <2>4. ASSUME NEW k \in 1 .. c + 1
        PROVE  Headers[nth(I \cup {m}, k)].name = IF k = c + 1 THEN <<>> ELSE names(I)[k]
    <3>1. CASE k = c + 1
      <4>1. Headers[m].name = <<>>
        <5>1. Trailer.name = <<>>
          BY DEF Trailer
        <5>2. QED
          BY <1>5, <5>1
      <4>2. nth(I \cup {m}, k) = m
        BY <2>1, <3>1
      <4> HIDE DEF c
      <4>3. QED
        BY <3>1, <4>1, <4>2
    <3>2. CASE k # c + 1
      <4>1. k \in 1 .. c
        BY <1>5, <3>2
      <4>2. QED
        BY <2>1, <2>3, <3>2, <4>1
    <3>3. QED
      BY <3>1, <3>2
  <2>5. QED
    BY <2>2, <2>4
<1>8. names(I) \in Seq(Name) /\ Len(names(I)) = c
  <2>1. ASSUME NEW k \in 1 .. c PROVE Headers[nth(I, k)].name \in Name
    <3>1. nth(I, k) \in I
      BY <1>5, <2>1, NthIs
    <3>2. nth(I, k) \in DOMAIN Archive
      BY <3>1 DEF I, Children
    <3>3. QED
      BY <3>2, EntryIs
  <2>2. names(I) = [k \in 1 .. c |-> Headers[nth(I, k)].name]
    BY DEF names
  <2> HIDE DEF c
  <2>3. QED
    BY <1>5, <2>1, <2>2
<1>9. Append(names(I), <<>>) = [k \in 1 .. c + 1 |-> IF k = c + 1 THEN <<>> ELSE names(I)[k]]
  <2>1. <<>> \in Name
    BY EmptySeq DEF Name
  <2> DEFINE s == names(I)
  <2> HIDE DEF c, s
  <2>2. s \in Seq(Name) /\ Len(s) = c
    BY <1>8 DEF s
  <2>3. /\ Append(s, <<>>) \in Seq(Name) /\ Len(Append(s, <<>>)) = c + 1
        /\ \A k \in 1 .. c : Append(s, <<>>)[k] = s[k]
        /\ Append(s, <<>>)[c + 1] = <<>>
    BY <2>1, <2>2, AppendProperties
  <2> DEFINE e == Append(s, <<>>)
  <2>4. e = [k \in 1 .. c + 1 |-> e[k]]
    <3>1. DOMAIN e = 1 .. c + 1 /\ e = [k \in DOMAIN e |-> e[k]]
      BY <2>3, LenProperties, SeqDef
    <3>2. QED
      BY <3>1
  <2>5. ASSUME NEW k \in 1 .. c + 1 PROVE e[k] = IF k = c + 1 THEN <<>> ELSE s[k]
    <3>1. k # c + 1 => k \in 1 .. c
      BY <1>5
    <3>2. QED
      BY <2>3, <3>1
  <2> HIDE DEF e
  <2>6. e = [k \in 1 .. c + 1 |-> IF k = c + 1 THEN <<>> ELSE s[k]]
    BY <2>4, <2>5
  <2>7. QED
    BY <2>6 DEF e, s
<1>10. QED
  BY <1>6, <1>7, <1>8, <1>9

\* What ls and cat show of a directory is what is meant.
LEMMA LsIs ==
  ASSUME NEW cwd \in Name, InRoot(cwd), cut_rootfs(cwd) \in Directories, NEW args \in Line,
         NEW prog, prog = <<"bin", "/", "ls">>
  PROVE  shows(prog, cwd, args) = meant(prog, cwd, args)
<1> DEFINE dir == cut_rootfs(cwd)
           E == Entries(dir)
           cut == [i \in DOMAIN E |-> SubSeq(E[i], Len(dir) + 1, Len(E[i]))]
<1>1. dir = SubSeq(cwd, 3, Len(cwd))
  BY DEF cut_rootfs
<1>2. meant(prog, cwd, args) = IF dir = <<>> THEN Append(cut, <<>>) ELSE cut
  BY <1>1 DEF meant
<1>3. shows(prog, cwd, args) = ls_shows(cwd)
  BY DEF shows
<1>4. cwd = ROOTFS <=> dir = <<>>
  <2>1. cwd = ROOTFS => dir = <<>>
    BY CutRoot
  <2>2. ASSUME dir = <<>> PROVE cwd = ROOTFS
    <3>1. PICK n \in Nat : n = Len(cwd) /\ n >= 2
      BY LenProperties DEF Name, InRoot
    <3>2. ~(3 <= Len(cwd))
      <4>1. 3 <= Len(cwd) => Len(dir) = Len(cwd) - 3 + 1
        BY <1>1, DropIs DEF Name
      <4>2. Len(dir) = 0
        BY <2>2
      <4>3. QED
        BY <3>1, <4>1, <4>2
    <3>3. Len(cwd) = 2 /\ cwd[1] = "rootfs" /\ cwd[2] = "/"
      BY <3>1, <3>2 DEF InRoot
    <3>4. Len(ROOTFS) = 2 /\ ROOTFS[1] = "rootfs" /\ ROOTFS[2] = "/" /\ ROOTFS \in Name
      BY RootIs DEF ROOTFS
    <3>5. \A i \in 1 .. Len(cwd) : cwd[i] = ROOTFS[i]
      BY <3>3, <3>4
    <3>6. QED
      BY <3>3, <3>4, <3>5, SeqEqual DEF Name
  <2>3. QED
    BY <2>1, <2>2
<1>5. CASE dir = <<>>
  <2>1. ls_shows(cwd) = do_read_rootfs
    BY <1>4, <1>5 DEF ls_shows
  <2>2. E \in Seq(Name) /\ do_read_rootfs = Append(E, <<>>)
    BY <1>5, RootfsIs
  <2>3. Len(dir) + 1 = 1
    BY <1>5
  <2> HIDE DEF dir
  <2>4. cut = [i \in DOMAIN E |-> E[i]]
    <3>1. ASSUME NEW i \in DOMAIN E PROVE SubSeq(E[i], 1, Len(E[i])) = E[i]
      <4>1. E[i] \in Name
        BY <2>2, LenProperties, ElementOfSeq
      <4> DEFINE x == E[i]
      <4> HIDE DEF x
      <4>2. x \in Name /\ Len(x) \in Nat
        BY <4>1, LenProperties DEF x, Name
      <4>3. /\ SubSeq(x, 1, Len(x)) \in Name /\ Len(SubSeq(x, 1, Len(x))) = Len(x)
            /\ \A k \in 1 .. Len(x) : SubSeq(x, 1, Len(x))[k] = x[k]
        BY <4>2, TakeIs DEF Name
      <4>4. SubSeq(x, 1, Len(x)) = x
        BY <4>2, <4>3, SeqEqual DEF Name
      <4>5. QED
        BY <4>4 DEF x
    <3>2. QED
      BY <2>3, <3>1
  <2> HIDE DEF E, cut
  <2>5. cut = E
    <3>1. E = [i \in DOMAIN E |-> E[i]]
      BY <2>2, LenProperties, SeqDef
    <3>2. QED
      BY <2>4, <3>1
  <2>6. QED
    BY <1>2, <1>3, <1>5, <2>1, <2>2, <2>5
<1>6. CASE dir # <<>>
  <2>1. do_opendir(dir) # NoFile /\ do_readdir(dir) = E
    BY <1>6, DirectoryName, ReaddirIs
  <2>2. ls_shows(cwd) = cut
    <3>1. E \in Seq(Seq(STRING))
      BY EntriesAre
    <3> DEFINE shown == [names_found \in Seq(Seq(STRING)) |->
                           [i \in DOMAIN names_found |->
                              SubSeq(names_found[i], Len(dir) + 1, Len(names_found[i]))]]
    <3>2. ls_shows(cwd) = shown[E]
      BY <1>4, <1>6, <2>1 DEF ls_shows
    <3>3. shown[E] = cut
      BY <3>1
    <3>4. QED
      BY <3>2, <3>3
  <2>3. QED
    BY <1>2, <1>3, <1>6, <2>2
<1>7. QED
  BY <1>5, <1>6

LEMMA CatIs ==
  ASSUME NEW cwd \in Name, cut_rootfs(cwd) \in Directories, NEW args \in Line,
         NEW prog, prog = <<"bin", "/", "cat">>, prog # <<"bin", "/", "ls">>
  PROVE  shows(prog, cwd, args) = meant(prog, cwd, args)
<1> DEFINE dir == cut_rootfs(cwd)
           name == dir \o args[2]
           I == {j \in DOMAIN Archive : Archive[j].name = name}
           bodies == {Archive[i].body : i \in I}
           file == do_tarfs_open(name)
<1>1. dir = SubSeq(cwd, 3, Len(cwd))
  BY DEF cut_rootfs
<1>2. meant(prog, cwd, args) = IF Len(args) > 1 /\ bodies # {} THEN CHOOSE b \in bodies : TRUE ELSE <<>>
  BY <1>1 DEF meant
<1>3. shows(prog, cwd, args) = cat_shows(cwd, args)
  BY DEF shows
<1>4. param(args) = NoFile <=> ~(Len(args) > 1)
  <2>1. CASE Len(args) > 1
    <3>1. Len(args) \in Nat /\ 2 \in 1 .. Len(args)
      BY <2>1, LenProperties DEF Line
    <3>2. args[2] \in Seq(STRING)
      BY <3>1, ElementOfSeq DEF Line
    <3>3. args[2] # NoFile
      BY <3>2, NoFileAssumption
    <3>4. QED
      BY <2>1, <3>3 DEF param
  <2>2. CASE ~(Len(args) > 1)
    BY <2>2 DEF param
  <2>3. QED
    BY <2>1, <2>2
<1>5. CASE ~(Len(args) > 1)
  BY <1>2, <1>3, <1>4, <1>5 DEF cat_shows
<1>6. CASE Len(args) > 1
  <2>1. cat_shows(cwd, args) = IF file = NoFile THEN <<>> ELSE file.body
    BY <1>4, <1>6 DEF cat_shows, param
  <2> HIDE DEF name
  <2>2. Files = first_header(ToSet(Headers))
    BY DEF Files
  <2>3. ASSUME NEW i \in I PROVE name \in DOMAIN Files
    <3>1. Headers[i] \in ToSet(Headers) /\ Headers[i].name = name
      BY EntryIs, ChildrenAre DEF ToSet
    <3>2. QED
      BY <2>2, <3>1 DEF first_header
  <2>4. ASSUME name \in DOMAIN Files
        PROVE  file # NoFile /\ \/ \E i \in I : file.body = Archive[i].body
                                \/ name = <<>> /\ file.body = <<>>
    <3>1. file = Files[name]
      BY <2>4 DEF do_tarfs_open
    <3>2. Files[name] \in ToSet(Headers) /\ Files[name].name = name
      BY <2>2, <2>4, FirstHeader
    <3>3. PICK j \in DOMAIN Headers : file = Headers[j]
      BY <3>1, <3>2 DEF ToSet
    <3>4. CASE j \in DOMAIN Archive
      BY <3>1, <3>2, <3>3, <3>4, EntryIs, NoFileAssumption
    <3>5. CASE j \notin DOMAIN Archive
      <4>1. file = Trailer
        BY <3>3, <3>5, ChildrenAre
      <4>2. Trailer.name = <<>> /\ Trailer.body = <<>>
        BY DEF Trailer
      <4>3. QED
        BY <3>1, <3>2, <4>1, <4>2, NoFileAssumption
    <3>6. QED
      BY <3>4, <3>5
  <2>5. CASE I = {}
    <3>1. bodies = {}
      BY <2>5
    <3>2. name \notin DOMAIN Files => file = NoFile
      BY DEF do_tarfs_open
    <3> HIDE DEF file, I
    <3>3. file = NoFile \/ file.body = <<>>
      BY <2>4, <2>5, <3>2
    <3>4. QED
      BY <1>2, <1>3, <2>1, <3>1, <3>3
  <2>6. CASE I # {}
    <3>1. PICK i \in I : TRUE
      BY <2>6
    <3>2. \A j \in I : j = i
      BY ArchiveAssumption
    <3>3. name # <<>>
      BY <3>1, EntryIs
    <3>4. name \in DOMAIN Files
      BY <2>3, <3>1
    <3> HIDE DEF file
    <3>5. file # NoFile /\ file.body = Archive[i].body
      BY <2>4, <3>2, <3>3, <3>4
    <3>6. bodies = {Archive[i].body}
      BY <3>1, <3>2
    <3> HIDE DEF bodies, I
    <3>7. bodies # {} /\ (CHOOSE b \in bodies : TRUE) = Archive[i].body
      BY <3>6
    <3>8. QED
      BY <1>2, <1>3, <1>6, <2>1, <3>5, <3>7
  <2>7. QED
    BY <2>5, <2>6
<1>7. QED
  BY <1>5, <1>6

LEMMA ShowsIs ==
  ASSUME NEW cwd \in Name, InRoot(cwd), cut_rootfs(cwd) \in Directories, NEW args \in Line,
         NEW prog
  PROVE  shows(prog, cwd, args) = meant(prog, cwd, args)
<1>1. CASE prog = <<"bin", "/", "ls">>
  BY <1>1, LsIs
<1>2. CASE prog # <<"bin", "/", "ls">> /\ prog = <<"bin", "/", "cat">>
  BY <1>2, CatIs
<1>3. CASE prog # <<"bin", "/", "ls">> /\ prog # <<"bin", "/", "cat">>
  BY <1>3 DEF shows, meant
<1>4. QED
  BY <1>1, <1>2, <1>3
-----------------------------------------------------------------------------
(* Programs show what was asked for.                                       *)

\* Shells, and only they, run a shell's program.
ProgsMatch ==
  \A t \in Tasks :
    IsShell(t) <=> t # Init_task /\ task[t].pc \in {"main", "prompt", "run", "cd"} \cup Waiting

\* The first n steps up from t to those that wait.
Up(X) == UNION {{u} \cup (IF task[u].bg THEN {} ELSE parent_of(u)) : u \in X}

Climbed(f, t, n) ==
  f = [k \in 0 .. n |-> IF k = 0 THEN {t} ELSE Up(f[k - 1])]

LEMMA ClimbExists ==
  ASSUME NEW t, NEW n \in Nat
  PROVE  \E f : Climbed(f, t, n)
<1> DEFINE S == {m \in Nat : \E f : Climbed(f, t, m)}
<1>1. 0 \in S
  <2> DEFINE f == [k \in 0 .. 0 |-> {t}]
  <2>1. Climbed(f, t, 0)
    BY DEF Climbed
  <2>2. QED
    BY <2>1
<1>2. ASSUME NEW m \in Nat, m \in S PROVE m + 1 \in S
  <2>1. PICK f : Climbed(f, t, m)
    BY <1>2
  <2> DEFINE g == [k \in 0 .. m + 1 |-> IF k = m + 1 THEN Up(f[m]) ELSE f[k]]
             item(k) == IF k = 0 THEN {t} ELSE Up(g[k - 1])
  <2>2. \A k \in 0 .. m : f[k] = IF k = 0 THEN {t} ELSE Up(f[k - 1])
    BY <2>1 DEF Climbed
  <2>3. \A k \in 0 .. m : g[k] = f[k]
    OBVIOUS
  <2>4. g[m + 1] = Up(f[m])
    OBVIOUS
  <2>5. ASSUME NEW k \in 0 .. m + 1 PROVE g[k] = item(k)
    <3>1. CASE k = 0
      <4>1. 0 \in 0 .. m
        OBVIOUS
      <4>2. g[0] = f[0] /\ f[0] = {t}
        BY <2>2, <2>3, <4>1
      <4> HIDE DEF g
      <4>3. QED
        BY <3>1, <4>2
    <3>2. CASE k = m + 1
      <4>1. g[k - 1] = f[m] /\ k # 0
        BY <2>3, <3>2
      <4> HIDE DEF g
      <4>2. QED
        BY <2>4, <3>2, <4>1
    <3>3. CASE k # 0 /\ k # m + 1
      <4>1. k \in 0 .. m /\ k - 1 \in 0 .. m
        BY <3>3
      <4>2. g[k] = f[k] /\ g[k - 1] = f[k - 1]
        BY <2>3, <4>1
      <4> HIDE DEF g
      <4>3. QED
        BY <2>2, <3>3, <4>1, <4>2
    <3>4. QED
      BY <3>1, <3>2, <3>3
  <2>6. g = [k \in 0 .. m + 1 |-> item(k)]
    <3>1. g = [k \in 0 .. m + 1 |-> g[k]]
      OBVIOUS
    <3> HIDE DEF g, item
    <3>2. QED
      BY <2>5, <3>1
  <2>7. Climbed(g, t, m + 1)
    <3> HIDE DEF g
    <3>1. QED
      BY <2>6 DEF Climbed
  <2>8. QED
    <3> HIDE DEF g
    <3>1. QED
      BY <2>7
<1>3. \A m \in Nat : m \in S
  <2> HIDE DEF S
  <2>1. QED
    BY <1>1, <1>2, SetInduction
<1>4. QED
  BY <1>3

\* Whoever is in the chain above a running shell waits for a shell, but for
\* that one.
LEMMA ChainIs ==
  ASSUME TypeInv, ForegroundInv, ProgsMatch, NEW t \in Tasks, task[t].pc = "run",
         NEW w \in Chain(t)
  PROVE  w = t \/ (Waits(w) /\ IsShell(task[w].child))
<1> DEFINE f == CHOOSE g : Climbed(g, t, MAX_TASKS)
           good(v) == v \in Tasks /\ (v = t \/ (Waits(v) /\ IsShell(task[v].child)))
           Good(X) == \A v \in X : good(v)
           S == {m \in Nat : m <= MAX_TASKS => Good(f[m])}
<1>1. MAX_TASKS \in Nat
  BY ShellAssumption
<1>2. Climbed(f, t, MAX_TASKS)
  BY <1>1, ClimbExists
<1>3. Chain(t) = f[MAX_TASKS]
  BY DEF Chain, Climbed, Up
<1> HIDE DEF f
<1>4. \A k \in 0 .. MAX_TASKS : f[k] = IF k = 0 THEN {t} ELSE Up(f[k - 1])
  BY <1>2 DEF Climbed
<1>5. ASSUME NEW v, good(v), ~task[v].bg, NEW u \in parent_of(v)
      PROVE  good(u)
  <2>1. u \in Tasks /\ u = task[v].parent /\ u # Nobody /\ v \in Tasks
    BY <1>5, NobodyIs DEF parent_of
  <2>2. Waits(u) /\ task[u].child = v
    BY <1>5, <2>1 DEF ForegroundInv, Awaited
  <2>3. v # Init_task
    BY <2>1 DEF ForegroundInv, InitWaits
  <2>4. IsShell(v)
    BY <1>5, <2>1, <2>3 DEF ProgsMatch, Waits
  <2>5. QED
    BY <2>1, <2>2, <2>4
<1>6. 0 \in S
  <2>1. 0 \in 0 .. MAX_TASKS
    BY <1>1
  <2>2. f[0] = {t}
    BY <1>4, <2>1
  <2>3. QED
    BY <2>2
<1>7. ASSUME NEW m \in Nat, m \in S PROVE m + 1 \in S
  <2> SUFFICES ASSUME m + 1 <= MAX_TASKS PROVE Good(f[m + 1])
    OBVIOUS
  <2>1. Good(f[m])
    BY <1>1, <1>7
  <2>2. f[m + 1] = Up(f[m])
    <3>1. m + 1 \in 0 .. MAX_TASKS /\ m + 1 # 0 /\ (m + 1) - 1 = m
      BY <1>1
    <3>2. QED
      BY <1>4, <3>1
  <2> HIDE DEF good
  <2>3. ASSUME NEW u \in Up(f[m]) PROVE good(u)
    <3>1. PICK v \in f[m] : u = v \/ (~task[v].bg /\ u \in parent_of(v))
      BY <2>3 DEF Up
    <3>2. good(v)
      BY <2>1, <3>1
    <3>3. QED
      BY <1>5, <3>1, <3>2
  <2>4. QED
    BY <2>2, <2>3
<1>8. \A m \in Nat : m \in S
  <2> HIDE DEF S
  <2>1. QED
    BY <1>6, <1>7, SetInduction
<1>9. Good(f[MAX_TASKS])
  BY <1>1, <1>8
<1>10. QED
  BY <1>3, <1>9

LEMMA ShellIsNone == <<>> # SBUSH
<1>1. Len(SBUSH) = 3
  BY DEF SBUSH
<1>2. QED
  BY <1>1

LEMMA ProgsInit ==
  ASSUME Init PROVE ProgsMatch
<1>1. \A t \in Tasks : task[t].prog = <<>>
  BY InitIs, FreeIs DEF Alike
<1>2. QED
  BY <1>1, InitIs, ShellIsNone DEF ProgsMatch, IsShell, Waiting

LEMMA ProgsStep ==
  ASSUME TypeInv, ForegroundInv, ForegroundInv', ProgsMatch, [Next]_vars PROVE ProgsMatch'
<1>1. CASE UNCHANGED vars
  BY <1>1 DEF vars, ProgsMatch, IsShell
<1>2. CASE Next
  <2> DEFINE runs_shell(q) == q.pc # "free" /\ q.prog = SBUSH
             as_shell(q) == q.pc \in {"main", "prompt", "run", "cd"} \cup Waiting
  <2> SUFFICES ASSUME NEW u \in Tasks
               PROVE  runs_shell(task'[u]) <=> u # Init_task /\ as_shell(task'[u])
    BY DEF ProgsMatch, IsShell
  <2>1. runs_shell(task[u]) <=> u # Init_task /\ as_shell(task[u])
    BY DEF ProgsMatch, IsShell
  <2>2. PICK t \in Tasks : Step(t)
    BY <1>2, StepIs
  <2>3. CASE Gone(task'[u])
    BY <2>3 DEF Gone, Waiting
  <2>4. CASE u # t /\ Forks(t, u)
    <3>1. u # Init_task
      BY <2>4 DEF Forks, ForegroundInv, InitWaits, Waiting
    <3>2. QED
      BY <2>4, <3>1 DEF Forks, Waiting
  <2>5. CASE u # t /\ ~Forks(t, u) /\ ~Gone(task'[u])
    <3>1. /\ task'[u].prog = task[u].prog
          /\ task'[u].pc = task[u].pc \/ (task[u].pc = "blocked" /\ task'[u].pc = "woken")
      BY <2>2, <2>5, OthersAre DEF Alike
    <3>2. QED
      BY <2>1, <3>1 DEF Waiting
  <2>6. CASE u = t /\ ~Gone(task'[t])
    <3>1. \/ task'[t].pc = "zombie" /\ task'[t].prog = <<>>
          \/ /\ task'[t].prog = task[t].prog
             /\ \/ task[t].pc = "show" /\ task'[t].pc = "done"
                \/ /\ as_shell(task[t]) \/ (t = Init_task /\ task[t].pc = "fork")
                   /\ as_shell(task'[t]) \/ (t = Init_task /\ task'[t].pc = "fork")
      <4>1. CASE TaskEnds(t)
        BY <2>6, <4>1, FreeIs DEF TaskEnds, Ends, Alike
      <4>2. CASE ~TaskEnds(t)
        BY <2>2, <4>2
           DEF Step, ShellBegins, ProgramShows, ShellActs, ShellGoes, Goes, TaskForks, Forks,
               TaskBlocks, Blocks, Alike, TaskReturns, Returns, Waiting
      <4>3. QED
        BY <4>1, <4>2
    <3>2. QED
      BY <2>1, <2>6, <3>1, ShellIsNone DEF Waiting
  <2>7. QED
    BY <2>3, <2>4, <2>5, <2>6
<1>3. QED
  BY <1>1, <1>2

\* While a program that was started where nobody could interfere has not shown
\* anything, all shells, and init, wait: for it, or for each other, and who
\* waits for a shell has no job whose exit would end that.
WaitFor(t) ==
  \A u \in Tasks : IsShell(u) \/ u = Init_task =>
    Waits(u) /\ (task[u].child = t \/ (IsShell(task[u].child) /\ ~task[u].jobs))

AskedWaits ==
  \A t \in Tasks : task[t].pc = "show" /\ task[t].at # <<>> =>
    task[t].at = cwd_shell /\ WaitFor(t)

\* Meanwhile only programs go on or end, and only the wait for t ends.
LEMMA OnlyPrograms ==
  ASSUME TypeInv, ForegroundInv, ProgsMatch, NEW t \in Tasks, task[t].pc = "show", WaitFor(t),
         NEW r \in Tasks, Step(r)
  PROVE  \/ ~IsShell(r) /\ r # Init_task /\ (ProgramShows(r) \/ TaskEnds(r))
         \/ TaskBlocks(r)
         \/ TaskReturns(r) /\ task[r].child = t
<1>1. CASE IsShell(r) \/ r = Init_task
  <2>1. Waits(r) /\ (task[r].child = t \/ (IsShell(task[r].child) /\ ~task[r].jobs))
    BY <1>1 DEF WaitFor
  <2>2. TaskBlocks(r) \/ TaskReturns(r)
    BY <2>1 DEF Step, ShellBegins, ProgramShows, ShellActs, TaskEnds, TaskForks, ShellGoes,
                Goes, Ends, Forks, Own, Waits, Waiting
  <2>3. ASSUME TaskReturns(r), ~task[r].jobs, IsShell(task[r].child) PROVE FALSE
    <3>1. /\ task[r].child \in Tasks
          /\ task[r].pc = "woken" \/ (task[r].pc = "forked" /\ task[r].wait_pid = task[r].child)
      BY <2>3 DEF TaskReturns, Returns
    <3>2. task[task[r].child].pc = "zombie"
      BY <2>3, <3>1 DEF ForegroundInv, ForegroundIsAwaited
    <3>3. QED
      BY <2>3, <3>1, <3>2 DEF ProgsMatch, Waiting
  <2>4. QED
    BY <2>1, <2>2, <2>3
<1>2. CASE ~IsShell(r) /\ r # Init_task
  <2>1. task[r].pc \notin {"main", "prompt", "run", "cd"} \cup Waiting
    BY <1>2 DEF ProgsMatch
  <2>2. ~ShellBegins(r) /\ ~ShellActs(r) /\ ~TaskForks(r) /\ ~TaskReturns(r) /\ ~TaskBlocks(r)
    BY <1>2, <2>1
       DEF ShellBegins, ShellActs, TaskForks, TaskReturns, TaskBlocks, ShellGoes, Forks,
           Returns, Blocks, Waiting
  <2>3. QED
    BY <1>2, <2>2 DEF Step
<1>3. QED
  BY <1>1, <1>2

LEMMA WaitsInit ==
  ASSUME Init PROVE AskedWaits /\ ShowsWhatWasAsked
BY InitIs DEF AskedWaits, ShowsWhatWasAsked

\* All shells wait for the program that a shell starts where nobody can
\* interfere,
LEMMA StartedWaits ==
  ASSUME TypeInv, ForegroundInv, ProgsMatch, ProgsMatch',
         NEW p \in Tasks, NEW u \in Tasks, Forks(p, u),
         task'[u].pc = "show", task'[u].at # <<>>
  PROVE  task'[u].at = cwd_shell /\ WaitFor(u)'
<1>1. /\ Undisturbed(p) /\ ~task'[u].bg /\ task'[u].at = cwd_shell
      /\ task'[p].pc = "forked" /\ task'[p].child = u /\ p # u /\ task[p].pc = "run"
      /\ \A v \in Tasks : v # p /\ v # u => task'[v] = task[v]
      /\ task[u].pc = "free" /\ task'[p].prog = task[p].prog
  BY DEF Forks
<1>2. ~IsShell(u)' /\ u # Init_task /\ ~IsShell(u)
  BY <1>1 DEF ProgsMatch, IsShell, ForegroundInv, InitWaits, Waiting
<1> SUFFICES ASSUME NEW w \in Tasks, IsShell(w)' \/ w = Init_task
             PROVE  /\ task'[w].pc \in Waiting
                    /\ task'[w].child = u \/ (IsShell(task[w].child)' /\ ~task'[w].jobs)
  BY <1>1 DEF WaitFor, Waits
<1>3. CASE w = p
  BY <1>1, <1>3 DEF Waiting
<1>4. CASE w # p
  <2>1. w # u /\ task'[w] = task[w] /\ (IsShell(w) \/ w = Init_task)
    BY <1>1, <1>2, <1>4 DEF IsShell
  <2>2. w \in Chain(p) /\ ~task[w].jobs
    BY <1>1, <1>4, <2>1 DEF Undisturbed
  <2>3. Waits(w) /\ IsShell(task[w].child)
    BY <1>1, <1>4, <2>2, ChainIs
  <2>4. task[w].child \in Tasks /\ task[w].child # u
    BY <1>2, <2>3, RefsIs DEF ForegroundInv, WaitsForOwn
  <2>5. IsShell(task[w].child)'
    <3>1. CASE task[w].child = p
      BY <1>1, <2>1, <2>3, <3>1 DEF IsShell
    <3>2. CASE task[w].child # p
      BY <1>1, <2>1, <2>3, <2>4, <3>2 DEF IsShell
    <3>3. QED
      BY <3>1, <3>2
  <2>6. QED
    BY <2>1, <2>2, <2>3, <2>5 DEF Waits
<1>5. QED
  BY <1>3, <1>4

\* and go on waiting, as nothing but programs end.
LEMMA WaitsStep ==
  ASSUME TypeInv, ForegroundInv, ForegroundInv', ProgsMatch, ProgsMatch', AskedWaits,
         [Next]_vars
  PROVE  AskedWaits'
<1>1. CASE UNCHANGED vars
  BY <1>1 DEF vars, AskedWaits, WaitFor, IsShell, Waits
<1>2. CASE Next
  <2>1. PICK r \in Tasks : Step(r)
    BY <1>2, StepIs
  <2> SUFFICES ASSUME NEW t \in Tasks, task'[t].pc = "show", task'[t].at # <<>>
               PROVE  task'[t].at = cwd_shell' /\ WaitFor(t)'
    BY DEF AskedWaits
  <2>2. t # r /\ ~Gone(task'[t])
    BY <2>1 DEF Step, ShellBegins, ProgramShows, ShellActs, ShellGoes, TaskEnds, Ends, Gone,
                TaskForks, Forks, TaskBlocks, Blocks, TaskReturns, Returns
  <2>3. CASE Forks(r, t) /\ TaskForks(r)
    BY <2>3, StartedWaits DEF TaskForks
  <2>4. CASE ~(Forks(r, t) /\ TaskForks(r))
    <3>1. task[t].pc = "show" /\ task'[t].at = task[t].at
      BY <2>1, <2>2, <2>4, OthersAre DEF Alike
    <3>2. task[t].at = cwd_shell /\ WaitFor(t)
      BY <2>2, <3>1 DEF AskedWaits
    <3>3. \/ ~IsShell(r) /\ r # Init_task /\ (ProgramShows(r) \/ TaskEnds(r))
          \/ TaskBlocks(r)
      <4>1. ~(TaskReturns(r) /\ task[r].child = t)
        BY <2>2 DEF TaskReturns, Returns
      <4>2. QED
        BY <2>1, <3>1, <3>2, <4>1, OnlyPrograms
    <3>4. cwd_shell' = cwd_shell /\ (~IsShell(r) => ~IsShell(r)')
      BY <3>3 DEF ProgramShows, Goes, TaskEnds, Ends, Gone, TaskBlocks, Blocks, Only, Alike,
                  IsShell, ProgsMatch, Waiting
    \* What a living task was doing it does.
    <3>5. ASSUME NEW u \in Tasks, ~Gone(task'[u]), u # r \/ TaskBlocks(r)
          PROVE  /\ task'[u].child = task[u].child /\ task'[u].jobs = task[u].jobs
                 /\ IsShell(u)' <=> IsShell(u)
                 /\ task[u].pc \in Waiting => task'[u].pc \in Waiting
      <4>1. CASE u = r
        BY <3>5, <4>1 DEF TaskBlocks, Blocks, Alike, IsShell, Waiting
      <4>2. CASE u # r
        <5>1. ~TaskForks(r)
          BY <3>3 DEF TaskForks, Forks, ProgramShows, Goes, TaskEnds, Ends, TaskBlocks, Blocks,
                      Own, ProgsMatch
        <5>2. /\ Alike(task'[u], task[u])
              /\ \/ task'[u].pc = task[u].pc
                 \/ task[u].pc = "blocked" /\ task'[u].pc = "woken"
          BY <2>1, <3>5, <4>2, <5>1, OthersAre
        <5>3. QED
          BY <5>2 DEF Alike, IsShell, Waiting
      <4>3. QED
        BY <4>1, <4>2
    <3> SUFFICES ASSUME NEW u \in Tasks, IsShell(u)' \/ u = Init_task
                 PROVE  /\ task'[u].pc \in Waiting
                        /\ task'[u].child = t \/ (IsShell(task[u].child)' /\ ~task'[u].jobs)
      BY <3>1, <3>2, <3>4 DEF WaitFor, Waits
    <3>6. ~Gone(task'[u]) /\ (u # r \/ TaskBlocks(r))
      <4>1. ~Gone(task'[u])
        BY DEF Gone, IsShell, ForegroundInv, InitWaits, Waiting
      <4>2. QED
        BY <3>3, <3>4, <4>1
    <3>7. /\ task[u].pc \in Waiting /\ (IsShell(u) \/ u = Init_task)
          /\ task[u].child = t \/ (IsShell(task[u].child) /\ ~task[u].jobs)
      BY <3>2, <3>5, <3>6 DEF WaitFor, Waits
    <3>8. /\ task'[u].child = task[u].child /\ task'[u].jobs = task[u].jobs
          /\ task'[u].pc \in Waiting
      BY <3>5, <3>6, <3>7
    <3>9. ASSUME IsShell(task[u].child) PROVE IsShell(task[u].child)'
      <4>1. PICK c \in Tasks : c = task[u].child
        BY <3>7, RefsIs DEF ForegroundInv, WaitsForOwn, Waits
      <4>2. task'[c].parent = u /\ u # Nobody
        BY <3>8, <4>1, NobodyIs DEF ForegroundInv, WaitsForOwn, Waits
      <4>3. ~Gone(task'[c]) /\ (c # r \/ TaskBlocks(r))
        BY <3>3, <3>9, <4>1, <4>2 DEF Gone
      <4>4. IsShell(c)' <=> IsShell(c)
        BY <3>5, <4>3
      <4>5. QED
        BY <3>8, <3>9, <4>1, <4>4 DEF IsShell
    <3>10. QED
      BY <3>7, <3>8, <3>9
  <2>5. QED
    BY <2>3, <2>4
<1>3. QED
  BY <1>1, <1>2

\* What is shown is what was asked for, as the directory is the one it was.
LEMMA ShownStep ==
  ASSUME TypeInv, ForegroundInv, DirectoryInv, AskedWaits, ShowsWhatWasAsked, [Next]_vars
  PROVE  ShowsWhatWasAsked'
<1>1. CASE UNCHANGED vars
  BY <1>1 DEF vars, ShowsWhatWasAsked
<1>2. CASE Next
  <2>1. PICK r \in Tasks : Step(r)
    BY <1>2, StepIs
  <2> SUFFICES ASSUME NEW t \in Tasks, task'[t].pc = "done", task'[t].at # <<>>
               PROVE  task'[t].out = meant(task'[t].prog, task'[t].at, task'[t].args)
    BY DEF ShowsWhatWasAsked
  <2>2. CASE t # r
    <3>1. Alike(task'[t], task[t]) /\ task[t].pc = "done"
      BY <2>1, <2>2, OthersAre DEF Gone, Forks
    <3>2. QED
      BY <3>1 DEF ShowsWhatWasAsked, Alike
  <2>3. CASE t = r /\ ProgramShows(r)
    <3>1. /\ task[t].pc = "show"
          /\ task'[t].at = task[t].at /\ task'[t].args = task[t].args
          /\ task'[t].prog = task[t].prog
          /\ task'[t].out = shows(task[t].prog, cwd_shell, task[t].args)
      BY <2>3 DEF ProgramShows, Goes
    <3>2. task[t].at = cwd_shell /\ cwd_shell # <<>>
      BY <3>1 DEF AskedWaits
    <3>3. /\ InRoot(cwd_shell) /\ cut_rootfs(cwd_shell) \in Directories
          /\ cwd_shell \in Name /\ task[t].args \in Line
      BY <3>2 DEF DirectoryInv, TypeInv, IsTask
    <3>4. shows(task[t].prog, cwd_shell, task[t].args)
            = meant(task[t].prog, cwd_shell, task[t].args)
      BY <3>3, ShowsIs
    <3>5. QED
      BY <3>1, <3>2, <3>4
  <2>4. t = r => ProgramShows(r)
    BY <2>1 DEF Step, ShellBegins, ShellActs, ShellGoes, TaskEnds, Ends, Gone, TaskForks,
                Forks, TaskBlocks, Blocks, TaskReturns, Returns
  <2>5. QED
    BY <2>2, <2>3, <2>4
<1>3. QED
  BY <1>1, <1>2

\* A program that nobody can interfere with shows what its line asked for, in
\* the directory it was typed in, in every archive and with jobs that end at
\* any time: between the fork and the moment it asks the kernel for the
\* directory all shells wait, none of the outer ones has a job whose exit would
\* end that (do_exit), and ls and cat make of the archive what it means.
THEOREM ProgramsShowWhatWasAsked == Spec => []ShowsWhatWasAsked
<1>1. Init => DirectoryInv /\ ProgsMatch /\ AskedWaits /\ ShowsWhatWasAsked
  BY DirectoryInit, ProgsInit, WaitsInit
<1>2. TypeInv /\ ForegroundInv /\ ForegroundInv' /\ DirectoryInv /\ ProgsMatch /\ AskedWaits
        /\ ShowsWhatWasAsked /\ [Next]_vars
        => (DirectoryInv /\ ProgsMatch /\ AskedWaits /\ ShowsWhatWasAsked)'
  BY DirectoryStep, ProgsStep, WaitsStep, ShownStep
<1>3. QED
  BY <1>1, <1>2, ForegroundInvariant, PTL DEF Spec
-----------------------------------------------------------------------------
(* What a shell executes.                                                  *)

\* The lines that shells are given, by users and by the scripts of the
\* archive, and the names that the first word of a line can stand for.
GivenLines == Lines \cup UNION {ToSet(script_of(Archive[i])) : i \in DOMAIN Archive}

NamedBy(cmd) ==
  {dir \o cmd : dir \in Directories}
    \cup {FULL_PATH[i] \o <<"/">> \o cmd : i \in DOMAIN FULL_PATH}

\* Nobody names as a command a file that is none.
LinesNamePrograms ==
  /\ SBUSH \in Programs
  /\ \A line \in GivenLines : ~dies(line) /\ line[1] \notin Builtin =>
       \A name \in NamedBy(line[1]) : check_file_exist(name) = 0 => name \in Programs

\* A shell runs a line that was given, and so it goes on in its scripts.
IsGiven(r) ==
  /\ r.script \in Seq(Seq(GivenLines))
  /\ r.pc = "run" => r.args \in GivenLines

AllGiven == \A t \in Tasks : IsGiven(task[t])

ProgramsRun ==
  \A t \in Tasks : task[t].pc \in {"main", "show", "done"} => task[t].prog \in Programs

LEMMA UnfinishedGiven ==
  ASSUME NEW s \in Seq(Seq(GivenLines))
  PROVE  unfinished(s) \in Seq(Seq(GivenLines))
BY HeadTailProperties DEF unfinished

LEMMA ResumedGiven ==
  ASSUME NEW r, DOMAIN r = Fields, NEW left \in Seq(Seq(GivenLines)),
         \A i \in 1 .. Len(left) : left[i] # <<>>
  PROVE  IsGiven(resumed(r, left))
<1>1. CASE left = <<>>
  <2> DEFINE q == [r EXCEPT !.pc = "prompt", !.args = <<>>, !.path = <<>>,
                            !.script = <<>>, !.child = Nobody, !.jobs = FALSE]
  <2>1. q.pc = "prompt" /\ q.script = <<>>
    BY DEF Fields
  <2>2. resumed(r, left) = q
    BY <1>1 DEF resumed, prompted
  <2>3. <<>> \in Seq(Seq(GivenLines))
    BY EmptySeq
  <2> HIDE DEF q
  <2>4. QED
    BY <2>1, <2>2, <2>3 DEF IsGiven
<1>2. CASE left # <<>>
  <2> DEFINE line  == Head(Head(left))
             rest  == Tail(Head(left))
             outer == Tail(left)
             stack == <<rest>> \o outer
             q == [r EXCEPT !.pc = "run", !.args = line, !.path = <<>>,
                            !.script = stack, !.child = Nobody, !.jobs = FALSE]
  <2>1. /\ Head(left) \in Seq(GivenLines) /\ outer \in Seq(Seq(GivenLines))
        /\ Head(left) # <<>>
    <3>1. Len(left) \in Nat /\ Len(left) # 0 /\ Head(left) = left[1]
      BY <1>2, LenProperties, EmptySeq
    <3>2. QED
      BY <1>2, <3>1, HeadTailProperties
  <2>2. line \in GivenLines /\ rest \in Seq(GivenLines)
    BY <2>1, HeadTailProperties
  <2>3. resumed(r, left) = q
    BY <1>2 DEF resumed
  <2> HIDE DEF line, rest, outer
  <2>4. stack \in Seq(Seq(GivenLines))
    BY <2>1, <2>2, PushIs
  <2> HIDE DEF stack
  <2>5. q.script = stack /\ q.args = line
    BY DEF Fields
  <2> HIDE DEF q
  <2>6. QED
    BY <2>2, <2>3, <2>4, <2>5 DEF IsGiven
<1>3. QED
  BY <1>1, <1>2

LEMMA ContinuedGiven ==
  ASSUME NEW r, IsTask(r), IsGiven(r)
  PROVE  IsGiven(continued(r))
<1>1. IsScript(r.script) /\ DOMAIN r = Fields /\ r.script \in Seq(Seq(GivenLines))
  BY DEF IsTask, IsGiven
<1>2. QED
  BY <1>1, UnfinishedIs, UnfinishedGiven, ResumedGiven DEF continued

\* A script that is run is one of the archive's, or empty.
LEMMA ScriptGiven ==
  ASSUME NEW name
  PROVE  script_of(do_tarfs_open(name)) \in Seq(GivenLines)
<1> DEFINE file == do_tarfs_open(name)
<1>1. <<>> \in Seq(GivenLines)
  BY EmptySeq
<1>2. CASE file = NoFile
  <2>1. script_of(file) = <<>>
    BY <1>2 DEF script_of
  <2>2. QED
    BY <1>1, <2>1
<1>3. CASE file # NoFile
  <2>1. name \in DOMAIN Files /\ file = Files[name]
    BY <1>3 DEF do_tarfs_open
  <2>2. file \in ToSet(Headers) /\ file \in Header
    BY <1>3, <2>1, FirstHeader, OpenIs DEF Files
  <2> HIDE DEF file
  <2>3. Len(Archive) \in Nat /\ DOMAIN Headers = 1 .. Len(Archive) + 1
        /\ DOMAIN Archive = 1 .. Len(Archive)
    BY HeadersIs, LenProperties
  <2>4. PICK i \in 1 .. Len(Archive) + 1 : Headers[i] = file
    BY <2>2, <2>3 DEF ToSet
  <2>5. CASE i = Len(Archive) + 1
    <3>1. file = Trailer
      BY <2>4, <2>5, HeadersIs
    <3>2. script_of(file) = <<>>
      BY <3>1 DEF Trailer, script_of
    <3>3. QED
      BY <1>1, <3>2 DEF file
  <2>6. CASE i # Len(Archive) + 1
    <3>1. i \in DOMAIN Archive /\ Archive[i] = file
      BY <2>3, <2>4, <2>6, HeadersIs
    <3>2. script_of(file) \in Seq(Line)
      BY <2>2, ScriptIs
    <3> DEFINE s == script_of(file)
    <3>3. ToSet(s) \subseteq GivenLines
      BY <3>1 DEF GivenLines
    <3>4. s \in Seq(ToSet(s))
      <4> HIDE DEF s
      <4>1. Len(s) \in Nat /\ s \in [1 .. Len(s) -> Line] /\ DOMAIN s = 1 .. Len(s)
        BY <3>2, LenProperties DEF s
      <4>2. \A j \in 1 .. Len(s) : s[j] \in ToSet(s)
        BY <4>1 DEF ToSet
      <4>3. s \in [1 .. Len(s) -> ToSet(s)]
        BY <4>1, <4>2
      <4>4. QED
        BY <4>1, <4>3, SeqDef
    <3> HIDE DEF s
    <3>5. s \in Seq(GivenLines)
      BY <3>3, <3>4, SeqWiden
    <3>6. QED
      BY <3>5 DEF s, file
  <2>7. QED
    BY <2>4, <2>5, <2>6
<1>4. QED
  BY <1>2, <1>3

\* What a search finds is a file that its command can stand for.
LEMMA SearchNames ==
  ASSUME NEW cwd, cut_rootfs(cwd) \in Directories, NEW cmd \in Name,
         NEW PATH, PATH = FULL_PATH \/ PATH = First,
         search(cwd, cmd, PATH) # NoFile
  PROVE  /\ search(cwd, cmd, PATH) \in NamedBy(cmd)
         /\ check_file_exist(search(cwd, cmd, PATH)) = 0
<1> DEFINE d == direct(cwd, cmd)
           in_path(i) == PATH[i] \o <<"/">> \o cmd
           found(i) == check_file_exist(in_path(i)) = 0
           m == CHOOSE i \in DOMAIN PATH : found(i) /\ \A j \in 1 .. i - 1 : ~found(j)
<1>1. search(cwd, cmd, PATH) = IF check_file_exist(d) = 0 THEN d
                               ELSE IF \A i \in DOMAIN PATH : ~found(i) THEN NoFile
                               ELSE in_path(m)
  BY DEF search
<1>2. d \in NamedBy(cmd)
  <2>1. CASE IsPrefix(<<"bin", "/">>, cmd)
    <3>1. d = cmd /\ cmd = <<>> \o cmd
      BY <2>1, ConcatEmptySeq DEF direct, Name
    <3>2. <<>> \in Directories
      BY DEF Directories
    <3> HIDE DEF d
    <3>3. QED
      BY <3>1, <3>2 DEF NamedBy
  <2>2. CASE ~IsPrefix(<<"bin", "/">>, cmd)
    <3>1. d = cut_rootfs(cwd) \o cmd
      BY <2>2 DEF direct
    <3> HIDE DEF d
    <3>2. QED
      BY <3>1 DEF NamedBy
  <2>3. QED
    BY <2>1, <2>2
<1>3. /\ DOMAIN PATH = {1} \/ DOMAIN PATH = {1, 2}
      /\ \A i \in DOMAIN PATH : i \in DOMAIN FULL_PATH /\ PATH[i] = FULL_PATH[i]
  BY PathsAre
<1>4. ASSUME NEW i \in DOMAIN PATH PROVE in_path(i) \in NamedBy(cmd)
  <2>1. i \in DOMAIN FULL_PATH /\ in_path(i) = FULL_PATH[i] \o <<"/">> \o cmd
    BY <1>3
  <2> HIDE DEF in_path
  <2>2. QED
    BY <2>1 DEF NamedBy
<1> HIDE DEF d, in_path
<1>5. CASE check_file_exist(d) = 0
  BY <1>1, <1>2, <1>5
<1>6. CASE check_file_exist(d) # 0
  <2>1. \E i \in DOMAIN PATH : found(i)
    BY <1>1, <1>6
  <2>2. \E i \in DOMAIN PATH : found(i) /\ \A j \in 1 .. i - 1 : ~found(j)
    <3> HIDE DEF found
    <3>1. CASE found(1)
      <4>1. \A j \in 1 .. 1 - 1 : ~found(j)
        OBVIOUS
      <4>2. QED
        BY <1>3, <3>1, <4>1
    <3>2. CASE ~found(1)
      <4>1. found(2) /\ 2 \in DOMAIN PATH
        BY <1>3, <2>1, <3>2
      <4>2. \A j \in 1 .. 2 - 1 : j = 1
        OBVIOUS
      <4>3. QED
        BY <3>2, <4>1, <4>2
    <3>3. QED
      BY <3>1, <3>2
  <2>3. m \in DOMAIN PATH /\ found(m)
    <3> HIDE DEF found
    <3>1. QED
      BY <2>2
  <2>4. search(cwd, cmd, PATH) = in_path(m)
    BY <1>1, <1>6, <2>1
  <2> HIDE DEF m
  <2>5. QED
    BY <1>4, <2>3, <2>4
<1>7. QED
  BY <1>5, <1>6

LEMMA FreeGiven ==
  ASSUME NEW q, Alike(q, Free), q.pc # "run" PROVE IsGiven(q)
<1>1. <<>> \in Seq(Seq(GivenLines))
  BY EmptySeq
<1>2. Free.script = <<>>
  BY DEF Free
<1>3. QED
  BY <1>1, <1>2 DEF IsGiven, Alike

LEMMA GivenInit ==
  ASSUME Init PROVE AllGiven /\ ProgramsRun
BY InitIs, FreeGiven DEF AllGiven, ProgramsRun

\* A task goes on with nothing but what it was given.
LEMMA GivenGoesOn ==
  ASSUME TypeInv, AllGiven, NEW t \in Tasks, goes_on(t)
  PROVE  Only(t) /\ IsGiven(task'[t])
<1>1. IsTask(task[t]) /\ IsGiven(task[t])
  BY DEF TypeInv, AllGiven
<1>2. task' = [task EXCEPT ![t] = continued(task[t])]
  BY DEF goes_on, TypeInv
<1>3. Only(t) /\ task'[t] = continued(task[t])
  BY <1>2, OnlyIs
<1>4. QED
  BY <1>1, <1>3, ContinuedGiven

\* So do the steps that leave the scripts alone and run no line of them,
LEMMA GivenAlone ==
  ASSUME TypeInv, AllGiven, NEW t \in Tasks,
         main(t) \/ cd_cmd(t) \/ program_main(t)
  PROVE  Only(t) /\ IsGiven(task'[t])
<1>1. IsTask(task[t]) /\ IsGiven(task[t])
  BY DEF TypeInv, AllGiven
<1>2. PICK q : /\ task' = [task EXCEPT ![t] = q]
               /\ q.pc # "run" /\ q.script = task[t].script
  <2>1. CASE main(t)
    <3> DEFINE q == [task[t] EXCEPT !.pc = "prompt", !.PATH = FULL_PATH]
    <3>1. task' = [task EXCEPT ![t] = q]
      BY <1>1, <2>1 DEF main, TypeInv, IsTask, Fields
    <3>2. q.pc = "prompt" /\ q.script = task[t].script
      BY <1>1 DEF IsTask, Fields
    <3> HIDE DEF q
    <3>3. QED
      BY <3>1, <3>2
  <2>2. CASE cd_cmd(t)
    <3> DEFINE q == [task[t] EXCEPT !.pc = "cd",
                            !.path = cd_path(cwd_shell, param(task[t].args))]
    <3>1. task' = [task EXCEPT ![t] = q]
      BY <1>1, <2>2 DEF cd_cmd, TypeInv, IsTask, Fields
    <3>2. q.pc = "cd" /\ q.script = task[t].script
      BY <1>1 DEF IsTask, Fields
    <3> HIDE DEF q
    <3>3. QED
      BY <3>1, <3>2
  <2>3. CASE program_main(t)
    <3> DEFINE q == [task[t] EXCEPT !.pc = "done",
                            !.out = shows(task[t].prog, cwd_shell, task[t].args)]
    <3>1. task' = [task EXCEPT ![t] = q]
      BY <1>1, <2>3 DEF program_main, TypeInv, IsTask, Fields
    <3>2. q.pc = "done" /\ q.script = task[t].script
      BY <1>1 DEF IsTask, Fields
    <3> HIDE DEF q
    <3>3. QED
      BY <3>1, <3>2
  <2>4. QED
    BY <2>1, <2>2, <2>3
<1>3. Only(t) /\ task'[t] = q
  BY <1>2, OnlyIs
<1>4. QED
  BY <1>1, <1>2, <1>3 DEF IsGiven

LEMMA GivenGets ==
  ASSUME TypeInv, AllGiven, NEW t \in Tasks, NEW line \in Lines, gets(t, line)
  PROVE  Only(t) /\ IsGiven(task'[t])
<1>1. IsTask(task[t]) /\ IsGiven(task[t])
  BY DEF TypeInv, AllGiven
<1> DEFINE q == [task[t] EXCEPT !.pc = "run", !.args = line]
<1>2. task' = [task EXCEPT ![t] = q]
  BY <1>1 DEF gets, TypeInv, IsTask
<1>3. q.args = line /\ q.script = task[t].script
  BY <1>1 DEF IsTask, Fields
<1>4. Only(t) /\ task'[t] = q
  BY <1>2, OnlyIs
<1> HIDE DEF q
<1>5. line \in GivenLines
  BY DEF GivenLines
<1>6. QED
  BY <1>1, <1>3, <1>4, <1>5 DEF IsGiven

LEMMA GivenScript ==
  ASSUME TypeInv, AllGiven, NEW t \in Tasks, sh_cmd(t)
  PROVE  Only(t) /\ IsGiven(task'[t])
<1>1. IsTask(task[t]) /\ IsGiven(task[t])
  BY DEF TypeInv, AllGiven
<1> DEFINE name == param(task[t].args)
           file == cut_rootfs(cwd_shell) \o name
           script == IF name = NoFile THEN <<>> ELSE script_of(do_tarfs_open(file))
           left == unfinished(task[t].script)
           stack == <<script>> \o left
           q == resumed(task[t], unfinished(stack))
<1>2. script \in Seq(GivenLines) /\ script \in Seq(Line)
  <2> HIDE DEF name, file
  <2>1. do_tarfs_open(file) = NoFile \/ do_tarfs_open(file) \in Header
    BY OpenIs
  <2>2. /\ script_of(do_tarfs_open(file)) \in Seq(Line)
        /\ script_of(do_tarfs_open(file)) \in Seq(GivenLines)
        /\ <<>> \in Seq(Line) /\ <<>> \in Seq(GivenLines)
    BY <2>1, ScriptIs, ScriptGiven, EmptySeq
  <2>3. QED
    BY <2>2
<1>3. task' = [task EXCEPT ![t] = q]
  <2>1. task' = [task EXCEPT ![t] =
                   resumed(task[t], unfinished(<<script>> \o unfinished(task[t].script)))]
    BY DEF sh_cmd, TypeInv
  <2>2. QED
    BY <2>1
<1>4. /\ left \in Seq(Seq(Line)) /\ \A i \in 1 .. Len(left) : left[i] # <<>>
      /\ left \in Seq(Seq(GivenLines))
  BY <1>1, UnfinishedIs, UnfinishedGiven DEF IsTask, IsGiven
<1> HIDE DEF script, left
<1>5. IsScript(stack) /\ stack \in Seq(Seq(GivenLines))
  <2>1. /\ stack \in Seq(Seq(Line)) /\ Len(stack) = Len(left) + 1
        /\ \A i \in 2 .. Len(left) + 1 : stack[i] = left[i - 1]
        /\ stack \in Seq(Seq(GivenLines))
    BY <1>2, <1>4, PushIs
  <2> HIDE DEF stack
  <2>2. \A i \in 2 .. Len(left) + 1 : i - 1 \in 1 .. Len(left)
    BY <1>4, LenProperties
  <2>3. QED
    BY <1>4, <2>1, <2>2 DEF IsScript
<1> HIDE DEF stack
<1>6. IsGiven(q)
  BY <1>1, <1>5, UnfinishedIs, UnfinishedGiven, ResumedGiven DEF IsTask
<1> HIDE DEF q
<1>7. Only(t) /\ task'[t] = q
  BY <1>3, OnlyIs
<1>8. QED
  BY <1>6, <1>7

LEMMA GivenNotFound ==
  ASSUME TypeInv, AllGiven, NEW t \in Tasks, not_found(t)
  PROVE  Only(t) /\ IsGiven(task'[t])
<1>1. IsTask(task[t]) /\ IsGiven(task[t])
  BY DEF TypeInv, AllGiven
<1> DEFINE c == continued(task[t])
           PATH == PATH_after(cwd_shell, task[t].args[1], c.PATH)
           q == [c EXCEPT !.PATH = PATH]
<1>2. IsTask(c) /\ IsGiven(c)
  BY <1>1, ContinuedIs, ContinuedGiven
<1>3. task' = [task EXCEPT ![t] = q]
  BY DEF not_found
<1> HIDE DEF c, PATH
<1>4. q.pc = c.pc /\ q.script = c.script /\ q.args = c.args
  BY <1>2 DEF IsTask, Fields
<1> HIDE DEF q
<1>5. Only(t) /\ task'[t] = q
  BY <1>3, OnlyIs
<1>6. QED
  BY <1>2, <1>4, <1>5 DEF IsGiven

LEMMA GivenWaits ==
  ASSUME TypeInv, AllGiven, NEW t \in Tasks, NEW u \in Tasks
  PROVE  IsGiven(forked(t, u))
<1>1. DOMAIN task[t] = Fields /\ IsGiven(task[t])
  BY DEF TypeInv, AllGiven, IsTask
<1> DEFINE jobs == children(t) # {}
           q == [task[t] EXCEPT !.pc = "forked", !.child = u, !.args = <<>>, !.jobs = jobs]
<1>2. forked(t, u) = q
  BY DEF forked
<1> HIDE DEF jobs
<1>3. q.pc = "forked" /\ q.script = task[t].script
  BY <1>1 DEF Fields
<1> HIDE DEF q
<1>4. QED
  BY <1>1, <1>2, <1>3 DEF IsGiven

LEMMA GivenChild ==
  ASSUME NEW t, NEW prog, NEW line
  PROVE  IsGiven(child_of(t, prog, line))
<1> DEFINE bg == line # <<>> /\ line[Len(line)] = <<"&">>
           pc == IF prog = SBUSH THEN "main" ELSE "show"
           at == IF prog # SBUSH /\ ~bg /\ Undisturbed(t) THEN cwd_shell ELSE <<>>
           q  == [Free EXCEPT !.pc = pc, !.prog = prog, !.args = arguments(line),
                              !.parent = t, !.bg = bg, !.at = at]
<1>1. child_of(t, prog, line) = q
  BY DEF child_of
<1>2. pc # "run"
  OBVIOUS
<1> HIDE DEF bg, pc, at
<1>3. q.pc = pc /\ q.script = Free.script
  BY FreeIs DEF Fields
<1> HIDE DEF q
<1>4. <<>> \in Seq(Seq(GivenLines)) /\ Free.script = <<>>
  BY EmptySeq DEF Free
<1>5. QED
  BY <1>1, <1>2, <1>3, <1>4 DEF IsGiven

\* A fork gives its child no script and its parent nothing new.
LEMMA GivenForks ==
  ASSUME TypeInv, AllGiven, NEW t \in Tasks,
         executeCmd(t) \/ (t = Init_task /\ init_fork),
         NEW v \in Tasks
  PROVE  IsGiven(task'[v])
<1>1. IsTask(task[t]) /\ IsGiven(task[t]) /\ IsGiven(task[v])
  BY DEF TypeInv, AllGiven
<1>2. PICK u, q, r :
        /\ u \in Tasks
        /\ task' = [task EXCEPT ![u] = q, ![t] = r]
        /\ IsGiven(q) /\ IsGiven(r)
  <2>1. CASE executeCmd(t)
    <3> DEFINE line == task[t].args
               prog == search(cwd_shell, line[1], task[t].PATH)
               PATH == PATH_after(cwd_shell, line[1], task[t].PATH)
               after(u) == [IF isBgJob(line) THEN continued(task[t]) ELSE forked(t, u)
                              EXCEPT !.PATH = PATH_after(cwd_shell, line[1], @)]
    <3>1. PICK u \in free_task(prog) : forks(t, u, prog, line, after(u))
      BY <2>1 DEF executeCmd
    <3>2. u \in Tasks
      BY <3>1 DEF free_task
    <3> DEFINE q == child_of(t, prog, line)
               p == IF isBgJob(line) THEN continued(task[t]) ELSE forked(t, u)
               r == after(u)
    <3>3. task' = [task EXCEPT ![u] = q, ![t] = r]
      BY <3>1 DEF forks
    <3>4. IsGiven(q)
      BY GivenChild
    <3>5. IsTask(p) /\ IsGiven(p)
      <4>1. CASE isBgJob(line)
        <5>1. p = continued(task[t])
          BY <4>1
        <5> HIDE DEF p
        <5>2. QED
          BY <1>1, <5>1, ContinuedIs, ContinuedGiven
      <4>2. CASE ~isBgJob(line)
        <5>1. p = forked(t, u)
          BY <4>2
        <5> HIDE DEF p
        <5>2. QED
          BY <3>2, <5>1, ForkedIs, GivenWaits
      <4>3. QED
        BY <4>1, <4>2
    <3>6. r = [p EXCEPT !.PATH = PATH_after(cwd_shell, line[1], @)]
      OBVIOUS
    <3> HIDE DEF p, q, r
    <3>7. r.pc = p.pc /\ r.script = p.script /\ r.args = p.args
      BY <3>5, <3>6 DEF IsTask, Fields
    <3>8. IsGiven(r)
      BY <3>5, <3>7 DEF IsGiven
    <3>9. QED
      BY <3>2, <3>3, <3>4, <3>8
  <2>2. CASE t = Init_task /\ init_fork
    <3>1. PICK u \in free_task(SBUSH) :
            forks(Init_task, u, SBUSH, <<>>, forked(Init_task, u))
      BY <2>2 DEF init_fork
    <3>2. u \in Tasks
      BY <3>1 DEF free_task
    <3> DEFINE q == child_of(t, SBUSH, <<>>)
               r == forked(t, u)
    <3>3. task' = [task EXCEPT ![u] = q, ![t] = r]
      BY <2>2, <3>1 DEF forks
    <3>4. IsGiven(q) /\ IsGiven(r)
      BY <3>2, GivenChild, GivenWaits
    <3>5. QED
      BY <3>2, <3>3, <3>4
  <2>3. QED
    BY <2>1, <2>2
<1>3. task'[v] \in {task[v], q, r}
  BY <1>2 DEF TypeInv
<1>4. QED
  BY <1>1, <1>2, <1>3

\* Neither an exit nor a wait gives anybody anything.
LEMMA GivenOthers ==
  ASSUME TypeInv, ForegroundInv, AllGiven, NEW t \in Tasks,
         TaskEnds(t) \/ TaskBlocks(t) \/ TaskReturns(t), NEW v \in Tasks
  PROVE  IsGiven(task'[v])
<1>1. IsTask(task[t]) /\ IsGiven(task[t]) /\ IsGiven(task[v])
  BY DEF TypeInv, AllGiven
<1>2. CASE Gone(task'[v])
  BY <1>2, FreeGiven DEF Gone
<1>3. CASE v # t /\ ~Gone(task'[v])
  <2>1. Step(t) /\ ~Forks(t, v)
    BY FreeIs DEF Step, TaskEnds, Ends, Gone, TaskBlocks, Blocks, TaskReturns, Returns, Forks
  <2>2. /\ Alike(task'[v], task[v])
        /\ \/ task'[v].pc = task[v].pc
           \/ task[v].pc = "blocked" /\ task'[v].pc = "woken"
    BY <1>3, <2>1, OthersAre
  <2>3. QED
    BY <1>1, <2>2 DEF Alike, IsGiven
<1>4. CASE v = t /\ ~Gone(task'[t])
  <2>1. CASE TaskEnds(t)
    BY <1>4, <2>1, FreeGiven DEF TaskEnds, Ends
  <2>2. CASE TaskBlocks(t)
    BY <1>1, <1>4, <2>2 DEF TaskBlocks, Blocks, Alike, IsGiven
  <2>3. CASE TaskReturns(t)
    <3>1. PICK r : /\ IsTask(r) /\ r.pc = task[t].pc /\ r.script = task[t].script
                   /\ IF t = Init_task THEN task'[t].script = r.script
                      ELSE task'[t] = continued(r)
      BY <2>3 DEF TaskReturns, Returns
    <3>2. /\ task[t].pc # "run"
          /\ t = Init_task => task'[t].pc = "fork"
      BY <2>3 DEF TaskReturns, Returns
    <3>3. IsGiven(r)
      BY <1>1, <3>1, <3>2 DEF IsGiven
    <3>4. CASE t = Init_task
      BY <1>1, <1>4, <3>1, <3>2, <3>4 DEF IsGiven
    <3>5. CASE t # Init_task
      BY <1>4, <3>1, <3>3, <3>5, ContinuedGiven
    <3>6. QED
      BY <3>4, <3>5
  <2>4. QED
    BY <2>1, <2>2, <2>3
<1>5. QED
  BY <1>2, <1>3, <1>4

LEMMA GivenStep ==
  ASSUME TypeInv, ForegroundInv, AllGiven, [Next]_vars PROVE AllGiven'
<1>1. CASE UNCHANGED vars
  BY <1>1 DEF vars, AllGiven
<1>2. ASSUME NEW t \in Tasks, Only(t), IsGiven(task'[t]) PROVE AllGiven'
  BY <1>2 DEF Only, AllGiven
<1>3. CASE init_fork
  <2>1. Init_task \in Tasks
    BY NobodyIs
  <2>2. QED
    BY <1>3, <2>1, GivenForks DEF AllGiven
<1>4. CASE \E t \in Tasks, line \in Lines : gets(t, line)
  BY <1>2, <1>4, GivenGets
<1>5. ASSUME NEW t \in Tasks, runs_on(t) PROVE AllGiven'
  <2>1. CASE main(t) \/ cd_cmd(t) \/ program_main(t)
    BY <1>2, <2>1, GivenAlone
  <2>2. CASE illegal_access(t) \/ exit_cmd(t) \/ program_exit(t)
    <3>1. over(t) /\ task[t].pc \in Own
      BY <2>2 DEF illegal_access, exit_cmd, program_exit, runs, Own
    <3>2. TaskEnds(t)
      BY <2>2, <3>1, OverIs DEF TaskEnds, illegal_access, exit_cmd, program_exit
    <3>3. QED
      BY <3>2, GivenOthers DEF AllGiven
  <2>3. CASE quiet_cmd(t) \/ cd_root(t) \/ cd_set(t)
    <3>1. goes_on(t)
      BY <2>3 DEF quiet_cmd, cd_root, cd_set
    <3>2. QED
      BY <1>2, <3>1, GivenGoesOn
  <2>4. CASE sh_cmd(t)
    BY <1>2, <2>4, GivenScript
  <2>5. CASE not_found(t)
    BY <1>2, <2>5, GivenNotFound
  <2>6. CASE executeCmd(t)
    BY <2>6, GivenForks DEF AllGiven
  <2>7. CASE waitpid(t) \/ waitpid_return(t)
    BY <2>7, WaitpidIs, GivenOthers DEF AllGiven
  <2>8. QED
    BY <1>5, <2>1, <2>2, <2>3, <2>4, <2>5, <2>6, <2>7 DEF runs_on
<1>6. QED
  BY <1>1, <1>3, <1>4, <1>5 DEF Next

\* What a shell gives its child to execute is a program.
LEMMA ProgramFound ==
  ASSUME LinesNamePrograms, TypeInv, ForegroundInv, DirectoryInv, PathInv, AllGiven,
         NEW t \in Tasks, executeCmd(t)
  PROVE  search(cwd_shell, task[t].args[1], task[t].PATH) \in Programs
<1> DEFINE line == task[t].args
           prog == search(cwd_shell, line[1], task[t].PATH)
<1>1. /\ task[t].pc = "run" /\ ~dies(line) /\ line[1] \notin Builtin /\ prog # NoFile
      /\ line # <<>>
  BY DEF executeCmd, dies
<1>2. line \in GivenLines
  BY <1>1 DEF AllGiven, IsGiven
<1>3. line[1] \in Name
  BY <1>1, LineIs DEF TypeInv, IsTask
<1>4. Begun(t)
  BY <1>1 DEF Begun, ForegroundInv, InitWaits, Waiting
<1>5. cut_rootfs(cwd_shell) \in Directories
  BY <1>4 DEF DirectoryInv
<1>6. task[t].PATH = FULL_PATH \/ task[t].PATH = First
  BY <1>4 DEF PathInv, First
<1>7. prog \in NamedBy(line[1]) /\ check_file_exist(prog) = 0
  BY <1>1, <1>3, <1>5, <1>6, SearchNames
<1> HIDE DEF prog, line
<1>8. prog \in Programs
  BY <1>1, <1>2, <1>7 DEF LinesNamePrograms
<1>9. QED
  BY <1>8 DEF prog, line

LEMMA ProgramsStep ==
  ASSUME LinesNamePrograms, TypeInv, ForegroundInv, DirectoryInv, PathInv, AllGiven,
         ProgramsRun, [Next]_vars
  PROVE  ProgramsRun'
<1> DEFINE Good(u) == task[u].pc \in {"main", "show", "done"} => task[u].prog \in Programs
<1>1. CASE UNCHANGED vars
  BY <1>1 DEF vars, ProgramsRun
<1>2. CASE Next
  <2>1. PICK t \in Tasks : Step(t)
    BY <1>2, StepIs
  <2> SUFFICES ASSUME NEW u \in Tasks PROVE Good(u)'
    BY DEF ProgramsRun
  <2>2. Good(u)
    BY DEF ProgramsRun
  <2>3. CASE u # t /\ Forks(t, u)
    <3>1. executeCmd(t) => search(cwd_shell, task[t].args[1], task[t].PATH) \in Programs
      BY ProgramFound
    <3>2. task'[u].prog \in Programs
      BY <2>3, <3>1 DEF Forks, LinesNamePrograms
    <3>3. QED
      BY <3>2
  <2>4. CASE u # t /\ ~Forks(t, u)
    BY <2>1, <2>2, <2>4, OthersAre DEF Alike, Gone
  <2>5. CASE u = t
    BY <2>1, <2>2, <2>5
       DEF Step, ShellBegins, ProgramShows, ShellActs, ShellGoes, Goes, TaskEnds, Ends, Gone,
           TaskForks, Forks, TaskBlocks, Blocks, TaskReturns, Returns
  <2>6. QED
    BY <2>3, <2>4, <2>5
<1>3. QED
  BY <1>1, <1>2

LEMMA TypesAre ==
  ASSUME TypeInv, ForegroundInv, ProgsMatch, ProgramsRun PROVE TypeOK
<1> SUFFICES ASSUME NEW t \in Tasks
             PROVE  /\ task[t].pc \in Pcs
                    /\ {task[t].child, task[t].parent, task[t].wait_pid} \subseteq
                         Tasks \cup {Nobody}
                    /\ task[t].pc \in {"prompt", "run", "cd"} => task[t].prog = SBUSH
                    /\ task[t].pc \in {"main", "show", "done"} => task[t].prog \in Programs
  BY DEF TypeOK, TypeInv
<1>1. IsTask(task[t])
  BY DEF TypeInv
<1>2. task[t].pc \in {"prompt", "run", "cd"} => task[t].prog = SBUSH
  BY DEF ForegroundInv, InitWaits, ProgsMatch, IsShell, Waiting
<1>3. QED
  BY <1>1, <1>2 DEF IsTask, ProgramsRun

\* Whatever the directory and the PATH a command is looked up in, and in
\* whatever script or shell it stands, what a shell executes is a program, as
\* long as nobody, user or script, gives as a command a file that is none.
THEOREM ShellsStayTyped ==
  ASSUME LinesNamePrograms
  PROVE  Spec => []TypeOK
<1> DEFINE Inv == DirectoryInv /\ PathInv /\ ProgsMatch /\ AllGiven /\ ProgramsRun
<1>1. Init => Inv
  BY DirectoryInit, PathInit, ProgsInit, GivenInit
<1>2. TypeInv /\ ForegroundInv /\ ForegroundInv' /\ Inv /\ [Next]_vars => Inv'
  BY DirectoryStep, PathStep, ProgsStep, GivenStep, ProgramsStep
<1>3. TypeInv /\ ForegroundInv /\ Inv => TypeOK
  BY TypesAre
<1> HIDE DEF Inv
<1>4. QED
  BY <1>1, <1>2, <1>3, ForegroundInvariant, PTL DEF Spec
=============================================================================
