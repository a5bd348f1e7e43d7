------------------------------- MODULE TarFs --------------------------------
(***************************************************************************)
(* The read-only file system of SBUnix: the tar archive linked into the    *)
(* kernel, which every call walks from its first header.                   *)
(*                                                                         *)
(* A name is a sequence of words, "/" being a word of its own: "bin/ls" is *)
(* <<"bin", "/", "ls">>.  tar ends the name of a directory with "/", so    *)
(* words and characters agree on prefixes.  A body is a sequence of lines, *)
(* a line a sequence of names; the programs read a file once, into a       *)
(* buffer it fits in, which shows its body (see tarfs_read in Library).     *)
(***************************************************************************)
EXTENDS Integers, Sequences, FiniteSets, SequencesExt

CONSTANTS
  Archive,   \* the entries, in order: [name, typeflag, body]
  NoFile     \* NULL, or -1, of a call that finds nothing

\* The walk does not know where the archive ends: it visits the block of
\* zeros behind the last entry too, whose "size" then takes it past the end.
Trailer == [name |-> <<>>, typeflag |-> "", body |-> <<>>]
Headers == Append(Archive, Trailer)

IsDirectory(h) == h.typeflag = "5"

contain_slash(name) == Cardinality({i \in DOMAIN name : name[i] = "/"})

strstr_slash(name) ==
  LET first == SelectInSeq(name, LAMBDA w : w = "/")
  IN SubSeq(name, first, Len(name))

\* By name, the first header of the name among those that match.
first_header(matches) ==
  [name \in {h.name : h \in matches} |->
     Headers[SelectInSeq(Headers, LAMBDA h : h.name = name /\ h \in matches)]]

Files   == first_header(ToSet(Headers))
Folders == first_header({h \in ToSet(Headers) : IsDirectory(h)})

\* A directory is a file, too, for all of them but do_opendir.
check_file_exist(filename) == IF filename \in DOMAIN Files THEN 0 ELSE -1

do_tarfs_open(name) == IF name \in DOMAIN Files THEN Files[name] ELSE NoFile

\* NULL for the empty name, which do_tarfs_open takes for the trailer's.
tarfs_open(name) == IF name = <<>> THEN NoFile ELSE do_tarfs_open(name)

do_opendir(name) == IF name \in DOMAIN Folders THEN Folders[name] ELSE NoFile

\* Faulty variant: the files of its directories are listed with a directory.
listed_deep(dir, h) == IsPrefix(dir, h.name) /\ h.name # dir

\* The names do_readdir leaves in its array: those that begin with the
\* directory's and go on with a file, or with a directory and no more.
listed(dir, h) ==
  /\ IsPrefix(dir, h.name) /\ h.name # dir
  /\ contain_slash(SubSeq(h.name, Len(dir) + 1, Len(h.name)))
       = (IF IsDirectory(h) THEN 1 ELSE 0)

\* The k-th index of a set is the one with k of them up to it.
nth(I, k) == CHOOSE i \in I : Cardinality({j \in I : j <= i}) = k

\* The names of some of the headers, in the order of the archive.
names(I) == [k \in 1 .. Cardinality(I) |-> Headers[nth(I, k)].name]

do_readdir(dir) == names({i \in DOMAIN Headers : listed(dir, Headers[i])})

\* Of the root: the names with no "/", or with one at their end.
do_read_rootfs ==
  LET plain(name) == contain_slash(name) = 0 \/ Len(strstr_slash(name)) = 1
  IN names({i \in DOMAIN Headers : plain(Headers[i].name)})
----------------------------------------------------------------------------
(* What the archive means, whatever the calls make of it.                  *)

\* The directory a name stands in; the root's name is empty.
Parent(name) ==
  LET slashes == {i \in 1 .. Len(name) - 1 : name[i] = "/"}
  IN SubSeq(name, 1, IF slashes = {} THEN 0 ELSE CHOOSE i \in slashes :
                                                   \A j \in slashes : j <= i)

Directories == {<<>>} \cup {Archive[i].name : i \in {j \in DOMAIN Archive :
                                                       IsDirectory(Archive[j])}}

\* The entries of a directory, in the order of the archive.
Entries(dir) == names({i \in DOMAIN Archive : Parent(Archive[i].name) = dir})

\* What tar writes: every name once, each in a directory of the archive.
ASSUME ArchiveAssumption ==
  /\ Archive \in Seq([name : Seq(STRING), typeflag : STRING,
                      body : Seq(Seq(Seq(STRING)))])
  /\ \A i, j \in DOMAIN Archive : Archive[i].name = Archive[j].name => i = j
  /\ \A i \in DOMAIN Archive :
       LET name == Archive[i].name
       IN /\ name # <<>> /\ Parent(name) \in Directories
          /\ IsDirectory(Archive[i]) <=> name[Len(name)] = "/"

\* NULL is neither a name nor an entry.
ASSUME NoFileAssumption == NoFile \notin Seq(STRING) \cup ToSet(Headers)
=============================================================================
