------------------------------ MODULE ShellMC -------------------------------
(***************************************************************************)
(* A small archive and the lines users type, for TLC.                      *)
(***************************************************************************)
EXTENDS Shell

Dir(name)          == [name |-> Append(name, "/"), typeflag |-> "5", body |-> <<>>]
File(name, body)   == [name |-> name, typeflag |-> "0", body |-> body]
In(dir, name)      == <<dir, "/", name>>
Line(first)        == << <<first>> >>
Line2(first, next) == << <<first>>, <<next>> >>

Script ==
  << Line("#!"), << <<"cd">>, <<"mnt", "/">> >>, Line2("tread", "&"),
     Line2("cat", "t.sh") >>

Outer ==
  << Line("#!"), Line2("cd", ".."), << <<"sh">>, <<"mnt", "/", "t.sh">> >>,
     Line("pwd"), Line("sbush"), Line("bin"), Line("exit") >>

MCArchive ==
  << Dir(<<"bin">>), File(In("bin", "ls"), <<>>), File(In("bin", "cat"), <<>>),
     File(In("bin", "tread"), <<>>), File(In("bin", "sbush"), <<>>),
     File(<<"notes">>, << Line("notes") >>),
     Dir(<<"mnt">>), File(In("mnt", "t.sh"), Script),
     File(In("bin", "u.sh"), Outer), Dir(In("mnt", "doc")),
     File(<<"mnt", "/", "doc", "/", "t">>, << Line("t") >>) >>

MCPrograms ==
  {In("bin", "ls"), In("bin", "cat"), In("bin", "tread"), In("bin", "sbush")}
MCEndless == {In("bin", "tread")}

MCLines ==
  { <<>>, Line("cd"), Line("ls"), Line2("sh", "u.sh"), Line2("sbush", "&") }
=============================================================================
