------------------------------ MODULE MCLinker ------------------------------
(* A handful of modules, for TLC.                                          *)
EXTENDS Linker

File(kind, ps, places_, cs, refs_) ==
  [kind |-> kind, procs |-> ps, places |-> places_, classes |-> cs, refs |-> refs_]

Ref(sub_, symbol_, to_) == [sub |-> sub_, symbol |-> symbol_, to |-> to_]

AllNames == {"lex", "ctype", "number", "helper", "extra", "gone"}

\* lex and ctype refer to each other; ctype's class is built on one of number.
\* helper and extra are source modules, gone is not found.
Library ==
  [n \in AllNames |->
    CASE n = "lex" -> File("binary", {"scan"}, {}, {},
                           {Ref("ctype", "isalnum", "proc"), Ref("gone", "log", "proc")})
      [] n = "ctype" -> File("binary", {"isalnum"}, {"table"}, {"kind"},
                             {Ref("lex", "scan", "proc"), Ref("number", "num", "class")})
      [] n = "number" -> File("binary", {"add"}, {}, {"num"}, {})
      [] n = "helper" -> File("source", {"greet", "log"}, {}, {}, {})
      [] n = "extra" -> File("source", {"greet"}, {}, {}, {})
      [] n = "gone" -> Missing]

AllProcs == {"scan", "isalnum", "table", "add", "greet", "log"}
AllClasses == {"kind", "num"}

\* A program that keeps off the names of binary modules.
Careful == {"greet", "log", "table"}
=============================================================================
