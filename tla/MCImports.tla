----------------------------- MODULE MCImports ------------------------------
(* A program of a main file, a file and a directory with two files, one of *)
(* them called like the file beside the directory, the other like a module *)
(* of the standard library.  Another directory has a file that cannot be   *)
(* parsed, a third has none, and one path leads nowhere.                   *)
EXTENDS Imports

MCFiles == {"main", "u", "lib/s", "lib/u", "old/x"}
MCDirectory == [d \in {".", "lib", "old", "void"} |->
  CASE d = "." -> <<"main", "u">> [] d = "lib" -> <<"lib/s", "lib/u">>
    [] d = "old" -> <<"old/x">> [] OTHER -> <<>>]
Paths == MCFiles \cup DOMAIN MCDirectory \cup {"lib/gone"}
MCParent == [p \in Paths |->
  CASE p \in {"lib/s", "lib/u", "lib/gone"} -> "lib" [] p = "old/x" -> "old" [] p = "." -> "" [] OTHER -> "."]
MCBase == [p \in Paths |->
  CASE p = "lib/s" -> "s" [] p = "lib/u" -> "u" [] p = "old/x" -> "x" [] p = "." -> "root" [] p = "lib/gone" -> "gone" [] OTHER -> p]

UpTo(n, items) == UNION {[1 .. k -> items] : k \in 0 .. n}

MCPrograms ==
  {[f \in MCFiles |-> CASE f = "main" -> a [] f = "lib/s" -> b [] f = "lib/u" -> c [] f = "u" -> d
                        [] OTHER -> <<>>] :
     a \in UpTo(2, {Stdlib("s"), Local("u"), Local("lib"), Aliased("u", "lib"), Local("lib/u"),
                    Local("lib/s"), Local("."), Local("void"), Local("old")}),
     b \in UpTo(2, {Local("lib/u"), Local("u"), Local("main"), Stdlib("s"), Local("lib"), Local("lib/gone")}),
     c \in UpTo(1, {Local("lib/s"), Local("u")}),
     d \in UpTo(1, {Local("lib"), Local("lib/u"), Aliased("t", "lib/s"), Local(".")})}
=============================================================================
