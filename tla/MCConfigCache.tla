---------------------------- MODULE MCConfigCache ----------------------------
(***************************************************************************)
(* The root, a project p in it, two directories a and b of the project and *)
(* a directory c in a, with every combination of configuration files.  The *)
(* names they enable decide which checks run on a unit of the directory.   *)
(***************************************************************************)
EXTENDS ConfiguredChecks

MCDirs == {"/", "p", "a", "b", "c"}
MCPath == [d \in MCDirs |-> CASE d = "/" -> <<"/">>
                              [] d = "p" -> <<"p", "/">>
                              [] d = "a" -> <<"a", "p", "/">>
                              [] d = "b" -> <<"b", "p", "/">>
                              [] d = "c" -> <<"c", "a", "p", "/">>]
MCTrees == [MCDirs -> Contents]

On(name)  == [name |-> name, on |-> TRUE]
Off(name) == [name |-> name, on |-> FALSE]
Source(checks, header, local, global, mappings) ==
  [checks |-> checks, header |-> header, local |-> local, global |-> global, mappings |-> mappings]

\* "Checks: automotive-*"
MCEvery == LET all == FlattenSeq(Components) IN [i \in DOMAIN all |-> On(all[i].name)]

\* The root and p set an option of a check under one name, a under the other.
MCOptions ==
  [s \in MCDirs \cup Commands |->
     CASE s = "/" -> Source(MCEvery, "all", "r", "unset", "m")
       [] s = "p" -> Source(<<Off("c25-req-22.13"), On("cpp23-req-12.2")>>, "unset", "unset", "p", "m")
       [] s = "a" -> Source(<<Off("cpp23-req-12.2"), On("c25-req-22.13")>>, "none", "a", "unset", "unset")
       [] s = "b" -> Source(<<On("c25-req-15.7")>>, "b", "unset", "b", "m")
       [] s = "c" -> Source(<<On("cpp23-req-12.2")>>, "unset", "c", "c", "m")
       [] s = "binary" -> Source(<<>>, "default", "unset", "unset", "m")
       [] s = "config" -> Source(<<On("analyzer unix")>>, "unset", "unset", "config", "m")
       [] s = "checks" -> Source(<<Off("c25-req-15.7")>>, "unset", "unset", "unset", "m")]

MCCheckers == {"analyzer core", "analyzer unix"}
MCCore == {"analyzer core"}
=============================================================================
