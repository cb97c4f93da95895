------------------------ MODULE MCDiagnosticPipeline ------------------------
(***************************************************************************)
(* Instances of DiagnosticPipeline for TLC: two translation units m1 and   *)
(* m2 that share a header, a system header and the command line.  Check a  *)
(* is enabled in both files, b in the second only, the compiler warning w  *)
(* in the first only.                                                      *)
(***************************************************************************)
EXTENDS DiagnosticPipeline

CONSTANTS
  m1, m2,    \* a place in each main file
  hdr,       \* a place in the header
  quiet,     \* a place in the header on a line with a NOLINT
  block,     \* a place in the header inside a NOLINTBEGIN..END block
  open,      \* the unmatched NOLINTBEGIN of the header
  sys,       \* a place in the system header
  cmd,       \* a -D on the command line
  nowhere    \* no place

MCLocs   == {m1, m2, hdr, quiet, block, open, sys, cmd}
MCFileOf == [l \in MCLocs |-> IF l \in {hdr, quiet, block, open} THEN hdr ELSE l]

MCTexts == {"", "t", "note", "unmatched", "bad extensions", "as a", "as b", "x"}

MCRank ==
  [n \in {"", "a", "b", "c", "w", "clang-diagnostic-error", "clang-diagnostic-remark",
          "clang-diagnostic-warning", "clang-tidy-config", "clang-tidy-nolint"} |->
     CASE n = ""                        -> 0 [] n = "a"                        -> 1
       [] n = "b"                       -> 2 [] n = "c"                        -> 3
       [] n = "clang-diagnostic-error"  -> 4 [] n = "clang-diagnostic-remark"  -> 5
       [] n = "clang-diagnostic-warning"-> 6 [] n = "clang-tidy-config"        -> 7
       [] n = "clang-tidy-nolint"       -> 8 [] n = "w"                        -> 9]

PerFile(zero, one, two) == [f \in Files |-> CASE f = 0 -> zero [] f = 1 -> one [] f = 2 -> two]
At(name, level, locs)   == {[name |-> name, level |-> level, loc |-> l, text |-> "t"] : l \in locs}

NoDirective   == [l \in MCLocs |-> {}]
MCLineNoLint  == [NoDirective EXCEPT ![quiet] = {"a", "w", ""}]
MCBlockNoLint == [NoDirective EXCEPT ![block] = {"a"}]
AllMatched    == [h \in {MCFileOf[l] : l \in MCLocs} |-> <<>>]
OneUnmatched  == [AllMatched EXCEPT ![hdr] = <<open>>]

MCLocsIn  == PerFile({}, MCLocs \ {m2}, MCLocs \ {m1})
MCMain    == PerFile({}, {m1}, {m2})
MCHeader  == PerFile({}, {hdr, quiet, block, open}, {})
MCExclude == PerFile({}, {block}, {})
MCEnabled == PerFile({}, {"a", "w"}, {"a", "b"})
MCConfig  == PerFile(<<>>, <<>>, <<"bad extensions">>)
NoConfig  == PerFile(<<>>, <<>>, <<>>)
NoErrors  == PerFile({}, {}, {})
MCInputs  == At("a", "warning", {m1, quiet, sys}) \cup At("b", "warning", {m2})
             \cup At("w", "warning", {m2, hdr, cmd}) \cup At("", "error", {sys})
             \cup At("", "warning", {nowhere})

\* One file; a and b are aliases, and c is what both are mapped to.
AliasEnabled == PerFile({}, {"a", "b", "c"}, {})
AliasErrors  == PerFile({"b"}, {"b"}, {"b"})
AliasInputs  == At("a", "warning", {m1, block}) \cup At("b", "warning", {m1})
                \cup At("", "error", {m1}) \cup At("", "warning", {quiet})
Item(orig, alt, message) == [orig |-> orig, alt |-> alt, message |-> message]
NoItems    == <<>>
\* a becomes b and c, b becomes a (a cycle); two items lack a field
\* they need, and one has no message.
CycleItems == <<Item("a", "b", "as b"), Item("b", "a", "as a"), Item("absent", "c", "x"),
                Item("a", "absent", "x"), Item("a", "c", "absent")>>

\* In these instances the names are used as AsErrorKept needs it.
ASSUME UniformInstance == Uniform
=============================================================================
