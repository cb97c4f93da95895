--------------------------- MODULE MCFixConflicts ---------------------------
(***************************************************************************)
(* Small texts: two files f and g of four places.  Lists of three          *)
(* diagnostics, at three places with all combinations of fixes, or at one  *)
(* or two places with a few.  One fix changes a text that is in no file.   *)
(***************************************************************************)
EXTENDS FixConflicts

Rep(file, from, to, text) == [file |-> file, from |-> from, to |-> to, text |-> text]
Spans   == {s \in (0..3) \X (0..3) : s[1] < s[2]}
Singles == {{Rep("f", s[1], s[2], "x")} : s \in Spans}
             \cup {{Rep("f", 1, 1, "x")}, {Rep("f", 1, 1, "y")}}
Larger  == {{Rep("f", 0, 1, "x"), Rep("f", 2, 3, "x")},
            {Rep("f", 0, 2, "x"), Rep("g", 0, 1, "x")},
            {Rep("f", 1, 3, "x"), Rep("g", 1, 2, "x")},
            {Rep("f", 0, 1, "x"), Rep(InvalidLocation, 0, 1, "x")}}
MCReplacements == UNION (Singles \cup Larger)

Found(place, name, fix, note) == [place |-> place, name |-> name, fix |-> fix, note |-> note]
Threes(F) == {<<Found(1, "a", x, {}), Found(2, "b", y, {}), Found(3, "c", z, {})>> :
                x \in F, y \in F, z \in F}

\* All lists of three overlapping or separate fixes.
MCApart == Threes(Singles \cup Larger)

\* a, b and c are aliases, at one place or at two.
Few == {{}} \cup Larger
MCAliases ==
  {<<Found(1, "a", x, {}), Found(p, "b", y, {}), Found(q, "c", z, {})>> :
     p \in {1, 2}, q \in {2, 3}, x \in Few, y \in Few, z \in Few}
  \cup {<<Found(1, "a", x, {}), Found(1, "b", y, {}), Found(1, "c", z, {})>> :
          x \in Few, y \in Few, z \in Few}

\* Notes with fixes.
MCNotes == {<<Found(1, "a", x, n), Found(p, "b", y, {})>> :
              p \in {1, 2}, x \in Few, y \in Few, n \in Larger}

MCReported == MCApart \cup MCAliases \cup MCNotes
=============================================================================
