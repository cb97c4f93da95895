---------------------------- MODULE CommentScanners ----------------------------
(* The checks of comments (automotive/comment), as functions of the text of one *)
(* comment: a sequence of "/", "*", ":", letters, spaces, and "~" for a line    *)
(* splice, a backslash and the newline behind it.                               *)
EXTENDS Integers, Sequences, FiniteSets, SequencesExt

CONSTANTS Letters,    \* the letters that occur in comments
          Protocols   \* the words, as sequences of letters, in DefaultProtocols

\* IgnoreLineSpliceRef: its iterator goes from one character to the next, over splices.
Follows(s, i, j) == i < j /\ s[i] # "~" /\ s[j] # "~" /\ \A k \in i + 1 .. j - 1 : s[k] = "~"
Second(s) == CHOOSE i \in DOMAIN s : Follows(s, 1, i)

\* A comment as the lexer finds it.
IsComment(s) ==
  /\ s \in Seq(STRING) /\ s # <<>> /\ s[1] = "/"
  /\ \E i \in DOMAIN s : Follows(s, 1, i) /\
       \/ s[i] = "/"
       \/ s[i] = "*" /\ s[Len(s)] = "/" /\ \E j \in i + 1 .. Len(s) : Follows(s, j, Len(s)) /\ s[j] = "*"

\* matchComment: the kind of a comment and the part of it that is scanned, from the
\* second character of the opening up to the last star.  Read backwards, a splice
\* before the closing slash is not recognised, and then there is no match.
\* Mutant: a splice in the opening is not recognised either.
KindRaw(s) == IF SubSeq(s, 1, 2) = <<"/", "/">> THEN "line"
              ELSE IF SubSeq(s, 1, 2) = <<"/", "*">> /\ s[Len(s) - 1] = "*" THEN "block" ELSE "none"
CommentKind(s) ==
  CASE s[Second(s)] = "/" -> "line"
    [] s[Second(s)] = "*" /\ s[Len(s) - 1] = "*" -> "block"
    [] OTHER -> "none"
Scanned(s) ==
  {i \in DOMAIN s : s[i] # "~" /\ i >= Second(s) /\ (CommentKind(s) = "block" => i < Len(s) - 1)}

\* getNextState: the states that report are named for what they have found.
\* Mutant: only block comments are looked for.
NextStateBlocks(state, ch) ==
  IF state = "ExpectCommentStart" THEN IF ch = "*" THEN "/*" ELSE "Normal"
  ELSE IF state = "ExpectCommentEnd" THEN IF ch = "/" THEN "*/" ELSE "Normal"
  ELSE CASE ch = "/" -> "ExpectCommentStart" [] ch = "*" -> "ExpectCommentEnd" [] OTHER -> "Normal"
NextState(state, ch) ==
  IF state = "ExpectCommentStart" THEN IF ch = "/" THEN "//" ELSE IF ch = "*" THEN "/*" ELSE "Normal"
  ELSE IF state = "ExpectCommentEnd" THEN IF ch = "/" THEN "*/" ELSE "Normal"
  ELSE CASE ch = "/" -> "ExpectCommentStart" [] ch = "*" -> "ExpectCommentEnd"
         [] ch = ":" -> "ExpectURLPattern" [] OTHER -> "Normal"

\* checkURLProtocol: "://" behind a word that is no protocol it knows.
UnknownProtocol(s, i) ==
  LET word == {j \in 1 .. i - 1 : \A k \in j .. i - 1 : s[k] \in Letters}
  IN  /\ i + 2 \in DOMAIN s /\ SubSeq(s, i, i + 2) = <<":", "/", "/">>
      /\ SubSeq(s, i - Cardinality(word), i - 1) \notin Protocols

\* CheckComment: what the check reports and where; the slashes of a URL with an
\* unknown protocol are passed over (the check gives a note there, without a warning).
Turn(s, acc, i) ==
  LET state == NextState(acc.state, s[i])
      url == state = "ExpectURLPattern" /\ UnknownProtocol(s, i)
  IN  IF i \notin Scanned(s) THEN acc
      ELSE IF acc.skip > 0 THEN [acc EXCEPT !.skip = @ - 1, !.prev = i]
      ELSE [state |-> state, prev |-> i, skip |-> IF url THEN 2 ELSE 0,
            found |-> acc.found \cup {<<w, acc.prev>> : w \in {state} \cap {"//", "/*", "*/"}}]
Begin == [state |-> "Normal", prev |-> 0, skip |-> 0, found |-> {}]
CommentScan(s) ==
  LET scan[i \in 0 .. Len(s)] == IF i = 0 THEN Begin ELSE Turn(s, scan[i - 1], i)
  IN  scan
WithinComment(s) == IF CommentKind(s) = "none" THEN {} ELSE CommentScan(s)[Len(s)].found

\* AvoidLinesplicingWithinCommentCheck: HandleComment without fixes.
Splices(s) == IF CommentKind(s) = "line" THEN {i \in DOMAIN s : s[i] = "~"} ELSE {}

\* The marks that appear between the opening and the closing of a comment: the first
\* character of each, splices passed over.
Marks(s) ==
  {i \in Second(s) + 1 .. Len(s) :
     \E j \in i + 1 .. Len(s) :
       /\ Follows(s, i, j) /\ s[i] = "/" /\ s[j] \in {"/", "*"}
       /\ s[Second(s)] = "*" => \E k \in j + 1 .. Len(s) : Follows(s, k, Len(s))}
================================================================================
