------------------------ MODULE MCPreprocessorMonitors ------------------------
(* Units of three kinds: headers with and without guards that are included     *)
(* twice; macros that are defined, used and undefined in the main file and in   *)
(* headers; conditions and macro bodies.                                        *)
EXTENDS PreprocessorMonitors

MCNames == {"A", "B", "X", "errno", "NDEBUG", "if"}
MCProtocols == {<<"h">>}
MCValues == "0" :> 0 @@ "1" :> 1 @@ "2" :> 2

L(d, m) == [d |-> d, m |-> m, t |-> <<"1">>, fn |-> FALSE]
LT(d, m, t) == [L(d, m) EXCEPT !.t = t]
Macro(m, t) == [LT("define", m, t) EXCEPT !.fn = TRUE]
If_(t) == LT("if", "", t)
Endif_ == L("endif", "")
Unit(main, h1, h2, sys) == [main |-> main, h1 |-> h1, h2 |-> h2, sys |-> sys]

\* Headers: a use of X, under a guard, under a guard that nothing defines, with
\* #else, with #pragma once, under one that is defined only if X is; alone or with the definition of the other guard.
Body(g, o) == {
  <<L("use", "X")>>,
  <<L("define", o), L("use", "X")>>,
  <<L("ifndef", g), L("define", g), L("use", "X"), Endif_>>,
  <<L("ifndef", g), L("use", "X"), Endif_>>,
  <<L("ifndef", g), L("define", g), L("define", o), If_(<<"X">>), L("use", "X"), Endif_, Endif_>>,
  <<L("ifndef", g), L("define", g), L("use", "X"), L("else", ""), L("use", "X"), Endif_>>,
  <<L("ifndef", g), L("define", g), L("use", "X"), Endif_, L("use", "X")>>,
  <<L("ifndef", g), L("ifdef", "X"), L("define", g), Endif_, L("use", "X"), Endif_>>,
  <<L("once", ""), L("use", "X")>>}
Between == {L("undef", "A"), L("define", "B"), L("define", "X"), L("use", "X")}
Sys == {<<L("use", "X")>>, <<L("ifndef", "errno"), L("undef", "errno"), L("use", "X"), Endif_>>}
HeaderUnits ==
  {Unit(<<L("include", a), b, L("include", "h1"), If_(<<"1">>), L("include", "sys"), L("include", c), Endif_>>,
        h1, h2, s) :
     a \in {"h1", "h2"}, b \in Between, c \in {"h1", "h2"}, h1 \in Body("A", "B"), h2 \in Body("B", "A"), s \in Sys}

\* Macros.
Step(m) == {L("define", m), L("undef", m), L("use", m), L("decl", m), L("ifdef", m), LT("define", "B", <<m>>),
            Macro(m, <<"p">>), If_(<<m>>), LT("elif", "", <<m>>), L("else", "")}
Closed(s) == s \o (IF \E i \in DOMAIN s : s[i].d \in {"if", "ifdef"} THEN <<Endif_>> ELSE <<>>)
Proper(s) == LET ifs == {i \in DOMAIN s : s[i].d \in {"if", "ifdef"}}
                 elses == {i \in DOMAIN s : s[i].d \in {"elif", "else"}}
             IN  /\ Cardinality(ifs) <= 1 /\ Cardinality(elses) <= 1
                 /\ \A i \in elses : \E j \in ifs : j < i
MacroUnits ==
  {Unit(Closed(<<L("include", i), a, b, c, e>>) \o <<L("decl", "A")>>, h, <<>>, <<L("undef", "errno")>>) :
     <<a, b, c, e>> \in {s \in Step("A") \X Step("A") \X Step("A") \X Step("A") : Proper(s)},
     i \in {"h1", "sys"}, h \in {<<L("define", "A")>>, <<L("use", "A"), L("decl", "A")>>}}
ReservedUnits ==
  {Unit(<<a, L("include", "sys"), b, L("use", n)>>, <<>>, <<>>, <<c, L("decl", n)>>) :
     n \in {"errno", "NDEBUG", "if"}, a \in {L(d, m) : d \in {"define", "undef", "decl"}, m \in {"errno", "NDEBUG", "if"}},
     b \in {L(d, m) : d \in {"define", "undef"}, m \in {"errno", "NDEBUG"}},
     c \in {L(d, m) : d \in {"define", "undef"}, m \in {"errno", "NDEBUG"}}}

\* Conditions over A and B, undefined, 1, 2 or each other, and macro bodies.
Conditions == {
  <<"0">>, <<"2">>, <<"-", "1">>, <<"A">>, <<"(", "A", ")">>, <<"defined", "A">>, <<"defined", "(", "A", ")">>,
  <<"!", "A">>, <<"A", "==", "2">>, <<"A", "<", "2">>, <<"A", "<<", "1">>, <<"A", "&&", "B">>, <<"A", "+", "B">>,
  <<"A", "+", "(", "B", "==", "1", ")">>, <<"!", "A", "+", "2">>, <<"(", "A", "||", "B", ")">>,
  <<"A", "<<", "(", "B", "==", "1", ")">>, <<"!", "A", "<<", "1">>, <<"if", "==", "A">>, <<"defined", "A", "&&", "B", "<", "2">>,
  <<"A", "==", "B", "*", "2">>, <<"(", "A", "==", "B", ")", "*", "2">>}
Values_ == {<<L("define", "A")>>, <<LT("define", "A", <<"2">>)>>, <<LT("define", "A", <<"B">>)>>, <<L("undef", "A")>>}
MacroBodies == {<<"p">>, <<"p", "*", "2">>, <<"2", "*", "p">>, <<"(", "p", ")", "*", "2">>, <<"2", "<<", "(", "p", ")">>, <<"!", "p">>,
           <<"-", "p">>, <<"p", "==", "(", "p", ")">>, <<"#", "p">>, <<"1", "##", "p">>, <<"#", "p", "##", "p">>,
           <<"(", "p", "<", "2", ")">>, <<"(", "p", ")", "+", "(", "p", ")">>}
ConditionUnits ==
  {Unit(a \o b \o <<If_(s), L("use", "X"), LT("elif", "", t), L("use", "X"), L("else", ""), L("use", "X"), Endif_>>,
        <<>>, <<>>, <<>>) :
     a \in Values_, b \in {<<L("define", "B")>>, <<>>}, s \in Conditions, t \in Conditions}
BodyUnits ==
  {Unit(<<Macro("A", b), LT("use", "A", x), L("include", "sys")>>, <<>>, <<>>, <<Macro("B", b), LT("use", "B", x)>>) :
     b \in MacroBodies, x \in {<<"1">>, <<"1", "#">>}}

\* Comments of up to four characters.
Inside == UNION {[1 .. n -> {"/", "*", ":", "h", "q", "~"}] : n \in 0 .. 4}
Clean(t) == SelectSeq(t, LAMBDA ch : ch # "~")
Closes(t) == \E i \in 1 .. Len(Clean(t)) - 1 : Clean(t)[i] = "*" /\ Clean(t)[i + 1] = "/"
Comments == {<<"/", "/">> \o t : t \in Inside} \cup {<<"/", "~", "/">> \o t : t \in {t \in Inside : Len(t) < 3}}
            \cup {<<"/", "*">> \o t \o c : t \in {t \in Inside : ~Closes(t)}, c \in {<<"*", "/">>, <<"*", "~", "/">>}}
CommentUnits == {Unit(<<LT("comment", "", s)>>, <<>>, <<>>, <<>>) : s \in Comments}

MCUnits ==
  MacroUnits \cup (CommentUnits \cup (ConditionUnits \cup (HeaderUnits \cup (ReservedUnits \cup BodyUnits))))
================================================================================
