---------------------------- MODULE MCSideEffects ----------------------------
(* Expressions of up to three operators at each place of a statement, loops of  *)
(* up to two statements and functions of up to two statements.                  *)
EXTENDS SideEffects, LocalChanges

\* Operands: objects, constants, calls, and writes.
Leaf(op) == Tree(op, <<>>)
One(op, a) == Tree(op, <<a>>)
Both(op, a, b) == Tree(op, <<a, b>>)
Plain == {Leaf("x"), Leaf("1"), Leaf("f"), Both("=", Leaf("y"), Leaf("x")), One("++", Leaf("x"))}
Simple == Plain \cup {Leaf("v"), Leaf("g"), Leaf("0"), One("h", Leaf("y")),
                     Both("+=", Leaf("x"), Leaf("1")), Both("=", Leaf("x"), Leaf("x"))}

\* One operator over simple operands.
Unary == {"!", "paren", "cast", "sizeof", "_Generic", "_Generic(T", "h"}
Binary == {"&&", "||", ",", "+", "=="}
Compound(S, P) ==
  {One(op, a) : op \in Unary, a \in S} \cup {Both(op, a, b) : op \in Binary, a \in S, b \in P}
  \cup {Both("=", Leaf("y"), a) : a \in S}
  \cup {Both("+=", Leaf("y"), One("paren", Both("=", Leaf("x"), Leaf("1"))))}
  \cup {Tree("?:", <<c, a, b>>) : c \in {Leaf("x"), Leaf("1"), Leaf("f")}, a \in P, b \in {Leaf("0"), Leaf("f")}}

\* Two operators over three operands.
Two == {Leaf("x"), Leaf("f"), Both("=", Leaf("y"), Leaf("x"))}
Deep == LET C == Compound(Two, {Leaf("1"), One("++", Leaf("x"))})
        IN  {One(op, a) : op \in {"!", "sizeof", "cast"}, a \in C}
            \cup {Both(op, a, Leaf("y")) : op \in {"&&", ","}, a \in C}
            \cup {Both("||", Leaf("0"), a) : a \in C} \cup {Both("=", Leaf("x"), a) : a \in C}
            \cup {Tree("?:", <<a, Leaf("1"), Leaf("y")>>) : a \in C}
InPlace(p, l, es) == [place |-> p, lang |-> l, exprs |-> es]
\* C++ has no _Generic.
ForLang(l, e) == l = "c" \/ ~Has(e, {"_Generic", "_Generic(T"})

\* One expression at each place, also under a cast to void, or the two of a list.
MCEffectStatements ==
  {s \in {InPlace(p, l, <<e>>) : p \in {"expr", "if", "return"}, l \in {"c", "c++"},
                             e \in Simple \cup Compound(Simple, Plain) \cup Deep}
       \cup {InPlace(p, l, <<e>>) : p \in {"init", "unbraced"}, l \in {"c", "c++"},
                                  e \in Simple \cup {One("paren", a) : a \in Simple}} :
     ForLang(s.lang, s.exprs[1])}
  \cup {InPlace("expr", l, <<One("void", a)>>) : l \in {"c", "c++"}, a \in Simple}
  \cup {InPlace("list", "c", <<a, b>>) : a \in Simple,
           b \in Plain \cup {One("sizeof", Leaf("f")), One("!", One("++", Leaf("x")))}}

\* Loops whose body is up to two statements.
LoopBodies ==
  LET Changes == {"set", "++", "(set)", "nested", "pointer", "other", "break", "continue", "if break"}
  IN  {<<>>} \cup {<<a>> : a \in Changes}
        \cup {<<a, b>> : a \in Changes \ {"++", "(set)", "pointer"}, b \in {"++", "(set)", "other", "continue"}}
MCForLoops ==
  {[init |-> i, cond |-> c, inc |-> n, body |-> b] :
     i \in {"none", "uninit", "declare", "declare two", "assign", "float", "float assign"},
     c \in {"none", "counter", "second", "other"}, n \in {"none", "step", "other"}, b \in LoopBodies}

\* Functions of up to two statements; nothing is written through a pointer to const.
Hows == {<<w, h>> : w \in {"v", "r"}, h \in {"=", "++", "(=)", "via &"}}
          \cup {<<w, h>> : w \in {"p", "q"}, h \in {"=", "*=", "[]=", "(*=)", "copy*=", "+1*=", "&*", "pass", "show"}}
MCCallees ==
  {f \in {[const |-> c, body |-> b] : c \in SUBSET {"p", "q"},
             b \in {<<>>} \cup {<<a>> : a \in Hows} \cup {<<a, b>> : a \in Hows, b \in Hows}} :
     \A i \in DOMAIN f.body : f.body[i][1] \in f.const => f.body[i][2] \in {"=", "show"}}
===============================================================================
