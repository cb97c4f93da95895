---------------------------- MODULE MCPointerChecks ----------------------------
(* Functions of one kind each: changes of type, subscripts, subtractions,       *)
(* lifetimes, copies, values that are not there, and members of unions.         *)
EXTENDS PointerChecks, UnionAccesses, TLC

O(t, n, c, s, i) == [type |-> t, length |-> n, const |-> c, static |-> s, init |-> i]
MCObjects ==
  "x" :> O("int", 0, FALSE, FALSE, FALSE) @@ "k" :> O("int", 0, TRUE, FALSE, TRUE) @@ "f" :> O("float", 0, FALSE, FALSE, TRUE)
  @@ "z" :> O("int", 0, FALSE, TRUE, TRUE) @@ "a" :> O("int", 2, FALSE, FALSE, TRUE) @@ "b" :> O("int", 2, FALSE, FALSE, FALSE)
MCPointers == "p" :> FALSE @@ "q" :> FALSE @@ "s" :> TRUE

N(op, ns) == {[op |-> op, n |-> n] : n \in ns}
C(op, t, d) == [op |-> op, to |-> t, const |-> d]
F(l, m, u) == [leaves |-> l, moves |-> m, uses |-> u]
MCFragments == {
  F({"k", "f", "word", "p"},
    {C("c", t, FALSE) : t \in {"int", "float", "char", "void", "word"}} \cup {C("static", t, FALSE) : t \in {"int", "void"}}
      \cup {C("reinterpret", "float", FALSE), C("reinterpret", "word", FALSE), C("const", "int", FALSE), C("c", "void", TRUE),
            C("static", "int", TRUE)} \cup N("elem", {0}),
    {"declare", "access"}),
  F({"a", "z", "pair", "p"}, N("elem", {0, 1, 2}) \cup N("plus", {1, 2}) \cup N("minus", {1}) \cup {C("c", "int", FALSE)},
    {"declare", "access"}),
  F({"a", "single", "p", "q"}, N("elem", {0, 1}), {"declare", "subtract"}),
  F({"a", "x", "p"}, N("elem", {1}) \cup {C("static", "int", FALSE)}, {"declare", "subtract"}),
  F({"z", "p", "q"}, {C("c", "int", FALSE)}, {"declare", "empty", "assign", "subtract"}),
  F({"x", "a", "p", "s", "single"}, N("elem", {0}) \cup N("plus", {1}) \cup {C("c", "int", TRUE)},
    {"declare", "empty", "assign", "return", "throw"}),
  F({"a", "b", "p"}, N("elem", {0, 1}) \cup N("plus", {1}), {"declare", "copy", "compare"}),
  F({"x", "b", "pair", "p", "s"}, N("elem", {1}), {"declare", "empty", "assign", "access"}),
  F({}, {}, {"union"}), F({}, {}, {"value"}), F({}, {}, {"selection"})}

MCMemberTypes == "i" :> "int" @@ "n" :> "uint" @@ "f" :> "float" @@ "c" :> "char"
At(v, m) == [var |-> v, member |-> m]
A(op, to, from) == [op |-> op, to |-> to, from |-> from, guarded |-> FALSE]
U == {At("u", m) : m \in {"i", "n", "f", "c"}}
MCAccesses ==
  {A("write", p, p) : p \in U \cup {At("v", "i"), At("v", "f")}} \cup {A("read", p, p) : p \in U \cup {At("v", "f")}}
  \cup {A("add", At("u", "f"), At("u", "f")), A("copy", At("v", "i"), At("u", "i"))}
  \cup {A("copy", At("u", m), At("u", k)) : m \in {"i", "f"}, k \in {"i", "f"}} \cup {A("copy", At("u", "c"), At("u", "f"))}
  \cup {[A("write", p, p) EXCEPT !.guarded = TRUE] : p \in {At("u", "i"), At("u", "f")}}
================================================================================
