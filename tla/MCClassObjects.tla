----------------------------- MODULE MCClassObjects -----------------------------
(* Hierarchies of up to three classes, and programs of up to four functions,     *)
(* one group for each kind of thing that can go wrong.                           *)
EXTENDS ClassObjects, ThrownExceptions, TLC

K(b, key, top, d, dv, m, df, call, five, owns, sh) ==
  [base |-> b, key |-> key, top |-> top, dtor |-> d, dtorVirtual |-> dv, method |-> m, default |-> df, call |-> call,
   five |-> five, owns |-> owns, shallow |-> sh]
Bare(b, m) == K(b, "class", TRUE, "implicit", FALSE, m, 0, "none", {}, FALSE, FALSE)
Dtors == {K(NoBase, key, TRUE, d, v, m, 0, "none", {"dtor"}, FALSE, FALSE) :
            key \in {"class", "struct"}, d \in {"public", "protected", "private"}, v \in BOOLEAN, m \in {"none", "virtual"}}
         \cup {Bare(NoBase, m) : m \in {"none", "virtual"}}
Five == {"dtor", "copy", "copy=", "move", "move="}
MCHierarchies ==
  \* destructors, with a derived class in the unit or in a namespace
  {"A" :> a @@ "B" :> [Bare("A", m) EXCEPT !.top = top] : a \in Dtors, m \in {"none", "plain"}, top \in BOOLEAN}
  \* calls of m
  \cup {"A" :> [Bare(NoBase, m) EXCEPT !.call = call, !.default = 1] @@ "B" :> [Bare("A", n) EXCEPT !.call = second]
        @@ "C" :> [Bare("B", "plain") EXCEPT !.default = 2] :
          m \in {"plain", "virtual"}, n \in {"none", "virtual"}, call \in {"direct", "helper", "qualified"}, second \in {"none", "lambda"}}
  \* copies
  \cup {"A" :> K(NoBase, "class", TRUE, IF "dtor" \in f THEN "public" ELSE "implicit", FALSE, "none", 0, "none", f, "dtor" \in f, sh)
        @@ "B" :> Bare("A", "none") : f \in {{}, {"dtor"}, {"dtor", "copy"}, {"copy", "copy="}, Five \ {"dtor"}, Five}, sh \in BOOLEAN}
  \* casts
  \cup {"A" :> Bare(NoBase, m) @@ "B" :> Bare("A", "none") @@ "C" :> Bare("B", "none") @@ "U" :> Bare(NoBase, "none") : m \in {"plain", "virtual"}}

Do(op, what) == [op |-> op, what |-> what, handlers |-> {}, rethrow |-> FALSE]
Try(s, hs) == [s EXCEPT !.handlers = hs]
Fun(kind, spec, linkage, body) ==
  [kind |-> kind, spec |-> spec, linkage |-> linkage, named |-> FALSE, system |-> FALSE, inside |-> "", body |-> body]
StdRef == "const std::exception &"
Specs == {"none", "noexcept", "noexcept(false)", "throw()", "throw(int)"}
Types == {"Std", "Std*", "Other", "int"}
MCPrograms ==
  \* a throw two calls down, with handlers on the way
  {"main" :> Fun("function", "none", "external", <<Try(Do("call", "f"), {"..."})>>)
   @@ "f" :> Fun("function", spec, "external", <<Do("local", "D"), [Try(Do("call", "g"), hs) EXCEPT !.rethrow = r]>>)
   @@ "g" :> [Fun("function", inner, "external", <<Do("throw", t), Try(Do("throw", "int"), {t})>>) EXCEPT !.system = sys]
   @@ "D" :> Fun("dtor", "none", "inline", <<>>) :
     spec \in Specs, inner \in {"none", "throw(int)", "noexcept"}, t \in Types,
     hs \in {{}, {StdRef}, {"int", "Std"}}, r \in BOOLEAN, sys \in BOOLEAN}
  \* destructors that throw, at the end of a call and when an exception leaves it
  \cup {"main" :> Fun("function", "none", "external", <<Try(Do("call", "f"), {"..."})>>)
        @@ "f" :> Fun("function", spec, "external", <<Do("local", "D"), Do("local", "D"), Try(Do("throw", "Std"), hs)>>)
        @@ "D" :> Fun("dtor", dspec, link, <<Try(Do("throw", "int"), dhs)>>) :
          spec \in {"none", "noexcept"}, dspec \in Specs, link \in {"inline", "external"}, hs \in {{}, {StdRef}}, dhs \in {{}, {"int"}}}
  \* calls from C, lambdas, and containers
  \cup {"main" :> Fun("function", "none", "external", <<Do(op, "f"), Do("call", "f")>>)
        @@ "f" :> [Fun("function", spec, link, <<Do("call", "g"), Do("throw", "Std")>>) EXCEPT !.named = named]
        @@ "g" :> [Fun("lambda", inner, "inline", <<Do("throw", "int")>>) EXCEPT !.inside = "f"] :
          op \in {"callback", "call"}, spec \in Specs, link \in {"C", "exported", "external", "inline", "static"},
          named \in BOOLEAN, inner \in {"none", "noexcept"}}
  \cup {"main" :> Fun("function", "none", "external", <<Do("grow", "M"), Do("grow", "M")>>)
        @@ "M" :> Fun("move", spec, "inline", <<Do("throw", "Std"), Do("local", "D")>>) @@ "D" :> Fun("dtor", "none", "inline", <<>>) :
        spec \in Specs}
================================================================================
