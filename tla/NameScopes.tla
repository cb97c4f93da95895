------------------------------ MODULE NameScopes -------------------------------
(* Names in nested scopes: the checks that say that a name hides another one or *)
(* is used twice, that a type is defined inside another declaration, and that a *)
(* variable is declared further out than it need be.  The checks walk the       *)
(* contexts of declarations, in which a block does not count; names are looked  *)
(* up in all scopes, in the order of the text.                                  *)
EXTENDS Integers, Sequences, FiniteSets, SequencesExt

CONSTANTS ScopeLangs,    \* "c" and "c++"
          MaxScopes,     \* bound: scopes that are opened
          MaxNames,      \* bound: declarations of the one name
          MaxTypeUses,   \* bound: declarations that use the one struct
          WideVariables  \* functions with a variable, see below

ASSUME ScopeAssumption == {MaxScopes, MaxNames, MaxTypeUses} \subseteq Nat

\* The blocks around the steps of a text: a block is in one place, and the text does not
\* come back to one that it left.
InText(paths) ==
  /\ \A i, j \in DOMAIN paths : \A k \in DOMAIN paths[i], l \in DOMAIN paths[j] :
       paths[i][k] = paths[j][l] => k = l /\ SubSeq(paths[i], 1, k) = SubSeq(paths[j], 1, k)
  /\ \A i, j, k \in DOMAIN paths : i < j /\ j < k =>
       Range(paths[i]) \cap Range(paths[k]) \subseteq Range(paths[j])
ASSUME WideAssumption ==
  \A w \in WideVariables :
    /\ w.init \in {"none", "0", "y", "f()"} /\ w.scope \in Seq(Nat) \ {<<>>}
    /\ w.steps \in Seq([path : Seq(Nat), place : {"expr", "init"}, do : {"read", "set", "++", "y"}])
    /\ InText([n \in DOMAIN w.steps |-> w.steps[n].path])

VARIABLES about,       \* "names", "types" or "width", and the language
          open,        \* the scopes around the place that is read: [id, kind]
          scopes,      \* how many have been opened
          names,       \* declarations of the name: [what, path]
          struct,      \* of a struct: [tag, at, uses]
          wide,        \* one of WideVariables
          at, value,   \* next step of its function; values of x and y
          again,       \* loops in their second round
          moved,       \* value of x if it is declared where the report says
          inside,      \* of the two scopes of x, those that it is in
          differs      \* that value was not the one that was read

nameVars == <<about, open, scopes, names>>
typeVars == <<struct>>
wideVars == <<wide, at, value, again, moved, inside, differs>>
scopeVars == <<nameVars, typeVars, wideVars>>

InCxx == about.lang = "c++"

--------------------------------------------------------------------------------
(* The parser reads declarations of one name.  Scopes are the unit, namespaces,  *)
(* classes, functions with their parameters, lambdas in a function, and blocks.  *)

Context(path) == path[Len(path)]
Inside(kind) ==
  LET CxxOnly(S) == IF InCxx THEN S ELSE {}
  IN  CASE kind = "unit" -> {"function"} \cup CxxOnly({"namespace", "class"})
        [] kind = "namespace" -> {"function", "class"}
        [] kind = "class" -> {"function"}
        [] kind \in {"function", "block"} -> {"block"} \cup CxxOnly({"class", "lambda"})
        [] kind = "lambda" -> {"block"}
Declarable(kind) ==
  CASE kind \in {"unit", "namespace"} -> {"var", "function", "typedef", "enumerator", "tag"}
    [] kind = "class" -> {"field", "typedef", "tag"}
    [] kind \in {"function", "lambda"} -> {"param", "var", "static", "typedef", "tag"}
    [] kind = "block" -> {"var", "static", "typedef", "tag"}

UnitScope == [id |-> 0, kind |-> "unit"]
OpenScope(kind) ==
  /\ about.topic = "names" /\ scopes < MaxScopes /\ kind \in Inside(Context(open).kind)
  /\ scopes' = scopes + 1
  /\ open' = Append(open, [id |-> scopes + 1, kind |-> kind])
  /\ UNCHANGED <<about, names, typeVars, wideVars>>
CloseScope ==
  /\ about.topic = "names" /\ Len(open) > 1
  /\ open' = Front(open)
  /\ UNCHANGED <<about, scopes, names, typeVars, wideVars>>

\* In C a tag is no rival of other names.
SameSpace(what, other) == InCxx \/ (what = "tag" <=> other = "tag")
DeclareName(what) ==
  /\ about.topic = "names" /\ Len(names) < MaxNames /\ what \in Declarable(Context(open).kind)
  /\ \A i \in DOMAIN names : names[i].path = open => ~SameSpace(what, names[i].what)
  /\ names' = Append(names, [what |-> what, path |-> open])
  /\ UNCHANGED <<about, open, scopes, typeVars, wideVars>>

--------------------------------------------------------------------------------
(* Reports on names.  getDeclContext() and getParent() pass blocks by.           *)

DeclContext(path) == path[Max({k \in DOMAIN path : path[k].kind # "block"})]
Parents(i) ==
  {c \in Range(names[i].path) : c.kind # "block"} \ {DeclContext(names[i].path)}
Has(c, whats) == \E j \in DOMAIN names : Context(names[j].path) = c /\ names[j].what \in whats
InFunction(i) == DeclContext(names[i].path).kind \in {"function", "lambda"}

OwnContext(i) ==                                             \* mutant: starts one context too low
  names[i].what = "var" /\ InFunction(i) /\ Has(DeclContext(names[i].path), {"param", "field"})
IdentifierShadowing(i) ==
  /\ names[i].what = "var" /\ InFunction(i)
  /\ \E c \in Parents(i) : Has(c, CASE c.kind \in {"function", "lambda"} -> {"param"}
                                    [] c.kind = "class" -> {"field"}
                                    [] OTHER -> {"var"})
NoParameters(i) ==                                           \* mutant: not in the function itself
  names[i].what = "tag" /\ \E c \in Parents(i) : Has(c, {"field", "var", "function", "typedef"})
TagNameHiding(i) ==
  /\ names[i].what = "tag"
  /\ \/ InFunction(i) /\ Has(DeclContext(names[i].path), {"param"})
     \/ \E c \in Parents(i) : Has(c, CASE c.kind \in {"function", "lambda"} -> {"param"}
                                       [] c.kind = "class" -> {"field"}
                                       [] OTHER -> {"var", "function", "typedef", "enumerator"})
Repeated(i, what) == names[i].what = what /\ \E j \in 1 .. i - 1 : names[j].what = what
SameParent(i) ==                                             \* mutant: within one scope around both
  Repeated(i, "tag") /\ \E j \in 1 .. i - 1 : Front(names[i].path) = Front(names[j].path)
DuplicateTagName(i) == Repeated(i, "tag")
DuplicateTypedefName(i) == Repeated(i, "typedef")

--------------------------------------------------------------------------------
(* A struct without or with a tag, defined in a declaration of its own or of     *)
(* something else, and declarations that use it.                                 *)

NoStruct == [tag |-> TRUE, at |-> "none", uses |-> <<>>]
DefineStruct(tag, in) ==
  /\ about.topic = "types" /\ struct.at = "none"
  /\ in = "alone" => tag
  /\ struct' = [struct EXCEPT !.tag = tag, !.at = in]
  /\ UNCHANGED <<nameVars, wideVars>>
UseStruct(in, via) ==
  /\ about.topic = "types" /\ struct.at # "none" /\ Len(struct.uses) < MaxTypeUses
  /\ IF via = "tag" THEN struct.tag ELSE struct.at \in {"typedef", "alias"}
  /\ struct' = [struct EXCEPT !.uses = Append(@, [in |-> in, via |-> via])]
  /\ UNCHANGED <<nameVars, wideVars>>

\* getInlineTagDecl() sees through typedefs to a struct without a tag.
AtDefinition(in) == struct.at = in /\ ~struct.tag             \* mutant: only where it is defined
InlineTag(in) == struct.at # "none" /\ ~struct.tag
InlineTypeDefinition ==
  {in \in {struct.at} \cup {struct.uses[i].in : i \in DOMAIN struct.uses} : InlineTag(in)}
UnusedType == struct.at = "typedef" /\ ~\E i \in DOMAIN struct.uses : struct.uses[i].via = "name"

--------------------------------------------------------------------------------
(* A variable x and what refers to it.  In WideVariables: init, what x starts    *)
(* with: "none", "0", "y" or "f()"; scope: the blocks around it, outermost first; *)
(* loops: those blocks that are loops; steps: in order, path: the blocks around   *)
(* it, place: "expr", or "init" in another declaration, and do: "read", "set" or  *)
(* "++" of x, "y" for a change of y.                                              *)

NoVariable == [init |-> "none", scope |-> <<>>, loops |-> {}, steps |-> <<>>]
Refs == {n \in DOMAIN wide.steps : wide.steps[n].do # "y"}
NoScope == <<>>
CommonPrefix(p, q) == LongestCommonPrefix({p, q})

\* The way up from a reference to its blocks ends at a declaration.
Ancestors(ref) == IF ref.place = "init" THEN NoScope ELSE ref.path
\* findCommonScope(): of the blocks around a block and those around a reference.
CommonScope(scope, ref) == IF scope = NoScope THEN NoScope ELSE CommonPrefix(Front(scope), Ancestors(ref))
OfFirst == IF Refs = {} THEN NoScope ELSE Ancestors(wide.steps[Min(Refs)])   \* mutant: the first reference only
Joined(scope, n) ==
  CASE n \notin Refs -> scope
    [] n \in Refs /\ Refs \cap 1 .. n - 1 = {} -> Ancestors(wide.steps[n])
    [] n \in Refs /\ Refs \cap 1 .. n - 1 # {} -> CommonScope(scope, wide.steps[n])
ScopeUpTo ==
  LET upTo[n \in 0 .. Len(wide.steps)] == IF n = 0 THEN NoScope ELSE Joined(upTo[n - 1], n)
  IN  upTo
CommonScopeForAll == ScopeUpTo[Len(wide.steps)]
Nested(inner, outer) == IsStrictPrefix(outer, inner)
AnyInit ==                                                   \* mutant: initializers with effects as well
  CommonScopeForAll # NoScope /\ Nested(CommonScopeForAll, wide.scope)
WideVariableScope ==
  wide.init # "f()" /\ CommonScopeForAll # NoScope /\ Nested(CommonScopeForAll, wide.scope)

\* The function runs as it is and with x declared at the start of the reported scope,
\* anew whenever the scope is entered; loops run twice.
Undefined == 9
Start(y) == CASE wide.init = "none" -> Undefined [] wide.init = "0" -> 0
              [] wide.init = "y" -> y [] wide.init = "f()" -> (y + 1) % 3
Within(path, scope) == IsPrefix(scope, path)
Done(x, do) == CASE do = "set" -> 1 [] do = "++" /\ x # Undefined -> (x + 1) % 3 [] OTHER -> x
\* The loops that go round after a step: it is their last one, in their first round.
GoRound(i) == {l \in wide.loops \ again : /\ l \in Range(wide.steps[i].path)
                                          /\ i < Len(wide.steps) => l \notin Range(wide.steps[i + 1].path)}
StartOf(l) == CHOOSE i \in DOMAIN wide.steps :
                l \in Range(wide.steps[i].path) /\ (i > 1 => l \notin Range(wide.steps[i - 1].path))

Step ==
  /\ about.topic = "width" /\ at \in DOMAIN wide.steps
  /\ LET s == wide.steps[at]
         here == {scope \in {wide.scope, CommonScopeForAll} : Within(s.path, scope)}
         From(scope, old) == IF scope \in here \ inside THEN Start(value.y) ELSE old
         x == From(wide.scope, value.x)
         m == From(CommonScopeForAll, moved)
         round == {k \in DOMAIN s.path : s.path[k] \in GoRound(at)}
         innermost == s.path[Max(round)]
     IN  /\ value' = [x |-> Done(x, s.do), y |-> IF s.do = "y" THEN (value.y + 1) % 3 ELSE value.y]
         /\ moved' = Done(m, s.do)
         /\ differs' = (differs \/ (s.do \in {"read", "++"} /\ x # Undefined /\ x # m))
         /\ IF round = {}
            THEN at' = at + 1 /\ inside' = here /\ UNCHANGED again
            ELSE /\ at' = StartOf(innermost)
                 /\ inside' = {scope \in here : innermost \notin Range(scope)}
                 /\ again' = Range(SubSeq(s.path, 1, Max(round))) \cap (again \cup {innermost})
  /\ UNCHANGED <<wide, nameVars, typeVars>>

--------------------------------------------------------------------------------
ScopeInit ==
  /\ about \in [topic : {"names", "types", "width"}, lang : ScopeLangs]
  /\ open = <<UnitScope>> /\ scopes = 0 /\ names = <<>> /\ struct = NoStruct
  /\ wide \in IF about.topic = "width" THEN WideVariables ELSE {NoVariable}
  /\ at = 1 /\ value = [x |-> Undefined, y |-> 0] /\ moved = Undefined
  /\ again = {} /\ inside = {} /\ differs = FALSE
ScopeNext ==
  \/ \E kind \in {"namespace", "class", "function", "block", "lambda"} : OpenScope(kind)
  \/ CloseScope
  \/ \E what \in {"var", "function", "typedef", "enumerator", "tag", "field", "param", "static"} : DeclareName(what)
  \/ \E tag \in BOOLEAN, in \in {"alone", "var", "field", "typedef", "alias"} : DefineStruct(tag, in)
  \/ \E in \in {"var", "field", "param", "return"}, via \in {"tag", "name"} : UseStruct(in, via)
  \/ Step
ScopeSpec == ScopeInit /\ [][ScopeNext]_scopeVars

--------------------------------------------------------------------------------
(* Properties. *)

\* What a declaration hides: what was declared before it, or is a member, in a scope
\* around its own.
Hidden(i) ==
  {j \in DOMAIN names : /\ Nested(names[i].path, names[j].path) /\ SameSpace(names[i].what, names[j].what)
                        /\ j < i \/ names[j].what = "field"}
SameFunction(i, j) == DeclContext(names[i].path) = DeclContext(names[j].path)
LocalVar(i) == InFunction(i) /\ names[i].what \in {"var", "static"}

\* A local variable that hides a variable, a member or a parameter is reported, unless that is
\* a variable of an enclosing function or block or a parameter of its own function; a tag
\* that hides anything, unless that is a local name or a name in a class; a typedef that
\* hides a typedef.
HidingReported ==
  \A i \in DOMAIN names : \A j \in Hidden(i) :
    /\ names[i].what = "var" /\ InFunction(i) /\ names[j].what \in {"var", "field", "param", "static"} =>
         IdentifierShadowing(i) \/ SameFunction(i, j) \/ LocalVar(j)
    /\ names[i].what = "tag" =>
         \/ TagNameHiding(i) \/ DuplicateTagName(i)
         \/ InFunction(j) /\ names[j].what # "param"
         \/ Context(names[j].path).kind = "class"
    /\ {names[i].what, names[j].what} = {"typedef"} => DuplicateTypedefName(i)

\* What is reported to hide a name does so, unless the other name comes later or, for a
\* tag in C, is no tag.
ReportedHides ==
  \A i \in DOMAIN names :
    IdentifierShadowing(i) \/ TagNameHiding(i) =>
      Hidden(i) # {} \/ (~InCxx /\ names[i].what = "tag") \/ \E j \in i + 1 .. Len(names) : Nested(names[i].path, names[j].path)

\* A type is reported for where it is defined, if it has no tag, and also for each
\* declaration that uses it by the name of a typedef; then the typedef is in use.
DefinedInline ==
  /\ \/ struct.tag
     \/ {struct.at} \cup {struct.uses[i].in : i \in DOMAIN struct.uses} \subseteq InlineTypeDefinition
  /\ \A in \in InlineTypeDefinition :
       in = struct.at \/ (~struct.tag /\ struct.at \in {"typedef", "alias"} /\ ~UnusedType)

\* A variable is said to be declared too far out with a scope that holds all that refers
\* to it, and it may be declared there: its values stay the same, unless that scope is in
\* a loop or its first value is that of a variable that changes.  A variable with one
\* reference, not in a declaration, is always found.
WidthReported ==
  /\ WideVariableScope =>
       /\ \A n \in Refs : Within(wide.steps[n].path, CommonScopeForAll)
       /\ differs => \/ \E l \in wide.loops : l \in Range(CommonScopeForAll) \ Range(wide.scope)
                     \/ wide.init = "y" /\ \E n \in DOMAIN wide.steps : wide.steps[n].do = "y"
  /\ \A n \in Refs : Refs = {n} /\ wide.init # "f()" /\ Nested(wide.steps[n].path, wide.scope) =>
       WideVariableScope \/ wide.steps[n].place = "init"

\* What is said of names, types and scopes agrees with what they are.
ScopesJudged == HidingReported /\ ReportedHides /\ DefinedInline /\ WidthReported
================================================================================
