-------------------------- MODULE MCSymbolDatabase --------------------------
(***************************************************************************)
(* Three source files that define x, two of them f, which a common header  *)
(* declares, and a file with main only; besides, what the checks that see  *)
(* one file only say of its declarations (FileDeclarations, NameScopes).   *)
(***************************************************************************)
EXTENDS SymbolDatabase, FileDeclarations, NameScopes, TLC

VARIABLE subject     \* "database", "file" or "scopes"

Decl(name, file, pos, def) ==
  [name |-> name, file |-> file, pos |-> pos, def |-> def, ignored |-> FALSE]
Main(file) == [Decl("main", file, 9, TRUE) EXCEPT !.ignored = TRUE]

f == Decl("f", "h", 1, FALSE)

\* x in a, b and c; f defined in b; y in c only.
MCDecls == [a |-> <<f, Decl("x", "a", 1, TRUE), Main("a")>>,
            b |-> <<f, Decl("f", "b", 1, TRUE), Decl("x", "b", 2, TRUE)>>,
            c |-> <<Decl("x", "c", 1, TRUE), Decl("f", "c", 2, TRUE)>>,
            e |-> <<Main("e")>>]

\* All orders of some units.
Orders(T) == {s \in [1..Cardinality(T) -> T] : \A i, j \in DOMAIN s : s[i] = s[j] => i = j}

\* Two first passes over some of the units, in any order, then a second pass that
\* also collects.
TwoPasses      == {<<s, t, <<"a", "b", "c">>>> : s \in UNION {Orders(T) : T \in {{"a", "b"}, {"a", "c", "e"}}},
                                                 t \in UNION {Orders(T) : T \in {{"b"}, {"b", "c"}, {"a", "b", "e"}}}}
MCChecks  == <<{"collect"}, {"collect"}, {"collect", "5.8", "8.6"}>>
\* Passes side by side.
SideBySide     == {<<<<"a">>, <<"b", "e">>, <<"c">>>>}
MCSchedules    == TwoPasses \cup SideBySide
-----------------------------------------------------------------------------
MCMaxItems == "object" :> 4 @@ "function" :> 3 @@ "defaults" :> 5

\* Blocks 2 and 4 in block 1, 3 in 2.
WidePaths == {<<1>>, <<1, 2>>, <<1, 2, 3>>, <<1, 4>>}
Texts == {ps \in UNION {[1..n -> WidePaths] : n \in 1..3} : InText(ps)}
\* The first step may be in the initializer of another variable.
Lines(ps, ds, init) ==
  [n \in DOMAIN ps |-> IF init /\ n = 1 THEN [path |-> ps[n], place |-> "init", do |-> "read"]
                                       ELSE [path |-> ps[n], place |-> "expr", do |-> ds[n]]]
Bodies == UNION {{Lines(ps, ds, init) : ds \in [DOMAIN ps -> {"set", "++", "y"}], init \in BOOLEAN} : ps \in Texts}
InBlock(body) == \A n \in DOMAIN body : body[n].do = "y" \/ Within(body[n].path, <<1, 2>>)
MCWideVariables ==
  [init : {"none", "0", "y", "f()"}, scope : {<<1>>}, loops : {{}, {2}, {3}}, steps : Bodies]
  \cup [init : {"0", "f()"}, scope : {<<1, 2>>}, loops : {{2}, {2, 3}}, steps : {b \in Bodies : InBlock(b)}]

NoEntity == [kind |-> "object", lang |-> "c", const |-> FALSE]
NoScopes ==
  /\ about = [topic |-> "types", lang |-> "c"] /\ open = <<UnitScope>> /\ scopes = 0 /\ names = <<>>
  /\ struct = NoStruct /\ wide = NoVariable /\ at = 1 /\ value = [x |-> Undefined, y |-> 0]
  /\ moved = Undefined /\ again = {} /\ inside = {} /\ differs = FALSE
MCInit ==
  /\ subject \in {"database", "file", "scopes"}
  /\ Init /\ (subject # "database" => units = CHOOSE s \in Schedules : TRUE)
  /\ IF subject = "file" THEN FileInit ELSE entity = NoEntity /\ items = <<>>
  /\ IF subject = "scopes" THEN ScopeInit ELSE NoScopes
MCNext ==
  \/ subject = "database" /\ Next /\ UNCHANGED <<subject, fileVars, scopeVars>>
  \/ subject = "file" /\ FileNext /\ UNCHANGED <<subject, vars, scopeVars>>
  \/ subject = "scopes" /\ ScopeNext /\ UNCHANGED <<subject, vars, fileVars>>
MCSpec == MCInit /\ [][MCNext]_<<subject, vars, fileVars, scopeVars>>
=============================================================================
