----------------------------- MODULE PointerChecks -----------------------------
(* The checks of the pointers in one C++ function without branches.  The        *)
(* function is put together as the compiler reads it: a pointer, steps from it  *)
(* to other pointers, and what is done with the last one.  At each step the     *)
(* checks that match look at the text of the expression; where the pointer      *)
(* leads when the function runs, and what was said on the way, is kept for the  *)
(* properties only.  What the checks have to find is the first undefined event  *)
(* of the run.                                                                  *)
(*                                                                              *)
(* Objects are counted in elements of one size, that of char left aside.  Not   *)
(* modelled: classes, pointers to pointers, null, ++ and --.                    *)
EXTENDS Integers, Sequences, FiniteSets, SequencesExt, Functions, UnionAccesses, Reports

CONSTANTS Objects,    \* variables: [type, length (0 if no array), const, static, init]
          Pointers,   \* pointer variables: TRUE if static
          Fragments,  \* what a function is made of: [leaves, moves, uses]
          MaxMoves, MaxStatements

\* new T and new T[2]
Heap == [single |-> 1, pair |-> 2]

ASSUME ObjectsAssumption ==
  /\ \A v \in DOMAIN Objects : /\ Objects[v].length \in Nat
                               /\ {Objects[v].const, Objects[v].static, Objects[v].init} \subseteq BOOLEAN
  /\ \A v \in DOMAIN Pointers : Pointers[v] \in BOOLEAN
  /\ DOMAIN Objects \cap DOMAIN Pointers = {}
  /\ (DOMAIN Objects \cup DOMAIN Pointers) \cap (DOMAIN Heap \cup {"none", "word", "null", "unknown"}) = {}

ExplicitCasts == {"c", "static", "reinterpret", "const"}
ASSUME FragmentsAssumption ==
  \A f \in Fragments : \A m \in f.moves : m.op \in ExplicitCasts => m.const \in BOOLEAN

VARIABLES fragment,   \* what this function is made of
          expr,       \* the pointer expression being read, NoExpr between two
          left,       \* the one to the left of the operator being read
          declared,   \* pointer variables: their initializers and types
          holds,      \* and the pointers in them
          used,       \* variables assigned to, and what was allocated
          cells,      \* elements that have a value
          search,     \* the two pointers of a subtraction, on the way to their origins
          verdict,    \* what was said of the last subtraction
          event,      \* the first undefined event of the run
          moves, statements   \* counters, bounded by MaxMoves and MaxStatements

vars == <<fragment, expr, left, declared, holds, used, cells, search, verdict, event, moves, statements>>

--------------------------------------------------------------------------------
(* Expressions.  text: the steps from the leaf to the root, without parentheses *)
(* and implicit casts; type and const: of what it points to; object and at:     *)
(* where it points; said: the checks that have reported on the way; slips: what *)
(* happened on the way that the checks make nothing of.                         *)

S(op, arg) == [op |-> op, arg |-> arg, from |-> "none", to |-> "none"]
CastStep(op, s, t) == [op |-> op, arg |-> 0, from |-> s, to |-> t]

NoExpr == [text |-> <<>>, type |-> "none", const |-> FALSE, object |-> "none", at |-> 0, said |-> {}, slips |-> {}]
NoEvent == [kind |-> "none", to |-> NoExpr, from |-> NoExpr]

IsObject(v) == v \in DOMAIN Objects
IsArray(v) == IsObject(v) /\ Objects[v].length > 0
Automatic(v) == IF IsObject(v) THEN ~Objects[v].static ELSE ~Pointers[v]
Located(o) == IsObject(o) \/ o \in DOMAIN Heap
ElementsOf(o) == IF IsObject(o) THEN IF IsArray(o) THEN Objects[o].length ELSE 1 ELSE Heap[o]
TypeOf(o) == IF IsObject(o) THEN Objects[o].type ELSE "int"

Ends(t, ops) == t # <<>> /\ Last(t).op \in ops

--------------------------------------------------------------------------------
(* Checks of arithmetic and subscripts. *)

\* isArrayElementPointer(): an array, &X[i], or one of these plus or minus n.
AnyAddress(t) ==                                          \* mutant: any & will do
  \E i \in DOMAIN t : /\ \A j \in i + 1 .. Len(t) : t[j].op \in {"plus", "minus"}
                      /\ t[i].op \in {"elem", "addr"} \/ (t[i].op = "name" /\ IsArray(t[i].arg))
IsArrayElementPointer(t) ==
  \E i \in DOMAIN t : /\ \A j \in i + 1 .. Len(t) : t[j].op \in {"plus", "minus"}
                      /\ t[i].op = "elem" \/ (t[i].op = "name" /\ IsArray(t[i].arg))
WrongPointerArithmetic(t) == Say("WrongPointerArithmetic", ~IsArrayElementPointer(t))

\* checkArraySubscript(), of a constant index: the base has to be an array by name.
LastElementOnly(t, i) ==                                  \* mutant: off by one
  Say("OutOfBoundsAccess", Len(t) = 1 /\ Ends(t, {"name"}) /\ IsArray(t[1].arg)
                           /\ i \notin 0 .. Objects[t[1].arg].length)
OutOfBoundsAccess(t, i) ==
  Say("OutOfBoundsAccess", Len(t) = 1 /\ Ends(t, {"name"}) /\ IsArray(t[1].arg)
                           /\ i \notin 0 .. Objects[t[1].arg].length - 1)

NonArrayPointerArith(t) ==
  Say("NonArrayPointerArith", Len(t) = 1 /\ (t[1].op = "addr" \/ t[1] = S("new", "single")))

\* The reports on "+" and "-" with an integer: two of every one, array/ and C:2025.
PointerArithmetic == {"PointerArithmetic"}
PointerArithmeticC25 == {"PointerArithmeticC25"}
Added(t) == WrongPointerArithmetic(t) \cup NonArrayPointerArith(t) \cup PointerArithmetic \cup PointerArithmeticC25

--------------------------------------------------------------------------------
(* Checks of casts. *)

Transparent(s, t) == s = t \/ {s, t} \cap {"void", "char"} # {}
PointerTypeCast(how, s, t) ==
  Say("PointerTypeCast", how = "c" /\ "word" \notin {s, t} /\ ~Transparent(s, t))
IncompatiblePointerCast(s, t) ==
  Say("IncompatiblePointerCast", "word" \notin {s, t} /\ ~Transparent(s, t))
VoidPointerCast(s, t) == Say("VoidPointerCast", s = "void" /\ t \notin {"void", "word"})
IncompatiblePointerConversion(how, s, t) ==
  Say("IncompatiblePointerConversion",
      how = "c" /\ ((s = "void" /\ t # "void") \/ (s = "word" /\ t = "void")))
PointerIntegerCast(s, t) == Say("PointerIntegerCast", (s = "word") # (t = "word"))
OnlyCStyle(how, s, c, t, d) ==                            \* mutant: as before C++
  Say("ConstQualifierRemoval", how = "c" /\ "word" \notin {s, t} /\ c /\ ~d)
ConstQualifierRemoval(how, s, c, t, d) ==
  Say("ConstQualifierRemoval", "word" \notin {s, t} /\ c /\ ~d)
CastRemovingQualifier(s, c, t, d) ==
  Say("CastRemovingQualifier", "word" \notin {s, t} /\ c /\ ~d)
JudgeCast(how, s, c, t, d) ==
  UNION {PointerTypeCast(how, s, t), IncompatiblePointerCast(s, t), VoidPointerCast(s, t),
         IncompatiblePointerConversion(how, s, t), PointerIntegerCast(s, t),
         ConstQualifierRemoval(how, s, c, t, d), CastRemovingQualifier(s, c, t, d)}

\* An access *X or X[i] where X is itself a cast.
TypePunning(t) ==
  Say("TypePunning", /\ Ends(t, {"c", "reinterpret"})
                     /\ IF Last(t).from = "word" THEN Last(t).to \notin {"void", "char"}
                        ELSE ~Transparent(Last(t).from, Last(t).to))
Subscripted(t, i) == WrongPointerArithmetic(t) \cup OutOfBoundsAccess(t, i) \cup TypePunning(t)

--------------------------------------------------------------------------------
(* Checks of declarations and of the lifetime. *)

\* isRead: v is named, outside of & and of the left side of "=".
UninitializedRead(v, init) == Say("UninitializedRead", Automatic(v) /\ ~init)
UninitializedVariable(init) == Say("UninitializedVariable", ~init)
UninitializedAutoVar(v, init) == Say("UninitializedAutoVar", Automatic(v) /\ ~IsArray(v) /\ ~init)
UninitializedArray(v, init) == Say("UninitializedArray", IsArray(v) /\ ~init)
DeclarationOf(v, init) ==
  UninitializedVariable(init) \cup UninitializedAutoVar(v, init) \cup UninitializedArray(v, init)

AddressOfLocal(t) == Len(t) = 1 /\ t[1].op = "addr" /\ Automatic(t[1].arg)
\* A value that goes to a static pointer or is returned.
AutoAddressEscape(t) == Say("AutoAddressEscape", AddressOfLocal(t))

\* getReferencedLocalVar(), which takes a name for the address of what it names.
ReferencedLocalVar(t) == Len(t) = 1 /\ t[1].op \in {"addr", "name"} /\ Automatic(t[1].arg)
OnlyAddresses(t) == Say("DanglingReference", AddressOfLocal(t))   \* mutant: no names
DanglingReference(t) == Say("DanglingReference", ReferencedLocalVar(t))

\* Without implicit casts: an added const hides the &.
ReturnLocalAddress(t, cast) == Say("ReturnLocalAddress", ~cast /\ AddressOfLocal(t))
JudgeReturn(t, cast) == AutoAddressEscape(t) \cup DanglingReference(t) \cup ReturnLocalAddress(t, cast)

--------------------------------------------------------------------------------
(* Checks of memcpy and of "p = q". *)

\* areSameObject(): the same text, of names, & and subscripts.
SameObject(s, t) == s = t /\ \A i \in DOMAIN t : t[i].op \in {"name", "addr", "elem"}
CopyBase(t) == IF Ends(t, {"plus"}) THEN Front(t) ELSE t
SameStart(s, t) == Say("OverlappingCopy", SameObject(s, t))       \* mutant: no offsets
OverlappingCopy(s, t) ==
  Say("OverlappingCopy",
      SameObject(s, t) \/ (~Ends(s, {"minus"}) /\ ~Ends(t, {"minus"}) /\ SameObject(CopyBase(s), CopyBase(t))))
OverlappingAssignment(s, t) == Say("OverlappingAssignment", s = t /\ Len(t) = 1 /\ Ends(t, {"name"}))
JudgeCopy(s, t) == OverlappingCopy(s, t) \cup OverlappingAssignment(s, t)

--------------------------------------------------------------------------------
(* The check of subtractions. *)

\* getPointerOrigin(), one turn of its loop: an explicit cast is taken off, or the
\* name of a variable becomes its initializer.
Initialized(t) == Len(t) = 1 /\ Ends(t, {"name"}) /\ t[1].arg \in DOMAIN declared /\ declared[t[1].arg].init # <<>>
Turns(t) == Ends(t, {"static", "c"}) \/ Initialized(t)
CastKept(t) == IF Initialized(t) THEN declared[t[1].arg].init ELSE t  \* mutant: a cast is looked at again
Turned(t) == IF Initialized(t) THEN declared[t[1].arg].init ELSE Front(t)

\* isDistinctPointerOrigin()
AddressOrigin(t) == Ends(t, {"addr", "elem"})
DistinctOrigin(t) == AddressOrigin(t) \/ Ends(t, {"new"})
\* The variable that is named in &v or &v[i].
BaseDecl(t) == IF Len(t) = 1 THEN t[1].arg ELSE IF Len(t) = 2 /\ t[1].op = "name" THEN t[1].arg ELSE "none"
AnyTwoTexts(s, t) == DistinctOrigin(s) /\ DistinctOrigin(t) /\ s # t      \* mutant: texts compared
UnrelatedPointers(s, t) ==
  /\ DistinctOrigin(s) /\ DistinctOrigin(t)
  /\ IF AddressOrigin(s) /\ AddressOrigin(t) THEN BaseDecl(s) # "none" /\ BaseDecl(t) # "none" /\ BaseDecl(s) # BaseDecl(t)
     ELSE s # t

NoSearch == [ends |-> <<<<>>, <<>>>>, via |-> {}, same |-> FALSE]
Searching == search # NoSearch
NoVerdict == [reported |-> FALSE, same |-> FALSE, plain |-> FALSE]

\* An origin that is an object of its own: not an element that another pointer names.
Plain(t) == DistinctOrigin(t) /\ (AddressOrigin(t) => IsObject(BaseDecl(t)))

\* The left pointer is followed to its end before the right one.
Follow(i) ==
  /\ Searching /\ Turns(search.ends[i]) /\ (i = 2 => ~Turns(search.ends[1]))
  /\ search' = [search EXCEPT !.ends[i] = Turned(@),
                              !.via = @ \cup (IF Initialized(search.ends[i]) THEN {search.ends[i][1].arg} ELSE {})]
  /\ UNCHANGED <<fragment, expr, left, declared, holds, used, cells, verdict, event, moves, statements>>

JudgeSubtraction ==
  /\ Searching /\ \A i \in 1 .. 2 : ~Turns(search.ends[i])
  /\ LET s == search.ends[1]
         t == search.ends[2]
     IN  verdict' = [reported |-> UnrelatedPointers(s, t), same |-> search.same,
                     plain |-> Plain(s) /\ Plain(t) /\ search.via \cap used = {}]
  /\ search' = NoSearch
  /\ UNCHANGED <<fragment, expr, left, declared, holds, used, cells, event, moves, statements>>

--------------------------------------------------------------------------------
(* Pointer expressions. *)

Ready == ~Searching /\ statements < MaxStatements
Begins == Ready /\ expr = NoExpr
\* A pointer has been read; its next step, and its use.
Steps == Ready /\ expr # NoExpr /\ moves < MaxMoves /\ moves' = moves + 1
Uses(use) == Ready /\ expr # NoExpr /\ use \in fragment.uses
Happens(kind, e, f) == event' = IF event.kind = "none" /\ kind # "none" THEN [kind |-> kind, to |-> e, from |-> f] ELSE event
Reading == UNCHANGED <<fragment, left, declared, holds, search, statements>> /\ verdict' = NoVerdict

\* A variable is named: an array, or a pointer with what it holds.
Name(v) ==
  /\ Begins /\ v \in fragment.leaves
  /\ \/ /\ IsArray(v)
        /\ expr' = [NoExpr EXCEPT !.text = <<S("name", v)>>, !.type = Objects[v].type, !.const = Objects[v].const,
                                  !.object = v, !.said = UninitializedRead(v, Objects[v].init)]
        /\ UNCHANGED event
     \/ /\ v \in DOMAIN declared
        /\ expr' = [NoExpr EXCEPT !.text = <<S("name", v)>>, !.type = declared[v].type, !.const = declared[v].const,
                                  !.object = holds[v].object, !.at = holds[v].at, !.slips = holds[v].slips,
                                  !.said = holds[v].said \cup UninitializedRead(v, declared[v].init # <<>>)]
        /\ Happens(IF holds[v].object = "unknown" THEN "wild" ELSE "none", expr', NoExpr)
  /\ Reading /\ UNCHANGED <<used, cells, moves>>

AddressOf(v) ==
  /\ Begins /\ v \in fragment.leaves /\ IsObject(v) /\ ~IsArray(v)
  /\ expr' = [NoExpr EXCEPT !.text = <<S("addr", v)>>, !.type = Objects[v].type, !.const = Objects[v].const, !.object = v]
  /\ Reading /\ UNCHANGED <<used, cells, event, moves>>

New(o) ==
  /\ Begins /\ o \in fragment.leaves /\ o \in DOMAIN Heap \ used
  /\ expr' = [NoExpr EXCEPT !.text = <<S("new", o)>>, !.type = "int", !.object = o]
  /\ used' = used \cup {o}
  /\ Reading /\ UNCHANGED <<cells, event, moves>>

Number ==
  /\ Begins /\ "word" \in fragment.leaves
  /\ expr' = [NoExpr EXCEPT !.text = <<S("word", 0)>>, !.type = "word", !.object = "word"]
  /\ Reading /\ UNCHANGED <<used, cells, event, moves>>

\* Outside of 0..n there is no pointer to an object of n elements.
Outside(e, n) == Located(e.object) /\ e.at + n \notin 0 .. ElementsOf(e.object)
Countable(t) == t \notin {"word", "void", "char"}

\* &e[i]
Element(i) ==
  /\ Steps /\ [op |-> "elem", n |-> i] \in fragment.moves /\ Countable(expr.type)
  /\ expr' = [expr EXCEPT !.text = Append(@, S("elem", i)), !.at = @ + i, !.said = @ \cup Subscripted(expr.text, i),
                          !.slips = @ \cup Say("element_of_element", Subscripted(expr.text, i) = {} /\ Len(expr.text) > 1)]
  /\ Happens(IF Outside(expr, i) THEN "bounds" ELSE "none", expr', NoExpr)
  /\ Reading /\ UNCHANGED <<used, cells>>

\* e + n, e - n
Plus(op, n) ==
  /\ Steps /\ [op |-> op, n |-> n] \in fragment.moves /\ Countable(expr.type)
  /\ LET d == IF op = "plus" THEN n ELSE -n
     IN  /\ expr' = [expr EXCEPT !.text = Append(@, S(op, n)), !.at = @ + d, !.said = @ \cup Added(expr.text)]
         /\ Happens(IF Outside(expr, d) THEN "bounds" ELSE "none", expr', NoExpr)
  /\ Reading /\ UNCHANGED <<used, cells>>

\* What C++ allows each cast to do.
Allowed(how, s, c, t, d) ==
  CASE how = "static" -> "word" \notin {s, t} /\ (s = t \/ "void" \in {s, t}) /\ (c => d)
    [] how = "reinterpret" -> (s # "word" \/ t # "word") /\ (c => d)
    [] how = "const" -> s = t /\ s # "word" /\ c # d
    [] how = "c" -> s # "word" \/ t # "word"

Cast(how, t, d) ==
  /\ Steps /\ [op |-> how, to |-> t, const |-> d] \in fragment.moves
  /\ Allowed(how, expr.type, expr.const, t, d)
  /\ expr' = [expr EXCEPT !.text = Append(@, CastStep(how, expr.type, t)), !.type = t, !.const = d,
                          !.said = @ \cup JudgeCast(how, expr.type, expr.const, t, d),
                          !.slips = @ \cup Say("by_char", "char" \in {expr.type, t} /\ expr.type # t)]
  /\ Reading /\ UNCHANGED <<used, cells, event>>

\* The first operand of a binary operator or of memcpy is complete.
FirstOperand ==
  /\ Ready /\ expr # NoExpr /\ left = NoExpr /\ expr.type # "word"
  /\ fragment.uses \cap {"subtract", "compare", "copy"} # {}
  /\ left' = expr /\ expr' = NoExpr
  /\ UNCHANGED <<fragment, declared, holds, used, cells, search, verdict, event, moves, statements>>

--------------------------------------------------------------------------------
(* Statements. *)

Ended == statements' = statements + 1 /\ expr' = NoExpr /\ left' = NoExpr /\ UNCHANGED fragment
Alone == left = NoExpr
OnStack(e) == IsObject(e.object) /\ Automatic(e.object)

\* T *v = e;
Declare(v) ==
  /\ Uses("declare") /\ Alone /\ v \in (fragment.leaves \cap DOMAIN Pointers) \ DOMAIN declared /\ expr.type # "word"
  /\ declared' = [u \in DOMAIN declared \cup {v} |->
                    IF u = v THEN [init |-> expr.text, type |-> expr.type, const |-> expr.const] ELSE declared[u]]
  /\ LET e == [expr EXCEPT !.said = @ \cup (IF Pointers[v] THEN AutoAddressEscape(expr.text) ELSE {})]
     IN  /\ holds' = [u \in DOMAIN declared' |-> IF u = v THEN e ELSE holds[u]]
         /\ Happens(IF Pointers[v] /\ OnStack(e) THEN "kept" ELSE "none", e, NoExpr)
  /\ Ended /\ UNCHANGED <<used, cells, search, verdict, moves>>

\* int *v; and, with an initializer that is no help, int *v = v;
DeclareEmpty(v, init) ==
  /\ Begins /\ "empty" \in fragment.uses /\ Alone /\ v \in (fragment.leaves \cap DOMAIN Pointers) \ DOMAIN declared
  /\ init \in {<<>>, <<S("name", v)>>} /\ (Pointers[v] => init = <<>>)
  /\ declared' = [u \in DOMAIN declared \cup {v} |->
                    IF u = v THEN [init |-> init, type |-> "int", const |-> FALSE] ELSE declared[u]]
  /\ LET e == [NoExpr EXCEPT !.object = IF Pointers[v] THEN "null" ELSE "unknown", !.said = DeclarationOf(v, init # <<>>),
                             !.slips = Say("with_itself", init # <<>>)]
     IN  /\ holds' = [u \in DOMAIN declared' |-> IF u = v THEN e ELSE holds[u]]
         /\ Happens(IF init = <<>> THEN "none" ELSE "wild", e, NoExpr)
  /\ Ended /\ UNCHANGED <<used, cells, search, verdict, moves>>

\* v = e;
Assign(v) ==
  /\ Uses("assign") /\ Alone /\ v \in DOMAIN declared
  /\ expr.type = declared[v].type /\ (expr.const => declared[v].const)
  /\ LET name == <<S("name", v)>>
         e == [expr EXCEPT !.said = @ \cup OverlappingAssignment(name, expr.text)
                                      \cup Say("OverlappingCopy", SameObject(name, expr.text))
                                      \cup (IF Pointers[v] THEN AutoAddressEscape(expr.text) ELSE {})]
     IN  /\ holds' = [holds EXCEPT ![v] = e]
         /\ Happens(IF Pointers[v] /\ OnStack(e) THEN "kept" ELSE "none", e, NoExpr)
  /\ used' = used \cup {v}
  /\ Ended /\ UNCHANGED <<declared, cells, search, verdict, moves>>

\* What is wrong with an access to element i of e.
AccessError(e, i, writes) ==
  LET cell == <<e.object, e.at + i>>
  IN  IF ~Located(e.object) THEN "wild"
      ELSE IF e.at + i \notin 0 .. ElementsOf(e.object) - 1 THEN "bounds"
      ELSE IF e.type \notin {"char", TypeOf(e.object)} THEN "type"
      ELSE IF writes /\ IsObject(e.object) /\ Objects[e.object].const THEN "const"
      ELSE IF ~writes /\ cell \notin cells THEN "no_value" ELSE "none"

\* x = *e; x = e[i]; and *e = x; e[i] = x;
Access(i, subscript, writes) ==
  /\ Uses("access") /\ Alone /\ expr.type \notin {"word", "void"} /\ ~(writes /\ expr.const)
  /\ subscript /\ i # 0 => Countable(expr.type)
  /\ LET e == [expr EXCEPT
                 !.said = @ \cup (IF subscript THEN Subscripted(expr.text, i) ELSE TypePunning(expr.text)),
                 !.slips = @ \cup Say("element_of_element",
                                      subscript /\ Subscripted(expr.text, i) = {} /\ Len(expr.text) > 1)]
     IN  Happens(AccessError(expr, i, writes), e, NoExpr)
  /\ cells' = IF writes /\ AccessError(expr, i, writes) = "none" THEN cells \cup {<<expr.object, expr.at + i>>} ELSE cells
  /\ Ended /\ UNCHANGED <<declared, holds, used, search, verdict, moves>>

\* left - e; AvoidPointerArithmeticBounds reports every one.
PointerArithmeticBounds == {"PointerArithmeticBounds"}
Subtract ==
  /\ Uses("subtract") /\ ~Alone /\ left.type = expr.type /\ Countable(expr.type)
  /\ LET said == PointerArithmeticBounds \cup PointerArithmeticC25 \cup WrongPointerArithmetic(left.text)
     IN  Happens(IF left.object # expr.object THEN "unrelated" ELSE "none", [left EXCEPT !.said = @ \cup said], expr)
  /\ search' = [ends |-> <<left.text, expr.text>>, via |-> {}, same |-> left.object = expr.object]
  /\ Ended /\ UNCHANGED <<declared, holds, used, cells, verdict, moves>>

\* left < e
Compare ==
  /\ Uses("compare") /\ ~Alone /\ left.type = expr.type
  /\ Happens(IF left.object # expr.object THEN "unrelated" ELSE "none",
             [left EXCEPT !.said = @ \cup PointerArithmeticBounds], expr)
  /\ Ended /\ UNCHANGED <<declared, holds, used, cells, search, verdict, moves>>

\* memcpy(left, e, n elements), inside of both objects.
Within(e, n) == Located(e.object) /\ e.type = TypeOf(e.object) /\ e.at \in 0 .. ElementsOf(e.object) - n
Copy(n) ==
  /\ Uses("copy") /\ ~Alone /\ Within(left, n) /\ Within(expr, n) /\ ~left.const
  /\ LET overlap == left.object = expr.object /\ left.at - expr.at \in -n + 1 .. n - 1
     IN  Happens(IF overlap THEN "overlap" ELSE "none", [left EXCEPT !.said = @ \cup JudgeCopy(left.text, expr.text)], expr)
  /\ cells' = cells \cup {<<left.object, left.at + i>> : i \in {i \in 0 .. n - 1 : <<expr.object, expr.at + i>> \in cells}}
  /\ Ended /\ UNCHANGED <<declared, holds, used, search, verdict, moves>>

\* return e; where the function may add const to the type, and throw e;
Leave(how) ==
  /\ Uses(how) /\ Alone /\ expr.type # "word"
  /\ \E cast \in (IF how = "return" /\ ~expr.const THEN BOOLEAN ELSE {FALSE}) :
       LET said == IF how = "return" THEN JudgeReturn(expr.text, cast) ELSE ReturnLocalAddress(expr.text, cast)
       IN  Happens(IF OnStack(expr) THEN how ELSE "none", [expr EXCEPT !.said = said], NoExpr)
  /\ statements' = MaxStatements /\ expr' = NoExpr
  /\ UNCHANGED <<fragment, left, declared, holds, used, cells, search, verdict, moves>>

\* e; for an expression that has no other use.
Discard ==
  /\ Ready /\ expr # NoExpr /\ (expr.type \in {"word", "void"} \/ left # NoExpr)
  /\ Ended /\ UNCHANGED <<declared, holds, used, cells, search, verdict, event, moves>>

Init ==
  /\ fragment \in Fragments
  /\ declared = <<>> /\ holds = <<>> /\ used = {}
  /\ cells = UNION {{<<v, i>> : i \in 0 .. ElementsOf(v) - 1} : v \in {v \in DOMAIN Objects : Objects[v].init \/ Objects[v].static}}
  /\ search = NoSearch /\ verdict = NoVerdict /\ event = NoEvent
  /\ expr = NoExpr /\ left = NoExpr /\ moves = 0 /\ statements = 0

\* The end of the function.
Done == ~Searching /\ statements = MaxStatements /\ UNCHANGED vars

Counts == 0 .. 4
Next ==
  \/ \E v \in DOMAIN Objects \cup DOMAIN Pointers : Name(v) \/ AddressOf(v)
  \/ \E o \in DOMAIN Heap : New(o)
  \/ Number
  \/ \E n \in Counts : Element(n) \/ \E op \in {"plus", "minus"} : Plus(op, n)
  \/ \E m \in {m \in fragment.moves : m.op \in ExplicitCasts} : Cast(m.op, m.to, m.const)
  \/ FirstOperand
  \/ \E v \in DOMAIN Pointers : Declare(v) \/ Assign(v) \/ \E init \in {<<>>, <<S("name", v)>>} : DeclareEmpty(v, init)
  \/ \E writes \in BOOLEAN : Access(0, FALSE, writes) \/ \E i \in Counts : Access(i, TRUE, writes)
  \/ Subtract \/ Compare
  \/ \E n \in 1 .. 2 : Copy(n)
  \/ \E how \in {"return", "throw"} : Leave(how)
  \/ Discard
  \/ \E i \in 1 .. 2 : Follow(i)
  \/ JudgeSubtraction
  \/ Done

Spec == Init /\ [][Next]_vars /\ \A i \in 1 .. 2 : WF_vars(Follow(i)) /\ WF_vars(JudgeSubtraction)

--------------------------------------------------------------------------------
(* Properties. *)

\* The texts that the checks of lifetimes and of memcpy understand.
Direct(t) == Len(t) = 1 /\ t[1].op \in {"addr", "name"}
Offset(t) == Len(t) <= 2 /\ t[1].op = "name" /\ (Len(t) = 2 => t[2].op = "plus")

\* The first undefined event of a function has been announced by a report on the
\* very pointer that causes it, or on one that it was computed from, whatever
\* variables and casts it went through; but for a subscript of &X[i], a change of
\* type by way of char, a variable that is initialized with itself, memory from new
\* that has no value, and, for lifetimes and overlaps, all but the simplest texts.
AnnouncedEvent(this) ==
  LET e == this.to
      f == this.from
      Announced(checks) == e.said \cap checks # {}
  IN  /\ this.kind = "bounds" =>
           Announced({"OutOfBoundsAccess", "WrongPointerArithmetic", "PointerArithmetic"}) \/ "element_of_element" \in e.slips
      /\ this.kind = "type" =>
           \/ Announced({"TypePunning", "IncompatiblePointerCast", "VoidPointerCast", "PointerIntegerCast"})
           \/ "by_char" \in e.slips
      /\ this.kind = "const" => Announced({"ConstQualifierRemoval", "PointerIntegerCast"})
      /\ this.kind = "wild" =>
           Announced({"UninitializedRead", "PointerIntegerCast"}) \/ "with_itself" \in e.slips \/ e.object = "null"
      /\ this.kind = "no_value" /\ IsObject(e.object) =>
           IF IsArray(e.object) THEN Announced({"UninitializedRead"})
           ELSE "UninitializedAutoVar" \in DeclarationOf(e.object, Objects[e.object].init)
      /\ this.kind \in {"kept", "throw"} /\ AddressOfLocal(e.text) => Announced({"AutoAddressEscape", "ReturnLocalAddress"})
      /\ this.kind = "return" /\ Direct(e.text) => Announced({"DanglingReference"}) \/ ~Automatic(e.text[1].arg)
      /\ this.kind = "unrelated" => Announced({"PointerArithmeticBounds"})
      /\ this.kind = "overlap" /\ Offset(e.text) /\ Offset(f.text) /\ e.text[1] = f.text[1] => Announced({"OverlappingCopy"})
EventsAnnounced == AnnouncedEvent(event)

\* A subtraction is reported exactly if the pointers lead to different objects,
\* where both are found, through the initializers of any number of variables, to
\* come from an & or a new of an object of its own, and none of the variables on
\* the way was assigned to.
SubtractionsExact == verdict.plain => (verdict.reported <=> ~verdict.same)

\* What the checks of pointers say agrees with what happens to the objects.
PointersJudged == EventsAnnounced /\ SubtractionsExact

\* What is said of pointers and of unions agrees with the objects that are touched
\* when the function runs: of pointers that were moved, compared, copied or have lost
\* their object, and of members that are read after another one was written.
MemoryJudged == PointersJudged /\ UnionsJudged

\* getPointerOrigin() finds the "ultimate origin" of every pointer, or it is looking
\* for that of a variable that is initialized with itself.
SelfInitialized == \E v \in DOMAIN declared : declared[v].init # <<>> /\ declared[v].init[1] = S("name", v)
OriginFound == Searching ~> (~Searching \/ SelfInitialized)
================================================================================
