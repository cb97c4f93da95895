-------------------------- MODULE MCExpressionChecks --------------------------
(* Expressions: values of the arithmetic types with widths in the order of the  *)
(* real ones and operands at the ends of their types; and, in functions of      *)
(* their own, the pointers and the unions of MCPointerChecks, and selections by *)
(* operands of all kinds: with up to three associations of any type, or as an   *)
(* int in arguments of a macro, with associations that use them.                *)
EXTENDS ExpressionChecks, MCPointerChecks, GenericSelections

V(t, vs) == {Operand(t, v, FALSE) : v \in vs}
L(t, vs) == {Operand(t, v, TRUE) : v \in vs}
\* 13 * 4, 9 * 4 and 0 - 1 wrap around in 5 bits; 5 is one more than the last shift.
MCLeaves ==
  <<UNION {V("bool", {1}), V("char", {-2}), V("uchar", {3}), V("short", {-4}),
           V("int", {-16, 15}), V("uint", {31}), V("enum", {31}), V("long", {-64}), V("ulong", {127}),
           V("float", {-14}), V("double", {33}), L("int", {1, 13}), L("uint", {0, 9})},
    UNION {V("char", {-1}), V("ushort", {7}), V("int", {-1}), V("uint", {9}), V("enum", {2}),
           L("int", {0, 5}), L("uint", {4})},
    L("uint", {2})>>
MCOperators == <<{"+", "-", "&", "<<", "/"}, Composing \cup Comparison, {"-"}>>
MCCasts == {"bool", "uchar", "short", "int", "float"}
MCTargets == UNION {V("bool", {0}), V("char", {-1}), V("ushort", {1}), V("int", {-1}), V("uint", {1}),
                    V("float", {1}), V("enum", {1})}

Op(type, written, by, casts) == [type |-> type, written |-> written, by |-> by, casts |-> casts]
Variables == {Op(t, t, "name", {}) : t \in {"int", "char", "short", "unsigned", "enum", "bool", "float", "int *"}}
Promotions == {Op("int", t, by, {}) : t \in {"short", "char", "bool"}, by \in {"additive", "shift", "other"}}
Constants == {Op("int", "char", "character", {}), Op("int", "enum", "enumerator", {}), Op("int", "int", "additive", {})}
Converted == {Op("int *", "int [2]", "name", {"decay"}), Op("int (*)(int)", "int (int)", "name", {"decay"}),
              Op("int *", "int *", "additive", {"decay"}), Op("int", "int", "other", {"decay"}),
              Op("int", "int", "other", {"below"}), Op("int *", "int *", "other", {"null"}),
              Op("void *", "void *", "other", {"void"})}
Odd == {Op("void", "void", "other", {}), Op("int (*)[n]", "int (*)[n]", "name", {})}
ByType == {Op(t, t, "type", {}) : t \in {"int", "void", "struct S", "int (int)"}}

Typed(types) == [type : types, uses : {"0"}, calls : {0}]
AllTypes == {"int", "char", "short", "unsigned", "enum", "int *", "int [2]", "int (*)(int)",
             "void", "int (int)", "default"}
Using == [type : {"int", "float", "default"}, uses : {"0", "1", "2", "sizeof"}, calls : {0}]
         \cup {[type |-> "int", uses |-> "0", calls |-> 2]}
Argument(v, f, e) == [vars |-> v, functions |-> f, effects |-> e]
Macros == {<<"", FALSE>>, <<"macro", FALSE>>, <<"macro", TRUE>>, <<"nested", FALSE>>}

MCSelectionStarts ==
  {[NoSelection EXCEPT !.operand = o, !.from = Typed(AllTypes)] :
     o \in Variables \cup Promotions \cup Constants \cup Converted \cup Odd \cup ByType}
  \cup {[NoSelection EXCEPT !.macro = m[1], !.header = m[2], !.argument = a, !.from = Using] :
          m \in Macros, a \in {Argument(1, 0, TRUE), Argument(2, 0, FALSE), Argument(2, 0, TRUE),
                               Argument(1, 1, TRUE), Argument(0, 1, TRUE), Argument(0, 0, TRUE)}}

MCLeaf == [op |-> 1] @@ Operand("int", 0, FALSE)
Of(kind) == kind \in fragment.uses
MCInit ==
  /\ Init /\ UnionInit
  /\ IF Of("value") THEN ValueInit
     ELSE lang = "c" /\ result = MCLeaf /\ place = "none" /\ reports = {}
  /\ IF Of("selection") THEN SelectionInit
     ELSE selection = NoSelection /\ associations = <<>> /\ chosen = 0 /\ happened = 0
MCNext ==
  \/ Next /\ UNCHANGED <<unionVars, valueVars, selectionVars>>
  \/ Of("union") /\ UnionNext /\ UNCHANGED <<vars, valueVars, selectionVars>>
  \/ Of("value") /\ ValueNext /\ UNCHANGED <<vars, unionVars, selectionVars>>
  \/ Of("selection") /\ SelectionNext /\ UNCHANGED <<vars, unionVars, valueVars>>
MCSpec == MCInit /\ [][MCNext]_<<vars, unionVars, valueVars, selectionVars>>
          /\ \A i \in 1 .. 2 : WF_vars(Follow(i)) /\ WF_vars(JudgeSubtraction)
================================================================================
