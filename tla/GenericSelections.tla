---------------------------- MODULE GenericSelections ----------------------------
(* _Generic: an operand, associations of types with expressions, and the macro  *)
(* that writes it with an argument.  The compiler picks one association by the  *)
(* type the operand has after its conversions; its expression is evaluated, the *)
(* others and the operand are not.                                              *)
EXTENDS Integers, Sequences, FiniteSets, Reports

CONSTANTS SelectionStarts,   \* what a selection may start with, see below
          MaxAssociations    \* bound: associations of one selection

VARIABLES selection,     \* [operand, macro, header, argument, from]
          associations,  \* written so far
          chosen,        \* position of the one the compiler takes, 0 before
          happened       \* how often the effects of the argument have happened
selectionVars == <<selection, associations, chosen, happened>>

\* operand: [type, written, by, casts]: type after the conversions of lvalues, arrays and
\* functions; written: its own type, or of a narrower kind the type of the operands it is
\* computed from; by: "name", "character", "enumerator", "additive", "shift" or "other"; casts:
\* the implicit conversions of pointers in it: "decay", "null", "void", or "below", a decay
\* under a subscript or a call.  A selection by type has by = "type".
\* macro: "", "macro" or "nested", a macro that another one uses; header: it is expanded there.
\* argument: [vars, functions, effects]: the names in it and how often, and whether
\* evaluating it does something.
\* from: the associations that may follow: [type, uses, calls]: type "default" if there is none; uses: "0", "1", "2"
\* uses of the argument, or "sizeof"; calls: how often it calls one function.

NoSelection == [operand |-> [type |-> "int", written |-> "int", by |-> "name", casts |-> {}], macro |-> "",
                header |-> FALSE, argument |-> [vars |-> 0, functions |-> 0, effects |-> FALSE], from |-> {}]
\* What C converts: arrays and functions to pointers; constants, and narrow operands, to int.
OperandFits(o) ==
  o.written # o.type =>
    \/ "decay" \in o.casts
    \/ /\ o.type = "int"
       /\ \/ o.by = "character" /\ o.written = "char"
          \/ o.by = "enumerator" /\ o.written = "enum"
          \/ o.by \in {"additive", "shift", "other"} /\ o.written \in {"bool", "char", "short"}

ASSUME SelectionAssumption ==
  \A s \in SelectionStarts : OperandFits(s.operand) /\ {s.argument.vars, s.argument.functions} \subseteq Nat

operand == selection.operand
argument == selection.argument
HasType(i) == associations[i].type # "default"
Defaults == {i \in DOMAIN associations : ~HasType(i)}
ByExpr == operand.by # "type"

--------------------------------------------------------------------------------
(* The compiler. *)

Incomplete == {"void", "struct S"}
NotObjects == {"int (int)"}
\* An enumeration is compatible with its integer type.
TypesAreCompatible(s, t) == s = t \/ {s, t} = {"enum", "unsigned"}
ChoiceOf(type) ==
  LET Fitting == {i \in DOMAIN associations : HasType(i) /\ TypesAreCompatible(type, associations[i].type)}
  IN  IF Fitting # {} THEN Fitting ELSE Defaults
Accepted ==
  /\ Cardinality(Defaults) <= 1 /\ ChoiceOf(operand.type) # {}
  /\ \A i, j \in DOMAIN associations \ Defaults :
       i # j => ~TypesAreCompatible(associations[i].type, associations[j].type)
  /\ ByExpr => \A i \in DOMAIN associations : associations[i].type \notin Incomplete \cup NotObjects

--------------------------------------------------------------------------------
(* Reports on the selection. *)

EssentialCategory(type) ==
  CASE type = "bool" -> "Boolean" [] type = "char" -> "Character" [] type = "enum" -> "Enum"
    [] type = "float" -> "FloatingPoint" [] type = "unsigned" -> "UnsignedInt"
    [] type \in {"int", "short", "const int"} -> "SignedInt" [] OTHER -> "Other"
Width(type) == CASE type = "bool" -> 1 [] type = "char" -> 8 [] type = "short" -> 16 [] OTHER -> 32

\* Only +, -, *, / and % are asked for the types of their operands.
WidthOnly ==                                                 \* mutant: literals have their type
  ByExpr /\ operand.by = "additive" /\ Width(operand.written) < Width(operand.type)
GenericEssentialType ==
  /\ ByExpr
  /\ CASE operand.by = "character" -> EssentialCategory(operand.type) # "Character"
       [] operand.by = "enumerator" -> EssentialCategory(operand.type) # "Enum"
       [] operand.by = "additive" -> Width(operand.written) < Width(operand.type)
       [] OTHER -> FALSE

NoDecay == ByExpr /\ operand.casts \cap {"null", "void"} # {}     \* mutant: the array's own conversion
GenericImplicitPointer == ByExpr /\ operand.casts \cap {"decay", "null", "void"} # {}

GenericSuitableControllingExpr ==
  ByExpr /\ operand.type \in Incomplete \cup NotObjects \cup {"int (*)[n]"}
GenericAppropriateType ==
  {i \in DOMAIN associations : associations[i].type \in Incomplete \cup NotObjects}
GenericCompatibleTypes ==
  {j \in DOMAIN associations \ Defaults :
     \E i \in 1 .. j - 1 : HasType(i) /\ TypesAreCompatible(associations[i].type, associations[j].type)}

Mentions(i) == CASE associations[i].uses = "0" -> 0 [] associations[i].uses = "2" -> 2 [] OTHER -> 1
\* Functions are counted with the variables.
Repeats(n, i) == n * argument.vars > 1 \/ n * argument.functions > 1 \/ (i # 0 /\ associations[i].calls > 1)
UsedTwice ==                                                 \* mutant: names in the argument only once
  {i \in DOMAIN associations : Mentions(i) > 1 /\ argument.vars > 0}
GenericParameterUsage ==
  {i \in DOMAIN associations : Repeats(Mentions(i), i)} \cup (IF ByExpr /\ Repeats(1, 0) THEN {0} ELSE {})
FirstOnly ==                                                 \* mutant: compared with the first association
  {i \in DOMAIN associations : /\ selection.macro # "" /\ ~selection.header /\ HasType(i) /\ argument.vars > 0
                               /\ Mentions(i) = 0 /\ Mentions(1) > 0}
GenericParameterTypeCheck ==
  {i \in DOMAIN associations : /\ selection.macro # "" /\ ~selection.header /\ HasType(i) /\ argument.vars > 0
                               /\ Mentions(i) = 0 /\ \E j \in DOMAIN associations : Mentions(j) > 0}

GenericDefaultPosition ==
  Len(associations) > 1 /\ \E i \in Defaults : i \notin {1, Len(associations)}
GenericNonDefault == DOMAIN associations \subseteq Defaults
GenericNoExplicitDefault == Defaults # {}
GenericFromMacro == selection.macro = ""
GenericMacroNesting == selection.macro = "nested" /\ ~selection.header

--------------------------------------------------------------------------------
(* The selection is written, compiled and evaluated. *)

Associate(a) ==
  /\ chosen = 0 /\ Len(associations) < MaxAssociations
  /\ associations' = Append(associations, a)
  /\ UNCHANGED <<selection, chosen, happened>>
Choose ==
  /\ chosen = 0 /\ associations # <<>> /\ Accepted
  /\ chosen' \in ChoiceOf(operand.type)
  /\ UNCHANGED <<selection, associations, happened>>
Evaluations(i) == IF associations[i].uses = "sizeof" THEN 0 ELSE Mentions(i)
EvaluateChosen ==
  /\ chosen # 0 /\ happened < Evaluations(chosen)
  /\ happened' = happened + 1
  /\ UNCHANGED <<selection, associations, chosen>>
Settled ==
  /\ IF chosen # 0 THEN happened = Evaluations(chosen)
     ELSE Len(associations) = MaxAssociations /\ ~(Accepted /\ ChoiceOf(operand.type) # {})
  /\ UNCHANGED selectionVars

SelectionInit ==
  /\ selection \in SelectionStarts /\ associations = <<>> /\ chosen = 0 /\ happened = 0
SelectionNext == (\E a \in selection.from : Associate(a)) \/ Choose \/ EvaluateChosen \/ Settled
SelectionSpec == SelectionInit /\ [][SelectionNext]_selectionVars

--------------------------------------------------------------------------------
(* Properties. *)

Evaluated == chosen # 0 /\ happened = Evaluations(chosen)

\* If the association that is chosen is another one than for the type that is written,
\* this is reported, but for promotions by shifts, signs, comparisons and conditional
\* operators; arrays and functions that become pointers are reported as such.
TypesAnnounced ==
  chosen # 0 /\ ByExpr /\ ChoiceOf(operand.written) # {chosen} =>
    \/ GenericEssentialType \/ GenericImplicitPointer
    \/ operand.by \in {"shift", "other"} /\ EssentialCategory(operand.type) = "SignedInt"

\* Effects of a macro's argument that happen twice are reported, unless it names nothing;
\* effects that do not happen are, if they do for another type, unless the association
\* is the default, or mentions the argument in sizeof, or the argument has no variable, or
\* the macro is expanded in a header.
EffectsCounted ==
  Evaluated /\ argument.effects =>
    /\ happened > 1 => chosen \in GenericParameterUsage \/ argument.vars + argument.functions = 0
    /\ happened = 0 /\ selection.macro # "" /\ (\E i \in DOMAIN associations : Evaluations(i) > 0) =>
         \/ chosen \in GenericParameterTypeCheck
         \/ ~HasType(chosen) \/ Mentions(chosen) > 0 \/ argument.vars = 0 \/ selection.header

\* What the compiler accepts has no two types that fit, and types that are none of an object
\* only if it selects by type; an operand without an object type is reported and goes
\* to the default, and so is a selection that no type decides, and any default.
AcceptedOnly ==
  chosen # 0 =>
    /\ GenericCompatibleTypes = {} /\ (GenericAppropriateType = {} \/ ~ByExpr)
    /\ (\A t \in {associations[i].type : i \in DOMAIN associations} : ChoiceOf(t) = Defaults) => GenericNonDefault
    /\ ByExpr /\ operand.type \in Incomplete => GenericSuitableControllingExpr /\ ~HasType(chosen)
    /\ ~HasType(chosen) => GenericNoExplicitDefault /\ (GenericDefaultPosition => chosen \notin {1, Len(associations)})

\* What is said of a selection agrees with what is selected and evaluated.
SelectionsJudged == TypesAnnounced /\ EffectsCounted /\ AcceptedOnly
================================================================================
