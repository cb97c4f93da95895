--------------------------- MODULE ExpressionChecks ---------------------------
(* The checks of the conversions and operators in one arithmetic expression.    *)
(* The expression is put together as the compiler reads it: an operand, then    *)
(* operators with one more operand each, casts, and a place where the value     *)
(* goes.  At each node the checks that match it look at the types, and at the   *)
(* values that are known to the compiler; the values at run time, and what      *)
(* becomes of them, are kept for the properties only.                           *)
(*                                                                              *)
(* Not modelled: fractions, infinities, and what follows an undefined operation.*)
EXTENDS Integers, Sequences, Bitwise, TLC, Reports

CONSTANTS CharWidth, ShortWidth, IntWidth, LongWidth, \* sizes of the integers; float has that of
          FloatMantissa, DoubleMantissa,              \* int, double that of long
          Leaves,     \* the operands at each position of an expression
          Operators,  \* the operators before each position, and those of "op=" at 1
          Casts,      \* the types of casts
          Targets     \* the variables a value goes to, with what they hold before

ASSUME WidthsAssumption ==
  /\ 1 < CharWidth /\ CharWidth < ShortWidth /\ ShortWidth < FloatMantissa
  /\ FloatMantissa < IntWidth /\ IntWidth < DoubleMantissa /\ DoubleMantissa < LongWidth

VARIABLES lang,      \* "c" or "c++"
          result,    \* the expression so far: its node, value and history
          place,     \* "none", or what the value went to
          reports    \* the checks that have reported

valueVars == <<lang, result, place, reports>>

--------------------------------------------------------------------------------
(* Types, as clang sees them on a target with signed char; enumerations are     *)
(* based on unsigned int.                                                       *)

Integers4 == <<"int", "uint", "long", "ulong">>
Arithmetic == Integers4 \o <<"float", "double">>   \* from the weakest
Floating(t) == t \in {"float", "double"}
SignedInt(t) == t \in {"char", "short", "int", "long"}
UnsignedInt(t) == ~SignedInt(t) /\ ~Floating(t)
Character(t) == t \in {"char", "uchar"}            \* isAnyCharacterType()
Size == [t \in {"bool", "char", "uchar"} |-> CharWidth] @@ [t \in {"short", "ushort"} |-> ShortWidth]
        @@ [t \in {"int", "uint", "enum", "float"} |-> IntWidth] @@ [t \in {"long", "ulong", "double"} |-> LongWidth]
Types == DOMAIN Size

Promoted(t) == IF t = "enum" THEN "uint" ELSE IF Size[t] < IntWidth THEN "int" ELSE t
\* The usual arithmetic conversions.
Common(s, t) ==
  Arithmetic[CHOOSE i \in DOMAIN Arithmetic :
               /\ Arithmetic[i] \in {Promoted(s), Promoted(t)}
               /\ \A j \in DOMAIN Arithmetic : Arithmetic[j] \in {Promoted(s), Promoted(t)} => j <= i]

Abs(v) == IF v < 0 THEN -v ELSE v
\* The nearest number with a mantissa of m bits, ties to even.
Rounded(v, m) ==
  LET e == CHOOSE n \in 0..(2 * LongWidth) :
             Abs(v) <= 2 ^ (m + n) /\ \A k \in 0..(n - 1) : Abs(v) > 2 ^ (m + k)
      q == Abs(v) \div 2 ^ e
      r == 2 * (Abs(v) % 2 ^ e)
      n == IF r > 2 ^ e \/ (r = 2 ^ e /\ q % 2 = 1) THEN q + 1 ELSE q
  IN  IF v < 0 THEN -(n * 2 ^ e) ELSE n * 2 ^ e

\* A value converted to a type; it fits if that does not change it.
Convert(v, t) ==
  IF t = "bool" THEN IF v = 0 THEN 0 ELSE 1
  ELSE IF Floating(t) THEN Rounded(v, IF t = "float" THEN FloatMantissa ELSE DoubleMantissa)
  ELSE LET m == v % 2 ^ Size[t]
       IN  IF SignedInt(t) /\ m >= 2 ^ (Size[t] - 1) THEN m - 2 ^ Size[t] ELSE m
Fits(v, t) == Convert(v, t) = v

--------------------------------------------------------------------------------
(* Operators and what they compute. *)

Additive == {"+", "-"}
Multiplicative == {"*", "/", "%"}
Bitwise1 == {"&"}                \* for &, |, ^
Shift == {"<<", ">>"}
Comparison == {"<", "=="}        \* for the relational and the equality operators
Composing == Additive \cup Multiplicative \cup Bitwise1 \cup Shift
IntegerOnly == {"%"} \cup Bitwise1 \cup Shift

Truncated(a, b) == IF (a < 0) = (b < 0) THEN Abs(a) \div Abs(b) ELSE -(Abs(a) \div Abs(b))
BitAnd(a, b) ==
  LET top == 2 ^ (LongWidth + 1)
      m == (a % top) & (b % top)
  IN  IF m >= top \div 2 THEN m - top ELSE m
Exactly(op, a, b) ==
  CASE op = "+"  -> a + b
    [] op = "-"  -> a - b
    [] op = "*"  -> a * b
    [] op = "/"  -> Truncated(a, b)
    [] op = "%"  -> a - b * Truncated(a, b)
    [] op = "&"  -> BitAnd(a, b)
    [] op = "<<" -> a * 2 ^ b
    [] op = ">>" -> a \div 2 ^ b
    [] op = "<"  -> IF a < b THEN 1 ELSE 0
    [] op = "==" -> IF a = b THEN 1 ELSE 0

\* The type an operand is converted to, and the type of the result.
LeftType(op, s, t) == IF op \in Shift THEN Promoted(s) ELSE Common(s, t)
RightType(op, s, t) == IF op \in Shift THEN Promoted(t) ELSE Common(s, t)
ResultType(op, s, t) ==
  IF op \in Comparison THEN IF lang = "c" THEN "int" ELSE "bool" ELSE LeftType(op, s, t)

\* Why an operation on a and b of type t is undefined, "" if it is not.
Undefined(op, a, b, t) ==
  IF op \in {"/", "%"} /\ b = 0 THEN "divisor"
  ELSE IF op \in Shift /\ b \notin 0..(Size[t] - 1) THEN "amount"
  ELSE IF SignedInt(t) /\ (~Fits(Exactly(op, a, b), t) \/ (op = "<<" /\ a < 0)) THEN "overflow"
  ELSE ""

\* What is lost when v is converted without a cast.
Lost(v, s, t) ==
  IF Fits(v, t) THEN {}
  ELSE IF s = "enum" THEN {"enumerator"}
  ELSE IF t = "bool" THEN {"truth"}
  ELSE IF Floating(t) THEN {"precision"}
  ELSE IF Size[t] < Size[s] \/ Floating(s) THEN {"range"} ELSE {"sign"}
\* What is lost by an operation of type t with exact result x; wrap is what to
\* call a wrap-around.
LostBy(op, a, b, x, t, wrap) ==
  (IF UnsignedInt(t) /\ op \in {"+", "-", "*"} /\ ~Fits(x, t) THEN {wrap} ELSE {})
  \cup (IF Floating(t) /\ ~Fits(x, t) THEN {"rounding"} ELSE {})
  \cup (IF (op \in Shift /\ a < 0) \/ (op = "&" /\ (a < 0 \/ b < 0)) THEN {"bits"} ELSE {})

ShrinkingProduct(op, a, b, t) ==                          \* mutant: "*" tested like "+"
  /\ UnsignedInt(t)
  /\ \/ op = "-" /\ a < b
     \/ op \in {"+", "*"} /\ a # 0 /\ b # 0 /\ Convert(Exactly(op, a, b), t) < a
\* VisitBinaryOperator of AvoidConstantWrapAround, on operands a and b that are
\* known and converted to t; for "*" it divides the product back.
ConstantWrap(op, a, b, t) ==
  /\ UnsignedInt(t)
  /\ \/ op = "-" /\ a < b
     \/ op = "+" /\ LET sum == Convert(a + b, t) IN sum < a \/ sum < b
     \/ op = "*" /\ a # 0 /\ b # 0 /\ Convert(a * b, t) \div a # b

\* wraps: the visitor of AvoidConstantWrapAround stops at a node of this expression.
Operand(t, v, c) == [type |-> t, value |-> v, const |-> c, composite |-> FALSE, wraps |-> FALSE,
                     lost |-> {}, undefined |-> ""]

\* l op r; where is what to call a loss by the conversion of an operand.
Applied(op, l, r, where) ==
  LET lt == LeftType(op, l.type, r.type)
      rt == RightType(op, l.type, r.type)
      t == ResultType(op, l.type, r.type)
      a == Convert(l.value, lt)
      b == Convert(r.value, rt)
      u == Undefined(op, a, b, lt)
      x == IF u = "" THEN Exactly(op, a, b) ELSE 0
      wrap == IF l.const /\ r.const THEN "constant wrap"
              ELSE IF where = "update" /\ SignedInt(l.type) THEN where ELSE "wrap"
  IN  [type |-> t, value |-> Convert(x, t), const |-> l.const /\ r.const,
       composite |-> op \in Composing,
       wraps |-> l.wraps \/ r.wraps \/ (l.const /\ r.const /\ ConstantWrap(op, a, b, t)),
       lost |-> l.lost \cup r.lost \cup LostBy(op, a, b, x, lt, wrap)
                \cup (IF a = l.value /\ b = r.value THEN {} ELSE IF op = "&" THEN {"bits"} ELSE {where}),
       undefined |-> IF u \in {"amount", "divisor"} /\ r.const THEN "constant " \o u ELSE u]

--------------------------------------------------------------------------------
(* The checks.  l and r are the operands without parentheses and implicit casts.*)

Cxx == lang = "c++"

\* getEssentialType(), which six of the checks define alike.
EssentialType(t) ==
  IF t = "bool" THEN "Boolean"
  ELSE IF Character(t) THEN "Character"
  ELSE IF t = "enum" THEN "Enum"
  ELSE IF Floating(t) THEN "Floating"
  ELSE IF UnsignedInt(t) THEN "Unsigned" ELSE "Signed"

IntegersAgree(e, f) ==                                    \* mutant: no signedness
  "Floating" \in {e, f} \/ "Character" \in {e, f} \/ "Boolean" \in {e, f} \/ "Enum" \in {e, f}
MismatchOf(e, f) ==
  \/ {e, f} = {"Signed", "Unsigned"}
  \/ "Floating" \in {e, f} /\ {e, f} \cap {"Signed", "Unsigned"} # {}
  \/ "Character" \in {e, f} /\ {e, f} \cap {"Signed", "Unsigned", "Floating"} # {}
  \/ "Boolean" \in {e, f}
  \/ "Enum" \in {e, f}
EssentialTypeMismatch(op, l, r) ==
  LET e == EssentialType(l.type)
      f == EssentialType(r.type)
  IN  op \in Additive \cup Multiplicative \cup Comparison /\ e # f /\ MismatchOf(e, f)

AppropriateForArithmetic(e) == e \notin {"Boolean", "Character"}
AppropriateForBitwise(e) == e \notin {"Boolean", "Character", "Floating"}
InappropriateOperand(op, t) ==
  \/ op \in Additive \cup Multiplicative /\ ~AppropriateForArithmetic(EssentialType(t))
  \/ op \in Bitwise1 \cup Shift /\ ~AppropriateForBitwise(EssentialType(t))

BoolArithmetic(op, t) == Cxx /\ op # "==" /\ t = "bool"
SignedBitwise(op, t) == Cxx /\ op \in Bitwise1 \cup Shift \cup {"~"} /\ SignedInt(t)

\* Both operands are looked at without their casts; constants are left to the compiler.
OneConstantWillDo(op, l, r) ==                            \* mutant: one known operand
  /\ Cxx /\ op \in {"+", "-", "*"} /\ ~l.const /\ ~r.const
  /\ UnsignedInt(ResultType(op, l.type, r.type))
UnsignedWrapAround(op, l, r) ==
  /\ Cxx /\ op \in {"+", "-", "*"} /\ ~(l.const /\ r.const)
  /\ LET t == ResultType(op, l.type, r.type) IN UnsignedInt(t) /\ t \notin {"enum", "bool"}
ConstantStepsAreSmall(op, t, r) ==                        \* mutant: as the comment has it
  Cxx /\ op \in {"+", "-", "*"} /\ UnsignedInt(t) /\ t \notin {"enum", "bool"} /\ ~r.const
CompoundWrapAround(op, t, r) ==
  /\ Cxx /\ op \in {"+", "-", "*"} /\ UnsignedInt(t) /\ t \notin {"enum", "bool"}
  /\ ~(op = "-" /\ r.const /\ r.value = 0)

FullWidthShift(op, t, r) ==                               \* mutant: off by one
  op \in Shift /\ r.const /\ (r.value < 0 \/ r.value > Size[t])
WrongShiftOperand(op, t, r) ==
  op \in Shift /\ r.const /\ (r.value < 0 \/ r.value >= Size[t])
OnlyShifts(op, l, r) ==                                   \* mutant: no division
  op \in Shift /\ r.const /\ (r.value < 0 \/ r.value >= Size[l.type])
UndefinedBehavior(op, l, r) ==
  \/ op \in {"/", "%"} /\ r.const /\ r.value = 0
  \/ op \in Shift /\ r.const /\ (r.value < 0 \/ r.value >= Size[l.type])

\* NarrowingConversion and ImplicitConversion, of the implicit cast from s to t.
NarrowingConversion(s, t) ==
  /\ Cxx /\ s # t /\ s # "enum" /\ t \notin {"bool", "enum"}
  /\ \/ Floating(s) /\ ~Floating(t)
     \/ Floating(s) = Floating(t) /\ Size[s] > Size[t]
     \/ ~Floating(s) /\ ~Floating(t) /\ Size[s] = Size[t] /\ SignedInt(s) # SignedInt(t)
     \/ ~Floating(s) /\ t = "float" /\ Size[s] > FloatMantissa
     \/ ~Floating(s) /\ t = "double" /\ Size[s] > DoubleMantissa
WidenedIsFine(s, t) ==                                    \* mutant: wider is never a loss
  Cxx /\ s # t /\ (Floating(s) # Floating(t) \/ t = "bool" \/ (SignedInt(s) # SignedInt(t) /\ Size[t] <= Size[s]))
SignificantConversion(s, t) ==
  /\ Cxx /\ s # t
  /\ \/ Floating(s) # Floating(t)
     \/ SignedInt(s) /\ UnsignedInt(t)
     \/ UnsignedInt(s) /\ SignedInt(t)
     \/ t = "bool"
ImplicitCast(s, t) ==
  Say("NarrowingConversion", NarrowingConversion(s, t))
  \cup Say("ImplicitConversion", SignificantConversion(s, t))
\* The casts of an operand: the promotion, then the conversion to the other's type.
OperandCasts(s, t) == ImplicitCast(s, Promoted(s)) \cup ImplicitCast(Promoted(s), t)

JudgeBinary(op, l, r) ==
  Say("EssentialTypeMismatch", EssentialTypeMismatch(op, l, r))
  \cup Say("InappropriateEssentialType", \E o \in {l, r} : InappropriateOperand(op, o.type))
  \cup Say("BoolArithmetic", \E o \in {l, r} : BoolArithmetic(op, o.type))
  \cup Say("SignedBitwise", \E o \in {l, r} : SignedBitwise(op, o.type))
  \cup Say("UnsignedWrapAround", UnsignedWrapAround(op, l, r))
  \cup Say("WrongShiftOperand", WrongShiftOperand(op, l.type, r))
  \cup Say("UndefinedBehavior", UndefinedBehavior(op, l, r))
  \cup OperandCasts(l.type, LeftType(op, l.type, r.type))
  \cup OperandCasts(r.type, RightType(op, l.type, r.type))

JudgeUnary(op, t) ==
  Say("InappropriateEssentialType",
      IF op = "~" THEN ~AppropriateForBitwise(EssentialType(t)) ELSE ~AppropriateForArithmetic(EssentialType(t)))
  \cup Say("BoolArithmetic", BoolArithmetic(op, t))
  \cup Say("SignedBitwise", SignedBitwise(op, t))
  \cup Say("UnaryMinusOnUnsigned", Cxx /\ op = "-" /\ UnsignedInt(t) /\ t # "enum")
  \cup ImplicitCast(t, Promoted(t))

\* An assignment, plain or compound, of e to a variable of type t.
DifferentCategory(e, f) ==
  e # f /\ ({e, f} = {"Signed", "Unsigned"} \/ "Floating" \in {e, f})
OnlyCategories(e, t) ==                                   \* mutant: no widths
  DifferentCategory(EssentialType(e.type), EssentialType(t))
NarrowingCompoundAssignment(e, t) ==
  DifferentCategory(EssentialType(e.type), EssentialType(t)) \/ Size[e.type] > Size[t]
CharacterTypeMismatch(e, t) == Cxx /\ Character(e.type) /\ Character(t) /\ e.type # t
JudgeAssignment(e, t) ==
  Say("NarrowingCompoundAssignment", NarrowingCompoundAssignment(e, t))
  \cup Say("CompositeExpressionMismatch", e.composite /\ Size[t] > Size[e.type])
  \cup Say("CharacterTypeMismatch", CharacterTypeMismatch(e, t))

\* The value of e goes to a variable of type t, by an initializer or by "=".
CompositeNarrowing(e, t) ==
  /\ Cxx /\ e.composite /\ e.type # t
  /\ \/ Floating(e.type) /\ ~Floating(t)
     \/ Floating(e.type) = Floating(t) /\ Size[e.type] > Size[t]
     \/ ~Floating(e.type) /\ ~Floating(t) /\ Size[e.type] = Size[t] /\ SignedInt(e.type) # SignedInt(t)
JudgeStore(e, t) ==
  Say("CompositeNarrowing", CompositeNarrowing(e, t)) \cup ImplicitCast(e.type, t)

--------------------------------------------------------------------------------
(* What is written. *)

Open == place = "none" /\ result.undefined = ""
Whole(op, l, r) ==
  op = "/" /\ Floating(Common(l.type, r.type)) /\ r.value # 0 => l.value % Abs(r.value) = 0

ValueInit ==
  /\ lang \in {"c", "c++"} /\ place = "none" /\ reports = {}
  /\ result \in {[op |-> 1] @@ o : o \in Leaves[1]}

Binary(op, r) ==
  /\ Open /\ result.op < Len(Leaves)
  /\ op \in IntegerOnly => ~Floating(result.type) /\ ~Floating(r.type)
  /\ Whole(op, result, r)
  /\ result' = [op |-> result.op + 1] @@ Applied(op, result, r, "operand")
  /\ reports' = reports \cup JudgeBinary(op, result, r)
  /\ UNCHANGED <<lang, place>>

\* "-" and "~"; a "~" of an unsigned value is no wrap-around.
Unary(op) ==
  /\ Open /\ result.op < Len(Leaves) /\ (op = "~" => ~Floating(result.type))
  /\ LET t == Promoted(result.type)
         x == IF op = "-" THEN -result.value ELSE -result.value - 1
     IN  result' = [result EXCEPT
           !.op = @ + 1, !.type = t, !.value = Convert(x, t), !.composite = FALSE,
           !.wraps = @ \/ (result.const /\ op = "-" /\ UnsignedInt(t) /\ result.value # 0),
           !.lost = @ \cup (IF op = "-" /\ UnsignedInt(t) /\ result.value # 0 
                                  THEN {IF result.const THEN "constant wrap"
                                        ELSE IF result.type = "enum" THEN "enumerator" ELSE "wrap"} ELSE {})
                      \cup (IF op = "~" /\ SignedInt(t)
                              THEN {IF SignedInt(result.type) THEN "bits" ELSE "complement"} ELSE {}),
           !.undefined = IF SignedInt(t) /\ ~Fits(x, t) THEN "overflow" ELSE ""]
  /\ reports' = reports \cup JudgeUnary(op, result.type)
  /\ UNCHANGED <<lang, place>>

\* A C-style cast; ImplicitConversion does not look below one.
CastValue(t) ==
  /\ Open /\ result.op < Len(Leaves) /\ t # result.type
  /\ Floating(result.type) => Fits(result.value, t)
  /\ result' = [result EXCEPT !.op = @ + 1, !.type = t, !.value = Convert(@, t), !.composite = FALSE]
  /\ reports' = (reports \ {"ImplicitConversion"})
                \cup Say("CompositeExpressionMismatch", result.composite /\ Size[t] > Size[result.type])
  /\ UNCHANGED <<lang, place>>

\* C++ converts nothing to an enumeration.
Stores(t) == Open /\ (Cxx /\ t = "enum" => result.type = "enum")
Stored(t) == [result EXCEPT !.type = t, !.value = Convert(@, t), !.lost = @ \cup Lost(result.value, result.type, t)]

\* A variable with an initializer; fixed if it is const or global.
DeclareValue(t, fixed) ==
  /\ Stores(t)
  /\ result' = Stored(t) /\ place' = IF fixed THEN "constant" ELSE "variable"
  /\ reports' = reports \cup JudgeStore(result, t)
       \cup Say("CharacterTypeMismatch", CharacterTypeMismatch(result, t))
       \cup Say("ConstantWrapAround", fixed /\ UnsignedInt(t) /\ result.const /\ result.wraps)
  /\ UNCHANGED lang

AssignValue(t) ==
  /\ Stores(t)
  /\ result' = Stored(t) /\ place' = "assigned"
  /\ reports' = reports \cup JudgeStore(result, t) \cup JudgeAssignment(result, t)
  /\ UNCHANGED lang

\* "x op= e": only e is cast, x and the result are converted by the operator itself.
Update(op, x) ==
  /\ Open /\ ~(Cxx /\ x.type = "enum")
  /\ op \in IntegerOnly => ~Floating(result.type) /\ ~Floating(x.type)
  /\ Whole(op, x, result)
  /\ LET e == Applied(op, x, result, "update")
     IN  result' = [op |-> result.op] @@
           [e EXCEPT !.type = x.type, !.value = Convert(e.value, x.type),
                     !.lost = @ \cup (IF Fits(e.value, x.type) THEN {} ELSE {"update"})]
  /\ place' = "updated"
  /\ reports' = reports \cup JudgeAssignment(result, x.type)
       \cup Say("BoolArithmetic", BoolArithmetic(op, x.type) \/ BoolArithmetic(op, result.type))
       \cup Say("SignedBitwise", SignedBitwise(op, x.type) \/ SignedBitwise(op, result.type))
       \cup Say("UnsignedWrapAround", CompoundWrapAround(op, x.type, result))
       \cup Say("WrongShiftOperand", WrongShiftOperand(op, x.type, result))
       \cup OperandCasts(result.type, RightType(op, x.type, result.type))
  /\ UNCHANGED lang

ValueDone == ~Open /\ UNCHANGED valueVars

ValueNext ==
  \/ \E i \in 2..Len(Leaves) : i = result.op + 1 /\ \E op \in Operators[i], r \in Leaves[i] : Binary(op, r)
  \/ \E op \in {"-", "~"} : Unary(op)
  \/ \E t \in Casts : CastValue(t)
  \/ \E x \in Targets, fixed \in BOOLEAN : DeclareValue(x.type, fixed)
  \/ \E x \in Targets : AssignValue(x.type)
  \/ \E x \in Targets, op \in Operators[1] : Update(op, x)
  \/ ValueDone

--------------------------------------------------------------------------------
(* Properties. *)

\* What an expression without a report cannot lose, by the language and the place.
Judged ==
  {"operand"} \cup (IF Cxx THEN {"wrap", "bits", "truth", "precision", "range", "sign"}
                    ELSE IF place = "assigned" THEN {"precision", "range"} ELSE {})

\* An expression on which all checks are silent has, at run time, the value it
\* has with unbounded integers, up to the losses that are none of their business:
\* no check relies on another one to look at a node that neither looks at.
ValuesKept == reports = {} /\ result.undefined = "" => result.lost \cap Judged = {}

\* A constant of an unsigned type is reported exactly if its evaluation wraps
\* around at some node, at any depth and below casts.
WrapsExact ==
  place = "constant" =>
    ("ConstantWrapAround" \in reports <=>
       UnsignedInt(result.type) /\ result.const /\ "constant wrap" \in result.lost)
\* An operation that a constant makes undefined at the width it is computed in is
\* reported, a division by "op=" excepted.
UndefinedReported ==
  /\ result.undefined = "constant divisor" /\ place = "none" => "UndefinedBehavior" \in reports
  /\ result.undefined = "constant amount" => {"UndefinedBehavior", "WrongShiftOperand"} \cap reports # {}
\* What is known at compile time is judged by its value, where it is used.
ConstantsJudged == WrapsExact /\ UndefinedReported

\* What the checks of values say agrees with the values.
ValuesJudged == ValuesKept /\ ConstantsJudged
================================================================================
