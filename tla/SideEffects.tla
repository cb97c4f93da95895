------------------------------ MODULE SideEffects ------------------------------
(* Checks of side effects, of the values of assignments, of conditions and of   *)
(* statements without effect.  They look at the text of one statement, also at  *)
(* what of it is not evaluated; beside them the statement is executed, again    *)
(* and again, in the orders that the language leaves open.                      *)
(*                                                                              *)
(* An expression is a tree: an operator and its operands.  "x" and "y" are      *)
(* variables with values 0 to 2, "v" a volatile one, "f" a call that adds 1 to  *)
(* x and returns 1, "g" one without effect, marked nodiscard, "h" the same with *)
(* an argument, "++" a postfix increment; "_Generic(T" has its operand from the *)
(* argument of a macro.                                                         *)
EXTENDS Integers, Sequences, FiniteSets, Reports

CONSTANT EffectStatements
\* place: "expr" (an expression statement of a block), "unbraced" (of an if without
\* braces), "if" (its condition), "return", "init" (of a variable) or "list" (two
\* initializers); lang: "c" or "c++"; exprs: the expressions.

VARIABLES effectStmt,
          store,      \* values of x and y
          outcome     \* of the last execution: values, and how many effects took place

effectVars == <<effectStmt, store, outcome>>

Tree(op, sub) == [op |-> op, sub |-> sub]
Assigning == {"=", "+="}
Calling == {"f", "g", "h"}
Logical == {"&&", "||"}
Writing == Assigning \cup {"++"}

--------------------------------------------------------------------------------
(* Trees. *)

RECURSIVE Nodes(_)
Nodes(e) == {e} \cup UNION {Nodes(e.sub[i]) : i \in DOMAIN e.sub}
Has(e, ops) == \E n \in Nodes(e) : n.op \in ops
StmtNodes == UNION {Nodes(effectStmt.exprs[i]) : i \in DOMAIN effectStmt.exprs}
Within(n, ops) == \E i \in DOMAIN n.sub : Has(n.sub[i], ops)
At(place) == effectStmt.place = place
Cxx == effectStmt.lang = "c++"
Expr == effectStmt.exprs[1]
\* IgnoreParenImpCasts()
RECURSIVE Stripped(_)
Stripped(e) == IF e.op = "paren" THEN Stripped(e.sub[1]) ELSE e

\* SideEffectFinder of three checks, of which only the first knows volatile.
FinderFinds(e) == Has(e, Writing \cup Calling \cup {"v"})
FindsWrites(e) == Has(e, Writing)                         \* mutant: no calls
CounterFinds(e) == Has(e, Writing \cup Calling)

--------------------------------------------------------------------------------
(* Reports. *)

LeftOperand ==                                            \* mutant: getLHS()
  Say("SideEffectInLogicalOperand", \E n \in StmtNodes : n.op \in Logical /\ FinderFinds(n.sub[1]))
SideEffectInLogicalOperand ==
  Say("SideEffectInLogicalOperand", \E n \in StmtNodes : n.op \in Logical /\ FinderFinds(n.sub[2]))
SideEffectInSizeof ==
  Say("SideEffectInSizeof", \E n \in StmtNodes : n.op = "sizeof" /\ CounterFinds(n.sub[1]))
GenericSideEffect ==
  Say("GenericSideEffect", \E n \in StmtNodes : n.op = "_Generic" /\ CounterFinds(n.sub[1]))
SideEffectInInitializer ==
  Say("SideEffectInInitializer", At("list") /\ \E i \in {1, 2} : CounterFinds(effectStmt.exprs[i]))

\* isAssignmentResultUsed(): the parent of an assignment is an expression, in C++ also
\* the conversion to an rvalue where its value is wanted.
Outermost == {i \in DOMAIN effectStmt.exprs : effectStmt.exprs[i].op \in Assigning}
AssignmentInExpression ==
  Say("AssignmentInExpression",
      \/ \E n \in StmtNodes, i \in {1, 2, 3} : i \in DOMAIN n.sub /\ n.sub[i].op \in Assigning
      \/ Outermost # {} /\ (At("list") \/ (Cxx /\ effectStmt.place \in {"if", "return", "init"})))

\* In C++ a condition or a returned value is a conversion, and all below it descendants.
InControl ==
  \/ effectStmt.place \in {"if", "return"} /\ Has(Expr, Assigning)
  \/ \E n \in StmtNodes : n.op = "?:" /\ Has(n.sub[1], Assigning)
AssignmentInSubExpression ==
  Say("AssignmentInSubExpression",
      Cxx /\ (InControl \/ \E n \in StmtNodes : n.op \in Logical \cup {"+", "=="} /\ Within(n, Assigning)))
\* The test for "a = b = c" never holds: between the two there is the conversion of b = c.
AssignmentResult ==
  Say("AssignmentResult",
      Cxx /\ (InControl \/ \E n \in StmtNodes : n.op \in Logical \cup {"+", "==", "+=", "!", "h"} /\ Within(n, Assigning)))

MissingReturnValueHandling ==
  Say("MissingReturnValueHandling",
      \/ At("expr") /\ Expr.op \in Calling
      \/ \E n \in StmtNodes, i \in {1, 2} : n.op = "," /\ n.sub[i].op \in Calling)
\* Nothing wraps a call of "g" into an ExprWithCleanups.
DiscardedSideEffects ==
  Say("DiscardedSideEffects",
      Cxx /\ \E n \in StmtNodes : \/ n.op = "void" /\ n.sub[1].op \in Calling
                                  \/ n.op = "," /\ Stripped(n.sub[1]).op \in Calling)
CommaOperator == Say("CommaOperator", \E n \in StmtNodes : n.op = ",")

OutsideOnly(e) == Stripped(e).op \in Calling \cup Writing     \* mutant: operands not followed
\* Casts, sizeof and the condition of ?: count as nothing.
RECURSIVE HasSideEffects(_)
HasSideEffects(e) ==
  LET b == Stripped(e)
  IN  \/ b.op \in Calling \cup Writing
      \/ b.op \in Logical \cup {"+", "==", ",", "!"} /\ \E i \in DOMAIN b.sub : HasSideEffects(b.sub[i])
      \/ b.op = "?:" /\ (HasSideEffects(b.sub[2]) \/ HasSideEffects(b.sub[3]))
SelfAssignment == \E n \in StmtNodes : n.op = "=" /\ Stripped(n.sub[2]) = n.sub[1]
DeadCode == Say("DeadCode", (At("expr") /\ ~HasSideEffects(Expr)) \/ SelfAssignment)

Conditions == {n.sub[1] : n \in {n \in StmtNodes : n.op = "?:"}} \cup (IF At("if") THEN {Expr} ELSE {})

\* EvaluateAsInt(), which accepts no side effect; <<>> if there is no value.
RECURSIVE ConstOf(_)
ConstOf(e) ==
  LET s == [i \in DOMAIN e.sub |-> ConstOf(e.sub[i])]
      Truth(k) == IF k = 0 THEN 0 ELSE 1
  IN  CASE e.op \in {"0", "1"} -> <<IF e.op = "1" THEN 1 ELSE 0>>
        [] e.op \in {"sizeof", "_Generic", "_Generic(T"} -> <<1>>
        [] e.op \in {"paren", "cast"} -> s[1]
        [] e.op = "!" -> IF s[1] = <<>> THEN <<>> ELSE <<1 - Truth(s[1][1])>>
        [] e.op \in {"+", "=="} ->
             IF <<>> \in {s[1], s[2]} THEN <<>>
             ELSE IF e.op = "+" THEN <<(s[1][1] + s[2][1]) % 3>> ELSE <<IF s[1] = s[2] THEN 1 ELSE 0>>
        [] e.op \in Logical ->
             LET decides == IF e.op = "&&" THEN 0 ELSE 1
             IN  IF s[1] = <<>> THEN <<>>
                 ELSE IF Truth(s[1][1]) = decides THEN <<decides>>
                 ELSE IF s[2] = <<>> THEN <<>> ELSE <<Truth(s[2][1])>>
        [] e.op = "," -> IF s[1] # <<>> \/ (Cxx /\ e.sub[1].op \in {"x", "y"}) THEN s[2] ELSE <<>>
        [] e.op = "?:" -> IF s[1] = <<>> THEN <<>> ELSE IF s[1][1] # 0 THEN s[2] ELSE s[3]
        [] OTHER -> <<>>
InvariantControl == Say("InvariantControl", \E c \in Conditions : ConstOf(c) # <<>>)

AnyOperator(e) == Stripped(e).op \in Logical \cup {"==", "!", "+", "="}     \* mutant: BinaryOperator
\* isEssentiallyBoolean(): in C the operators, in C++ the type.
RECURSIVE IsBoolean(_)
IsBoolean(e) ==
  \/ Stripped(e).op \in Logical \cup {"==", "!"}
  \/ Cxx /\ Stripped(e).op = "," /\ IsBoolean(Stripped(e).sub[2])
  \/ Cxx /\ Stripped(e).op = "?:" /\ IsBoolean(Stripped(e).sub[2]) /\ IsBoolean(Stripped(e).sub[3])
NonBooleanInCondition == Say("NonBooleanInCondition", \E c \in Conditions : ~IsBoolean(c))
BooleanControlExpression == Say("BooleanControlExpression", Cxx /\ \E c \in Conditions : ~IsBoolean(c))

EffectsSaid ==
  UNION {SideEffectInLogicalOperand, SideEffectInSizeof, GenericSideEffect, SideEffectInInitializer,
         AssignmentInExpression, AssignmentInSubExpression, AssignmentResult, MissingReturnValueHandling,
         DiscardedSideEffects, CommaOperator, DeadCode, InvariantControl, NonBooleanInCondition,
         BooleanControlExpression}

--------------------------------------------------------------------------------
(* Execution.  "alter" changes the values of a kind of node, to see whether they *)
(* make a difference.                                                            *)

Result(s, val, ran) == [s |-> s, val |-> val, ran |-> ran]
B(c) == IF c THEN 1 ELSE 0
RECURSIVE Results(_, _, _)
Results(e, s, alter) ==
  LET Alt(kind, val) == IF alter = kind THEN (val + 1) % 3 ELSE val
      One(r, F(_)) == {Result(a.s, F(a.val), a.ran) : a \in r}
      \* the operands one after the other, the first one first
      Then(i, j) == UNION {{<<a, b>> : b \in Results(e.sub[j], a.s, alter)} : a \in Results(e.sub[i], s, alter)}
      Both(p) == {[a |-> q[1].val, b |-> q[2].val, s |-> q[2].s, ran |-> q[1].ran + q[2].ran] : q \in p}
      Either == Both(Then(1, 2)) \cup {[q EXCEPT !.a = q.b, !.b = q.a] : q \in Both(Then(2, 1))}
      Branch(r, k) == {Result(b.s, b.val, r.ran + b.ran) : b \in Results(e.sub[k], r.s, alter)}
  IN  CASE e.op \in {"x", "y"} -> {Result(s, s[e.op], 0)}
        [] e.op = "v" -> {Result(s, w, 1) : w \in {0, 1}}
        [] e.op \in {"0", "1"} -> {Result(s, B(e.op = "1"), 0)}
        [] e.op = "f" -> {Result([s EXCEPT !["x"] = (@ + 1) % 3], Alt("call", 1), 1)}
        [] e.op = "g" -> {Result(s, Alt("call", 1), 0)}
        [] e.op = "h" -> One(Results(e.sub[1], s, alter), LAMBDA k : Alt("call", k))
        [] e.op = "++" -> {Result([s EXCEPT ![e.sub[1].op] = (@ + 1) % 3], s[e.sub[1].op], 1)}
        [] e.op \in Assigning ->
             LET to == e.sub[1].op
                 New(r) == IF e.op = "=" THEN r.val ELSE (r.s[to] + r.val) % 3
             IN  {Result([r.s EXCEPT ![to] = New(r)], Alt("assignment", New(r)), r.ran + 1) : r \in Results(e.sub[2], s, alter)}
        [] e.op \in {"paren", "cast"} -> Results(e.sub[1], s, alter)
        [] e.op = "void" -> One(Results(e.sub[1], s, alter), LAMBDA k : 0)
        [] e.op = "!" -> One(Results(e.sub[1], s, alter), LAMBDA k : B(k = 0))
        [] e.op \in {"sizeof", "_Generic", "_Generic(T"} -> {Result(s, 1, 0)}
        [] e.op = "+" -> {Result(q.s, (q.a + q.b) % 3, q.ran) : q \in Either}
        [] e.op = "==" -> {Result(q.s, B(q.a = q.b), q.ran) : q \in Either}
        [] e.op = "," -> {Result(q.s, q.b, q.ran) : q \in Both(Then(1, 2))}
        [] e.op \in Logical ->
             UNION {IF (r.val # 0) = (e.op = "&&")
                    THEN {Result(b.s, B(b.val # 0), b.ran) : b \in Branch(r, 2)}
                    ELSE {Result(r.s, B(e.op = "||"), r.ran)} : r \in Results(e.sub[1], s, alter)}
        [] e.op = "?:" -> UNION {Branch(r, IF r.val # 0 THEN 2 ELSE 3) : r \in Results(e.sub[1], s, alter)}

\* What is left of a statement: the variables, and the value where it is wanted.
Wanted(val) == CASE At("expr") \/ At("unbraced") -> 0 [] At("if") -> B(val # 0) [] OTHER -> val
Outcome(s, vals, ran) == [s |-> s, vals |-> vals, ran |-> ran]
InOrder(i, j, s, alter) ==
  UNION {{<<a, b>> : b \in Results(effectStmt.exprs[j], a.s, alter)} : a \in Results(effectStmt.exprs[i], s, alter)}
Outcomes(s, alter) ==
  IF At("list")
  THEN {Outcome(p[2].s, <<p[1].val, p[2].val>>, p[1].ran + p[2].ran) : p \in InOrder(1, 2, s, alter)}
       \cup {Outcome(p[2].s, <<p[2].val, p[1].val>>, p[1].ran + p[2].ran) : p \in InOrder(2, 1, s, alter)}
  ELSE {Outcome(r.s, <<Wanted(r.val)>>, r.ran) : r \in Results(Expr, s, alter)}

NotRun == Outcome(<<>>, <<>>, -1)
NoStatement == [place |-> "none", lang |-> "none", exprs |-> <<>>]
EffectInit ==
  /\ effectStmt \in EffectStatements
  /\ store \in [{"x", "y"} -> {0, 1}]
  /\ outcome = NotRun

Execute == \E o \in Outcomes(store, "") : store' = o.s /\ outcome' = o /\ UNCHANGED effectStmt

EffectNext == Execute

--------------------------------------------------------------------------------
(* Properties. *)

Ran == outcome # NotRun
RECURSIVE Effects(_)
Effects(e) ==
  LET below[i \in 0 .. Len(e.sub)] == IF i = 0 THEN 0 ELSE below[i - 1] + Effects(e.sub[i])
  IN  below[Len(e.sub)] + B(e.op \in Writing \cup {"f", "v"})
EffectsOfStmt == Effects(Expr) + (IF At("list") THEN Effects(effectStmt.exprs[2]) ELSE 0)

\* An effect that is written and does not take place has been announced, unless it is
\* in a branch of ?:, in an argument of a macro around _Generic, or a read of a volatile
\* variable under sizeof or _Generic.
SkippedAnnounced ==
  Ran /\ outcome.ran < EffectsOfStmt =>
    \/ {"SideEffectInLogicalOperand", "SideEffectInSizeof", "GenericSideEffect"} \cap EffectsSaid # {}
    \/ \E n \in StmtNodes : \/ n.op = "?:" /\ (FinderFinds(n.sub[2]) \/ FinderFinds(n.sub[3]))
                            \/ n.op = "_Generic(T" /\ FinderFinds(n.sub[1])
                            \/ n.op \in {"sizeof", "_Generic"} /\ Has(n.sub[1], {"v"})

\* A statement is reported as dead if it is without effect and without a call, and then
\* only, but for effects below a cast, in a condition of ?: or of a read of a volatile.
DeadIsDead ==
  At("expr") /\ Ran =>
    /\ ~HasSideEffects(Expr) /\ ~(\E n \in StmtNodes : n.op \in {"cast", "void", "?:", "v"}) => outcome.ran = 0
    /\ EffectsOfStmt = 0 /\ ~Has(Expr, Calling) => "DeadCode" \in EffectsSaid

\* Initializers whose values depend on their order are reported.
OrderAnnounced ==
  At("list") /\ Cardinality({o.vals : o \in Outcomes(store, "")}) > 1 =>
    "SideEffectInInitializer" \in EffectsSaid \/ \E n \in StmtNodes : n.op = "v"

\* An assignment whose value makes a difference is reported by the check for C, but for
\* C where it is all of a condition, of a returned value or of an initializer; of the
\* two for C++ the second knows all that the first one knows.
UsesAnnounced ==
  /\ Outcomes(store, "") # Outcomes(store, "assignment") =>
       \/ "AssignmentInExpression" \in EffectsSaid
       \/ ~Cxx /\ effectStmt.place \in {"if", "return", "init"} /\ Stripped(Expr).op \in Assigning
  /\ "AssignmentInSubExpression" \in EffectsSaid => "AssignmentResult" \in EffectsSaid

\* A call whose value makes no difference is reported, or it is below an operator other
\* than the comma or has an explicit cast; in C++ the cast to void is reported as well.
DropsAnnounced ==
  /\ At("expr") /\ Expr.op \in Calling => "MissingReturnValueHandling" \in EffectsSaid
  /\ At("expr") /\ Has(Expr, Calling) /\ Outcomes(store, "") = Outcomes(store, "call") =>
       \/ {"MissingReturnValueHandling", "DiscardedSideEffects"} \cap EffectsSaid # {}
       \/ Expr.op \notin Calling /\ ~(Expr.op = "," /\ \E i \in {1, 2} : Expr.sub[i].op \in Calling)

\* A condition reported as invariant has one truth value, whatever the variables are;
\* one that is not reported at all is 0 or 1.
ConditionsDecided ==
  LET Truths(c) == {B(r.val # 0) : r \in UNION {Results(c, s, "") : s \in [{"x", "y"} -> 0 .. 2]}}
  IN  \A c \in Conditions :
        /\ ConstOf(c) # <<>> => Truths(c) = {B(ConstOf(c)[1] # 0)}
        /\ "NonBooleanInCondition" \notin EffectsSaid => \A r \in Results(c, store, "") : r.val \in {0, 1}

\* What the checks say of the effects of a statement agrees with what it does.
EffectsJudged ==
  effectStmt # NoStatement =>
    SkippedAnnounced /\ DeadIsDead /\ OrderAnnounced /\ UsesAnnounced /\ DropsAnnounced /\ ConditionsDecided
================================================================================
