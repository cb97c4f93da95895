---------------------------- MODULE StatementChecks ----------------------------
(* The checks of control flow (automotive/statement, return, cpp23) on one     *)
(* function body, and the execution of that body against which their reports   *)
(* are judged.                                                                 *)
(*                                                                             *)
(* A body is a tree of statements numbered in the order of the text: kind[n] is*)
(* what statement n is, parent[n] the statement around it, 0 for the outermost,*)
(* and above[n] the set of all statements around it.                           *)
(* A condition may hold or not; "forever" is a loop whose condition is missing *)
(* or a true constant.  "nrcall" is a call of a noreturn function; fn.noreturn *)
(* says that this one is, fn.gnu that it is by the GNU attribute and not by    *)
(* [[noreturn]] or _Noreturn.                                                  *)
EXTENDS Integers, Sequences, FiniteSets, FiniteSetsExt

CONSTANT Bodies         \* the function bodies that are analysed

VARIABLES fn,           \* the function body
          rest,         \* the matches WrongOrderInSwitchStmtCheck has yet to see: a switch and a label of it
          prevSwitch,   \* its member PrevSwitch, 0 for nullptr
          prevDefault,  \* its member PrevDefault, 0 for nullptr
          misplaced,    \* the default statements it has reported
          prev, pc,     \* execution: the statement run last and the one to run
          jumps         \* pairs of a loop and a jump in it that control took out of it

vars == <<fn, rest, prevSwitch, prevDefault, misplaced, prev, pc, jumps>>
exec == <<prev, pc, jumps>>
walk == <<rest, prevSwitch, prevDefault, misplaced>>

Loops == {"while", "do", "for", "range", "forever"}
Labels == {"case", "default"}
End == 0

--------------------------------------------------------------------------------
(* The tree. *)

Nodes == 1 .. Len(fn.kind)
Kind(n) == fn.kind[n]
Parent(n) == fn.parent[n]
Children(n) == {c \in Nodes : Parent(c) = n}
LastOf(n) == Max(Children(n))
FirstOf(n) == Min(Children(n))
OfKind(K) == {n \in Nodes : Kind(n) \in K}
Within(a) == {n \in Nodes : a \in fn.above[n]}
\* The nearest statement around n of a kind in K, 0 if there is none.
Around(n, K) == Max({a \in fn.above[n] : Kind(a) \in K} \cup {0})
\* What Switch->getSwitchCaseList() links: the labels of s, not those of a switch in s.
LabelsOf(s) == {l \in OfKind(Labels) : Around(l, {"switch"}) = s}
HasElse(n) == Cardinality(Children(n)) = 2

\* What a parser accepts: the statements in a statement follow it in the text without
\* a gap, some kinds have one statement in them and others none, jumps and labels stand
\* where the language allows them, and no switch has two defaults.
Single == Loops \cup Labels \cup {"switch", "label"}
Parses(f) ==
  LET N == 1 .. Len(f.kind)
      inside(n) == {c \in N : f.parent[c] = n}
      around(n, K) == {a \in f.above[n] : f.kind[a] \in K}
  IN  /\ Len(f.kind) \in Nat \ {0}
      /\ f.kind[1] = "compound" /\ f.parent[1] = 0 /\ f.above[1] = {}
      /\ \A n \in N \ {1} : f.parent[n] \in 1 .. n - 1 /\ f.above[n] = {f.parent[n]} \cup f.above[f.parent[n]]
      /\ \A n \in N : \A a \in f.above[n] : \A m \in a + 1 .. n : a \in f.above[m]
      /\ \A n \in N :
           /\ inside(n) # {} => f.kind[n] \in Single \cup {"compound", "if"}
           /\ f.kind[n] \in Single => \E c \in N : inside(n) = {c}
           /\ f.kind[n] = "if" => \E b, c \in N : inside(n) = {b, c}
           /\ f.kind[n] = "break" => around(n, Loops \cup {"switch"}) # {}
           /\ f.kind[n] = "continue" => around(n, Loops) # {}
           /\ f.kind[n] \in Labels => around(n, {"switch"}) # {}
           /\ f.kind[n] = "goto" => \E l \in N : f.kind[l] = "label"
      /\ \A d, e \in N : f.kind[d] = "default" /\ f.kind[e] = "default"
                           /\ around(d, {"switch"}) = around(e, {"switch"}) => d = e
ASSUME BodiesAssumption == \A f \in Bodies : Parses(f)

--------------------------------------------------------------------------------
(* Execution, as the language defines it. *)

\* The statement at which control arrives when it reaches n; the node of a
\* "do" stands for its condition, which is evaluated after the body.
Arrive[n \in Nodes] ==
  CHOOSE m \in Nodes : m >= n /\ Kind(m) # "do" /\ \A k \in n .. m - 1 : Kind(k) = "do"
\* The statements behind n in its block; what holds control when n has ended: a
\* statement behind it, a loop around it or the end of the function.
Later(n) == {c \in Nodes : c > n /\ Parent(c) = Parent(n) /\ Kind(Parent(n)) = "compound"}
Held(n) == Parent(n) = 0 \/ Kind(Parent(n)) \in Loops \/ Later(n) # {}
Onward[n \in Nodes] == IF Parent(n) = 0 THEN End
                      ELSE IF Kind(Parent(n)) \in Loops THEN Parent(n) ELSE Arrive[Min(Later(n))]
\* Where control goes when n has ended normally.
After[n \in Nodes] ==
  LET from == {n} \cup fn.above[n]
  IN  Onward[CHOOSE a \in from : Held(a) /\ \A b \in from : b > a => ~Held(b)]

Enclosing == Loops \cup {"switch"}
Succ(n) ==
  LET into == {Arrive[c] : c \in Children(n)}
      past(always) == IF always THEN {} ELSE {After[n]}
      HasDefault == \E l \in LabelsOf(n) : Kind(l) = "default"
  IN  CASE Kind(n) = "compound" -> IF Children(n) = {} THEN {After[n]} ELSE {Arrive[FirstOf(n)]}
        [] Kind(n) = "if" -> into \cup past(HasElse(n))
        [] Kind(n) \in Loops -> into \cup past(Kind(n) = "forever")
        [] Kind(n) = "switch" -> LabelsOf(n) \cup past(HasDefault)
        [] Kind(n) = "break" -> {After[Around(n, Enclosing)]}
        [] Kind(n) = "continue" -> {Around(n, Loops)}
        [] Kind(n) = "goto" -> OfKind({"label"})
        [] Kind(n) \in {"return", "throw", "nrcall"} -> {End}
        [] Kind(n) \in Labels \cup {"label"} -> into
        [] OTHER -> {After[n]}

--------------------------------------------------------------------------------
(* The checks: the set of statements each reports. *)

\* UnreachableCodeCheck: the first statement of a block after a terminator,
\* empty statements passed over.
Terminators == {"return", "break", "continue", "goto", "throw"}
\* Mutant: the terminator itself counts as code behind it.
UnreachableFromTerminator ==
  {Min(Children(c) \cap OfKind(Terminators)) :
     c \in {c \in OfKind({"compound"}) : Children(c) \cap OfKind(Terminators) # {}}}
Unreachable ==
  LET ended(c) == Children(c) \cap OfKind(Terminators)
      behind(c) == {s \in Children(c) : s > Min(ended(c)) /\ Kind(s) # "null"}
  IN  {Min(behind(c)) : c \in {c \in OfKind({"compound"}) : ended(c) # {} /\ behind(c) # {}}}

\* MissingReturnCheck: alwaysReturns, and whether the function is reported.
\* Mutant: an if without else will do.
AlwaysReturnsIf ==
  LET f[n \in Nodes] == \/ Kind(n) \in {"return", "throw"}
                        \/ Kind(n) = "compound" /\ Children(n) # {} /\ f[LastOf(n)]
                        \/ Kind(n) = "if" /\ \A c \in Children(n) : f[c]
  IN  f
AlwaysReturns ==
  LET f[n \in Nodes] == \/ Kind(n) \in {"return", "throw"}
                        \/ Kind(n) = "compound" /\ Children(n) # {} /\ f[LastOf(n)]
                        \/ Kind(n) = "if" /\ HasElse(n) /\ \A c \in Children(n) : f[c]
  IN  f
\* Of the noreturn functions it spares those with the GNU attribute only.
Spared == fn.noreturn /\ fn.gnu
MissingReturn == ~Spared /\ ~AlwaysReturns[1]

\* MissingBreakInCaseStmtCheck: containsUnconditionalTerminator.
\* Mutant: a terminator anywhere in a block.
ContainsTerminatorAnywhere ==
  LET f[n \in Nodes] == \/ Kind(n) \in Terminators
                        \/ Kind(n) \in Labels \cup {"compound", "if"} /\ \E c \in Children(n) : f[c]
  IN  f
ContainsTerminator ==
  LET f[n \in Nodes] == \/ Kind(n) \in Terminators
                        \/ Kind(n) = "compound" /\ Children(n) # {} /\ f[LastOf(n)]
                        \/ Kind(n) \in Labels /\ f[FirstOf(n)]
  IN  f
\* The clauses at the top of a switch body, and the statements of a clause there.
Clauses(s) == {l \in Children(FirstOf(s)) : Kind(l) \in Labels /\ Kind(FirstOf(s)) = "compound"}
ClauseOf(s, l) == {t \in Children(FirstOf(s)) : t > l /\ \A m \in Clauses(s) : m > l => t < m}
MissingBreak ==
  {l \in UNION {Clauses(s) : s \in OfKind({"switch"})} :
     /\ ~(Kind(l) = "case" /\ Kind(FirstOf(l)) \in Labels)
     /\ LET s == Around(l, {"switch"})
        IN  \A t \in {FirstOf(l)} \cup ClauseOf(s, l) : ~ContainsTerminator[t]}

\* WellFormedSwitchCheck: hasTerminatingStatement.
\* Mutant: one branch of an if is enough.
HasTerminatingBranch ==
  LET f[n \in Nodes] == \/ Kind(n) \in Terminators \cup {"fallthrough", "nrcall"}
                        \/ Kind(n) = "compound" /\ Children(n) # {} /\ f[LastOf(n)]
                        \/ Kind(n) = "if" /\ \E c \in Children(n) : f[c]
  IN  f
HasTerminating ==
  LET f[n \in Nodes] == \/ Kind(n) \in Terminators \cup {"fallthrough", "nrcall"}
                        \/ Kind(n) = "compound" /\ Children(n) # {} /\ f[LastOf(n)]
                        \/ Kind(n) = "if" /\ HasElse(n) /\ \A c \in Children(n) : f[c]
  IN  f
\* The innermost statement under a chain of labels.
Labelled(n) == Min({m \in Nodes : m >= n /\ Kind(m) \notin Labels})
FallThrough ==
  {l \in UNION {Clauses(s) : s \in OfKind({"switch"})} :
     LET s == Around(l, {"switch"})
     IN  /\ \E m \in Clauses(s) : m > l
         /\ ~HasTerminating[Max({Labelled(l)} \cup ClauseOf(s, l))]}
IllFormed == {s \in OfKind({"switch"}) : Kind(FirstOf(s)) # "compound"}
\* A switch with as many cases as its enumeration has enumerators needs no default.
\* Mutant: a case for every enumerator but one will do.
NoDefaultAlmost ==
  {s \in OfKind({"switch"}) : /\ \A l \in LabelsOf(s) : Kind(l) # "default"
                              /\ Cardinality(LabelsOf(s)) < fn.enumerators - 1}
MissingDefault == {s \in OfKind({"switch"}) : \A l \in LabelsOf(s) : Kind(l) # "default"}
NoDefault == {s \in MissingDefault \ IllFormed : Cardinality(LabelsOf(s)) # fn.enumerators}
SingleClause == {s \in OfKind({"switch"}) : Cardinality(LabelsOf(s)) < 2}

\* UnstructuredSwitchStmtCheck, AvoidNestedSwitchLabelCheck: labels out of place.
Unstructured ==
  {l \in OfKind(Labels) : /\ ~(Kind(Parent(l)) = "compound" /\ Kind(Parent(Parent(l))) = "switch")
                          /\ Parent(Parent(l)) # 0}
\* Mutant: compares with the wrong block.
NestedLabelInBody ==
  {l \in OfKind(Labels) : Around(l, {"compound"}) = FirstOf(Around(l, {"switch"}))}
NestedLabel ==
  {l \in OfKind(Labels) : LET s == Around(l, {"switch"})
                              c == Around(l, {"compound"})
                          IN  c > s /\ c # FirstOf(s)}

\* MultipleLoopTerminatorsCheck: breaks and gotos that the visitor meets at depth 1.
\* It does not follow range-based loops, neither as targets nor in between.
Counted == (Loops \ {"range"}) \cup {"switch"}
TerminatorsAt(w) == {b \in OfKind({"break", "goto"}) : Around(b, Counted) = w}
ManyTerminatorsThree == {w \in OfKind(Loops) : Cardinality(TerminatorsAt(w)) > 2}   \* mutant
ManyTerminators == {w \in OfKind(Loops \ {"range"}) : Cardinality(TerminatorsAt(w)) > 1}

\* AvoidUnboundedLoopCheck, ForwardGotoLabelCheck, GotoLabelSameBlockCheck.
Unbounded == OfKind({"forever"})
ForwardGoto == {g \in OfKind({"goto"}) : \E l \in OfKind({"label"}) : l > g}       \* mutant
BackwardGoto == {g \in OfKind({"goto"}) : \E l \in OfKind({"label"}) : l < g}
OtherLoop == {g \in OfKind({"goto"}) : \E l \in OfKind({"label"}) :                  \* mutant
               Around(g, Loops) # Around(l, Loops)}
OtherBlock == {g \in OfKind({"goto"}) : \E l \in OfKind({"label"}) :
                 Around(g, {"compound"}) # Around(l, {"compound"})}

\* SinglePointOfExitCheck and MultipleReturnStmtCheck; the first spares main.
Returns == OfKind({"return"})
ManyReturnsThree == Cardinality(Returns) > 2                                  \* mutant
ManyReturns == Cardinality(Returns) > 1
\* AvoidNoreturnReturnCheck of automotive/function sees the outermost block only,
\* that of cpp23 every return statement.
NoreturnReturnNone == {r \in Returns : fn.noreturn /\ Parent(r) = 0}          \* mutant
NoreturnReturnC == {r \in Returns : fn.noreturn /\ Parent(r) = 1}
NoreturnReturnCpp == {r \in Returns : fn.noreturn}

\* MissingCompoundStmtCheck reports the body, AvoidNonCompoundBodyCheck the statement around.
NoBraces(K) == {b \in Nodes \ {1} :
                  /\ Kind(b) # "compound"
                  /\ \/ Kind(Parent(b)) \in K
                     \/ Kind(Parent(b)) = "if" /\ (b = FirstOf(Parent(b)) \/ Kind(b) # "if")}
MissingCompound == NoBraces((Loops \ {"range"}) \cup {"switch"})
NonCompoundBody == {Parent(b) : b \in NoBraces(Loops)}

--------------------------------------------------------------------------------
(* WrongOrderInSwitchStmtCheck keeps state between its matches. *)

\* The matches: every switch in the order of the text, its labels from the last to the first.
Before(p, q) == p[1] < q[1] \/ (p[1] = q[1] /\ p[2] > q[2])
NextMatch == CHOOSE p \in rest : \A q \in rest : p = q \/ Before(p, q)
Matches == {<<s, l>> : s \in OfKind({"switch"}), l \in OfKind(Labels)}

\* Mutant: the default of the previous switch is kept.
MatchKeepDefault ==
  /\ rest # {}
  /\ LET s == NextMatch[1]
         c == NextMatch[2]
     IN  /\ prevSwitch' = s
         /\ misplaced' = IF s = prevSwitch /\ prevDefault # 0 THEN misplaced \cup {prevDefault} ELSE misplaced
         /\ prevDefault' = IF s # prevSwitch THEN prevDefault
                           ELSE IF prevDefault = 0 /\ Kind(c) = "default" THEN c ELSE 0
  /\ rest' = rest \ {NextMatch}
  /\ UNCHANGED <<fn, exec>>

MatchSwitchCase ==
  /\ rest # {}
  /\ LET s == NextMatch[1]
         c == NextMatch[2]
     IN  /\ prevSwitch' = s
         /\ \/ /\ s # prevSwitch
               /\ prevDefault' = 0
               /\ UNCHANGED misplaced
            \/ /\ s = prevSwitch /\ prevDefault # 0
               /\ misplaced' = misplaced \cup {prevDefault}
               /\ prevDefault' = 0
            \/ /\ s = prevSwitch /\ prevDefault = 0
               /\ prevDefault' = IF Kind(c) = "default" THEN c ELSE 0
               /\ UNCHANGED misplaced
  /\ rest' = rest \ {NextMatch}
  /\ UNCHANGED <<fn, exec>>

--------------------------------------------------------------------------------
Init == /\ fn \in Bodies
        /\ rest = {p \in Matches : p[2] \in LabelsOf(p[1])}
        /\ prevSwitch = 0 /\ prevDefault = 0 /\ misplaced = {}
        /\ prev = 0 /\ pc = 1
        /\ jumps = {}

\* The jumps that take control out of a loop.
Leaves(n, m) == {<<w, n>> : w \in {w \in OfKind(Loops) : n \in Within(w) /\ m \notin Within(w) \cup {w}}}

\* One statement is run, after the analysis.
Run == /\ rest = {} /\ pc # End
       /\ \E m \in Succ(pc) :
            /\ prev' = pc /\ pc' = m
            /\ jumps' = IF Kind(pc) \in {"break", "goto"} THEN jumps \cup Leaves(pc, m) ELSE jumps
       /\ UNCHANGED <<fn, walk>>

\* The function is called once more.
CallAgain == /\ rest = {} /\ pc = End
             /\ prev' = 0 /\ pc' = 1
             /\ UNCHANGED <<fn, walk, jumps>>

Next == MatchSwitchCase \/ Run \/ CallAgain

\* The condition of a loop inside d others is false.
LeaveLoop(d) == /\ pc \in OfKind(Loops)
                /\ Cardinality(fn.above[pc] \cap OfKind(Loops)) = d
                /\ Run /\ pc' = After[pc]

CONSTANT MaxDepth       \* bound: loops are nested in at most MaxDepth others
\* The check is one pass over the tree, and a program that runs goes on running;
\* a condition that is evaluated again and again is false at last.
Fairness == WF_vars(Next) /\ \A d \in 0 .. MaxDepth : SF_vars(LeaveLoop(d))
Spec == Init /\ [][Next]_vars /\ Fairness

--------------------------------------------------------------------------------
(* Properties. *)

\* No label to which a switch leads is reported by UnreachableCodeCheck: its header
\* calls unreachable what stands behind a break ("Code after unconditional control
\* flow statements (return, break, continue, goto, throw) is unreachable"), and the
\* label of the next clause does.
LabelsNotReported ==
  prev # 0 /\ Kind(prev) = "switch" /\ pc \in LabelsOf(prev) => pc \notin Unreachable

\* UnreachableCodeCheck is right of every statement into which no label leads.
ReportedIsUnreachable ==
  \A s \in Unreachable :
    ({s} \cup Within(s)) \cap OfKind(Labels \cup {"label"}) = {} => pc \notin {s} \cup Within(s)

\* A function on which MissingReturnCheck is silent does not run off its end,
\* whatever jumps it holds.
NoFallOff == pc = End /\ prev # 0 /\ ~MissingReturn /\ ~Spared
               => Kind(prev) \in {"return", "throw", "nrcall"}

\* Control has just run from the statements of one clause into the label of the next.
Fell == /\ pc # End /\ prev # 0 /\ Kind(pc) \in Labels /\ Kind(prev) # "goto"
        /\ LET s == Around(pc, {"switch"}) IN pc \in Clauses(s) /\ prev \in Within(s)
FellFrom == LET s == Around(pc, {"switch"}) IN Max({l \in Clauses(s) : l < pc} \cup {0})

\* Whenever control falls from a clause into the next one, WellFormedSwitchCheck
\* has reported the clause, or it ends in [[fallthrough]].
FallThroughSeen == Fell /\ FellFrom # 0 => FellFrom \in FallThrough \/ Kind(prev) = "fallthrough"

\* So has MissingBreakInCaseStmtCheck, except for clauses with several labels and
\* for those that hold a label to jump to.
MissingBreakSeen ==
  Fell /\ FellFrom # 0 =>
    LET s == Around(pc, {"switch"})
    IN  \/ FellFrom \in MissingBreak
        \/ Kind(FirstOf(FellFrom)) \in Labels
        \/ \E t \in ClauseOf(s, FellFrom) : ({t} \cup Within(t)) \cap OfKind({"label"} \cup Labels) # {}

\* WrongOrderInSwitchStmtCheck, which compares each match with the one before,
\* reports exactly the defaults that are neither the first nor the last label of
\* their switch, however the switches are nested.
DefaultMisplaced ==
  rest = {} =>
    misplaced = {d \in OfKind({"default"}) :
                   LET ls == LabelsOf(Around(d, {"switch"})) IN Min(ls) < d /\ d < Max(ls)}

\* A function on which neither the check of return paths nor that of single exits
\* has anything to say is left at one place: its only return, unless it throws.
OneWayOut == pc = End /\ prev # 0 /\ ~Spared /\ ~MissingReturn /\ ~ManyReturns
               => Kind(prev) \in {"throw", "nrcall"} \/ Returns = {prev}

\* When two jumps that belong to a loop itself have left it, the loop is reported.
LoopExitsSeen ==
  \A w \in OfKind(Loops \ {"range"}) :
    Cardinality({b \in Nodes : <<w, b>> \in jumps /\ Around(b, Counted) = w}) > 1 => w \in ManyTerminators

\* A return that is run in a noreturn function is reported by the C++ check, and
\* by the C check if it is in the outermost block.
NoreturnKept ==
  prev # 0 /\ fn.noreturn /\ Kind(prev) = "return"
    => prev \in NoreturnReturnCpp /\ (prev \in NoreturnReturnC \/ Parent(prev) # 1)

\* A label that control reaches from the head of its switch, past the braces of a
\* block inside the body, is reported by both checks of nested labels.
NestedSeen ==
  pc # End /\ prev # 0 /\ Kind(prev) = "switch" /\ pc \in LabelsOf(prev)
    /\ Kind(Parent(pc)) = "compound" /\ Parent(pc) # FirstOf(prev)
    => pc \in NestedLabel \cap Unstructured

\* A switch on which the checks of missing defaults and of single clauses are silent
\* leads into one of several clauses, unless an enumeration has a case for each value.
SwitchesDecide ==
  prev # 0 /\ Kind(prev) = "switch" /\ prev \notin NoDefault \cup IllFormed \cup SingleClause
    => \/ pc \in LabelsOf(prev) /\ LabelsOf(prev) # {pc}
       \/ prev \in MissingDefault /\ Cardinality(LabelsOf(prev)) = fn.enumerators

\* Where every body has braces, a goto on which GotoLabelSameBlockCheck is silent
\* neither enters nor leaves a loop, a branch or a switch.
GotosStayInBlock ==
  prev # 0 /\ Kind(prev) = "goto" /\ prev \notin OtherBlock /\ MissingCompound \cup NonCompoundBody = {}
    => LET around(n) == {a \in fn.above[n] : Kind(a) \in Loops \cup {"if", "switch"}}
       IN  around(prev) = around(pc)

\* What the checks of switch statements report, or leave unreported, agrees with
\* where control goes.
SwitchesJudged ==
  FallThroughSeen /\ MissingBreakSeen /\ DefaultMisplaced /\ NestedSeen /\ SwitchesDecide

\* So does what the checks of jumps, returns and unreachable code say.
ExitsJudged ==
  /\ ReportedIsUnreachable /\ NoFallOff /\ OneWayOut /\ NoreturnKept
  /\ LoopExitsSeen /\ GotosStayInBlock

\* The reports of the checks of control flow agree with where control goes.
ControlJudged == SwitchesJudged /\ ExitsJudged

\* A function without endless loops and backward jumps ends, if its conditions
\* become false at last: what AvoidUnboundedLoopCheck and ForwardGotoLabelCheck
\* leave unreported does not run for ever.
Ends == (Unbounded = {} /\ BackwardGoto = {}) ~> pc = End
================================================================================
