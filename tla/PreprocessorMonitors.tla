------------------------- MODULE PreprocessorMonitors -------------------------
(* The checks of automotive/preprocessor, which listen to clang's preprocessor, *)
(* on one translation unit.  The preprocessor itself (files, conditionals,      *)
(* macros) is external: what the checks need of it is modelled from the         *)
(* callbacks they receive.                                                      *)
(*                                                                              *)
(* A unit gives the lines of each file.  A line has a directive d, the macro,   *)
(* file or identifier m it names, and tokens t: a condition, the body of a      *)
(* macro, the arguments of a use.  fn tells a macro with a parameter, "p".      *)
EXTENDS CommentScanners, TLC, FiniteSetsExt

CONSTANTS Units,          \* the translation units that are analysed
          Names,          \* the identifiers in them
          Headers,        \* the user's headers, .h or .hpp
          SystemHeaders,
          StandardNames,  \* reserved for both checks of reserved names
          NewNames,       \* reserved for ReservedIdentifierMacroCheck only
          Keywords,
          Values          \* the numbers: their tokens and what they stand for

\* The files of a unit name each other; a conditional has its end; a comment is one.
Directives == {"define", "undef", "if", "ifdef", "ifndef", "elif", "else", "endif", "include", "once", "use", "decl", "comment"}
UnitAccepted(u) ==
  /\ "main" \in DOMAIN u
  /\ \A f \in DOMAIN u : u[f] \in Seq([d : Directives, m : STRING, t : Seq(STRING), fn : BOOLEAN])
  /\ \A f \in DOMAIN u : \A i \in DOMAIN u[f] :
       /\ u[f][i].d \in {"define", "undef", "use", "decl", "ifdef", "ifndef"} => u[f][i].m \in Names
       /\ u[f][i].d = "include" => u[f][i].m \in DOMAIN u
       /\ u[f][i].d = "comment" => IsComment(u[f][i].t)
       /\ u[f][i].d \in {"if", "ifdef", "ifndef"} => \E j \in DOMAIN u[f] : u[f][j].d = "endif"
ASSUME UnitsAssumption == \A u \in Units : UnitAccepted(u)

VARIABLES text,       \* the unit
          phase,      \* "lex", then "match" for the AST, then "done"
          entered,    \* the files entered; the index of an entry is its FileID
          open,       \* the places reached in the files being read, innermost last
          conds,      \* the conditionals in progress, innermost last
          macros,     \* where each macro defined at present was defined
          guards,     \* the macro that controls a file read to its end
          once,       \* the files with #pragma once
          decls,      \* the declarations parsed and not yet matched
          ifStack,    \* AvoidCrossFileIf: IfStack
          files,      \* MissingHeaderGuard: Files
          defined,    \* MissingHeaderGuard: Macros
          guarding,   \* the definitions that isUsedForHeaderGuard() holds for
          usage,      \* UnusedMacro: MacroUsage
          macroNames, \* AvoidMacroIdentifierConflict: MacroNames
          reports,    \* the diagnostics of all checks
          history     \* what the preprocessor has done, for the properties

pp == <<text, phase, entered, open, conds, macros, guards, once, decls>>
checks == <<ifStack, files, defined, guarding, usage, macroNames, reports>>
monitorVars == <<pp, checks, history>>

Nowhere == [fid |-> 0, pos |-> 0]
Top == Last(open)
FileOf(at) == entered[at.fid]
LineAt(at) == text[FileOf(at)][at.pos]
TopLine == LineAt(Top)
AtEnd == Top.pos > Len(text[FileOf(Top)])
InSystem(at) == FileOf(at) \in SystemHeaders
InMain(at) == at.fid = 1
IsDefined(m) == macros[m] # Nowhere

\* What check c says of name n at a place, when it says it.
Say(c, at, n, when) == IF when THEN {[check |-> c, at |-> at, name |-> n]} ELSE {}

--------------------------------------------------------------------------------
(* Conditions, as the preprocessor evaluates them. *)

\* The operators, weakest first.
Levels == <<"||", "&&", "==", "<", "<<", "+", "*">>
Level(op) == CHOOSE i \in DOMAIN Levels : Levels[i] = op
Bit(b) == IF b THEN 1 ELSE 0
Apply(op, a, b) == CASE op = "||" -> Bit(a # 0 \/ b # 0)
                     [] op = "&&" -> Bit(a # 0 /\ b # 0)
                     [] op = "==" -> Bit(a = b)
                     [] op = "<"  -> Bit(a < b)
                     [] op = "<<" -> a * 2 ^ b
                     [] op = "+"  -> a + b
                     [] op = "*"  -> a * b
Count(s, tok) == Cardinality({i \in DOMAIN s : s[i] = tok})
Depth(s, i) == Count(SubSeq(s, 1, i), "(") - Count(SubSeq(s, 1, i), ")")
Parts(s) == {SubSeq(s, i, j) : i \in DOMAIN s, j \in DOMAIN s}
Eval(s) ==
  LET value[t \in Parts(s)] ==
        LET binary == {i \in 2 .. Len(t) - 1 : t[i] \in Range(Levels) /\ Depth(t, i) = 0}
            weakest == {i \in binary : \A j \in binary : Level(t[i]) <= Level(t[j])}
        IN  IF Len(t) = 1 THEN IF t[1] \in DOMAIN Values THEN Values[t[1]] ELSE 0
            ELSE IF binary # {} THEN LET i == Max(weakest)
                                     IN  Apply(t[i], value[SubSeq(t, 1, i - 1)], value[SubSeq(t, i + 1, Len(t))])
            ELSE CASE t[1] = "!" -> Bit(value[Tail(t)] = 0)
                   [] t[1] = "-" -> - value[Tail(t)]
                   [] t[1] = "(" -> value[Front(Tail(t))]
  IN  value[s]

\* The operand of defined, with or without parentheses.
IsOperand(s, i) == \/ i > 1 /\ s[i - 1] = "defined"
                   \/ i > 2 /\ s[i - 1] = "(" /\ s[i - 2] = "defined"
Operands(s) == {i \in DOMAIN s : s[i] \in Names /\ ~IsOperand(s, i)}
Token(tok) == IF tok \in Names /\ IsDefined(tok) THEN LineAt(macros[tok]).t ELSE <<tok>>
Substitute(s, F(_)) == FlattenSeq([i \in DOMAIN s |-> F(s[i])])
\* defined is answered first, then macros are replaced, to a depth of two.
Answered(s) ==
  FlattenSeq([i \in DOMAIN s |->
    CASE s[i] \in Names /\ IsOperand(s, i) -> <<ToString(Bit(IsDefined(s[i])))>>
      [] s[i] = "defined" -> <<>>
      [] OTHER -> <<s[i]>>])
Expanded(s) == Substitute(Substitute(Answered(s), Token), Token)
\* The definitions that expanding s makes use of.
UsedBy(s) ==
  LET direct == {s[i] : i \in Operands(s)}
      deep == direct \cup UNION {Range(LineAt(macros[m]).t) \cap Names : m \in {m \in direct : IsDefined(m)}}
  IN  {m \in deep : IsDefined(m)}

ConditionHolds == CASE TopLine.d = "ifdef" -> IsDefined(TopLine.m)
           [] TopLine.d = "ifndef" -> ~IsDefined(TopLine.m)
           [] OTHER -> Eval(Expanded(TopLine.t)) # 0

--------------------------------------------------------------------------------
(* What the checks say of one directive. *)

\* IfUndefinedIdentifierCheck::checkCondition reads the text of the condition.
\* Mutant: the operand of defined is judged too.
UndefinedWithOperands(at, s) ==
  UNION {Say("undefined", at, s[i], ~InSystem(at) /\ s[i] \notin Keywords /\ ~IsDefined(s[i])) :
           i \in {i \in DOMAIN s : s[i] \in Names}}
Undefined(at, s) ==
  UNION {Say("undefined", at, s[i], ~InSystem(at) /\ s[i] \notin Keywords /\ ~IsDefined(s[i])) :
           i \in Operands(s)}

\* IfExpressionValueCheck, isBooleanExpression.
Has(s, toks) == \E i \in DOMAIN s : s[i] \in toks
IsNumber(s) == \/ Len(s) = 1 /\ s[1] \in DOMAIN Values
               \/ Len(s) = 2 /\ s[1] = "-" /\ s[2] \in DOMAIN Values
\* Mutant: a shift does not matter beside a comparison.
IsBooleanShift(s) ==
  \/ s \in {<<"0">>, <<"1">>}
  \/ /\ ~IsNumber(s)
     /\ \/ s[1] \in {"defined", "!"} \/ Has(s, {"==", "&&", "||", "<", "<<"})
        \/ ~Has(s, {"+", "-", "*", "(", ")"})
IsBoolean(s) ==
  \/ s \in {<<"0">>, <<"1">>}
  \/ /\ ~IsNumber(s)
     /\ \/ s[1] \in {"defined", "!"}
        \/ /\ ~Has(s, {"<<"})
           /\ Has(s, {"==", "&&", "||", "<"}) \/ ~Has(s, {"+", "-", "*", "(", ")"})
NotBoolean(at, s) == Say("value", at, "", ~InSystem(at) /\ ~IsBoolean(s))

\* MacroParenthesesCheck: checkMacroBody, and isProperlyParenthesized.
Operator == {"+", "-", "*", "<<", "&&", "||", "==", "<"}
\* Mutant: only the token before the parameter is looked at.
BareParametersBefore(s) ==
  {i \in DOMAIN s : s[i] = "p" /\ i > 1 /\ s[i - 1] \in Operator}
BareParameters(s) ==
  {i \in DOMAIN s :
     LET before(toks) == i > 1 /\ s[i - 1] \in toks
         behind(toks) == i < Len(s) /\ s[i + 1] \in toks
     IN  /\ s[i] = "p"
         /\ before(Operator) \/ behind(Operator)
         /\ ~before({"#", "##"}) /\ ~behind({"##"})
         /\ ~(before({"("}) /\ behind({")"}))}
Parentheses(at, l) ==
  UNION {Say("parentheses", at, ToString(i), ~InSystem(at) /\ l.fn) : i \in BareParameters(l.t)}

\* AvoidHashOperatorCheck, AvoidMultipleHashOperatorsCheck.
Hashes(s) == {i \in DOMAIN s : s[i] \in {"#", "##"}}
HashOperator(at, l) == UNION {Say("hash", at, ToString(i), TRUE) : i \in Hashes(l.t)}
MultipleHash(at, l) ==
  UNION {Say("multiple-hash", at, ToString(i), \E j \in Hashes(l.t) : j < i) : i \in Hashes(l.t)}

\* PreprocessorDirectiveInMacroArgCheck: any # will do.
DirectiveInArgument(at, l) ==
  Say("argument", at, l.m, IsDefined(l.m) /\ LineAt(macros[l.m]).fn /\ ~InSystem(at) /\ Has(l.t, {"#"}))

\* AvoidMacroNamedAsCkeywordCheck.
NamedAsKeyword(at, n) == Say("keyword", at, n, n \in Keywords)

\* ReservedIdentifierMacroCheck: MacroDefined and MacroUndefined alike.
ReservedIdentifier(at, n) ==
  Say("reserved", at, n, ~InSystem(at) /\ n \in StandardNames \cup NewNames)
\* AvoidReservedMacroIdentifierCheck: MacroDefined, MacroUndefined.
AvoidReservedDefine(at, n) == Say("avoid-reserved", at, n, ~InSystem(at) /\ n \in StandardNames)
\* Mutant: the header is not asked at all.
AvoidReservedUndefAnywhere(at, n) == Say("avoid-reserved", at, n, n \in StandardNames)
AvoidReservedUndef(at, n) ==
  Say("avoid-reserved", at, n, ~(IsDefined(n) /\ InSystem(at)) /\ n \in StandardNames)

\* AvoidUndefCheck.
AvoidUndef(at, n) == Say("undef", at, n, IsDefined(n))

--------------------------------------------------------------------------------
(* AvoidCrossFileIfCheck. *)

\* Mutant: Ifdef and Ifndef are not overridden.
PushIfOnly(at) == IF InSystem(at) \/ TopLine.d # "if" THEN ifStack ELSE Append(ifStack, at)
PushIf(at) == IF InSystem(at) THEN ifStack ELSE Append(ifStack, at)
CrossFile(at) ==
  Say("cross-file", at, TopLine.d, ifStack # <<>> /\ ~InSystem(at) /\ Last(ifStack).fid # at.fid)
PopIf == IF ifStack = <<>> THEN <<>> ELSE Front(ifStack)

--------------------------------------------------------------------------------
(* The unit is read. *)

EntryOf(f) == [fid |-> Len(entered) + 1, pos |-> 1]
\* MissingHeaderGuardCheck: FileChanged.
TrackFile(f) == IF f \in Headers THEN files \cup {f} ELSE files

MonitorInit ==
  /\ text \in Units
  /\ phase = "lex" /\ entered = <<"main">> /\ open = <<[fid |-> 1, pos |-> 1]>>
  /\ conds = <<>> /\ macros = [m \in Names |-> Nowhere] /\ guards = [f \in DOMAIN text |-> ""]
  /\ once = {} /\ decls = <<>> /\ ifStack = <<>> /\ files = {"main"} \cap Headers /\ defined = <<>> /\ guarding = {}
  /\ usage = <<>> /\ macroNames = <<>> /\ reports = {}
  /\ history = [expanded |-> {}, removed |-> {}, bodies |-> {}, judged |-> {},
                defs |-> <<>>, declared |-> {}, begun |-> <<0>>]

Live == conds # <<>> => Last(conds).live
Outer == Len(conds) > 1 => conds[Len(conds) - 1].live
Advance == open' = [open EXCEPT ![Len(open)].pos = @ + 1]
At(d) == phase = "lex" /\ open # <<>> /\ ~AtEnd /\ TopLine.d \in d
\* A line that hands no declaration on and leaves the files and the phase alone.
Stay == UNCHANGED <<text, phase, entered, guards, decls, files, guarding>>

\* UnusedMacroCheck: MacroExpands, for all macros in ms.
MarkUsed(ms) == [m \in ms \cup DOMAIN usage |->
                   [used |-> m \in ms \/ usage[m].used, at |-> IF m \in DOMAIN usage THEN usage[m].at ELSE Nowhere]]
Expand(ms) == /\ usage' = MarkUsed(ms)
              /\ history' = [history EXCEPT !.expanded = @ \cup {macros[m] : m \in ms}]

\* The callbacks MacroDefined.
\* Mutants: the entry of a macro that is defined again stays; definitions in
\* system headers are remembered.
Put(f, k, v) == [x \in {k} \cup DOMAIN f |-> IF x = k THEN v ELSE f[x]]
UsageKept == IF TopLine.m \in DOMAIN usage THEN usage ELSE Put(usage, TopLine.m, [used |-> FALSE, at |-> Top])
UsageReset == Put(usage, TopLine.m, [used |-> FALSE, at |-> Top])
AddAnyMacro == Put(macroNames, TopLine.m, Top)
AddMacro == IF InSystem(Top) THEN macroNames ELSE Put(macroNames, TopLine.m, Top)
Define ==
  /\ At({"define"}) /\ Live /\ Advance
  /\ macros' = [macros EXCEPT ![TopLine.m] = Top]
  /\ defined' = Append(defined, Top)
  /\ usage' = UsageReset
  /\ macroNames' = AddMacro
  /\ reports' = reports \cup Parentheses(Top, TopLine) \cup HashOperator(Top, TopLine) \cup MultipleHash(Top, TopLine)
                        \cup NamedAsKeyword(Top, TopLine.m) \cup ReservedIdentifier(Top, TopLine.m)
                        \cup AvoidReservedDefine(Top, TopLine.m)
  /\ history' = [history EXCEPT !.defs = Append(@, Top)]
  /\ UNCHANGED <<conds, once, ifStack>> /\ Stay

\* The callbacks MacroUndefined.
Undef ==
  /\ At({"undef"}) /\ Live /\ Advance
  /\ macros' = [macros EXCEPT ![TopLine.m] = Nowhere]
  /\ usage' = MarkUsed({TopLine.m})
  /\ reports' = reports \cup AvoidUndef(Top, TopLine.m) \cup ReservedIdentifier(Top, TopLine.m)
                        \cup AvoidReservedUndef(Top, TopLine.m)
  /\ history' = [history EXCEPT !.removed = @ \cup ({macros[TopLine.m]} \ {Nowhere})]
  /\ UNCHANGED <<conds, once, ifStack, defined, macroNames>> /\ Stay

\* The callbacks If, Ifdef, Ifndef; none within a part that is skipped.
Judge == history.judged \cup {[at |-> Top, value |-> Eval(Expanded(TopLine.t)),
                               missing |-> Range(Expanded(TopLine.t)) \cap Names]}
If ==
  /\ At({"if", "ifdef", "ifndef"}) /\ Advance
  /\ conds' = Append(conds, [at |-> Top, live |-> Live /\ ConditionHolds, taken |-> Live /\ ConditionHolds])
  /\ ifStack' = IF Live THEN PushIf(Top) ELSE ifStack
  /\ IF Live /\ TopLine.d = "if"
     THEN /\ reports' = reports \cup Undefined(Top, TopLine.t) \cup NotBoolean(Top, TopLine.t)
          /\ usage' = MarkUsed(UsedBy(TopLine.t))
          /\ history' = [history EXCEPT !.judged = Judge,
                                        !.expanded = @ \cup {macros[m] : m \in UsedBy(TopLine.t)}]
     ELSE UNCHANGED <<reports, usage, history>>
  /\ UNCHANGED <<macros, once, defined, macroNames>> /\ Stay

\* The callbacks Elif, Else and Endif come for the conditionals of the same file only.
InConditional == conds # <<>> /\ Last(conds).at.fid = Top.fid
\* Elif and Else come at the end of a branch that is read and as long as none was;
\* what is passed over behind a branch is not called back.
Called == Outer /\ (Last(conds).live \/ ~Last(conds).taken)

\* The callbacks Elif: the condition is evaluated only if no branch was taken.
Elif ==
  /\ At({"elif"}) /\ InConditional /\ Advance
  /\ LET evaluated == Outer /\ ~Last(conds).taken
         holds == evaluated /\ ConditionHolds
     IN  /\ conds' = [conds EXCEPT ![Len(conds)].live = holds, ![Len(conds)].taken = @ \/ holds]
         /\ reports' = IF Called THEN reports \cup CrossFile(Top) \cup Undefined(Top, TopLine.t) \cup NotBoolean(Top, TopLine.t)
                       ELSE reports
         /\ IF evaluated
            THEN /\ usage' = MarkUsed(UsedBy(TopLine.t))
                 /\ history' = [history EXCEPT !.judged = Judge,
                                               !.expanded = @ \cup {macros[m] : m \in UsedBy(TopLine.t)}]
            ELSE UNCHANGED <<usage, history>>
  /\ UNCHANGED <<macros, once, ifStack, defined, macroNames>> /\ Stay

\* The callback Else.
Else ==
  /\ At({"else"}) /\ InConditional /\ Advance
  /\ conds' = [conds EXCEPT ![Len(conds)].live = Outer /\ ~Last(conds).taken, ![Len(conds)].taken = TRUE]
  /\ reports' = IF Called THEN reports \cup CrossFile(Top) ELSE reports
  /\ UNCHANGED <<macros, once, ifStack, defined, usage, macroNames, history>> /\ Stay

\* The callback Endif.
Endif ==
  /\ At({"endif"}) /\ InConditional /\ Advance
  /\ conds' = Front(conds)
  /\ reports' = IF Outer THEN reports \cup CrossFile(Top) ELSE reports
  /\ ifStack' = IF Outer THEN PopIf ELSE ifStack
  /\ UNCHANGED <<macros, once, defined, usage, macroNames, history>> /\ Stay

Skip ==
  /\ At({"define", "undef", "include", "once", "use", "decl", "comment"}) /\ ~Live /\ Advance
  /\ UNCHANGED <<conds, macros, once, ifStack, defined, usage, macroNames, reports, history>> /\ Stay

\* HandleComment of both checks of comments.
Comment ==
  /\ At({"comment"}) /\ Live /\ Advance
  /\ reports' = reports \cup {[check |-> "comment", at |-> Top, name |-> w] : w \in WithinComment(TopLine.t)}
                        \cup {[check |-> "splice", at |-> Top, name |-> i] : i \in Splices(TopLine.t)}
  /\ UNCHANGED <<conds, macros, once, ifStack, defined, usage, macroNames, history>> /\ Stay

\* #pragma once
Once ==
  /\ At({"once"}) /\ Live /\ Advance
  /\ once' = once \cup {FileOf(Top)}
  /\ UNCHANGED <<conds, macros, ifStack, defined, usage, macroNames, reports, history>> /\ Stay

\* #include: a file whose guard is known to be defined is not entered again.
Include ==
  /\ At({"include"}) /\ Live
  /\ LET f == TopLine.m
         past == [open EXCEPT ![Len(open)].pos = @ + 1]
     IN  IF f \in once \/ (guards[f] # "" /\ IsDefined(guards[f]))
         THEN open' = past /\ UNCHANGED <<entered, files, history>>
         ELSE /\ open' = Append(past, EntryOf(f))
              /\ entered' = Append(entered, f)
              /\ files' = TrackFile(f)
              /\ history' = [history EXCEPT !.begun = Append(@, Len(history.defs))]
  /\ UNCHANGED <<text, phase, conds, macros, guards, once, decls, ifStack, defined, guarding,
                 usage, macroNames, reports>>

\* Program text: the use of an identifier, or a declaration of one; the name of
\* a macro is expanded, with a parameter only before its arguments.
Expands(m) == IsDefined(m) /\ ~LineAt(macros[m]).fn
Contributed == [history EXCEPT !.bodies = @ \cup {Top.fid}]
Use ==
  /\ At({"use", "decl"}) /\ Live /\ Advance
  /\ TopLine.d = "decl" => Expands(TopLine.m)
  /\ LET ms == {m \in {TopLine.m} : IsDefined(m)}
     IN  /\ usage' = MarkUsed(ms)
         /\ history' = [Contributed EXCEPT !.expanded = @ \cup {macros[m] : m \in ms}]
  /\ reports' = reports \cup DirectiveInArgument(Top, TopLine)
  /\ UNCHANGED <<conds, macros, once, ifStack, defined, macroNames>> /\ Stay
Declare ==
  /\ At({"decl"}) /\ Live /\ Advance /\ ~Expands(TopLine.m)
  /\ decls' = Append(decls, Top)
  /\ history' = [Contributed EXCEPT !.declared = @ \cup {Top}]
  /\ UNCHANGED <<text, phase, entered, guards, files, guarding,
                 conds, macros, once, ifStack, defined, usage, macroNames, reports>>

\* The macro that controls f: f is one #ifndef, without #else, and nothing around it.
ControllingMacro(f) ==
  LET s == text[f]
      Among(i, ds) == Cardinality({j \in 1 .. i : s[j].d \in ds})
      Nested(i) == Among(i, {"if", "ifdef", "ifndef"}) - Among(i, {"endif"})
  IN  IF /\ s # <<>> /\ s[1].d = "ifndef"
         /\ \A i \in 1 .. Len(s) - 1 : Nested(i) > 0 /\ (s[i].d \in {"else", "elif"} => Nested(i) > 1)
      THEN s[1].m ELSE ""
EndOfFile ==
  /\ phase = "lex" /\ open # <<>> /\ AtEnd /\ \A i \in DOMAIN conds : conds[i].at.fid # Top.fid
  /\ LET f == FileOf(Top)
         m == ControllingMacro(f)
     IN  /\ guards' = [guards EXCEPT ![f] = m]
         /\ guarding' = IF m # "" /\ IsDefined(m) THEN guarding \cup {macros[m]} ELSE guarding
  /\ open' = Front(open)
  /\ UNCHANGED <<text, phase, entered, conds, macros, once, decls, ifStack, files, defined,
                 usage, macroNames, reports, history>>

\* The callbacks EndOfMainFile of MissingHeaderGuardCheck and of UnusedMacroCheck.
\* Mutants: every definition counts as a guard; macros of headers are reported.
UnguardedByAny == files \ {FileOf(d) : d \in Range(defined)}
Unguarded == files \ {FileOf(d) : d \in Range(defined) \cap guarding}
UnusedAnywhere == UNION {Say("unused", usage[m].at, m, ~usage[m].used) : m \in DOMAIN usage}
Unused == UNION {Say("unused", usage[m].at, m, ~usage[m].used /\ InMain(usage[m].at)) : m \in DOMAIN usage}
EndOfMainFile ==
  /\ phase = "lex" /\ open = <<>>
  /\ phase' = "match"
  /\ reports' = reports \cup Unused \cup UNION {Say("guard", Nowhere, f, TRUE) : f \in Unguarded}
  /\ files' = {} /\ defined' = <<>>
  /\ UNCHANGED <<text, entered, open, conds, macros, guards, once, decls, ifStack, guarding,
                 usage, macroNames, history>>

\* AvoidMacroIdentifierConflictCheck: check, for the next declaration.  What
\* addIdentifier stores nothing reads: no macro is defined any more.
Conflict(at) == Say("conflict", at, LineAt(at).m, ~InSystem(at) /\ LineAt(at).m \in DOMAIN macroNames)
Match ==
  /\ phase = "match" /\ decls # <<>>
  /\ reports' = reports \cup Conflict(Head(decls))
  /\ decls' = Tail(decls)
  /\ UNCHANGED <<text, phase, entered, open, conds, macros, guards, once, ifStack, files, defined,
                 guarding, usage, macroNames, history>>
EndOfTranslationUnit ==
  /\ phase = "match" /\ decls = <<>>
  /\ phase' = "done" /\ macroNames' = <<>>
  /\ UNCHANGED <<text, entered, open, conds, macros, guards, once, decls, ifStack, files, defined,
                 guarding, usage, reports, history>>
Done == phase = "done" /\ UNCHANGED monitorVars

MonitorNext ==
  \/ Define \/ Undef \/ If \/ Elif \/ Else \/ Endif \/ Skip \/ Comment \/ Once \/ Include \/ Use \/ Declare
  \/ EndOfFile \/ EndOfMainFile \/ Match \/ EndOfTranslationUnit \/ Done
MonitorSpec == MonitorInit /\ [][MonitorNext]_monitorVars

--------------------------------------------------------------------------------
(* Properties. *)

Reported(c) == {r \in reports : r.check = c}
ReadTo == 1 .. Len(entered)
Is(d) == UNION {{[fid |-> i, pos |-> p] : p \in {p \in DOMAIN text[entered[i]] : text[entered[i]][p].d \in d}} :
                  i \in ReadTo}

\* AvoidCrossFileIfCheck keeps its own stack of conditionals: as long as no system
\* header has one, it is the preprocessor's, innermost last, without those in
\* skipped text, which are the innermost; and no report is made.  Whatever system
\* headers have, which are popped and not pushed, it holds no conditional that has ended.
IfsMatched ==
  /\ \A i \in DOMAIN ifStack : \E j \in DOMAIN conds : conds[j].at = ifStack[i]
  /\ (\A at \in Is({"endif"}) : ~InSystem(at)) =>
       LET reached == {i \in DOMAIN conds : i = 1 \/ conds[i - 1].live}
       IN  /\ ifStack = [i \in reached |-> conds[i].at]
           /\ Reported("cross-file") = {}

\* MissingHeaderGuardCheck: a header that is not reported is protected: from some
\* definition of its guard on, no inclusion of it hands text to the compiler, unless
\* the guard is undefined or it defines the guard of another file; one that defines a
\* guard of its own, which no other file does and none undefines, is not reported.
HeadersJudged ==
  phase \in {"match", "done"} =>
    \A f \in Range(entered) \cap Headers :
      LET own == ControllingMacro(f)
          silent == \A r \in Reported("guard") : r.name # f
          removed == own # "" /\ \E at \in Is({"undef"}) : LineAt(at).m = own
          lent == \E g \in Range(entered) \ {f} : \E l \in Range(text[f]) :
                    l.d = "define" /\ ControllingMacro(g) = l.m /\ l.m # own
          foreign == \E g \in Range(entered) \ {f} : \E l \in Range(text[g]) : l.d = "define" /\ l.m = own
          Guard(i) == FileOf(history.defs[i]) = f /\ LineAt(history.defs[i]).m = own
          protected == \E i \in DOMAIN history.defs :
                         Guard(i) /\ \A j \in history.bodies : entered[j] = f => history.begun[j] < i
      IN  /\ silent => protected \/ removed \/ lent
          /\ (own # "" /\ (\E i \in DOMAIN history.defs : Guard(i)) /\ ~removed /\ ~foreign) => silent

\* UnusedMacroCheck reports the macros whose last definition is in the main file
\* and was neither expanded nor undefined; AvoidMacroIdentifierConflictCheck the
\* user's declarations of a name that a user's macro had at any time.  The two
\* checks of reserved names agree on the names both know, but for an #undef in a
\* system header of a name that is not defined there.
NamesJudged ==
  phase = "done" =>
    LET defs == history.defs
        final == {defs[i] : i \in {i \in DOMAIN defs :
                    \A j \in i + 1 .. Len(defs) : LineAt(defs[j]).m # LineAt(defs[i]).m}}
        idle == {d \in final : InMain(d) /\ d \notin history.expanded \cup history.removed}
        both == {r \in Reported("reserved") : r.name \in StandardNames}
        Twin(r, c) == [r EXCEPT !.check = c] \in reports
    IN  /\ {r.at : r \in Reported("unused")} = idle
        /\ {r.at : r \in Reported("conflict")} =
             {d \in history.declared : ~InSystem(d) /\ \E i \in DOMAIN defs :
                                         ~InSystem(defs[i]) /\ LineAt(defs[i]).m = LineAt(d).m}
        /\ \A r \in both : Twin(r, "avoid-reserved")
        /\ \A r \in Reported("avoid-reserved") :
             Twin(r, "reserved") \/ (InSystem(r.at) /\ LineAt(r.at).d = "undef" /\ ~Twin(r, "undef"))

\* IfUndefinedIdentifierCheck names every identifier that is 0 for want of a
\* definition, if the condition itself has it, and no other of a condition that is
\* evaluated; a condition that IfExpressionValueCheck accepts is 0 or 1, if it is
\* more than one identifier, has no arithmetic but shifts, and does not shift what
\* follows a ! or a defined; the argument of a macro that MacroParenthesesCheck accepts stays one operand, if no ! precedes it.
ConditionsJudged ==
  phase = "done" =>
    /\ \A j \in {j \in history.judged : ~InSystem(j.at)} :
         LET t == LineAt(j.at).t
             said == {r.name : r \in {r \in Reported("undefined") : r.at = j.at}}
         IN  /\ said \subseteq j.missing
             /\ j.missing \cap Range(t) \subseteq said \cup Keywords
             /\ \/ Say("value", j.at, "", TRUE) \subseteq reports
                \/ j.value \in {0, 1} \/ Len(t) = 1 \/ Has(t, {"+", "-", "*"})
                \/ t[1] \in {"!", "defined"} /\ Has(t, {"<<"})
    /\ \A i \in DOMAIN history.defs :
         LET at == history.defs[i]
             l == LineAt(at)
             With(arg) == Eval(Substitute(l.t, LAMBDA tok : IF tok = "p" THEN arg ELSE <<tok>>))
             accepted == l.fn /\ ~InSystem(at) /\ at \notin {r.at : r \in Reported("parentheses")}
         IN  accepted /\ ~Has(l.t, {"!", "#", "##"}) =>
               \A arg \in {<<"1", "+", "1">>, <<"0", "||", "1">>} : With(arg) = With(<<"(">> \o arg \o <<")">>)

\* AvoidCommentWithinCommentCheck: a comment with nothing reported has no // and no
\* /* in it but in a URL of an unknown protocol, if it does not end in a spliced */;
\* a report is of a mark at that place, or of one that the second character of the
\* opening is part of.  AvoidLinesplicingWithinCommentCheck finds every splice of a
\* // comment, also in its opening.
InURL(s, i) ==
  \E j \in DOMAIN s : Follows(s, j, i) /\ (s[j] = ":" \/ \E h \in DOMAIN s : Follows(s, h, j) /\ s[h] = ":")
CommentsJudged ==
  phase = "done" =>
    \A at \in {at \in Is({"comment"}) : \A i \in DOMAIN text[FileOf(at)] : text[FileOf(at)][i].d = "comment"} :
      LET s == LineAt(at).t
          said == {r.name : r \in {r \in Reported("comment") : r.at = at}}
          spliced == s[Second(s)] = "*" /\ s[Len(s) - 1] = "~"
      IN  /\ said = {} /\ ~spliced => \A i \in Marks(s) : InURL(s, i)
          /\ \A w \in said : w[1] # "*/" => w[2] \in Marks(s) \cup {Second(s)}
          /\ s[Second(s)] = "/" => {r.name : r \in {r \in Reported("splice") : r.at = at}} = {i \in DOMAIN s : s[i] = "~"}

\* What the checks make of what the preprocessor calls them for: conditionals, files,
\* names and comments.
EventsJudged == IfsMatched /\ HeadersJudged /\ NamesJudged /\ CommentsJudged
================================================================================
