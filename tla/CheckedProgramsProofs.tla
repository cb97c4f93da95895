------------------------- MODULE CheckedProgramsProofs -------------------------
(***************************************************************************)
(* Theorems about the programs that run beside the checks of loops and     *)
(* parameters, of exceptions, of errno and the library, of objects shared  *)
(* by two threads, of classes and their objects, and about generic         *)
(* selections: of all programs that fit the assumptions of these modules,  *)
(* none does what a check is there to report while the check is silent,    *)
(* but for the gaps that the properties list.                              *)
(***************************************************************************)
EXTENDS LocalChanges, ThrownExceptions, LibraryObjects, GenericSelections,
        SharedAccesses, ClassObjects, SequenceTheorems, FiniteSetTheorems, WellFoundedInduction, TLAPS

-----------------------------------------------------------------------------
\* Loops and functions: what they are, and where they can be.

LocalTypes ==
  /\ local \in ForLoops \cup Callees
  /\ position \in Nat
  /\ position <= Len(local.body) + 2
  /\ ~IsLoop => position \in 1 .. Len(local.body) + 1
  /\ counter \in Nat /\ rounds \in Nat

LEMMA LoopKnown == ASSUME LocalTypes, IsLoop PROVE LoopFits(local)
BY LocalAssumption DEF LocalTypes, IsLoop, FunctionFits

LEMMA FunctionKnown == ASSUME LocalTypes, ~IsLoop PROVE FunctionFits(local)
BY LocalAssumption DEF LocalTypes, IsLoop

LEMMA BodyLength == ASSUME LocalTypes PROVE Len(local.body) \in Nat /\ DOMAIN local.body = 1 .. Len(local.body)
BY LoopKnown, FunctionKnown DEF LoopFits, FunctionFits

LEMMA NextNumber == ASSUME NEW n \in Nat PROVE Plus1(n) \in Nat
BY DEF Plus1

LEMMA LocalTyped == LocalSpec => []LocalTypes
<1>1. ASSUME LocalInit PROVE LocalTypes
  <2>1. local \in ForLoops \cup Callees BY <1>1 DEF LocalInit
  <2>2. Len(local.body) \in Nat
    BY <2>1, LocalAssumption DEF LoopFits, FunctionFits
  <2> QED BY <1>1, <2>1, <2>2 DEF LocalInit, LocalTypes
<1>2. ASSUME LocalTypes, [LocalNext]_localVars PROVE LocalTypes'
  <2> DEFINE n == Len(local.body)
  <2>1. n \in Nat BY <1>2, BodyLength
  <2>2. local \in ForLoops \cup Callees /\ position \in Nat /\ position <= n + 2
        /\ counter \in Nat /\ rounds \in Nat
    BY <1>2 DEF LocalTypes
  <2>3. Plus1(counter) \in Nat BY <2>2, NextNumber
  <2>4. local' = local
    BY <1>2 DEF LocalNext, EnterBody, LeaveLoop, Change, JumpOut, Increment, DoStatement, LocalDone, localVars
  <2> HIDE DEF n
  <2>5. CASE EnterBody \/ LeaveLoop
    BY <2>1, <2>2, <2>4, <2>5 DEF EnterBody, LeaveLoop, LocalTypes, AtHead, IsLoop, n
  <2>6. CASE Change
    <3>1. counter' \in {0, counter + 1, Plus1(counter), counter} BY <2>6 DEF Change
    <3>2. position \in 1 .. n /\ position' \in {position + 1, n + 2} BY <2>6 DEF Change, InBody, n
    <3>3. rounds' = rounds /\ IsLoop BY <2>6 DEF Change, InBody
    <3> QED BY <2>1, <2>2, <2>3, <2>4, <3>1, <3>2, <3>3 DEF LocalTypes, IsLoop, n
  <2>7. CASE JumpOut
    <3>1. position' \in {n + 1, n + 2} BY <2>7 DEF JumpOut, n
    <3>2. counter' = counter /\ rounds' = rounds /\ IsLoop BY <2>7 DEF JumpOut, InBody
    <3> QED BY <2>1, <2>2, <2>4, <3>1, <3>2 DEF LocalTypes, IsLoop, n
  <2>8. CASE Increment
    <3>1. counter' \in {Plus1(counter), counter} BY <2>8 DEF Increment
    <3> QED BY <2>1, <2>2, <2>3, <2>4, <2>8, <3>1 DEF Increment, LocalTypes, IsLoop, n
  <2>9. CASE DoStatement
    <3>1. position \in 1 .. n + 1 /\ position <= n BY <1>2, <2>9 DEF DoStatement, LocalTypes, n
    <3> QED BY <2>1, <2>2, <2>4, <2>9, <3>1 DEF DoStatement, LocalTypes, IsLoop, n
  <2>10. CASE LocalDone \/ UNCHANGED localVars
    BY <1>2, <2>10 DEF LocalDone, localVars, LocalTypes, IsLoop
  <2> QED BY <1>2, <2>5, <2>6, <2>7, <2>8, <2>9, <2>10 DEF LocalNext
<1> QED BY <1>1, <1>2, PTL DEF LocalSpec

-----------------------------------------------------------------------------
\* A loop that nothing is said of, and none of whose writes the checks overlook.

Quiet ==
  /\ IsLoop
  /\ LoopSaid \subseteq {"SuboptimalBreakContinue"}
  /\ "pointer" \notin BodyOps
  /\ "nested" \in BodyOps => local.init \notin {"assign", "declare two"}

\* Until it is left, its counter has the value that the head gives it; in a round, it has
\* passed the condition.
CounterInv ==
  Quiet =>
    /\ position <= Len(local.body) + 1 => counter = rounds
    /\ local.cond = "counter" => counter <= Limit
    /\ local.cond = "counter" /\ position \in 1 .. Len(local.body) + 1 => counter < Limit
CutInv ==
  IsLoop /\ cut => \E i \in 1 .. Len(local.body) : local.body[i] \in Jump /\ i # Len(local.body)

\* Such a loop steps an integer that its condition tests and its body leaves alone.
LEMMA QuietLoop ==
  ASSUME LocalTypes, Quiet
  PROVE  /\ local.inc = "step" /\ ~IsFloat
         /\ local.cond = "counter" \/ local.cond = "second"
         /\ BodyOps \cap {"set", "++", "(set)", "nested", "pointer"} = {}
<1>1. LoopFits(local) BY LoopKnown DEF Quiet
<1>2. /\ WellFormedForLoop = {} /\ ForLoopVarModification = {} /\ FloatingPointLoopCounter = {}
  BY DEF Quiet, LoopSaid, WellFormedForLoop, ForLoopVarModification, FloatingPointLoopCounter, Say
<1>3. /\ InitVars # {} /\ CondRefers /\ local.inc = "step" /\ ~ModifiedInBody
  BY <1>2 DEF WellFormedForLoop, Say
<1>4. ~IsFloat BY <1>2 DEF FloatingPointLoopCounter, Say
<1>5. local.init \in {"declare", "declare two", "assign"}
  <2>1. local.init \notin {"none", "uninit"} BY <1>3 DEF InitVars
  <2> QED BY <1>1, <1>4, <2>1 DEF LoopFits, IsFloat
<1>6. local.cond = "counter" \/ local.cond = "second"
  BY <1>3, <1>5 DEF CondRefers, InitVars
<1>7. BodyOps \cap {"set", "++", "(set)"} = {} BY <1>3 DEF ModifiedInBody
<1>8. "nested" \notin BodyOps
  <2>1. CASE local.init = "declare" BY <1>2, <2>1 DEF ForLoopVarModification, Say
  <2>2. CASE local.init # "declare" BY <1>5, <2>2 DEF Quiet
  <2> QED BY <2>1, <2>2
<1> QED BY <1>3, <1>4, <1>6, <1>7, <1>8 DEF Quiet

LEMMA QuietKept == ASSUME local' = local PROVE Quiet' <=> Quiet
BY DEF Quiet, IsLoop, LoopSaid, BodyOps, WellFormedForLoop, ForLoopVarModification, FloatingPointLoopCounter,
       SuboptimalBreakContinue, InitVars, ModifiedInBody, CondRefers, IsFloat, Say, Jump

LEMMA CounterStep ==
  ASSUME LocalTypes, CounterInv, [LocalNext]_localVars PROVE CounterInv'
<1> DEFINE n == Len(local.body)
<1>1. local' = local
  BY DEF LocalNext, EnterBody, LeaveLoop, Change, JumpOut, Increment, DoStatement, LocalDone, localVars
<1> SUFFICES ASSUME Quiet
    PROVE /\ position' <= n + 1 => counter' = rounds'
          /\ local.cond = "counter" => counter' <= Limit
          /\ local.cond = "counter" /\ position' \in 1 .. n + 1 => counter' < Limit
  BY <1>1, QuietKept DEF CounterInv
<1>2. n \in Nat /\ position \in Nat /\ counter \in Nat /\ rounds \in Nat /\ Limit \in Nat
  BY BodyLength, LocalAssumption DEF LocalTypes
<1>3. /\ position <= n + 1 => counter = rounds
      /\ local.cond = "counter" => counter <= Limit
      /\ local.cond = "counter" /\ position \in 1 .. n + 1 => counter < Limit
  BY DEF CounterInv
<1>4. IsLoop BY DEF Quiet
<1>5. Plus1(counter) = counter + 1 /\ local.inc = "step" BY QuietLoop DEF Plus1
<1> HIDE DEF n
<1>6. CASE EnterBody BY <1>1, <1>2, <1>3, <1>6 DEF EnterBody, AtHead
<1>7. CASE LeaveLoop BY <1>1, <1>2, <1>3, <1>7 DEF LeaveLoop, AtHead, n
<1>8. CASE Change
  <2>1. Statement \notin {"set", "++", "(set)", "nested", "pointer"}
    <3>1. Statement \in BodyOps BY <1>8, BodyLength DEF Change, InBody, Statement, BodyOps
    <3> QED BY <3>1, QuietLoop
  <2>2. counter' = counter BY <1>8, <2>1 DEF Change
  <2>3. position \in 1 .. n /\ rounds' = rounds /\ position' \in {position + 1, n + 2}
    BY <1>8 DEF Change, InBody, n
  <2> QED BY <1>2, <1>3, <2>2, <2>3
<1>9. CASE JumpOut
  <2>1. /\ position \in 1 .. n /\ rounds' = rounds /\ counter' = counter
        /\ position' \in {n + 1, n + 2}
    BY <1>9 DEF JumpOut, InBody, n
  <2> QED BY <1>2, <1>3, <2>1
<1>10. CASE Increment
  <2>1. position = n + 1 /\ counter' = counter + 1 /\ rounds' = rounds + 1 /\ position' = 0
    BY <1>5, <1>10 DEF Increment, n
  <2> QED BY <1>2, <1>3, <2>1
<1>11. CASE DoStatement BY <1>4, <1>11 DEF DoStatement
<1>12. CASE LocalDone \/ UNCHANGED localVars BY <1>3, <1>12 DEF LocalDone, localVars
<1> QED BY <1>6, <1>7, <1>8, <1>9, <1>10, <1>11, <1>12 DEF LocalNext

LEMMA CutStep == ASSUME LocalTypes, CutInv, [LocalNext]_localVars PROVE CutInv'
<1>1. local' = local
  BY DEF LocalNext, EnterBody, LeaveLoop, Change, JumpOut, Increment, DoStatement, LocalDone, localVars
<1>2. CASE JumpOut
  BY <1>1, <1>2 DEF CutInv, JumpOut, InBody, IsLoop, Statement
<1>3. CASE ~JumpOut
  <2>1. cut' = cut
    BY <1>3 DEF LocalNext, EnterBody, LeaveLoop, Change, Increment, DoStatement, LocalDone, localVars
  <2> QED BY <1>1, <2>1 DEF CutInv, IsLoop
<1> QED BY <1>2, <1>3

-----------------------------------------------------------------------------
\* A function has changed what the statements behind it write.

Written(i) == Writes(local.body[i][1], local.body[i][2])
ChangedInv == ~IsLoop => changed = UNION {Written(i) : i \in 1 .. position - 1}

LEMMA ChangedStep == ASSUME LocalTypes, ChangedInv, [LocalNext]_localVars PROVE ChangedInv'
<1>1. local' = local
  BY DEF LocalNext, EnterBody, LeaveLoop, Change, JumpOut, Increment, DoStatement, LocalDone, localVars
<1> SUFFICES ASSUME ~IsLoop PROVE changed' = UNION {Written(i) : i \in 1 .. position' - 1}
  BY <1>1 DEF ChangedInv, IsLoop, Written, Writes
<1>2. changed = UNION {Written(i) : i \in 1 .. position - 1} BY DEF ChangedInv
<1>3. position \in Nat \ {0} BY DEF LocalTypes
<1>4. CASE DoStatement
  <2>1. changed' = changed \cup Written(position) BY <1>4 DEF DoStatement, Written, Statement
  <2>2. position' = position + 1 BY <1>4 DEF DoStatement
  <2>3. 1 .. position' - 1 = (1 .. position - 1) \cup {position} BY <1>3, <2>2
  <2> QED BY <1>2, <2>1, <2>3
<1>5. CASE LocalDone \/ UNCHANGED localVars BY <1>2, <1>5 DEF LocalDone, localVars
<1> QED BY <1>4, <1>5 DEF LocalNext, EnterBody, LeaveLoop, Change, JumpOut, Increment, InBody, AtHead

\* At its end it has changed a parameter if some statement writes it, and likewise objects.
LEMMA AllChanged ==
  ASSUME LocalTypes, ChangedInv, ~IsLoop, position = Len(local.body) + 1, NEW w
  PROVE  /\ <<"value", w>> \in changed <=> Does({w}, {"=", "++", "(=)", "via &"})
         /\ <<"object", w>> \in changed <=> Does({w}, {"*=", "[]=", "(*=)", "copy*=", "+1*=", "pass"})
<1> DEFINE n == Len(local.body)
<1>1. n \in Nat /\ DOMAIN local.body = 1 .. n BY BodyLength
<1>2. \A i \in 1 .. n : local.body[i][2]
         \in {"=", "++", "(=)", "via &", "*=", "[]=", "(*=)", "copy*=", "+1*=", "&*", "pass", "show"}
  BY FunctionKnown DEF FunctionFits
<1>3. 1 .. position - 1 = 1 .. n BY <1>1
<1>4. changed = UNION {Written(i) : i \in 1 .. n} BY <1>3 DEF ChangedInv
<1>5. ASSUME NEW i \in 1 .. n
      PROVE /\ <<"value", w>> \in Written(i)
                 <=> local.body[i][1] = w /\ local.body[i][2] \in {"=", "++", "(=)", "via &"}
            /\ <<"object", w>> \in Written(i)
                 <=> local.body[i][1] = w
                     /\ local.body[i][2] \in {"*=", "[]=", "(*=)", "copy*=", "+1*=", "pass"}
  <2>1. \/ local.body[i][2] \in {"=", "++", "(=)", "via &"}
        \/ local.body[i][2] \in {"*=", "[]=", "(*=)", "copy*=", "+1*=", "pass"}
        \/ local.body[i][2] \in {"&*", "show"}
    BY <1>2
  <2>2. CASE local.body[i][2] \in {"=", "++", "(=)", "via &"}
    <3>1. Written(i) = {<<"value", local.body[i][1]>>} BY <2>2 DEF Written, Writes
    <3> QED BY <2>2, <3>1
  <2>3. CASE local.body[i][2] \in {"*=", "[]=", "(*=)", "copy*=", "+1*=", "pass"}
    <3>1. Written(i) = {<<"object", local.body[i][1]>>} BY <2>3 DEF Written, Writes
    <3> QED BY <2>3, <3>1
  <2>4. CASE local.body[i][2] \in {"&*", "show"}
    <3>1. Written(i) = {} BY <2>4 DEF Written, Writes
    <3> QED BY <2>4, <3>1
  <2> QED BY <2>1, <2>2, <2>3, <2>4
<1> HIDE DEF n
<1> QED BY <1>1, <1>4, <1>5 DEF Does

LEMMA FunctionsJudged == ASSUME LocalTypes, ChangedInv, ~IsLoop PROVE ParametersReported
<1> SUFFICES ASSUME position = Len(local.body) + 1 PROVE ParametersReported
  BY DEF ParametersReported
<1> DEFINE Values == {w \in {"v", "r", "p", "q"} : <<"value", w>> \in changed}
           Reads(w) == <<"object", w>> \notin changed /\ w \notin local.const
<1>1. ASSUME Values # {}
      PROVE FunctionParameterModification # {} \/ Does({"v", "r", "p", "q"}, {"via &"})
  <2>1. PICK w \in {"v", "r", "p", "q"} : Does({w}, {"=", "++", "(=)", "via &"}) BY <1>1, AllChanged
  <2> QED BY <2>1 DEF Does, FunctionParameterModification, Say
<1>2. ASSUME "v" \in Values PROVE ModifyingByValueParam # {} \/ Does({"v"}, {"(=)", "via &"})
  <2>1. Does({"v"}, {"=", "++", "(=)", "via &"}) BY <1>2, AllChanged
  <2> QED BY <2>1 DEF Does, ModifyingByValueParam, Say
<1>3. ASSUME NEW w \in {"p", "q"}, NonConstPointerParam(w) # {}
      PROVE Reads(w) \/ Does({w}, {"(*=)", "copy*=", "+1*="})
  <2>1. w \in Judged /\ ~ParameterModified(w) BY <1>3 DEF NonConstPointerParam, Say
  <2>2. w \notin local.const BY <2>1 DEF Judged
  <2>3. CASE <<"object", w>> \in changed
    <3>1. Does({w}, {"*=", "[]=", "(*=)", "copy*=", "+1*=", "pass"}) BY <2>3, AllChanged
    <3> QED BY <2>1, <3>1 DEF Does, ParameterModified
  <2> QED BY <2>2, <2>3
<1>4. ASSUME NEW w \in {"p", "q"}, Reads(w), NonConstPointerParam(w) = {}
      PROVE Does({w}, {"&*"}) \/ (w = "q" /\ "p" \notin local.const)
  <2>1. w \notin Judged \/ ParameterModified(w) BY <1>4 DEF NonConstPointerParam, Say
  <2>2. ASSUME w \notin Judged PROVE w = "q" /\ "p" \notin local.const BY <1>4, <2>2 DEF Judged
  <2>3. ASSUME ParameterModified(w) PROVE Does({w}, {"&*"})
    <3>1. ~Does({w}, {"*=", "[]=", "(*=)", "copy*=", "+1*=", "pass"}) BY <1>4, AllChanged
    <3> QED BY <2>3, <3>1 DEF Does, ParameterModified
  <2> QED BY <2>1, <2>2, <2>3
<1> QED BY <1>1, <1>2, <1>3, <1>4 DEF ParametersReported

LEMMA LoopsJudged ==
  ASSUME LocalTypes, CounterInv, CutInv, IsLoop PROVE CounterFollowsHead /\ CutsReported
<1>1. CounterFollowsHead
  <2> SUFFICES ASSUME AtHead, Quiet PROVE counter = rounds /\ (rounds <= Limit \/ local.cond = "second")
    BY DEF CounterFollowsHead, Quiet
  <2>1. position = 0 /\ Len(local.body) \in Nat BY BodyLength DEF AtHead
  <2>2. counter = rounds BY <2>1 DEF CounterInv
  <2>3. local.cond = "counter" \/ local.cond = "second" BY QuietLoop
  <2> QED BY <2>2, <2>3 DEF CounterInv
<1>2. CutsReported BY BodyLength DEF CutsReported, CutInv, LoopSaid, SuboptimalBreakContinue, Say
<1> QED BY <1>1, <1>2

-----------------------------------------------------------------------------
\* Whatever loop or function is looked at: if the checks of counters are silent the counter
\* of a loop follows its head, a jump that cuts a block short is reported, and so are the
\* parameters that a function changes, up to the gaps that ChangesJudged lists.
THEOREM ChangesRight == LocalSpec => []ChangesJudged
<1> DEFINE IInv == CounterInv /\ CutInv /\ ChangedInv
<1>1. LocalInit /\ LocalTypes => IInv
  <2> SUFFICES ASSUME LocalInit, LocalTypes PROVE IInv
    OBVIOUS
  <2>1. CounterInv
    <3>1. counter = 0 /\ rounds = 0 /\ Limit \in Nat BY LocalAssumption DEF LocalInit
    <3>2. IsLoop => position = 0 BY DEF LocalInit
    <3>3. Len(local.body) + 1 \in Nat BY BodyLength
    <3>4. position = 0 => position \notin 1 .. Len(local.body) + 1 BY <3>3
    <3>5. IsLoop => position = 0 /\ position \notin 1 .. Len(local.body) + 1 BY <3>2, <3>4
    <3>6. counter = rounds /\ counter <= Limit BY <3>1
    <3> QED BY <3>5, <3>6 DEF CounterInv, Quiet
  <2>2. CutInv BY DEF CutInv, LocalInit
  <2>3. ChangedInv
    <3>1. ~IsLoop => 1 .. position - 1 = {} BY DEF LocalInit
    <3> QED BY <3>1 DEF ChangedInv, LocalInit
  <2> QED BY <2>1, <2>2, <2>3
<1>2. LocalTypes /\ IInv /\ [LocalNext]_localVars => IInv' BY CounterStep, CutStep, ChangedStep
<1>3. LocalTypes /\ IInv => ChangesJudged BY LoopsJudged, FunctionsJudged DEF ChangesJudged
<1> QED BY <1>1, <1>2, <1>3, LocalTyped, PTL DEF LocalSpec

-----------------------------------------------------------------------------
\* Programs that throw: the calls that have not ended.

Texts == STRING \cup {""}
Places == Nat \ {0}
Callers == {"start", "call", "callback", "grow", "end", "unwind"}
Thrown == [type : Texts, at : Texts]
Destructors(p) == {d \in DOMAIN p : p[d].kind = "dtor"}
CallsOf(p) ==
  [f : DOMAIN p, at : Places, locals : Seq(Destructors(p)),
   by : Callers, leaving : BOOLEAN, pending : Thrown]
FramesOf(p) ==
  {t \in CallsOf(p) :
     /\ t.by = "unwind" => p[t.f].kind = "dtor"
     /\ t.by = "grow" => p[t.f].kind = "move"}
\* The outermost call is the one that nobody made.
Stacks(p) == {s \in Seq(FramesOf(p)) : s # <<>> => s[1].by = "start"}

ThrowTypes ==
  /\ program \in Programs
  /\ frames \in Stacks(program)
  /\ flying \in Thrown

LEMMA CalmThrown == Calm \in Thrown
BY DEF Calm, Thrown, Texts

LEMMA FrameKept ==
  ASSUME NEW p, NEW t \in FramesOf(p), NEW u \in CallsOf(p), u.f = t.f, u.by = t.by
  PROVE  u \in FramesOf(p) /\ u.by = t.by
BY DEF FramesOf

LEMMA FrameFields ==
  ASSUME NEW p, NEW t \in FramesOf(p)
  PROVE  /\ t \in CallsOf(p) /\ t.f \in DOMAIN p /\ t.at \in Places
         /\ t.locals \in Seq(Destructors(p)) /\ t.pending \in Thrown
         /\ t.by \in Callers
BY DEF FramesOf, CallsOf

\* A call after a statement: past it, with one more local, or on the way out.
LEMMA FrameMoved ==
  ASSUME NEW p, NEW t \in FramesOf(p)
  PROVE  /\ [t EXCEPT !.at = @ + 1] \in FramesOf(p)
         /\ [t EXCEPT !.at = @ + 1].by = t.by
<1> DEFINE u == [t EXCEPT !.at = @ + 1]
<1>1. t \in CallsOf(p) /\ t.at \in Places /\ t.locals \in Seq(Destructors(p)) BY FrameFields
<1>2. t.at + 1 \in Places BY <1>1 DEF Places
<1>4. u \in CallsOf(p) /\ u.f = t.f /\ u.by = t.by BY <1>1, <1>2 DEF CallsOf
<1> HIDE DEF u
<1>5. u \in FramesOf(p) /\ u.by = t.by BY <1>4, FrameKept
<1> QED BY <1>5 DEF u

LEMMA FrameDeclared ==
  ASSUME NEW p, NEW t \in FramesOf(p), NEW d \in Destructors(p)
  PROVE  /\ [t EXCEPT !.at = @ + 1, !.locals = Append(@, d)] \in FramesOf(p)
         /\ [t EXCEPT !.at = @ + 1, !.locals = Append(@, d)].by = t.by
<1> DEFINE u == [t EXCEPT !.at = @ + 1, !.locals = Append(@, d)]
<1>1. t \in CallsOf(p) /\ t.at \in Places /\ t.locals \in Seq(Destructors(p)) BY FrameFields
<1>2. t.at + 1 \in Places BY <1>1 DEF Places
<1>3. Append(t.locals, d) \in Seq(Destructors(p)) BY <1>1, AppendProperties
<1>4. u \in CallsOf(p) /\ u.f = t.f /\ u.by = t.by BY <1>1, <1>2, <1>3 DEF CallsOf
<1> HIDE DEF u
<1>5. u \in FramesOf(p) /\ u.by = t.by BY <1>4, FrameKept
<1> QED BY <1>5 DEF u

LEMMA FrameHandled ==
  ASSUME NEW p, NEW t \in FramesOf(p), NEW b \in BOOLEAN
  PROVE  /\ [t EXCEPT !.at = @ + 1, !.leaving = b] \in FramesOf(p)
         /\ [t EXCEPT !.at = @ + 1, !.leaving = b].by = t.by
<1> DEFINE u == [t EXCEPT !.at = @ + 1, !.leaving = b]
<1>1. t \in CallsOf(p) /\ t.at \in Places /\ t.locals \in Seq(Destructors(p)) BY FrameFields
<1>2. t.at + 1 \in Places BY <1>1 DEF Places
<1>4. u \in CallsOf(p) /\ u.f = t.f /\ u.by = t.by BY <1>1, <1>2 DEF CallsOf
<1> HIDE DEF u
<1>5. u \in FramesOf(p) /\ u.by = t.by BY <1>4, FrameKept
<1> QED BY <1>5 DEF u

LEMMA FrameLeft ==
  ASSUME NEW p, NEW t \in FramesOf(p)
  PROVE  /\ [t EXCEPT !.leaving = TRUE] \in FramesOf(p)
         /\ [t EXCEPT !.leaving = TRUE].by = t.by
<1> DEFINE u == [t EXCEPT !.leaving = TRUE]
<1>1. t \in CallsOf(p) /\ t.at \in Places /\ t.locals \in Seq(Destructors(p)) BY FrameFields
<1>2. t.at + 1 \in Places BY <1>1 DEF Places
<1>4. u \in CallsOf(p) /\ u.f = t.f /\ u.by = t.by BY <1>1, <1>2 DEF CallsOf
<1> HIDE DEF u
<1>5. u \in FramesOf(p) /\ u.by = t.by BY <1>4, FrameKept
<1> QED BY <1>5 DEF u

LEMMA TopKnown ==
  ASSUME ThrowTypes, frames # <<>>
  PROVE  /\ Top \in FramesOf(program)
         /\ Below \in Stacks(program)
         /\ Top.by # "start" => Below # <<>> /\ Below[Len(Below)] \in FramesOf(program)
<1> DEFINE S == FramesOf(program)
           n == Len(frames)
<1>1. frames \in Seq(S) /\ frames[1].by = "start" BY DEF ThrowTypes, Stacks
<1>2. n \in Nat \ {0} BY <1>1, EmptySeq
<1> HIDE DEF S, n
<1>3. \A i \in 1 .. n : frames[i] \in S BY <1>1, ElementOfSeq DEF n
<1>4. Top \in S BY <1>2, <1>3 DEF Top, n
<1>5. /\ Below \in Seq(S)
      /\ Len(Below) = (IF 1 <= n - 1 THEN n - 1 ELSE 0)
      /\ \A i \in 1 .. n - 1 : Below[i] = frames[i]
  <2>1. \A i \in 1 .. n - 1 : frames[i] \in S BY <1>2, <1>3
  <2>2. 1 \in Int /\ n - 1 \in Int BY <1>2
  <2>3. /\ Below \in Seq(S)
        /\ Len(Below) = (IF 1 <= n - 1 THEN (n - 1) - 1 + 1 ELSE 0)
        /\ \A i \in 1 .. (n - 1) - 1 + 1 : Below[i] = frames[1 + i - 1]
    BY <2>1, <2>2, SubSeqProperties DEF Below, n
  <2> QED BY <1>2, <2>3
<1>6. Len(Below) = n - 1 BY <1>2, <1>5
<1>7. Below # <<>> => Len(Below) \in Nat \ {0} BY <1>5, EmptySeq
<1>8. Below # <<>> => Below[1].by = "start"
  <2>1. Below # <<>> => 1 \in 1 .. n - 1 BY <1>2, <1>6, <1>7
  <2> QED BY <1>1, <1>5, <2>1
<1>9. Top.by # "start" => Below # <<>> /\ Below[Len(Below)] \in S
  <2> SUFFICES ASSUME Top.by # "start" PROVE Below # <<>> /\ Below[Len(Below)] \in S
    OBVIOUS
  <2>1. n # 1 BY <1>1 DEF Top, n
  <2>2. n - 1 \in 1 .. n - 1 BY <1>2, <2>1
  <2>3. Below # <<>>
    <3>1. Len(Below) # 0 BY <1>2, <1>6, <2>2
    <3> QED BY <3>1, EmptySeq
  <2>4. Len(Below) \in 1 .. Len(Below) BY <1>6, <2>2
  <2> QED BY <1>5, <2>3, <2>4, ElementOfSeq
<1> QED BY <1>4, <1>5, <1>8, <1>9 DEF Stacks, S

\* A call on top of others, and one in place of the last.
LEMMA Pushed ==
  ASSUME NEW p, NEW s \in Stacks(p), NEW t \in FramesOf(p), s = <<>> => t.by = "start"
  PROVE  Append(s, t) \in Stacks(p) /\ Append(s, t) # <<>>
<1> DEFINE S == FramesOf(p)
<1>1. s \in Seq(S) /\ (s # <<>> => s[1].by = "start") /\ t \in S BY DEF Stacks
<1> HIDE DEF S
<1>2. /\ Append(s, t) \in Seq(S)
      /\ Len(Append(s, t)) = Len(s) + 1
      /\ \A i \in 1 .. Len(s) : Append(s, t)[i] = s[i]
      /\ Append(s, t)[Len(s) + 1] = t
  BY <1>1, AppendProperties
<1>4. Len(s) \in Nat BY <1>1, LenProperties
<1>5. Append(s, t) # <<>>
  <2>1. Len(Append(s, t)) # 0 BY <1>2, <1>4
  <2> QED BY <2>1, EmptySeq
<1>3. Append(s, t)[1].by = "start"
  <2>1. CASE s = <<>>
    <3>1. Len(s) = 0 BY <2>1, EmptySeq
    <3> QED BY <1>2, <2>1, <3>1
  <2>2. CASE s # <<>>
    <3>1. Len(s) \in Nat \ {0} BY <1>1, <2>2, EmptySeq
    <3>2. 1 \in 1 .. Len(s) BY <3>1
    <3> QED BY <1>1, <1>2, <2>2, <3>2
  <2> QED BY <2>1, <2>2
<1> QED BY <1>2, <1>3, <1>5 DEF Stacks, S

LEMMA Replaced ==
  ASSUME ThrowTypes, frames # <<>>, NEW t \in FramesOf(program), t.by = Top.by
  PROVE  WithTop(t) \in Stacks(program) /\ WithTop(t) # <<>>
BY TopKnown, Pushed DEF WithTop

LEMMA ResumedKnown ==
  ASSUME ThrowTypes, frames # <<>>, NEW by PROVE Resumed(Below, by) \in Stacks(program)
<1> DEFINE S == FramesOf(program)
           n == Len(Below)
           b == [Below[n] EXCEPT !.at = @ + 1]
<1>1. Below \in Seq(S) /\ (Below # <<>> => Below[1].by = "start") BY TopKnown DEF Stacks
<1>2. CASE Below = <<>> \/ by \in {"end", "unwind"} BY <1>2, TopKnown DEF Resumed
<1>3. CASE ~(Below = <<>> \/ by \in {"end", "unwind"})
  <2> HIDE DEF S
  <2>0. n \in Nat \ {0} BY <1>1, <1>3, EmptySeq
  <2>1. n \in 1 .. Len(Below) BY <2>0
  <2>2. Below[n] \in S BY <1>1, <2>1, ElementOfSeq
  <2>3. b \in S /\ b.by = Below[n].by BY <2>2, FrameMoved DEF S
  <2>4. Resumed(Below, by) = [Below EXCEPT ![n] = b] BY <1>1, <1>3, <2>1 DEF Resumed
  <2> HIDE DEF b
  <2>5. /\ [Below EXCEPT ![n] = b] \in Seq(S)
        /\ Len([Below EXCEPT ![n] = b]) = n
        /\ \A j \in 1 .. n : [Below EXCEPT ![n] = b][j] = IF j = n THEN b ELSE Below[j]
    BY <1>1, <2>1, <2>3, ExceptSeq
  <2>6. 1 \in 1 .. n BY <2>0
  <2>7. [Below EXCEPT ![n] = b][1].by = "start"
    BY <1>1, <1>3, <2>3, <2>5, <2>6
  <2> QED BY <2>4, <2>5, <2>7 DEF Stacks, S
<1> QED BY <1>2, <1>3

LEMMA StatementKnown ==
  ASSUME ThrowTypes, frames # <<>>, ~AtEnd PROVE StatementFits(program, Now)
<1>1. Top \in FramesOf(program) BY TopKnown
<1>2. Top.f \in DOMAIN program /\ Top.at \in Nat \ {0} BY <1>1, FrameFields DEF Places
<1>3. /\ Len(program[Top.f].body) \in Nat
      /\ \A i \in 1 .. Len(program[Top.f].body) : StatementFits(program, program[Top.f].body[i])
  BY <1>2, ProgramsAssumption DEF ThrowTypes
<1>4. Top.at \in 1 .. Len(program[Top.f].body) BY <1>2, <1>3 DEF AtEnd, Statements
<1> QED BY <1>3, <1>4 DEF Now, Statements

LEMMA NewFrame ==
  ASSUME NEW p, NEW f \in DOMAIN p, NEW by \in Callers,
         by = "unwind" => p[f].kind = "dtor", by = "grow" => p[f].kind = "move"
  PROVE  Frame(f, by) \in FramesOf(p) /\ Frame(f, by).by = by
<1>1. <<>> \in Seq(Destructors(p)) BY EmptySeq
<1>2. 1 \in Places BY DEF Places
<1>3. Frame(f, by) \in CallsOf(p) BY <1>1, <1>2, CalmThrown DEF Frame, CallsOf
<1> QED BY <1>3 DEF Frame, FramesOf

LEMMA ThrowTyped == ThrowSpec => []ThrowTypes
<1>1. ASSUME ThrowInit PROVE ThrowTypes
  <2>1. program \in Programs /\ "main" \in DOMAIN program BY <1>1, ProgramsAssumption DEF ThrowInit
  <2>2. Frame("main", "start") \in FramesOf(program) /\ Frame("main", "start").by = "start"
    BY <2>1, NewFrame DEF Callers
  <2>3. frames = <<Frame("main", "start")>> BY <1>1 DEF ThrowInit
  <2>4. <<>> \in Stacks(program) BY EmptySeq DEF Stacks
  <2>5. Append(<<>>, Frame("main", "start")) \in Stacks(program) BY <2>2, <2>4, Pushed
  <2>6. Append(<<>>, Frame("main", "start")) = <<Frame("main", "start")>> OBVIOUS
  <2>7. flying \in Thrown BY <1>1, CalmThrown DEF ThrowInit
  <2> QED BY <2>1, <2>3, <2>5, <2>6, <2>7 DEF ThrowTypes
<1>2. ASSUME ThrowTypes, [ThrowNext]_throwVars PROVE ThrowTypes'
  <2>1. program' = program
    BY <1>2 DEF ThrowNext, Throw, PassThrow, Enter, Declare, Destroy, Return, Handle, NoHandler, Terminate,
                Propagate, Leave, ThrowDone, throwVars
  <2>2. program \in Programs /\ frames \in Stacks(program) /\ flying \in Thrown BY <1>2 DEF ThrowTypes
  <2> SUFFICES frames' \in Stacks(program) /\ flying' \in Thrown
    BY <2>1, <2>2 DEF ThrowTypes
  <2>3. frames # <<>> => Top \in FramesOf(program) BY <1>2, TopKnown
  <2>4. ASSUME frames # <<>>, ~AtEnd PROVE StatementFits(program, Now) BY <1>2, <2>4, StatementKnown
  <2>5. CASE Throw
    <3>1. StatementFits(program, Now) /\ Now.op = "throw" BY <2>4, <2>5 DEF Throw, Going, Running
    <3>2. Now.what \in STRING BY <3>1 DEF StatementFits
    <3>3. Top.f \in STRING
      <4>1. Top.f \in DOMAIN program BY <2>3, <2>5, FrameFields DEF Throw, Going, Running
      <4> QED BY <2>2, <4>1, ProgramsAssumption
    <3> QED BY <2>2, <2>5, <3>2, <3>3 DEF Throw, Thrown, Texts
  <2>6. CASE PassThrow
    <3> DEFINE t == [Top EXCEPT !.at = @ + 1]
    <3>1. t \in FramesOf(program) /\ t.by = Top.by BY <2>3, <2>6, FrameMoved DEF PassThrow, Going, Running
    <3>2. frames # <<>> /\ frames' = WithTop(t) BY <2>6 DEF PassThrow, Going, Running
    <3> HIDE DEF t
    <3> QED BY <1>2, <2>2, <2>6, <3>1, <3>2, Replaced DEF PassThrow
  <2>7. CASE Enter
    <3>1. frames # <<>> /\ ~AtEnd /\ Now.op \in {"call", "callback", "grow"}
      BY <2>7 DEF Enter, Going, Running
    <3>2. Now.what \in DOMAIN program /\ (Now.op = "grow" => program[Now.what].kind = "move")
      BY <2>4, <3>1 DEF StatementFits
    <3>3. Frame(Now.what, Now.op) \in FramesOf(program) BY <3>1, <3>2, NewFrame DEF Callers
    <3> QED BY <2>2, <2>7, <3>1, <3>3, Pushed DEF Enter
  <2>8. CASE Declare
    <3> DEFINE t == [Top EXCEPT !.at = @ + 1, !.locals = Append(@, Now.what)]
    <3>1. frames # <<>> /\ ~AtEnd /\ Now.op = "local" BY <2>8 DEF Declare, Going, Running
    <3>2. Now.what \in Destructors(program) BY <2>4, <3>1 DEF StatementFits, Destructors
    <3>3. Top \in FramesOf(program) BY <2>3, <3>1
    <3>5. t \in FramesOf(program) /\ t.by = Top.by BY <3>2, <3>3, FrameDeclared
    <3>6. frames' = WithTop(t) BY <2>8 DEF Declare
    <3> HIDE DEF t
    <3> QED BY <1>2, <2>2, <2>8, <3>1, <3>5, <3>6, Replaced DEF Declare
  <2>9. CASE Destroy
    <3> DEFINE n == Len(Top.locals)
               cleared == [Top EXCEPT !.locals = SubSeq(@, 1, n - 1), !.pending = flying]
               by == IF flying = Calm THEN "end" ELSE "unwind"
    <3>1. frames # <<>> /\ Top.locals # <<>> BY <2>9 DEF Destroy, Running
    <3>2. Top.locals \in Seq(Destructors(program)) BY <2>3, <3>1, FrameFields
    <3>3. n \in Nat \ {0} /\ \A i \in 1 .. n : Top.locals[i] \in Destructors(program)
      BY <3>1, <3>2, EmptySeq, ElementOfSeq
    <3>4. SubSeq(Top.locals, 1, n - 1) \in Seq(Destructors(program))
      <4>1. \A i \in 1 .. n - 1 : Top.locals[i] \in Destructors(program) BY <3>3
      <4>2. 1 \in Int /\ n - 1 \in Int BY <3>3
      <4> HIDE DEF n
      <4> QED BY <4>1, <4>2, SubSeqProperties
    <3>5. cleared \in FramesOf(program) /\ cleared.by = Top.by
      <4>1. Top \in FramesOf(program) /\ Top \in CallsOf(program) BY <2>3, <3>1, FrameFields
      <4> DEFINE rest == SubSeq(Top.locals, 1, n - 1)
      <4>2. rest \in Seq(Destructors(program)) /\ flying \in Thrown BY <2>2, <3>4
      <4> HIDE DEF rest
      <4>3. /\ [Top EXCEPT !.locals = rest, !.pending = flying] \in CallsOf(program)
            /\ [Top EXCEPT !.locals = rest, !.pending = flying].f = Top.f
            /\ [Top EXCEPT !.locals = rest, !.pending = flying].by = Top.by
        BY <4>1, <4>2 DEF CallsOf
      <4>4. cleared = [Top EXCEPT !.locals = rest, !.pending = flying] BY DEF rest
      <4>5. cleared \in CallsOf(program) /\ cleared.f = Top.f /\ cleared.by = Top.by
        BY <4>3, <4>4
      <4> HIDE DEF cleared
      <4> QED BY <4>1, <4>5, FrameKept
    <3>6. Top.locals[n] \in Destructors(program) BY <3>3
    <3>7. Frame(Top.locals[n], by) \in FramesOf(program) BY <3>6, NewFrame DEF Destructors, Callers
    <3>8. frames' = Append(WithTop(cleared), Frame(Top.locals[n], by)) /\ flying' = Calm BY <2>9 DEF Destroy
    <3> HIDE DEF n, cleared, by
    <3>9. WithTop(cleared) \in Stacks(program) /\ WithTop(cleared) # <<>> BY <1>2, <2>3, <3>1, <3>5, Replaced
    <3>10. frames' \in Stacks(program) BY <3>7, <3>8, <3>9, Pushed
    <3> QED BY <3>8, <3>10, CalmThrown
  <2>10. CASE Return
    <3>1. frames # <<>> /\ frames' = Resumed(Below, Top.by) BY <2>10 DEF Return, Going, Running
    <3>2. frames' \in Stacks(program) BY <1>2, <3>1, ResumedKnown
    <3>3. flying' \in Thrown
      <4>1. CASE Top.by = "unwind"
        <5>1. Below[Len(Below)] \in FramesOf(program) BY <1>2, <3>1, <4>1, TopKnown
        <5>2. flying' = Below[Len(Below)].pending BY <2>10, <4>1 DEF Return
        <5> QED BY <5>1, <5>2, FrameFields
      <4>2. CASE Top.by # "unwind" BY <2>10, <4>2, CalmThrown DEF Return
      <4> QED BY <4>1, <4>2
    <3> QED BY <3>2, <3>3
  <2>11. CASE Handle
    <3> DEFINE t == [Top EXCEPT !.at = @ + 1, !.leaving = Now.rethrow]
    <3>1. frames # <<>> /\ ~AtEnd BY <2>11 DEF Handle, Running
    <3>2. Now.rethrow \in BOOLEAN BY <2>4, <3>1 DEF StatementFits
    <3>3. t \in FramesOf(program) /\ t.by = Top.by
      BY <2>3, <3>1, <3>2, FrameHandled
    <3>4. frames' = WithTop(t) BY <2>11 DEF Handle
    <3>5. flying' \in {flying, Calm} BY <2>11 DEF Handle
    <3>6. flying' \in Thrown BY <2>2, <3>5, CalmThrown
    <3> HIDE DEF t
    <3> QED BY <1>2, <2>3, <3>1, <3>3, <3>4, <3>6, Replaced
  <2>12. CASE NoHandler
    <3> DEFINE t == [Top EXCEPT !.leaving = TRUE]
    <3>1. frames # <<>> BY <2>12 DEF NoHandler, Running
    <3>2. t \in FramesOf(program) /\ t.by = Top.by
      BY <2>3, <3>1, FrameLeft
    <3>3. frames' = WithTop(t) /\ flying' = flying BY <2>12 DEF NoHandler
    <3> HIDE DEF t
    <3> QED BY <1>2, <2>2, <2>3, <3>1, <3>2, <3>3, Replaced
  <2>13. CASE Terminate \/ Leave
    <3>1. frames' = <<>> /\ flying' = flying BY <2>13 DEF Terminate, Leave
    <3> QED BY <2>2, <3>1, EmptySeq DEF Stacks
  <2>14. CASE Propagate
    <3>1. frames # <<>> /\ frames' = Below /\ flying' = flying BY <2>14 DEF Propagate, LeavesFunction, Running
    <3> QED BY <1>2, <2>2, <3>1, TopKnown
  <2>15. CASE ThrowDone \/ UNCHANGED throwVars BY <2>2, <2>15 DEF ThrowDone, throwVars
  <2> QED BY <1>2, <2>5, <2>6, <2>7, <2>8, <2>9, <2>10, <2>11, <2>12, <2>13, <2>14, <2>15 DEF ThrowNext
<1> QED BY <1>1, <1>2, PTL DEF ThrowSpec

-----------------------------------------------------------------------------
\* What became of an exception, and of which function: the specification of one that ends
\* the program does not let it out, an unwinding that meets a second exception runs a
\* destructor, a container loses what it moves in a move constructor.

FateInv ==
  /\ fate.kind \in {"none", "missed", "noexcept", "unexpected", "crossed", "lost", "two", "uncaught"}
  /\ fate.kind # "none" => fate.where \in DOMAIN program
  /\ fate.kind = "missed" => fate.thrown.type # "Std"
  /\ fate.kind = "noexcept" => IsNoThrow(fate.where)
  /\ fate.kind = "unexpected" => program[fate.where].spec = "throw(int)"
  /\ fate.kind \in {"crossed", "lost", "two"} => Escapes(fate.where, fate.thrown.type)
  /\ fate.kind = "lost" => program[fate.where].kind = "move"
  /\ fate.kind = "two" => program[fate.where].kind = "dtor"

\* An ending that is right for the innermost call and the exception on its way is right.
LEMMA Ended ==
  ASSUME ThrowTypes, FateInv, frames # <<>>, program' = program,
         NEW kind \in {"missed", "noexcept", "unexpected", "crossed", "lost", "two", "uncaught"},
         EndsAs(kind),
         kind = "missed" => flying.type # "Std",
         kind = "noexcept" => IsNoThrow(Top.f),
         kind = "unexpected" => program[Top.f].spec = "throw(int)",
         kind \in {"crossed", "lost", "two"} => Escapes(Top.f, flying.type),
         kind = "lost" => program[Top.f].kind = "move",
         kind = "two" => program[Top.f].kind = "dtor"
  PROVE  FateInv'
<1>1. Top.f \in DOMAIN program BY TopKnown, FrameFields
<1>2. CASE fate.kind = "none"
  <2>1. fate'.kind = kind /\ fate'.where = Top.f /\ fate'.thrown = flying BY <1>2 DEF EndsAs
  <2> QED BY <1>1, <2>1 DEF FateInv, IsNoThrow, Escapes, SpecOf
<1>3. CASE fate.kind # "none"
  <2>1. fate' = fate BY <1>3 DEF EndsAs
  <2> QED BY <2>1 DEF FateInv, IsNoThrow, Escapes, SpecOf
<1> QED BY <1>2, <1>3

LEMMA SpecKnown ==
  ASSUME ThrowTypes, frames # <<>>
  PROVE  SpecOf(Top.f) \in {"none", "noexcept", "noexcept(false)", "throw()", "throw(int)"}
<1>1. Top.f \in DOMAIN program BY TopKnown, FrameFields
<1>2. program[Top.f].spec \in {"none", "noexcept", "noexcept(false)", "throw()", "throw(int)"}
  BY <1>1, ProgramsAssumption DEF ThrowTypes
<1> QED BY <1>2 DEF SpecOf

LEMMA FateStep == ASSUME ThrowTypes, FateInv, [ThrowNext]_throwVars PROVE FateInv'
<1>1. program' = program
  BY DEF ThrowNext, Throw, PassThrow, Enter, Declare, Destroy, Return, Handle, NoHandler, Terminate,
         Propagate, Leave, ThrowDone, throwVars
<1>2. ASSUME fate' = fate PROVE FateInv'
  BY <1>1, <1>2 DEF FateInv, IsNoThrow, Escapes, SpecOf
<1>3. CASE NoHandler
  <2>1. CASE ~AtEnd /\ "const std::exception &" \in Now.handlers
    <3>1. frames # <<>> /\ EndsAs("missed") BY <1>3, <2>1 DEF NoHandler, Running
    <3>2. ~Catches("const std::exception &", flying.type) BY <1>3, <2>1 DEF NoHandler
    <3>3. flying.type # "Std" BY <3>2 DEF Catches
    <3> QED BY <1>1, <3>1, <3>3, Ended
  <2>2. CASE ~(~AtEnd /\ "const std::exception &" \in Now.handlers)
    <3>1. fate' = fate BY <1>3, <2>2 DEF NoHandler
    <3> QED BY <1>2, <3>1
  <2> QED BY <2>1, <2>2
<1>4. CASE Terminate
  <2>1. frames # <<>> /\ ~Escapes(Top.f, flying.type) BY <1>4 DEF Terminate, LeavesFunction, Running
  <2>2. SpecOf(Top.f) \in {"none", "noexcept", "noexcept(false)", "throw()", "throw(int)"} BY <2>1, SpecKnown
  <2>3. CASE SpecOf(Top.f) = "throw(int)"
    <3>1. EndsAs("unexpected") BY <1>4, <2>3 DEF Terminate
    <3>2. program[Top.f].spec = "throw(int)" BY <2>3 DEF SpecOf
    <3> QED BY <1>1, <2>1, <3>1, <3>2, Ended
  <2>4. CASE SpecOf(Top.f) # "throw(int)"
    <3>1. EndsAs("noexcept") BY <1>4, <2>4 DEF Terminate
    <3>2. IsNoThrow(Top.f) BY <2>1, <2>2, <2>4 DEF Escapes, IsNoThrow
    <3> QED BY <1>1, <2>1, <3>1, <3>2, Ended
  <2> QED BY <2>3, <2>4
<1>5. CASE Leave
  <2>1. /\ frames # <<>> /\ Escapes(Top.f, flying.type)
        /\ Top.by \in {"callback", "grow", "unwind", "start"}
    BY <1>5 DEF Leave, LeavesFunction, Running
  <2>2. Top \in FramesOf(program) BY <2>1, TopKnown
  <2>3. CASE Top.by = "callback"
    <3>1. EndsAs("crossed") BY <1>5, <2>3 DEF Leave
    <3> QED BY <1>1, <2>1, <3>1, Ended
  <2>4. CASE Top.by = "grow"
    <3>1. EndsAs("lost") BY <1>5, <2>4 DEF Leave
    <3>2. program[Top.f].kind = "move" BY <2>2, <2>4 DEF FramesOf
    <3> QED BY <1>1, <2>1, <3>1, <3>2, Ended
  <2>5. CASE Top.by = "unwind"
    <3>1. EndsAs("two") BY <1>5, <2>5 DEF Leave
    <3>2. program[Top.f].kind = "dtor" BY <2>2, <2>5 DEF FramesOf
    <3> QED BY <1>1, <2>1, <3>1, <3>2, Ended
  <2>6. CASE Top.by = "start"
    <3>1. EndsAs("uncaught") BY <1>5, <2>6 DEF Leave
    <3> QED BY <1>1, <2>1, <3>1, Ended
  <2> QED BY <2>1, <2>3, <2>4, <2>5, <2>6
<1>6. CASE Throw \/ PassThrow \/ Enter \/ Declare \/ Destroy \/ Return \/ Handle \/ Propagate
           \/ ThrowDone \/ UNCHANGED throwVars
  <2>1. fate' = fate
    BY <1>6 DEF Throw, PassThrow, Enter, Declare, Destroy, Return, Handle, Propagate, ThrowDone, throwVars
  <2> QED BY <1>2, <2>1
<1> QED BY <1>3, <1>4, <1>5, <1>6 DEF ThrowNext

-----------------------------------------------------------------------------
\* The reports that the fate of an exception calls for.

LEMMA FateJudged == ASSUME ThrowTypes, FateInv PROVE ExceptionsJudged
<1> DEFINE t == fate.thrown
           said == SaidOfThrow(t.at, t.type) \cup SaidOfFunction(fate.where)
           here == fate.where \in Ancestors(t.at)
<1>1. ASSUME program[t.at].system
      PROVE {"ThrowInNoexcept", "ExceptionBaseClass"} \cap SaidOfThrow(t.at, t.type) = {}
  BY <1>1 DEF SaidOfThrow, ThrowInNoexcept, ExceptionBaseClass, AvoidException, ExceptionAcrossBoundary,
              ThrowInDestructor, Say
<1>2. ASSUME ~program[t.at].system, fate.kind = "missed"
      PROVE "ExceptionBaseClass" \in said \/ t.type = "Std*"
  BY <1>2 DEF FateInv, SaidOfThrow, ExceptionBaseClass, IsDerivedFromStdException, Say
<1>3. ASSUME ~program[t.at].system, fate.kind = "noexcept", here PROVE "ThrowInNoexcept" \in said
  BY <1>3 DEF FateInv, SaidOfThrow, ThrowInNoexcept, Say
<1>4. ASSUME fate.kind = "unexpected" PROVE "DynamicExceptionSpec" \in said
  BY <1>4 DEF FateInv, SaidOfFunction, DynamicExceptionSpec, Say
<1>5. ASSUME fate.kind = "two", ~program[fate.where].system
      PROVE "ThrowingDestructor" \in SaidOfFunction(fate.where)
  <2>1. program[fate.where].kind = "dtor" /\ Escapes(fate.where, t.type) BY <1>5 DEF FateInv
  <2>2. program[fate.where].spec # "none" /\ ~IsNoThrow(fate.where)
    BY <2>1 DEF Escapes, IsNoThrow, SpecOf
  <2> QED BY <1>5, <2>1, <2>2 DEF SaidOfFunction, ThrowingDestructor, Say
<1>6. ASSUME fate.kind = "lost", ~program[fate.where].system PROVE "NoexceptMove" \in said
  <2>1. program[fate.where].kind = "move" /\ Escapes(fate.where, t.type) BY <1>6 DEF FateInv
  <2>2. program[fate.where].spec # "noexcept" BY <2>1 DEF Escapes, SpecOf
  <2> QED BY <1>6, <2>1, <2>2 DEF SaidOfFunction, NoexceptMove, Say
<1>7. ASSUME ~program[t.at].system, fate.kind = "crossed", fate.where = t.at, program[t.at].kind = "function",
             program[t.at].linkage \notin {"static", "inline"},
             program[t.at].spec \notin {"noexcept(false)", "throw(int)"}
      PROVE "ExceptionAcrossBoundary" \in said
  <2>1. Escapes(t.at, t.type) /\ t.at \in DOMAIN program BY <1>7 DEF FateInv
  <2>2. program[t.at].spec = "none" /\ ~IsNoThrow(t.at) BY <1>7, <2>1 DEF Escapes, IsNoThrow, SpecOf
  <2>3. program[t.at].linkage \in {"C", "exported", "external"}
    BY <1>7, <2>1, ProgramsAssumption DEF ThrowTypes
  <2> QED BY <1>7, <2>2, <2>3 DEF SaidOfThrow, ExceptionAcrossBoundary, Say
<1> HIDE DEF said, here
<1> QED BY <1>1, <1>2, <1>3, <1>4, <1>5, <1>6, <1>7 DEF ExceptionsJudged, said, here

\* Whatever program runs: an exception that ends it, passes a handler of std::exception or
\* loses what a container moves has been reported, on its throw or on the function that it
\* could not leave, up to the gaps that ExceptionsJudged lists.
THEOREM ExceptionsRight == ThrowSpec => []ExceptionsJudged
<1>1. ThrowInit => FateInv
  <2>1. NoFate.kind = "none" BY Zenon DEF NoFate
  <2> QED BY <2>1 DEF ThrowInit, FateInv
<1>2. ThrowTypes /\ FateInv /\ [ThrowNext]_throwVars => FateInv' BY FateStep
<1>3. ThrowTypes /\ FateInv => ExceptionsJudged BY FateJudged
<1> QED BY <1>1, <1>2, <1>3, ThrowTyped, PTL DEF ThrowSpec

-----------------------------------------------------------------------------
\* Objects of the library: what is known of each kind of object before something goes
\* wrong with it.

FileStates == [state : {"open", "null", "closed"}, said : SUBSET {"FopenCall", "FcloseCall"}, byName : BOOLEAN]
FilesInv ==
  /\ files \in Seq(FileStates)
  /\ \A i \in 1 .. Len(files) : files[i].state = "closed" => files[i].said # {} \/ ~files[i].byName
  /\ fileVars \in [FileVars -> [file : Int, said : SUBSET {"UninitFile"}]]
  /\ \A v \in FileVars :
       /\ fileVars[v].file <= Len(files)
       /\ fileVars[v].file = NoValue => fileVars[v].said # {}

\* A stream that the statement before left open was reported, or was read by its name.
StreamsInv ==
  /\ unchecked \in [Streams -> [open : BOOLEAN, said : SUBSET {"StreamOp", "ChainedOp", "Getline"}, near : BOOLEAN]]
  /\ \A s \in Streams :
       /\ unchecked[s].open /\ unchecked[s].near => unchecked[s].said # {} \/ FollowsRead(s)
       /\ FollowsRead(s) => unchecked[s].open

StringsInv ==
  /\ strings \in [StringVars -> [library : BOOLEAN, cast : BOOLEAN, said : SUBSET {"LocaleConstPointer"}]]
  /\ \A v \in StringVars :
       strings[v].library => strings[v].said # {} \/ strings[v].cast \/ v \in ConstStrings

KeyInv ==
  /\ key \in [destructor : {"none", "0", "NULL", "function"}, type : {"tss_t", "typedef"},
              value : {"none", "local array", "local address", "pointer", "static"},
              said : SUBSET {"TssCreate", "TssSet", "TssKey"}]
  /\ key.value \in {"local array", "pointer"} => OfValue # {}

Handlers == [body : {"returns", "exit", "longjmp", "throw", "throw_caught", "calls_exit", "calls_longjmp"},
             said : SUBSET {"AtExitHandlerReturn", "Exit"}, found : BOOLEAN]
HandlersInv ==
  /\ handlers \in Seq(Handlers)
  /\ \A i \in 1 .. Len(handlers) :
       \/ handlers[i].body \in {"returns", "throw_caught", "calls_longjmp"}
       \/ handlers[i].said # {} \/ ~handlers[i].found

MishapInv == mishap # NoMishap => mishap.said # {} \/ mishap.unseen

WaitsInv == waiting \in Loops \cup {"no wait"}

LibraryInv == FilesInv /\ StreamsInv /\ StringsInv /\ KeyInv /\ WaitsInv /\ HandlersInv /\ MishapInv

LEMMA MishapRight ==
  ASSUME MishapInv, NEW kind, NEW said, NEW unseen, Mishap(kind, said, unseen),
         kind # "none" => said # {} \/ unseen
  PROVE  MishapInv'
<1>1. CASE mishap = NoMishap /\ kind # "none"
  <2>1. mishap' = [kind |-> kind, said |-> said, unseen |-> unseen] BY <1>1 DEF Mishap
  <2> QED BY <1>1, <2>1 DEF MishapInv
<1>2. CASE ~(mishap = NoMishap /\ kind # "none")
  <2>1. mishap' = mishap BY <1>2 DEF Mishap
  <2> QED BY <2>1 DEF MishapInv, NoMishap
<1> QED BY <1>1, <1>2

LEMMA SameMishap == ASSUME MishapInv, mishap' = mishap PROVE MishapInv'
BY DEF MishapInv, NoMishap

\* Files.

LEMMA FileKnown ==
  ASSUME FilesInv, NEW v \in FileVars
  PROVE  /\ fileVars[v].file \in Int
         /\ fileVars[v].file > 0 =>
              /\ fileVars[v].file \in 1 .. Len(files)
              /\ FileAt(v) = files[fileVars[v].file] /\ FileAt(v) \in FileStates
         /\ ~(fileVars[v].file > 0) => FileAt(v) = NoneOpen
<1>1. fileVars[v].file \in Int /\ fileVars[v].file <= Len(files) /\ Len(files) \in Nat
  BY LenProperties DEF FilesInv
<1>2. fileVars[v].file > 0 => fileVars[v].file \in 1 .. Len(files) BY <1>1
<1>3. fileVars[v].file > 0 => files[fileVars[v].file] \in FileStates BY <1>2, ElementOfSeq DEF FilesInv
<1> QED BY <1>1, <1>2, <1>3 DEF FileAt

LEMMA FileMishapRight ==
  ASSUME FilesInv, MishapInv, NEW v \in FileVars, FileMishap(v) PROVE MishapInv'
<1>1. ASSUME FileError(v) # "none"
      PROVE fileVars[v].said \cup FileAt(v).said # {} \/ (FileError(v) = "null file" \/ ~FileAt(v).byName)
  <2>1. CASE fileVars[v].file = NoValue BY <2>1 DEF FilesInv
  <2>2. CASE fileVars[v].file # NoValue /\ FileAt(v).state = "closed"
    <3>1. fileVars[v].file > 0 BY <2>2, FileKnown DEF NoneOpen
    <3> QED BY <2>2, <3>1, FileKnown DEF FilesInv
  <2>3. CASE fileVars[v].file # NoValue /\ FileAt(v).state # "closed"
    <3>1. FileError(v) = "null file" BY <1>1, <2>3 DEF FileError
    <3> QED BY <3>1
  <2> QED BY <2>1, <2>2, <2>3
<1> QED BY <1>1, MishapRight DEF FileMishap

LEMMA FilesStep ==
  ASSUME FilesInv, MishapInv,
         \/ \E v, w \in FileVars, how \in {"none", "null", "initializer", "assigned", "copied"} : SetFile(v, how, w)
         \/ \E v \in FileVars : UseFile(v) \/ \E how \in {"name", "element"} : CloseFile(v, how)
         \/ \E how \in {"argument", "statement", "condition", "ternary"} : OpenUnkept(how)
  PROVE  FilesInv' /\ MishapInv' /\ UNCHANGED <<above, unchecked, strings, key, waiting, handlers>>
<1>1. /\ files \in Seq(FileStates) /\ Len(files) \in Nat
      /\ fileVars \in [FileVars -> [file : Int, said : SUBSET {"UninitFile"}]]
  BY LenProperties DEF FilesInv
<1>2. ASSUME NEW v \in FileVars, NEW w \in FileVars,
             NEW how \in {"none", "null", "initializer", "assigned", "copied"}, SetFile(v, how, w)
      PROVE FilesInv' /\ MishapInv' /\ UNCHANGED <<above, unchecked, strings, key, waiting, handlers>>
  <2>1. mishap' = mishap /\ UNCHANGED <<above, unchecked, strings, key, waiting, handlers>>
    BY <1>2 DEF SetFile, FilesOnly
  <2>2. /\ files' \in Seq(FileStates) /\ Len(files') \in Nat /\ Len(files) <= Len(files')
        /\ \A i \in 1 .. Len(files') :
             files'[i].state = "closed" => files'[i].said # {} \/ ~files'[i].byName
    <3>1. CASE how \in {"none", "null", "copied"}
      <4>1. files' = files BY <1>2, <3>1 DEF SetFile
      <4> QED BY <1>1, <4>1 DEF FilesInv
    <3>2. CASE how \in {"initializer", "assigned"}
      <4>1. PICK state \in {"open", "null"} :
              files' = Append(files, [state |-> state, said |-> FopenCall(how), byName |-> TRUE])
        BY <1>2, <3>2 DEF SetFile
      <4> DEFINE f == [state |-> state, said |-> FopenCall(how), byName |-> TRUE]
      <4>2. f \in FileStates /\ f.state # "closed" BY DEF FileStates, FopenCall, Say
      <4> HIDE DEF f
      <4>3. /\ Append(files, f) \in Seq(FileStates) /\ Len(Append(files, f)) = Len(files) + 1
            /\ \A i \in 1 .. Len(files) : Append(files, f)[i] = files[i]
            /\ Append(files, f)[Len(files) + 1] = f
        BY <1>1, <4>2, AppendProperties
      <4>4. files' = Append(files, f) BY <4>1 DEF f
      <4>5. \A i \in 1 .. Len(files) + 1 : i \in 1 .. Len(files) \/ i = Len(files) + 1 BY <1>1
      <4> QED BY <1>1, <4>2, <4>3, <4>4, <4>5 DEF FilesInv
    <3> QED BY <3>1, <3>2
  <2>3. PICK r \in [file : Int, said : SUBSET {"UninitFile"}] :
          /\ fileVars' = [fileVars EXCEPT ![v] = r]
          /\ r.file <= Len(files') /\ (r.file = NoValue => r.said # {})
    <3>1. CASE how = "none"
      <4> DEFINE r == [file |-> NoValue, said |-> UninitFile(how)]
      <4>1. r \in [file : Int, said : SUBSET {"UninitFile"}] /\ r.file <= Len(files') /\ r.said # {}
        BY <2>2, <3>1 DEF UninitFile, Say, NoValue
      <4>2. fileVars' = [fileVars EXCEPT ![v] = r] BY <1>2, <3>1 DEF SetFile
      <4> QED BY <4>1, <4>2
    <3>2. CASE how = "null"
      <4> DEFINE r == [file |-> 0, said |-> {}]
      <4>1. r \in [file : Int, said : SUBSET {"UninitFile"}] /\ r.file <= Len(files') /\ r.file # NoValue
        BY <2>2 DEF NoValue
      <4>2. fileVars' = [fileVars EXCEPT ![v] = r] BY <1>2, <3>2 DEF SetFile
      <4> QED BY <4>1, <4>2
    <3>3. CASE how = "copied"
      <4>1. fileVars' = [fileVars EXCEPT ![v] = fileVars[w]] BY <1>2, <3>3 DEF SetFile
      <4>2. fileVars[w].file <= Len(files') BY <1>1, <2>2, FileKnown DEF FilesInv
      <4> QED BY <1>1, <4>1, <4>2 DEF FilesInv
    <3>4. CASE how \in {"initializer", "assigned"}
      <4> DEFINE r == [file |-> Len(files'), said |-> {}]
      <4>1. r \in [file : Int, said : SUBSET {"UninitFile"}] /\ r.file <= Len(files') /\ r.file # NoValue
        BY <2>2 DEF NoValue
      <4>2. fileVars' = [fileVars EXCEPT ![v] = r] BY <1>2, <3>4 DEF SetFile
      <4> QED BY <4>1, <4>2
    <3> QED BY <3>1, <3>2, <3>3, <3>4
  <2>4. fileVars' \in [FileVars -> [file : Int, said : SUBSET {"UninitFile"}]] BY <1>1, <2>3
  <2>5. ASSUME NEW u \in FileVars
        PROVE fileVars'[u].file <= Len(files') /\ (fileVars'[u].file = NoValue => fileVars'[u].said # {})
    <3>1. CASE u = v BY <1>1, <2>3, <3>1
    <3>2. CASE u # v
      <4>1. fileVars'[u] = fileVars[u] BY <1>1, <2>3, <3>2
      <4>2. fileVars[u].file \in Int /\ fileVars[u].file <= Len(files) BY FileKnown DEF FilesInv
      <4> QED BY <1>1, <2>2, <4>1, <4>2 DEF FilesInv
    <3> QED BY <3>1, <3>2
  <2> QED BY <2>1, <2>2, <2>4, <2>5, SameMishap DEF FilesInv
<1>3. ASSUME NEW v \in FileVars, UseFile(v)
      PROVE FilesInv' /\ MishapInv' /\ UNCHANGED <<above, unchecked, strings, key, waiting, handlers>>
  <2>1. UNCHANGED <<files, fileVars>> BY <1>3 DEF UseFile
  <2> QED BY <1>3, <2>1, FileMishapRight DEF UseFile, FilesOnly, FilesInv
<1>4. ASSUME NEW v \in FileVars, NEW how \in {"name", "element"}, CloseFile(v, how)
      PROVE FilesInv' /\ MishapInv' /\ UNCHANGED <<above, unchecked, strings, key, waiting, handlers>>
  <2>1. MishapInv' /\ fileVars' = fileVars /\ UNCHANGED <<above, unchecked, strings, key, waiting, handlers>>
    BY <1>4, FileMishapRight DEF CloseFile, FilesOnly
  <2>2. CASE FileAt(v).state = "open"
    <3> DEFINE n == fileVars[v].file
               f == [state |-> "closed", said |-> files[n].said \cup FcloseCall(how), byName |-> how = "name"]
    <3>1. n > 0 BY <2>2, FileKnown DEF NoneOpen
    <3>2. n \in 1 .. Len(files) /\ files[n] \in FileStates BY <3>1, FileKnown
    <3>3. f \in FileStates /\ (f.said # {} \/ ~f.byName) BY <3>2 DEF FileStates, FcloseCall, Say
    <3>4. files' = [files EXCEPT ![n] = f] BY <1>4, <2>2 DEF CloseFile
    <3> HIDE DEF n, f
    <3>5. /\ files' \in Seq(FileStates) /\ Len(files') = Len(files)
          /\ \A i \in 1 .. Len(files) : files'[i] = IF i = n THEN f ELSE files[i]
      BY <1>1, <3>2, <3>3, <3>4, ExceptSeq
    <3> QED BY <2>1, <3>3, <3>5 DEF FilesInv
  <2>3. CASE FileAt(v).state # "open"
    <3>1. files' = files BY <1>4, <2>3 DEF CloseFile
    <3> QED BY <2>1, <3>1 DEF FilesInv
  <2> QED BY <2>2, <2>3
<1>5. ASSUME NEW how \in {"argument", "statement", "condition", "ternary"}, OpenUnkept(how)
      PROVE FilesInv' /\ MishapInv' /\ UNCHANGED <<above, unchecked, strings, key, waiting, handlers>>
  <2>1. UNCHANGED <<files, fileVars>> /\ UNCHANGED <<above, unchecked, strings, key, waiting, handlers>>
    BY <1>5 DEF OpenUnkept, FilesOnly
  <2>2. PICK state \in {"open", "null"} :
          Mishap(IF how = "argument" /\ state = "null" THEN "null file" ELSE "none", FopenCall(how), FALSE)
    BY <1>5 DEF OpenUnkept
  <2>3. how = "argument" => FopenCall(how) # {} BY DEF FopenCall, Say
  <2>4. MishapInv'
    <3> DEFINE kind == IF how = "argument" /\ state = "null" THEN "null file" ELSE "none"
    <3>1. kind # "none" => FopenCall(how) # {} \/ FALSE BY <2>3
    <3>2. Mishap(kind, FopenCall(how), FALSE) BY <2>2
    <3> HIDE DEF kind
    <3> QED BY <3>1, <3>2, MishapRight
  <2> QED BY <2>1, <2>4 DEF FilesInv
<1> QED BY <1>2, <1>3, <1>4, <1>5

\* Streams.

Streamed == [open : BOOLEAN, said : SUBSET {"StreamOp", "ChainedOp", "Getline"}, near : BOOLEAN]

LEMMA UnnoticedRight ==
  ASSUME StreamsInv, MishapInv, NEW s \in Streams, NEW said \in SUBSET {"StreamOp", "ChainedOp", "Getline"},
         NEW unseen, Unnoticed(s, said, unseen),
         said # {} \/ unseen \/ ~FollowsRead(s)
  PROVE  MishapInv'
<1> DEFINE kind == IF unchecked[s].open THEN "unchecked stream" ELSE "none"
<1>1. ASSUME kind # "none"
      PROVE said \cup unchecked[s].said # {} \/ (unseen \/ ~unchecked[s].near)
  <2>1. unchecked[s].open BY <1>1
  <2>2. CASE unchecked[s].near /\ ~FollowsRead(s)
    <3>1. unchecked[s].said # {} BY <2>1, <2>2 DEF StreamsInv
    <3> QED BY <3>1
  <2>3. CASE ~unchecked[s].near BY <2>3
  <2>4. CASE FollowsRead(s) BY <2>4
  <2> QED BY <2>2, <2>3, <2>4
<1>2. Mishap(kind, said \cup unchecked[s].said, unseen \/ ~unchecked[s].near) BY DEF Unnoticed
<1> HIDE DEF kind
<1> QED BY <1>1, <1>2, MishapRight

LEMMA OperateRight ==
  ASSUME StreamsInv, NEW s \in Streams, NEW said \in SUBSET {"StreamOp", "ChainedOp", "Getline"},
         NEW seen \in BOOLEAN, NEW open \in BOOLEAN, Operate(s, said, seen, open),
         seen => open,
         open => said # {} \/ seen
  PROVE  StreamsInv' /\ StreamsOnly
<1>1. unchecked' = [u \in Streams |-> IF u = s THEN [open |-> open, said |-> said, near |-> TRUE]
                                      ELSE [unchecked[u] EXCEPT !.near = FALSE]]
  BY DEF Operate
<1>2. unchecked \in [Streams -> Streamed] BY DEF StreamsInv, Streamed
<1>3. \A u \in Streams : unchecked'[u] \in Streamed
  <2>1. ASSUME NEW u \in Streams, u # s PROVE unchecked'[u] \in Streamed
    <3>1. unchecked'[u] = [unchecked[u] EXCEPT !.near = FALSE] BY <1>1, <2>1
    <3>2. unchecked[u] \in Streamed BY <1>2
    <3> QED BY <3>1, <3>2 DEF Streamed
  <2>2. unchecked'[s] \in Streamed BY <1>1 DEF Streamed
  <2> QED BY <2>1, <2>2
<1>4. unchecked' \in [Streams -> Streamed] BY <1>1, <1>3
<1>5. above' = IF seen THEN [op |-> "read", stream |-> s] ELSE NotRead BY DEF Operate
<1>6. ASSUME NEW u \in Streams
      PROVE /\ unchecked'[u].open /\ unchecked'[u].near => unchecked'[u].said # {} \/ FollowsRead(u)'
            /\ FollowsRead(u)' => unchecked'[u].open
  <2>1. CASE u = s
    <3>1. unchecked'[u] = [open |-> open, said |-> said, near |-> TRUE] BY <1>1, <2>1
    <3>2. seen => FollowsRead(u)' BY <1>5, <2>1 DEF FollowsRead
    <3>3. FollowsRead(u)' => seen BY <1>5 DEF FollowsRead, NotRead
    <3> QED BY <3>1, <3>2, <3>3
  <2>2. CASE u # s
    <3>1. unchecked'[u] = [unchecked[u] EXCEPT !.near = FALSE] /\ unchecked[u] \in Streamed
      BY <1>1, <1>2, <2>2
    <3>2. ~unchecked'[u].near BY <3>1 DEF Streamed
    <3>3. ~FollowsRead(u)' BY <1>5, <2>2 DEF FollowsRead, NotRead
    <3> QED BY <3>2, <3>3
  <2> QED BY <2>1, <2>2
<1> QED BY <1>4, <1>6 DEF StreamsInv, Streamed, Operate

LEMMA Looked ==
  ASSUME StreamsInv, NEW stays \in [Streams -> BOOLEAN],
         unchecked' = [u \in Streams |-> [unchecked[u] EXCEPT !.near = FALSE, !.open = stays[u]]],
         above'.op # "read"
  PROVE  StreamsInv'
<1>1. unchecked \in [Streams -> Streamed] BY DEF StreamsInv, Streamed
<1>2. ASSUME NEW u \in Streams
      PROVE unchecked'[u] \in Streamed /\ ~unchecked'[u].near /\ ~FollowsRead(u)'
  <2>1. unchecked[u] \in Streamed BY <1>1
  <2>2. unchecked'[u] = [unchecked[u] EXCEPT !.near = FALSE, !.open = stays[u]] OBVIOUS
  <2>3. ASSUME FollowsRead(u)' PROVE FALSE
    <3>1. above' = [op |-> "read", stream |-> u] BY <2>3 DEF FollowsRead
    <3>2. above'.op = "read" BY <3>1
    <3> QED BY <3>2
  <2> QED BY <2>1, <2>2, <2>3 DEF Streamed
<1>3. unchecked' \in [Streams -> Streamed] BY <1>2
<1> QED BY <1>2, <1>3 DEF StreamsInv, Streamed

LEMMA StreamsStep ==
  ASSUME StreamsInv, MishapInv,
         \/ \E s \in Streams : Extract(s) \/ Chain(s) \/ CheckStream(s)
                               \/ \E how \in {"statement", "condition"} : GetLine(s, how)
         \/ OtherStatement
  PROVE  StreamsInv' /\ MishapInv' /\ StreamsOnly
<1>1. ASSUME NEW s \in Streams, Extract(s) PROVE StreamsInv' /\ MishapInv' /\ StreamsOnly
  <2>1. StreamOp(s) \in SUBSET {"StreamOp", "ChainedOp", "Getline"} BY DEF StreamOp, Say
  <2>2. StreamOp(s) # {} \/ s \notin Listed \/ ~FollowsRead(s) BY DEF StreamOp, Say
  <2>3. MishapInv' BY <1>1, <2>1, <2>2, UnnoticedRight DEF Extract
  <2>4. Operate(s, StreamOp(s), TRUE, TRUE) BY <1>1 DEF Extract
  <2>5. StreamsInv' /\ StreamsOnly BY <2>1, <2>4, OperateRight
  <2> QED BY <2>3, <2>5
<1>2. ASSUME NEW s \in Streams, Chain(s) PROVE StreamsInv' /\ MishapInv' /\ StreamsOnly
  <2>1. ChainedOp \in SUBSET {"StreamOp", "ChainedOp", "Getline"} /\ ChainedOp # {} BY DEF ChainedOp
  <2>2. MishapInv' BY <1>2, <2>1, MishapRight DEF Chain
  <2>3. Operate(s, ChainedOp, FALSE, TRUE) BY <1>2 DEF Chain
  <2>4. StreamsInv' /\ StreamsOnly BY <2>1, <2>3, OperateRight
  <2> QED BY <2>2, <2>4
<1>3. ASSUME NEW s \in Streams, NEW how \in {"statement", "condition"}, GetLine(s, how)
      PROVE StreamsInv' /\ MishapInv' /\ StreamsOnly
  <2>1. Getline(how) \in SUBSET {"StreamOp", "ChainedOp", "Getline"} /\ (how = "statement" => Getline(how) # {})
    BY DEF Getline, Say
  <2>2. Getline(how) # {} \/ how = "condition" BY <2>1
  <2>3. MishapInv' BY <1>3, <2>1, <2>2, UnnoticedRight DEF GetLine
  <2>4. Operate(s, Getline(how), FALSE, how = "statement") BY <1>3 DEF GetLine
  <2>5. StreamsInv' /\ StreamsOnly BY <2>1, <2>4, OperateRight
  <2> QED BY <2>3, <2>5
<1>4. ASSUME NEW s \in Streams, CheckStream(s) PROVE StreamsInv' /\ MishapInv' /\ StreamsOnly
  <2> DEFINE stays == [u \in Streams |-> unchecked[u].open /\ u # s]
  <2>1. unchecked' = [u \in Streams |-> [unchecked[u] EXCEPT !.near = FALSE, !.open = stays[u]]]
    <3>1. unchecked \in [Streams -> Streamed] BY DEF StreamsInv, Streamed
    <3>2. ASSUME NEW u \in Streams
          PROVE [unchecked[u] EXCEPT !.near = FALSE, !.open = @ /\ u # s]
                = [unchecked[u] EXCEPT !.near = FALSE, !.open = stays[u]]
      BY <3>1 DEF Streamed
    <3> QED BY <1>4, <3>2 DEF CheckStream
  <2>2. stays \in [Streams -> BOOLEAN] OBVIOUS
  <2>3. above'.op # "read" BY <1>4 DEF CheckStream
  <2> HIDE DEF stays
  <2>4. StreamsInv' BY <2>1, <2>2, <2>3, Looked
  <2> QED BY <1>4, <2>4, SameMishap DEF CheckStream
<1>5. ASSUME OtherStatement PROVE StreamsInv' /\ MishapInv' /\ StreamsOnly
  <2> DEFINE stays == [u \in Streams |-> unchecked[u].open]
  <2>1. unchecked' = [u \in Streams |-> [unchecked[u] EXCEPT !.near = FALSE, !.open = stays[u]]]
    <3>1. unchecked \in [Streams -> Streamed] BY DEF StreamsInv, Streamed
    <3>2. ASSUME NEW u \in Streams
          PROVE [unchecked[u] EXCEPT !.near = FALSE] = [unchecked[u] EXCEPT !.near = FALSE, !.open = stays[u]]
      BY <3>1 DEF Streamed
    <3> QED BY <1>5, <3>2 DEF OtherStatement
  <2>2. stays \in [Streams -> BOOLEAN] BY DEF StreamsInv
  <2>3. above'.op # "read" BY <1>5 DEF OtherStatement, NotRead
  <2> HIDE DEF stays
  <2>4. StreamsInv' BY <2>1, <2>2, <2>3, Looked
  <2> QED BY <1>5, <2>4, SameMishap DEF OtherStatement
<1> QED BY <1>1, <1>2, <1>3, <1>4, <1>5

\* Strings.

LEMMA StringsStep ==
  ASSUME StringsInv, MishapInv,
         \E v \in StringVars : WriteString(v) \/ (\E how \in {"plain", "cast"} : TakeString(v, how))
                               \/ \E w \in StringVars : CopyString(v, w)
  PROVE  StringsInv' /\ MishapInv' /\ StringsOnly
<1> DEFINE OwnedStrings == [library : BOOLEAN, cast : BOOLEAN, said : SUBSET {"LocaleConstPointer"}]
<1>1. strings \in [StringVars -> OwnedStrings] BY DEF StringsInv
<1>2. ASSUME NEW v \in StringVars, WriteString(v) PROVE StringsInv' /\ MishapInv' /\ StringsOnly
  <2> DEFINE kind == IF strings[v].library THEN "library string" ELSE "none"
  <2>1. kind # "none" => strings[v].said # {} \/ strings[v].cast BY <1>2 DEF StringsInv, WriteString
  <2>2. Mishap(kind, strings[v].said, strings[v].cast) BY <1>2 DEF WriteString
  <2> HIDE DEF kind
  <2>3. MishapInv' BY <2>1, <2>2, MishapRight
  <2>4. strings' = strings /\ StringsOnly BY <1>2 DEF WriteString
  <2> QED BY <2>3, <2>4 DEF StringsInv
<1>3. ASSUME NEW v \in StringVars, NEW how \in {"plain", "cast"}, TakeString(v, how)
      PROVE StringsInv' /\ MishapInv' /\ StringsOnly
  <2> DEFINE said == IF how = "cast" THEN LocaleCast(how) ELSE LocaleVar(v)
             text == [library |-> TRUE, cast |-> FALSE, said |-> said]
  <2>1. text \in OwnedStrings BY DEF LocaleCast, LocaleVar, Say
  <2>2. text.said # {} \/ v \in ConstStrings BY DEF LocaleCast, LocaleVar, Say
  <2>3. strings' = [strings EXCEPT ![v] = text] BY <1>3 DEF TakeString
  <2> HIDE DEF text
  <2>4. strings' \in [StringVars -> OwnedStrings] /\ (\A u \in StringVars : strings'[u] = IF u = v THEN text ELSE strings[u])
    BY <1>1, <2>1, <2>3
  <2>5. mishap' = mishap /\ StringsOnly BY <1>3 DEF TakeString
  <2> QED BY <2>2, <2>4, <2>5, SameMishap DEF StringsInv
<1>4. ASSUME NEW v \in StringVars, NEW w \in StringVars, CopyString(v, w)
      PROVE StringsInv' /\ MishapInv' /\ StringsOnly
  <2> DEFINE text == [strings[w] EXCEPT !.cast = @ \/ (w \in ConstStrings /\ v \notin ConstStrings)]
  <2>1. strings[w] \in OwnedStrings BY <1>1
  <2>2. /\ text \in OwnedStrings /\ text.said = strings[w].said /\ text.library = strings[w].library
        /\ strings[w].cast => text.cast
        /\ w \in ConstStrings /\ v \notin ConstStrings => text.cast
    BY <2>1
  <2>3. strings' = [strings EXCEPT ![v] = text] BY <1>4 DEF CopyString
  <2> HIDE DEF text
  <2>4. strings' \in [StringVars -> OwnedStrings] /\ (\A u \in StringVars : strings'[u] = IF u = v THEN text ELSE strings[u])
    BY <1>1, <2>2, <2>3
  <2>5. text.library => text.said # {} \/ text.cast \/ v \in ConstStrings BY <2>2 DEF StringsInv
  <2>6. mishap' = mishap /\ StringsOnly BY <1>4 DEF CopyString
  <2> QED BY <2>4, <2>5, <2>6, SameMishap DEF StringsInv
<1> QED BY <1>2, <1>3, <1>4

\* Thread-specific storage.

Stored == {"none", "local array", "local address", "pointer", "static"}
LEMMA KeyStep ==
  ASSUME KeyInv, MishapInv,
         \/ \E destructor \in {"0", "NULL", "function"}, type \in {"tss_t", "typedef"} : CreateKey(destructor, type)
         \/ \E value \in {"local array", "local address", "pointer", "static"} : SetKey(value)
         \/ GetKey \/ ThreadEnds
  PROVE  KeyInv' /\ MishapInv' /\ KeyOnly
<1>1. ASSUME NEW destructor \in {"0", "NULL", "function"}, NEW type \in {"tss_t", "typedef"}, CreateKey(destructor, type)
      PROVE  KeyInv' /\ MishapInv' /\ KeyOnly
  <2>1. TssCreate(destructor) \in SUBSET {"TssCreate", "TssSet", "TssKey"} BY DEF TssCreate, Say
  <2>2. key' = [destructor |-> destructor, type |-> type, value |-> "none", said |-> TssCreate(destructor)] BY <1>1 DEF CreateKey
  <2>3. mishap' = mishap /\ KeyOnly BY <1>1 DEF CreateKey
  <2> QED BY <2>1, <2>2, <2>3, SameMishap DEF KeyInv
<1>2. ASSUME NEW value \in {"local array", "local address", "pointer", "static"}, SetKey(value)
      PROVE KeyInv' /\ MishapInv' /\ KeyOnly
  <2> DEFINE said == TssKey(key.type) \cup TssSet(value)
  <2>1. said \in SUBSET {"TssSet", "TssKey"} BY DEF TssKey, TssSet, Say
  <2>2. value \in {"local array", "pointer"} => "TssSet" \in said BY DEF TssSet, Say
  <2>3. key' = [key EXCEPT !.value = value, !.said = @ \cup said] BY <1>2 DEF SetKey
  <2> HIDE DEF said
  <2>4. key'.value = value /\ key'.said = key.said \cup said /\ key'.destructor = key.destructor
    BY <2>3 DEF KeyInv
  <2>5. KeyInv' BY <2>1, <2>2, <2>3, <2>4 DEF KeyInv, OfValue
  <2>6. mishap' = mishap /\ KeyOnly BY <1>2 DEF SetKey
  <2> QED BY <2>5, <2>6, SameMishap
<1>3. ASSUME GetKey PROVE KeyInv' /\ MishapInv' /\ KeyOnly
  <2> DEFINE kind == IF key.value \in {"local array", "local address"} THEN "dead storage" ELSE "none"
  <2>1. kind # "none" => OfValue # {} \/ key.value = "local address" BY DEF KeyInv
  <2>2. Mishap(kind, OfValue, key.value = "local address") BY <1>3 DEF GetKey
  <2> HIDE DEF kind
  <2>3. MishapInv' BY <2>1, <2>2, MishapRight
  <2> DEFINE said == TssKey(key.type)
  <2>4. key' = [key EXCEPT !.said = @ \cup said] /\ KeyOnly BY <1>3 DEF GetKey
  <2>5. said \in SUBSET {"TssKey"} BY DEF TssKey, Say
  <2> HIDE DEF said
  <2>6. KeyInv'
    <3>1. key'.value = key.value /\ key'.said = key.said \cup said BY <2>4 DEF KeyInv
    <3> QED BY <2>4, <2>5, <3>1 DEF KeyInv, OfValue
  <2> QED BY <2>3, <2>4, <2>6
<1>4. ASSUME ThreadEnds PROVE KeyInv' /\ MishapInv' /\ KeyOnly
  <2> DEFINE kind == IF key.value = "pointer" /\ key.destructor \in {"0", "NULL"} THEN "lost storage" ELSE "none"
  <2>1. kind # "none" => OfValue # {} \/ key.destructor = "NULL" BY DEF KeyInv
  <2>2. Mishap(kind, OfValue, key.destructor = "NULL") BY <1>4 DEF ThreadEnds
  <2> HIDE DEF kind
  <2>3. MishapInv' BY <2>1, <2>2, MishapRight
  <2>4. key' = [key EXCEPT !.value = "none"] /\ KeyOnly BY <1>4 DEF ThreadEnds
  <2>5. key'.value = "none" BY <2>4 DEF KeyInv
  <2>6. KeyInv' BY <2>4, <2>5 DEF KeyInv
  <2> QED BY <2>3, <2>4, <2>6
<1> QED BY <1>1, <1>2, <1>3, <1>4

\* Waits: nothing has to be remembered, a loop that wakes is judged by its text.

LEMMA WaitsStep ==
  ASSUME MishapInv, (\E loop \in Loops : WaitFor(loop)) \/ (\E holds \in BOOLEAN : Wake(holds)), WaitsInv
  PROVE  MishapInv' /\ WaitsOnly /\ WaitsInv'
<1>1. ASSUME NEW loop \in Loops, WaitFor(loop) PROVE MishapInv' /\ WaitsOnly /\ WaitsInv'
  BY <1>1, SameMishap DEF WaitFor, WaitsInv
<1>2. ASSUME NEW holds \in BOOLEAN, Wake(holds) PROVE MishapInv' /\ WaitsOnly /\ WaitsInv'
  <2> DEFINE kind == IF waiting' = "no wait" /\ ~holds THEN "spurious wakeup" ELSE "none"
  <2>1. waiting # "no wait" /\ waiting' = IF holds \/ waiting \in Untested THEN "no wait" ELSE waiting
    BY <1>2 DEF Wake
  <2>2. kind # "none" => waiting \in Untested BY <2>1
  <2>3. kind # "none" => SpuriousWakeup(waiting) # {} \/ waiting \in {"for ever", "other while"}
    BY <2>2 DEF Untested, SpuriousWakeup, Say
  <2>4. Mishap(kind, SpuriousWakeup(waiting), waiting \in {"for ever", "other while"}) BY <1>2 DEF Wake
  <2>5. WaitsInv' BY <2>1 DEF WaitsInv
  <2> HIDE DEF kind
  <2>6. MishapInv' BY <2>3, <2>4, MishapRight
  <2> QED BY <1>2, <2>5, <2>6 DEF Wake
<1> QED BY <1>1, <1>2

\* Handlers.

LEMMA HandlersStep ==
  ASSUME HandlersInv, MishapInv,
         \/ \E form \in {"name", "address", "variable"},
               body \in {"returns", "exit", "longjmp", "throw", "throw_caught", "calls_exit", "calls_longjmp"} :
              RegisterHandler(form, body)
         \/ RunHandler
  PROVE  HandlersInv' /\ MishapInv' /\ HandlersOnly
<1>1. handlers \in Seq(Handlers) /\ Len(handlers) \in Nat BY LenProperties DEF HandlersInv
<1>2. ASSUME NEW form \in {"name", "address", "variable"},
             NEW body \in {"returns", "exit", "longjmp", "throw", "throw_caught", "calls_exit", "calls_longjmp"},
             RegisterHandler(form, body)
      PROVE HandlersInv' /\ MishapInv' /\ HandlersOnly
  <2> DEFINE said == AtExitHandlerReturn(form, body) \cup ExitCall(body)
             h == [body |-> body, said |-> said, found |-> FoundHandler(form)]
  <2>1. said \in SUBSET {"AtExitHandlerReturn", "Exit"} BY DEF AtExitHandlerReturn, ExitCall, Say
  <2>2. body \in {"returns", "throw_caught", "calls_longjmp"} \/ said # {} \/ ~FoundHandler(form)
    BY DEF AtExitHandlerReturn, ExitCall, Say
  <2>3. FoundHandler(form) \in BOOLEAN BY DEF FoundHandler
  <2> HIDE DEF said
  <2>4. h \in Handlers BY <2>1, <2>3 DEF Handlers
  <2>5. h.body \in {"returns", "throw_caught", "calls_longjmp"} \/ h.said # {} \/ ~h.found BY <2>2
  <2>6. handlers' = Append(handlers, h) BY <1>2 DEF RegisterHandler, said
  <2> HIDE DEF h
  <2>7. /\ Append(handlers, h) \in Seq(Handlers) /\ Len(Append(handlers, h)) = Len(handlers) + 1
        /\ \A i \in 1 .. Len(handlers) : Append(handlers, h)[i] = handlers[i]
        /\ Append(handlers, h)[Len(handlers) + 1] = h
    BY <1>1, <2>4, AppendProperties
  <2>8. \A i \in 1 .. Len(handlers) + 1 : i \in 1 .. Len(handlers) \/ i = Len(handlers) + 1 BY <1>1
  <2>9. mishap' = mishap /\ HandlersOnly BY <1>2 DEF RegisterHandler
  <2> QED BY <2>5, <2>6, <2>7, <2>8, <2>9, SameMishap DEF HandlersInv
<1>3. ASSUME RunHandler PROVE HandlersInv' /\ MishapInv' /\ HandlersOnly
  <2> DEFINE h == Last(handlers)
             kind == IF h.body \in {"returns", "throw_caught"} THEN "none" ELSE "handler"
  <2>1. Len(handlers) # 0 BY <1>1, <1>3, EmptySeq DEF RunHandler
  <2>2. Len(handlers) \in 1 .. Len(handlers) BY <1>1, <2>1
  <2>3. h = handlers[Len(handlers)] BY DEF Last
  <2>4. kind # "none" => h.said # {} \/ (~h.found \/ h.body = "calls_longjmp") BY <2>2, <2>3 DEF HandlersInv
  <2>5. Mishap(kind, h.said, ~h.found \/ h.body = "calls_longjmp") BY <1>3 DEF RunHandler
  <2> HIDE DEF kind, h
  <2>6. MishapInv' BY <2>4, <2>5, MishapRight
  <2>7. handlers' = SubSeq(handlers, 1, Len(handlers) - 1) BY <1>3 DEF RunHandler, Front
  <2>9. /\ handlers' \in Seq(Handlers) /\ Len(handlers') \in Nat
        /\ \A i \in 1 .. Len(handlers') : i \in 1 .. Len(handlers) /\ handlers'[i] = handlers[i]
    <3> DEFINE n == Len(handlers) - 1
    <3>1. n \in Nat /\ n + 1 = Len(handlers) /\ handlers' = SubSeq(handlers, 1, n) BY <1>1, <2>1, <2>7
    <3>2. \A i \in 1 .. n : i \in 1 .. Len(handlers) BY <3>1
    <3>3. \A i \in 1 .. n : handlers[i] \in Handlers BY <1>1, <3>2, ElementOfSeq
    <3> HIDE DEF n
    <3>4. /\ SubSeq(handlers, 1, n) \in Seq(Handlers)
          /\ Len(SubSeq(handlers, 1, n)) = IF 1 <= n THEN n - 1 + 1 ELSE 0
          /\ \A i \in 1 .. n - 1 + 1 : SubSeq(handlers, 1, n)[i] = handlers[1 + i - 1]
      BY <3>1, <3>3, SubSeqProperties
    <3>5. /\ Len(SubSeq(handlers, 1, n)) = n /\ n - 1 + 1 = n
          /\ \A i \in 1 .. n : 1 + i - 1 = i
      BY <3>1, <3>4
    <3> QED BY <3>1, <3>2, <3>4, <3>5
  <2>10. HandlersOnly BY <1>3 DEF RunHandler
  <2> QED BY <2>6, <2>9, <2>10 DEF HandlersInv
<1> QED BY <1>2, <1>3

\* The whole program, one statement after the other.

LEMMA LibraryStep == ASSUME LibraryInv, [LibraryNext]_libraryVars PROVE LibraryInv'
<1> DEFINE FilesDo == \/ \E v, w \in FileVars, how \in {"none", "null", "initializer", "assigned", "copied"} : SetFile(v, how, w)
                      \/ \E v \in FileVars : UseFile(v) \/ \E how \in {"name", "element"} : CloseFile(v, how)
                      \/ \E how \in {"argument", "statement", "condition", "ternary"} : OpenUnkept(how)
           StreamsDo == \/ \E s \in Streams : Extract(s) \/ Chain(s) \/ CheckStream(s)
                                              \/ \E how \in {"statement", "condition"} : GetLine(s, how)
                        \/ OtherStatement
           StringsDo == \E v \in StringVars : WriteString(v) \/ (\E how \in {"plain", "cast"} : TakeString(v, how))
                                              \/ \E w \in StringVars : CopyString(v, w)
           KeyDo == \/ \E destructor \in {"0", "NULL", "function"}, type \in {"tss_t", "typedef"} : CreateKey(destructor, type)
                    \/ \E value \in {"local array", "local address", "pointer", "static"} : SetKey(value)
                    \/ GetKey \/ ThreadEnds
           WaitsDo == (\E loop \in Loops : WaitFor(loop)) \/ (\E holds \in BOOLEAN : Wake(holds))
           HandlersDo == \/ \E form \in {"name", "address", "variable"},
                               body \in {"returns", "exit", "longjmp", "throw", "throw_caught", "calls_exit", "calls_longjmp"} :
                              RegisterHandler(form, body)
                         \/ RunHandler
<1>1. FilesDo \/ StreamsDo \/ StringsDo \/ KeyDo \/ WaitsDo \/ HandlersDo \/ UNCHANGED libraryVars
  BY DEF LibraryNext, ProgramEnd
<1> USE DEF LibraryInv
<1>2. CASE FilesDo
  <2>1. FilesInv' /\ MishapInv' /\ UNCHANGED <<above, unchecked, strings, key, waiting, handlers>> BY <1>2, FilesStep
  <2> QED BY <2>1 DEF StreamsInv, FollowsRead, StringsInv, KeyInv, OfValue, WaitsInv, HandlersInv
<1>3. CASE StreamsDo
  <2>1. StreamsInv' /\ MishapInv' /\ StreamsOnly BY <1>3, StreamsStep
  <2> QED BY <2>1 DEF StreamsOnly, FilesInv, StringsInv, KeyInv, OfValue, WaitsInv, HandlersInv
<1>4. CASE StringsDo
  <2>1. StringsInv' /\ MishapInv' /\ StringsOnly BY <1>4, StringsStep
  <2> QED BY <2>1 DEF StringsOnly, FilesInv, StreamsInv, FollowsRead, KeyInv, OfValue, WaitsInv, HandlersInv
<1>5. CASE KeyDo
  <2>1. KeyInv' /\ MishapInv' /\ KeyOnly BY <1>5, KeyStep
  <2> QED BY <2>1 DEF KeyOnly, FilesInv, StreamsInv, FollowsRead, StringsInv, WaitsInv, HandlersInv
<1>6. CASE WaitsDo
  <2>1. WaitsInv' /\ MishapInv' /\ WaitsOnly BY <1>6, WaitsStep
  <2> QED BY <2>1 DEF WaitsOnly, FilesInv, StreamsInv, FollowsRead, StringsInv, KeyInv, OfValue, HandlersInv
<1>7. CASE HandlersDo
  <2>1. HandlersInv' /\ MishapInv' /\ HandlersOnly BY <1>7, HandlersStep
  <2> QED BY <2>1 DEF HandlersOnly, FilesInv, StreamsInv, FollowsRead, StringsInv, KeyInv, OfValue, WaitsInv
<1>8. CASE UNCHANGED libraryVars
  <2>1. UNCHANGED <<files, fileVars, above, unchecked, strings, key, waiting, handlers, mishap>> BY <1>8 DEF libraryVars
  <2>2. MishapInv' BY <2>1, SameMishap
  <2> QED BY <2>1, <2>2 DEF FilesInv, StreamsInv, FollowsRead, StringsInv, KeyInv, OfValue, WaitsInv, HandlersInv
<1> QED BY <1>1, <1>2, <1>3, <1>4, <1>5, <1>6, <1>7, <1>8

LEMMA LibraryStarts == LibraryInit => LibraryInv
<1> SUFFICES ASSUME LibraryInit PROVE LibraryInv OBVIOUS
<1>1. FilesInv
  <2>1. files = <<>> /\ fileVars = [v \in FileVars |-> [file |-> Undeclared, said |-> {}]] BY DEF LibraryInit
  <2>2. files \in Seq(FileStates) /\ Len(files) = 0 BY <2>1, EmptySeq
  <2> QED BY <2>1, <2>2 DEF FilesInv, Undeclared, NoValue
<1>2. StreamsInv
  <2>1. above = NotRead /\ unchecked = [s \in Streams |-> [open |-> FALSE, said |-> {}, near |-> FALSE]] BY DEF LibraryInit
  <2> QED BY <2>1 DEF StreamsInv, FollowsRead, NotRead
<1>3. StringsInv
  <2>1. strings = [v \in StringVars |-> [library |-> FALSE, said |-> {}, cast |-> FALSE]] BY DEF LibraryInit
  <2> QED BY <2>1 DEF StringsInv
<1>4. KeyInv /\ WaitsInv
  BY DEF LibraryInit, KeyInv, WaitsInv
<1>5. HandlersInv
  <2>1. handlers = <<>> BY DEF LibraryInit
  <2>2. handlers \in Seq(Handlers) /\ Len(handlers) = 0 BY <2>1, EmptySeq
  <2> QED BY <2>2 DEF HandlersInv
<1>6. MishapInv BY DEF LibraryInit, MishapInv
<1> QED BY <1>1, <1>2, <1>3, <1>4, <1>5, <1>6 DEF LibraryInv

\* What goes wrong with an object of the library was announced, or is one of the
\* texts the checks make nothing of (LibraryJudged), however many variables, streams
\* and statements a program has.
THEOREM LibraryRight == LibrarySpec => []LibraryJudged
<1>1. LibraryInv => LibraryJudged
  <2>1. ASSUME LibraryInv, NEW s \in Streams, StreamOp(s) # {} PROVE unchecked[s].open
    <3>1. FollowsRead(s) BY <2>1 DEF StreamOp, Say
    <3> QED BY <2>1, <3>1 DEF LibraryInv, StreamsInv
  <2> QED BY <2>1 DEF LibraryInv, MishapInv, LibraryJudged
<1> QED BY <1>1, LibraryStarts, LibraryStep, PTL DEF LibrarySpec

-----------------------------------------------------------------------------
\* Tests of errno: the blocks that are open, and what each shows of the last call.

Shown == DOMAIN ErrnoFunctions \cup {NoFunction}
Blocks == [id : Nat, opener : {"function", "if", "loop"}, live : BOOLEAN, last : Shown]
OpenBlocks == 1 .. Len(blocks)

\* Blocks are numbered by the place they open at, and one that the run is in stands
\* in blocks that the run is in.
BlocksInv ==
  /\ blocks \in Seq(Blocks) /\ Len(blocks) > 0
  /\ length \in Nat
  /\ \A i \in OpenBlocks : blocks[i].id <= length
  /\ \A i, j \in OpenBlocks : blocks[i].id = blocks[j].id => i = j
  /\ \A i, j \in OpenBlocks : i <= j /\ blocks[j].live => blocks[i].live

\* What is remembered of the last call of the run is what its block shows.
CallInv ==
  /\ lastCall = NotCalled => \A i \in OpenBlocks : blocks[i].live => blocks[i].last = NoFunction
  /\ lastCall # NotCalled =>
       /\ lastCall.function \in DOMAIN ErrnoFunctions
       /\ lastCall.said = ErrnoUsage(lastCall.function)
       /\ lastCall.block \in Nat /\ lastCall.block <= length
       /\ \A i \in OpenBlocks : lastCall.block = blocks[i].id =>
            /\ blocks[i].live
            /\ lastCall.how \in ShownCalls => blocks[i].last = lastCall.function

\* A test that has just been read.
TestInv ==
  test.judged # 0 =>
    /\ test.judged \in OpenBlocks
    /\ test.live = Innermost.live
    /\ test.reported <=> ErrnoTesting(blocks[test.judged].last)

ErrnoInv == BlocksInv /\ CallInv /\ TestInv

LEMMA BlocksKnown ==
  ASSUME BlocksInv
  PROVE  /\ Len(blocks) \in Nat /\ Len(blocks) \in OpenBlocks
         /\ Innermost = blocks[Len(blocks)]
         /\ \A i \in OpenBlocks : blocks[i] \in Blocks
<1>1. Len(blocks) \in Nat BY LenProperties DEF BlocksInv
<1>2. Len(blocks) \in 1 .. Len(blocks) BY <1>1 DEF BlocksInv
<1>3. \A i \in 1 .. Len(blocks) : blocks[i] \in Blocks BY ElementOfSeq DEF BlocksInv
<1>4. Innermost = blocks[Len(blocks)] BY DEF Innermost, Last
<1> QED BY <1>1, <1>2, <1>3, <1>4 DEF OpenBlocks

LEMMA GreatestPlace ==
  ASSUME NEW n \in Nat, NEW S \in SUBSET (1 .. n), S # {}
  PROVE  Max(S) \in S
<1> DEFINE Back == {n - i : i \in S}
           R == OpToRel(<, Nat)
<1>1. Back \in SUBSET Nat /\ Back # {}
  <2>1. \A i \in S : n - i \in Nat OBVIOUS
  <2>2. \A k \in Back : k \in Nat BY <2>1
  <2>3. Back # {} OBVIOUS
  <2> QED BY <2>2, <2>3
<1>2. IsWellFoundedOn(R, Nat) BY NatLessThanWellFounded
<1>3. \A i, j \in Nat : <<j, i>> \in R <=> j < i BY DEF OpToRel
<1> HIDE DEF R
<1>4. PICK k \in Back : \A j \in Back : ~ (<<j, k>> \in R)
  <2> HIDE DEF Back
  <2> QED BY <1>1, <1>2, WFMin
<1>5. PICK m \in S : k = n - m OBVIOUS
<1>6. ASSUME NEW i \in S PROVE m >= i
  <2>1. n - i \in Back /\ n - i \in Nat /\ k \in Nat BY <1>1
  <2>2. ~(n - i < k) BY <1>3, <1>4, <2>1
  <2> QED BY <1>5, <2>2
<1>7. \A y \in S : m >= y BY <1>6
<1> QED BY <1>7 DEF Max

LEMMA OneBelow == \A n \in Nat : \A m \in 1 .. n : m - 1 = 0 \/ m - 1 \in 1 .. n
OBVIOUS

LEMMA JudgedPlace ==
  ASSUME BlocksInv, NEW place \in {"if", "else if", "inside"}
  PROVE  JudgedBlock(place) = 0 \/ JudgedBlock(place) \in OpenBlocks
<1>1. CASE place = "if" BY <1>1, BlocksKnown DEF JudgedBlock
<1>2. CASE place = "else if" BY <1>2 DEF JudgedBlock
<1>3. CASE place = "inside" /\ IfBlocks = {} BY <1>3 DEF JudgedBlock
<1>4. CASE place = "inside" /\ IfBlocks # {}
  <2>1. JudgedBlock(place) = Max(IfBlocks) - 1 BY <1>4 DEF JudgedBlock
  <2>2. IfBlocks \in SUBSET (1 .. Len(blocks)) BY LenProperties DEF IfBlocks, BlocksInv
  <2>3. Len(blocks) \in Nat BY BlocksKnown
  <2>4. Max(IfBlocks) \in 1 .. Len(blocks) BY <1>4, <2>2, <2>3, GreatestPlace
  <2>5. Max(IfBlocks) - 1 = 0 \/ Max(IfBlocks) - 1 \in 1 .. Len(blocks) BY <2>3, <2>4, OneBelow
  <2> QED BY <2>1, <2>5 DEF OpenBlocks
<1> QED BY <1>1, <1>2, <1>3, <1>4

LEMMA CallRead ==
  ASSUME ErrnoInv, NEW f \in DOMAIN ErrnoFunctions, NEW how \in HowCalled, ErrnoCall(f, how)
  PROVE  ErrnoInv'
<1> DEFINE n == Len(blocks)
           b == [blocks[n] EXCEPT !.last = LastShown(@, f, how)]
<1> USE DEF ErrnoInv
<1>1. n \in OpenBlocks /\ blocks[n] \in Blocks /\ Innermost = blocks[n] /\ blocks \in Seq(Blocks) /\ length \in Nat
  BY BlocksKnown DEF BlocksInv
<1>2. /\ b \in Blocks /\ b.id = blocks[n].id /\ b.live = blocks[n].live
      /\ b.last = LastShown(blocks[n].last, f, how)
  <2>1. LastShown(blocks[n].last, f, how) \in Shown BY <1>1 DEF LastShown, Shown, Blocks
  <2>2. b = [blocks[n] EXCEPT !.last = LastShown(blocks[n].last, f, how)] BY <1>1 DEF Blocks
  <2> QED BY <1>1, <2>1, <2>2 DEF Blocks
<1>3. blocks' = [blocks EXCEPT ![n] = b] /\ test' = NoTest /\ length' = length + 1 BY DEF ErrnoCall, Read
<1>4. how \in ShownCalls => b.last = f BY <1>2 DEF LastShown
<1>5. lastCall' = IF blocks[n].live
                  THEN [function |-> f, how |-> how, block |-> blocks[n].id, clean |-> isZero, said |-> ErrnoUsage(f)]
                  ELSE lastCall
  BY <1>1 DEF ErrnoCall
<1> HIDE DEF b, n
<1>6. /\ blocks' \in Seq(Blocks) /\ Len(blocks') = Len(blocks)
      /\ \A i \in OpenBlocks : blocks'[i] = IF i = n THEN b ELSE blocks[i]
  BY <1>1, <1>2, <1>3, ExceptSeq DEF OpenBlocks
<1>7. OpenBlocks' = OpenBlocks BY <1>6 DEF OpenBlocks
<1>8. \A i \in OpenBlocks : blocks'[i].id = blocks[i].id /\ blocks'[i].live = blocks[i].live BY <1>2, <1>6
<1>9. \A i \in OpenBlocks : blocks[i].id \in Nat /\ blocks[i].id <= length BY BlocksKnown DEF BlocksInv, Blocks
<1>10. length + 1 \in Nat /\ \A i \in Nat : i <= length => i <= length + 1 BY <1>1
<1>11. BlocksInv' BY <1>3, <1>6, <1>7, <1>8, <1>9, <1>10 DEF BlocksInv
<1>12. TestInv' BY <1>3 DEF TestInv, NoTest
<1>13. CallInv'
  <2>1. CASE blocks[n].live
    <3>1. /\ lastCall'.function = f /\ lastCall'.how = how /\ lastCall'.block = blocks[n].id
          /\ lastCall'.said = ErrnoUsage(f)
      BY <1>5, <2>1
    <3>2. lastCall' # NotCalled BY <3>1, ErrnoFunctionsAssumption DEF NotCalled
    <3>3. ASSUME NEW i \in OpenBlocks, lastCall'.block = blocks'[i].id
          PROVE blocks'[i].live /\ (lastCall'.how \in ShownCalls => blocks'[i].last = lastCall'.function)
      <4>1. i = n BY <1>1, <1>8, <3>1, <3>3 DEF BlocksInv
      <4> QED BY <1>2, <1>4, <1>6, <2>1, <3>1, <4>1
    <3>4. lastCall'.block \in Nat /\ lastCall'.block <= length' BY <1>1, <1>3, <1>9, <1>10, <3>1
    <3> QED BY <1>7, <3>1, <3>2, <3>3, <3>4 DEF CallInv
  <2>2. CASE ~blocks[n].live
    <3>1. lastCall' = lastCall BY <1>5, <2>2
    <3>2. ASSUME lastCall = NotCalled, NEW i \in OpenBlocks, blocks'[i].live PROVE blocks'[i].last = NoFunction
      <4>1. i # n BY <1>8, <2>2, <3>2
      <4> QED BY <1>6, <3>2, <4>1 DEF CallInv
    <3>3. ASSUME lastCall # NotCalled, NEW i \in OpenBlocks, lastCall.block = blocks'[i].id
          PROVE blocks'[i].live /\ (lastCall.how \in ShownCalls => blocks'[i].last = lastCall.function)
      <4>1. lastCall.block = blocks[i].id BY <1>8, <3>3
      <4>2. i # n BY <2>2, <3>3, <4>1 DEF CallInv
      <4> QED BY <1>6, <3>3, <4>1, <4>2 DEF CallInv
    <3>4. lastCall # NotCalled => lastCall.block \in Nat /\ lastCall.block <= length'
      BY <1>3, <1>10 DEF CallInv
    <3>5. lastCall # NotCalled => lastCall.function \in DOMAIN ErrnoFunctions /\ lastCall.said = ErrnoUsage(lastCall.function)
      BY DEF CallInv
    <3> QED BY <1>7, <3>1, <3>2, <3>3, <3>4, <3>5 DEF CallInv
  <2> QED BY <2>1, <2>2
<1> QED BY <1>11, <1>12, <1>13

\* The others leave the last call alone.

LEMMA BlockOpened ==
  ASSUME ErrnoInv, NEW opener \in {"if", "loop"}, NEW taken \in BOOLEAN, OpenBlock(opener, taken)
  PROVE  ErrnoInv'
<1> DEFINE n == Len(blocks)
           b == Block(length + 1, opener, Innermost.live /\ taken)
<1> USE DEF ErrnoInv
<1>1. n \in OpenBlocks /\ blocks[n] \in Blocks /\ Innermost = blocks[n] /\ blocks \in Seq(Blocks) /\ length \in Nat /\ n \in Nat
  BY BlocksKnown DEF BlocksInv
<1>2. /\ b \in Blocks /\ b.id = length + 1 /\ (b.live => blocks[n].live) /\ b.last = NoFunction
  <2>1. b.id = length + 1 /\ b.last = NoFunction BY DEF Block
  <2>2. b.live => blocks[n].live BY <1>1 DEF Block
  <2>3. length + 1 \in Nat /\ NoFunction \in Shown BY <1>1 DEF Shown
  <2>4. b \in Blocks BY <1>1, <2>3 DEF Block, Blocks
  <2> QED BY <2>1, <2>2, <2>4
<1>3. blocks' = Append(blocks, b) /\ test' = NoTest /\ length' = length + 1 /\ lastCall' = lastCall BY DEF OpenBlock, Read
<1> HIDE DEF b
<1>4. /\ blocks' \in Seq(Blocks) /\ Len(blocks') = n + 1
      /\ \A i \in 1 .. n : blocks'[i] = blocks[i]
      /\ blocks'[n + 1] = b
  BY <1>1, <1>2, <1>3, AppendProperties
<1>5. OpenBlocks = 1 .. n BY DEF OpenBlocks
<1>6. \A i \in OpenBlocks' : i \in OpenBlocks \/ i = n + 1 BY <1>1, <1>4 DEF OpenBlocks
<1> HIDE DEF n
<1>7. \A i \in OpenBlocks : blocks[i].id \in Nat /\ blocks[i].id <= length BY BlocksKnown DEF BlocksInv, Blocks
<1>8. \A i \in Nat : i <= length => i <= length + 1 /\ i # length + 1 BY <1>1
<1>9. length + 1 \in Nat /\ length + 1 <= length + 1 /\ n + 1 > 0 BY <1>1
<1>10. \A i \in OpenBlocks : i <= n /\ ~(n + 1 <= i) /\ i # n + 1 BY <1>1, <1>5
<1>11. \A i \in OpenBlocks' : blocks'[i].id <= length'
  BY <1>2, <1>3, <1>4, <1>5, <1>6, <1>7, <1>8, <1>9
<1>12. \A i, j \in OpenBlocks' : blocks'[i].id = blocks'[j].id => i = j
  <2>1. \A i \in OpenBlocks : blocks'[i] = blocks[i] BY <1>4, <1>5
  <2>2. \A i \in OpenBlocks : blocks'[i].id # blocks'[n + 1].id BY <1>2, <1>4, <1>7, <1>8, <2>1
  <2> QED BY <1>6, <2>1, <2>2 DEF BlocksInv
<1>13. \A i, j \in OpenBlocks' : i <= j /\ blocks'[j].live => blocks'[i].live
  <2>1. \A i \in OpenBlocks : blocks'[i] = blocks[i] BY <1>4, <1>5
  <2>2. \A i \in OpenBlocks : b.live => blocks[i].live BY <1>1, <1>2, <1>10 DEF BlocksInv
  <2> QED BY <1>4, <1>6, <1>10, <2>1, <2>2 DEF BlocksInv
<1>14. BlocksInv' BY <1>3, <1>4, <1>9, <1>11, <1>12, <1>13 DEF BlocksInv
<1>15. TestInv' BY <1>3 DEF TestInv, NoTest
<1>16. CallInv'
  <2>1. \A i \in OpenBlocks : blocks'[i] = blocks[i] BY <1>4, <1>5
  <2>2. lastCall = NotCalled => \A i \in OpenBlocks' : blocks'[i].live => blocks'[i].last = NoFunction
    BY <1>2, <1>4, <1>6, <2>1 DEF CallInv
  <2>3. ASSUME lastCall # NotCalled, NEW i \in OpenBlocks', lastCall.block = blocks'[i].id
        PROVE blocks'[i].live /\ (lastCall.how \in ShownCalls => blocks'[i].last = lastCall.function)
    <3>1. i # n + 1 BY <1>2, <1>4, <1>8, <2>3 DEF CallInv
    <3> QED BY <1>6, <2>1, <2>3, <3>1 DEF CallInv
  <2>4. lastCall # NotCalled => lastCall.block \in Nat /\ lastCall.block <= length' BY <1>3, <1>8 DEF CallInv
  <2>5. lastCall # NotCalled => lastCall.function \in DOMAIN ErrnoFunctions /\ lastCall.said = ErrnoUsage(lastCall.function)
    BY DEF CallInv
  <2> QED BY <1>3, <2>2, <2>3, <2>4, <2>5 DEF CallInv
<1> QED BY <1>14, <1>15, <1>16

LEMMA BlocksLeft ==
  ASSUME ErrnoInv, blocks' \in Seq(Blocks), Len(blocks') \in Nat, Len(blocks') > 0, Len(blocks') <= Len(blocks),
         \A i \in 1 .. Len(blocks') : blocks'[i] = blocks[i],
         length' \in Nat, length <= length', lastCall' = lastCall
  PROVE  BlocksInv' /\ CallInv'
<1> USE DEF ErrnoInv
<1>1. OpenBlocks' = 1 .. Len(blocks') /\ Len(blocks) \in Nat BY BlocksKnown DEF OpenBlocks
<1>2. \A i \in OpenBlocks' : i \in OpenBlocks /\ blocks'[i] = blocks[i] BY <1>1 DEF OpenBlocks
<1>3. \A i \in Nat : i <= length => i <= length' BY DEF BlocksInv
<1>4. \A i \in OpenBlocks : blocks[i].id \in Nat BY BlocksKnown DEF Blocks
<1>5. BlocksInv' BY <1>2, <1>3, <1>4 DEF BlocksInv
<1>6. lastCall # NotCalled => lastCall.block \in Nat /\ lastCall.block <= length' BY <1>3 DEF CallInv
<1>7. CallInv' BY <1>2, <1>6 DEF CallInv
<1> QED BY <1>5, <1>7

LEMMA ErrnoStep == ASSUME ErrnoInv, [ErrnoNext]_errnoVars PROVE ErrnoInv'
<1>1. blocks \in Seq(Blocks) /\ length \in Nat /\ Len(blocks) > 0 /\ Len(blocks) \in Nat
  BY BlocksKnown DEF ErrnoInv, BlocksInv
<1>2. length <= length + 1 /\ length + 1 \in Nat /\ Len(blocks) <= Len(blocks) /\ length <= length BY <1>1
<1>3. ASSUME NEW f \in DOMAIN ErrnoFunctions, NEW how \in HowCalled, ErrnoCall(f, how) PROVE ErrnoInv'
  BY <1>3, CallRead
<1>4. CASE SetErrnoZero
  <2>1. blocks' = blocks /\ test' = NoTest /\ length' = length + 1 /\ lastCall' = lastCall BY <1>4 DEF SetErrnoZero, Read
  <2>2. BlocksInv' /\ CallInv' BY <1>1, <1>2, <2>1, BlocksLeft
  <2> QED BY <2>1, <2>2 DEF ErrnoInv, TestInv, NoTest
<1>5. ASSUME NEW opener \in {"if", "loop"}, NEW taken \in BOOLEAN, OpenBlock(opener, taken) PROVE ErrnoInv'
  BY <1>5, BlockOpened
<1>6. CASE CloseBlock
  <2> DEFINE n == Len(blocks) - 1
  <2>1. blocks' = SubSeq(blocks, 1, n) /\ test' = NoTest /\ length' = length + 1 /\ lastCall' = lastCall
    BY <1>6 DEF CloseBlock, Read, Front
  <2>2. n \in Nat /\ n > 0 /\ n <= Len(blocks) BY <1>1, <1>6 DEF CloseBlock
  <2> HIDE DEF n
  <2>3. \A i \in 1 .. n : blocks[i] \in Blocks /\ 1 + i - 1 = i /\ i \in 1 .. n - 1 + 1
    <3>1. \A i \in 1 .. n : i \in 1 .. Len(blocks) BY <1>1, <2>2
    <3> QED BY <1>1, <2>2, <3>1, ElementOfSeq
  <2>4. /\ SubSeq(blocks, 1, n) \in Seq(Blocks)
        /\ Len(SubSeq(blocks, 1, n)) = IF 1 <= n THEN n - 1 + 1 ELSE 0
        /\ \A i \in 1 .. n - 1 + 1 : SubSeq(blocks, 1, n)[i] = blocks[1 + i - 1]
    BY <2>2, <2>3, SubSeqProperties
  <2>5. Len(blocks') = n /\ blocks' \in Seq(Blocks) /\ \A i \in 1 .. n : blocks'[i] = blocks[i]
    <3>1. Len(SubSeq(blocks, 1, n)) = n BY <2>2, <2>4
    <3> QED BY <2>1, <2>3, <2>4, <3>1
  <2>6. BlocksInv' /\ CallInv' BY <1>2, <2>1, <2>2, <2>5, BlocksLeft
  <2> QED BY <2>1, <2>6 DEF ErrnoInv, TestInv, NoTest
<1>7. ASSUME NEW place \in {"if", "else if", "inside"}, TestErrno(place) PROVE ErrnoInv'
  <2> DEFINE j == JudgedBlock(place)
  <2>1. /\ blocks' = blocks /\ length' = length + 1 /\ lastCall' = lastCall
        /\ test' = [judged |-> j, live |-> Innermost.live, reported |-> j # 0 /\ ErrnoTesting(blocks[j].last)]
    BY <1>7 DEF TestErrno, Read
  <2>2. BlocksInv' /\ CallInv' BY <1>1, <1>2, <2>1, BlocksLeft
  <2>3. j = 0 \/ j \in OpenBlocks BY JudgedPlace DEF ErrnoInv
  <2> HIDE DEF j
  <2>4. /\ test'.judged = j /\ test'.live = Innermost.live
        /\ test'.reported = (j # 0 /\ ErrnoTesting(blocks[j].last))
    BY <2>1
  <2>5. OpenBlocks' = OpenBlocks /\ Innermost' = Innermost BY <2>1 DEF OpenBlocks, Innermost
  <2>6. ASSUME j # 0 PROVE test'.reported <=> ErrnoTesting(blocks'[j].last) BY <2>1, <2>4, <2>6
  <2>7. TestInv' BY <2>1, <2>3, <2>4, <2>5, <2>6 DEF TestInv
  <2> QED BY <2>2, <2>7 DEF ErrnoInv
<1>8. CASE UNCHANGED errnoVars
  <2>1. blocks' = blocks /\ test' = test /\ length' = length /\ lastCall' = lastCall BY <1>8 DEF errnoVars
  <2>2. BlocksInv' /\ CallInv' BY <1>1, <1>2, <2>1, BlocksLeft
  <2>3. TestInv' BY <2>1 DEF ErrnoInv, TestInv, Innermost, OpenBlocks
  <2> QED BY <2>2, <2>3 DEF ErrnoInv
<1> QED BY <1>3, <1>4, <1>5, <1>6, <1>7, <1>8 DEF ErrnoNext, FunctionEnd

LEMMA ErrnoStarts == ErrnoInit => ErrnoInv
<1> SUFFICES ASSUME ErrnoInit PROVE ErrnoInv OBVIOUS
<1> DEFINE b == Block(0, "function", TRUE)
<1>1. blocks = <<b>> /\ lastCall = NotCalled /\ test = NoTest /\ length = 0 BY DEF ErrnoInit
<1>2. b \in Blocks /\ b.id = 0 /\ b.last = NoFunction
  <2>1. NoFunction \in Shown BY DEF Shown
  <2> QED BY <2>1 DEF Block, Blocks
<1> HIDE DEF b
<1>3. <<b>> \in Seq(Blocks) /\ Len(<<b>>) = 1 /\ <<b>>[1] = b BY <1>2
<1>4. OpenBlocks = {1} BY <1>1, <1>3 DEF OpenBlocks
<1>5. BlocksInv BY <1>1, <1>2, <1>3, <1>4 DEF BlocksInv
<1>6. CallInv BY <1>1, <1>2, <1>3, <1>4 DEF CallInv
<1>7. TestInv BY <1>1 DEF TestInv, NoTest
<1> QED BY <1>5, <1>6, <1>7 DEF ErrnoInv

LEMMA TestsJudged == ErrnoInv => ErrnoTestsJudged
<1> SUFFICES ASSUME ErrnoInv, test.judged # 0, test.live
             PROVE  /\ lastCall = NotCalled => test.reported
                    /\ lastCall.how \in ShownCalls /\ lastCall.block = blocks[test.judged].id =>
                         LET f == ErrnoFunctions[lastCall.function]
                         IN  /\ test.reported <=> f.direct /\ ~f.testing
                             /\ ~test.reported /\ ~lastCall.clean /\ f.direct /\ f.testing = f.usage => "ErrnoUsage" \in lastCall.said
  BY DEF ErrnoTestsJudged
<1> DEFINE j == test.judged
<1>1. /\ j \in OpenBlocks /\ test.live = Innermost.live
      /\ test.reported <=> ErrnoTesting(blocks[j].last)
  BY DEF ErrnoInv, TestInv
<1>2. blocks[j].live
  <2>1. j <= Len(blocks) /\ Len(blocks) \in OpenBlocks /\ blocks[Len(blocks)].live
    BY <1>1, BlocksKnown DEF ErrnoInv, OpenBlocks
  <2> QED BY <1>1, <2>1 DEF ErrnoInv, BlocksInv
<1>3. ASSUME lastCall = NotCalled PROVE test.reported
  <2>1. blocks[j].last = NoFunction BY <1>1, <1>2, <1>3 DEF ErrnoInv, CallInv
  <2> QED BY <1>1, <2>1 DEF ErrnoTesting
<1>4. ASSUME lastCall.how \in ShownCalls, lastCall.block = blocks[j].id
      PROVE  LET f == ErrnoFunctions[lastCall.function]
             IN  /\ test.reported <=> f.direct /\ ~f.testing
                 /\ ~test.reported /\ ~lastCall.clean /\ f.direct /\ f.testing = f.usage => "ErrnoUsage" \in lastCall.said
  <2> DEFINE name == lastCall.function
             f == ErrnoFunctions[name]
  <2>1. lastCall # NotCalled BY <1>4 DEF NotCalled, ShownCalls
  <2>2. name \in DOMAIN ErrnoFunctions /\ lastCall.said = ErrnoUsage(name) /\ blocks[j].last = name
    BY <1>1, <1>4, <2>1 DEF ErrnoInv, CallInv
  <2>3. name # NoFunction /\ {f.testing, f.usage, f.direct} \subseteq BOOLEAN BY <2>2, ErrnoFunctionsAssumption
  <2>4. test.reported <=> f.direct /\ ~f.testing BY <1>1, <2>2, <2>3 DEF ErrnoTesting, IsErrnoSetting
  <2>5. f.direct /\ f.usage => "ErrnoUsage" \in lastCall.said BY <2>2 DEF ErrnoUsage, SetsErrnoForUsage
  <2>6. ~test.reported /\ f.direct /\ f.testing = f.usage => f.usage BY <2>3, <2>4
  <2> QED BY <2>4, <2>5, <2>6
<1> QED BY <1>3, <1>4

\* What is said of errno and of the objects of the library agrees with what happens
\* when the program runs (LibraryUseJudged), for all functions that set errno or do
\* not, all nestings of blocks and all sequences of calls of the library.
THEOREM LibraryUseRight == ErrnoSpec /\ LibrarySpec => []LibraryUseJudged
<1>1. ErrnoSpec => []ErrnoTestsJudged BY ErrnoStarts, ErrnoStep, TestsJudged, PTL DEF ErrnoSpec
<1>2. ErrnoTestsJudged /\ LibraryJudged => LibraryUseJudged BY DEF LibraryUseJudged
<1> QED BY <1>1, <1>2, LibraryRight, PTL

-----------------------------------------------------------------------------
\* A selection: once an association is chosen, the compiler has accepted all of them,
\* and no other is as good.

SelectionInv ==
  /\ selection \in SelectionStarts
  /\ associations \in Seq(selection.from)
  /\ happened \in Nat
  /\ chosen = 0 => happened = 0
  /\ chosen # 0 =>
       /\ Accepted
       /\ chosen \in ChoiceOf(operand.type)
       /\ happened <= Evaluations(chosen)

LEMMA CompatibleBoth ==
  /\ \A s, t : TypesAreCompatible(s, t) => TypesAreCompatible(t, s)
  /\ \A s, t, u : TypesAreCompatible(s, t) /\ TypesAreCompatible(s, u) => TypesAreCompatible(t, u)
<1>1. \A s, t : {s, t} = {"enum", "unsigned"} <=> (s = "enum" /\ t = "unsigned") \/ (s = "unsigned" /\ t = "enum")
  OBVIOUS
<1> QED BY <1>1 DEF TypesAreCompatible

LEMMA MentionsNumber == \A i : Mentions(i) \in 0 .. 2 /\ Evaluations(i) \in 0 .. 2 /\ Evaluations(i) <= Mentions(i)
<1>1. \A i : Mentions(i) = 0 \/ Mentions(i) = 1 \/ Mentions(i) = 2 BY DEF Mentions
<1>2. \A i : Evaluations(i) = 0 \/ Evaluations(i) = Mentions(i) BY DEF Evaluations
<1> QED BY <1>1, <1>2

LEMMA MentionedOrNot ==
  /\ \A i : ~(Mentions(i) > 0) => Mentions(i) = 0
  /\ \A i : Evaluations(i) > 0 => Mentions(i) > 0
  /\ \A n \in Nat : n # 0 => n > 0
BY MentionsNumber

LEMMA AtMostOne ==
  ASSUME NEW S, IsFiniteSet(S), Cardinality(S) <= 1, NEW i \in S, NEW j \in S
  PROVE  i = j
<1>1. Cardinality({i, j}) <= Cardinality(S) /\ IsFiniteSet({i, j})
  <2>1. {i, j} \in SUBSET S OBVIOUS
  <2> QED BY <2>1, FS_Subset
<1>2. ASSUME i # j PROVE FALSE
  <2>1. IsFiniteSet({i}) /\ Cardinality({i}) = 1 BY FS_Singleton
  <2>2. Cardinality({i} \cup {j}) = Cardinality({i}) + 1
    <3>1. j \notin {i} BY <1>2
    <3> QED BY <2>1, <3>1, FS_AddElement
  <2>3. {i} \cup {j} = {i, j} OBVIOUS
  <2>4. Cardinality(S) \in Nat BY FS_CardinalityType
  <2>5. Cardinality({i, j}) = 2 BY <2>1, <2>2, <2>3
  <2> QED BY <1>1, <2>4, <2>5
<1> QED BY <1>2

LEMMA PlacesKnown ==
  ASSUME associations \in Seq(selection.from)
  PROVE  /\ Len(associations) \in Nat /\ DOMAIN associations = 1 .. Len(associations)
         /\ Defaults \subseteq DOMAIN associations /\ IsFiniteSet(Defaults)
<1>1. Len(associations) \in Nat /\ DOMAIN associations = 1 .. Len(associations) BY LenProperties
<1>2. IsFiniteSet(1 .. Len(associations)) BY <1>1, FS_Interval
<1>3. Defaults \subseteq DOMAIN associations BY DEF Defaults
<1> QED BY <1>1, <1>2, <1>3, FS_Subset

\* What is written decides what the compiler makes of it.
LEMMA SameText ==
  ASSUME selection' = selection, associations' = associations
  PROVE  /\ Accepted' <=> Accepted
         /\ operand' = operand
         /\ ChoiceOf(operand.type)' = ChoiceOf(operand.type)
         /\ \A i : Evaluations(i)' = Evaluations(i)
<1>1. operand' = operand BY DEF operand
<1>2. Defaults' = Defaults BY DEF Defaults, HasType
<1>3. ChoiceOf(operand.type)' = ChoiceOf(operand.type) BY <1>1, <1>2 DEF ChoiceOf, HasType
<1>4. Accepted' <=> Accepted BY <1>1, <1>2, <1>3 DEF Accepted, ByExpr
<1>5. \A i : Evaluations(i)' = Evaluations(i) BY DEF Evaluations, Mentions
<1> QED BY <1>1, <1>3, <1>4, <1>5

LEMMA SelectionStep == ASSUME SelectionInv, [SelectionNext]_selectionVars PROVE SelectionInv'
<1> USE DEF SelectionInv
<1>1. ASSUME NEW a \in selection.from, Associate(a) PROVE SelectionInv'
  <2>1. /\ selection' = selection /\ chosen' = 0 /\ happened' = happened /\ happened = 0
        /\ associations' = Append(associations, a)
    BY <1>1 DEF Associate
  <2>2. Append(associations, a) \in Seq(selection.from) BY AppendProperties
  <2> QED BY <2>1, <2>2
<1>2. CASE Choose
  <2>1. /\ selection' = selection /\ associations' = associations /\ happened' = happened /\ happened = 0
        /\ chosen' \in ChoiceOf(operand.type) /\ Accepted
    BY <1>2 DEF Choose
  <2>2. happened <= Evaluations(chosen') BY <2>1, MentionsNumber
  <2> QED BY <2>1, <2>2, SameText
<1>3. CASE EvaluateChosen
  <2>1. /\ selection' = selection /\ associations' = associations /\ chosen' = chosen /\ happened' = happened + 1
        /\ chosen # 0 /\ happened < Evaluations(chosen)
    BY <1>3 DEF EvaluateChosen
  <2>2. Evaluations(chosen) \in 0 .. 2 BY MentionsNumber
  <2>3. happened + 1 <= Evaluations(chosen) /\ happened + 1 \in Nat BY <2>1, <2>2
  <2> QED BY <2>1, <2>3, SameText
<1>4. CASE UNCHANGED selectionVars
  <2>1. selection' = selection /\ associations' = associations /\ chosen' = chosen /\ happened' = happened
    BY <1>4 DEF selectionVars
  <2> QED BY <2>1, SameText
<1> QED BY <1>1, <1>2, <1>3, <1>4 DEF SelectionNext, Settled

LEMMA OnlyChoice ==
  ASSUME SelectionInv, chosen # 0
  PROVE  ChoiceOf(operand.type) = {chosen} /\ chosen \in DOMAIN associations
<1> DEFINE Fitting == {i \in DOMAIN associations : HasType(i) /\ TypesAreCompatible(operand.type, associations[i].type)}
<1>1. chosen \in ChoiceOf(operand.type) /\ ChoiceOf(operand.type) = IF Fitting # {} THEN Fitting ELSE Defaults
  BY DEF SelectionInv, ChoiceOf
<1>2. Fitting \subseteq DOMAIN associations \ Defaults BY DEF Defaults
<1>3. \A i, j \in Fitting : TypesAreCompatible(associations[i].type, associations[j].type) BY CompatibleBoth
<1>4. \A i, j \in Fitting : i = j BY <1>2, <1>3 DEF SelectionInv, Accepted
<1> HIDE DEF Fitting
<1>5. IsFiniteSet(Defaults) /\ Cardinality(Defaults) <= 1 BY PlacesKnown DEF SelectionInv, Accepted
<1>6. \A i, j \in Defaults : i = j BY <1>5, AtMostOne
<1>7. \A i, j \in ChoiceOf(operand.type) : i = j BY <1>1, <1>4, <1>6
<1>8. ChoiceOf(operand.type) \subseteq DOMAIN associations BY <1>1, <1>2, PlacesKnown DEF SelectionInv
<1> QED BY <1>1, <1>7, <1>8

LEMMA IntIsSigned == EssentialCategory("int") = "SignedInt" /\ Width("int") = 32
BY DEF EssentialCategory, Width

LEMMA NarrowWidths == \A t \in {"bool", "char", "short"} : Width(t) < 32
BY DEF Width

LEMMA TypesRight == SelectionInv => TypesAnnounced
<1> SUFFICES ASSUME SelectionInv, chosen # 0, ByExpr, ChoiceOf(operand.written) # {chosen}
             PROVE  \/ GenericEssentialType \/ GenericImplicitPointer
                    \/ operand.by \in {"shift", "other"} /\ EssentialCategory(operand.type) = "SignedInt"
  BY DEF TypesAnnounced
<1>1. operand.written # operand.type BY OnlyChoice
<1>2. OperandFits(operand) BY SelectionAssumption DEF SelectionInv, operand
<1>3. CASE "decay" \in operand.casts BY <1>3 DEF GenericImplicitPointer
<1>4. CASE operand.type = "int" /\ operand.by = "character" BY <1>4, IntIsSigned DEF GenericEssentialType
<1>5. CASE operand.type = "int" /\ operand.by = "enumerator" BY <1>5, IntIsSigned DEF GenericEssentialType
<1>6. CASE operand.type = "int" /\ operand.by = "additive" /\ operand.written \in {"bool", "char", "short"}
  BY <1>6, IntIsSigned, NarrowWidths DEF GenericEssentialType
<1>7. CASE operand.type = "int" /\ operand.by \in {"shift", "other"} BY <1>7, IntIsSigned
<1> QED BY <1>1, <1>2, <1>3, <1>4, <1>5, <1>6, <1>7 DEF OperandFits

LEMMA EffectsRightHere == SelectionInv => EffectsCounted
<1> SUFFICES ASSUME SelectionInv, chosen # 0, happened = Evaluations(chosen)
             PROVE  /\ happened > 1 => chosen \in GenericParameterUsage \/ argument.vars + argument.functions = 0
                    /\ happened = 0 /\ selection.macro # "" /\ (\E i \in DOMAIN associations : Evaluations(i) > 0) =>
                         \/ chosen \in GenericParameterTypeCheck
                         \/ ~HasType(chosen) \/ Mentions(chosen) > 0 \/ argument.vars = 0 \/ selection.header
  BY DEF EffectsCounted, Evaluated
<1>1. chosen \in DOMAIN associations BY OnlyChoice
<1>2. argument.vars \in Nat /\ argument.functions \in Nat BY SelectionAssumption DEF SelectionInv, argument
<1>3. ASSUME happened > 1, argument.vars + argument.functions # 0 PROVE chosen \in GenericParameterUsage
  <2>1. Mentions(chosen) = 2 BY <1>3, MentionsNumber
  <2>2. 2 * argument.vars > 1 \/ 2 * argument.functions > 1 BY <1>2, <1>3
  <2>3. Repeats(Mentions(chosen), chosen) BY <2>1, <2>2 DEF Repeats
  <2> QED BY <1>1, <2>3 DEF GenericParameterUsage
<1>4. ASSUME selection.macro # "", NEW i \in DOMAIN associations, Evaluations(i) > 0,
             HasType(chosen), ~(Mentions(chosen) > 0), argument.vars # 0, ~selection.header
      PROVE chosen \in GenericParameterTypeCheck
  <2>1. Mentions(chosen) = 0 /\ Mentions(i) > 0 BY <1>4, MentionedOrNot
  <2>2. argument.vars > 0 BY <1>2, <1>4, MentionedOrNot
  <2> QED BY <1>1, <1>4, <2>1, <2>2 DEF GenericParameterTypeCheck
<1> QED BY <1>3, <1>4

LEMMA AcceptedRight == SelectionInv => AcceptedOnly
<1> SUFFICES ASSUME SelectionInv, chosen # 0
             PROVE  /\ GenericCompatibleTypes = {} /\ (GenericAppropriateType = {} \/ ~ByExpr)
                    /\ (\A t \in {associations[i].type : i \in DOMAIN associations} : ChoiceOf(t) = Defaults) => GenericNonDefault
                    /\ ByExpr /\ operand.type \in Incomplete => GenericSuitableControllingExpr /\ ~HasType(chosen)
                    /\ ~HasType(chosen) =>
                         GenericNoExplicitDefault /\ (GenericDefaultPosition => chosen \notin {1, Len(associations)})
  BY DEF AcceptedOnly
<1>1. Accepted /\ chosen \in DOMAIN associations /\ chosen \in ChoiceOf(operand.type) BY OnlyChoice DEF SelectionInv
<1>2. /\ Len(associations) \in Nat /\ DOMAIN associations = 1 .. Len(associations)
      /\ Defaults \subseteq DOMAIN associations /\ IsFiniteSet(Defaults)
  BY PlacesKnown DEF SelectionInv
<1>3. GenericCompatibleTypes = {}
  <2>1. ASSUME NEW j \in DOMAIN associations \ Defaults, NEW i \in 1 .. j - 1, HasType(i),
               TypesAreCompatible(associations[i].type, associations[j].type)
        PROVE FALSE
    <3>1. i \in DOMAIN associations /\ i # j BY <1>2, <2>1
    <3>2. i \notin Defaults BY <2>1 DEF Defaults
    <3> QED BY <1>1, <2>1, <3>1, <3>2 DEF Accepted
  <2> QED BY <2>1 DEF GenericCompatibleTypes
<1>4. GenericAppropriateType = {} \/ ~ByExpr BY <1>1 DEF Accepted, GenericAppropriateType
<1>5. ASSUME \A t \in {associations[i].type : i \in DOMAIN associations} : ChoiceOf(t) = Defaults
      PROVE GenericNonDefault
  <2>1. ASSUME NEW i \in DOMAIN associations, HasType(i) PROVE FALSE
    <3>1. TypesAreCompatible(associations[i].type, associations[i].type) BY DEF TypesAreCompatible
    <3>2. i \in ChoiceOf(associations[i].type) BY <2>1, <3>1 DEF ChoiceOf
    <3>3. i \notin Defaults BY <2>1 DEF Defaults
    <3> QED BY <1>5, <3>2, <3>3
  <2> QED BY <2>1 DEF GenericNonDefault, Defaults
<1>6. ASSUME ByExpr, operand.type \in Incomplete PROVE GenericSuitableControllingExpr /\ ~HasType(chosen)
  <2>1. GenericSuitableControllingExpr BY <1>6 DEF GenericSuitableControllingExpr
  <2>2. ASSUME HasType(chosen) PROVE FALSE
    <3>1. chosen \notin Defaults BY <2>2 DEF Defaults
    <3>2. TypesAreCompatible(operand.type, associations[chosen].type) BY <1>1, <3>1 DEF ChoiceOf
    <3>3. \A t \in Incomplete : \A u : TypesAreCompatible(t, u) => t = u
      <4>1. \A t \in Incomplete : t # "enum" /\ t # "unsigned" BY DEF Incomplete
      <4>2. \A t, u : {t, u} = {"enum", "unsigned"} => t = "enum" \/ t = "unsigned" OBVIOUS
      <4> QED BY <4>1, <4>2 DEF TypesAreCompatible
    <3>4. associations[chosen].type \in Incomplete BY <1>6, <3>2, <3>3
    <3> QED BY <1>1, <1>6, <3>4 DEF Accepted
  <2> QED BY <2>1, <2>2
<1>7. ASSUME ~HasType(chosen) PROVE GenericNoExplicitDefault /\ (GenericDefaultPosition => chosen \notin {1, Len(associations)})
  <2>1. chosen \in Defaults BY <1>1, <1>7 DEF Defaults
  <2>2. GenericNoExplicitDefault BY <2>1 DEF GenericNoExplicitDefault
  <2>3. \A i \in Defaults : i = chosen BY <1>1, <1>2, <2>1, AtMostOne DEF Accepted
  <2> QED BY <2>2, <2>3 DEF GenericDefaultPosition
<1> QED BY <1>3, <1>4, <1>5, <1>6, <1>7

\* The association that is chosen, how often the effects of the argument happen and
\* what is said of the selection agree (SelectionsJudged), for all operands the language
\* converts as assumed, and any number of associations.
THEOREM SelectionsRight == SelectionSpec => []SelectionsJudged
<1>1. SelectionInit => SelectionInv
  <2>1. <<>> \in Seq(selection.from) BY EmptySeq
  <2> QED BY <2>1 DEF SelectionInit, SelectionInv
<1>2. SelectionInv => SelectionsJudged BY TypesRight, EffectsRightHere, AcceptedRight DEF SelectionsJudged
<1> QED BY <1>1, <1>2, SelectionStep, PTL DEF SelectionSpec

-----------------------------------------------------------------------------
\* Two threads and their shared object: types.

TypeInv ==
  /\ shared \in SharedPrograms
  /\ next \in [BothThreads -> Nat \ {0}]
  /\ inner \in [BothThreads -> {"", "one", "two"}]
  /\ mem \in Int \X Int
  /\ copy \in [BothThreads -> Int]
  /\ flags \in [BothThreads -> {0, 1}]
  /\ got \in [BothThreads -> {0, 1}]
  /\ holding \subseteq BothThreads
  /\ onced \in {0, 1, 2, 3}

\* What a thread that is not over is about to do, and the program it belongs to.
LEMMA StepFits ==
  ASSUME TypeInv, NEW t \in BothThreads
  PROVE  /\ ProgramFits(shared)
         /\ ThreadFits(shared, shared.threads[t])
         /\ Len(shared.threads[t]) \in 0 .. MaxThread
         /\ next[t] \in Nat \ {0}
         /\ ~Over(t) => next[t] \in 1 .. Len(shared.threads[t])
<1>1. ProgramFits(shared) BY SharedAssumption DEF TypeInv
<1>2. ThreadFits(shared, shared.threads[t]) BY <1>1 DEF ProgramFits
<1>3. Len(shared.threads[t]) \in 0 .. MaxThread BY <1>2 DEF ThreadFits
<1>4. next[t] \in Nat \ {0} BY DEF TypeInv
<1> QED BY <1>1, <1>2, <1>3, <1>4 DEF Over, MaxThread

\* Every step that a thread takes is one of its program.
LEMMA StepPerformed ==
  ASSUME TypeInv, NEW t \in BothThreads, ~Over(t)
  PROVE  StepOf(t) \in Performed
<1>1. next[t] \in DOMAIN shared.threads[t] BY StepFits DEF ThreadFits
<1> QED BY <1>1 DEF StepOf, Performed

\* What a thread does keeps the positions' types.
MoveTypes == next \in [BothThreads -> Nat \ {0}] /\ inner \in [BothThreads -> {"", "one", "two"}]
LEMMA GoTyped == ASSUME MoveTypes, NEW t \in BothThreads, Go(t) PROVE MoveTypes'
<1>0. next[t] \in Nat /\ next[t] # 0 BY DEF MoveTypes
<1>1. next[t] + 1 \in Nat \ {0} BY <1>0
<1>2. next' \in [BothThreads -> Nat \ {0}] BY <1>1 DEF MoveTypes, Go
<1>3. inner' \in [BothThreads -> {"", "one", "two"}] BY DEF MoveTypes, Go
<1> QED BY <1>2, <1>3 DEF MoveTypes
LEMMA PartTyped ==
  ASSUME MoveTypes, NEW t \in BothThreads, NEW part \in {"one", "two"}, Part(t, part) PROVE MoveTypes'
<1>1. inner' \in [BothThreads -> {"", "one", "two"}] BY DEF MoveTypes, Part
<1> QED BY <1>1 DEF MoveTypes, Part

LEMMA PairTyped == ASSUME mem \in Int \X Int, NEW t \in BothThreads PROVE mem[1] \in Int /\ mem[2] \in Int /\ t \in Int
<1>1. t \in Int BY DEF BothThreads
<1> QED BY <1>1

LEMMA Typing == SharedSpec => []TypeInv
<1>1. SharedInit => TypeInv
  <2> SUFFICES ASSUME SharedInit PROVE TypeInv OBVIOUS
  <2>1. mem \in Int \X Int
    <3>1. mem = <<Unset, Unset>> \/ mem = <<0, 0>> BY DEF SharedInit, ThreadsReady
    <3>2. Unset \in Int BY DEF Unset
    <3>3. CASE mem = <<Unset, Unset>> BY <3>2, <3>3
    <3>4. CASE mem = <<0, 0>> BY <3>4
    <3> QED BY <3>1, <3>3, <3>4
  <2>2. next \in [BothThreads -> Nat \ {0}]
    <3>1. next = [t \in BothThreads |-> 1] BY DEF SharedInit, ThreadsReady
    <3> QED BY <3>1
  <2>3. inner \in [BothThreads -> {"", "one", "two"}]
    <3>1. inner = [t \in BothThreads |-> ""] BY DEF SharedInit, ThreadsReady
    <3> QED BY <3>1
  <2>4. copy \in [BothThreads -> Int]
    <3>1. copy = [t \in BothThreads |-> 0] BY DEF SharedInit, ThreadsReady
    <3> QED BY <3>1
  <2>5. flags \in [BothThreads -> {0, 1}]
    <3>1. flags = [t \in BothThreads |-> 0] BY DEF SharedInit, ThreadsReady
    <3> QED BY <3>1
  <2>6. got \in [BothThreads -> {0, 1}]
    <3>1. got = [t \in BothThreads |-> 1] BY DEF SharedInit, ThreadsReady
    <3> QED BY <3>1
  <2> QED BY <2>1, <2>2, <2>3, <2>4, <2>5, <2>6 DEF SharedInit, ThreadsReady, TypeInv
<1>2. TypeInv /\ [SharedNext]_sharedVars => TypeInv'
  <2> SUFFICES ASSUME TypeInv, [SharedNext]_sharedVars PROVE TypeInv' OBVIOUS
  <2>a. MoveTypes BY DEF TypeInv, MoveTypes
  <2>1. CASE UNCHANGED sharedVars BY <2>1 DEF sharedVars, TypeInv
  <2>2. CASE StarterReturns BY <2>2 DEF StarterReturns, TypeInv
  <2>3. ASSUME NEW t \in BothThreads, LockMutex(t) \/ UnlockMutex(t) PROVE TypeInv'
    <3>1. MoveTypes' BY <2>3, <2>a, GoTyped DEF LockMutex, UnlockMutex
    <3> QED BY <2>3, <3>1 DEF LockMutex, UnlockMutex, TypeInv, MoveTypes
  <2>4. ASSUME NEW t \in BothThreads, Begin(t) PROVE TypeInv'
    <3>0. MoveTypes' BY <2>4, <2>a, PartTyped DEF Begin
    <3>1. mem[1] \in Int /\ mem[2] \in Int /\ t \in Int BY PairTyped DEF TypeInv
    <3>2. mem' \in Int \X Int BY <2>4, <3>1 DEF Begin, TypeInv
    <3>3. copy' \in [BothThreads -> Int] BY <2>4, <3>1 DEF Begin, TypeInv
    <3> QED BY <2>4, <3>0, <3>2, <3>3 DEF Begin, TypeInv, MoveTypes
  <2>5. ASSUME NEW t \in BothThreads, Finish(t) PROVE TypeInv'
    <3>0. MoveTypes' BY <2>5, <2>a, GoTyped DEF Finish
    <3>1. mem[1] \in Int /\ mem[2] \in Int /\ t \in Int BY PairTyped DEF TypeInv
    <3>2. copy[t] \in Int BY DEF TypeInv
    <3>3. copy[t] + 1 \in Int BY <3>2
    <3>4. mem' \in Int \X Int BY <2>5, <3>1, <3>3 DEF Finish, TypeInv
    <3> QED BY <2>5, <3>0, <3>4 DEF Finish, TypeInv, MoveTypes
  <2>6. ASSUME NEW t \in BothThreads, Access(t) PROVE TypeInv'
    <3>0. MoveTypes' BY <2>6, <2>a, GoTyped DEF Access
    <3>1. mem[1] \in Int /\ mem[2] \in Int /\ t \in Int BY PairTyped DEF TypeInv
    <3>2. mem[1] + 1 \in Int BY <3>1
    <3>3. mem' \in Int \X Int BY <2>6, <3>1, <3>2 DEF Access, TypeInv
    <3> QED BY <2>6, <3>0, <3>3 DEF Access, TypeInv, MoveTypes
  <2>7. ASSUME NEW t \in BothThreads, StoreFlag(t) \/ Fence(t) PROVE TypeInv'
    <3>0. MoveTypes' BY <2>7, <2>a, GoTyped DEF StoreFlag, Fence
    <3> QED BY <2>7, <3>0 DEF StoreFlag, Fence, TypeInv, MoveTypes
  <2>8. ASSUME NEW t \in BothThreads, Arrive(t) PROVE TypeInv'
    <3>1. flags' \in [BothThreads -> {0, 1}] BY <2>8 DEF Arrive, TypeInv
    <3> QED BY <2>8, <3>1 DEF Arrive, TypeInv
  <2>9. ASSUME NEW t \in BothThreads, LoadFlag(t) PROVE TypeInv'
    <3>0. MoveTypes' BY <2>9, <2>a, GoTyped DEF LoadFlag
    <3>1. 3 - t \in BothThreads BY DEF BothThreads
    <3>2. flags[3 - t] \in {0, 1} BY <3>1 DEF TypeInv
    <3>3. got' \in [BothThreads -> {0, 1}] BY <2>9, <3>2 DEF LoadFlag, TypeInv
    <3> QED BY <2>9, <3>0, <3>3 DEF LoadFlag, TypeInv, MoveTypes
  <2>10. ASSUME NEW t \in BothThreads, CallOnce(t) PROVE TypeInv'
    <3>0. MoveTypes' BY <2>10, <2>a, GoTyped, PartTyped DEF CallOnce
    <3> QED BY <2>10, <3>0 DEF CallOnce, TypeInv, BothThreads, MoveTypes
  <2>11. ASSUME NEW t \in BothThreads, LockInOnce(t) \/ LeaveOnce(t) PROVE TypeInv'
    <3>0. MoveTypes' BY <2>11, <2>a, GoTyped, PartTyped DEF LockInOnce, LeaveOnce
    <3> QED BY <2>11, <3>0 DEF LockInOnce, LeaveOnce, TypeInv, MoveTypes
  <2>12. ASSUME NEW t \in BothThreads, SetOwn(t) \/ FetchOwn(t) PROVE TypeInv'
    <3>0. MoveTypes' BY <2>12, <2>a, GoTyped DEF SetOwn, FetchOwn
    <3> QED BY <2>12, <3>0 DEF SetOwn, FetchOwn, TypeInv, MoveTypes
  <2> QED
    BY <2>1, <2>2, <2>3, <2>4, <2>5, <2>6, <2>7, <2>8, <2>9, <2>10, <2>11, <2>12 DEF SharedNext
<1> QED BY <1>1, <1>2, PTL DEF SharedSpec


-----------------------------------------------------------------------------
\* Steps that take no part in something: no thread passes a step of that sort.

AwayFrom(whats) ==
  \/ UNCHANGED <<next, inner>>
  \/ \E t \in BothThreads : /\ ~Over(t) /\ StepOf(t).do \notin whats
                            /\ Go(t) \/ Part(t, "one") \/ Part(t, "two")

LEMMA GoneOn ==
  ASSUME TypeInv, NEW u \in BothThreads, Go(u)
  PROVE  /\ next'[u] = next[u] + 1 /\ inner'[u] = ""
         /\ \A t \in BothThreads : t # u => next'[t] = next[t] /\ inner'[t] = inner[t]
<1>1. next \in [BothThreads -> Nat \ {0}] /\ inner \in [BothThreads -> {"", "one", "two"}] BY DEF TypeInv
<1> QED BY <1>1 DEF Go

LEMMA PartDone ==
  ASSUME TypeInv, NEW u \in BothThreads, NEW part, Part(u, part)
  PROVE  /\ inner'[u] = part /\ next' = next
         /\ \A t \in BothThreads : t # u => inner'[t] = inner[t]
<1>1. inner \in [BothThreads -> {"", "one", "two"}] BY DEF TypeInv
<1> QED BY <1>1 DEF Part

\* Where a thread stands after a step that is away from some steps: the step it has
\* passed, if any, is none of them.
LEMMA Advance ==
  ASSUME TypeInv, NEW whats, AwayFrom(whats), NEW t \in BothThreads
  PROVE  \/ next'[t] = next[t]
         \/ /\ next'[t] = next[t] + 1 /\ ~Over(t)
            /\ shared.threads[t][next[t]].do \notin whats
<1>1. CASE UNCHANGED <<next, inner>> BY <1>1
<1>2. ASSUME NEW u \in BothThreads, ~Over(u), StepOf(u).do \notin whats,
             Go(u) \/ Part(u, "one") \/ Part(u, "two")
      PROVE  \/ next'[t] = next[t]
             \/ next'[t] = next[t] + 1 /\ ~Over(t) /\ shared.threads[t][next[t]].do \notin whats
  <2>1. CASE Go(u) BY <1>2, <2>1, GoneOn DEF StepOf
  <2>2. CASE Part(u, "one") \/ Part(u, "two") BY <2>2, PartDone
  <2> QED BY <1>2, <2>1, <2>2
<1> QED BY <1>1, <1>2 DEF AwayFrom

LEMMA LessOne == ASSUME NEW n \in Nat \ {0}, NEW i \in 1 .. n, i # n PROVE i \in 1 .. n - 1
OBVIOUS
LEMMA MoreOne == ASSUME NEW n \in Nat \ {0}, NEW i \in 1 .. n - 1 PROVE i \in 1 .. n /\ i # n
OBVIOUS
LEMMA UpToNext == ASSUME NEW n \in Nat \ {0} PROVE 1 .. (n + 1) - 1 = 1 .. n
OBVIOUS

\* The steps of one sort that a thread has behind it.
LEMMA BehindKept ==
  ASSUME TypeInv, NEW what, NEW whats, what \in whats, AwayFrom(whats), shared' = shared, NEW t \in BothThreads,
         NEW i
  PROVE  (i \in 1 .. next'[t] - 1 /\ shared.threads[t][i].do = what)
           <=> (i \in 1 .. next[t] - 1 /\ shared.threads[t][i].do = what)
<1>1. next[t] \in Nat \ {0} BY StepFits
<1>2. CASE next'[t] = next[t] BY <1>2
<1>3. CASE next'[t] = next[t] + 1 /\ shared.threads[t][next[t]].do \notin whats
  <2>1. 1 .. next'[t] - 1 = 1 .. next[t] BY <1>1, <1>3, UpToNext
  <2>2. i \in 1 .. next[t] /\ shared.threads[t][i].do = what => i # next[t] BY <1>3
  <2> QED BY <1>1, <2>1, <2>2, LessOne, MoreOne
<1> QED BY <1>2, <1>3, Advance

-----------------------------------------------------------------------------
\* Memory orders.

\* A store that a thread has behind it has arrived or is late.  Where all orders are
\* strict, a thread that has missed the other's flag has its own in place, and only one
\* of the two can have missed the other's.
StrictOrders == \A s \in Performed : /\ s.do \in {"store", "load"} => SeqCst(s.order)
                                     /\ s.do = "cas" => SeqCst(s.fail)
SignalInv ==
  /\ \A t \in BothThreads : Stores(t) # {} => t \in late \/ flags[t] = 1
  /\ StrictOrders => \A t \in BothThreads : got[t] = 0 => flags[t] = 1 /\ got[3 - t] = 1

LEMMA StoresKept ==
  ASSUME TypeInv, AwayFrom({"store"}), shared' = shared, NEW t \in BothThreads
  PROVE  Stores(t)' = Stores(t)
<1>1. \A i : i \in Stores(t)' <=> i \in Stores(t)
  <2> SUFFICES ASSUME NEW i PROVE i \in Stores(t)' <=> i \in Stores(t) OBVIOUS
  <2>1. "store" \in {"store"} OBVIOUS
  <2>2. i \in Stores(t) <=> (i \in 1 .. next[t] - 1 /\ shared.threads[t][i].do = "store") BY DEF Stores
  <2>3. i \in Stores(t)' <=> (i \in 1 .. next'[t] - 1 /\ shared.threads[t][i].do = "store") BY DEF Stores
  <2> QED BY <2>1, <2>2, <2>3, BehindKept
<1> QED BY <1>1

LEMMA StrictKept == ASSUME shared' = shared PROVE StrictOrders' <=> StrictOrders
BY DEF StrictOrders, Performed, SeqCst

\* Steps that leave flags alone.
LEMMA SignalAway ==
  ASSUME TypeInv, SignalInv, AwayFrom({"store"}), UNCHANGED <<shared, flags, late, got>>
  PROVE  SignalInv'
<1>1. \A t \in BothThreads : Stores(t)' = Stores(t) BY StoresKept
<1>2. StrictOrders' <=> StrictOrders BY StrictKept
<1> QED BY <1>1, <1>2 DEF SignalInv

LEMMA SignalStore ==
  ASSUME TypeInv, SignalInv, NEW u \in BothThreads, StoreFlag(u)
  PROVE  SignalInv'
<1>1. StrictOrders' <=> StrictOrders BY StrictKept DEF StoreFlag
<1>2. flags' = flags /\ got' = got /\ late' = late \cup {u} /\ shared' = shared /\ Go(u) BY DEF StoreFlag
<1>3. ASSUME NEW t \in BothThreads, Stores(t)' # {} PROVE t \in late' \/ flags'[t] = 1
  <2>1. CASE t = u BY <1>2, <2>1
  <2>2. CASE t # u
    <3>1. next'[t] = next[t] BY <1>2, <2>2, GoneOn
    <3>2. Stores(t)' = Stores(t) BY <1>2, <3>1 DEF Stores
    <3> QED BY <1>2, <1>3, <3>2 DEF SignalInv
  <2> QED BY <2>1, <2>2
<1> QED BY <1>1, <1>2, <1>3 DEF SignalInv

LEMMA SignalArrive ==
  ASSUME TypeInv, SignalInv, NEW u \in BothThreads, Arrive(u)
  PROVE  SignalInv'
<1>1. StrictOrders' <=> StrictOrders BY StrictKept DEF Arrive
<1>2. \A t \in BothThreads : Stores(t)' = Stores(t) BY DEF Arrive, Stores
<1>3. /\ got' = got /\ late' = late \ {u}
      /\ flags'[u] = 1 /\ \A t \in BothThreads : t # u => flags'[t] = flags[t]
  BY DEF Arrive, TypeInv
<1> QED BY <1>1, <1>2, <1>3 DEF SignalInv

LEMMA SignalLoad ==
  ASSUME TypeInv, SignalInv, NEW u \in BothThreads, LoadFlag(u)
  PROVE  SignalInv'
<1>1. StrictOrders' <=> StrictOrders BY StrictKept DEF LoadFlag
<1>2. UNCHANGED <<shared, flags, late>> /\ Go(u) /\ got' = [got EXCEPT ![u] = flags[3 - u]]
      /\ AtStep(u, {"load", "cas"})
  BY DEF LoadFlag
<1>3. \A t \in BothThreads : Stores(t)' = Stores(t)
  <2>1. AwayFrom({"store"}) BY <1>2 DEF AwayFrom, AtStep
  <2> QED BY <1>2, <2>1, StoresKept
<1>4. SUFFICES ASSUME StrictOrders, NEW t \in BothThreads, got'[t] = 0
               PROVE  flags[t] = 1 /\ got'[3 - t] = 1
  BY <1>1, <1>2, <1>3 DEF SignalInv
<1>5. 3 - t \in BothThreads /\ 3 - t # t /\ 3 - (3 - t) = t /\ 3 - u \in BothThreads BY DEF BothThreads
<1>6. got'[u] = flags[3 - u] /\ \A v \in BothThreads : v # u => got'[v] = got[v]
  BY <1>2 DEF TypeInv
<1>7. \A v \in BothThreads : flags[v] \in {0, 1} /\ got[v] \in {0, 1} BY DEF TypeInv
<1>8. u \notin late
  <2>1. StepOf(u) \in Performed BY <1>2, StepPerformed DEF AtStep
  <2>2. SeqCst(IF AtStep(u, {"cas"}) THEN StepOf(u).fail ELSE StepOf(u).order)
    BY <1>2, <1>4, <2>1 DEF StrictOrders, AtStep
  <2>3. StrictStore(u)
    <3> SUFFICES ASSUME NEW i \in Stores(u) PROVE SeqCst(shared.threads[u][i].order)
      BY DEF StrictStore
    <3>1. i \in DOMAIN shared.threads[u] /\ shared.threads[u][i].do = "store"
      <4>1. next[u] \in 1 .. Len(shared.threads[u]) BY <1>2, StepFits DEF AtStep
      <4>2. Len(shared.threads[u]) \in Nat BY StepFits DEF MaxThread
      <4>3. DOMAIN shared.threads[u] = 1 .. Len(shared.threads[u]) BY StepFits DEF ThreadFits
      <4>4. i \in 1 .. next[u] - 1 /\ shared.threads[u][i].do = "store" BY DEF Stores
      <4> QED BY <4>1, <4>2, <4>3, <4>4
    <3>2. shared.threads[u][i] \in Performed BY <3>1 DEF Performed
    <3> QED BY <1>4, <3>1, <3>2 DEF StrictOrders
  <2> QED BY <2>2, <2>3 DEF LoadFlag
<1>9. flags[u] = 1
  <2>1. StepOf(u).do \in {"load", "cas"} /\ ~Over(u) BY <1>2 DEF AtStep
  <2>2. next[u] \in 1 .. Len(shared.threads[u]) BY <2>1, StepFits
  <2>3. PICK j \in 1 .. next[u] - 1 : shared.threads[u][j].do = "store"
    BY <2>1, <2>2, StepFits DEF ThreadFits, StepOf
  <2>4. Stores(u) # {} BY <2>3 DEF Stores
  <2> QED BY <1>8, <2>4 DEF SignalInv
<1>10. CASE t = u
  <2>1. flags[3 - u] = 0 BY <1>4, <1>6, <1>10
  <2>2. got[3 - u] = 1 BY <1>4, <1>5, <1>7, <2>1 DEF SignalInv
  <2> QED BY <1>5, <1>6, <1>9, <1>10, <2>2
<1>11. CASE t # u
  <2>1. t = 3 - u /\ u = 3 - t BY <1>11 DEF BothThreads
  <2>2. got[t] = 0 BY <1>4, <1>6, <1>11
  <2>3. flags[t] = 1 BY <1>4, <2>2 DEF SignalInv
  <2> QED BY <1>6, <2>1, <2>3
<1> QED BY <1>10, <1>11

LEMMA SignalInit == SharedInit => SignalInv
<1> SUFFICES ASSUME SharedInit PROVE SignalInv OBVIOUS
<1>1. \A t \in BothThreads : next[t] = 1 /\ got[t] = 1 BY DEF SharedInit, ThreadsReady
<1>2. \A t \in BothThreads : Stores(t) = {} BY <1>1 DEF Stores
<1> QED BY <1>1, <1>2 DEF SignalInv

LEMMA SignalStep == TypeInv /\ SignalInv /\ [SharedNext]_sharedVars => SignalInv'
<1> SUFFICES ASSUME TypeInv, SignalInv, [SharedNext]_sharedVars PROVE SignalInv' OBVIOUS
<1> USE DEF AwayFrom, AtStep
<1>1. CASE UNCHANGED sharedVars BY <1>1, SignalAway DEF sharedVars
<1>2. CASE StarterReturns BY <1>2, SignalAway DEF StarterReturns
<1>3. ASSUME NEW t \in BothThreads, LockMutex(t) PROVE SignalInv' BY <1>3, SignalAway DEF LockMutex
<1>4. ASSUME NEW t \in BothThreads, UnlockMutex(t) PROVE SignalInv' BY <1>4, SignalAway DEF UnlockMutex
<1>5. ASSUME NEW t \in BothThreads, Begin(t) PROVE SignalInv' BY <1>5, SignalAway DEF Begin, Accesses
<1>6. ASSUME NEW t \in BothThreads, Finish(t) PROVE SignalInv' BY <1>6, SignalAway DEF Finish, Accesses
<1>7. ASSUME NEW t \in BothThreads, Access(t) PROVE SignalInv' BY <1>7, SignalAway DEF Access, Accesses
<1>8. ASSUME NEW t \in BothThreads, StoreFlag(t) PROVE SignalInv' BY <1>8, SignalStore
<1>9. ASSUME NEW t \in BothThreads, Arrive(t) PROVE SignalInv' BY <1>9, SignalArrive
<1>10. ASSUME NEW t \in BothThreads, LoadFlag(t) PROVE SignalInv' BY <1>10, SignalLoad
<1>11. ASSUME NEW t \in BothThreads, Fence(t) PROVE SignalInv' BY <1>11, SignalAway DEF Fence
<1>12. ASSUME NEW t \in BothThreads, CallOnce(t) PROVE SignalInv' BY <1>12, SignalAway DEF CallOnce
<1>13. ASSUME NEW t \in BothThreads, LockInOnce(t) PROVE SignalInv' BY <1>13, SignalAway DEF LockInOnce
<1>14. ASSUME NEW t \in BothThreads, LeaveOnce(t) PROVE SignalInv' BY <1>14, SignalAway DEF LeaveOnce
<1>15. ASSUME NEW t \in BothThreads, SetOwn(t) PROVE SignalInv' BY <1>15, SignalAway DEF SetOwn
<1>16. ASSUME NEW t \in BothThreads, FetchOwn(t) PROVE SignalInv' BY <1>16, SignalAway DEF FetchOwn
<1> QED
  BY <1>1, <1>2, <1>3, <1>4, <1>5, <1>6, <1>7, <1>8, <1>9, <1>10, <1>11, <1>12, <1>13, <1>14, <1>15, <1>16
     DEF SharedNext

LEMMA SignalJudged == TypeInv /\ SignalInv => OrdersReported
<1> SUFFICES ASSUME TypeInv, SignalInv, \A t \in BothThreads : got[t] = 0,
                    \A s \in Performed : ~MemorySyncOrder(s),
                    ~\E s \in Performed : /\ s.do \in {"store", "load", "fence", "cas"}
                                          /\ "variable" = IF s.do = "cas" THEN s.fail ELSE s.order
             PROVE  FALSE
  BY DEF OrdersReported
<1>1. StrictOrders
  <2> SUFFICES ASSUME NEW s \in Performed
               PROVE  /\ s.do \in {"store", "load"} => SeqCst(s.order)
                      /\ s.do = "cas" => SeqCst(s.fail)
    BY DEF StrictOrders
  <2>1. ASSUME s.do \in {"store", "load"} PROVE SeqCst(s.order)
    BY <2>1 DEF MemorySyncOrder, NonSeqCst, SeqCst
  <2>2. ASSUME s.do = "cas" PROVE SeqCst(s.fail)
    BY <2>2 DEF MemorySyncOrder, NonSeqCst, SeqCst
  <2> QED BY <2>1, <2>2
<1>2. 1 \in BothThreads /\ 3 - 1 \in BothThreads BY DEF BothThreads
<1> QED BY <1>1, <1>2 DEF SignalInv

-----------------------------------------------------------------------------
\* Mutexes.

\* What went wrong with the mutex, and who holds it: with no call_once around, the one
\* whose last step with the mutex was to lock it.
NoOnce == \A s \in Performed : s.do # "once"
LockedAt(t, i) == /\ i \in 1 .. Len(shared.threads[t]) /\ shared.threads[t][i].do = "lock"
                  /\ \A j \in i + 1 .. next[t] - 1 : shared.threads[t][j].do # "unlock"
MutexInv ==
  /\ "mutex gone" \in amiss => shared.mutex.storage = "automatic"
  /\ shared.mutex.storage = "thread" \/ \A t, u \in holding : t = u
  /\ NoOnce => \A t \in holding : \E i \in 1 .. next[t] - 1 : LockedAt(t, i)

LEMMA OnceKept == ASSUME shared' = shared PROVE NoOnce' <=> NoOnce
BY DEF NoOnce, Performed

LEMMA LockedKept ==
  ASSUME TypeInv, AwayFrom({"unlock"}), shared' = shared, NEW t \in BothThreads,
         NEW i \in 1 .. next[t] - 1, LockedAt(t, i)
  PROVE  i \in 1 .. next'[t] - 1 /\ LockedAt(t, i)'
<1>1. next[t] \in Nat \ {0} /\ (next'[t] = next[t] \/ next'[t] = next[t] + 1) BY StepFits, Advance
<1>2. i \in 1 .. next'[t] - 1 BY <1>1
<1>3. ASSUME NEW j \in i + 1 .. next'[t] - 1 PROVE shared.threads[t][j].do # "unlock"
  <2>1. j \in 1 .. next'[t] - 1 BY <1>1
  <2>2. CASE j \in 1 .. next[t] - 1
    <3>1. j \in i + 1 .. next[t] - 1 BY <1>1, <2>2
    <3> QED BY <3>1 DEF LockedAt
  <2>3. CASE j \notin 1 .. next[t] - 1
    <3>1. "unlock" \in {"unlock"} OBVIOUS
    <3> QED BY <2>1, <2>3, <3>1, BehindKept
  <2> QED BY <2>2, <2>3
<1> QED BY <1>2, <1>3 DEF LockedAt

\* Steps that leave the mutex alone.
LEMMA MutexAway ==
  ASSUME TypeInv, MutexInv, AwayFrom({"unlock"}), UNCHANGED <<shared, holding>>,
         "mutex gone" \in amiss' => "mutex gone" \in amiss
  PROVE  MutexInv'
<1>1. NoOnce' <=> NoOnce BY OnceKept
<1>2. ASSUME NoOnce, NEW t \in holding PROVE \E i \in 1 .. next'[t] - 1 : LockedAt(t, i)'
  <2>1. t \in BothThreads BY DEF TypeInv
  <2>2. PICK i \in 1 .. next[t] - 1 : LockedAt(t, i) BY <1>2 DEF MutexInv
  <2> QED BY <2>1, <2>2, LockedKept
<1>3. \A t \in holding' : (\E i \in 1 .. next[t] - 1 : LockedAt(t, i))' <=> \E i \in 1 .. next'[t] - 1 : LockedAt(t, i)'
  OBVIOUS
<1> QED BY <1>1, <1>2, <1>3 DEF MutexInv

LEMMA MutexLock ==
  ASSUME TypeInv, MutexInv, NEW u \in BothThreads, LockMutex(u)
  PROVE  MutexInv'
<1>1. /\ AtStep(u, {"lock"}) /\ MutexFree /\ holding' = holding \cup {u} /\ Go(u)
      /\ shared' = shared /\ Amiss("mutex gone", MutexGone)
  BY DEF LockMutex
<1>2. "mutex gone" \in amiss' => shared'.mutex.storage = "automatic"
  BY <1>1 DEF MutexInv, Amiss, MutexGone
<1>3. shared'.mutex.storage = "thread" \/ \A t, v \in holding' : t = v
  BY <1>1 DEF MutexInv, MutexFree
<1>4. ASSUME NoOnce, NEW t \in holding' PROVE \E i \in 1 .. next'[t] - 1 : LockedAt(t, i)'
  <2>1. t \in BothThreads BY <1>1 DEF TypeInv
  <2>2. CASE t = u
    <3>1. next'[u] = next[u] + 1 /\ next[u] \in Nat \ {0} BY <1>1, GoneOn, StepFits
    <3>2. next[u] \in 1 .. next'[u] - 1 /\ next[u] + 1 .. next'[u] - 1 = {} BY <3>1
    <3>3. shared.threads[u][next[u]].do = "lock" /\ next[u] \in 1 .. Len(shared.threads[u])
      BY <1>1, StepFits DEF AtStep, StepOf
    <3>4. ASSUME NEW i \in Nat, i = next[u] PROVE LockedAt(u, i)'
      BY <1>1, <3>2, <3>3, <3>4 DEF LockedAt
    <3>5. next[u] \in Nat BY <3>1
    <3> QED BY <2>2, <3>2, <3>4, <3>5
  <2>3. CASE t # u
    <3>1. t \in holding BY <1>1, <2>3
    <3>2. AwayFrom({"unlock"}) BY <1>1 DEF AwayFrom, AtStep
    <3>3. PICK i \in 1 .. next[t] - 1 : LockedAt(t, i) BY <1>4, <3>1 DEF MutexInv
    <3> QED BY <1>1, <2>1, <3>2, <3>3, LockedKept
  <2> QED BY <2>2, <2>3
<1>5. NoOnce' <=> NoOnce BY <1>1, OnceKept
<1> QED BY <1>2, <1>3, <1>4, <1>5 DEF MutexInv

LEMMA MutexUnlock ==
  ASSUME TypeInv, MutexInv, NEW u \in BothThreads, UnlockMutex(u)
  PROVE  MutexInv'
<1>1. /\ holding' = holding \ {u} /\ Go(u) /\ shared' = shared /\ Amiss("mutex gone", MutexGone)
  BY DEF UnlockMutex
<1>2. "mutex gone" \in amiss' => shared'.mutex.storage = "automatic"
  BY <1>1 DEF MutexInv, Amiss, MutexGone
<1>3. ASSUME NoOnce, NEW t \in holding' PROVE \E i \in 1 .. next'[t] - 1 : LockedAt(t, i)'
  <2>1. t \in BothThreads /\ t \in holding /\ t # u BY <1>1 DEF TypeInv
  <2>2. next'[t] = next[t] BY <1>1, <2>1, GoneOn
  <2>3. PICK i \in 1 .. next[t] - 1 : LockedAt(t, i) BY <1>3, <2>1 DEF MutexInv
  <2>4. LockedAt(t, i)' BY <1>1, <2>2, <2>3 DEF LockedAt
  <2> QED BY <2>2, <2>4
<1>4. NoOnce' <=> NoOnce BY <1>1, OnceKept
<1> QED BY <1>1, <1>2, <1>3, <1>4 DEF MutexInv

\* Steps of call_once.
LEMMA MutexOnce ==
  ASSUME TypeInv, MutexInv, NEW u \in BothThreads, LockInOnce(u) \/ LeaveOnce(u)
  PROVE  MutexInv'
<1>1. /\ AtStep(u, {"once"}) /\ shared' = shared
      /\ \/ holding' = holding \ {u} /\ amiss' = amiss
         \/ MutexFree /\ holding' = holding \cup {u} /\ Amiss("mutex gone", MutexGone)
  BY DEF LockInOnce, LeaveOnce
<1>2. ~NoOnce
  <2>1. StepOf(u) \in Performed /\ StepOf(u).do = "once" BY <1>1, StepPerformed DEF AtStep
  <2> QED BY <2>1 DEF NoOnce
<1>3. ~NoOnce' BY <1>1, <1>2, OnceKept
<1>4. "mutex gone" \in amiss' => shared'.mutex.storage = "automatic"
  BY <1>1 DEF MutexInv, Amiss, MutexGone
<1>5. shared'.mutex.storage = "thread" \/ \A t, v \in holding' : t = v
  BY <1>1 DEF MutexInv, MutexFree
<1> QED BY <1>3, <1>4, <1>5 DEF MutexInv

LEMMA MutexInit == SharedInit => MutexInv
BY DEF SharedInit, ThreadsReady, MutexInv

LEMMA MutexStep == TypeInv /\ MutexInv /\ [SharedNext]_sharedVars => MutexInv'
<1> SUFFICES ASSUME TypeInv, MutexInv, [SharedNext]_sharedVars PROVE MutexInv' OBVIOUS
<1> USE DEF AwayFrom, AtStep
<1>1. CASE UNCHANGED sharedVars BY <1>1, MutexAway DEF sharedVars
<1>2. CASE StarterReturns BY <1>2, MutexAway DEF StarterReturns
<1>3. ASSUME NEW t \in BothThreads, LockMutex(t) PROVE MutexInv' BY <1>3, MutexLock
<1>4. ASSUME NEW t \in BothThreads, UnlockMutex(t) PROVE MutexInv' BY <1>4, MutexUnlock
<1>5. ASSUME NEW t \in BothThreads, Begin(t) PROVE MutexInv' BY <1>5, MutexAway DEF Begin, Accesses
<1>6. ASSUME NEW t \in BothThreads, Finish(t) PROVE MutexInv' BY <1>6, MutexAway DEF Finish, Accesses, Amiss
<1>7. ASSUME NEW t \in BothThreads, Access(t) PROVE MutexInv' BY <1>7, MutexAway DEF Access, Accesses
<1>8. ASSUME NEW t \in BothThreads, StoreFlag(t) PROVE MutexInv' BY <1>8, MutexAway DEF StoreFlag
<1>9. ASSUME NEW t \in BothThreads, Arrive(t) PROVE MutexInv' BY <1>9, MutexAway DEF Arrive
<1>10. ASSUME NEW t \in BothThreads, LoadFlag(t) PROVE MutexInv' BY <1>10, MutexAway DEF LoadFlag
<1>11. ASSUME NEW t \in BothThreads, Fence(t) PROVE MutexInv' BY <1>11, MutexAway DEF Fence
<1>12. ASSUME NEW t \in BothThreads, CallOnce(t) PROVE MutexInv' BY <1>12, MutexAway DEF CallOnce
<1>13. ASSUME NEW t \in BothThreads, LockInOnce(t) PROVE MutexInv' BY <1>13, MutexOnce
<1>14. ASSUME NEW t \in BothThreads, LeaveOnce(t) PROVE MutexInv' BY <1>14, MutexOnce
<1>15. ASSUME NEW t \in BothThreads, SetOwn(t) PROVE MutexInv' BY <1>15, MutexAway DEF SetOwn
<1>16. ASSUME NEW t \in BothThreads, FetchOwn(t) PROVE MutexInv' BY <1>16, MutexAway DEF FetchOwn, Amiss
<1> QED
  BY <1>1, <1>2, <1>3, <1>4, <1>5, <1>6, <1>7, <1>8, <1>9, <1>10, <1>11, <1>12, <1>13, <1>14, <1>15, <1>16
     DEF SharedNext

\* A thread that has locked the mutex and not unlocked it is neither over nor about to lock it.
LEMMA HolderGoesOn ==
  ASSUME TypeInv, NEW t \in BothThreads, NEW i \in 1 .. next[t] - 1, LockedAt(t, i)
  PROVE  ~Over(t) /\ ~AtStep(t, {"lock"})
<1> DEFINE s == shared.threads[t]
<1>1. /\ next[t] \in Nat \ {0} /\ Len(s) \in Nat BY StepFits DEF MaxThread
<1>2. PICK j \in i + 1 .. Len(s) : s[j].do = "unlock" /\ \A k \in i + 1 .. j - 1 : s[k].do # "lock"
  BY StepFits DEF ThreadFits, LockedAt
<1>3. j >= next[t]
  <2>1. j \notin i + 1 .. next[t] - 1 BY <1>2 DEF LockedAt
  <2> QED BY <1>1, <2>1
<1>4. ~Over(t) BY <1>1, <1>3 DEF Over
<1>5. ASSUME AtStep(t, {"lock"}) PROVE FALSE
  <2>1. s[next[t]].do = "lock" BY <1>5 DEF AtStep, StepOf
  <2>2. next[t] # j BY <1>2, <2>1
  <2>3. next[t] \in i + 1 .. j - 1 BY <1>1, <1>3, <2>2
  <2> QED BY <1>2, <2>1, <2>3
<1> QED BY <1>4, <1>5

LEMMA MutexJudged == TypeInv /\ MutexInv => MutexesReported
<1> SUFFICES ASSUME TypeInv, MutexInv PROVE MutexesReported OBVIOUS
<1>1. ASSUME "mutex gone" \in amiss \/ Cardinality(holding) = 2
      PROVE  ThreadObjectStorage \/ shared.mutex.declared # "mtx_t"
  <2>1. CASE "mutex gone" \in amiss BY <2>1 DEF MutexInv, ThreadObjectStorage
  <2>2. CASE Cardinality(holding) = 2
    <3>1. ASSUME \A t, u \in holding : t = u PROVE FALSE
      <4>1. CASE holding = {} BY <2>2, <4>1, FS_EmptySet
      <4>2. ASSUME NEW t \in holding PROVE FALSE
        <5>1. holding = {t} BY <3>1
        <5> QED BY <2>2, <5>1, FS_Singleton
      <4> QED BY <4>1, <4>2
    <3> QED BY <3>1 DEF MutexInv, ThreadObjectStorage
  <2> QED BY <1>1, <2>1, <2>2
<1>2. ASSUME Stuck, NoOnce PROVE FALSE
  <2>1. PICK t \in BothThreads : ~Over(t) BY <1>2 DEF Stuck, AllOver
  <2>2. \A u \in BothThreads : ~Over(u) => AtStep(u, {"lock"}) /\ ~MutexFree
    <3> SUFFICES ASSUME NEW u \in BothThreads, ~Over(u) PROVE AtStep(u, {"lock"}) /\ ~MutexFree OBVIOUS
    <3>1. ~AtStep(u, {"once"}) BY <1>2, StepPerformed DEF AtStep, NoOnce
    <3> QED BY <1>2, <3>1 DEF Stuck, Waits
  <2>3. PICK h \in holding : TRUE BY <2>1, <2>2 DEF MutexFree
  <2>4. h \in BothThreads BY DEF TypeInv
  <2>5. PICK i \in 1 .. next[h] - 1 : LockedAt(h, i) BY <1>2 DEF MutexInv
  <2> QED BY <2>2, <2>4, <2>5, HolderGoesOn
<1>3. NoOnce \/ \E s \in Performed : NestedSyncCalls(s) \/ (s.do = "once" /\ s.calls = "function")
  <2> SUFFICES ASSUME ~NoOnce PROVE \E s \in Performed : NestedSyncCalls(s) \/ (s.do = "once" /\ s.calls = "function")
    OBVIOUS
  <2>1. PICK s \in Performed : s.do = "once" BY DEF NoOnce
  <2>2. s.calls \in {"lambda", "function"}
    <3>1. PICK t \in BothThreads : \E i \in DOMAIN shared.threads[t] : s = shared.threads[t][i] BY DEF Performed
    <3>2. PICK i \in DOMAIN shared.threads[t] : s = shared.threads[t][i] BY <3>1
    <3>3. i \in 1 .. Len(shared.threads[t]) BY StepFits DEF ThreadFits
    <3> QED BY <2>1, <3>2, <3>3, StepFits DEF ThreadFits
  <2> QED BY <2>1, <2>2 DEF NestedSyncCalls
<1> QED BY <1>1, <1>2, <1>3 DEF MutexesReported

-----------------------------------------------------------------------------
\* The object.

\* A counter that is atomic, and only ever counted by ++, holds the number of counts that
\* the threads have behind them; the halves of a struct that is only read and written as
\* a whole are equal; an object per thread stays as it was.
CountsDone == {c \in Counts : c[2] < next[c[1]]}
Counted   == /\ shared.object.storage = "static" /\ shared.object.type \in {"atomic", "atomic array"}
             /\ \A s \in Performed : s.do # "+1"
WholeOnly == /\ shared.object.type = "atomic struct"
             /\ \A s \in Performed : s.do \in {"put", "get"} => s.via = "whole"
ValueInv  == shared.object.init => mem[1] \in Nat /\ \A t \in BothThreads : copy[t] \in Nat
OwnInv    == Own => mem = <<0, 0>> /\ \A t \in BothThreads : copy[t] = 0
WholeInv  == WholeOnly => mem[1] = mem[2]
CountInv  == Counted => mem[1] = Cardinality(CountsDone)
InnerInv  == \A t \in BothThreads : AtStep(t, Accesses) /\ inner[t] # "" => ~AtOnce(StepOf(t))
\* What has gone wrong with the object is down to its type and the steps.
BlameInv ==
  /\ "race" \in amiss => /\ shared.object.type \in {"int", "struct", "subatomic"} /\ ~Own
                         /\ \E s \in Performed : s.do \in Accesses
  /\ "unset" \in amiss => ~shared.object.init
  /\ "torn" \in amiss => /\ shared.object.type \in {"struct", "atomic struct", "subatomic"} /\ ~Own /\ ~WholeOnly
                         /\ \E s \in Performed : s.do \in Accesses
MemoryInv == ValueInv /\ OwnInv /\ WholeInv /\ CountInv /\ InnerInv /\ BlameInv

LEMMA ProgramKept ==
  ASSUME shared' = shared
  PROVE  /\ Performed' = Performed /\ Own' = Own /\ (Counted' <=> Counted) /\ (WholeOnly' <=> WholeOnly)
         /\ \A s : AtOnce(s)' <=> AtOnce(s)
BY DEF Performed, Own, Counted, WholeOnly, AtOnce, Accesses

\* The steps of a program suit its object.
LEMMA StepSuits ==
  ASSUME TypeInv, NEW t \in BothThreads, ~Over(t)
  PROVE  /\ StepOf(t).do \in {"++", "+1"} => shared.object.type \in {"int", "atomic", "atomic array"}
         /\ StepOf(t).do \in {"put", "get"} => shared.object.type \in {"struct", "atomic struct", "subatomic"}
<1>1. next[t] \in 1 .. Len(shared.threads[t]) BY StepFits
<1> QED BY <1>1, StepFits DEF ThreadFits, StepOf

LEMMA AllAtOnce ==
  ASSUME TypeInv, NEW t \in BothThreads, AtStep(t, Accesses), Counted \/ WholeOnly
  PROVE  AtOnce(StepOf(t))
<1>1. /\ StepOf(t) \in Performed /\ StepOf(t).do \in {"peek", "++", "+1", "put", "get"}
      /\ StepOf(t).do \in {"++", "+1"} => shared.object.type \in {"int", "atomic", "atomic array"}
      /\ StepOf(t).do \in {"put", "get"} => shared.object.type \in {"struct", "atomic struct", "subatomic"}
  BY StepPerformed, StepSuits DEF AtStep, Accesses
<1> QED BY <1>1 DEF Counted, WholeOnly, AtOnce

\* The counts behind the threads.
LEMMA StepNumbers ==
  ASSUME NEW c \in BothThreads \X (1 .. MaxThread)
  PROVE  c[1] \in BothThreads /\ c[2] \in Nat \ {0} /\ c = <<c[1], c[2]>>
<1>1. c[1] \in BothThreads /\ c[2] \in 1 .. MaxThread /\ c = <<c[1], c[2]>> OBVIOUS
<1>2. \A i \in 1 .. MaxThread : i \in Nat \ {0} BY DEF MaxThread
<1> QED BY <1>1, <1>2

LEMMA WithinBound == ASSUME NEW m \in 0 .. MaxThread, NEW n \in 1 .. m PROVE n \in 1 .. MaxThread /\ n <= m
BY DEF MaxThread

LEMMA CountsFinite == IsFiniteSet(CountsDone) /\ Cardinality(CountsDone) \in Nat
<1>1. IsFiniteSet(BothThreads)
  <2>1. BothThreads = 1 .. 2 BY DEF BothThreads
  <2>2. 1 \in Int /\ 2 \in Int OBVIOUS
  <2>3. IsFiniteSet(1 .. 2) BY <2>2, FS_Interval
  <2> QED BY <2>1, <2>3
<1>2. IsFiniteSet(1 .. MaxThread)
  <2>1. 1 \in Int /\ MaxThread \in Int BY DEF MaxThread
  <2> QED BY <2>1, FS_Interval
<1>3. IsFiniteSet(BothThreads \X (1 .. MaxThread)) BY <1>1, <1>2, FS_Product
<1>4. CountsDone \subseteq BothThreads \X (1 .. MaxThread) BY DEF CountsDone, Counts
<1>5. IsFiniteSet(CountsDone) BY <1>3, <1>4, FS_Subset
<1> QED BY <1>5, FS_CardinalityType

LEMMA CountsBehind ==
  ASSUME TypeInv, NEW c
  PROVE  c \in CountsDone <=>
           /\ c \in BothThreads \X (1 .. MaxThread) /\ c[2] \in 1 .. next[c[1]] - 1
           /\ c[2] <= Len(shared.threads[c[1]]) /\ shared.threads[c[1]][c[2]].do \in {"++", "+1"}
<1>1. c \in BothThreads \X (1 .. MaxThread) => c[1] \in BothThreads /\ c[2] \in Nat \ {0} BY StepNumbers
<1>2. c \in BothThreads \X (1 .. MaxThread) => next[c[1]] \in Nat \ {0} /\ c[2] \in Nat \ {0}
  BY <1>1 DEF TypeInv
<1>3. c \in BothThreads \X (1 .. MaxThread) => (c[2] < next[c[1]] <=> c[2] \in 1 .. next[c[1]] - 1)
  BY <1>2
<1> QED BY <1>3 DEF CountsDone, Counts

LEMMA CountsKept ==
  ASSUME TypeInv, TypeInv', shared' = shared, AwayFrom({"++", "+1"})
  PROVE  CountsDone' = CountsDone
<1>1. ASSUME NEW c \in BothThreads \X (1 .. MaxThread)
      PROVE  c[2] \in 1 .. next'[c[1]] - 1 /\ shared.threads[c[1]][c[2]].do \in {"++", "+1"}
               <=> c[2] \in 1 .. next[c[1]] - 1 /\ shared.threads[c[1]][c[2]].do \in {"++", "+1"}
  <2>1. c[1] \in BothThreads /\ "++" \in {"++", "+1"} /\ "+1" \in {"++", "+1"} OBVIOUS
  <2>2. (c[2] \in 1 .. next'[c[1]] - 1 /\ shared.threads[c[1]][c[2]].do = "++")
          <=> (c[2] \in 1 .. next[c[1]] - 1 /\ shared.threads[c[1]][c[2]].do = "++")
    BY <2>1, BehindKept
  <2>3. (c[2] \in 1 .. next'[c[1]] - 1 /\ shared.threads[c[1]][c[2]].do = "+1")
          <=> (c[2] \in 1 .. next[c[1]] - 1 /\ shared.threads[c[1]][c[2]].do = "+1")
    BY <2>1, BehindKept
  <2> QED BY <2>2, <2>3
<1>2. ASSUME NEW c \in BothThreads \X (1 .. MaxThread)
      PROVE  c[2] < next'[c[1]] /\ shared.threads[c[1]][c[2]].do \in {"++", "+1"}
               <=> c[2] < next[c[1]] /\ shared.threads[c[1]][c[2]].do \in {"++", "+1"}
  <2>1. /\ c[1] \in BothThreads /\ c[2] \in Nat \ {0}
        /\ next[c[1]] \in Nat \ {0} /\ next'[c[1]] \in Nat \ {0}
    BY StepNumbers DEF TypeInv
  <2>2. /\ c[2] < next[c[1]] <=> c[2] \in 1 .. next[c[1]] - 1
        /\ c[2] < next'[c[1]] <=> c[2] \in 1 .. next'[c[1]] - 1
    BY <2>1
  <2> QED BY <1>1, <2>2
<1>3. \A c : c \in CountsDone' <=> c \in CountsDone
  <2> SUFFICES ASSUME NEW c PROVE c \in CountsDone' <=> c \in CountsDone OBVIOUS
  <2>1. c \in CountsDone' <=> /\ c \in BothThreads \X (1 .. MaxThread)
                              /\ c[2] <= Len(shared.threads[c[1]]) /\ shared.threads[c[1]][c[2]].do \in {"++", "+1"}
                              /\ c[2] < next'[c[1]]
    BY DEF CountsDone, Counts, BothThreads, MaxThread
  <2>2. c \in CountsDone <=> /\ c \in BothThreads \X (1 .. MaxThread)
                             /\ c[2] <= Len(shared.threads[c[1]]) /\ shared.threads[c[1]][c[2]].do \in {"++", "+1"}
                             /\ c[2] < next[c[1]]
    BY DEF CountsDone, Counts
  <2> QED BY <1>2, <2>1, <2>2
<1> QED BY <1>3

LEMMA CountsOneMore ==
  ASSUME TypeInv, shared' = shared, NEW u \in BothThreads, AtStep(u, {"++", "+1"}), Go(u)
  PROVE  Cardinality(CountsDone') = Cardinality(CountsDone) + 1
<1> DEFINE n == next[u]
           new == <<u, n>>
<1>1. n \in 1 .. Len(shared.threads[u]) /\ n \in 1 .. MaxThread
  <2>1. n \in 1 .. Len(shared.threads[u]) /\ Len(shared.threads[u]) \in 0 .. MaxThread BY StepFits DEF AtStep
  <2> QED BY <2>1, WithinBound
<1>2. shared.threads[u][n].do \in {"++", "+1"} BY DEF AtStep, StepOf
<1>3. next'[u] = n + 1 /\ \A t \in BothThreads : t # u => next'[t] = next[t] BY GoneOn
<1>4. \A c : c \in CountsDone' <=> c \in CountsDone \/ c = new
  <2> SUFFICES ASSUME NEW c PROVE c \in CountsDone' <=> c \in CountsDone \/ c = new OBVIOUS
  <2>1. c \in CountsDone' <=> /\ c \in BothThreads \X (1 .. MaxThread)
                              /\ c[2] <= Len(shared.threads[c[1]]) /\ shared.threads[c[1]][c[2]].do \in {"++", "+1"}
                              /\ c[2] < next'[c[1]]
    BY DEF CountsDone, Counts, BothThreads, MaxThread
  <2>2. c \in CountsDone <=> /\ c \in BothThreads \X (1 .. MaxThread)
                             /\ c[2] <= Len(shared.threads[c[1]]) /\ shared.threads[c[1]][c[2]].do \in {"++", "+1"}
                             /\ c[2] < next[c[1]]
    BY DEF CountsDone, Counts
  <2>3. new \in BothThreads \X (1 .. MaxThread) /\ new[1] = u /\ new[2] = n BY <1>1
  <2>4. CASE c = new
    <3>1. n <= Len(shared.threads[u]) /\ n < n + 1 BY <1>1
    <3> QED BY <1>2, <1>3, <2>1, <2>3, <2>4, <3>1
  <2>5. CASE c # new /\ c \in BothThreads \X (1 .. MaxThread)
    <3>1. c[1] \in BothThreads /\ c[2] \in Nat /\ n \in Nat /\ c = <<c[1], c[2]>> BY <1>1, <2>5 DEF MaxThread
    <3>2. CASE c[1] = u
      <4>1. c[2] # n BY <2>5, <3>1, <3>2
      <4>2. c[2] < n + 1 <=> c[2] < n BY <3>1, <4>1
      <4> QED BY <1>3, <2>1, <2>2, <2>5, <3>2, <4>2
    <3>3. CASE c[1] # u BY <1>3, <2>1, <2>2, <2>5, <3>1, <3>3
    <3> QED BY <3>2, <3>3
  <2>6. CASE c # new /\ c \notin BothThreads \X (1 .. MaxThread) BY <2>1, <2>2, <2>6
  <2> QED BY <2>4, <2>5, <2>6
<1>5. CountsDone' = CountsDone \cup {new} BY <1>4
<1>6. new \notin CountsDone
  <2>1. new[1] = u /\ new[2] = n /\ ~(n < n) BY <1>1
  <2> QED BY <2>1 DEF CountsDone
<1> HIDE DEF new
<1> QED BY <1>5, <1>6, CountsFinite, FS_AddElement

LEMMA BlamePrimed ==
  ASSUME shared' = shared,
         "race" \in amiss' => /\ shared.object.type \in {"int", "struct", "subatomic"} /\ ~Own
                              /\ \E s \in Performed : s.do \in Accesses,
         "unset" \in amiss' => ~shared.object.init,
         "torn" \in amiss' => /\ shared.object.type \in {"struct", "atomic struct", "subatomic"} /\ ~Own /\ ~WholeOnly
                              /\ \E s \in Performed : s.do \in Accesses
  PROVE  BlameInv'
<1>1. Performed' = Performed /\ Own' = Own /\ (WholeOnly' <=> WholeOnly) /\ Accesses' = Accesses
  BY ProgramKept DEF Accesses
<1>2. (\E s \in Performed : s.do \in Accesses) => (\E s \in Performed : s.do \in Accesses)'
  BY <1>1
<1> QED BY <1>1, <1>2 DEF BlameInv

LEMMA InnerKept ==
  ASSUME TypeInv, InnerInv, shared' = shared, AwayFrom(Accesses)
  PROVE  InnerInv'
<1> SUFFICES ASSUME NEW t \in BothThreads, AtStep(t, Accesses)', inner'[t] # "", AtOnce(StepOf(t))'
             PROVE  FALSE
  BY DEF InnerInv
<1>1. ASSUME next'[t] = next[t] PROVE AtStep(t, Accesses) /\ AtOnce(StepOf(t))
  BY <1>1 DEF AtStep, Over, StepOf, Accesses, AtOnce
<1>2. CASE UNCHANGED <<next, inner>> BY <1>1, <1>2 DEF InnerInv
<1>3. ASSUME NEW u \in BothThreads, StepOf(u).do \notin Accesses, Go(u) PROVE FALSE
  <2>1. t # u BY <1>3, GoneOn
  <2>2. next'[t] = next[t] /\ inner'[t] = inner[t] BY <1>3, <2>1, GoneOn
  <2> QED BY <1>1, <2>2 DEF InnerInv
<1>4. ASSUME NEW u \in BothThreads, StepOf(u).do \notin Accesses, NEW part, Part(u, part) PROVE FALSE
  <2>1. next'[t] = next[t] BY <1>4, PartDone
  <2>2. t # u BY <1>1, <1>4, <2>1 DEF AtStep
  <2>3. inner'[t] = inner[t] BY <1>4, <2>2, PartDone
  <2> QED BY <1>1, <2>1, <2>3 DEF InnerInv
<1> QED BY <1>2, <1>3, <1>4 DEF AwayFrom

\* A step of access that ends leaves no access half done.
LEMMA InnerDone ==
  ASSUME TypeInv, InnerInv, shared' = shared, NEW u \in BothThreads, Go(u)
  PROVE  InnerInv'
<1> SUFFICES ASSUME NEW t \in BothThreads, AtStep(t, Accesses)', inner'[t] # "", AtOnce(StepOf(t))'
             PROVE  FALSE
  BY DEF InnerInv
<1>1. t # u BY GoneOn
<1>2. next'[t] = next[t] /\ inner'[t] = inner[t] BY <1>1, GoneOn
<1>3. AtStep(t, Accesses) /\ AtOnce(StepOf(t)) BY <1>2 DEF AtStep, Over, StepOf, Accesses, AtOnce
<1> QED BY <1>2, <1>3 DEF InnerInv

LEMMA MemoryAway ==
  ASSUME TypeInv, TypeInv', MemoryInv, AwayFrom(Accesses), UNCHANGED <<shared, mem, copy>>,
         \A what \in {"race", "torn", "unset"} : what \in amiss' => what \in amiss
  PROVE  MemoryInv'
<1>1. InnerInv' BY InnerKept DEF MemoryInv
<1>2. CountsDone' = CountsDone
  <2>1. AwayFrom({"++", "+1"}) BY DEF AwayFrom, Accesses
  <2> QED BY <2>1, CountsKept
<1>3. CountInv' BY <1>2, ProgramKept DEF MemoryInv, CountInv
<1>4. ValueInv' /\ OwnInv' /\ WholeInv' BY ProgramKept DEF MemoryInv, ValueInv, OwnInv, WholeInv
<1>5. BlameInv' BY BlamePrimed DEF MemoryInv, BlameInv
<1> QED BY <1>1, <1>3, <1>4, <1>5 DEF MemoryInv

LEMMA RaceBlame ==
  ASSUME TypeInv, NEW t \in BothThreads, AtStep(t, Accesses), Racing
  PROVE  /\ shared.object.type \in {"int", "struct", "subatomic"} /\ ~Own
         /\ \E s \in Performed : s.do \in Accesses
BY StepPerformed DEF Racing, AtStep

LEMMA UnsetBlame ==
  ASSUME ValueInv, mem[1] = Unset
  PROVE  ~shared.object.init
<1>1. Unset \notin Nat BY DEF Unset
<1> QED BY <1>1 DEF ValueInv

LEMMA MemoryBegin ==
  ASSUME TypeInv, MemoryInv, NEW u \in BothThreads, Begin(u)
  PROVE  MemoryInv'
<1>1. /\ AtStep(u, Accesses) /\ ~AtOnce(StepOf(u)) /\ shared' = shared
      /\ copy' = [copy EXCEPT ![u] = mem[1]] /\ Part(u, "one")
      /\ mem' = IF StepOf(u).do = "put" /\ ~Own THEN <<u, mem[2]>> ELSE mem
      /\ amiss' = amiss \cup (IF Racing THEN {"race"} ELSE {})
                        \cup (IF mem[1] = Unset /\ StepOf(u).do # "put" THEN {"unset"} ELSE {})
  BY DEF Begin
<1>2. ~Counted /\ ~WholeOnly BY <1>1, AllAtOnce
<1>3. /\ copy'[u] = mem[1] /\ \A t \in BothThreads : t # u => copy'[t] = copy[t]
  BY <1>1 DEF TypeInv
<1>4. ValueInv'
  <2>1. u \in Nat BY DEF BothThreads
  <2>2. mem'[1] = mem[1] \/ mem'[1] = u BY <1>1
  <2> QED BY <1>1, <1>3, <2>1, <2>2 DEF ValueInv, MemoryInv
<1>5. OwnInv'
  <2> SUFFICES ASSUME Own PROVE mem' = <<0, 0>> /\ \A t \in BothThreads : copy'[t] = 0
    BY <1>1, ProgramKept DEF OwnInv
  <2>1. mem = <<0, 0>> /\ \A t \in BothThreads : copy[t] = 0 BY DEF OwnInv, MemoryInv
  <2>2. mem[1] = 0 BY <2>1
  <2> QED BY <1>1, <1>3, <2>1, <2>2
<1>6. WholeInv' /\ CountInv' BY <1>1, <1>2, ProgramKept DEF WholeInv, CountInv
<1>7. InnerInv'
  <2> SUFFICES ASSUME NEW t \in BothThreads, AtStep(t, Accesses)', inner'[t] # "", AtOnce(StepOf(t))'
               PROVE  FALSE
    BY DEF InnerInv
  <2>1. next' = next BY <1>1 DEF Part
  <2>2. AtStep(t, Accesses) /\ AtOnce(StepOf(t))
    BY <1>1, <2>1 DEF AtStep, Over, StepOf, Accesses, AtOnce
  <2>3. t # u BY <1>1, <2>2
  <2>4. inner'[t] = inner[t] BY <1>1, <2>3, PartDone
  <2> QED BY <2>2, <2>4 DEF InnerInv, MemoryInv
<1>8. BlameInv'
  <2>1. "race" \in amiss' => "race" \in amiss \/ Racing BY <1>1
  <2>2. "unset" \in amiss' => "unset" \in amiss \/ mem[1] = Unset BY <1>1
  <2>3. "torn" \in amiss' => "torn" \in amiss BY <1>1
  <2>4. "unset" \in amiss' => ~shared.object.init
    BY <2>2, UnsetBlame DEF BlameInv, MemoryInv
  <2>5. "race" \in amiss' => /\ shared.object.type \in {"int", "struct", "subatomic"} /\ ~Own
                            /\ \E s \in Performed : s.do \in Accesses
    BY <1>1, <2>1, RaceBlame DEF BlameInv, MemoryInv
  <2> QED BY <1>1, <2>3, <2>4, <2>5, BlamePrimed DEF BlameInv, MemoryInv
<1> QED BY <1>4, <1>5, <1>6, <1>7, <1>8 DEF MemoryInv

LEMMA MemoryFinish ==
  ASSUME TypeInv, MemoryInv, NEW u \in BothThreads, Finish(u)
  PROVE  MemoryInv'
<1>1. /\ AtStep(u, Accesses) /\ inner[u] = "one" /\ Go(u) /\ shared' = shared /\ copy' = copy
      /\ mem' = CASE StepOf(u).do = "put" /\ ~Own -> <<mem[1], u>>
                  [] StepOf(u).do \in {"++", "+1"} /\ ~Own /\ copy[u] # Unset -> <<copy[u] + 1, mem[2]>>
                  [] OTHER -> mem
      /\ Amiss("torn", StepOf(u).do = "get" /\ copy[u] # mem[2])
  BY DEF Finish
<1>2. ~AtOnce(StepOf(u)) BY <1>1 DEF MemoryInv, InnerInv
<1>3. ~Counted /\ ~WholeOnly BY <1>1, <1>2, AllAtOnce
<1>4. mem'[1] \in {mem[1], copy[u] + 1} /\ (Own => mem' = mem)
  <2>1. CASE StepOf(u).do = "put" /\ ~Own BY <1>1, <2>1
  <2>2. CASE StepOf(u).do \in {"++", "+1"} /\ ~Own /\ copy[u] # Unset BY <1>1, <2>2
  <2>3. CASE ~(StepOf(u).do = "put" /\ ~Own) /\ ~(StepOf(u).do \in {"++", "+1"} /\ ~Own /\ copy[u] # Unset)
    <3>1. mem' = mem BY <1>1, <2>3
    <3> QED BY <3>1
  <2> QED BY <2>1, <2>2, <2>3
<1>5. ValueInv'
  <2>1. shared.object.init => mem[1] \in Nat /\ copy[u] + 1 \in Nat BY DEF ValueInv, MemoryInv
  <2> QED BY <1>1, <1>4, <2>1 DEF ValueInv, MemoryInv
<1>6. OwnInv' BY <1>1, <1>4, ProgramKept DEF OwnInv, MemoryInv
<1>7. WholeInv' /\ CountInv' BY <1>1, <1>3, ProgramKept DEF WholeInv, CountInv
<1>8. InnerInv' BY <1>1, InnerDone DEF MemoryInv
<1>9. BlameInv'
  <2>1. "race" \in amiss' => "race" \in amiss BY <1>1 DEF Amiss
  <2>2. "unset" \in amiss' => "unset" \in amiss BY <1>1 DEF Amiss
  <2>3. "torn" \in amiss' => "torn" \in amiss \/ (StepOf(u).do = "get" /\ copy[u] # mem[2]) BY <1>1 DEF Amiss
  <2>4. ASSUME StepOf(u).do = "get", copy[u] # mem[2]
        PROVE  /\ shared.object.type \in {"struct", "atomic struct", "subatomic"} /\ ~Own
               /\ \E s \in Performed : s.do \in Accesses
    <3>1. shared.object.type \in {"struct", "atomic struct", "subatomic"}
      BY <1>1, <2>4, StepSuits DEF AtStep
    <3>2. ASSUME Own PROVE FALSE
      <4>1. mem = <<0, 0>> /\ copy[u] = 0 BY <3>2 DEF OwnInv, MemoryInv
      <4>2. mem[2] = 0 BY <4>1
      <4> QED BY <2>4, <4>1, <4>2
    <3>3. \E s \in Performed : s.do \in Accesses BY <1>1, StepPerformed DEF AtStep
    <3> QED BY <3>1, <3>2, <3>3
  <2> QED BY <1>1, <1>3, <2>1, <2>2, <2>3, <2>4, BlamePrimed DEF BlameInv, MemoryInv
<1> QED BY <1>5, <1>6, <1>7, <1>8, <1>9 DEF MemoryInv

LEMMA MemoryAccess ==
  ASSUME TypeInv, TypeInv', MemoryInv, NEW u \in BothThreads, Access(u)
  PROVE  MemoryInv'
<1> DEFINE do == StepOf(u).do
<1>1. /\ AtStep(u, Accesses) /\ AtOnce(StepOf(u)) /\ Go(u) /\ shared' = shared /\ copy' = copy
      /\ mem' = CASE do = "++" /\ ~Own /\ mem[1] # Unset -> <<mem[1] + 1, mem[2]>>
                  [] do = "put" /\ ~Own -> <<u, u>>
                  [] OTHER -> mem
      /\ amiss' = amiss \cup (IF Racing THEN {"race"} ELSE {})
                        \cup (IF mem[1] = Unset /\ do # "put" THEN {"unset"} ELSE {})
                        \cup (IF do = "get" /\ mem[1] # mem[2] THEN {"torn"} ELSE {})
  BY DEF Access
<1>2. ~Over(u) /\ do \in {"peek", "++", "+1", "put", "get"} BY <1>1 DEF AtStep, Accesses
<1>3. /\ do = "++" => shared.object.type \in {"int", "atomic", "atomic array"}
      /\ do \in {"put", "get"} => shared.object.type \in {"struct", "atomic struct", "subatomic"}
  BY <1>2, StepSuits
<1>4. StepOf(u) \in Performed BY <1>2, StepPerformed
<1> HIDE DEF do
<1>5. \/ do = "++" /\ ~Own /\ mem[1] # Unset /\ mem' = <<mem[1] + 1, mem[2]>>
      \/ do = "put" /\ ~Own /\ mem' = <<u, u>>
      \/ ~(do = "++" /\ ~Own /\ mem[1] # Unset) /\ ~(do = "put" /\ ~Own) /\ mem' = mem
  BY <1>1
<1>6. mem'[1] \in {mem[1], mem[1] + 1, u} /\ (Own => mem' = mem) BY <1>5
<1>7. ValueInv'
  <2>1. shared.object.init => mem[1] \in Nat /\ mem[1] + 1 \in Nat BY DEF ValueInv, MemoryInv
  <2>2. u \in Nat BY DEF BothThreads
  <2> QED BY <1>1, <1>6, <2>1, <2>2 DEF ValueInv, MemoryInv
<1>8. OwnInv' BY <1>1, <1>6, ProgramKept DEF OwnInv, MemoryInv
<1>9. WholeInv'
  <2> SUFFICES ASSUME WholeOnly PROVE mem'[1] = mem'[2] BY <1>1, ProgramKept DEF WholeInv
  <2>1. do # "++" BY <1>3 DEF WholeOnly
  <2>2. mem[1] = mem[2] BY DEF WholeInv, MemoryInv
  <2> QED BY <1>5, <2>1, <2>2
<1>10. CountInv'
  <2> SUFFICES ASSUME Counted PROVE mem'[1] = Cardinality(CountsDone') BY <1>1, ProgramKept DEF CountInv
  <2>1. /\ mem[1] = Cardinality(CountsDone) /\ ~Own /\ do # "put" /\ do # "+1"
    BY <1>3, <1>4 DEF CountInv, MemoryInv, Counted, Own, do
  <2>2. mem[1] # Unset
    <3>1. Unset \notin Nat BY DEF Unset
    <3> QED BY <2>1, <3>1, CountsFinite
  <2>3. CASE do = "++"
    <3>1. AtStep(u, {"++", "+1"}) BY <1>2, <2>3 DEF AtStep, do
    <3>2. Cardinality(CountsDone') = Cardinality(CountsDone) + 1 BY <1>1, <3>1, CountsOneMore
    <3>3. mem'[1] = mem[1] + 1 BY <1>5, <2>1, <2>2, <2>3
    <3> QED BY <2>1, <3>2, <3>3
  <2>4. CASE do # "++"
    <3>1. AwayFrom({"++", "+1"}) BY <1>1, <1>2, <2>1, <2>4 DEF AwayFrom, do
    <3>2. CountsDone' = CountsDone BY <1>1, <3>1, CountsKept
    <3>3. mem' = mem BY <1>5, <2>1, <2>4
    <3> QED BY <2>1, <3>2, <3>3
  <2> QED BY <2>3, <2>4
<1>11. InnerInv' BY <1>1, InnerDone DEF MemoryInv
<1>12. BlameInv'
  <2>1. "race" \in amiss' => "race" \in amiss \/ Racing BY <1>1
  <2>2. "unset" \in amiss' => "unset" \in amiss \/ mem[1] = Unset BY <1>1
  <2>3. "torn" \in amiss' => "torn" \in amiss \/ (do = "get" /\ mem[1] # mem[2]) BY <1>1
  <2>4. "unset" \in amiss' => ~shared.object.init
    BY <2>2, UnsetBlame DEF BlameInv, MemoryInv
  <2>5. "race" \in amiss' => /\ shared.object.type \in {"int", "struct", "subatomic"} /\ ~Own
                            /\ \E s \in Performed : s.do \in Accesses
    BY <1>1, <2>1, RaceBlame DEF BlameInv, MemoryInv
  <2>6. ASSUME do = "get", mem[1] # mem[2]
        PROVE  /\ shared.object.type \in {"struct", "atomic struct", "subatomic"} /\ ~Own /\ ~WholeOnly
               /\ \E s \in Performed : s.do \in Accesses
    <3>1. ASSUME Own PROVE FALSE
      <4>1. mem = <<0, 0>> BY <3>1 DEF OwnInv, MemoryInv
      <4>2. mem[1] = 0 /\ mem[2] = 0 BY <4>1
      <4> QED BY <2>6, <4>2
    <3>2. ~WholeOnly BY <2>6 DEF WholeInv, MemoryInv
    <3>3. \E s \in Performed : s.do \in Accesses BY <1>2, <1>4 DEF do, Accesses
    <3> QED BY <1>3, <2>6, <3>1, <3>2, <3>3
  <2> QED BY <1>1, <2>3, <2>4, <2>5, <2>6, BlamePrimed DEF BlameInv, MemoryInv
<1> QED BY <1>7, <1>8, <1>9, <1>10, <1>11, <1>12 DEF MemoryInv

LEMMA MemoryInit == SharedInit /\ TypeInv => MemoryInv
<1> SUFFICES ASSUME SharedInit, TypeInv PROVE MemoryInv OBVIOUS
<1>1. /\ mem = IF shared.object.storage = "automatic" /\ ~shared.object.init THEN <<Unset, Unset>> ELSE <<0, 0>>
      /\ \A t \in BothThreads : copy[t] = 0 /\ next[t] = 1 /\ inner[t] = ""
      /\ amiss = {}
  BY DEF SharedInit, ThreadsReady
<1>2. shared.object.storage # "automatic" \/ shared.object.init => mem = <<0, 0>> /\ mem[1] = 0 BY <1>1
<1>3. ValueInv
  <2>1. \A t \in BothThreads : copy[t] = 0 BY <1>1
  <2>2. 0 \in Nat OBVIOUS
  <2> QED BY <1>2, <2>1, <2>2 DEF ValueInv
<1>4. OwnInv BY <1>1, <1>2 DEF OwnInv, Own
<1>5. mem[1] = mem[2]
  <2>1. mem = <<Unset, Unset>> \/ mem = <<0, 0>> BY <1>1
  <2> QED BY <2>1
<1>6. CountInv
  <2>1. \A c : c \notin CountsDone
    <3> SUFFICES ASSUME NEW c \in CountsDone PROVE FALSE OBVIOUS
    <3>1. c \in BothThreads \X (1 .. MaxThread) /\ c[2] < next[c[1]] BY DEF CountsDone, Counts
    <3>2. c[1] \in BothThreads /\ c[2] \in Nat \ {0} BY <3>1, StepNumbers
    <3>3. next[c[1]] = 1 BY <1>1, <3>2
    <3>4. c[2] < 1 BY <3>1, <3>3
    <3> QED BY <3>2, <3>4
  <2>2. CountsDone = {} BY <2>1
  <2>3. Cardinality(CountsDone) = 0 BY <2>2, FS_EmptySet
  <2> QED BY <1>2, <2>3 DEF CountInv, Counted
<1> QED BY <1>1, <1>3, <1>4, <1>5, <1>6 DEF MemoryInv, WholeInv, InnerInv, BlameInv

LEMMA MemoryStep == TypeInv /\ TypeInv' /\ MemoryInv /\ [SharedNext]_sharedVars => MemoryInv'
<1> SUFFICES ASSUME TypeInv, TypeInv', MemoryInv, [SharedNext]_sharedVars PROVE MemoryInv' OBVIOUS
<1> USE DEF AwayFrom, AtStep
<1>0. /\ "lock" \notin Accesses /\ "unlock" \notin Accesses /\ "store" \notin Accesses /\ "load" \notin Accesses
      /\ "cas" \notin Accesses /\ "fence" \notin Accesses /\ "once" \notin Accesses /\ "set" \notin Accesses
      /\ "fetch" \notin Accesses
  BY DEF Accesses
<1>1. CASE UNCHANGED sharedVars BY <1>1, MemoryAway DEF sharedVars
<1>2. CASE StarterReturns BY <1>2, MemoryAway DEF StarterReturns
<1>3. ASSUME NEW t \in BothThreads, LockMutex(t) PROVE MemoryInv' BY <1>0, <1>3, MemoryAway DEF LockMutex, Amiss
<1>4. ASSUME NEW t \in BothThreads, UnlockMutex(t) PROVE MemoryInv' BY <1>0, <1>4, MemoryAway DEF UnlockMutex, Amiss
<1>5. ASSUME NEW t \in BothThreads, Begin(t) PROVE MemoryInv' BY <1>5, MemoryBegin
<1>6. ASSUME NEW t \in BothThreads, Finish(t) PROVE MemoryInv' BY <1>6, MemoryFinish
<1>7. ASSUME NEW t \in BothThreads, Access(t) PROVE MemoryInv' BY <1>7, MemoryAccess
<1>8. ASSUME NEW t \in BothThreads, StoreFlag(t) PROVE MemoryInv' BY <1>0, <1>8, MemoryAway DEF StoreFlag
<1>9. ASSUME NEW t \in BothThreads, Arrive(t) PROVE MemoryInv' BY <1>9, MemoryAway DEF Arrive
<1>10. ASSUME NEW t \in BothThreads, LoadFlag(t) PROVE MemoryInv' BY <1>0, <1>10, MemoryAway DEF LoadFlag
<1>11. ASSUME NEW t \in BothThreads, Fence(t) PROVE MemoryInv' BY <1>0, <1>11, MemoryAway DEF Fence
<1>12. ASSUME NEW t \in BothThreads, CallOnce(t) PROVE MemoryInv' BY <1>0, <1>12, MemoryAway DEF CallOnce
<1>13. ASSUME NEW t \in BothThreads, LockInOnce(t) PROVE MemoryInv' BY <1>0, <1>13, MemoryAway DEF LockInOnce, Amiss
<1>14. ASSUME NEW t \in BothThreads, LeaveOnce(t) PROVE MemoryInv' BY <1>0, <1>14, MemoryAway DEF LeaveOnce
<1>15. ASSUME NEW t \in BothThreads, SetOwn(t) PROVE MemoryInv' BY <1>0, <1>15, MemoryAway DEF SetOwn
<1>16. ASSUME NEW t \in BothThreads, FetchOwn(t) PROVE MemoryInv' BY <1>0, <1>16, MemoryAway DEF FetchOwn, Amiss
<1> QED
  BY <1>1, <1>2, <1>3, <1>4, <1>5, <1>6, <1>7, <1>8, <1>9, <1>10, <1>11, <1>12, <1>13, <1>14, <1>15, <1>16
     DEF SharedNext

\* What the threads do to the object without the report on unsynchronized access.
LEMMA Unreported ==
  ASSUME TypeInv, ~UnsynchronizedAccess, ~UnseenObject, ~Own, \E s \in Performed : s.do \in Accesses
  PROVE  /\ shared.object.storage = "static"
         /\ shared.object.type \in {"atomic", "atomic array", "atomic struct", "const int"}
<1>1. /\ shared.object.storage \in {"static", "thread", "automatic"}
      /\ shared.object.type \in {"int", "const int", "atomic", "atomic array", "struct", "atomic struct", "subatomic"}
  BY SharedAssumption DEF ProgramFits, TypeInv
<1> QED BY <1>1 DEF UnsynchronizedAccess, UnseenObject, Own, IsAtomicType

LEMMA MemoryRaces == TypeInv /\ MemoryInv => RacesReported
<1> SUFFICES ASSUME TypeInv, MemoryInv PROVE RacesReported OBVIOUS
<1>1. "race" \in amiss => UnsynchronizedAccess \/ UnseenObject
  <2> SUFFICES ASSUME "race" \in amiss, ~UnsynchronizedAccess, ~UnseenObject PROVE FALSE OBVIOUS
  <2>1. /\ shared.object.type \in {"int", "struct", "subatomic"} /\ ~Own
        /\ \E s \in Performed : s.do \in Accesses
    BY DEF MemoryInv, BlameInv
  <2> QED BY <2>1, Unreported
<1>2. ASSUME AllOver, ~Own, Counts # {}, mem[1] # Cardinality(Counts), ~UnsynchronizedAccess, ~UnseenObject
      PROVE  IsAtomicType(shared.object.type) /\ \E s \in Performed : s.do = "+1"
  <2>1. PICK c \in Counts : TRUE BY <1>2
  <2>2. /\ c[1] \in BothThreads /\ c[2] \in Nat \ {0} /\ c[2] <= Len(shared.threads[c[1]])
        /\ shared.threads[c[1]][c[2]].do \in {"++", "+1"}
    <3>1. c \in BothThreads \X (1 .. MaxThread) BY DEF Counts
    <3> QED BY <3>1, StepNumbers DEF Counts
  <2>3. c[2] \in 1 .. Len(shared.threads[c[1]])
    <3>1. Len(shared.threads[c[1]]) \in Nat BY <2>2, StepFits DEF MaxThread
    <3> QED BY <2>2, <3>1
  <2>4. shared.threads[c[1]][c[2]] \in Performed
    <3>1. DOMAIN shared.threads[c[1]] = 1 .. Len(shared.threads[c[1]]) BY <2>2, StepFits DEF ThreadFits
    <3>2. c[2] \in DOMAIN shared.threads[c[1]] BY <2>3, <3>1
    <3> QED BY <2>2, <3>2 DEF Performed
  <2>5. shared.object.type \in {"int", "atomic", "atomic array"} BY <2>2, <2>3, StepFits DEF ThreadFits
  <2>6. \E s \in Performed : s.do \in Accesses BY <2>2, <2>4 DEF Accesses
  <2>7. shared.object.storage = "static" /\ shared.object.type \in {"atomic", "atomic array"}
    BY <1>2, <2>5, <2>6, Unreported
  <2>8. CountsDone = Counts
    <3>1. ASSUME NEW d \in Counts PROVE d[2] < next[d[1]]
      <4>1. d \in BothThreads \X (1 .. MaxThread) /\ d[2] <= Len(shared.threads[d[1]]) BY DEF Counts
      <4>2. d[1] \in BothThreads /\ d[2] \in Nat BY <4>1, StepNumbers
      <4>3. next[d[1]] > Len(shared.threads[d[1]]) BY <1>2, <4>2 DEF AllOver, Over
      <4>4. Len(shared.threads[d[1]]) \in Nat /\ next[d[1]] \in Nat BY <4>2, StepFits DEF MaxThread
      <4> QED BY <4>1, <4>2, <4>3, <4>4
    <3> QED BY <3>1 DEF CountsDone
  <2>9. ~Counted BY <1>2, <2>8 DEF MemoryInv, CountInv
  <2> QED BY <2>7, <2>9 DEF Counted, IsAtomicType
<1> QED BY <1>1, <1>2 DEF RacesReported

LEMMA MemoryHalves == TypeInv /\ MemoryInv => HalvesReported
<1> SUFFICES ASSUME TypeInv, MemoryInv PROVE HalvesReported OBVIOUS
<1>1. ASSUME "torn" \in amiss, ~UnsynchronizedAccess, \A s \in Performed : ~AtomicMemberAccess(s),
             ~(shared.object.type \in {"subatomic", "struct"} /\ UnseenObject),
             ~\E s \in Performed : s.do \in {"put", "get"} /\ s.via = "cast"
      PROVE  FALSE
  <2>1. /\ shared.object.type \in {"struct", "atomic struct", "subatomic"} /\ ~Own /\ ~WholeOnly
        /\ \E s \in Performed : s.do \in Accesses
    BY <1>1 DEF MemoryInv, BlameInv
  <2>2. shared.object.type = "atomic struct" BY <1>1, <2>1, Unreported DEF UnseenObject
  <2>3. PICK s \in Performed : s.do \in {"put", "get"} /\ s.via # "whole" BY <2>1, <2>2 DEF WholeOnly
  <2>4. s.via \in {"member", "pointer", "cast", "whole"}
    <3>1. PICK t \in BothThreads : \E i \in DOMAIN shared.threads[t] : s = shared.threads[t][i] BY DEF Performed
    <3>2. PICK i \in DOMAIN shared.threads[t] : s = shared.threads[t][i] BY <3>1
    <3>3. i \in 1 .. Len(shared.threads[t]) BY StepFits DEF ThreadFits
    <3> QED BY <2>3, <3>2, <3>3, StepFits DEF ThreadFits
  <2> QED BY <1>1, <2>2, <2>3, <2>4 DEF AtomicMemberAccess
<1>2. ASSUME "unset" \in amiss, shared.object.type \in {"atomic", "atomic struct"} PROVE UninitializedAtomic
  BY <1>2 DEF MemoryInv, BlameInv, UninitializedAtomic
<1> QED BY <1>1, <1>2 DEF HalvesReported

LEMMA KeysJudged == TypeInv => ValuesOwn
<1> SUFFICES ASSUME TypeInv, NEW s \in Performed, s.do = "fetch" PROVE ThreadSpecificStorage(s) \/ s.key = "element"
  BY DEF ValuesOwn
<1>1. PICK t \in BothThreads : \E i \in DOMAIN shared.threads[t] : s = shared.threads[t][i] BY DEF Performed
<1>2. PICK i \in DOMAIN shared.threads[t] : s = shared.threads[t][i] BY <1>1
<1>3. i \in 1 .. Len(shared.threads[t]) BY StepFits DEF ThreadFits
<1>4. s.key \in {"name", "member", "element"} BY <1>2, <1>3, StepFits DEF ThreadFits
<1> QED BY <1>4 DEF ThreadSpecificStorage, KeyNamed

-----------------------------------------------------------------------------
\* For threads of any programs that fit: what is said of shared objects, memory orders,
\* mutexes, call_once and keys agrees with how the threads run.  Lost counts, halves of
\* structs, signals that both threads miss, mutexes that are gone or held twice and
\* threads that wait for each other have been reported, but for the gaps the properties
\* name.
THEOREM AccessesRight == SharedSpec => []AccessesJudged
<1>1. SharedInit /\ TypeInv => SignalInv /\ MutexInv /\ MemoryInv BY SignalInit, MutexInit, MemoryInit
<1>2. TypeInv /\ TypeInv' /\ SignalInv /\ MutexInv /\ MemoryInv /\ [SharedNext]_sharedVars
        => SignalInv' /\ MutexInv' /\ MemoryInv'
  BY SignalStep, MutexStep, MemoryStep
<1>3. TypeInv /\ SignalInv /\ MutexInv /\ MemoryInv => AccessesJudged
  BY SignalJudged, MutexJudged, MemoryRaces, MemoryHalves, KeysJudged DEF AccessesJudged
<1> QED BY <1>1, <1>2, <1>3, Typing, PTL DEF SharedSpec

-----------------------------------------------------------------------------
(***************************************************************************)
(* Classes and objects.  First the hierarchy: lines are chains, nothing is *)
(* above itself, and the nearest declaration of m in a line is there and   *)
(* is the only one.                                                        *)
(***************************************************************************)

ClassSpec == ObjectInit /\ [][ObjectNext]_objectVars

HierarchyGiven == classes \in Hierarchies
ClassNames == DOMAIN classes
BaseOf(c) == classes[c].base

LEMMA Bases ==
  ASSUME HierarchyGiven, NEW c \in ClassNames
  PROVE  BaseOf(c) \in ClassNames \cup {NoBase} /\ NoBase \notin ClassNames /\ Null \notin ClassNames
BY HierarchiesAssumption DEF HierarchyGiven, ClassNames, BaseOf

LEMMA LineSelf == ASSUME NEW c \in ClassNames PROVE c \in Line(c)
BY DEF Line, ClassNames

LEMMA LineNames == ASSUME NEW c, NEW d \in Line(c) PROVE d \in ClassNames
BY DEF Line, ClassNames

LEMMA LineBase ==
  ASSUME HierarchyGiven, NEW c, NEW d \in Line(c), BaseOf(d) # NoBase
  PROVE  BaseOf(d) \in ClassNames /\ BaseOf(d) \in Line(c)
<1>1. d \in ClassNames BY LineNames
<1>2. BaseOf(d) \in ClassNames BY <1>1, Bases
<1>3. ASSUME NEW S \in SUBSET DOMAIN classes, c \in S, HasBases(S) PROVE BaseOf(d) \in S
  <2>1. d \in S BY <1>3 DEF Line
  <2> QED BY <1>3, <2>1 DEF HasBases, BaseOf
<1> QED BY <1>2, <1>3 DEF Line, ClassNames

LEMMA LineTransitive ==
  ASSUME NEW c, NEW d \in Line(c), NEW e \in Line(d)
  PROVE  e \in Line(c)
BY DEF Line

\* What is true of c and passes from a class to its base is true of the line of c.
LEMMA UpTheLine ==
  ASSUME HierarchyGiven, NEW c \in ClassNames, NEW S, c \in S,
         \A d \in Line(c) : d \in S /\ BaseOf(d) # NoBase => BaseOf(d) \in S
  PROVE  Line(c) \subseteq S
<1> DEFINE T == S \cap Line(c)
<1>1. T \in SUBSET DOMAIN classes BY DEF Line
<1>2. c \in T BY LineSelf
<1>3. HasBases(T)
  <2>1. ASSUME NEW d \in T, BaseOf(d) # NoBase PROVE BaseOf(d) \in T BY <2>1, LineBase
  <2> QED BY <2>1 DEF HasBases, BaseOf
<1>4. Line(c) \subseteq T
  <2> HIDE DEF T
  <2> QED BY <1>1, <1>2, <1>3 DEF Line
<1> QED BY <1>4

LEMMA LineAbove ==
  ASSUME HierarchyGiven, NEW c \in ClassNames, NEW d \in Line(c), d # c
  PROVE  BaseOf(c) \in ClassNames /\ d \in Line(BaseOf(c))
<1> DEFINE S == {c} \cup {e \in ClassNames : BaseOf(c) # NoBase /\ e \in Line(BaseOf(c))}
<1>1. ASSUME NEW e \in S, BaseOf(e) # NoBase PROVE BaseOf(e) \in S
  <2>1. CASE e = c
    <3>1. BaseOf(c) \in ClassNames BY <1>1, <2>1, Bases
    <3>2. BaseOf(c) \in Line(BaseOf(c)) BY <3>1, LineSelf
    <3> QED BY <1>1, <2>1, <3>1, <3>2
  <2>2. CASE e # c
    <3>1. e \in Line(BaseOf(c)) /\ BaseOf(c) # NoBase BY <2>2
    <3>2. BaseOf(e) \in ClassNames /\ BaseOf(e) \in Line(BaseOf(c)) BY <1>1, <3>1, LineBase
    <3> QED BY <3>1, <3>2
  <2> QED BY <2>1, <2>2
<1>2. Line(c) \subseteq S
  <2>1. c \in S OBVIOUS
  <2> HIDE DEF S
  <2> QED BY <1>1, <2>1, UpTheLine
<1>3. d \in Line(BaseOf(c)) /\ BaseOf(c) # NoBase BY <1>2
<1> QED BY <1>3, Bases

\* Two classes above one are above each other.
LEMMA LineIsChain ==
  ASSUME HierarchyGiven, NEW c \in ClassNames, NEW d \in Line(c), NEW e \in Line(c)
  PROVE  d \in Line(e) \/ e \in Line(d)
<1> DEFINE S == {x \in ClassNames : x \in Line(e) \/ e \in Line(x)}
<1>1. c \in S OBVIOUS
<1>2. ASSUME NEW x \in Line(c), x \in S, BaseOf(x) # NoBase PROVE BaseOf(x) \in S
  <2>1. BaseOf(x) \in ClassNames BY <1>2, LineBase
  <2>2. CASE x \in Line(e) BY <1>2, <2>1, <2>2, LineBase
  <2>3. CASE e \in Line(x) /\ e # x
    <3>1. e \in Line(BaseOf(x)) BY <1>2, <2>3, LineAbove
    <3> QED BY <2>1, <3>1
  <2>4. CASE e = x
    <3>1. x \in Line(e) BY <1>2, <2>4, LineSelf
    <3> QED BY <1>2, <2>1, <2>4, <3>1, LineBase
  <2> QED BY <1>2, <2>2, <2>3, <2>4
<1>3. Line(c) \subseteq S
  <2> HIDE DEF S
  <2> QED BY <1>1, <1>2, UpTheLine
<1> QED BY <1>3

LEMMA NothingAboveItself ==
  ASSUME HierarchyGiven, NEW c \in ClassNames, NEW d \in Line(c), c \in Line(d)
  PROVE  c = d
<1> SUFFICES ASSUME c # d PROVE FALSE OBVIOUS
<1> DEFINE S == {e \in Line(c) : c \in Line(e)}
<1>1. d \in ClassNames /\ c \in Line(c) BY LineNames, LineSelf
<1>2. S \in SUBSET ClassNames /\ d \in S BY LineNames
<1>3. PICK e \in S : BaseOf(e) \notin S
  <2>1. S # {} /\ S \in SUBSET DOMAIN classes BY <1>2 DEF ClassNames
  <2> HIDE DEF S
  <2> QED BY <2>1, HierarchiesAssumption DEF HierarchyGiven, BaseOf
<1>4. e \in ClassNames /\ e \in Line(c) /\ c \in Line(e) BY <1>2
<1>5. CASE e # c
  <2>1. BaseOf(e) \in ClassNames /\ c \in Line(BaseOf(e)) BY <1>4, <1>5, LineAbove
  <2>2. BaseOf(e) \in Line(c) BY <1>4, <2>1, LineBase, Bases
  <2> QED BY <1>3, <2>1, <2>2
<1>6. CASE e = c
  <2>1. BaseOf(c) \in ClassNames /\ d \in Line(BaseOf(c)) BY LineAbove
  <2>2. BaseOf(c) \in Line(c) BY <1>1, <2>1, LineBase, Bases
  <2>3. c \in Line(BaseOf(c)) BY <2>1, LineTransitive
  <2> QED BY <1>3, <1>6, <2>2, <2>3
<1> QED BY <1>5, <1>6

\* Declares(c) is in the line of c and all that declare m are above it.
Nearest(c, b) ==
  /\ b \in Line(c) /\ classes[b].method # "none"
  /\ \A e \in Line(c) : classes[e].method # "none" => e \in Line(b)
LEMMA NearestDeclares ==
  ASSUME HierarchyGiven, NEW c \in ClassNames, HasM(c)
  PROVE  Nearest(c, Declares(c))
<1> DEFINE T == {e \in Line(c) : \A x \in Line(c) : classes[x].method # "none" => x \in Line(e)}
<1>1. SUFFICES \E e \in T : classes[e].method # "none"
  BY <1>1 DEF Nearest, Declares, IsA
<1>2. SUFFICES ASSUME \A e \in T : classes[e].method = "none" PROVE FALSE OBVIOUS
<1>3. c \in T BY LineSelf
<1>4. ASSUME NEW e \in Line(c), e \in T, BaseOf(e) # NoBase PROVE BaseOf(e) \in T
  <2>1. BaseOf(e) \in Line(c) BY <1>4, LineBase
  <2>2. e \in ClassNames /\ classes[e].method = "none" BY <1>2, <1>4, LineNames
  <2>3. ASSUME NEW x \in Line(c), classes[x].method # "none" PROVE x \in Line(BaseOf(e))
    <3>1. x \in Line(e) /\ x # e BY <1>4, <2>2, <2>3
    <3> QED BY <2>2, <3>1, LineAbove
  <2> QED BY <2>1, <2>3
<1>5. Line(c) \subseteq T
  <2> HIDE DEF T
  <2> QED BY <1>3, <1>4, UpTheLine
<1> QED BY <1>2, <1>5 DEF HasM

LEMMA NearestIsOne ==
  ASSUME HierarchyGiven, NEW c \in ClassNames, NEW a, NEW b, Nearest(c, a), Nearest(c, b)
  PROVE  a = b
<1>1. a \in Line(b) /\ b \in Line(a) /\ a \in ClassNames /\ b \in ClassNames BY LineNames DEF Nearest
<1> QED BY <1>1, NothingAboveItself

\* From a class without m, the nearest is that of the base.
LEMMA SameInBase ==
  ASSUME HierarchyGiven, NEW c \in ClassNames, classes[c].method = "none", HasM(c)
  PROVE  /\ BaseOf(c) \in ClassNames /\ HasM(BaseOf(c))
         /\ Declares(c) = Declares(BaseOf(c))
<1>1. Nearest(c, Declares(c)) BY NearestDeclares
<1>2. Declares(c) # c BY <1>1 DEF Nearest
<1>3. BaseOf(c) \in ClassNames /\ Declares(c) \in Line(BaseOf(c)) BY <1>1, <1>2, LineAbove DEF Nearest
<1>4. HasM(BaseOf(c)) BY <1>1, <1>3 DEF HasM, Nearest
<1>5. Nearest(BaseOf(c), Declares(BaseOf(c))) BY <1>3, <1>4, NearestDeclares
<1>6. c \in Line(c) BY LineSelf
<1>7. BaseOf(c) \in Line(c) BY <1>3, <1>6, LineBase, Bases
<1>8. \A e \in Line(BaseOf(c)) : e \in Line(c) BY <1>7, LineTransitive
<1>9. Nearest(BaseOf(c), Declares(c)) BY <1>1, <1>3, <1>8 DEF Nearest
<1> QED BY <1>3, <1>4, <1>5, <1>9, NearestIsOne

-----------------------------------------------------------------------------
(***************************************************************************)
(* The function.  A pointer has the type of its object, or one of its      *)
(* bases, or the conversion that made it otherwise was reported or is a    *)
(* static_cast.                                                            *)
(***************************************************************************)

PointerRight ==
  Points =>
    /\ pointer.static \in ClassNames /\ pointer.dynamic \in ClassNames \cup {Null}
    /\ Alive /\ ~IsA(pointer.dynamic, pointer.static) =>
         pointer.how = "static" \/ "ReinterpretCast" \in objectSaid
MemberRight ==
  member # NoPointer =>
    /\ member.static \in ClassNames /\ member.dynamic \in ClassNames
    /\ ~IsA(member.static, member.dynamic) =>
         member.how = "static" \/ "MemberPointerConversion" \in objectSaid

ObjectInv == HierarchyGiven /\ PointerRight /\ MemberRight /\ Announced

\* What is said of a class depends on the classes only.
LEMMA SameClasses ==
  ASSUME classes' = classes
  PROVE  /\ \A c : Line(c)' = Line(c) /\ SaidOf(c)' = SaidOf(c) /\ UseOverride(c)' = UseOverride(c)
         /\ \A c, d : IsA(c, d)' <=> IsA(c, d)
         /\ ClassNames' = ClassNames
<1>1. \A c : Line(c)' = Line(c) BY DEF Line, HasBases
<1>2. \A c, d : IsA(c, d)' <=> IsA(c, d) BY <1>1 DEF IsA
<1>3. \A c : (VirtualM(c)' <=> VirtualM(c)) /\ (VirtualDtor(c)' <=> VirtualDtor(c)) /\ (Implicit(c)' <=> Implicit(c))
  BY <1>1 DEF VirtualM, VirtualDtor, Implicit
<1>4. \A c : (IsPolymorphic(c)' <=> IsPolymorphic(c)) /\ (UsedAsBase(c)' <=> UsedAsBase(c))
             /\ (OwnVirtual(c)' <=> OwnVirtual(c)) /\ (Overriding(c)' <=> Overriding(c))
  BY <1>1, <1>3 DEF IsPolymorphic, UsedAsBase, OwnVirtual, Overriding
<1>5. \A c : /\ RequireVirtualDestructor(c)' = RequireVirtualDestructor(c)
             /\ VirtualDestructor(c)' = VirtualDestructor(c)
  <2> SUFFICES ASSUME NEW c PROVE /\ RequireVirtualDestructor(c)' = RequireVirtualDestructor(c)
                                  /\ VirtualDestructor(c)' = VirtualDestructor(c)
    OBVIOUS
  <2>1. VirtualDtor(c)' = VirtualDtor(c) BY <1>1 DEF VirtualDtor
  <2>2. RequireVirtualDestructor(c)' = RequireVirtualDestructor(c)
    BY <1>3, <1>4, <2>1, Zenon DEF RequireVirtualDestructor
  <2>3. VirtualDestructor(c)' = VirtualDestructor(c) BY <1>3, <1>4 DEF VirtualDestructor, Say
  <2> QED BY <2>2, <2>3
<1>6. \A c : RuleOfFive(c)' = RuleOfFive(c) /\ UseOverride(c)' = UseOverride(c)
  BY <1>4 DEF RuleOfFive, UseOverride, Say
<1>7. \A c : /\ VirtualFunctionDefaultArg(c)' = VirtualFunctionDefaultArg(c)
             /\ VirtualCallInCtorDtor(c)' = VirtualCallInCtorDtor(c)
  BY <1>3 DEF VirtualFunctionDefaultArg, VirtualCallInCtorDtor, Say
<1>8. \A c : SaidOf(c)' = SaidOf(c) BY <1>5, <1>6, <1>7 DEF SaidOf
<1> QED BY <1>1, <1>2, <1>6, <1>8 DEF ClassNames

\* What was announced stays so.
LEMMA StaysAnnounced ==
  ASSUME Announced, classes' = classes, objectSaid \subseteq objectSaid', wrong' = wrong
  PROVE  Announced'
<1>1. \A c : SaidOf(c)' = SaidOf(c) /\ UseOverride(c)' = UseOverride(c) BY SameClasses
<1> QED BY <1>1 DEF Announced

\* So it is enough to look at what goes wrong first.
LEMMA FirstAnnounced ==
  ASSUME Announced, classes' = classes, objectSaid \subseteq objectSaid', NEW m,
         wrong' = First(m), wrong' = m => Announced'
  PROVE  Announced'
BY StaysAnnounced DEF First

\* Which reports there are.
LEMMA SaidIs ==
  ASSUME NEW c, NEW check
  PROVE  check \in SaidOf(c) <=>
           \/ check \in RequireVirtualDestructor(c) \/ check \in VirtualDestructor(c) \/ check \in RuleOfFive(c)
           \/ check \in UseOverride(c) \/ check \in VirtualFunctionDefaultArg(c)
           \/ check \in VirtualCallInCtorDtor(c)
BY DEF SaidOf

-----------------------------------------------------------------------------
\* A constructor that calls m directly is reported.
LEMMA NewAnnounced ==
  ASSUME ObjectInv, NEW d \in ClassNames, New(d)
  PROVE  ObjectInv'
<1>1. classes' = classes /\ objectSaid' = objectSaid /\ member' = member BY DEF New, ObjectStep
<1>2. pointer' = [static |-> d, dynamic |-> d, how |-> "made"] BY DEF New, Ptr
<1>3. Announced'
  <2>1. CASE \E c \in Line(d) : Missed(d, c)
    <3> DEFINE c == CHOOSE c \in Line(d) : Missed(d, c)
               m == Went("override_missed", c, "any")
    <3>1. Missed(d, c) BY <2>1
    <3>2. wrong' = First(m) BY <2>1 DEF New
    <3>3. "VirtualCallInCtorDtor" \in SaidOf(c) \/ classes[c].call = "helper"
      <4> HIDE DEF c
      <4> QED BY <3>1, SaidIs DEF Missed, VirtualCallInCtorDtor, Say
    <3>4. \A x : SaidOf(x)' = SaidOf(x) /\ UseOverride(x)' = UseOverride(x) BY <1>1, SameClasses
    <3> HIDE DEF c
    <3>5. wrong' = m => Announced' BY <1>1, <3>3, <3>4 DEF Announced, Went
    <3> HIDE DEF m
    <3> QED BY <1>1, <3>2, <3>5, FirstAnnounced DEF ObjectInv
  <2>2. CASE ~\E c \in Line(d) : Missed(d, c)
    <3>1. wrong' = wrong BY <2>2 DEF New
    <3> QED BY <1>1, <3>1, StaysAnnounced DEF ObjectInv
  <2> QED BY <2>1, <2>2
<1>4. PointerRight'
  <2>1. d \in Line(d) BY LineSelf
  <2>2. Line(d)' = Line(d) /\ ClassNames' = ClassNames BY <1>1, SameClasses
  <2> QED BY <1>2, <2>1, <2>2 DEF PointerRight, IsA
<1>5. MemberRight'
  <2>1. (\A x, y : IsA(x, y)' <=> IsA(x, y)) /\ ClassNames' = ClassNames BY <1>1, SameClasses
  <2> QED BY <1>1, <2>1 DEF ObjectInv, MemberRight, NoPointer, Ptr
<1> QED BY <1>1, <1>3, <1>4, <1>5 DEF ObjectInv, HierarchyGiven

\* What a pointer leads to is known as long as it stays.
LEMMA ClassesKept ==
  ASSUME ObjectInv, classes' = classes, objectSaid \subseteq objectSaid'
  PROVE  /\ HierarchyGiven'
         /\ pointer' = pointer => PointerRight'
         /\ member' = member => MemberRight'
<1>1. (\A x, y : IsA(x, y)' <=> IsA(x, y)) /\ ClassNames' = ClassNames BY SameClasses
<1>2. ASSUME pointer' = pointer PROVE PointerRight'
  <2>1. (Points' <=> Points) /\ (Alive' <=> Alive) BY <1>2 DEF Points, Alive, NoPointer, Ptr
  <2> QED BY <1>1, <1>2, <2>1 DEF ObjectInv, PointerRight
<1>3. ASSUME member' = member PROVE MemberRight'
  BY <1>1, <1>3 DEF ObjectInv, MemberRight, NoPointer, Ptr
<1> QED BY <1>2, <1>3 DEF ObjectInv, HierarchyGiven

LEMMA NullKeeps ==
  ASSUME ObjectInv, NEW c \in ClassNames, NullPointer(c)
  PROVE  ObjectInv'
<1>1. classes' = classes /\ objectSaid' = objectSaid /\ member' = member /\ wrong' = wrong
  BY DEF NullPointer, ObjectStep
<1>2. pointer' = [static |-> c, dynamic |-> Null, how |-> "made"] BY DEF NullPointer, Ptr
<1>3. PointerRight'
  <2>1. ClassNames' = ClassNames BY <1>1, SameClasses
  <2>2. ~Alive' BY <1>2 DEF Alive
  <2> QED BY <1>2, <2>1, <2>2 DEF PointerRight
<1> QED BY <1>1, <1>3, ClassesKept, StaysAnnounced DEF ObjectInv

\* No implicit conversion and no dynamic_cast makes a pointer wrong.
LEMMA ConvertKeeps ==
  ASSUME ObjectInv, NEW t \in ClassNames, NEW how \in {"implicit", "static", "dynamic", "reinterpret"},
         ConvertPointer(how, t)
  PROVE  ObjectInv'
<1>1. /\ classes' = classes /\ member' = member /\ wrong' = wrong
      /\ objectSaid' = objectSaid \cup JudgeConversion(how, pointer.static, t)
      /\ Points /\ Convertible(how, pointer.static, t)
  BY DEF ConvertPointer, ObjectStep
<1>2. how = "reinterpret" => "ReinterpretCast" \in objectSaid'
  BY <1>1 DEF JudgeConversion, ReinterpretCast, Say
<1>3. (\A x, y : IsA(x, y)' <=> IsA(x, y)) /\ ClassNames' = ClassNames BY <1>1, SameClasses
<1>4. pointer.static \in ClassNames /\ pointer.dynamic \in ClassNames \cup {Null} BY <1>1 DEF ObjectInv, PointerRight
<1>5. PointerRight'
  <2>1. CASE how = "dynamic" /\ Alive /\ ~IsA(pointer.dynamic, t)
    <3>1. pointer' = [static |-> t, dynamic |-> Null, how |-> pointer.how] BY <2>1 DEF ConvertPointer, Ptr
    <3>2. ~Alive' BY <3>1 DEF Alive
    <3> QED BY <1>3, <3>1, <3>2 DEF PointerRight
  <2>2. CASE ~(how = "dynamic" /\ Alive /\ ~IsA(pointer.dynamic, t))
    <3>1. pointer' = [static |-> t, dynamic |-> pointer.dynamic,
                      how |-> IF Alive /\ Typed /\ ~IsA(pointer.dynamic, t) THEN how ELSE pointer.how]
      BY <2>2 DEF ConvertPointer, Ptr
    <3>2. ASSUME Alive', ~IsA(pointer.dynamic, t)
          PROVE  pointer'.how = "static" \/ "ReinterpretCast" \in objectSaid'
      <4>1. pointer.dynamic \in ClassNames /\ Alive /\ how # "dynamic"
        <5>1. pointer.dynamic # Null BY <3>1, <3>2 DEF Alive
        <5>2. Alive BY <1>1, <5>1 DEF Alive
        <5> QED BY <1>4, <2>2, <3>2, <5>1, <5>2
      <4>2. CASE Typed
        <5>1. pointer'.how = how BY <3>1, <3>2, <4>1, <4>2
        <5>2. how # "implicit"
          <6> SUFFICES ASSUME how = "implicit" PROVE FALSE OBVIOUS
          <6>1. t \in Line(pointer.static) BY <1>1 DEF Convertible, DerivedFrom
          <6>2. pointer.static \in Line(pointer.dynamic) BY <4>1, <4>2 DEF Typed, IsA
          <6>3. t \in Line(pointer.dynamic) BY <6>1, <6>2, LineTransitive
          <6> QED BY <3>2, <6>3 DEF IsA
        <5> QED BY <1>2, <4>1, <5>1, <5>2
      <4>3. CASE ~Typed
        <5>1. pointer'.how = pointer.how BY <3>1, <4>3
        <5>2. pointer.how = "static" \/ "ReinterpretCast" \in objectSaid
          BY <1>1, <4>1, <4>3 DEF ObjectInv, PointerRight, Typed
        <5> QED BY <1>1, <5>1, <5>2
      <4> QED BY <4>2, <4>3
    <3> QED BY <1>3, <1>4, <3>1, <3>2 DEF PointerRight
  <2> QED BY <2>1, <2>2
<1> QED BY <1>1, <1>5, ClassesKept, StaysAnnounced DEF ObjectInv

LEMMA MembersKeep ==
  ASSUME ObjectInv, NEW t \in ClassNames,
         TakeMember(t) \/ \E how \in {"static", "reinterpret"} : ConvertMember(how, t)
  PROVE  ObjectInv'
<1>1. CASE TakeMember(t)
  <2>1. classes' = classes /\ pointer' = pointer /\ wrong' = wrong /\ objectSaid' = objectSaid
    BY <1>1 DEF TakeMember, ObjectStep
  <2>2. member' = [static |-> t, dynamic |-> t, how |-> "made"] BY <1>1 DEF TakeMember, Ptr
  <2>3. (\A x, y : IsA(x, y)' <=> IsA(x, y)) /\ ClassNames' = ClassNames BY <2>1, SameClasses
  <2>4. IsA(t, t) BY LineSelf DEF IsA
  <2>5. MemberRight' BY <2>2, <2>3, <2>4 DEF MemberRight
  <2> QED BY <2>1, <2>5, ClassesKept, StaysAnnounced DEF ObjectInv
<1>2. ASSUME NEW how \in {"static", "reinterpret"}, ConvertMember(how, t) PROVE ObjectInv'
  <2>1. /\ classes' = classes /\ pointer' = pointer /\ wrong' = wrong /\ member # NoPointer
        /\ objectSaid' = objectSaid \cup MemberPointerConversion(how, member.static, t)
    BY <1>2 DEF ConvertMember, ObjectStep
  <2>2. member' = [static |-> t, dynamic |-> member.dynamic,
                   how |-> IF IsA(member.static, member.dynamic) /\ ~IsA(t, member.dynamic) THEN how ELSE member.how]
    BY <1>2 DEF ConvertMember, Ptr
  <2>3. (\A x, y : IsA(x, y)' <=> IsA(x, y)) /\ ClassNames' = ClassNames BY <2>1, SameClasses
  <2>4. how = "reinterpret" => "MemberPointerConversion" \in objectSaid'
    BY <2>1 DEF MemberPointerConversion, Say
  <2>5. MemberRight'
    <3>1. member.dynamic \in ClassNames
          /\ (~IsA(member.static, member.dynamic) =>
                member.how = "static" \/ "MemberPointerConversion" \in objectSaid)
      BY <2>1 DEF ObjectInv, MemberRight
    <3>2. ~IsA(t, member.dynamic) => member'.how = "static" \/ "MemberPointerConversion" \in objectSaid'
      BY <2>1, <2>2, <2>4, <3>1
    <3> QED BY <2>2, <2>3, <3>1, <3>2 DEF MemberRight
  <2> QED BY <2>1, <2>5, ClassesKept, StaysAnnounced DEF ObjectInv
<1> QED BY <1>1, <1>2

-----------------------------------------------------------------------------
\* What goes wrong first, by its kind.
LEMMA WentAnnounced ==
  ASSUME ObjectInv, classes' = classes, objectSaid \subseteq objectSaid',
         NEW kind \in {"partly_destroyed", "hidden", "other_default", "two_owners", "sliced",
                       "null_typeid", "wrong_type", "no_member"},
         NEW of, NEW way, wrong' = First(Went(kind, of, way)),
         kind = "partly_destroyed" =>
           \/ "RequireVirtualDestructor" \in SaidOf(of)
           \/ \A d \in DOMAIN classes : classes[d].base = of => ~classes[d].top,
         kind = "hidden" => {"UseOverride", "VirtualDestructor"} \cap SaidOf(way) = {} /\ UseOverride(of) = {},
         kind = "other_default" => \A c \in {of, way} : "VirtualFunctionDefaultArg" \in SaidOf(c),
         kind = "two_owners" => "RuleOfFive" \in SaidOf(of) \/ Cardinality(classes[of].five) = 5,
         kind = "sliced" => "ObjectSlicing" \in objectSaid' \/ way \in {"base", "move"},
         kind = "null_typeid" => "TypeidOnDereferencedPointer" \in objectSaid',
         kind = "wrong_type" => "ReinterpretCast" \in objectSaid' \/ way = "static",
         kind = "no_member" => "MemberPointerConversion" \in objectSaid' \/ way = "static"
  PROVE  Announced'
<1> DEFINE m == Went(kind, of, way)
<1>1. \A x : SaidOf(x)' = SaidOf(x) /\ UseOverride(x)' = UseOverride(x) BY SameClasses
<1>2. m.kind = kind /\ m.of = of /\ m.way = way BY DEF Went
<1> HIDE DEF m
<1>3. ASSUME wrong' = m PROVE Announced'
  <2>1. wrong'.kind = kind /\ wrong'.of = of /\ wrong'.way = way BY <1>2, <1>3
  <2>2. kind # "override_missed" OBVIOUS
  <2> QED BY <1>1, <2>1, <2>2 DEF Announced
<1> QED BY <1>3, FirstAnnounced DEF ObjectInv, m

\* Between an m and the one that an object of a derived class has, there is one that
\* hides it.
LEMMA HidingIs ==
  ASSUME HierarchyGiven, NEW d \in ClassNames, NEW s \in Line(d), HasM(s), Declares(s) # Declares(d)
  PROVE  LET c == Hiding(d, Declares(s))
         IN  /\ c \in Line(d) /\ classes[c].method # "none" /\ BaseOf(c) # NoBase
             /\ Declares(BaseOf(c)) = Declares(s)
<1> DEFINE f == Declares(s)
           S == {e \in Line(d) : HasM(e) => Declares(e) # f}
<1>1. SUFFICES \E c \in Line(d) : classes[c].method # "none" /\ BaseOf(c) # NoBase /\ Declares(BaseOf(c)) = f
  BY <1>1 DEF Hiding, BaseOf
<1>2. SUFFICES ASSUME \A c \in Line(d) : classes[c].method # "none" /\ BaseOf(c) # NoBase => Declares(BaseOf(c)) # f
               PROVE  FALSE
  OBVIOUS
<1>3. d \in S BY LineSelf
<1>4. ASSUME NEW c \in Line(d), c \in S, BaseOf(c) # NoBase PROVE BaseOf(c) \in S
  <2>1. BaseOf(c) \in Line(d) /\ c \in ClassNames BY <1>4, LineBase, LineNames
  <2>2. ASSUME HasM(BaseOf(c)) PROVE Declares(BaseOf(c)) # f
    <3>1. CASE classes[c].method # "none" BY <1>2, <1>4, <3>1
    <3>2. CASE classes[c].method = "none"
      <4>1. HasM(c)
        <5>1. PICK b \in Line(BaseOf(c)) : classes[b].method # "none" BY <2>2 DEF HasM
        <5>2. BaseOf(c) \in Line(c)
          <6>1. c \in Line(c) BY <2>1, LineSelf
          <6> QED BY <1>4, <6>1, LineBase
        <5>3. b \in Line(c) BY <5>2, LineTransitive
        <5> QED BY <5>1, <5>3 DEF HasM
      <4>2. Declares(c) = Declares(BaseOf(c)) BY <2>1, <3>2, <4>1, SameInBase
      <4>3. Declares(c) # f BY <1>4, <4>1
      <4> QED BY <4>2, <4>3
    <3> QED BY <3>1, <3>2
  <2> QED BY <2>1, <2>2
<1>5. Line(d) \subseteq S
  <2> HIDE DEF S
  <2> QED BY <1>3, <1>4, UpTheLine
<1> QED BY <1>5

\* A call of m.
LEMMA CallKeeps ==
  ASSUME ObjectInv, CallM
  PROVE  ObjectInv'
<1> DEFINE s == pointer.static
           d == pointer.dynamic
           f == Declares(s)
           body == IF VirtualM(f) THEN Declares(d) ELSE f
<1>1. /\ classes' = classes /\ objectSaid' = objectSaid /\ pointer' = pointer /\ member' = member
      /\ Alive /\ HasM(s)
  BY DEF CallM, ObjectStep
<1>2. HierarchyGiven /\ s \in ClassNames /\ d \in ClassNames
  BY <1>1 DEF ObjectInv, PointerRight, Alive
<1>3. wrong' = IF ~Typed THEN First(Went("wrong_type", s, pointer.how))
               ELSE IF body # Declares(d) THEN First(Went("hidden", Hiding(d, f), f))
               ELSE IF 0 \notin {classes[f].default, classes[body].default} /\ classes[f].default # classes[body].default
               THEN First(Went("other_default", body, f)) ELSE wrong
  BY DEF CallM
<1>4. Nearest(s, f) BY <1>1, <1>2, NearestDeclares
<1> HIDE DEF s, d, f, body
<1>5. CASE ~Typed
  <2>1. pointer.how = "static" \/ "ReinterpretCast" \in objectSaid
    BY <1>1, <1>5 DEF ObjectInv, PointerRight, Alive, Typed
  <2>2. wrong' = First(Went("wrong_type", s, pointer.how)) BY <1>3, <1>5
  <2> QED BY <1>1, <2>1, <2>2, WentAnnounced, ClassesKept DEF ObjectInv
<1>6. CASE Typed
  <2>1. s \in Line(d) BY <1>1, <1>6 DEF Typed, IsA, s, d
  <2>2. \A e \in Line(s) : e \in Line(d) BY <2>1, LineTransitive
  <2>3. HasM(d) BY <1>1, <2>2 DEF HasM
  <2>4. Nearest(d, Declares(d)) BY <1>2, <2>3, NearestDeclares
  <2>5. f \in Line(s) /\ f \in Line(d) /\ f \in ClassNames /\ classes[f].method # "none"
    BY <1>4, <2>2, LineNames DEF Nearest
  <2>6. CASE body # Declares(d)
    <3>1. ~VirtualM(f) /\ body = f BY <2>6 DEF body
    <3>2. f # Declares(d) BY <2>6, <3>1
    <3> DEFINE c == Hiding(d, f)
    <3>3. c \in Line(d) /\ classes[c].method # "none" /\ BaseOf(c) # NoBase /\ Declares(BaseOf(c)) = f
      BY <1>1, <1>2, <2>1, <3>2, HidingIs DEF f
    <3> HIDE DEF c
    <3>4. c \in ClassNames /\ BaseOf(c) \in ClassNames BY <1>2, <3>3, LineNames, LineBase
    <3>5. UseOverride(c) = {}
      <4> SUFFICES ASSUME NEW b \in Line(c) \ {c}, classes[b].method = "virtual" PROVE FALSE
        BY DEF UseOverride, Overriding, Say
      <4>1. b \in Line(BaseOf(c)) BY <1>2, <3>4, LineAbove
      <4>2. HasM(BaseOf(c)) BY <4>1 DEF HasM
      <4>3. Nearest(BaseOf(c), f) BY <1>2, <3>3, <3>4, <4>2, NearestDeclares
      <4>4. b \in Line(f) BY <4>1, <4>3 DEF Nearest
      <4> QED BY <3>1, <4>4 DEF VirtualM
    <3>6. {"UseOverride", "VirtualDestructor"} \cap SaidOf(f) = {}
      <4>1. "UseOverride" \notin SaidOf(f)
        <5>1. ~Overriding(f) BY <3>1 DEF Overriding, VirtualM
        <5> QED BY <5>1, SaidIs DEF RequireVirtualDestructor, VirtualDestructor, RuleOfFive, UseOverride,
                  VirtualFunctionDefaultArg, VirtualCallInCtorDtor, Say
      <4>2. "VirtualDestructor" \notin SaidOf(f)
        <5>1. OwnVirtual(f) => VirtualDtor(f) BY <3>1 DEF OwnVirtual
        <5> QED BY <5>1, SaidIs DEF RequireVirtualDestructor, VirtualDestructor, RuleOfFive, UseOverride,
                  VirtualFunctionDefaultArg, VirtualCallInCtorDtor, Say
      <4> QED BY <4>1, <4>2
    <3>7. wrong' = First(Went("hidden", c, f)) BY <1>3, <1>6, <2>6 DEF c
    <3> QED BY <1>1, <3>5, <3>6, <3>7, WentAnnounced, ClassesKept DEF ObjectInv
  <2>7. CASE /\ body = Declares(d)
             /\ 0 \notin {classes[f].default, classes[body].default} /\ classes[f].default # classes[body].default
    <3>1. VirtualM(f) BY <2>7 DEF body
    <3>2. PICK b \in Line(f) : classes[b].method = "virtual" BY <3>1 DEF VirtualM
    <3>3. b \in Line(d) BY <2>5, <3>2, LineTransitive
    <3>4. b \in Line(body) /\ classes[body].method # "none" BY <2>4, <2>7, <3>2, <3>3 DEF Nearest
    <3>5. VirtualM(body) BY <3>2, <3>4 DEF VirtualM
    <3>6. \A x \in {body, f} : "VirtualFunctionDefaultArg" \in SaidOf(x)
      BY <2>5, <2>7, <3>1, <3>4, <3>5, SaidIs DEF VirtualFunctionDefaultArg, Say
    <3>7. wrong' = First(Went("other_default", body, f)) BY <1>3, <1>6, <2>7
    <3> QED BY <1>1, <3>6, <3>7, WentAnnounced, ClassesKept DEF ObjectInv
  <2>8. CASE /\ body = Declares(d)
             /\ ~(0 \notin {classes[f].default, classes[body].default} /\ classes[f].default # classes[body].default)
    <3>1. wrong' = wrong BY <1>3, <1>6, <2>8
    <3> QED BY <1>1, <3>1, StaysAnnounced, ClassesKept DEF ObjectInv
  <2> QED BY <2>6, <2>7, <2>8
<1> QED BY <1>5, <1>6

\* The end of an object.
LEMMA DeleteKeeps ==
  ASSUME ObjectInv, Delete
  PROVE  ObjectInv'
<1> DEFINE s == pointer.static
<1>1. /\ classes' = classes /\ objectSaid' = objectSaid /\ member' = member /\ pointer' = NoPointer
      /\ Alive /\ classes[s].dtor \in {"implicit", "public"}
      /\ wrong' = IF ~Typed THEN First(Went("wrong_type", s, pointer.how))
                  ELSE IF s # pointer.dynamic /\ ~VirtualDtor(s)
                  THEN First(Went("partly_destroyed", s, "any")) ELSE wrong
  BY DEF Delete, ObjectStep
<1>2. PointerRight' BY <1>1 DEF PointerRight, Points
<1> HIDE DEF s
<1>3. CASE ~Typed
  <2>1. pointer.how = "static" \/ "ReinterpretCast" \in objectSaid
    BY <1>1, <1>3 DEF ObjectInv, PointerRight, Alive, Typed
  <2>2. wrong' = First(Went("wrong_type", s, pointer.how)) BY <1>1, <1>3
  <2>3. Announced' BY <1>1, <2>1, <2>2, WentAnnounced
  <2> QED BY <1>1, <1>2, <2>3, ClassesKept DEF ObjectInv
<1>4. CASE Typed /\ s # pointer.dynamic /\ ~VirtualDtor(s)
  <2>1. \/ "RequireVirtualDestructor" \in SaidOf(s)
        \/ \A d \in DOMAIN classes : classes[d].base = s => ~classes[d].top
    <3> SUFFICES ASSUME NEW d \in DOMAIN classes, classes[d].base = s, classes[d].top
                 PROVE  "RequireVirtualDestructor" \in SaidOf(s)
      OBVIOUS
    <3>1. UsedAsBase(s) BY DEF UsedAsBase
    <3>2. Implicit(s) \/ (classes[s].dtor = "public") # VirtualDtor(s)
      <4>1. CASE Implicit(s) BY <4>1
      <4>2. CASE ~Implicit(s)
        <5>1. classes[s].dtor = "public" BY <1>1, <4>2 DEF Implicit
        <5> QED BY <1>4, <5>1
      <4> QED BY <4>1, <4>2
    <3>3. "RequireVirtualDestructor" \in RequireVirtualDestructor(s)
      BY <3>1, <3>2, Zenon DEF RequireVirtualDestructor, Say
    <3> QED BY <3>3, SaidIs
  <2>2. wrong' = First(Went("partly_destroyed", s, "any")) BY <1>1, <1>4
  <2>3. Announced' BY <1>1, <2>1, <2>2, WentAnnounced
  <2> QED BY <1>1, <1>2, <2>3, ClassesKept DEF ObjectInv
<1>5. CASE Typed /\ ~(s # pointer.dynamic /\ ~VirtualDtor(s))
  <2>1. wrong' = wrong BY <1>1, <1>5
  <2> QED BY <1>1, <1>2, <2>1, StaysAnnounced, ClassesKept DEF ObjectInv
<1> QED BY <1>3, <1>4, <1>5

\* A class that owns declares its destructor, so one to five special members.
LEMMA OwnersDeclare ==
  ASSUME HierarchyGiven, NEW c \in ClassNames, classes[c].owns
  PROVE  "RuleOfFive" \in SaidOf(c) \/ Cardinality(classes[c].five) = 5
<1> DEFINE F == classes[c].five
<1>1. "dtor" \in F /\ F \subseteq SpecialMembers BY HierarchiesAssumption DEF HierarchyGiven, ClassNames
<1>2. IsFiniteSet(SpecialMembers) /\ Cardinality(SpecialMembers) = 5
  <2> DEFINE A == {"dtor"}
             B == A \cup {"copy"}
             C == B \cup {"copy="}
             E == C \cup {"move"}
  <2>2. IsFiniteSet(A) /\ Cardinality(A) = 1 BY FS_Singleton
  <2>3. IsFiniteSet(B) /\ Cardinality(B) = 2
    <3>1. "copy" \notin A OBVIOUS
    <3> HIDE DEF A
    <3> QED BY <2>2, <3>1, FS_AddElement
  <2>4. IsFiniteSet(C) /\ Cardinality(C) = 3
    <3>1. "copy=" \notin B OBVIOUS
    <3> HIDE DEF B
    <3> QED BY <2>3, <3>1, FS_AddElement
  <2>5. IsFiniteSet(E) /\ Cardinality(E) = 4
    <3>1. "move" \notin C OBVIOUS
    <3> HIDE DEF C
    <3> QED BY <2>4, <3>1, FS_AddElement
  <2>6. IsFiniteSet(E \cup {"move="}) /\ Cardinality(E \cup {"move="}) = 5
    <3>1. "move=" \notin E OBVIOUS
    <3> HIDE DEF E
    <3> QED BY <2>5, <3>1, FS_AddElement
  <2>7. E \cup {"move="} = SpecialMembers BY DEF SpecialMembers
  <2> HIDE DEF E
  <2> QED BY <2>6, <2>7
<1> HIDE DEF F
<1>3. IsFiniteSet(F) /\ Cardinality(F) <= 5 /\ Cardinality(F) \in Nat
  BY <1>1, <1>2, FS_Subset, FS_CardinalityType
<1>4. Cardinality(F) # 0 BY <1>1, <1>3, FS_EmptySet
<1>5. Cardinality(F) \in 1 .. 4 \/ Cardinality(F) = 5 BY <1>3, <1>4
<1>6. Cardinality(F) \in 1 .. 4 => "RuleOfFive" \in RuleOfFive(c) BY DEF RuleOfFive, Say, F
<1> QED BY <1>5, <1>6, SaidIs DEF F

\* Copies.
LEMMA CopyKeeps ==
  ASSUME ObjectInv, NEW b \in ClassNames, NEW way \in Copies \cup {"assign", "move"}, CopyTo(way, b)
  PROVE  ObjectInv'
<1> DEFINE s == pointer.static
           taken == Taken(way, b)
           end == IF s = b THEN "base" ELSE taken
           c == CHOOSE c \in Line(b) : classes[c].owns /\ classes[c].shallow
<1>1. /\ classes' = classes /\ pointer' = pointer /\ member' = member /\ IsA(s, b)
      /\ objectSaid' = objectSaid \cup JudgeCopy(taken, s, b)
      /\ wrong' = IF \E x \in Line(b) : classes[x].owns /\ classes[x].shallow
                  THEN First(Went("two_owners", c, way))
                  ELSE IF pointer.dynamic # b THEN First(Went("sliced", b, end)) ELSE wrong
  BY DEF CopyTo, ObjectStep
<1>2. taken \in Copies \cup {"assign", "move"} BY DEF Taken, Copies
<1>3. "ObjectSlicing" \in objectSaid' \/ end \in {"base", "move"}
  <2> SUFFICES ASSUME s # b, taken \in Copies \cup {"assign"} PROVE "ObjectSlicing" \in objectSaid'
    BY <1>2
  <2>1. DerivedFrom(s, b) BY <1>1 DEF DerivedFrom, IsA
  <2>2. "ObjectSlicing" \in ObjectSlicing(taken, s, b) BY <2>1 DEF ObjectSlicing, Say
  <2> HIDE DEF s, taken
  <2> QED BY <1>1, <2>2 DEF JudgeCopy
<1> HIDE DEF s, taken, end
<1>4. CASE \E x \in Line(b) : classes[x].owns /\ classes[x].shallow
  <2>1. c \in Line(b) /\ classes[c].owns BY <1>4
  <2> HIDE DEF c
  <2>2. "RuleOfFive" \in SaidOf(c) \/ Cardinality(classes[c].five) = 5
    BY <2>1, LineNames, OwnersDeclare DEF ObjectInv
  <2>3. wrong' = First(Went("two_owners", c, way)) BY <1>1, <1>4
  <2> QED BY <1>1, <2>2, <2>3, WentAnnounced, ClassesKept DEF ObjectInv
<1>5. CASE ~(\E x \in Line(b) : classes[x].owns /\ classes[x].shallow) /\ pointer.dynamic # b
  <2>1. wrong' = First(Went("sliced", b, end)) BY <1>1, <1>5
  <2> QED BY <1>1, <1>3, <2>1, WentAnnounced, ClassesKept DEF ObjectInv
<1>6. CASE ~(\E x \in Line(b) : classes[x].owns /\ classes[x].shallow) /\ pointer.dynamic = b
  <2>1. wrong' = wrong BY <1>1, <1>6
  <2> QED BY <1>1, <2>1, StaysAnnounced, ClassesKept DEF ObjectInv
<1> QED BY <1>4, <1>5, <1>6

LEMMA TypeIdKeeps ==
  ASSUME ObjectInv, NEW form \in {"deref", "reference", "type"}, TypeId(form)
  PROVE  ObjectInv'
<1>1. /\ classes' = classes /\ pointer' = pointer /\ member' = member
      /\ objectSaid' = objectSaid \cup TypeidOnDereferencedPointer(form, pointer.static)
      /\ wrong' = IF form = "deref" /\ ~Alive /\ IsPolymorphic(pointer.static)
                  THEN First(Went("null_typeid", pointer.static, form)) ELSE wrong
  BY DEF TypeId, ObjectStep
<1>2. CASE form = "deref" /\ ~Alive /\ IsPolymorphic(pointer.static)
  <2>1. "TypeidOnDereferencedPointer" \in objectSaid' BY <1>1, <1>2 DEF TypeidOnDereferencedPointer, Say
  <2>2. wrong' = First(Went("null_typeid", pointer.static, form)) BY <1>1, <1>2
  <2> QED BY <1>1, <2>1, <2>2, WentAnnounced, ClassesKept DEF ObjectInv
<1>3. CASE ~(form = "deref" /\ ~Alive /\ IsPolymorphic(pointer.static))
  <2>1. wrong' = wrong BY <1>1, <1>3
  <2> QED BY <1>1, <2>1, StaysAnnounced, ClassesKept DEF ObjectInv
<1> QED BY <1>2, <1>3

LEMMA UseMemberKeeps ==
  ASSUME ObjectInv, UseMember
  PROVE  ObjectInv'
<1>1. /\ classes' = classes /\ objectSaid' = objectSaid /\ pointer' = pointer /\ member' = member
      /\ Alive /\ Typed /\ member # NoPointer /\ IsA(pointer.static, member.static)
      /\ wrong' = IF IsA(pointer.dynamic, member.dynamic) THEN wrong
                  ELSE First(Went("no_member", member.dynamic, member.how))
  BY DEF UseMember, ObjectStep
<1>2. CASE IsA(pointer.dynamic, member.dynamic)
  <2>1. wrong' = wrong BY <1>1, <1>2
  <2> QED BY <1>1, <2>1, StaysAnnounced, ClassesKept DEF ObjectInv
<1>3. CASE ~IsA(pointer.dynamic, member.dynamic)
  <2>1. ~IsA(member.static, member.dynamic)
    <3> SUFFICES ASSUME member.dynamic \in Line(member.static) PROVE FALSE BY DEF IsA
    <3>1. pointer.static \in Line(pointer.dynamic) /\ member.static \in Line(pointer.static)
      BY <1>1 DEF Typed, IsA
    <3>2. member.static \in Line(pointer.dynamic) BY <3>1, LineTransitive
    <3>3. member.dynamic \in Line(pointer.dynamic) BY <3>2, LineTransitive
    <3> QED BY <1>3, <3>3 DEF IsA
  <2>2. member.how = "static" \/ "MemberPointerConversion" \in objectSaid
    BY <1>1, <2>1 DEF ObjectInv, MemberRight
  <2>3. wrong' = First(Went("no_member", member.dynamic, member.how)) BY <1>1, <1>3
  <2> QED BY <1>1, <2>2, <2>3, WentAnnounced, ClassesKept DEF ObjectInv
<1> QED BY <1>2, <1>3

\* The two checks of destructors between them accept no protected destructor of a class
\* with a virtual function of its own.
LEMMA DestructorsJudged == ASSUME NEW c, classes[c].key = "class", classes[c].dtor = "protected", OwnVirtual(c)
                           PROVE  {"RequireVirtualDestructor", "VirtualDestructor"} \cap SaidOf(c) # {}
<1>1. CASE VirtualDtor(c)
  <2>1. IsPolymorphic(c) BY <1>1 DEF IsPolymorphic
  <2>2. (classes[c].dtor = "public") # VirtualDtor(c) BY <1>1
  <2>3. "RequireVirtualDestructor" \in RequireVirtualDestructor(c)
    BY <2>1, <2>2, Zenon DEF RequireVirtualDestructor, Say
  <2> QED BY <2>3, SaidIs
<1>2. CASE ~VirtualDtor(c)
  <2>1. "VirtualDestructor" \in VirtualDestructor(c) BY <1>2 DEF VirtualDestructor, Say
  <2> QED BY <2>1, SaidIs
<1> QED BY <1>1, <1>2

\* What goes wrong with an object was reported on its class or on a statement, but for the
\* gaps listed, for all classes and all uses of a pointer (VirtualDestructorCheck.cpp and the
\* other checks of classes).
THEOREM ClassesRight == ClassSpec => []ClassesJudged
<1>1. ObjectInit => ObjectInv
  BY DEF ObjectInit, ObjectInv, HierarchyGiven, PointerRight, MemberRight, Announced, Points, AllWell
<1>2. ObjectInv /\ [ObjectNext]_objectVars => ObjectInv'
  <2> SUFFICES ASSUME ObjectInv, [ObjectNext]_objectVars PROVE ObjectInv' OBVIOUS
  <2>1. ASSUME NEW c \in DOMAIN classes, New(c) \/ NullPointer(c) \/ TakeMember(c) PROVE ObjectInv'
    BY <2>1, NewAnnounced, NullKeeps, MembersKeep DEF ClassNames
  <2>2. ASSUME NEW c \in DOMAIN classes, NEW how \in {"implicit", "static", "dynamic", "reinterpret"},
               ConvertPointer(how, c)
        PROVE  ObjectInv'
    BY <2>2, ConvertKeeps DEF ClassNames
  <2>3. ASSUME NEW c \in DOMAIN classes, NEW way \in Copies \cup {"assign", "move"}, CopyTo(way, c) PROVE ObjectInv'
    BY <2>3, CopyKeeps DEF ClassNames
  <2>4. ASSUME NEW c \in DOMAIN classes, NEW how \in {"static", "reinterpret"}, ConvertMember(how, c) PROVE ObjectInv'
    BY <2>4, MembersKeep DEF ClassNames
  <2>5. ASSUME NEW form \in {"deref", "reference", "type"}, TypeId(form) PROVE ObjectInv' BY <2>5, TypeIdKeeps
  <2>6. CASE CallM BY <2>6, CallKeeps
  <2>7. CASE Delete BY <2>7, DeleteKeeps
  <2>8. CASE UseMember BY <2>8, UseMemberKeeps
  <2>9. CASE UNCHANGED objectVars
    <3>1. /\ classes' = classes /\ pointer' = pointer /\ member' = member /\ wrong' = wrong
          /\ objectSaid' = objectSaid
      BY <2>9 DEF objectVars
    <3> QED BY <3>1, ClassesKept, StaysAnnounced DEF ObjectInv
  <2>10. CASE ObjectDone BY <2>9, <2>10 DEF ObjectDone
  <2> QED BY <2>1, <2>2, <2>3, <2>4, <2>5, <2>6, <2>7, <2>8, <2>9, <2>10 DEF ObjectNext
<1>3. ObjectInv => ClassesJudged
  BY DestructorsJudged DEF ObjectInv, ClassesJudged, DestructorsSuitOne
<1> QED BY <1>1, <1>2, <1>3, PTL DEF ClassSpec

=============================================================================
