---------------------- MODULE DiagnosticPipelineProofs ----------------------
(***************************************************************************)
(* Theorems about DiagnosticPipeline, for all files, names, locations,     *)
(* mapping items and numbers of diagnostics.                               *)
(***************************************************************************)
EXTENDS DiagnosticPipeline, SequenceTheorems, WellFoundedInduction, TLAPS

-----------------------------------------------------------------------------
\* Types.

\* The names the pipeline itself uses are names.
LEMMA SpecialNames ==
  /\ "" \in Names /\ ConfigCheck \in Names /\ NoLintCheck \in Names
  /\ "clang-diagnostic-error" \in Names /\ "clang-diagnostic-warning" \in Names
  /\ "clang-diagnostic-remark" \in Names
BY NamesAssumption DEF ClangNames

\* The call on top of the agenda, and what is below it.
LEMMA TopCall ==
  ASSUME agenda \in Seq(CallType), agenda # <<>>
  PROVE  /\ agenda[1] \in CallType
         /\ agenda[1].d \in DiagType
         /\ agenda[1].left \subseteq DOMAIN MappingItems
         /\ Tail(agenda) \in Seq(CallType)
         /\ Len(agenda) \in Nat /\ Len(agenda) >= 1
<1>1. Len(agenda) \in Nat \ {0} BY EmptySeq
<1>2. agenda[1] \in CallType BY <1>1, ElementOfSeq
<1> QED BY <1>1, <1>2, HeadTailProperties DEF CallType

\* Pushing calls keeps the agenda well typed.
LEMMA PushType ==
  ASSUME agenda \in Seq(CallType), agenda # <<>>, NEW s \in Seq(CallType), Push(s)
  PROVE  agenda' \in Seq(CallType)
BY TopCall, ConcatProperties DEF Push

\* A sequence without its last element.
LEMMA ButLast ==
  ASSUME NEW S, NEW s \in Seq(S), s # <<>>
  PROVE  /\ Len(s) \in Nat /\ Len(s) - 1 \in Nat /\ s[Len(s)] \in S
         /\ SubSeq(s, 1, Len(s) - 1) \in Seq(S)
         /\ Len(SubSeq(s, 1, Len(s) - 1)) = Len(s) - 1
         /\ \A i \in 1..(Len(s) - 1) : SubSeq(s, 1, Len(s) - 1)[i] = s[i]
<1> DEFINE n == Len(s) - 1
<1>1. Len(s) \in Nat \ {0} BY EmptySeq
<1>2. n \in Nat /\ Len(s) = n + 1 BY <1>1
<1>3. n = Len(s) - 1 OBVIOUS
<1> HIDE DEF n
<1>4. \A i \in 1..(n + 1) : s[i] \in S BY <1>2, ElementOfSeq
<1>5. \A i \in 1..n : s[i] \in S BY <1>2, <1>4
<1>6. /\ SubSeq(s, 1, n) \in Seq(S)
      /\ Len(SubSeq(s, 1, n)) = IF 1 <= n THEN n - 1 + 1 ELSE 0
      /\ \A i \in 1 .. n - 1 + 1 : SubSeq(s, 1, n)[i] = s[1 + i - 1]
  BY <1>2, <1>5, SubSeqProperties
<1>7. /\ Len(SubSeq(s, 1, n)) = n
      /\ \A i \in 1..n : SubSeq(s, 1, n)[i] = s[i]
  BY <1>2, <1>6
<1> QED BY <1>1, <1>2, <1>3, <1>4, <1>6, <1>7

\* Settling the last error: what is left is a prefix of the errors, shorter by
\* the last one or not at all, and one counter is incremented.
LEMMA SettledType ==
  ASSUME TypeOK
  PROVE  /\ Settled \in Seq(ErrorType)
         /\ SettledStats \in [{"displayed", "check", "nolint", "nonuser", "line"} -> Nat]
         /\ Len(Settled) \in Nat /\ Len(errors) \in Nat
         /\ Len(Settled) <= Len(errors)
         /\ \A i \in 1..Len(Settled) : Settled[i] = errors[i]
<1>1. Len(errors) \in Nat BY LenProperties DEF TypeOK
<1>2. CASE errors = <<>> \/ Verdict = "displayed"
  BY <1>1, <1>2 DEF TypeOK, Settled, SettledStats, Verdict
<1>3. CASE errors # <<>> /\ Verdict # "displayed"
  <2>1. Settled = SubSeq(errors, 1, Len(errors) - 1) BY <1>3 DEF Settled
  <2>2. SettledStats = [stats EXCEPT ![Verdict] = @ + 1] BY <1>3 DEF SettledStats
  <2>3. Verdict \in {"displayed", "check", "nolint", "nonuser", "line"} BY DEF Verdict
  <2>4. SettledStats \in [{"displayed", "check", "nolint", "nonuser", "line"} -> Nat]
    BY <2>2, <2>3 DEF TypeOK
  <2>5. errors \in Seq(ErrorType) /\ errors # <<>> BY <1>3 DEF TypeOK
  <2>6. /\ Settled \in Seq(ErrorType) /\ Len(errors) - 1 \in Nat
        /\ Len(Settled) = Len(errors) - 1
        /\ \A i \in 1..(Len(errors) - 1) : Settled[i] = errors[i]
    BY <2>1, <2>5, ButLast
  <2> QED BY <1>1, <2>4, <2>6
<1> QED BY <1>2, <1>3

\* The record that AddError pushes.
LEMMA NewErrorType ==
  ASSUME file \in Files, NEW d \in DiagType, d.level # "note"
  PROVE  NewError(d) \in ErrorType
<1>1. /\ d.root \in Nat /\ d.gen \in Nat /\ d.name \in Names /\ d.text \in Texts
      /\ d.loc \in Locs \cup {NoLoc} /\ d.level \in {"remark", "warning", "error"}
  BY DEF DiagType, Levels
<1>2. ErrorName(d) \in Names
  BY <1>1, SpecialNames DEF ErrorName
<1>3. (d.level = "warning" /\ ErrorName(d) \in AsErrors[file]) \in BOOLEAN OBVIOUS
<1>4. <<>> \in Seq(NoteType) BY EmptySeq
<1> QED BY <1>1, <1>2, <1>3, <1>4 DEF NewError, ErrorType, Levels

LEMMA CallTypes ==
  ASSUME NEW d \in DiagType, NEW S \in SUBSET DOMAIN MappingItems
  PROVE  /\ Dispatch(d) \in CallType /\ Consume(d) \in CallType
         /\ Sync(d) \in CallType /\ Alts(d, S) \in CallType
BY DEF CallType, Dispatch, Consume, Sync, Alts

\* The errors that reading the NOLINT blocks of a file yields are calls.
LEMMA SuppressionErrorsType ==
  ASSUME NEW d \in DiagType
  PROVE  /\ SuppressionErrors(d) \in Seq(CallType)
         /\ \A k \in 1..Len(SuppressionErrors(d)) :
              SuppressionErrors(d)[k] \in {Dispatch(NoLintError(d, l)) : l \in Locs}
<1>1. CASE ~ReadsBlocks(d)
  <2>1. SuppressionErrors(d) = <<>> BY <1>1 DEF SuppressionErrors
  <2> QED BY <2>1, EmptySeq
<1>2. CASE ReadsBlocks(d)
  <2> DEFINE u == Unmatched[FileOf[d.loc]]
  <2>1. u \in Seq(Locs)
    BY <1>2, LocsAssumption DEF ReadsBlocks, Silenceable
  <2>2. Len(u) \in Nat /\ \A k \in 1..Len(u) : u[k] \in Locs
    BY <2>1, ElementOfSeq, LenProperties
  <2>3. \A l \in Locs : Dispatch(NoLintError(d, l)) \in CallType
    <3>1. ASSUME NEW l \in Locs PROVE NoLintError(d, l) \in DiagType
      <4>1. d.root \in Nat BY DEF DiagType
      <4>2. 0 \in Nat /\ "unmatched" \in Texts BY FilesAssumption
      <4> QED BY <4>1, <4>2, SpecialNames DEF NoLintError, Diag, DiagType, Levels
    <3> QED BY <3>1, CallTypes
  <2> DEFINE t == [k \in 1..Len(u) |-> Dispatch(NoLintError(d, u[k]))]
  <2>4. SuppressionErrors(d) = t BY <1>2 DEF SuppressionErrors
  <2>5. t \in [1..Len(u) -> CallType] BY <2>2, <2>3
  <2>6. t \in Seq(CallType) /\ Len(t) = Len(u) BY <2>2, <2>5
  <2>7. \A k \in 1..Len(t) : t[k] \in {Dispatch(NoLintError(d, l)) : l \in Locs}
    BY <2>2, <2>6
  <2> HIDE DEF t
  <2> QED BY <2>4, <2>6, <2>7
<1> QED BY <1>1, <1>2

\* What checkFilters leaves in the flags and in the two cached regexes.
LEMMA CheckFiltersType ==
  ASSUME TypeOK, NEW loc, NEW r \in BOOLEAN, NEW p \in BOOLEAN, CheckFilters(loc, r, p)
  PROVE  /\ relates' \in BOOLEAN /\ passes' \in BOOLEAN
         /\ header' \in Files \cup {Unbuilt} /\ exclude' \in Files \cup {Unbuilt}
BY DEF TypeOK, CheckFilters, UserCode, Exempt, InFile, HeaderFile, ExcludeFile

LEMMA ScanType ==
  ASSUME TypeOK, NEW d, Scan(d) PROVE scanned' \subseteq DOMAIN Unmatched
BY LocsAssumption DEF TypeOK, Scan, ReadsBlocks, Silenceable

LEMMA AltsType == ASSUME NEW n PROVE AltsOf(n) \subseteq DOMAIN MappingItems
BY DEF AltsOf

\* The calls that ever get onto the agenda: an alternative is a diagnostic when its
\* item is complete, and the loop only ever holds such items.
GoodCall == {c \in CallType : \A k \in c.left : Complete(k)}

LEMMA AlternativeType ==
  ASSUME NEW d \in DiagType, NEW k \in DOMAIN MappingItems, Complete(k)
  PROVE  Alternative(d, k) \in DiagType
<1>1. MappingItems[k] \in [orig : Names \cup {Absent}, alt : Names \cup {Absent},
                           message : Texts \cup {Absent}]
  BY MappingAssumption, ElementOfSeq, LenProperties
<1>2. MappingItems[k].alt \in Names BY <1>1 DEF Complete
<1>3. d.root \in Nat /\ d.gen + 1 \in Nat /\ d.loc \in Locs \cup {NoLoc} BY DEF DiagType
<1> DEFINE m == IF MappingItems[k].message = Absent THEN "" ELSE MappingItems[k].message
<1>4. m \in Texts BY <1>1, FilesAssumption
<1> HIDE DEF m
<1>5. Diag(d.root, d.gen + 1, MappingItems[k].alt, "warning", d.loc, m) \in DiagType
  BY <1>2, <1>3, <1>4 DEF Diag, DiagType, Levels
<1> QED BY <1>5 DEF Alternative, m

LEMMA GoodCalls ==
  ASSUME NEW d \in DiagType
  PROVE  /\ Dispatch(d) \in GoodCall /\ Consume(d) \in GoodCall /\ Sync(d) \in GoodCall
         /\ \A S \in SUBSET DOMAIN MappingItems :
              (\A k \in S : Complete(k)) => Alts(d, S) \in GoodCall
         /\ AltsOf(d.name) \subseteq DOMAIN MappingItems
         /\ \A k \in AltsOf(d.name) : Complete(k)
<1>1. /\ Dispatch(d).left = {} /\ Consume(d).left = {} /\ Sync(d).left = {}
      /\ \A S : Alts(d, S).left = S
  BY DEF Dispatch, Consume, Sync, Alts
<1>2. {} \in SUBSET DOMAIN MappingItems OBVIOUS
<1>3. /\ Dispatch(d) \in CallType /\ Consume(d) \in CallType /\ Sync(d) \in CallType
      /\ \A S \in SUBSET DOMAIN MappingItems : Alts(d, S) \in CallType
  BY <1>2, CallTypes
<1> QED BY <1>1, <1>3 DEF GoodCall, AltsOf

\* Facts about the agenda when its calls belong to some set S.
LEMMA AgendaOf ==
  ASSUME NEW S, agenda \in Seq(S), agenda # <<>>
  PROVE  /\ agenda[1] \in S
         /\ Tail(agenda) \in Seq(S)
         /\ \A s \in Seq(S) : Push(s) => agenda' \in Seq(S)
         /\ Push(<<>>) => agenda' \in Seq(S)
<1>1. Len(agenda) \in Nat \ {0} BY EmptySeq
<1>2. agenda[1] \in S BY <1>1, ElementOfSeq
<1>3. Tail(agenda) \in Seq(S) BY HeadTailProperties
<1>4. \A s \in Seq(S) : Push(s) => agenda' \in Seq(S)
  BY <1>3, ConcatProperties DEF Push
<1>5. <<>> \in Seq(S) BY EmptySeq
<1> QED BY <1>2, <1>3, <1>4, <1>5

\* The type invariant, strengthened so that it is inductive.
TypeInv == TypeOK /\ agenda \in Seq(GoodCall)

LEMMA TopIsGood ==
  ASSUME TypeInv, agenda # <<>>
  PROVE  /\ agenda[1] \in GoodCall
         /\ agenda[1].d \in DiagType
         /\ agenda[1].left \subseteq DOMAIN MappingItems
         /\ \A k \in agenda[1].left : Complete(k)
<1>1. agenda[1] \in GoodCall BY AgendaOf DEF TypeInv
<1> QED BY <1>1 DEF GoodCall, CallType

\* The agenda alone: what a step leaves on it is well typed.
LEMMA AgendaGoodThenTyped ==
  ASSUME NEW s \in Seq(GoodCall) PROVE s \in Seq(CallType)
<1>1. \A i \in 1..Len(s) : s[i] \in CallType BY ElementOfSeq DEF GoodCall
<1> QED BY <1>1, SeqDef, LenProperties

LEMMA SuppressionErrorsGood ==
  ASSUME NEW d \in DiagType PROVE SuppressionErrors(d) \in Seq(GoodCall)
<1>1. SuppressionErrors(d) \in Seq(CallType) BY SuppressionErrorsType
<1>2. \A k \in 1..Len(SuppressionErrors(d)) : SuppressionErrors(d)[k] \in GoodCall
  <2> TAKE k \in 1..Len(SuppressionErrors(d))
  <2>1. SuppressionErrors(d)[k] \in CallType BY <1>1, ElementOfSeq
  <2>2. PICK l \in Locs : SuppressionErrors(d)[k] = Dispatch(NoLintError(d, l))
    BY SuppressionErrorsType
  <2>3. SuppressionErrors(d)[k].left = {} BY <2>2 DEF Dispatch
  <2> QED BY <2>1, <2>3 DEF GoodCall
<1> QED BY <1>1, <1>2, SeqDef, LenProperties

LEMMA InitTypeInv == Init => TypeInv
<1> SUFFICES ASSUME Init PROVE TypeInv OBVIOUS
<1>1. agenda \in Seq(GoodCall) /\ agenda \in Seq(CallType) /\ errors \in Seq(ErrorType)
  BY EmptySeq DEF Init
<1>2. file \in Files
  <2>1. NumFiles \in Nat BY FilesAssumption
  <2>2. file = 0 BY DEF Init
  <2> QED BY <2>1, <2>2 DEF Files
<1>3. subject \in [id : Nat, name : Names, silenced : BOOLEAN]
  BY SpecialNames DEF Init, NoSubject
<1>4. client \in {"mapping", "consumer"} BY DEF Init, FrontClient
<1>5. stats \in [{"displayed", "check", "nolint", "nonuser", "line"} -> Nat]
  <2>1. stats = [displayed |-> 0, check |-> 0, nolint |-> 0, nonuser |-> 0, line |-> 0]
    BY DEF Init
  <2> QED BY <2>1
<1>6. /\ counts \in [{"warning", "error", "remark"} -> Nat]
      /\ mapCounts \in [{"warning", "error", "remark"} -> Nat]
  <2>1. counts = [warning |-> 0, error |-> 0, remark |-> 0] /\ mapCounts = counts
    BY DEF Init
  <2> QED BY <2>1
<1>7. /\ header \in Files \cup {Unbuilt} /\ exclude \in Files \cup {Unbuilt}
      /\ relates \in BOOLEAN /\ passes \in BOOLEAN /\ ignored \in BOOLEAN
      /\ taken \in BOOLEAN
  BY DEF Init
<1>8. scanned = {} /\ nextId = 1 /\ report = {} BY DEF Init
<1> QED BY <1>1, <1>2, <1>3, <1>4, <1>5, <1>6, <1>7, <1>8 DEF TypeInv, TypeOK

LEMMA StartFileType == TypeInv /\ StartFile => TypeInv'
<1> SUFFICES ASSUME TypeInv, StartFile PROVE TypeInv' OBVIOUS
<1> DEFINE c == ConfigDiags[file + 1]
<1> DEFINE t == [k \in 1..Len(c) |-> Dispatch(ConfigDiag(c[k]))]
<1>1. file' = file + 1 /\ file + 1 \in Files
  <2>1. NumFiles \in Nat BY FilesAssumption
  <2>2. file \in 0..NumFiles BY DEF TypeInv, TypeOK, Files
  <2>3. file < NumFiles /\ file' = file + 1 BY DEF StartFile
  <2> QED BY <2>1, <2>2, <2>3 DEF Files
<1>2. c \in Seq(Texts) BY <1>1, FilesAssumption
<1>3. \A x \in Texts : ConfigDiag(x) \in DiagType
  BY SpecialNames DEF ConfigDiag, Diag, DiagType, Levels
<1>4. \A x \in Texts : Dispatch(ConfigDiag(x)) \in GoodCall BY <1>3, GoodCalls
<1>5. Len(c) \in Nat /\ \A k \in 1..Len(c) : c[k] \in Texts
  BY <1>2, ElementOfSeq, LenProperties
<1>6. t \in [1..Len(c) -> GoodCall] BY <1>4, <1>5
<1>7. t \in Seq(GoodCall) BY <1>5, <1>6
<1>8. agenda' = t BY DEF StartFile
<1> HIDE DEF c, t
<1>9. agenda' \in Seq(GoodCall) /\ agenda' \in Seq(CallType)
  BY <1>7, <1>8, AgendaGoodThenTyped
<1>10. subject' \in [id : Nat, name : Names, silenced : BOOLEAN]
  BY SpecialNames DEF StartFile, NoSubject
<1> QED BY <1>1, <1>9, <1>10 DEF StartFile, TypeInv, TypeOK

LEMMA ReportType == TypeInv /\ (ReportDiag \/ ReportNote) => TypeInv'
<1> SUFFICES ASSUME TypeInv, ReportDiag \/ ReportNote PROVE TypeInv' OBVIOUS
<1>1. \A d \in DiagType : <<Dispatch(d)>> \in Seq(GoodCall) BY GoodCalls
<1>2. nextId \in Nat /\ subject.id \in Nat /\ subject.name \in Names BY DEF TypeInv, TypeOK
<1>3. CASE ReportDiag
  <2>1. PICK i \in Inputs :
          /\ agenda' = <<Dispatch(Diag(nextId, 0, i.name, i.level, i.loc, i.text))>>
          /\ subject' = [id |-> nextId, name |-> i.name, silenced |-> FALSE]
    BY <1>3 DEF ReportDiag, Reportable
  <2>2. /\ i.name \in Names /\ i.level \in Levels /\ i.loc \in Locs \cup {NoLoc}
        /\ i.text \in Texts
    BY InputsAssumption
  <2>3. Diag(nextId, 0, i.name, i.level, i.loc, i.text) \in DiagType
    BY <1>2, <2>2 DEF Diag, DiagType
  <2>4. agenda' \in Seq(GoodCall) /\ agenda' \in Seq(CallType)
    BY <1>1, <2>1, <2>3, AgendaGoodThenTyped
  <2>5. subject' \in [id : Nat, name : Names, silenced : BOOLEAN] BY <1>2, <2>1, <2>2
  <2>6. nextId' = nextId + 1 BY <1>3 DEF ReportDiag
  <2>7. nextId' \in Nat \ {0} BY <1>2, <2>6
  <2> QED BY <1>3, <2>4, <2>5, <2>7 DEF ReportDiag, TypeInv, TypeOK
<1>4. CASE ReportNote
  <2> DEFINE n == IF subject.name \in CompilerNames THEN "" ELSE subject.name
  <2>1. PICK l \in NoteLocs : agenda' = <<Dispatch(Diag(subject.id, 0, n, "note", l, "note"))>>
    BY <1>4 DEF ReportNote
  <2>2. n \in Names /\ l \in Locs /\ "note" \in Texts /\ "note" \in Levels
    BY <1>2, SpecialNames, LocsAssumption, FilesAssumption DEF Levels
  <2> HIDE DEF n
  <2>3. Diag(subject.id, 0, n, "note", l, "note") \in DiagType
    BY <1>2, <2>2 DEF Diag, DiagType
  <2>4. agenda' \in Seq(GoodCall) /\ agenda' \in Seq(CallType)
    BY <1>1, <2>1, <2>3, AgendaGoodThenTyped
  <2>5. nextId' = nextId + 1 BY <1>4 DEF ReportNote
  <2>6. nextId' \in Nat \ {0} BY <1>2, <2>5
  <2> QED BY <1>4, <2>4, <2>6 DEF ReportNote, TypeInv, TypeOK
<1> QED BY <1>3, <1>4

\* A nonempty set of natural numbers has a least element.
LEMMA LeastNat ==
  ASSUME NEW S \in SUBSET Nat, S # {}
  PROVE  \E i \in S : \A j \in S : i <= j
<1> DEFINE R == OpToRel(<, Nat)
<1>1. IsWellFoundedOn(R, Nat) BY NatLessThanWellFounded
<1>2. \A i, j \in S : <<j, i>> \in R <=> j < i BY DEF OpToRel
<1> HIDE DEF R
<1>3. PICK i \in S : \A j \in S : ~ (<<j, i>> \in R) BY <1>1, WFMin
<1>4. \A j \in S : ~ (j < i) BY <1>2, <1>3
<1>5. \A j \in S : i <= j BY <1>4
<1> QED BY <1>5

LEMMA LowestIsIn ==
  ASSUME NEW S \in SUBSET DOMAIN MappingItems, S # {}
  PROVE  Lowest(S) \in S
<1>1. DOMAIN MappingItems \subseteq Nat BY MappingAssumption, LenProperties
<1>2. \E i \in S : \A j \in S : i <= j BY <1>1, LeastNat
<1> QED BY <1>2 DEF Lowest

\* The steps of the engine and of the mapping only move calls.
LEMMA MappingStepsType ==
  TypeInv /\ (Deliver \/ EmitAlternative \/ RestoreClient \/ CopyCounts) => TypeInv'
<1> SUFFICES ASSUME TypeInv, Deliver \/ EmitAlternative \/ RestoreClient \/ CopyCounts
             PROVE TypeInv'
  OBVIOUS
<1>1. agenda # <<>>
  BY DEF Deliver, EmitAlternative, RestoreClient, CopyCounts, Calls
<1>2. agenda \in Seq(GoodCall) BY DEF TypeInv
<1> DEFINE d == agenda[1].d
<1>3. d \in DiagType BY <1>1, TopIsGood
<1>4. CASE Deliver
  <2> DEFINE s == IF client = "mapping" THEN MappingCalls(d) ELSE <<Consume(d)>>
  <2>1. MappingCalls(d) \in Seq(GoodCall)
    <3>1. /\ Consume(d) \in GoodCall /\ Sync(d) \in GoodCall
          /\ Alts(d, AltsOf(d.name)) \in GoodCall
      BY <1>3, GoodCalls
    <3> HIDE DEF d
    <3> QED BY <3>1 DEF MappingCalls
  <2>2. <<Consume(d)>> \in Seq(GoodCall) BY <1>3, GoodCalls
  <2>3. s \in Seq(GoodCall) /\ Push(s) BY <1>4, <2>1, <2>2 DEF Deliver
  <2>4. agenda' \in Seq(GoodCall) BY <1>1, <1>2, <2>3, AgendaOf
  <2> QED BY <1>4, <2>4, AgendaGoodThenTyped DEF Deliver, TypeInv, TypeOK
<1>5. CASE EmitAlternative
  <2> DEFINE k == Lowest(agenda[1].left)
  <2> DEFINE s == <<Dispatch(Alternative(d, k)), Alts(d, agenda[1].left \ {k})>>
  <2>1. /\ agenda[1].left # {} /\ agenda[1].left \subseteq DOMAIN MappingItems
        /\ \A j \in agenda[1].left : Complete(j)
    BY <1>1, <1>5, TopIsGood DEF EmitAlternative
  <2>2. k \in agenda[1].left BY <2>1, LowestIsIn
  <2>3. Alternative(d, k) \in DiagType BY <1>3, <2>1, <2>2, AlternativeType
  <2>4. Dispatch(Alternative(d, k)) \in GoodCall BY <2>3, GoodCalls
  <2>5. Alts(d, agenda[1].left \ {k}) \in GoodCall
    <3>1. agenda[1].left \ {k} \in SUBSET DOMAIN MappingItems BY <2>1
    <3>2. \A j \in agenda[1].left \ {k} : Complete(j) BY <2>1
    <3> QED BY <1>3, <3>1, <3>2, GoodCalls
  <2>6. s \in Seq(GoodCall) BY <2>4, <2>5
  <2>7. Push(s) BY <1>5 DEF EmitAlternative
  <2>8. agenda' \in Seq(GoodCall) BY <1>1, <1>2, <2>6, <2>7, AgendaOf
  <2> QED BY <1>5, <2>8, AgendaGoodThenTyped DEF EmitAlternative, TypeInv, TypeOK
<1>6. CASE RestoreClient \/ CopyCounts
  <2>1. Push(<<>>) BY <1>6 DEF RestoreClient, CopyCounts
  <2>2. agenda' \in Seq(GoodCall) BY <1>1, <1>2, <2>1, AgendaOf
  <2> QED BY <1>6, <2>2, AgendaGoodThenTyped DEF RestoreClient, CopyCounts, TypeInv, TypeOK
<1> QED BY <1>4, <1>5, <1>6

LEMMA IgnoreAndSuppressType == TypeInv /\ (IgnoreNote \/ Suppress) => TypeInv'
<1> SUFFICES ASSUME TypeInv, IgnoreNote \/ Suppress PROVE TypeInv' OBVIOUS
<1>1. agenda # <<>> BY DEF IgnoreNote, Suppress, Handled, Calls
<1>2. agenda \in Seq(GoodCall) BY DEF TypeInv
<1>3. agenda[1].d \in DiagType BY <1>1, TopIsGood
<1>4. CASE IgnoreNote
  <2>1. agenda' \in Seq(GoodCall) BY <1>1, <1>2, <1>4, AgendaOf DEF IgnoreNote
  <2> QED BY <1>4, <2>1, AgendaGoodThenTyped DEF IgnoreNote, TypeInv, TypeOK
<1>5. CASE Suppress
  <2>1. agenda' \in Seq(GoodCall)
    BY <1>1, <1>2, <1>3, <1>5, AgendaOf, SuppressionErrorsGood DEF Suppress
  <2>2. stats' \in [{"displayed", "check", "nolint", "nonuser", "line"} -> Nat]
    <3>1. stats' = [stats EXCEPT !.nolint = @ + 1] BY <1>5 DEF Suppress
    <3>2. stats \in [{"displayed", "check", "nolint", "nonuser", "line"} -> Nat]
      BY DEF TypeInv, TypeOK
    <3> QED BY <3>1, <3>2
  <2>3. subject' \in [id : Nat, name : Names, silenced : BOOLEAN]
    <3> DEFINE b == subject.silenced \/ (agenda[1].d.gen = 0 /\ agenda[1].d.level # "note")
    <3>1. subject' = [subject EXCEPT !.silenced = b] BY <1>5 DEF Suppress
    <3>2. subject \in [id : Nat, name : Names, silenced : BOOLEAN] BY DEF TypeInv, TypeOK
    <3>3. b \in BOOLEAN BY <3>2
    <3> HIDE DEF b
    <3> QED BY <3>1, <3>2, <3>3
  <2>4. scanned' \subseteq DOMAIN Unmatched BY <1>5, ScanType DEF Suppress, TypeInv
  <2>5. ignored' = TRUE BY <1>5 DEF Suppress
  <2> QED BY <1>5, <2>1, <2>2, <2>3, <2>4, <2>5, AgendaGoodThenTyped
          DEF Suppress, TypeInv, TypeOK
<1> QED BY <1>4, <1>5

LEMMA AttachNoteType == TypeInv /\ AttachNote => TypeInv'
<1> SUFFICES ASSUME TypeInv, AttachNote PROVE TypeInv' OBVIOUS
<1>1. agenda # <<>> /\ agenda \in Seq(GoodCall) /\ TypeOK
  BY DEF AttachNote, Handled, Calls, TypeInv
<1>2. agenda[1].d \in DiagType BY <1>1, TopIsGood
<1>3. agenda' \in Seq(GoodCall)
  BY <1>1, <1>2, AgendaOf, SuppressionErrorsGood DEF AttachNote
<1>4. errors' \in Seq(ErrorType)
  <2> DEFINE n == Len(errors)
  <2> DEFINE note == [of |-> agenda[1].d.root, loc |-> agenda[1].d.loc]
  <2>1. errors \in Seq(ErrorType) /\ errors # <<>> BY DEF AttachNote, TypeInv, TypeOK
  <2>2. n \in Nat \ {0} /\ errors[n] \in ErrorType BY <2>1, ButLast, EmptySeq
  <2>3. note \in NoteType BY <1>2 DEF NoteType, DiagType
  <2>4. errors' = [errors EXCEPT ![n] = [errors[n] EXCEPT !.notes = Append(errors[n].notes, note)]]
    BY DEF AttachNote
  <2>5. errors[n].notes \in Seq(NoteType) BY <2>2 DEF ErrorType
  <2> HIDE DEF note
  <2>6. Append(errors[n].notes, note) \in Seq(NoteType) BY <2>3, <2>5, AppendProperties
  <2>7. [errors[n] EXCEPT !.notes = Append(errors[n].notes, note)] \in ErrorType
    BY <2>2, <2>6 DEF ErrorType
  <2> QED BY <2>1, <2>2, <2>4, <2>7, ExceptSeq
<1>5. /\ relates' \in BOOLEAN /\ passes' \in BOOLEAN
      /\ header' \in Files \cup {Unbuilt} /\ exclude' \in Files \cup {Unbuilt}
  <2>1. relates \in BOOLEAN /\ passes \in BOOLEAN BY <1>1 DEF TypeOK
  <2>2. CheckFilters(agenda[1].d.loc, relates, passes) BY DEF AttachNote
  <2> QED BY <1>1, <2>1, <2>2, CheckFiltersType
<1>6. scanned' \subseteq DOMAIN Unmatched BY <1>1, ScanType DEF AttachNote
<1>7. ignored' = FALSE BY DEF AttachNote
<1> QED BY <1>3, <1>4, <1>5, <1>6, <1>7, AgendaGoodThenTyped DEF AttachNote, TypeInv, TypeOK

LEMMA AddErrorType == TypeInv /\ AddError => TypeInv'
<1> SUFFICES ASSUME TypeInv, AddError PROVE TypeInv' OBVIOUS
<1> DEFINE d == agenda[1].d
<1>1. agenda # <<>> /\ agenda \in Seq(GoodCall) /\ TypeOK /\ d.level # "note"
  BY DEF AddError, Handled, Calls, TypeInv
<1>2. d \in DiagType BY <1>1, TopIsGood
<1>3. agenda' \in Seq(GoodCall)
  BY <1>1, <1>2, AgendaOf, SuppressionErrorsGood DEF AddError
<1>4. errors' \in Seq(ErrorType)
  <2>1. NewError(d) \in ErrorType BY <1>1, <1>2, NewErrorType DEF TypeOK
  <2>2. Settled \in Seq(ErrorType) BY <1>1, SettledType
  <2>3. errors' = Append(Settled, NewError(d)) BY DEF AddError
  <2> QED BY <2>1, <2>2, <2>3, AppendProperties
<1>5. /\ relates' \in BOOLEAN /\ passes' \in BOOLEAN
      /\ header' \in Files \cup {Unbuilt} /\ exclude' \in Files \cup {Unbuilt}
  <2>1. InitialFlags(d) \in BOOLEAN BY DEF InitialFlags
  <2>2. CheckFilters(d.loc, InitialFlags(d), InitialFlags(d)) BY DEF AddError
  <2> QED BY <1>1, <2>1, <2>2, CheckFiltersType
<1>6. scanned' \subseteq DOMAIN Unmatched BY <1>1, ScanType DEF AddError
<1>7. counts' \in [{"warning", "error", "remark"} -> Nat]
  <2>1. d.level \in {"warning", "error", "remark"} BY <1>1, <1>2 DEF DiagType, Levels
  <2>2. counts' = [counts EXCEPT ![d.level] = @ + 1] BY DEF AddError
  <2> HIDE DEF d
  <2> QED BY <1>1, <2>1, <2>2 DEF TypeOK
<1>8. stats' \in [{"displayed", "check", "nolint", "nonuser", "line"} -> Nat]
  BY <1>1, SettledType DEF AddError
<1>9. ignored' = FALSE BY DEF AddError
<1> QED BY <1>3, <1>4, <1>5, <1>6, <1>7, <1>8, <1>9, AgendaGoodThenTyped
        DEF AddError, TypeInv, TypeOK

LEMMA TakeType == TypeInv /\ Take => TypeInv'
<1> SUFFICES ASSUME TypeInv, Take PROVE TypeInv' OBVIOUS
<1>1. /\ Settled \in Seq(ErrorType)
      /\ SettledStats \in [{"displayed", "check", "nolint", "nonuser", "line"} -> Nat]
  BY SettledType DEF TypeInv
<1> DEFINE U == Unique(Settled)
<1>2. U \subseteq ErrorType
  <2>1. \A i \in DOMAIN Settled : Settled[i] \in ErrorType
    BY <1>1, ElementOfSeq, LenProperties
  <2> QED BY <2>1 DEF Unique
<1> HIDE DEF U
<1>3. Merged(U) \subseteq [error : ErrorType, aliases : SUBSET Names, asError : BOOLEAN]
  <2>1. \A e \in U : e \in ErrorType /\ e.name \in Names BY <1>2 DEF ErrorType
  <2>2. SUFFICES ASSUME NEW e \in Leaders(U)
                 PROVE  [error   |-> e,
                         aliases |-> {f.name : f \in {f \in U : SamePlace(e, f)}} \ {e.name},
                         asError |-> \E f \in U : SamePlace(e, f) /\ f.asError]
                          \in [error : ErrorType, aliases : SUBSET Names, asError : BOOLEAN]
    BY DEF Merged
  <2> DEFINE a == {f.name : f \in {f \in U : SamePlace(e, f)}} \ {e.name}
             b == \E f \in U : SamePlace(e, f) /\ f.asError
  <2>3. e \in ErrorType BY <2>1 DEF Leaders
  <2>4. a \in SUBSET Names BY <2>1
  <2>5. b \in BOOLEAN OBVIOUS
  <2> HIDE DEF a, b
  <2>6. [error |-> e, aliases |-> a, asError |-> b]
          \in [error : ErrorType, aliases : SUBSET Names, asError : BOOLEAN]
    BY <2>3, <2>4, <2>5
  <2> QED BY <2>6 DEF a, b
<1>4. report' = Merged(U) BY DEF Take, U
<1>5. stats' = SettledStats /\ errors' = Settled /\ taken' = TRUE
      /\ relates' = FALSE /\ passes' = FALSE
  BY DEF Take
<1> QED BY <1>1, <1>3, <1>4, <1>5 DEF Take, TypeInv, TypeOK

\* The steps of the consumer, the driver and the rest.
LEMMA TypeInvStep == TypeInv /\ [Next]_vars => TypeInv'
<1> SUFFICES ASSUME TypeInv, [Next]_vars PROVE TypeInv' OBVIOUS
<1>1. CASE Next
  BY <1>1, StartFileType, ReportType, MappingStepsType, IgnoreAndSuppressType, AttachNoteType,
     AddErrorType, TakeType DEF Next, Step
<1>2. CASE UNCHANGED vars BY <1>2 DEF vars, TypeInv, TypeOK
<1> QED BY <1>1, <1>2

LEMMA TypeInvariant == Spec => []TypeInv
BY InitTypeInv, TypeInvStep, PTL DEF Spec

\* Every variable keeps its type: what the mapping, the NOLINT reader and the
\* driver put on the call stack is always a diagnostic with a known name.
THEOREM TypeCorrect == Spec => []TypeOK
<1>1. TypeInv => TypeOK BY DEF TypeInv
<1> QED BY <1>1, TypeInvariant, PTL

-----------------------------------------------------------------------------
\* Notes and their errors.

\* The calls that serve outside diagnostic i (0: the driver's own complaints).
ServesCall(i) == {c \in GoodCall : c.d.root = i /\ (i = 0 => c.d.level # "note")}

\* The next call hands over a diagnostic that is not a note.
Arriving == agenda # <<>> /\ agenda[1].op \in {"dispatch", "consume"} /\ agenda[1].d.level # "note"

\* Why a note finds its error: everything in progress serves the subject, and
\* unless that was ignored or is only just arriving, the last error stems from it.
LastErrorIsSubject == errors # <<>> /\ errors[Len(errors)].root = subject.id
OwnerInv ==
  /\ TypeInv
  /\ agenda \in Seq(ServesCall(subject.id))
  /\ taken => agenda = <<>>
  /\ ~taken /\ subject.id # 0 /\ ~ignored /\ ~Arriving => LastErrorIsSubject
  /\ NoteOwner

LEMMA ServingTop ==
  ASSUME OwnerInv, agenda # <<>>
  PROVE  /\ agenda[1].d \in DiagType
         /\ agenda[1].d.root = subject.id
         /\ agenda[1].d.level = "note" => subject.id # 0
         /\ ~taken
         /\ subject.id \in Nat
<1>1. agenda[1] \in ServesCall(subject.id) BY AgendaOf DEF OwnerInv
<1> QED BY <1>1, TopIsGood DEF OwnerInv, ServesCall, TypeInv, TypeOK

LEMMA ServingCalls ==
  ASSUME NEW d \in DiagType, NEW i, d.root = i, i = 0 => d.level # "note"
  PROVE  /\ Dispatch(d) \in ServesCall(i) /\ Consume(d) \in ServesCall(i)
         /\ Sync(d) \in ServesCall(i)
         /\ \A S \in SUBSET DOMAIN MappingItems :
              (\A k \in S : Complete(k)) => Alts(d, S) \in ServesCall(i)
         /\ SuppressionErrors(d) \in Seq(ServesCall(i))
<1>1. /\ Dispatch(d) \in ServesCall(i) /\ Consume(d) \in ServesCall(i)
      /\ Sync(d) \in ServesCall(i)
      /\ \A S \in SUBSET DOMAIN MappingItems :
           (\A k \in S : Complete(k)) => Alts(d, S) \in ServesCall(i)
  BY GoodCalls DEF ServesCall, Dispatch, Consume, Sync, Alts
<1>2. \A k \in 1..Len(SuppressionErrors(d)) : SuppressionErrors(d)[k] \in ServesCall(i)
  <2> TAKE k \in 1..Len(SuppressionErrors(d))
  <2>1. SuppressionErrors(d)[k] \in GoodCall BY SuppressionErrorsGood, ElementOfSeq
  <2>2. PICK l \in Locs : SuppressionErrors(d)[k] = Dispatch(NoLintError(d, l))
    BY SuppressionErrorsType
  <2>3. SuppressionErrors(d)[k].d.root = i /\ SuppressionErrors(d)[k].d.level = "error"
    BY <2>2 DEF Dispatch, NoLintError, Diag
  <2> QED BY <2>1, <2>3 DEF ServesCall
<1>3. SuppressionErrors(d) \in Seq(ServesCall(i))
  BY <1>2, SuppressionErrorsGood, SeqDef, LenProperties
<1> QED BY <1>1, <1>3

LEMMA InitOwner == Init => OwnerInv
<1> SUFFICES ASSUME Init PROVE OwnerInv OBVIOUS
<1>1. TypeInv BY InitTypeInv
<1>2. agenda = <<>> /\ errors = <<>> /\ subject.id = 0 BY DEF Init, NoSubject
<1>3. agenda \in Seq(ServesCall(subject.id)) BY <1>2, EmptySeq
<1>4. NoteOwner BY <1>2 DEF NoteOwner
<1> QED BY <1>1, <1>2, <1>3, <1>4 DEF OwnerInv

LEMMA OutsideOwner == OwnerInv /\ (StartFile \/ ReportDiag \/ ReportNote) => OwnerInv'
<1> SUFFICES ASSUME OwnerInv, StartFile \/ ReportDiag \/ ReportNote PROVE OwnerInv' OBVIOUS
<1>1. TypeInv'
  <2>1. TypeInv BY DEF OwnerInv
  <2> QED BY <2>1, StartFileType, ReportType
<1>2. /\ agenda = <<>> /\ ~taken /\ ~taken' /\ errors' = errors /\ ignored' = ignored
      /\ ~Arriving
  <2>1. agenda = <<>> /\ ~taken BY DEF StartFile, ReportDiag, ReportNote, Idle
  <2>2. taken' = taken /\ errors' = errors /\ ignored' = ignored
    BY DEF StartFile, ReportDiag, ReportNote
  <2> QED BY <2>1, <2>2 DEF Arriving
<1>3. NoteOwner' BY <1>2 DEF OwnerInv, NoteOwner, NotesOf
<1>4. agenda' \in Seq(GoodCall) BY <1>1 DEF TypeInv
<1>5. CASE StartFile
  <2> DEFINE c == ConfigDiags[file + 1]
             t == [k \in 1..Len(c) |-> Dispatch(ConfigDiag(c[k]))]
  <2>1. subject'.id = 0 BY <1>5 DEF StartFile, NoSubject
  <2>2. agenda' = t BY <1>5 DEF StartFile
  <2>3. \A x : Dispatch(ConfigDiag(x)).d.root = 0 /\ Dispatch(ConfigDiag(x)).d.level # "note"
    BY DEF Dispatch, ConfigDiag, Diag
  <2>4. DOMAIN t = 1..Len(c) /\ \A k \in 1..Len(c) : t[k].d.root = 0 /\ t[k].d.level # "note"
    BY <2>3
  <2>5. DOMAIN agenda' = 1..Len(agenda') /\ \A k \in 1..Len(agenda') : agenda'[k] \in GoodCall
    BY <1>4, ElementOfSeq, LenProperties
  <2> HIDE DEF t
  <2>6. \A k \in 1..Len(agenda') : agenda'[k] \in ServesCall(0)
    BY <2>2, <2>4, <2>5 DEF ServesCall
  <2>7. agenda' \in Seq(ServesCall(0)) BY <1>4, <2>6, SeqDef, LenProperties
  <2> QED BY <1>1, <1>2, <1>3, <2>1, <2>7 DEF OwnerInv
<1>6. CASE ReportDiag
  <2>1. PICK d : /\ agenda' = <<Dispatch(d)>> /\ d.root = subject'.id
                 /\ d.level # "note"
    <3>1. PICK i \in Inputs :
            /\ agenda' = <<Dispatch(Diag(nextId, 0, i.name, i.level, i.loc, i.text))>>
            /\ subject' = [id |-> nextId, name |-> i.name, silenced |-> FALSE]
      BY <1>6 DEF ReportDiag, Reportable
    <3>2. i.level # "note" BY InputsAssumption
    <3> QED BY <3>1, <3>2 DEF Diag
  <2>2. Dispatch(d) \in GoodCall BY <1>4, <2>1, ElementOfSeq, LenProperties
  <2>3. Dispatch(d) \in ServesCall(subject'.id) BY <2>1, <2>2 DEF ServesCall, Dispatch
  <2>4. agenda' \in Seq(ServesCall(subject'.id)) BY <2>1, <2>3
  <2>5. Arriving' BY <2>1 DEF Arriving, Dispatch
  <2> QED BY <1>1, <1>2, <1>3, <2>4, <2>5 DEF OwnerInv
<1>7. CASE ReportNote
  <2>1. PICK d : agenda' = <<Dispatch(d)>> /\ d.root = subject.id
    <3> DEFINE n == IF subject.name \in CompilerNames THEN "" ELSE subject.name
    <3>1. PICK l : agenda' = <<Dispatch(Diag(subject.id, 0, n, "note", l, "note"))>>
      BY <1>7 DEF ReportNote
    <3> DEFINE x == Diag(subject.id, 0, n, "note", l, "note")
    <3>2. x.root = subject.id BY DEF Diag
    <3>3. agenda' = <<Dispatch(x)>> BY <3>1
    <3> HIDE DEF x
    <3> QED BY <3>2, <3>3
  <2>2. Dispatch(d) \in GoodCall BY <1>4, <2>1, ElementOfSeq, LenProperties
  <2>3. subject' = subject /\ subject.id # 0 BY <1>7 DEF ReportNote, NoSubject
  <2>4. Dispatch(d) \in ServesCall(subject.id) BY <2>1, <2>2, <2>3 DEF ServesCall, Dispatch
  <2>5. agenda' \in Seq(ServesCall(subject'.id)) BY <2>1, <2>3, <2>4
  <2>6. LastErrorIsSubject' <=> LastErrorIsSubject BY <1>2, <2>3 DEF LastErrorIsSubject
  <2> QED BY <1>1, <1>2, <1>3, <2>3, <2>5, <2>6 DEF OwnerInv
<1> QED BY <1>5, <1>6, <1>7

\* What a pushed sequence puts on top.
LEMMA PushTop ==
  ASSUME NEW S, agenda \in Seq(S), agenda # <<>>, NEW s \in Seq(S), s # <<>>, Push(s)
  PROVE  agenda' # <<>> /\ agenda'[1] = s[1]
<1>1. Tail(agenda) \in Seq(S) BY AgendaOf
<1>2. Len(s) \in Nat \ {0} BY EmptySeq
<1>3. /\ Len(agenda') = Len(s) + Len(Tail(agenda))
      /\ agenda' \in Seq(S)
      /\ \A i \in 1..Len(s) : agenda'[i] = s[i]
  BY <1>1, <1>2, ConcatProperties DEF Push
<1>4. Len(Tail(agenda)) \in Nat BY <1>1, LenProperties
<1>5. Len(agenda') # 0 /\ agenda'[1] = s[1] BY <1>2, <1>3, <1>4
<1> QED BY <1>3, <1>5, EmptySeq

\* A step that only moves calls, and after which no less is arriving.
LEMMA MovesOwner ==
  ASSUME OwnerInv, agenda # <<>>, TypeInv', NEW s \in Seq(ServesCall(subject.id)), Push(s),
         errors' = errors, ignored' = ignored, subject' = subject, taken' = taken,
         ~Arriving' => ~Arriving
  PROVE  OwnerInv'
<1>1. ~taken BY ServingTop
<1>2. agenda' \in Seq(ServesCall(subject.id))
  <2>1. agenda \in Seq(ServesCall(subject.id)) BY DEF OwnerInv
  <2> QED BY <2>1, AgendaOf
<1>3. NoteOwner' BY DEF OwnerInv, NoteOwner, NotesOf
<1>4. LastErrorIsSubject' <=> LastErrorIsSubject BY DEF LastErrorIsSubject
<1> QED BY <1>1, <1>2, <1>3, <1>4 DEF OwnerInv

LEMMA MappingOwner ==
  OwnerInv /\ (Deliver \/ EmitAlternative \/ RestoreClient \/ CopyCounts \/ IgnoreNote)
    => OwnerInv'
<1> SUFFICES ASSUME OwnerInv,
                    Deliver \/ EmitAlternative \/ RestoreClient \/ CopyCounts \/ IgnoreNote
             PROVE  OwnerInv'
  OBVIOUS
<1> DEFINE d == agenda[1].d
           C == ServesCall(subject.id)
<1>1. TypeInv' /\ TypeInv
  <2>1. TypeInv BY DEF OwnerInv
  <2> QED BY <2>1, MappingStepsType, IgnoreAndSuppressType
<1>2. agenda # <<>>
  BY DEF Deliver, EmitAlternative, RestoreClient, CopyCounts, IgnoreNote, Calls
<1>3. /\ errors' = errors /\ ignored' = ignored /\ subject' = subject /\ taken' = taken
  BY DEF Deliver, EmitAlternative, RestoreClient, CopyCounts, IgnoreNote
<1>4. /\ d \in DiagType /\ d.root = subject.id /\ (subject.id = 0 => d.level # "note")
      /\ agenda \in Seq(C)
  BY <1>2, ServingTop DEF OwnerInv
<1>5. <<>> \in Seq(C) BY EmptySeq
<1>6. CASE Deliver
  <2> DEFINE s == IF client = "mapping" THEN MappingCalls(d) ELSE <<Consume(d)>>
  <2>1. Consume(d) \in C /\ Sync(d) \in C BY <1>4, ServingCalls
  <2>2. Alts(d, AltsOf(d.name)) \in C
    <3>1. AltsOf(d.name) \subseteq DOMAIN MappingItems /\ \A k \in AltsOf(d.name) : Complete(k)
      BY <1>4, GoodCalls
    <3> QED BY <1>4, <3>1, ServingCalls
  <2>3. s \in Seq(C) /\ s # <<>> /\ s[1] = Consume(d)
    <3> HIDE DEF d, C
    <3> QED BY <2>1, <2>2 DEF MappingCalls
  <2>4. Push(s) BY <1>6 DEF Deliver
  <2> HIDE DEF s, C
  <2>5. agenda' # <<>> /\ agenda'[1] = Consume(d) BY <1>2, <1>4, <2>3, <2>4, PushTop
  <2>6. ~Arriving' => ~Arriving BY <2>5 DEF Arriving, Consume
  <2> QED BY <1>1, <1>2, <1>3, <2>3, <2>4, <2>6, MovesOwner DEF C
<1>7. CASE EmitAlternative
  <2> DEFINE k == Lowest(agenda[1].left)
             a == Alternative(d, k)
             s == <<Dispatch(a), Alts(d, agenda[1].left \ {k})>>
  <2>1. /\ agenda[1].left # {} /\ agenda[1].left \subseteq DOMAIN MappingItems
        /\ \A j \in agenda[1].left : Complete(j)
    BY <1>1, <1>2, <1>7, TopIsGood DEF EmitAlternative
  <2>2. k \in agenda[1].left BY <2>1, LowestIsIn
  <2>3. a \in DiagType BY <1>4, <2>1, <2>2, AlternativeType
  <2>4. a.root = subject.id /\ a.level = "warning" BY <1>4 DEF Alternative, Diag
  <2> HIDE DEF a
  <2>5. Dispatch(a) \in C BY <2>3, <2>4, ServingCalls
  <2>6. Alts(d, agenda[1].left \ {k}) \in C
    <3>1. agenda[1].left \ {k} \in SUBSET DOMAIN MappingItems BY <2>1
    <3>2. \A j \in agenda[1].left \ {k} : Complete(j) BY <2>1
    <3> QED BY <1>4, <3>1, <3>2, ServingCalls
  <2> HIDE DEF C
  <2>7. s \in Seq(C) /\ s # <<>> /\ s[1] = Dispatch(a) BY <2>5, <2>6
  <2>8. Push(s) BY <1>7 DEF EmitAlternative, a
  <2> HIDE DEF s
  <2>9. agenda' # <<>> /\ agenda'[1] = Dispatch(a) BY <1>2, <1>4, <2>7, <2>8, PushTop
  <2>10. Arriving' BY <2>4, <2>9 DEF Arriving, Dispatch
  <2> QED BY <1>1, <1>2, <1>3, <2>7, <2>8, <2>10, MovesOwner DEF C
<1>8. CASE RestoreClient \/ CopyCounts \/ IgnoreNote
  <2>1. Push(<<>>) BY <1>8 DEF RestoreClient, CopyCounts, IgnoreNote
  <2>2. ~Arriving BY <1>8 DEF RestoreClient, CopyCounts, IgnoreNote, Calls, Arriving
  <2> QED BY <1>1, <1>2, <1>3, <1>5, <2>1, <2>2, MovesOwner
<1> QED BY <1>6, <1>7, <1>8

LEMMA ConsumerOwner == OwnerInv /\ (Suppress \/ AttachNote \/ AddError) => OwnerInv'
<1> SUFFICES ASSUME OwnerInv, Suppress \/ AttachNote \/ AddError PROVE OwnerInv' OBVIOUS
<1> DEFINE d == agenda[1].d
           C == ServesCall(subject.id)
           n == Len(errors)
<1>1. TypeInv' /\ TypeInv
  <2>1. TypeInv BY DEF OwnerInv
  <2> QED BY <2>1, IgnoreAndSuppressType, AttachNoteType, AddErrorType
<1>2. agenda # <<>> /\ Handled BY DEF Suppress, AttachNote, AddError, Handled, Calls
<1>3. /\ d \in DiagType /\ d.root = subject.id /\ (subject.id = 0 => d.level # "note")
      /\ agenda \in Seq(C) /\ ~taken
  BY <1>2, ServingTop DEF OwnerInv
<1>4. Push(SuppressionErrors(d)) BY DEF Suppress, AttachNote, AddError
<1>5. agenda' \in Seq(C)
  <2>1. SuppressionErrors(d) \in Seq(C) BY <1>3, ServingCalls
  <2> HIDE DEF C
  <2> QED BY <1>2, <1>3, <1>4, <2>1, AgendaOf
<1>6. subject'.id = subject.id
  <2>1. CASE Suppress
    <3> DEFINE b == subject.silenced \/ (agenda[1].d.gen = 0 /\ agenda[1].d.level # "note")
    <3>1. subject' = [subject EXCEPT !.silenced = b] BY <2>1 DEF Suppress
    <3>2. subject \in [id : Nat, name : Names, silenced : BOOLEAN]
      BY <1>1 DEF TypeInv, TypeOK
    <3> HIDE DEF b
    <3> QED BY <3>1, <3>2
  <2>2. CASE AttachNote \/ AddError BY <2>2 DEF AttachNote, AddError
  <2> QED BY <2>1, <2>2
<1>7. taken' = taken BY DEF Suppress, AttachNote, AddError
<1>8. agenda' \in Seq(ServesCall(subject'.id)) /\ ~taken' BY <1>3, <1>5, <1>6, <1>7
<1>9. errors \in Seq(ErrorType) BY <1>1 DEF TypeInv, TypeOK
<1>10. NoteOwner BY DEF OwnerInv
<1>11. CASE Suppress
  <2>1. ignored' = TRUE /\ errors' = errors BY <1>11 DEF Suppress
  <2>2. NoteOwner' BY <1>10, <2>1 DEF NoteOwner, NotesOf
  <2> QED BY <1>1, <1>8, <2>1, <2>2 DEF OwnerInv
<1>12. CASE AttachNote
  <2> DEFINE note == [of |-> d.root, loc |-> d.loc]
             e    == [errors[n] EXCEPT !.notes = Append(errors[n].notes, note)]
  <2>1. d.level = "note" /\ ~ignored /\ errors # <<>>
    BY <1>2, <1>12 DEF AttachNote, Handled
  <2>2. ~Arriving BY <2>1 DEF Arriving
  <2>3. errors[n].root = subject.id
    BY <1>3, <2>1, <2>2 DEF OwnerInv, LastErrorIsSubject
  <2>4. errors' = [errors EXCEPT ![n] = e] BY <1>12 DEF AttachNote
  <2>5. n \in Nat \ {0} /\ errors[n] \in ErrorType BY <1>9, <2>1, ButLast, EmptySeq
  <2>6. errors[n].notes \in Seq(NoteType) BY <2>5 DEF ErrorType
  <2>7. note \in NoteType /\ note.of = subject.id BY <1>3 DEF NoteType, DiagType
  <2>8. e.root = errors[n].root /\ e.notes = Append(errors[n].notes, note)
    BY <2>5 DEF ErrorType
  <2>9. DOMAIN errors' = DOMAIN errors /\ Len(errors') = n BY <1>9, <2>4, <2>5
  <2>10. n \in DOMAIN errors /\ errors'[n] = e
    <3>1. DOMAIN errors = 1..n BY <1>9, LenProperties
    <3>2. n \in DOMAIN errors BY <2>5, <3>1
    <3> HIDE DEF e
    <3> QED BY <2>4, <3>2
  <2>11. \A i \in DOMAIN errors \ {n} : errors'[i] = errors[i] BY <2>4
  <2> HIDE DEF e, note
  <2>12. \A k \in DOMAIN e.notes : e.notes[k].of = e.root
    <3>1. \A k \in DOMAIN errors[n].notes : errors[n].notes[k].of = errors[n].root
      BY <1>10, <2>10 DEF NoteOwner, NotesOf
    <3>2. DOMAIN errors[n].notes = 1..Len(errors[n].notes) /\ Len(errors[n].notes) \in Nat
      BY <2>6, LenProperties
    <3>3. /\ DOMAIN e.notes = 1..(Len(errors[n].notes) + 1)
          /\ \A k \in 1..Len(errors[n].notes) : e.notes[k] = errors[n].notes[k]
          /\ e.notes[Len(errors[n].notes) + 1] = note
      BY <2>6, <2>7, <2>8, AppendProperties, LenProperties
    <3> QED BY <2>3, <2>7, <2>8, <3>1, <3>2, <3>3
  <2>13. NoteOwner'
    <3> SUFFICES ASSUME NEW i \in DOMAIN errors', NEW k \in DOMAIN errors'[i].notes
                 PROVE  errors'[i].notes[k].of = errors'[i].root
      BY DEF NoteOwner, NotesOf
    <3>1. CASE i = n BY <2>10, <2>12, <3>1
    <3>2. CASE i # n
      <4>1. i \in DOMAIN errors /\ errors'[i] = errors[i] BY <2>9, <2>11, <3>2
      <4> QED BY <1>10, <4>1 DEF NoteOwner, NotesOf
    <3> QED BY <3>1, <3>2
  <2>14. LastErrorIsSubject'
    <3>1. Len(errors') = n /\ n # 0 /\ errors'[n].root = subject'.id
      BY <1>6, <2>3, <2>5, <2>8, <2>9, <2>10
    <3>2. errors' # <<>> BY <3>1, EmptySeq
    <3> QED BY <3>1, <3>2 DEF LastErrorIsSubject
  <2> QED BY <1>1, <1>8, <2>13, <2>14 DEF OwnerInv
<1>13. CASE AddError
  <2> DEFINE m == Len(Settled)
             x == NewError(d)
  <2>1. Settled \in Seq(ErrorType) /\ m \in Nat /\ m <= Len(errors) /\ Len(errors) \in Nat
        /\ \A i \in 1..m : Settled[i] = errors[i]
    BY <1>1, SettledType DEF TypeInv
  <2>2. x.root = subject.id /\ x.notes = <<>> BY <1>3 DEF NewError
  <2>3. x \in ErrorType
    <3>1. d.level # "note" BY <1>13 DEF AddError
    <3> QED BY <1>1, <1>3, <3>1, NewErrorType DEF TypeInv, TypeOK
  <2>4. errors' = Append(Settled, x) BY <1>13 DEF AddError
  <2> HIDE DEF x, m
  <2>5. /\ Len(errors') = m + 1 /\ DOMAIN errors' = 1..(m + 1)
        /\ \A i \in 1..m : errors'[i] = Settled[i]
        /\ errors'[m + 1] = x
    BY <2>1, <2>3, <2>4, AppendProperties, LenProperties DEF m
  <2>6. NoteOwner'
    <3> SUFFICES ASSUME NEW i \in DOMAIN errors', NEW k \in DOMAIN errors'[i].notes
                 PROVE  errors'[i].notes[k].of = errors'[i].root
      BY DEF NoteOwner, NotesOf
    <3>1. CASE i = m + 1 BY <2>2, <2>5, <3>1
    <3>2. CASE i # m + 1
      <4>1. i \in 1..m /\ i \in 1..Len(errors) BY <2>1, <2>5, <3>2
      <4>2. i \in DOMAIN errors /\ errors'[i] = errors[i]
        BY <1>9, <2>1, <2>5, <4>1, LenProperties
      <4> QED BY <1>10, <4>2 DEF NoteOwner, NotesOf
    <3> QED BY <3>1, <3>2
  <2>7. LastErrorIsSubject'
    <3>1. errors'[Len(errors')].root = subject'.id BY <1>6, <2>2, <2>5
    <3>2. errors' # <<>> BY <2>1, <2>5, EmptySeq
    <3> QED BY <3>1, <3>2 DEF LastErrorIsSubject
  <2> QED BY <1>1, <1>8, <2>6, <2>7 DEF OwnerInv
<1> QED BY <1>11, <1>12, <1>13

LEMMA TakeOwner == OwnerInv /\ Take => OwnerInv'
<1> SUFFICES ASSUME OwnerInv, Take PROVE OwnerInv' OBVIOUS
<1>1. TypeInv' /\ TypeInv
  <2>1. TypeInv BY DEF OwnerInv
  <2> QED BY <2>1, TakeType
<1>2. taken' = TRUE /\ agenda' = <<>> BY DEF Take, Idle
<1>3. agenda' \in Seq(ServesCall(subject'.id)) BY <1>2, EmptySeq
<1>4. NoteOwner'
  <2>1. /\ Settled \in Seq(ErrorType) /\ Len(Settled) \in Nat /\ Len(Settled) <= Len(errors)
        /\ Len(errors) \in Nat /\ \A i \in 1..Len(Settled) : Settled[i] = errors[i]
    BY <1>1, SettledType DEF TypeInv
  <2>2. errors' = Settled BY DEF Take
  <2> SUFFICES ASSUME NEW i \in DOMAIN errors', NEW k \in DOMAIN errors'[i].notes
               PROVE  errors'[i].notes[k].of = errors'[i].root
    BY DEF NoteOwner, NotesOf
  <2>3. i \in 1..Len(Settled) BY <2>1, <2>2, LenProperties
  <2>4. i \in 1..Len(errors) /\ errors'[i] = errors[i] BY <2>1, <2>2, <2>3
  <2>5. i \in DOMAIN errors BY <1>1, <2>4, LenProperties DEF TypeInv, TypeOK
  <2> QED BY <2>4, <2>5 DEF OwnerInv, NoteOwner, NotesOf
<1> QED BY <1>1, <1>2, <1>3, <1>4 DEF OwnerInv

LEMMA OwnerInvStep == OwnerInv /\ [Next]_vars => OwnerInv'
<1> SUFFICES ASSUME OwnerInv, [Next]_vars PROVE OwnerInv' OBVIOUS
<1>1. CASE Next
  BY <1>1, OutsideOwner, MappingOwner, ConsumerOwner, TakeOwner DEF Next, Step
<1>2. CASE UNCHANGED vars
  <2>1. TypeInv'
    <3>1. TypeInv BY DEF OwnerInv
    <3> QED BY <1>2, <3>1, TypeInvStep
  <2>2. /\ agenda' = agenda /\ errors' = errors /\ ignored' = ignored
        /\ subject' = subject /\ taken' = taken
    BY <1>2 DEF vars
  <2> QED BY <2>1, <2>2 DEF OwnerInv, Arriving, LastErrorIsSubject, NoteOwner, NotesOf
<1> QED BY <1>1, <1>2

\* A note ends up under an error that stems from the diagnostic it explains, in
\* every run of the pipeline: through suppression, through the alternatives of
\* the mapping and through errors raised while a diagnostic is being handled.
THEOREM NotesFindTheirError == Spec => []NoteOwner
<1>1. OwnerInv => NoteOwner BY DEF OwnerInv
<1> QED BY <1>1, InitOwner, OwnerInvStep, PTL DEF Spec

\* The assertion on a note without a message in front of it cannot fail, as long
\* as a note follows the diagnostic it belongs to.
THEOREM NotesHaveAnError == Spec => []NoteHasError
<1>1. OwnerInv => NoteHasError
  <2> SUFFICES ASSUME OwnerInv, Handled, agenda[1].d.level = "note" PROVE errors # <<>>
    BY DEF NoteHasError
  <2>1. agenda # <<>> /\ ~ignored /\ ~Arriving BY DEF Handled, Calls, Arriving
  <2>2. ~taken /\ subject.id # 0 BY <2>1, ServingTop
  <2> QED BY <2>1, <2>2 DEF OwnerInv, LastErrorIsSubject
<1> QED BY <1>1, InitOwner, OwnerInvStep, PTL DEF Spec

\* The two together, the property that the runs check.
THEOREM NotesSound == Spec => []NotesOwned
<1>1. NoteOwner /\ NoteHasError => NotesOwned BY DEF NotesOwned
<1> QED BY <1>1, NotesFindTheirError, NotesHaveAnError, PTL

-----------------------------------------------------------------------------
\* The balance of the counters.

\* Settling adds one to exactly one of the counters of the balance, and keeps
\* the error if it was the counter of the displayed.
LEMMA SettledBalance ==
  ASSUME TypeInv, ~taken, Balance
  PROVE  /\ SettledStats.displayed + SettledStats.check + SettledStats.nonuser + SettledStats.line
              = counts.warning + counts.error + counts.remark
         /\ SettledStats.displayed = Len(Settled)
<1>1. /\ errors \in Seq(ErrorType) /\ Len(errors) \in Nat
      /\ stats \in [{"displayed", "check", "nolint", "nonuser", "line"} -> Nat]
      /\ counts.warning \in Nat /\ counts.error \in Nat /\ counts.remark \in Nat
  BY LenProperties DEF TypeInv, TypeOK
<1> DEFINE sum == counts.warning + counts.error + counts.remark
<1>2. sum \in Nat BY <1>1
<1> HIDE DEF sum
<1>3. CASE errors = <<>>
  <2>1. ~Pending BY <1>3 DEF Pending
  <2>2. /\ stats.displayed + stats.check + stats.nonuser + stats.line = sum
        /\ stats.displayed = Len(errors)
    BY <1>1, <1>2, <2>1 DEF Balance, sum
  <2>3. SettledStats = stats /\ Settled = errors BY <1>3 DEF SettledStats, Settled
  <2> QED BY <2>2, <2>3 DEF sum
<1>4. CASE errors # <<>>
  <2>1. Pending BY <1>4 DEF Pending
  <2>2. /\ stats.displayed + stats.check + stats.nonuser + stats.line + 1 = sum
        /\ stats.displayed + 1 = Len(errors)
    BY <1>1, <1>2, <2>1 DEF Balance, sum
  <2>3. Verdict \in {"displayed", "check", "nonuser", "line"} BY DEF Verdict
  <2>4. SettledStats = [stats EXCEPT ![Verdict] = @ + 1] BY <1>4 DEF SettledStats
  <2>5. SettledStats.displayed + SettledStats.check + SettledStats.nonuser + SettledStats.line
          = sum
    BY <1>1, <1>2, <2>2, <2>3, <2>4
  <2>6. CASE Verdict = "displayed"
    <3>1. SettledStats.displayed = stats.displayed + 1 BY <1>1, <2>4, <2>6
    <3>2. Settled = errors BY <2>6 DEF Settled
    <3> QED BY <2>2, <2>5, <3>1, <3>2 DEF sum
  <2>7. CASE Verdict # "displayed"
    <3>1. SettledStats.displayed = stats.displayed BY <1>1, <2>3, <2>4, <2>7
    <3>2. Settled = SubSeq(errors, 1, Len(errors) - 1) BY <1>4, <2>7 DEF Settled
    <3>3. Len(Settled) = Len(errors) - 1 BY <1>1, <1>4, <3>2, ButLast
    <3>4. Len(errors) - 1 = stats.displayed
      <4>1. stats.displayed \in Nat BY <1>1
      <4>2. stats.displayed + 1 = Len(errors) BY <2>2
      <4> QED BY <4>1, <4>2
    <3>5. SettledStats.displayed = Len(Settled) BY <3>1, <3>3, <3>4
    <3> QED BY <2>5, <3>5 DEF sum
  <2> QED BY <2>6, <2>7
<1> QED BY <1>3, <1>4

LEMMA BalanceStep == OwnerInv /\ OwnerInv' /\ Balance /\ [Next]_vars => Balance'
<1> SUFFICES ASSUME OwnerInv, OwnerInv', Balance, [Next]_vars PROVE Balance' OBVIOUS
<1>1. TypeInv /\ TypeInv' BY DEF OwnerInv
<1>2. ASSUME stats' = stats, counts' = counts, errors' = errors, taken' = taken
      PROVE  Balance'
  <2>1. Pending' <=> Pending BY <1>2 DEF Pending
  <2> QED BY <1>2, <2>1 DEF Balance
<1>3. CASE StartFile \/ ReportDiag \/ ReportNote
  BY <1>2, <1>3 DEF StartFile, ReportDiag, ReportNote
<1>4. CASE Deliver \/ EmitAlternative \/ RestoreClient \/ CopyCounts \/ IgnoreNote
  BY <1>2, <1>4 DEF Deliver, EmitAlternative, RestoreClient, CopyCounts, IgnoreNote
<1>5. CASE Suppress
  <2>1. /\ stats'.displayed = stats.displayed /\ stats'.check = stats.check
        /\ stats'.nonuser = stats.nonuser /\ stats'.line = stats.line
    <3>1. stats' = [stats EXCEPT !.nolint = @ + 1] BY <1>5 DEF Suppress
    <3>2. stats \in [{"displayed", "check", "nolint", "nonuser", "line"} -> Nat]
      BY <1>1 DEF TypeInv, TypeOK
    <3> QED BY <3>1, <3>2
  <2>2. counts' = counts /\ errors' = errors /\ taken' = taken BY <1>5 DEF Suppress
  <2>3. Pending' <=> Pending BY <2>2 DEF Pending
  <2> QED BY <2>1, <2>2, <2>3 DEF Balance
<1>6. CASE AttachNote
  <2>1. stats' = stats /\ counts' = counts /\ taken' = taken /\ errors # <<>>
    BY <1>6 DEF AttachNote
  <2>2. Len(errors') = Len(errors)
    <3> DEFINE n == Len(errors)
               e == [errors[n] EXCEPT !.notes =
                       Append(@, [of |-> agenda[1].d.root, loc |-> agenda[1].d.loc])]
    <3>1. errors \in Seq(ErrorType) BY <1>1 DEF TypeInv, TypeOK
    <3>2. n \in Nat \ {0} /\ errors[n] \in ErrorType BY <2>1, <3>1, ButLast, EmptySeq
    <3>3. errors' = [errors EXCEPT ![n] = e] BY <1>6 DEF AttachNote
    <3> HIDE DEF e
    <3> QED BY <3>1, <3>2, <3>3
  <2>3. errors' # <<>>
    <3>1. Len(errors') # 0
      <4>1. errors \in Seq(ErrorType) BY <1>1 DEF TypeInv, TypeOK
      <4> QED BY <2>1, <2>2, <4>1, EmptySeq
    <3> QED BY <3>1, EmptySeq
  <2>4. Pending' <=> Pending BY <2>1, <2>3 DEF Pending
  <2> QED BY <2>1, <2>2, <2>4 DEF Balance
<1>7. CASE AddError
  <2> DEFINE d == agenda[1].d
             x == NewError(d)
  <2>1. agenda # <<>> /\ d.level # "note" BY <1>7 DEF AddError, Handled, Calls
  <2>2. d \in DiagType /\ ~taken BY <2>1, ServingTop
  <2>3. /\ SettledStats.displayed + SettledStats.check + SettledStats.nonuser
             + SettledStats.line = counts.warning + counts.error + counts.remark
        /\ SettledStats.displayed = Len(Settled)
    BY <1>1, <2>2, SettledBalance
  <2>4. SettledStats \in [{"displayed", "check", "nolint", "nonuser", "line"} -> Nat]
    BY <1>1, SettledType DEF TypeInv
  <2>5. /\ stats' = SettledStats /\ errors' = Append(Settled, x) /\ taken' = taken
        /\ counts' = [counts EXCEPT ![d.level] = @ + 1]
    BY <1>7 DEF AddError
  <2>6. d.level \in {"warning", "error", "remark"} BY <2>1, <2>2 DEF DiagType, Levels
  <2>7. counts \in [{"warning", "error", "remark"} -> Nat] BY <1>1 DEF TypeInv, TypeOK
  <2> HIDE DEF d
  <2>8. counts'.warning + counts'.error + counts'.remark
          = counts.warning + counts.error + counts.remark + 1
    BY <2>5, <2>6, <2>7
  <2> HIDE DEF x
  <2>9. Settled \in Seq(ErrorType) /\ errors' \in Seq(ErrorType)
    BY <1>1, SettledType DEF TypeInv, TypeOK
  <2>10. Len(errors') = Len(Settled) + 1 /\ Len(Settled) \in Nat
    BY <2>5, <2>9, LenProperties
  <2>11. Pending'
    <3>1. errors' # <<>> BY <2>10, EmptySeq
    <3> QED BY <2>2, <2>5, <3>1 DEF Pending
  <2>12. /\ stats'.displayed + stats'.check + stats'.nonuser + stats'.line + 1
              = counts'.warning + counts'.error + counts'.remark
         /\ stats'.displayed + 1 = Len(errors')
    BY <2>3, <2>4, <2>5, <2>8, <2>10
  <2> QED BY <2>11, <2>12 DEF Balance
<1>8. CASE Take
  <2>1. /\ stats' = SettledStats /\ errors' = Settled /\ taken' = TRUE /\ counts' = counts
        /\ ~taken
    BY <1>8 DEF Take
  <2>2. /\ SettledStats.displayed + SettledStats.check + SettledStats.nonuser
             + SettledStats.line = counts.warning + counts.error + counts.remark
        /\ SettledStats.displayed = Len(Settled)
    BY <1>1, <2>1, SettledBalance
  <2>3. SettledStats \in [{"displayed", "check", "nolint", "nonuser", "line"} -> Nat]
    BY <1>1, SettledType DEF TypeInv
  <2>4. ~Pending' BY <2>1 DEF Pending
  <2>5. /\ stats'.displayed + stats'.check + stats'.nonuser + stats'.line + 0
             = counts'.warning + counts'.error + counts'.remark
        /\ stats'.displayed + 0 = Len(errors')
    BY <2>1, <2>2, <2>3
  <2> QED BY <2>4, <2>5 DEF Balance
<1>9. CASE UNCHANGED vars BY <1>2, <1>9 DEF vars
<1> QED BY <1>3, <1>4, <1>5, <1>6, <1>7, <1>8, <1>9 DEF Next, Step

\* The statistics add up: every diagnostic that was counted is displayed, dropped
\* for exactly one reason, or is the last error, and what the counter of the
\* displayed says is what the list of errors holds.
THEOREM StatisticsBalance == Spec => []Balance
<1>1. Init => Balance
  <2> SUFFICES ASSUME Init PROVE Balance OBVIOUS
  <2>1. ~Pending BY DEF Init, Pending
  <2>2. Len(errors) = 0 BY EmptySeq DEF Init
  <2>3. stats.displayed = 0 /\ stats.check = 0 /\ stats.nonuser = 0 /\ stats.line = 0
    BY DEF Init
  <2>4. counts.warning = 0 /\ counts.error = 0 /\ counts.remark = 0 BY DEF Init
  <2> QED BY <2>1, <2>2, <2>3, <2>4 DEF Balance
<1> QED BY <1>1, InitOwner, OwnerInvStep, BalanceStep, PTL DEF Spec

-----------------------------------------------------------------------------
\* The mapping layer: whatever is reported while an alternative is handed over, the
\* engine gets its client back, no alternative is mapped in turn, and the counts agree.

\* The call stack after the call on top made the calls s.
LEMMA Pushed ==
  ASSUME NEW S, agenda \in Seq(S), agenda # <<>>, NEW s \in Seq(S), Push(s)
  PROVE  /\ Len(s) \in Nat /\ Len(agenda) \in Nat \ {0}
         /\ agenda' \in Seq(S)
         /\ Len(agenda') = Len(s) + Len(agenda) - 1
         /\ \A i \in 1..Len(s) : agenda'[i] = s[i]
         /\ \A i \in 1..Len(agenda) : i >= 2 => agenda'[Len(s) + i - 1] = agenda[i]
         /\ \A i \in 1..Len(agenda') :
              i > Len(s) => /\ i - Len(s) + 1 \in 2..Len(agenda)
                            /\ agenda'[i] = agenda[i - Len(s) + 1]
<1> DEFINE t == Tail(agenda)
           n == Len(s)
           m == Len(agenda)
<1>1. n \in Nat /\ m \in Nat \ {0} BY EmptySeq, LenProperties
<1>2. /\ t \in Seq(S) /\ Len(t) = m - 1
      /\ \A i \in 1..(m - 1) : t[i] = agenda[i + 1]
  BY HeadTailProperties
<1>3. agenda' = s \o t BY DEF Push
<1> HIDE DEF t
<1>4. /\ agenda' \in Seq(S) /\ Len(agenda') = n + (m - 1)
      /\ \A i \in 1..(n + (m - 1)) : agenda'[i] = IF i <= n THEN s[i] ELSE t[i - n]
  <2>1. /\ s \o t \in Seq(S) /\ Len(s \o t) = Len(s) + Len(t)
        /\ \A i \in 1..Len(s) + Len(t) : (s \o t)[i] = IF i <= Len(s) THEN s[i] ELSE t[i - Len(s)]
    BY <1>2, ConcatProperties
  <2> QED BY <1>2, <1>3, <2>1
<1> HIDE DEF n, m
<1>5. Len(agenda') = n + m - 1 BY <1>1, <1>4
<1>6. \A i \in 1..n : agenda'[i] = s[i] BY <1>1, <1>4
<1>7. \A i \in 1..(n + m - 1) : i > n => i - n + 1 \in 2..m /\ agenda'[i] = agenda[i - n + 1]
  <2> SUFFICES ASSUME NEW i \in 1..(n + m - 1), i > n
               PROVE  i - n + 1 \in 2..m /\ agenda'[i] = agenda[i - n + 1]
    OBVIOUS
  <2>1. i \in 1..(n + (m - 1)) /\ i - n \in 1..(m - 1) /\ (i - n) + 1 = i - n + 1
    BY <1>1
  <2>2. agenda'[i] = t[i - n] BY <1>1, <1>4, <2>1
  <2> QED BY <1>1, <1>2, <2>1, <2>2
<1>8. \A i \in 1..m : i >= 2 => agenda'[n + i - 1] = agenda[i]
  <2> SUFFICES ASSUME NEW i \in 1..m, i >= 2 PROVE agenda'[n + i - 1] = agenda[i]
    OBVIOUS
  <2>1. n + i - 1 \in 1..(n + m - 1) /\ n + i - 1 > n /\ (n + i - 1) - n + 1 = i BY <1>1
  <2> QED BY <1>7, <2>1
<1> QED BY <1>1, <1>4, <1>5, <1>6, <1>7, <1>8 DEF n, m

-----------------------------------------------------------------------------
\* The invariant.

Serving(c) == c.op \in {"dispatch", "consume"}
UpTo(n)    == \A i \in 1..n : Serving(agenda[i])

\* The engine's client is the consumer only while a loop over alternatives is on
\* the call stack with nothing but deliveries above it: one such loop cannot hide
\* another.  What a loop reports is above it, and is never one generation further.
SwitchedFor == \E i \in 1..Len(agenda) : agenda[i].op = "alts" /\ UpTo(i - 1)
Shallow(i)  == agenda[i].d.gen = 0 \/ (agenda[i].d.gen = 1 /\ client = "consumer" /\ UpTo(i))
SwitchInv ==
  /\ FrontClient = "mapping" /\ client = "consumer" => SwitchedFor
  /\ FrontClient = "consumer" => client = "consumer" /\ UpTo(Len(agenda))
  /\ \A i \in 1..Len(agenda) : Shallow(i)
  /\ NoRemap

LEMMA SwitchedTop ==
  ASSUME TypeInv, SwitchInv, FrontClient = "mapping", agenda = <<>> \/ agenda[1].op = "sync"
  PROVE  client = "mapping"
<1>1. client \in {"mapping", "consumer"} BY DEF TypeInv, TypeOK
<1>2. SUFFICES ASSUME client = "consumer" PROVE FALSE BY <1>1
<1>3. PICK i \in 1..Len(agenda) : agenda[i].op = "alts" /\ UpTo(i - 1)
  BY <1>2 DEF SwitchInv, SwitchedFor
<1>4. Len(agenda) \in Nat BY LenProperties DEF TypeInv
<1>5. CASE agenda = <<>>
  <2>1. Len(agenda) = 0 BY <1>5, EmptySeq
  <2> QED BY <1>3, <1>4, <2>1
<1>6. CASE agenda[1].op = "sync"
  <2>1. i # 1 BY <1>3, <1>6
  <2>2. 1 \in 1..(i - 1) BY <1>3, <1>4, <2>1
  <2> QED BY <1>3, <1>6, <2>2 DEF UpTo, Serving
<1> QED BY <1>5, <1>6

\* A delivery that makes only deliveries, of diagnostics of its own generation or
\* from outside, leaves the loops below as they were.
LEMMA ServingSwitch ==
  ASSUME TypeInv, SwitchInv, agenda # <<>>, Serving(agenda[1]), NEW s \in Seq(GoodCall), Push(s),
         \A i \in 1..Len(s) : /\ Serving(s[i])
                              /\ s[i].d.gen = 0 \/ s[i].d.gen = agenda[1].d.gen,
         client' = client, NoRemap'
  PROVE  SwitchInv'
<1> DEFINE n == Len(s)
           m == Len(agenda)
<1>1. /\ n \in Nat /\ m \in Nat \ {0}
      /\ Len(agenda') = n + m - 1
      /\ \A i \in 1..n : agenda'[i] = s[i]
      /\ \A i \in 1..m : i >= 2 => agenda'[n + i - 1] = agenda[i]
      /\ \A i \in 1..Len(agenda') :
           i > n => i - n + 1 \in 2..m /\ agenda'[i] = agenda[i - n + 1]
  <2>1. agenda \in Seq(GoodCall) BY DEF TypeInv
  <2> QED BY <2>1, Pushed
<1>2. FrontClient' = FrontClient BY DEF FrontClient, Complete
<1> HIDE DEF n, m
<1>3. \A i \in 1..m : UpTo(i) => \A j \in 1..(n + i - 1) : Serving(agenda'[j])
  <2> SUFFICES ASSUME NEW i \in 1..m, UpTo(i), NEW j \in 1..(n + i - 1)
               PROVE  Serving(agenda'[j])
    OBVIOUS
  <2>1. CASE j <= n
    <3>1. j \in 1..n BY <1>1, <2>1
    <3> QED BY <1>1, <3>1 DEF n
  <2>2. CASE j > n
    <3>1. j \in 1..Len(agenda') /\ j - n + 1 \in 1..i BY <1>1, <2>2
    <3>2. agenda'[j] = agenda[j - n + 1] BY <1>1, <2>2, <3>1
    <3> QED BY <3>1, <3>2 DEF UpTo
  <2> QED BY <1>1, <2>1, <2>2
<1>4. SwitchedFor => SwitchedFor'
  <2> SUFFICES ASSUME SwitchedFor PROVE SwitchedFor' OBVIOUS
  <2>1. PICK i \in 1..m : agenda[i].op = "alts" /\ UpTo(i - 1) BY DEF SwitchedFor, m
  <2>2. i >= 2
    <3>1. i # 1 BY <2>1 DEF Serving
    <3> QED BY <1>1, <3>1
  <2>3. /\ n + i - 1 \in 1..Len(agenda') /\ i - 1 \in 1..m
        /\ n + (i - 1) - 1 = (n + i - 1) - 1
    BY <1>1, <2>2
  <2>4. agenda'[n + i - 1].op = "alts" BY <1>1, <2>1, <2>2
  <2>5. \A j \in 1..((n + i - 1) - 1) : Serving(agenda'[j])
    BY <1>3, <2>1, <2>3
  <2> QED BY <2>3, <2>4, <2>5 DEF SwitchedFor, UpTo, Serving
<1>5. FrontClient = "consumer" => UpTo(Len(agenda))'
  <2> SUFFICES ASSUME FrontClient = "consumer" PROVE UpTo(Len(agenda))' OBVIOUS
  <2>1. UpTo(m) /\ m \in 1..m BY <1>1 DEF SwitchInv, m
  <2>2. \A j \in 1..Len(agenda') : Serving(agenda'[j]) BY <1>1, <1>3, <2>1
  <2> QED BY <2>2 DEF UpTo, Serving
<1>6. \A i \in 1..Len(agenda') : Shallow(i)'
  <2> SUFFICES ASSUME NEW i \in 1..Len(agenda') PROVE Shallow(i)' OBVIOUS
  <2>1. CASE i <= n
    <3>1. i \in 1..n /\ agenda'[i] = s[i] BY <1>1, <2>1
    <3>2. s[i].d.gen = 0 \/ s[i].d.gen = agenda[1].d.gen BY <3>1 DEF n
    <3>3. \A j \in 1..i : Serving(agenda'[j])
      <4>1. \A j \in 1..i : j \in 1..n BY <1>1, <3>1
      <4> QED BY <1>1, <4>1 DEF n
    <3>4. agenda[1].d.gen = 0 \/ (agenda[1].d.gen = 1 /\ client = "consumer")
      <4>1. 1 \in 1..Len(agenda) BY <1>1 DEF m
      <4> QED BY <4>1 DEF SwitchInv, Shallow
    <3> QED BY <3>1, <3>2, <3>3, <3>4 DEF Shallow, UpTo, Serving
  <2>2. CASE i > n
    <3>1. i - n + 1 \in 1..m /\ agenda'[i] = agenda[i - n + 1] BY <1>1, <2>2
    <3>2. Shallow(i - n + 1) BY <3>1 DEF SwitchInv, m
    <3>3. UpTo(i - n + 1) => \A j \in 1..i : Serving(agenda'[j])
      <4>1. n + (i - n + 1) - 1 = i BY <1>1
      <4> QED BY <1>3, <3>1, <4>1
    <3> QED BY <3>1, <3>2, <3>3 DEF Shallow, UpTo, Serving
  <2> QED BY <1>1, <2>1, <2>2
<1> QED BY <1>2, <1>4, <1>5, <1>6 DEF SwitchInv

-----------------------------------------------------------------------------
\* The invariant holds.

\* While nothing else is in progress the mapping is told of everything: only then
\* does it make calls of its own.
LEMMA MappingSwitch ==
  ASSUME TypeInv, SwitchInv, agenda # <<>>, NEW s \in Seq(GoodCall), Push(s),
         FrontClient = "mapping", agenda[1].d.gen = 0,
         \/ client' = "mapping" /\ \A i \in 1..Len(s) : s[i].d.gen = 0
         \/ /\ client' = "consumer" /\ Len(s) = 2 /\ agenda[1].op = "alts"
            /\ Serving(s[1]) /\ s[1].d.gen = 1 /\ s[2].op = "alts" /\ s[2].d.gen = 0,
         ~Serving(agenda[1]) \/ client = "mapping",
         NoRemap'
  PROVE  SwitchInv'
<1> DEFINE n == Len(s)
           m == Len(agenda)
<1>1. /\ n \in Nat /\ m \in Nat \ {0}
      /\ Len(agenda') = n + m - 1
      /\ \A i \in 1..n : agenda'[i] = s[i]
      /\ \A i \in 1..Len(agenda') :
           i > n => i - n + 1 \in 2..m /\ agenda'[i] = agenda[i - n + 1]
  <2>1. agenda \in Seq(GoodCall) BY DEF TypeInv
  <2> QED BY <2>1, Pushed
<1>2. FrontClient' = FrontClient BY DEF FrontClient, Complete
<1>3. \A i \in 1..m : agenda[i].d.gen = 0
  <2> SUFFICES ASSUME NEW i \in 1..m, agenda[i].d.gen # 0 PROVE FALSE OBVIOUS
  <2>1. client = "consumer" /\ UpTo(i) BY DEF SwitchInv, Shallow
  <2>2. 1 \in 1..i BY <1>1
  <2> QED BY <2>1, <2>2 DEF UpTo
<1>4. \A i \in 1..Len(agenda') : i > n => agenda'[i].d.gen = 0
  <2> SUFFICES ASSUME NEW i \in 1..Len(agenda'), i > n PROVE agenda'[i].d.gen = 0 OBVIOUS
  <2>1. i - n + 1 \in 2..m /\ agenda'[i] = agenda[i - n + 1] BY <1>1
  <2>2. i - n + 1 \in 1..m BY <1>1, <2>1
  <2> QED BY <1>3, <2>1, <2>2
<1>5. CASE client' = "mapping" /\ \A i \in 1..Len(s) : s[i].d.gen = 0
  <2>1. \A i \in 1..Len(agenda') : agenda'[i].d.gen = 0
    <3> SUFFICES ASSUME NEW i \in 1..Len(agenda') PROVE agenda'[i].d.gen = 0 OBVIOUS
    <3>1. CASE i <= n
      <4>1. i \in 1..n BY <1>1, <3>1
      <4>2. agenda'[i] = s[i] BY <1>1, <4>1
      <4>3. s[i].d.gen = 0 BY <1>5, <4>1
      <4> QED BY <4>2, <4>3
    <3>2. CASE i > n BY <1>4, <3>2
    <3>3. i <= n \/ i > n BY <1>1
    <3> QED BY <3>1, <3>2, <3>3
  <2> QED BY <1>2, <1>5, <2>1 DEF SwitchInv, Shallow
<1>6. CASE /\ client' = "consumer" /\ n = 2 /\ agenda[1].op = "alts"
           /\ Serving(s[1]) /\ s[1].d.gen = 1 /\ s[2].op = "alts" /\ s[2].d.gen = 0
  <2>1. agenda'[1] = s[1] /\ agenda'[2] = s[2] /\ 2 \in 1..Len(agenda')
    BY <1>1, <1>6
  <2>2. \A i \in 1..Len(agenda') : i = 1 \/ i = 2 \/ i > n BY <1>1, <1>6
  <2>3. \A j \in 1..1 : j = 1 OBVIOUS
  <2>4. SwitchedFor'
    <3>1. 2 - 1 = 1 OBVIOUS
    <3> QED BY <1>6, <2>1, <2>3, <3>1 DEF SwitchedFor, UpTo, Serving
  <2>5. \A i \in 1..Len(agenda') : Shallow(i)'
    <3>1. Shallow(1)' BY <1>6, <2>1, <2>3 DEF Shallow, UpTo, Serving
    <3>2. Shallow(2)' BY <1>6, <2>1 DEF Shallow
    <3>3. \A i \in 1..Len(agenda') : i > n => Shallow(i)' BY <1>4 DEF Shallow
    <3> QED BY <2>2, <3>1, <3>2, <3>3
  <2> QED BY <1>2, <2>4, <2>5 DEF SwitchInv
<1> QED BY <1>5, <1>6

LEMMA InitSwitch == Init => SwitchInv
<1> SUFFICES ASSUME Init PROVE SwitchInv OBVIOUS
<1>1. agenda = <<>> /\ errors = <<>> /\ client = FrontClient BY DEF Init
<1>2. Len(agenda) = 0 BY <1>1, EmptySeq
<1>3. \A i \in 1..Len(agenda) : FALSE BY <1>2
<1> QED BY <1>1, <1>3 DEF SwitchInv, UpTo, NoRemap

\* What comes from outside is deliveries of diagnostics of generation 0.
LEMMA OutsideCalls ==
  ASSUME TypeInv, StartFile \/ ReportDiag \/ ReportNote
  PROVE  \A i \in 1..Len(agenda') : agenda'[i].op = "dispatch" /\ agenda'[i].d.gen = 0
<1>1. CASE StartFile
  <2> DEFINE c == ConfigDiags[file + 1]
  <2>1. agenda' = [k \in 1..Len(c) |-> Dispatch(ConfigDiag(c[k]))] BY <1>1 DEF StartFile
  <2>2. Len(c) \in Nat
    <3>1. file + 1 \in Files
      <4>1. NumFiles \in Nat BY FilesAssumption
      <4>2. file \in 0..NumFiles BY DEF TypeInv, TypeOK, Files
      <4>3. file < NumFiles BY <1>1 DEF StartFile
      <4> QED BY <4>1, <4>2, <4>3 DEF Files
    <3>2. c \in Seq(Texts) BY <3>1, FilesAssumption
    <3> QED BY <3>2, LenProperties
  <2> HIDE DEF c
  <2>3. Len(agenda') = Len(c) BY <2>1, <2>2
  <2>4. \A x : Dispatch(ConfigDiag(x)).op = "dispatch" /\ Dispatch(ConfigDiag(x)).d.gen = 0
    BY DEF Dispatch, ConfigDiag, Diag
  <2> QED BY <2>1, <2>3, <2>4
<1>2. CASE ReportDiag \/ ReportNote
  <2>1. \E r, n, l, o, t : agenda' = <<Dispatch(Diag(r, 0, n, l, o, t))>>
    BY <1>2 DEF ReportDiag, ReportNote
  <2> QED BY <2>1 DEF Dispatch, Diag
<1> QED BY <1>1, <1>2

LEMMA OutsideSwitch ==
  TypeInv /\ SwitchInv /\ (StartFile \/ ReportDiag \/ ReportNote) => SwitchInv'
<1> SUFFICES ASSUME TypeInv, SwitchInv, StartFile \/ ReportDiag \/ ReportNote
             PROVE  SwitchInv'
  OBVIOUS
<1>1. agenda = <<>> /\ client' = client /\ errors' = errors
  BY DEF StartFile, ReportDiag, ReportNote, Idle
<1>2. FrontClient' = FrontClient BY DEF FrontClient, Complete
<1>3. FrontClient \in {"mapping", "consumer"} BY DEF FrontClient
<1>4. client = FrontClient BY <1>1, <1>3, SwitchedTop DEF SwitchInv
<1>5. \A i \in 1..Len(agenda') : Serving(agenda'[i]) /\ agenda'[i].d.gen = 0
  BY OutsideCalls DEF Serving
<1> QED BY <1>1, <1>2, <1>4, <1>5 DEF SwitchInv, Shallow, UpTo, Serving, NoRemap

LEMMA MovesSwitch ==
  TypeInv /\ SwitchInv /\ (Deliver \/ EmitAlternative \/ RestoreClient \/ CopyCounts)
    => SwitchInv'
<1> SUFFICES ASSUME TypeInv, SwitchInv,
                    Deliver \/ EmitAlternative \/ RestoreClient \/ CopyCounts
             PROVE  SwitchInv'
  OBVIOUS
<1> DEFINE d == agenda[1].d
<1>1. agenda # <<>> /\ errors' = errors
  BY DEF Deliver, EmitAlternative, RestoreClient, CopyCounts, Calls
<1>2. NoRemap' BY <1>1 DEF SwitchInv, NoRemap
<1>3. /\ FrontClient \in {"mapping", "consumer"} /\ client \in {"mapping", "consumer"}
      /\ d \in DiagType /\ 1 \in 1..Len(agenda)
  <2>1. FrontClient \in {"mapping", "consumer"} BY DEF FrontClient
  <2>2. Len(agenda) \in Nat \ {0} BY <1>1, EmptySeq DEF TypeInv
  <2> QED BY <1>1, <2>1, <2>2, TopIsGood DEF TypeInv, TypeOK
<1>4. d.gen = 0 \/ (d.gen = 1 /\ client = "consumer" /\ Serving(agenda[1]))
  <2>1. 1 \in 1..1 OBVIOUS
  <2> QED BY <1>3, <2>1 DEF SwitchInv, Shallow, UpTo
<1>5. FrontClient = "consumer" => client = "consumer" /\ Serving(agenda[1])
  BY <1>3 DEF SwitchInv, UpTo
<1>6. /\ Dispatch(d).op = "dispatch" /\ Consume(d).op = "consume" /\ Sync(d).op = "sync"
      /\ Dispatch(d).d = d /\ Consume(d).d = d /\ Sync(d).d = d
      /\ \A S : Alts(d, S).op = "alts" /\ Alts(d, S).d = d
  BY DEF Dispatch, Consume, Sync, Alts
<1>7. <<>> \in Seq(GoodCall) /\ Len(<<>>) = 0 BY EmptySeq
<1>8. CASE Deliver /\ client = "mapping"
  <2>1. client' = "mapping" /\ Push(MappingCalls(d)) BY <1>8 DEF Deliver
  <2>2. MappingCalls(d) \in Seq(GoodCall)
    <3>1. /\ Consume(d) \in GoodCall /\ Sync(d) \in GoodCall
          /\ Alts(d, AltsOf(d.name)) \in GoodCall
      BY <1>3, GoodCalls
    <3> HIDE DEF d
    <3> QED BY <3>1 DEF MappingCalls
  <2>3. d.gen = 0 /\ FrontClient = "mapping" BY <1>3, <1>4, <1>5, <1>8
  <2>4. \A i \in 1..Len(MappingCalls(d)) : MappingCalls(d)[i].d.gen = 0
    <3> HIDE DEF d
    <3> QED BY <1>6, <2>3 DEF MappingCalls
  <2> QED BY <1>1, <1>2, <1>8, <2>1, <2>2, <2>3, <2>4, MappingSwitch
<1>9. CASE Deliver /\ client = "consumer"
  <2>1. client' = client /\ Push(<<Consume(d)>>) /\ Serving(agenda[1])
    BY <1>9 DEF Deliver, Calls, Serving
  <2>2. <<Consume(d)>> \in Seq(GoodCall) BY <1>3, GoodCalls
  <2>3. \A i \in 1..Len(<<Consume(d)>>) : /\ Serving(<<Consume(d)>>[i])
                                         /\ <<Consume(d)>>[i].d.gen = d.gen
    <3> HIDE DEF d
    <3> QED BY <1>6 DEF Serving
  <2> QED BY <1>1, <1>2, <2>1, <2>2, <2>3, ServingSwitch
<1>10. CASE EmitAlternative
  <2> DEFINE k == Lowest(agenda[1].left)
             a == Alternative(d, k)
             s == <<Dispatch(a), Alts(d, agenda[1].left \ {k})>>
  <2>1. agenda[1].op = "alts" /\ client' = "consumer" /\ Push(s)
    BY <1>10 DEF EmitAlternative, Calls
  <2>2. ~Serving(agenda[1]) BY <2>1 DEF Serving
  <2>3. d.gen = 0 /\ FrontClient = "mapping" BY <1>3, <1>4, <1>5, <2>2
  <2>4. /\ agenda[1].left # {} /\ agenda[1].left \subseteq DOMAIN MappingItems
        /\ \A j \in agenda[1].left : Complete(j)
    BY <1>1, <1>10, TopIsGood DEF EmitAlternative
  <2>5. k \in agenda[1].left BY <2>4, LowestIsIn
  <2>6. a \in DiagType BY <1>3, <2>4, <2>5, AlternativeType
  <2>7. Dispatch(a) \in GoodCall BY <2>6, GoodCalls
  <2>8. Alts(d, agenda[1].left \ {k}) \in GoodCall
    <3>1. agenda[1].left \ {k} \in SUBSET DOMAIN MappingItems BY <2>4
    <3>2. \A j \in agenda[1].left \ {k} : Complete(j) BY <2>4
    <3> QED BY <1>3, <3>1, <3>2, GoodCalls
  <2>9. s \in Seq(GoodCall) /\ Len(s) = 2 /\ s[1] = Dispatch(a) /\ s[2].op = "alts" /\ s[2].d = d
    BY <1>6, <2>7, <2>8
  <2>10. Dispatch(a).op = "dispatch" /\ Dispatch(a).d.gen = 1
    <3>1. \A x : Alternative(x, k).gen = x.gen + 1 BY DEF Alternative, Diag
    <3>2. a.gen = 1 BY <2>3, <3>1
    <3> HIDE DEF a
    <3> QED BY <3>2 DEF Dispatch
  <2> HIDE DEF a, s
  <2> QED BY <1>1, <1>2, <2>1, <2>2, <2>3, <2>9, <2>10, MappingSwitch DEF Serving
<1>11. CASE RestoreClient \/ CopyCounts
  <2>1. Push(<<>>) /\ ~Serving(agenda[1])
    BY <1>11 DEF RestoreClient, CopyCounts, Calls, Serving
  <2>2. d.gen = 0 /\ FrontClient = "mapping" BY <1>3, <1>4, <1>5, <2>1
  <2>3. client' = "mapping"
    <3>1. CASE RestoreClient BY <3>1 DEF RestoreClient
    <3>2. CASE CopyCounts
      <4>1. agenda[1].op = "sync" /\ client' = client BY <3>2 DEF CopyCounts, Calls
      <4> QED BY <2>2, <4>1, SwitchedTop
    <3> QED BY <1>11, <3>1, <3>2
  <2>4. \A i \in 1..Len(<<>>) : <<>>[i].d.gen = 0 BY <1>7
  <2> QED BY <1>1, <1>2, <1>7, <2>1, <2>2, <2>3, <2>4, MappingSwitch
<1> QED BY <1>3, <1>8, <1>9, <1>10, <1>11

\* A consumer's handler only makes the NOLINT reader's deliveries.
LEMMA ConsumerCalls ==
  ASSUME TypeInv, IgnoreNote \/ Suppress \/ AttachNote \/ AddError
  PROVE  /\ agenda # <<>> /\ agenda[1].op = "consume" /\ client' = client
         /\ mapCounts' = mapCounts /\ agenda[1].d \in DiagType
         /\ \E s \in Seq(GoodCall) :
              /\ Push(s)
              /\ \A i \in 1..Len(s) : s[i].op = "dispatch" /\ s[i].d.gen = 0
<1> DEFINE d == agenda[1].d
<1>1. /\ agenda # <<>> /\ agenda[1].op = "consume" /\ client' = client
      /\ mapCounts' = mapCounts
  BY DEF IgnoreNote, Suppress, AttachNote, AddError, Handled, Calls
<1>2. d \in DiagType BY <1>1, TopIsGood
<1>3. CASE IgnoreNote
  <2>1. Push(<<>>) BY <1>3 DEF IgnoreNote
  <2>2. <<>> \in Seq(GoodCall) /\ Len(<<>>) = 0 BY EmptySeq
  <2>3. \A i \in 1..Len(<<>>) : FALSE BY <2>2
  <2> QED BY <1>1, <1>2, <2>1, <2>2, <2>3
<1>4. CASE Suppress \/ AttachNote \/ AddError
  <2>1. Push(SuppressionErrors(d)) BY <1>4 DEF Suppress, AttachNote, AddError
  <2>2. SuppressionErrors(d) \in Seq(GoodCall) BY <1>2, SuppressionErrorsGood
  <2>3. \A l : /\ Dispatch(NoLintError(d, l)).op = "dispatch"
               /\ Dispatch(NoLintError(d, l)).d.gen = 0
    BY DEF Dispatch, NoLintError, Diag
  <2>4. \A i \in 1..Len(SuppressionErrors(d)) :
          /\ SuppressionErrors(d)[i].op = "dispatch"
          /\ SuppressionErrors(d)[i].d.gen = 0
    <3>1. \A i \in 1..Len(SuppressionErrors(d)) :
            SuppressionErrors(d)[i] \in {Dispatch(NoLintError(d, l)) : l \in Locs}
      BY <1>2, SuppressionErrorsType
    <3> HIDE DEF d
    <3> QED BY <2>3, <3>1
  <2> QED BY <1>1, <1>2, <2>1, <2>2, <2>4
<1> QED BY <1>3, <1>4

LEMMA ConsumerSwitch ==
  TypeInv /\ SwitchInv /\ (IgnoreNote \/ Suppress \/ AttachNote \/ AddError) => SwitchInv'
<1> SUFFICES ASSUME TypeInv, SwitchInv, IgnoreNote \/ Suppress \/ AttachNote \/ AddError
             PROVE  SwitchInv'
  OBVIOUS
<1> DEFINE d == agenda[1].d
<1>1. /\ agenda # <<>> /\ agenda[1].op = "consume" /\ client' = client
      /\ d \in DiagType
      /\ \E s \in Seq(GoodCall) :
           /\ Push(s)
           /\ \A i \in 1..Len(s) : s[i].op = "dispatch" /\ s[i].d.gen = 0
  BY ConsumerCalls
<1>2. d.gen \in Nat /\ d.gen <= 1
  <2>1. Len(agenda) \in Nat \ {0} BY <1>1, EmptySeq DEF TypeInv
  <2>2. 1 \in 1..Len(agenda) BY <2>1
  <2> QED BY <1>1, <2>2 DEF SwitchInv, Shallow, DiagType
<1>3. NoRemap'
  <2>1. NoRemap /\ errors \in Seq(ErrorType) /\ TypeOK BY DEF SwitchInv, TypeInv, TypeOK
  <2>2. CASE IgnoreNote \/ Suppress
    <3>1. errors' = errors BY <2>2 DEF IgnoreNote, Suppress
    <3> QED BY <2>1, <3>1 DEF NoRemap
  <2>3. CASE AttachNote
    <3> DEFINE n == Len(errors)
    <3>1. n \in Nat \ {0} /\ errors # <<>> BY <2>1, <2>3, EmptySeq DEF AttachNote
    <3>2. PICK x : errors' = [errors EXCEPT ![n].notes = x] BY <2>3 DEF AttachNote
    <3>3. DOMAIN errors = 1..n /\ DOMAIN errors' = DOMAIN errors
      BY <2>1, <3>2, LenProperties
    <3>4. \A i \in 1..n : errors[i] \in ErrorType BY <2>1, ElementOfSeq
    <3>5. \A i \in 1..n : errors'[i].gen = errors[i].gen
      BY <3>2, <3>3, <3>4 DEF ErrorType
    <3> QED BY <2>1, <3>3, <3>5 DEF NoRemap
  <2>4. CASE AddError
    <3>1. /\ Settled \in Seq(ErrorType) /\ Len(Settled) \in Nat /\ Len(errors) \in Nat
          /\ Len(Settled) <= Len(errors)
          /\ \A i \in 1..Len(Settled) : Settled[i] = errors[i]
      BY <2>1, SettledType
    <3>2. errors' = Append(Settled, NewError(d)) /\ d.level # "note" BY <2>4 DEF AddError
    <3>3. NewError(d) \in ErrorType BY <1>1, <2>1, <3>2, NewErrorType DEF TypeOK
    <3>4. /\ Len(errors') = Len(Settled) + 1 /\ errors' \in Seq(ErrorType)
          /\ \A i \in 1..Len(Settled) : errors'[i] = Settled[i]
          /\ errors'[Len(Settled) + 1] = NewError(d)
      BY <3>1, <3>2, <3>3, AppendProperties
    <3>5. NewError(d).gen = d.gen BY DEF NewError
    <3>6. DOMAIN errors' = 1..Len(errors') /\ DOMAIN errors = 1..Len(errors)
      BY <2>1, <3>4, LenProperties
    <3>7. \A i \in 1..Len(Settled) : errors'[i].gen <= 1
      BY <2>1, <3>1, <3>4, <3>6 DEF NoRemap
    <3> HIDE DEF d
    <3> QED BY <1>2, <3>1, <3>4, <3>5, <3>6, <3>7 DEF NoRemap
  <2> QED BY <2>2, <2>3, <2>4
<1>4. Serving(agenda[1]) BY <1>1 DEF Serving
<1> QED BY <1>1, <1>3, <1>4, ServingSwitch DEF Serving

LEMMA SwitchStep == TypeInv /\ SwitchInv /\ [Next]_vars => SwitchInv'
<1> SUFFICES ASSUME TypeInv, SwitchInv, [Next]_vars PROVE SwitchInv' OBVIOUS
<1>1. FrontClient' = FrontClient BY DEF FrontClient, Complete
<1>2. CASE Take
  <2>1. agenda' = agenda /\ client' = client /\ errors' = Settled BY <1>2 DEF Take
  <2>2. /\ Settled \in Seq(ErrorType) /\ Len(Settled) \in Nat /\ Len(errors) \in Nat
        /\ Len(Settled) <= Len(errors)
        /\ \A i \in 1..Len(Settled) : Settled[i] = errors[i]
    BY SettledType DEF TypeInv
  <2>3. DOMAIN errors' = 1..Len(Settled) /\ DOMAIN errors = 1..Len(errors)
    BY <2>1, <2>2, LenProperties DEF TypeInv, TypeOK
  <2>4. NoRemap' BY <2>1, <2>2, <2>3 DEF SwitchInv, NoRemap
  <2> QED BY <1>1, <2>1, <2>4 DEF SwitchInv, SwitchedFor, Shallow, UpTo
<1>3. CASE UNCHANGED vars
  BY <1>1, <1>3 DEF vars, SwitchInv, SwitchedFor, Shallow, UpTo, NoRemap
<1> QED BY <1>2, <1>3, OutsideSwitch, MovesSwitch, ConsumerSwitch DEF Next, Step

-----------------------------------------------------------------------------
\* The counts.

\* Below a handler of the consumer, and below a loop, waits the call that copies
\* the counts; unless one waits they have been copied.
Synced(lo) == \E j \in lo..Len(agenda) : agenda[j].op = "sync"
CountsInv ==
  FrontClient = "mapping" =>
    /\ \A i \in 1..Len(agenda) : agenda[i].op \in {"consume", "alts"} => Synced(i + 1)
    /\ mapCounts = counts \/ Synced(1)

LEMMA PushedCounts ==
  ASSUME TypeInv, CountsInv, agenda # <<>>, FrontClient = "mapping",
         NEW s \in Seq(GoodCall), Push(s),
         \A i \in 1..Len(s) : s[i].op \in {"consume", "alts"} =>
            Synced(2) \/ \E j \in (i + 1)..Len(s) : s[j].op = "sync",
         mapCounts' = counts' \/ Synced(2)
           \/ (agenda[1].op # "sync" /\ counts' = counts /\ mapCounts' = mapCounts)
  PROVE  CountsInv'
<1> DEFINE n == Len(s)
           m == Len(agenda)
<1>1. /\ n \in Nat /\ m \in Nat \ {0}
      /\ Len(agenda') = n + m - 1
      /\ \A i \in 1..n : agenda'[i] = s[i]
      /\ \A i \in 1..m : i >= 2 => agenda'[n + i - 1] = agenda[i]
      /\ \A i \in 1..Len(agenda') :
           i > n => i - n + 1 \in 2..m /\ agenda'[i] = agenda[i - n + 1]
  <2>1. agenda \in Seq(GoodCall) BY DEF TypeInv
  <2> QED BY <2>1, Pushed
<1>2. \A i \in 2..(m + 1) : Synced(i) => \E j \in (n + i - 1)..Len(agenda') : agenda'[j].op = "sync"
  <2> SUFFICES ASSUME NEW i \in 2..(m + 1), Synced(i)
               PROVE  \E j \in (n + i - 1)..Len(agenda') : agenda'[j].op = "sync"
    OBVIOUS
  <2>1. PICK j \in i..m : agenda[j].op = "sync" BY DEF Synced
  <2>2. j \in 1..m /\ j >= 2 BY <1>1, <2>1
  <2>3. agenda'[n + j - 1] = agenda[j] BY <1>1, <2>2
  <2>4. n + j - 1 \in (n + i - 1)..Len(agenda') BY <1>1, <2>1, <2>2
  <2> QED BY <2>1, <2>3, <2>4
<1>3. Synced(2) => \A i \in 1..(n + 1) : \E j \in i..Len(agenda') : agenda'[j].op = "sync"
  <2> SUFFICES ASSUME Synced(2), NEW i \in 1..(n + 1)
               PROVE  \E j \in i..Len(agenda') : agenda'[j].op = "sync"
    OBVIOUS
  <2>1. 2 \in 2..(m + 1) /\ n + 2 - 1 = n + 1 BY <1>1
  <2>2. PICK j \in (n + 1)..Len(agenda') : agenda'[j].op = "sync" BY <1>2, <2>1
  <2>3. j \in i..Len(agenda') BY <1>1, <2>2
  <2> QED BY <2>2, <2>3
<1>4. \A i \in 1..Len(agenda') : agenda'[i].op \in {"consume", "alts"} =>
         \E j \in (i + 1)..Len(agenda') : agenda'[j].op = "sync"
  <2> SUFFICES ASSUME NEW i \in 1..Len(agenda'), agenda'[i].op \in {"consume", "alts"}
               PROVE  \E j \in (i + 1)..Len(agenda') : agenda'[j].op = "sync"
    OBVIOUS
  <2>1. CASE i <= n
    <3>1. i \in 1..n /\ agenda'[i] = s[i] BY <1>1, <2>1
    <3>2. CASE Synced(2)
      <4>1. i + 1 \in 1..(n + 1) BY <1>1, <3>1
      <4> QED BY <1>3, <3>2, <4>1
    <3>3. CASE \E j \in (i + 1)..n : s[j].op = "sync"
      <4>1. PICK j \in (i + 1)..n : s[j].op = "sync" BY <3>3
      <4>2. j \in 1..n /\ j \in (i + 1)..Len(agenda') BY <1>1, <3>1, <4>1
      <4>3. agenda'[j] = s[j] BY <1>1, <4>2
      <4> QED BY <4>1, <4>2, <4>3
    <3> QED BY <3>1, <3>2, <3>3
  <2>2. CASE i > n
    <3>1. i - n + 1 \in 2..m /\ agenda'[i] = agenda[i - n + 1] BY <1>1, <2>2
    <3>2. i - n + 1 \in 1..m BY <1>1, <3>1
    <3>3. Synced((i - n + 1) + 1) BY <3>1, <3>2 DEF CountsInv
    <3>4. (i - n + 1) + 1 \in 2..(m + 1) /\ n + ((i - n + 1) + 1) - 1 = i + 1 BY <1>1, <3>1
    <3> QED BY <1>2, <3>3, <3>4
  <2> QED BY <1>1, <2>1, <2>2
<1>5. mapCounts' = counts' \/ \E j \in 1..Len(agenda') : agenda'[j].op = "sync"
  <2>1. Synced(2) => \E j \in 1..Len(agenda') : agenda'[j].op = "sync"
    <3>1. 1 \in 1..(n + 1) BY <1>1
    <3> QED BY <1>3, <3>1
  <2>2. agenda[1].op # "sync" /\ Synced(1) => Synced(2)
    <3> SUFFICES ASSUME agenda[1].op # "sync", Synced(1) PROVE Synced(2) OBVIOUS
    <3>1. PICK j \in 1..m : agenda[j].op = "sync" BY DEF Synced
    <3>2. j # 1 BY <3>1
    <3>3. j \in 2..m BY <1>1, <3>1, <3>2
    <3> QED BY <3>1, <3>3 DEF Synced
  <2> QED BY <2>1, <2>2 DEF CountsInv
<1> QED BY <1>4, <1>5 DEF CountsInv, Synced

LEMMA CountsStep == TypeInv /\ SwitchInv /\ CountsInv /\ [Next]_vars => CountsInv'
<1> SUFFICES ASSUME TypeInv, SwitchInv, CountsInv, [Next]_vars PROVE CountsInv' OBVIOUS
<1> DEFINE d == agenda[1].d
<1>1. FrontClient' = FrontClient BY DEF FrontClient, Complete
<1> SUFFICES ASSUME FrontClient = "mapping" PROVE CountsInv' BY <1>1 DEF CountsInv
<1>2. agenda # <<>> => 1 \in 1..Len(agenda) /\ d \in DiagType
  <2> SUFFICES ASSUME agenda # <<>> PROVE 1 \in 1..Len(agenda) /\ d \in DiagType OBVIOUS
  <2>1. Len(agenda) \in Nat \ {0} BY EmptySeq DEF TypeInv
  <2> QED BY <2>1, TopIsGood
<1>3. agenda # <<>> /\ agenda[1].op \in {"consume", "alts"} => Synced(2)
  <2>1. 1 + 1 = 2 OBVIOUS
  <2> QED BY <1>2, <2>1 DEF CountsInv
<1>4. /\ Consume(d).op = "consume" /\ Sync(d).op = "sync" /\ \A S : Alts(d, S).op = "alts"
      /\ \A x : Dispatch(x).op = "dispatch"
  BY DEF Dispatch, Consume, Sync, Alts
<1>5. CASE StartFile \/ ReportDiag \/ ReportNote
  <2>1. agenda = <<>> /\ mapCounts' = mapCounts /\ counts' = counts
    BY <1>5 DEF StartFile, ReportDiag, ReportNote, Idle
  <2>2. \A j \in 1..Len(agenda) : FALSE
    <3>1. Len(agenda) = 0 BY <2>1, EmptySeq
    <3> QED BY <3>1
  <2>3. mapCounts = counts BY <2>2 DEF CountsInv, Synced
  <2>4. \A i \in 1..Len(agenda') : agenda'[i].op = "dispatch" BY <1>5, OutsideCalls
  <2> QED BY <2>1, <2>3, <2>4 DEF CountsInv, Synced
<1>6. CASE Deliver
  <2>1. /\ agenda # <<>> /\ agenda[1].op = "dispatch"
        /\ counts' = counts /\ mapCounts' = mapCounts
    BY <1>6 DEF Deliver, Calls
  <2>2. CASE client = "mapping"
    <3>1. Push(MappingCalls(d)) BY <1>6, <2>2 DEF Deliver
    <3>2. /\ Consume(d) \in GoodCall /\ Sync(d) \in GoodCall
          /\ Alts(d, AltsOf(d.name)) \in GoodCall
      BY <1>2, <2>1, GoodCalls
    <3>3. /\ MappingCalls(d) \in Seq(GoodCall)
          /\ \A i \in 1..Len(MappingCalls(d)) :
               MappingCalls(d)[i].op \in {"consume", "alts"} =>
                 \E j \in (i + 1)..Len(MappingCalls(d)) : MappingCalls(d)[j].op = "sync"
      <4> HIDE DEF d
      <4>1. CASE AltsOf(d.name) = {}
        <5> DEFINE s == <<Consume(d), Sync(d)>>
        <5>1. MappingCalls(d) = s BY <4>1 DEF MappingCalls
        <5>2. s \in Seq(GoodCall) /\ Len(s) = 2 /\ s[2].op = "sync" BY <1>4, <3>2
        <5> HIDE DEF s
        <5>3. \A i \in 1..2 : i = 2 \/ 2 \in (i + 1)..2 OBVIOUS
        <5> QED BY <5>1, <5>2, <5>3
      <4>2. CASE AltsOf(d.name) # {}
        <5> DEFINE s == <<Consume(d), Alts(d, AltsOf(d.name)), Sync(d)>>
        <5>1. MappingCalls(d) = s BY <4>2 DEF MappingCalls
        <5>2. s \in Seq(GoodCall) /\ Len(s) = 3 /\ s[3].op = "sync" BY <1>4, <3>2
        <5> HIDE DEF s
        <5>3. \A i \in 1..3 : i = 3 \/ 3 \in (i + 1)..3 OBVIOUS
        <5> QED BY <5>1, <5>2, <5>3
      <4> QED BY <4>1, <4>2
    <3> QED BY <2>1, <3>1, <3>3, PushedCounts
  <2>3. CASE client # "mapping"
    <3>1. Push(<<Consume(d)>>) /\ client = "consumer"
      BY <1>6, <2>3 DEF Deliver, TypeInv, TypeOK
    <3>2. <<Consume(d)>> \in Seq(GoodCall) BY <1>2, <2>1, GoodCalls
    <3>3. PICK i \in 1..Len(agenda) : agenda[i].op = "alts"
      BY <3>1 DEF SwitchInv, SwitchedFor
    <3>4. Synced(2)
      <4>1. PICK j \in (i + 1)..Len(agenda) : agenda[j].op = "sync"
        BY <3>3 DEF CountsInv, Synced
      <4>2. Len(agenda) \in Nat BY LenProperties DEF TypeInv
      <4>3. j \in 2..Len(agenda) BY <3>3, <4>1, <4>2
      <4> QED BY <4>1, <4>3 DEF Synced
    <3> QED BY <2>1, <3>1, <3>2, <3>4, PushedCounts
  <2> QED BY <2>2, <2>3
<1>7. CASE EmitAlternative
  <2> DEFINE k == Lowest(agenda[1].left)
             s == <<Dispatch(Alternative(d, k)), Alts(d, agenda[1].left \ {k})>>
  <2>1. agenda # <<>> /\ agenda[1].op = "alts" /\ Push(s)
    BY <1>7 DEF EmitAlternative, Calls
  <2>2. /\ agenda[1].left # {} /\ agenda[1].left \subseteq DOMAIN MappingItems
        /\ \A j \in agenda[1].left : Complete(j)
    BY <1>7, <2>1, TopIsGood DEF EmitAlternative
  <2>3. Dispatch(Alternative(d, k)) \in GoodCall
    BY <1>2, <2>1, <2>2, LowestIsIn, AlternativeType, GoodCalls
  <2>4. Alts(d, agenda[1].left \ {k}) \in GoodCall
    <3>1. agenda[1].left \ {k} \in SUBSET DOMAIN MappingItems BY <2>2
    <3>2. \A j \in agenda[1].left \ {k} : Complete(j) BY <2>2
    <3> QED BY <1>2, <2>1, <3>1, <3>2, GoodCalls
  <2>5. s \in Seq(GoodCall) BY <2>3, <2>4
  <2> HIDE DEF s
  <2> QED BY <1>3, <2>1, <2>5, PushedCounts
<1>8. CASE RestoreClient \/ CopyCounts
  <2>1. Push(<<>>) /\ agenda # <<>> BY <1>8 DEF RestoreClient, CopyCounts, Calls
  <2>2. <<>> \in Seq(GoodCall) /\ \A i \in 1..Len(<<>>) : FALSE
    <3>1. <<>> \in Seq(GoodCall) /\ Len(<<>>) = 0 BY EmptySeq
    <3> QED BY <3>1
  <2>3. RestoreClient => agenda[1].op = "alts" BY DEF RestoreClient, Calls
  <2>4. CopyCounts => mapCounts' = counts' BY DEF CopyCounts
  <2> QED BY <1>3, <1>8, <2>1, <2>2, <2>3, <2>4, PushedCounts
<1>9. CASE IgnoreNote \/ Suppress \/ AttachNote \/ AddError
  <2>1. /\ agenda # <<>> /\ agenda[1].op = "consume"
        /\ \E s \in Seq(GoodCall) :
             /\ Push(s)
             /\ \A i \in 1..Len(s) : s[i].op = "dispatch" /\ s[i].d.gen = 0
    BY <1>9, ConsumerCalls
  <2> QED BY <1>3, <2>1, PushedCounts
<1>10. CASE Take
  <2>1. agenda' = agenda /\ mapCounts' = mapCounts /\ counts' = counts BY <1>10 DEF Take
  <2> QED BY <1>1, <2>1 DEF CountsInv, Synced
<1>11. CASE UNCHANGED vars BY <1>1, <1>11 DEF vars, CountsInv, Synced
<1> QED BY <1>5, <1>6, <1>7, <1>8, <1>9, <1>10, <1>11 DEF Next, Step

LEMMA MappingInvariant == Spec => [](TypeInv /\ SwitchInv /\ CountsInv)
<1>1. Init => CountsInv BY DEF Init, CountsInv
<1> QED BY <1>1, InitTypeInv, TypeInvStep, InitSwitch, SwitchStep, CountsStep, PTL DEF Spec

\* The mapping layer is transparent to what runs underneath: whoever reports next,
\* after any nesting of alternatives, notes and complaints of the NOLINT reader, is
\* heard by the client that was set up first, no alternative has been mapped in turn,
\* and the counts that the driver reads are those of the wrapped consumer.
THEOREM MappingIsTransparent == Spec => []MappingTransparent
<1>1. TypeInv /\ SwitchInv /\ CountsInv => MappingTransparent
  <2> SUFFICES ASSUME TypeInv, SwitchInv, CountsInv PROVE MappingTransparent OBVIOUS
  <2>1. ClientRestored
    <3>1. FrontClient \in {"mapping", "consumer"} BY DEF FrontClient
    <3> QED BY <3>1, SwitchedTop DEF ClientRestored, Idle, SwitchInv
  <2>2. CountsAgree
    <3>1. agenda = <<>> => Len(agenda) = 0 BY EmptySeq
    <3>2. agenda = <<>> => ~Synced(1) BY <3>1 DEF Synced
    <3> QED BY <3>2 DEF CountsAgree, CountsInv, Idle
  <2> QED BY <2>1, <2>2 DEF MappingTransparent, SwitchInv
<1> QED BY <1>1, MappingInvariant, PTL

-----------------------------------------------------------------------------
\* The list of errors after each handler.

LEMMA ErrorsTyped ==
  ASSUME TypeInv
  PROVE  /\ errors \in Seq(ErrorType) /\ Len(errors) \in Nat
         /\ DOMAIN errors = 1..Len(errors)
         /\ \A i \in 1..Len(errors) : errors[i] \in ErrorType
         /\ errors # <<>> <=> Len(errors) > 0
         /\ errors # <<>> => Len(errors) \in 1..Len(errors)
<1>1. errors \in Seq(ErrorType) BY DEF TypeInv, TypeOK
<1>2. Len(errors) \in Nat /\ DOMAIN errors = 1..Len(errors) BY <1>1, LenProperties
<1>3. errors # <<>> => Len(errors) \in Nat \ {0} BY <1>1, EmptySeq
<1>4. errors = <<>> => Len(errors) = 0 BY EmptySeq
<1> QED BY <1>1, <1>2, <1>3, <1>4, ElementOfSeq

\* A new error follows the settled ones.
LEMMA ErrorAdded ==
  ASSUME TypeInv, AddError
  PROVE  /\ agenda # <<>> /\ agenda[1].d \in DiagType /\ agenda[1].d.level # "note"
         /\ NewError(agenda[1].d) \in ErrorType
         /\ Settled \in Seq(ErrorType) /\ Len(Settled) \in Nat
         /\ errors' = Append(Settled, NewError(agenda[1].d))
         /\ errors' \in Seq(ErrorType) /\ errors' # <<>>
         /\ Len(errors') = Len(Settled) + 1 /\ DOMAIN errors' = 1..(Len(Settled) + 1)
         /\ \A i \in 1..Len(Settled) : errors'[i] = Settled[i]
         /\ errors'[Len(Settled) + 1] = NewError(agenda[1].d)
<1> DEFINE d == agenda[1].d
<1>1. agenda # <<>> /\ d.level # "note" BY DEF AddError, Handled, Calls
<1>2. d \in DiagType BY <1>1, TopIsGood
<1>3. NewError(d) \in ErrorType BY <1>1, <1>2, NewErrorType DEF TypeInv, TypeOK
<1>4. Settled \in Seq(ErrorType) /\ Len(Settled) \in Nat BY SettledType DEF TypeInv
<1>5. errors' = Append(Settled, NewError(d)) BY DEF AddError
<1> HIDE DEF d
<1>6. /\ errors' \in Seq(ErrorType) /\ Len(errors') = Len(Settled) + 1
      /\ \A i \in 1..Len(Settled) : errors'[i] = Settled[i]
      /\ errors'[Len(Settled) + 1] = NewError(d)
  BY <1>3, <1>4, <1>5, AppendProperties
<1>7. DOMAIN errors' = 1..(Len(Settled) + 1) BY <1>6, LenProperties
<1>8. errors' # <<>>
  <2>1. Len(errors') # 0 BY <1>4, <1>6
  <2> QED BY <2>1, EmptySeq
<1> QED BY <1>1, <1>2, <1>3, <1>4, <1>5, <1>6, <1>7, <1>8 DEF d

\* A note changes the notes of the last error, and nothing else.
Noted == [of |-> agenda[1].d.root, loc |-> agenda[1].d.loc]
LEMMA NoteAttached ==
  ASSUME TypeInv, AttachNote
  PROVE  /\ agenda # <<>> /\ agenda[1].d \in DiagType /\ agenda[1].d.level = "note"
         /\ errors # <<>> /\ errors' # <<>> /\ errors' \in Seq(ErrorType)
         /\ Len(errors) \in Nat \ {0} /\ Len(errors') = Len(errors)
         /\ DOMAIN errors' = 1..Len(errors) /\ DOMAIN errors = 1..Len(errors)
         /\ \A i \in 1..Len(errors) : i # Len(errors) => errors'[i] = errors[i]
         /\ errors'[Len(errors)] = [errors[Len(errors)] EXCEPT !.notes = Append(@, Noted)]
         /\ errors[Len(errors)] \in ErrorType /\ Noted \in NoteType
<1> DEFINE d == agenda[1].d
           n == Len(errors)
           e == [errors[n] EXCEPT !.notes = Append(@, Noted)]
<1>1. agenda # <<>> /\ d.level = "note" /\ errors # <<>> BY DEF AttachNote, Handled, Calls
<1>2. d \in DiagType BY <1>1, TopIsGood
<1>3. errors \in Seq(ErrorType) /\ errors' \in Seq(ErrorType)
  BY AttachNoteType DEF TypeInv, TypeOK
<1>4. n \in Nat \ {0} /\ errors[n] \in ErrorType /\ DOMAIN errors = 1..n
  BY <1>1, <1>3, ButLast, EmptySeq, LenProperties
<1>5. errors' = [errors EXCEPT ![n] = e] BY DEF AttachNote, Noted
<1>6. Noted \in NoteType BY <1>2 DEF Noted, NoteType, DiagType
<1>7. n \in 1..n BY <1>4
<1> HIDE DEF e
<1>8. DOMAIN errors' = 1..n /\ errors'[n] = e /\ \A i \in 1..n : i # n => errors'[i] = errors[i]
  BY <1>4, <1>5, <1>7
<1>9. Len(errors') = n BY <1>3, <1>4, <1>5
<1>10. errors' # <<>>
  <2>1. Len(errors') # 0 BY <1>4, <1>9
  <2> QED BY <2>1, EmptySeq
<1>11. errors'[n] = [errors[n] EXCEPT !.notes = Append(@, Noted)] BY <1>8 DEF e
<1> QED BY <1>1, <1>2, <1>3, <1>4, <1>6, <1>8, <1>9, <1>10, <1>11

-----------------------------------------------------------------------------
\* Errors are never dropped.

\* The flags of an error are set, so that no filter drops it.
ForcedInv == Pending /\ LastError.level = "error" => relates /\ passes

LEMMA ForcedStep == TypeInv /\ ForcedInv /\ [Next]_vars => ForcedInv'
<1> SUFFICES ASSUME TypeInv, ForcedInv, [Next]_vars PROVE ForcedInv' OBVIOUS
<1>1. ASSUME errors' = errors, taken' = taken, relates' = relates, passes' = passes
      PROVE  ForcedInv'
  BY <1>1 DEF ForcedInv, Pending, LastError
<1>2. CASE AddError
  <2> DEFINE d == agenda[1].d
  <2>1. LastError' = NewError(d) BY <1>2, ErrorAdded DEF LastError
  <2>2. NewError(d).level = d.level BY DEF NewError
  <2>3. d.level = "error" => relates' /\ passes'
    BY <1>2 DEF AddError, CheckFilters, InitialFlags
  <2> QED BY <2>1, <2>2, <2>3 DEF ForcedInv
<1>3. CASE AttachNote
  <2>1. LastError' = [LastError EXCEPT !.notes = Append(@, Noted)] /\ LastError \in ErrorType
    BY <1>3, NoteAttached DEF LastError
  <2>2. LastError'.level = LastError.level BY <2>1 DEF ErrorType
  <2>3. (relates => relates') /\ (passes => passes') /\ taken' = taken /\ errors # <<>>
    BY <1>3 DEF AttachNote, CheckFilters
  <2> QED BY <2>2, <2>3 DEF ForcedInv, Pending
<1>4. CASE Take
  <2>1. ~Pending' BY <1>4 DEF Take, Pending
  <2> QED BY <2>1 DEF ForcedInv
<1>5. CASE \/ StartFile \/ ReportDiag \/ ReportNote \/ Deliver \/ EmitAlternative
           \/ RestoreClient \/ CopyCounts \/ IgnoreNote \/ Suppress
  BY <1>1, <1>5 DEF StartFile, ReportDiag, ReportNote, Deliver, EmitAlternative, RestoreClient,
                    CopyCounts, IgnoreNote, Suppress
<1>6. CASE UNCHANGED vars BY <1>1, <1>6 DEF vars
<1> QED BY <1>2, <1>3, <1>4, <1>5, <1>6 DEF Next, Step

\* What settling does with the last error.
LEMMA Settling ==
  ASSUME TypeInv, ForcedInv, ~taken, errors # <<>>
  PROVE  \/ Settled = errors
         \/ /\ LastError.level # "error"
            /\ Settled = SubSeq(errors, 1, Len(errors) - 1)
            /\ Len(Settled) = Len(errors) - 1
<1>1. CASE Verdict = "displayed" BY <1>1 DEF Settled
<1>2. CASE Verdict # "displayed"
  <2>1. LastError.level # "error"
    <3> SUFFICES ASSUME LastError.level = "error" PROVE FALSE OBVIOUS
    <3>1. relates /\ passes BY DEF ForcedInv, Pending
    <3>2. ~Disabled(LastError) BY DEF Disabled
    <3> QED BY <1>2, <3>1, <3>2 DEF Verdict
  <2>2. Settled = SubSeq(errors, 1, Len(errors) - 1) BY <1>2 DEF Settled
  <2>3. Len(Settled) = Len(errors) - 1
    <3>1. errors \in Seq(ErrorType) BY DEF TypeInv, TypeOK
    <3> QED BY <2>2, <3>1, ButLast
  <2> QED BY <2>1, <2>2, <2>3
<1> QED BY <1>1, <1>2

\* Whatever the filters say and whatever is settled under which file: an error of the
\* compiler or of the NOLINT reader stays, at its place in the list.
THEOREM ErrorsShown == Spec => ErrorsAlwaysShown
<1> DEFINE Keeps == \A i \in DOMAIN errors : errors[i].level = "error" =>
                      /\ i \in DOMAIN errors'
                      /\ errors'[i].root = errors[i].root /\ errors'[i].name = errors[i].name
<1>1. TypeInv /\ ForcedInv /\ OwnerInv /\ [Next]_vars => [Keeps]_vars
  <2> SUFFICES ASSUME TypeInv, ForcedInv, OwnerInv, [Next]_vars,
                      NEW i \in DOMAIN errors, errors[i].level = "error"
               PROVE  /\ i \in DOMAIN errors'
                      /\ errors'[i].root = errors[i].root /\ errors'[i].name = errors[i].name
    OBVIOUS
  <2>1. /\ Len(errors) \in Nat /\ DOMAIN errors = 1..Len(errors) /\ i \in 1..Len(errors)
        /\ errors[i] \in ErrorType /\ errors # <<>>
    BY ErrorsTyped
  <2>2. ~taken => i \in 1..Len(Settled) /\ Settled[i] = errors[i] /\ DOMAIN Settled = 1..Len(Settled)
    <3> SUFFICES ASSUME ~taken
                 PROVE  i \in 1..Len(Settled) /\ Settled[i] = errors[i] /\ DOMAIN Settled = 1..Len(Settled)
      OBVIOUS
    <3>1. /\ Settled \in Seq(ErrorType) /\ Len(Settled) \in Nat
          /\ \A k \in 1..Len(Settled) : Settled[k] = errors[k]
      BY SettledType DEF TypeInv
    <3>2. DOMAIN Settled = 1..Len(Settled) BY <3>1, LenProperties
    <3>3. i \in 1..Len(Settled)
      <4>1. CASE Settled = errors BY <2>1, <4>1
      <4>2. CASE LastError.level # "error" /\ Len(Settled) = Len(errors) - 1
        <5>1. i # Len(errors) BY <4>2 DEF LastError
        <5> QED BY <2>1, <4>2, <5>1
      <4> QED BY <2>1, <4>1, <4>2, Settling
    <3> QED BY <3>1, <3>2, <3>3
  <2>3. CASE AddError
    <3>1. ~taken
      <4>1. agenda # <<>> BY <2>3, ErrorAdded
      <4> QED BY <4>1, ServingTop
    <3>2. /\ Len(Settled) \in Nat /\ DOMAIN errors' = 1..(Len(Settled) + 1)
          /\ \A k \in 1..Len(Settled) : errors'[k] = Settled[k]
      BY <2>3, ErrorAdded
    <3>3. i \in DOMAIN errors' BY <2>2, <3>1, <3>2
    <3> QED BY <2>2, <3>1, <3>2, <3>3
  <2>4. CASE AttachNote
    <3>1. /\ DOMAIN errors' = 1..Len(errors)
          /\ \A k \in 1..Len(errors) : k # Len(errors) => errors'[k] = errors[k]
          /\ errors'[Len(errors)] = [errors[Len(errors)] EXCEPT !.notes = Append(@, Noted)]
      BY <2>4, NoteAttached
    <3>2. CASE i # Len(errors) BY <2>1, <3>1, <3>2
    <3>3. CASE i = Len(errors)
      <4>1. errors'[i] = [errors[i] EXCEPT !.notes = Append(@, Noted)] BY <3>1, <3>3
      <4>2. errors'[i].root = errors[i].root /\ errors'[i].name = errors[i].name
        BY <2>1, <4>1 DEF ErrorType
      <4> QED BY <2>1, <3>1, <4>2
    <3> QED BY <3>2, <3>3
  <2>5. CASE Take
    <3>1. ~taken /\ errors' = Settled BY <2>5 DEF Take
    <3> QED BY <2>2, <3>1
  <2>6. CASE \/ StartFile \/ ReportDiag \/ ReportNote \/ Deliver \/ EmitAlternative
             \/ RestoreClient \/ CopyCounts \/ IgnoreNote \/ Suppress
    BY <2>6 DEF StartFile, ReportDiag, ReportNote, Deliver, EmitAlternative, RestoreClient,
                CopyCounts, IgnoreNote, Suppress
  <2>7. CASE UNCHANGED vars BY <2>7 DEF vars
  <2> QED BY <2>3, <2>4, <2>5, <2>6, <2>7 DEF Next, Step
<1>2. Init => ForcedInv BY DEF Init, ForcedInv, Pending
<1> QED BY <1>1, <1>2, InitTypeInv, TypeInvStep, InitOwner, OwnerInvStep, ForcedStep, PTL
        DEF Spec, ErrorsAlwaysShown

-----------------------------------------------------------------------------
\* The report.

\* Of errors that agree in place and name one is kept.
LEMMA OneOfEach ==
  ASSUME NEW s \in Seq(ErrorType)
  PROVE  /\ Unique(s) \subseteq ErrorType
         /\ \A i \in DOMAIN s : \E f \in Unique(s) : SamePlace(s[i], f) /\ f.name = s[i].name
         /\ \A e, f \in Unique(s) : SamePlace(e, f) /\ e.name = f.name => e = f
<1>1. /\ Len(s) \in Nat /\ DOMAIN s = 1..Len(s)
      /\ \A i \in DOMAIN s : s[i] \in ErrorType
  BY LenProperties, ElementOfSeq
<1> DEFINE First(i) == \A j \in 1..(i - 1) : ~(SamePlace(s[j], s[i]) /\ s[j].name = s[i].name)
<1>2. Unique(s) = {s[i] : i \in {i \in DOMAIN s : First(i)}} BY DEF Unique
<1>3. Unique(s) \subseteq ErrorType
  <2> HIDE DEF First
  <2> QED BY <1>1, <1>2
<1>4. ASSUME NEW i \in DOMAIN s
      PROVE  \E f \in Unique(s) : SamePlace(s[i], f) /\ f.name = s[i].name
  <2> DEFINE S == {j \in DOMAIN s : SamePlace(s[j], s[i]) /\ s[j].name = s[i].name}
  <2>1. S \in SUBSET Nat BY <1>1
  <2>2. i \in S BY DEF SamePlace
  <2>3. PICK j \in S : \A k \in S : j <= k BY <2>1, <2>2, LeastNat
  <2>4. /\ j \in DOMAIN s /\ s[j].loc = s[i].loc /\ s[j].text = s[i].text
        /\ s[j].name = s[i].name
    BY <2>3 DEF SamePlace
  <2>5. First(j)
    <3> SUFFICES ASSUME NEW k \in 1..(j - 1), SamePlace(s[k], s[j]), s[k].name = s[j].name
                 PROVE  FALSE
      OBVIOUS
    <3>1. k \in DOMAIN s /\ k < j BY <1>1, <2>4
    <3>2. k \in S BY <2>4, <3>1 DEF SamePlace
    <3>3. j <= k BY <2>3, <3>2
    <3> QED BY <1>1, <2>4, <3>1, <3>3
  <2>6. s[j] \in Unique(s)
    <3> HIDE DEF First
    <3> QED BY <1>2, <2>4, <2>5
  <2> QED BY <2>4, <2>6 DEF SamePlace
<1>5. ASSUME NEW e \in Unique(s), NEW f \in Unique(s), SamePlace(e, f), e.name = f.name
      PROVE  e = f
  <2> HIDE DEF First
  <2>1. PICK i \in DOMAIN s : e = s[i] /\ First(i) BY <1>2
  <2>2. PICK j \in DOMAIN s : f = s[j] /\ First(j) BY <1>2
  <2>3. /\ SamePlace(s[i], s[j]) /\ SamePlace(s[j], s[i]) /\ s[i].name = s[j].name
    BY <1>5, <2>1, <2>2 DEF SamePlace
  <2> USE DEF First
  <2>4. ~(i \in 1..(j - 1)) BY <2>2, <2>3
  <2>5. ~(j \in 1..(i - 1)) BY <2>1, <2>3
  <2>6. i = j BY <1>1, <2>4, <2>5
  <2> QED BY <2>1, <2>2, <2>6
<1> QED BY <1>3, <1>4, <1>5

\* Every text at one place has a name that comes first.
LEMMA LeaderOfEach ==
  ASSUME NEW U \in SUBSET ErrorType, NEW f \in U
  PROVE  \E e \in Leaders(U) : SamePlace(f, e)
<1> DEFINE P == {g \in U : SamePlace(f, g)}
           S == {Rank[g.name] : g \in P}
<1>1. f \in P BY DEF SamePlace
<1>2. S \in SUBSET Nat
  <2>1. \A g \in ErrorType : g.name \in Names BY DEF ErrorType
  <2>2. \A g \in P : g.name \in Names BY <2>1
  <2>3. \A m \in Names : Rank[m] \in Nat BY NamesAssumption
  <2>4. \A g \in P : Rank[g.name] \in Nat BY <2>2, <2>3
  <2> HIDE DEF P
  <2> QED BY <2>4
<1>3. S # {} BY <1>1
<1>4. PICK n \in S : \A k \in S : n <= k BY <1>2, <1>3, LeastNat
<1>5. PICK e \in P : n = Rank[e.name] BY <1>4
<1>6. \A g \in P : Rank[e.name] <= Rank[g.name] BY <1>4, <1>5
<1>7. \A g \in U : SamePlace(e, g) => g \in P BY <1>5 DEF SamePlace
<1>8. e \in Leaders(U) BY <1>5, <1>6, <1>7 DEF Leaders
<1> QED BY <1>5, <1>8

LEMMA MergeKeeps ==
  ASSUME NEW s \in Seq(ErrorType)
  PROVE  /\ \A i \in DOMAIN s : \E r \in Merged(Unique(s)) :
              SamePlace(s[i], r.error) /\ s[i].name \in {r.error.name} \cup r.aliases
         /\ \A r, q \in Merged(Unique(s)) : SamePlace(r.error, q.error) => r = q
<1> DEFINE U == Unique(s)
           AliasesOf(e) == {f.name : f \in {f \in U : SamePlace(e, f)}} \ {e.name}
           Entry(e) == [error |-> e, aliases |-> AliasesOf(e),
                        asError |-> \E f \in U : SamePlace(e, f) /\ f.asError]
<1>1. U \in SUBSET ErrorType BY OneOfEach
<1>2. Merged(U) = {Entry(e) : e \in Leaders(U)} BY DEF Merged
<1>3. \A e : Entry(e).error = e /\ Entry(e).aliases = AliasesOf(e) OBVIOUS
<1>4. \A i \in DOMAIN s : \E f \in U : SamePlace(s[i], f) /\ f.name = s[i].name BY OneOfEach
<1>5. \A e, f \in U : SamePlace(e, f) /\ e.name = f.name => e = f BY OneOfEach
<1>6. Leaders(U) \subseteq U BY DEF Leaders
<1> HIDE DEF U, Entry
<1>7. ASSUME NEW i \in DOMAIN s
      PROVE  \E r \in Merged(U) :
               SamePlace(s[i], r.error) /\ s[i].name \in {r.error.name} \cup r.aliases
  <2>1. PICK f \in U : SamePlace(s[i], f) /\ f.name = s[i].name BY <1>4
  <2>2. PICK e \in Leaders(U) : SamePlace(f, e) BY <1>1, LeaderOfEach
  <2>3. SamePlace(s[i], e) /\ SamePlace(e, f) BY <2>1, <2>2 DEF SamePlace
  <2>4. s[i].name \in {e.name} \cup AliasesOf(e) BY <2>1, <2>3
  <2> QED BY <1>2, <1>3, <2>2, <2>3, <2>4
<1>8. ASSUME NEW r \in Merged(U), NEW q \in Merged(U), SamePlace(r.error, q.error)
      PROVE  r = q
  <2>1. PICK e \in Leaders(U) : r = Entry(e) BY <1>2
  <2>2. PICK f \in Leaders(U) : q = Entry(f) BY <1>2
  <2>3. SamePlace(e, f) /\ SamePlace(f, e) BY <1>3, <1>8, <2>1, <2>2 DEF SamePlace
  <2>4. e \in U /\ f \in U /\ e.name \in Names /\ f.name \in Names
    BY <1>1, <1>6 DEF ErrorType
  <2>5. Rank[e.name] <= Rank[f.name] /\ Rank[f.name] <= Rank[e.name]
    BY <2>3, <2>4 DEF Leaders
  <2>6. e.name = f.name
    <3>1. Rank[e.name] \in Nat /\ Rank[f.name] \in Nat BY <2>4, NamesAssumption
    <3>2. Rank[e.name] = Rank[f.name] BY <2>5, <3>1
    <3> QED BY <2>4, <3>2, NamesAssumption
  <2> QED BY <1>5, <2>1, <2>2, <2>3, <2>4, <2>6
<1> QED BY <1>7, <1>8 DEF U

\* take() loses nothing, whatever was reported and however the names are ordered:
\* each error that was kept is in the report under its name or as an alias, and no
\* text appears twice at one place.
THEOREM ReportIsComplete == Spec => []ReportComplete
<1>1. TypeInv /\ OwnerInv /\ ReportComplete /\ [Next]_vars => ReportComplete'
  <2> SUFFICES ASSUME TypeInv, OwnerInv, ReportComplete, [Next]_vars PROVE ReportComplete'
    OBVIOUS
  <2>1. CASE Take
    <3>1. errors' = Settled /\ report' = Merged(Unique(Settled)) BY <2>1 DEF Take
    <3>2. Settled \in Seq(ErrorType) BY SettledType DEF TypeInv
    <3> QED BY <3>1, <3>2, MergeKeeps DEF ReportComplete, SamePlace
  <2>2. CASE Next /\ ~Take
    <3>1. ~taken
      <4>1. taken => agenda = <<>> BY DEF OwnerInv
      <4>2. CASE StartFile \/ ReportDiag \/ ReportNote
        BY <4>2 DEF StartFile, ReportDiag, ReportNote
      <4>3. CASE Step
        BY <4>1, <4>3 DEF Step, Deliver, EmitAlternative, RestoreClient, CopyCounts, IgnoreNote,
                          Suppress, AttachNote, AddError, Handled, Calls
      <4> QED BY <2>2, <4>2, <4>3 DEF Next
    <3>2. taken' = taken
      <4>1. CASE StartFile \/ ReportDiag \/ ReportNote
        BY <4>1 DEF StartFile, ReportDiag, ReportNote
      <4>2. CASE Step
        BY <4>2 DEF Step, Deliver, EmitAlternative, RestoreClient, CopyCounts, IgnoreNote,
                    Suppress, AttachNote, AddError
      <4> QED BY <2>2, <4>1, <4>2 DEF Next
    <3> QED BY <3>1, <3>2 DEF ReportComplete
  <2>3. CASE UNCHANGED vars BY <2>3 DEF vars, ReportComplete
  <2> QED BY <2>1, <2>2, <2>3
<1>2. Init => ReportComplete BY DEF Init, ReportComplete
<1> QED BY <1>1, <1>2, InitTypeInv, TypeInvStep, InitOwner, OwnerInvStep, PTL DEF Spec

-----------------------------------------------------------------------------
\* The refinement.

Shown == IF Pending THEN SubSeq(errors, 1, Len(errors) - 1) ELSE errors
Open  == IF Pending THEN LastError ELSE [root |-> -1]

\* Notes are about diagnostics that were counted.
BoundInv == subject.id <= MaxDiags

LEMMA BoundStep == TypeInv /\ BoundInv /\ [Next]_vars => BoundInv'
<1> SUFFICES ASSUME TypeInv, BoundInv, [Next]_vars PROVE BoundInv' OBVIOUS
<1>1. MaxDiags \in Nat BY FilesAssumption
<1>2. CASE StartFile
  <2>1. subject'.id = 0 BY <1>2 DEF StartFile, NoSubject
  <2> QED BY <1>1, <2>1 DEF BoundInv
<1>3. CASE ReportDiag
  <2>1. subject'.id = nextId /\ nextId <= MaxDiags BY <1>3 DEF ReportDiag
  <2> QED BY <2>1 DEF BoundInv
<1>4. CASE Suppress
  <2> DEFINE b == subject.silenced \/ (agenda[1].d.gen = 0 /\ agenda[1].d.level # "note")
  <2>1. subject' = [subject EXCEPT !.silenced = b] BY <1>4 DEF Suppress
  <2>2. subject \in [id : Nat, name : Names, silenced : BOOLEAN] BY DEF TypeInv, TypeOK
  <2> HIDE DEF b
  <2>3. subject'.id = subject.id BY <2>1, <2>2
  <2> QED BY <2>3 DEF BoundInv
<1>5. CASE \/ ReportNote \/ Deliver \/ EmitAlternative \/ RestoreClient \/ CopyCounts
           \/ IgnoreNote \/ AttachNote \/ AddError \/ Take
  BY <1>5 DEF ReportNote, Deliver, EmitAlternative, RestoreClient, CopyCounts, IgnoreNote,
              AttachNote, AddError, Take, BoundInv
<1>6. CASE UNCHANGED vars BY <1>6 DEF vars, BoundInv
<1> QED BY <1>2, <1>3, <1>4, <1>5, <1>6 DEF Next, Step

\* Settling the last error settles the open group.
LEMMA SettleGroup ==
  ASSUME TypeInv, ForcedInv, ~taken, Shown' = Settled
  PROVE  \/ Open = [root |-> -1] /\ Shown' = Shown
         \/ Open # [root |-> -1] /\ Open.level # "error" /\ Shown' = Shown
         \/ Open # [root |-> -1] /\ Shown' = Append(Shown, Open)
<1>1. CASE errors = <<>>
  <2>1. ~Pending BY <1>1 DEF Pending
  <2> QED BY <1>1, <2>1 DEF Shown, Open, Settled
<1>2. CASE errors # <<>>
  <2> DEFINE n == Len(errors)
             s == SubSeq(errors, 1, n - 1)
  <2>1. Pending BY <1>2 DEF Pending
  <2>2. Shown = s /\ Open = LastError BY <2>1 DEF Shown, Open
  <2>3. errors \in Seq(ErrorType) BY DEF TypeInv, TypeOK
  <2>4. /\ n \in Nat \ {0} /\ errors[n] \in ErrorType /\ s \in Seq(ErrorType)
        /\ Len(s) = n - 1 /\ \A i \in 1..(n - 1) : s[i] = errors[i]
    BY <1>2, <2>3, ButLast, EmptySeq
  <2>5. Open # [root |-> -1]
    <3>1. Open.root \in Nat BY <2>2, <2>4 DEF ErrorType, LastError
    <3>2. [root |-> -1].root \notin Nat OBVIOUS
    <3> QED BY <3>1, <3>2
  <2>6. Append(s, errors[n]) = errors
    <3> HIDE DEF n, s
    <3>1. /\ Append(s, errors[n]) \in Seq(ErrorType) /\ Len(Append(s, errors[n])) = n
          /\ \A i \in 1..(n - 1) : Append(s, errors[n])[i] = errors[i]
          /\ Append(s, errors[n])[n] = errors[n]
      <4>1. /\ Append(s, errors[n]) \in Seq(ErrorType)
            /\ Len(Append(s, errors[n])) = Len(s) + 1
            /\ \A i \in 1..Len(s) : Append(s, errors[n])[i] = s[i]
            /\ Append(s, errors[n])[Len(s) + 1] = errors[n]
        BY <2>4, AppendProperties
      <4> QED BY <2>4, <4>1
    <3>2. \A i \in 1..n : i = n \/ i \in 1..(n - 1) BY <2>4
    <3>3. \A i \in 1..n : Append(s, errors[n])[i] = errors[i] BY <3>1, <3>2
    <3>4. n = Len(errors) BY DEF n
    <3> QED BY <2>3, <3>1, <3>3, <3>4, SeqEqual
  <2>7. \/ Settled = errors
        \/ LastError.level # "error" /\ Settled = s
    BY <1>2, Settling
  <2> QED BY <2>2, <2>5, <2>6, <2>7 DEF LastError
<1> QED BY <1>1, <1>2

LEMMA RaiseGroup ==
  ASSUME TypeInv, ForcedInv, OwnerInv, AddError
  PROVE  /\ ~taken /\ taken' = taken /\ Shown' = Settled
         /\ Open' # [root |-> -1] /\ Open'.notes = <<>>
<1> DEFINE x == NewError(agenda[1].d)
           m == Len(Settled)
<1>1. /\ agenda # <<>> /\ x \in ErrorType /\ Settled \in Seq(ErrorType) /\ m \in Nat
      /\ errors' = Append(Settled, x) /\ errors' \in Seq(ErrorType) /\ errors' # <<>>
      /\ Len(errors') = m + 1
      /\ \A i \in 1..m : errors'[i] = Settled[i]
      /\ errors'[m + 1] = x
  BY ErrorAdded
<1>2. ~taken /\ taken' = taken
  <2>1. ~taken BY <1>1, ServingTop
  <2> QED BY <2>1 DEF AddError
<1>3. x.notes = <<>> BY DEF NewError
<1>4. x.root \in Nat BY <1>1 DEF ErrorType
<1> HIDE DEF x, m
<1>5. Pending' BY <1>1, <1>2 DEF Pending
<1>6. Open' = x BY <1>1, <1>5 DEF Open, LastError
<1>7. Shown' = Settled
  <2>1. Shown' = SubSeq(errors', 1, Len(errors') - 1) BY <1>5 DEF Shown
  <2>2. /\ SubSeq(errors', 1, Len(errors') - 1) \in Seq(ErrorType)
        /\ Len(SubSeq(errors', 1, Len(errors') - 1)) = Len(errors') - 1
        /\ \A i \in 1..(Len(errors') - 1) : SubSeq(errors', 1, Len(errors') - 1)[i] = errors'[i]
    BY <1>1, ButLast
  <2>3. Len(errors') - 1 = m BY <1>1
  <2>4. Len(Shown') = m /\ Shown' \in Seq(ErrorType) /\ \A i \in 1..m : Shown'[i] = Settled[i]
    BY <1>1, <2>1, <2>2, <2>3
  <2> QED BY <1>1, <2>4, SeqEqual DEF m
<1>8. Open' # [root |-> -1]
  <2>1. [root |-> -1].root \notin Nat OBVIOUS
  <2> QED BY <1>4, <1>6, <2>1
<1> QED BY <1>2, <1>3, <1>6, <1>7, <1>8

LEMMA ExplainGroup ==
  ASSUME TypeInv, OwnerInv, BoundInv, AttachNote
  PROVE  /\ ~taken /\ taken' = taken /\ Shown' = Shown
         /\ Open # [root |-> -1]
         /\ Noted \in [of : 0..MaxDiags, loc : Locs \cup {NoLoc}] /\ Noted.of = Open.root
         /\ Open' = [Open EXCEPT !.notes = Append(@, Noted)]
<1> DEFINE n == Len(errors)
           d == agenda[1].d
<1>1. /\ agenda # <<>> /\ d \in DiagType /\ d.level = "note"
      /\ errors # <<>> /\ errors' # <<>> /\ errors' \in Seq(ErrorType)
      /\ n \in Nat \ {0} /\ Len(errors') = n
      /\ \A i \in 1..n : i # n => errors'[i] = errors[i]
      /\ errors'[n] = [errors[n] EXCEPT !.notes = Append(@, Noted)]
      /\ errors[n] \in ErrorType /\ Noted \in NoteType
  BY NoteAttached
<1>2. ~taken /\ taken' = taken /\ d.root = subject.id /\ subject.id # 0 /\ subject.id \in Nat
  <2>1. ~taken /\ d.root = subject.id /\ subject.id # 0 /\ subject.id \in Nat
    BY <1>1, ServingTop
  <2> QED BY <2>1 DEF AttachNote
<1>3. errors[n].root = subject.id
  <2>1. ~ignored /\ ~Arriving BY <1>1 DEF AttachNote, Handled, Arriving
  <2> QED BY <1>2, <2>1 DEF OwnerInv, LastErrorIsSubject
<1>4. Pending /\ Pending' BY <1>1, <1>2 DEF Pending
<1>5. Open = errors[n] /\ Open' = errors'[n] BY <1>1, <1>4 DEF Open, LastError
<1>6. Noted.of = subject.id /\ Noted \in [of : 0..MaxDiags, loc : Locs \cup {NoLoc}]
  <2>1. Noted.of = subject.id /\ Noted.loc = d.loc BY <1>2 DEF Noted
  <2>2. subject.id \in 0..MaxDiags
    <3>1. MaxDiags \in Nat BY FilesAssumption
    <3> QED BY <1>2, <3>1 DEF BoundInv
  <2>3. d.loc \in Locs \cup {NoLoc} BY <1>1 DEF DiagType
  <2> QED BY <2>1, <2>2, <2>3 DEF Noted
<1>7. Open # [root |-> -1]
  <2>1. [root |-> -1].root \notin Nat OBVIOUS
  <2> QED BY <1>2, <1>3, <1>5, <2>1
<1>8. Shown' = Shown
  <2> DEFINE s == SubSeq(errors, 1, n - 1)
             t == SubSeq(errors', 1, Len(errors') - 1)
  <2>1. errors \in Seq(ErrorType) BY DEF TypeInv, TypeOK
  <2>2. s \in Seq(ErrorType) /\ Len(s) = n - 1 /\ \A i \in 1..(n - 1) : s[i] = errors[i]
    BY <1>1, <2>1, ButLast
  <2>3. /\ t \in Seq(ErrorType) /\ Len(t) = Len(errors') - 1
        /\ \A i \in 1..(Len(errors') - 1) : t[i] = errors'[i]
    BY <1>1, ButLast
  <2>4. Shown = s /\ Shown' = t BY <1>4 DEF Shown
  <2> HIDE DEF s, t
  <2>5. Len(errors') - 1 = n - 1 BY <1>1
  <2>6. \A i \in 1..(n - 1) : i \in 1..n /\ i # n BY <1>1
  <2>7. \A i \in 1..Len(s) : s[i] = t[i] BY <1>1, <2>2, <2>3, <2>5, <2>6
  <2>8. s = t BY <2>2, <2>3, <2>5, <2>7, SeqEqual
  <2> QED BY <2>4, <2>8
<1> QED BY <1>1, <1>2, <1>3, <1>5, <1>6, <1>7, <1>8

LEMMA GroupsStep ==
  TypeInv /\ ForcedInv /\ OwnerInv /\ BoundInv /\ [Next]_vars
    => [Groups!Next]_<<Shown, Open, taken>>
<1> SUFFICES ASSUME TypeInv, ForcedInv, OwnerInv, BoundInv, [Next]_vars
             PROVE  Groups!Next \/ UNCHANGED <<Shown, Open, taken>>
  OBVIOUS
<1>1. ASSUME errors' = errors, taken' = taken PROVE UNCHANGED <<Shown, Open, taken>>
  BY <1>1 DEF Shown, Open, Pending, LastError
<1>2. ASSUME ~taken, Shown' = Settled PROVE Groups!Settle
  BY <1>2, SettleGroup DEF Groups!Settle, Groups!NoGroup, Shown, Open
<1>3. CASE AddError
  <2>1. Groups!Settle BY <1>2, <1>3, RaiseGroup
  <2> QED BY <1>3, <2>1, RaiseGroup DEF Groups!Next, Groups!Raise, Groups!NoGroup, Open
<1>4. CASE AttachNote
  <2>1. Groups!Explain
    BY <1>4, ExplainGroup DEF Groups!Explain, Groups!NoGroup, Shown, Open
  <2> QED BY <2>1 DEF Groups!Next
<1>5. CASE Take
  <2>1. ~taken /\ taken' = TRUE /\ errors' = Settled BY <1>5 DEF Take
  <2>2. ~Pending' BY <2>1 DEF Pending
  <2>3. Shown' = Settled /\ Open' = [root |-> -1] BY <2>1, <2>2 DEF Shown, Open
  <2>4. Groups!Settle BY <1>2, <2>1, <2>3
  <2> QED BY <2>1, <2>3, <2>4 DEF Groups!Next, Groups!Close, Groups!NoGroup, Open
<1>6. CASE \/ StartFile \/ ReportDiag \/ ReportNote \/ Deliver \/ EmitAlternative
           \/ RestoreClient \/ CopyCounts \/ IgnoreNote \/ Suppress
  BY <1>1, <1>6 DEF StartFile, ReportDiag, ReportNote, Deliver, EmitAlternative, RestoreClient,
                    CopyCounts, IgnoreNote, Suppress
<1>7. CASE UNCHANGED vars BY <1>1, <1>7 DEF vars
<1> QED BY <1>3, <1>4, <1>5, <1>6, <1>7 DEF Next, Step

\* The pipeline implements groups of a diagnostic and its notes, for all inputs, files,
\* filters, NOLINT directives and mappings: a group is shown or dropped as a whole, an
\* error always shown, groups come in the order they were raised, and a settled one
\* does not change.
THEOREM PipelineImplementsGroups == Spec => ImplementsGroups
<1>1. Init => Groups!Init
  <2> SUFFICES ASSUME Init PROVE Groups!Init OBVIOUS
  <2>1. errors = <<>> /\ ~taken /\ taken = FALSE BY DEF Init
  <2>2. ~Pending BY <2>1 DEF Pending
  <2> QED BY <2>1, <2>2 DEF Groups!Init, Groups!NoGroup
<1>2. TypeInv /\ ForcedInv /\ OwnerInv /\ BoundInv /\ [Next]_vars
        => [Groups!Next]_<<IF Pending THEN SubSeq(errors, 1, Len(errors) - 1) ELSE errors,
                           IF Pending THEN LastError ELSE [root |-> -1], taken>>
  BY GroupsStep DEF Shown, Open
<1>3. Init => ForcedInv /\ BoundInv
  <2> SUFFICES ASSUME Init PROVE ForcedInv /\ BoundInv OBVIOUS
  <2>1. MaxDiags \in Nat BY FilesAssumption
  <2>2. ~Pending /\ subject.id = 0 BY DEF Init, Pending, NoSubject
  <2> QED BY <2>1, <2>2 DEF ForcedInv, BoundInv
<1> QED BY <1>1, <1>2, <1>3, InitTypeInv, TypeInvStep, InitOwner, OwnerInvStep, ForcedStep,
           BoundStep, PTL DEF Spec, ImplementsGroups, Groups!Spec

-----------------------------------------------------------------------------
\* The filters.

\* What a place in file f earns under the regexes of the files h and x.
UserIn(f, h, x, l) ==
  \/ l = NoLoc
  \/ /\ ~(l \in SystemLocs /\ f \notin ShowSystem)
     /\ l \in NoFileLocs \/ l \in MainLocs[f] \/ l \in HeaderLocs[h] \ ExcludeLocs[x]
LineIn(f, l) ==
  \/ l = NoLoc
  \/ ~(l \in SystemLocs /\ f \notin ShowSystem) /\ l \in NoFileLocs \cup LineOK

Places     == {LastError.loc} \cup {n.loc : n \in NotesOf(Len(errors))}
OwnHeader  == IF header = Unbuilt THEN LastError.tu ELSE header
OwnExclude == IF exclude = Unbuilt THEN LastError.tu ELSE exclude

FlagsInv ==
  Pending =>
    /\ relates <=> \/ LastError.level = "error"
                   \/ \E l \in Places : UserIn(LastError.tu, OwnHeader, OwnExclude, l)
    /\ passes <=> LastError.level = "error" \/ \E l \in Places : LineIn(LastError.tu, l)

\* While the last error can still get notes its file is the current one, because
\* diagnostics are numbered and files come one after the other.
FileInv ==
  /\ subject.id < nextId /\ \A i \in 1..Len(errors) : errors[i].root < nextId
  /\ Pending /\ subject.id # 0 /\ LastError.root = subject.id => LastError.tu = file
  /\ \A i \in 1..Len(errors) : errors[i].tu <= file
  /\ \A i \in 1..(Len(errors) - 1) : errors[i].tu <= errors[i + 1].tu

LEMMA FilterCodes ==
  ASSUME TypeInv, NEW l \in Locs \cup {NoLoc}
  PROVE  /\ UserCode(l) <=> UserIn(file, HeaderFile, ExcludeFile, l)
         /\ (Exempt(l) \/ (InFile(l) /\ l \in LineOK)) <=> LineIn(file, l)
<1>1. NoLoc \notin Locs /\ SystemLocs \cup NoFileLocs \cup LineOK \subseteq Locs
  BY LocsAssumption
<1>2. file \in Files /\ HeaderFile \in Files /\ ExcludeFile \in Files
  BY DEF TypeInv, TypeOK, HeaderFile, ExcludeFile, Unbuilt
<1>3. \A f \in Files : MainLocs[f] \subseteq Locs BY LocsAssumption
<1>4. CASE l = NoLoc BY <1>4 DEF UserCode, UserIn, LineIn, Exempt
<1>5. CASE l # NoLoc
  <2>1. l \in Locs BY <1>5
  <2>2. InFile(l) <=> l \notin NoFileLocs /\ ~SkipsSystem(l) BY <2>1 DEF InFile
  <2>3. Exempt(l) <=> l \in NoFileLocs /\ ~SkipsSystem(l) BY <1>5 DEF Exempt
  <2> QED BY <1>5, <2>2, <2>3 DEF UserCode, UserIn, LineIn, InHeader, SkipsSystem
<1> QED BY <1>4, <1>5

\* The regexes that are built are those that were asked.
LEMMA FiltersKept ==
  ASSUME TypeInv, NEW l, NEW r, NEW p, CheckFilters(l, r, p)
  PROVE  /\ relates' <=> r \/ UserCode(l)
         /\ passes' <=> p \/ Exempt(l) \/ (InFile(l) /\ l \in LineOK)
         /\ (IF header' = Unbuilt THEN file ELSE header') = HeaderFile
         /\ (IF exclude' = Unbuilt THEN file ELSE exclude') = ExcludeFile
<1>1. file # Unbuilt
  <2>1. file \in 0..NumFiles BY DEF TypeInv, TypeOK, Files
  <2> QED BY <2>1 DEF Unbuilt
<1> QED BY <1>1 DEF CheckFilters, HeaderFile, ExcludeFile

LEMMA FlagsAdded == ASSUME TypeInv, AddError PROVE FlagsInv'
<1> DEFINE d == agenda[1].d
           x == NewError(d)
<1>1. d \in DiagType /\ LastError' = x /\ errors'[Len(errors')] = x
  BY ErrorAdded DEF LastError
<1>2. x.level = d.level /\ x.loc = d.loc /\ x.tu = file /\ x.notes = <<>> BY DEF NewError
<1>3. Places' = {d.loc}
  <2>1. NotesOf(Len(errors))' = {} BY <1>1, <1>2 DEF NotesOf
  <2> QED BY <1>1, <1>2, <2>1 DEF Places
<1>4. CheckFilters(d.loc, InitialFlags(d), InitialFlags(d)) BY DEF AddError
<1>5. /\ relates' <=> InitialFlags(d) \/ UserCode(d.loc)
      /\ passes' <=> InitialFlags(d) \/ Exempt(d.loc) \/ (InFile(d.loc) /\ d.loc \in LineOK)
      /\ OwnHeader' = HeaderFile /\ OwnExclude' = ExcludeFile
  <2> HIDE DEF d, x
  <2> QED BY <1>1, <1>2, <1>4, FiltersKept DEF OwnHeader, OwnExclude
<1>6. d.loc \in Locs \cup {NoLoc} BY <1>1 DEF DiagType
<1>7. /\ UserCode(d.loc) <=> UserIn(file, HeaderFile, ExcludeFile, d.loc)
      /\ (Exempt(d.loc) \/ (InFile(d.loc) /\ d.loc \in LineOK)) <=> LineIn(file, d.loc)
  BY <1>6, FilterCodes
<1>8. relates' <=> \/ LastError'.level = "error"
                   \/ \E l \in Places' : UserIn(LastError'.tu, OwnHeader', OwnExclude', l)
  <2> HIDE DEF d, x
  <2> QED BY <1>1, <1>2, <1>3, <1>5, <1>7 DEF InitialFlags
<1>9. passes' <=> \/ LastError'.level = "error"
                  \/ \E l \in Places' : LineIn(LastError'.tu, l)
  <2> HIDE DEF d, x
  <2> QED BY <1>1, <1>2, <1>3, <1>5, <1>7 DEF InitialFlags
<1> QED BY <1>8, <1>9 DEF FlagsInv, UserIn, LineIn

LEMMA FlagsNoted == ASSUME TypeInv, OwnerInv, FileInv, FlagsInv, AttachNote PROVE FlagsInv'
<1> DEFINE d == agenda[1].d
           n == Len(errors)
<1>1. /\ agenda # <<>> /\ d \in DiagType /\ d.level = "note" /\ errors # <<>>
      /\ n \in Nat \ {0} /\ Len(errors') = n
      /\ errors'[n] = [errors[n] EXCEPT !.notes = Append(@, Noted)]
      /\ errors[n] \in ErrorType /\ Noted \in NoteType
  BY NoteAttached
<1>2. ~taken /\ d.root = subject.id /\ subject.id # 0 BY <1>1, ServingTop
<1>3. LastError = errors[n] /\ LastError' = errors'[n] BY <1>1 DEF LastError
<1>4. LastError.root = subject.id
  <2>1. ~ignored /\ ~Arriving BY <1>1 DEF AttachNote, Handled, Arriving
  <2> QED BY <1>2, <2>1 DEF OwnerInv, LastErrorIsSubject, LastError
<1>5. Pending BY <1>1, <1>2 DEF Pending
<1>6. LastError.tu = file BY <1>2, <1>4, <1>5 DEF FileInv
<1>7. /\ LastError'.tu = LastError.tu /\ LastError'.level = LastError.level
      /\ LastError'.loc = LastError.loc
      /\ LastError'.notes = Append(LastError.notes, Noted)
      /\ LastError.notes \in Seq(NoteType)
  BY <1>1, <1>3 DEF ErrorType
<1>8. Places' = Places \cup {d.loc}
  <2> DEFINE s == LastError.notes
             t == LastError'.notes
  <2>1. /\ Len(s) \in Nat /\ DOMAIN s = 1..Len(s) /\ DOMAIN t = 1..(Len(s) + 1)
        /\ \A i \in 1..Len(s) : t[i] = s[i]
        /\ t[Len(s) + 1] = Noted
    BY <1>1, <1>7, AppendProperties, LenProperties
  <2>2. NotesOf(Len(errors)) = {s[i] : i \in DOMAIN s} BY DEF NotesOf, LastError
  <2>3. NotesOf(Len(errors))' = {t[i] : i \in DOMAIN t} BY DEF NotesOf, LastError
  <2> HIDE DEF s, t
  <2>4. {t[i] : i \in DOMAIN t} = {s[i] : i \in DOMAIN s} \cup {Noted}
    <3>1. \A i \in DOMAIN t : i \in DOMAIN s \/ i = Len(s) + 1 BY <2>1
    <3>2. \A i \in DOMAIN s : i \in DOMAIN t BY <2>1
    <3>3. Len(s) + 1 \in DOMAIN t BY <2>1
    <3>4. \A y \in {t[i] : i \in DOMAIN t} : y \in {s[i] : i \in DOMAIN s} \cup {Noted}
      BY <2>1, <3>1
    <3>5. \A y \in {s[i] : i \in DOMAIN s} \cup {Noted} : y \in {t[i] : i \in DOMAIN t}
      BY <2>1, <3>2, <3>3
    <3> QED BY <3>4, <3>5
  <2>5. Noted.loc = d.loc BY DEF Noted
  <2> QED BY <1>7, <2>2, <2>3, <2>4, <2>5 DEF Places
<1>9. CheckFilters(d.loc, relates, passes) BY DEF AttachNote
<1>10. /\ relates' <=> relates \/ UserCode(d.loc)
       /\ passes' <=> passes \/ Exempt(d.loc) \/ (InFile(d.loc) /\ d.loc \in LineOK)
       /\ OwnHeader' = HeaderFile /\ OwnExclude' = ExcludeFile
       /\ OwnHeader = HeaderFile /\ OwnExclude = ExcludeFile
  <2> HIDE DEF d
  <2> QED BY <1>6, <1>7, <1>9, FiltersKept DEF OwnHeader, OwnExclude, HeaderFile, ExcludeFile
<1>11. d.loc \in Locs \cup {NoLoc} BY <1>1 DEF DiagType
<1>12. /\ UserCode(d.loc) <=> UserIn(file, HeaderFile, ExcludeFile, d.loc)
       /\ (Exempt(d.loc) \/ (InFile(d.loc) /\ d.loc \in LineOK)) <=> LineIn(file, d.loc)
  BY <1>11, FilterCodes
<1>13. relates' <=> \/ LastError'.level = "error"
                    \/ \E l \in Places' : UserIn(LastError'.tu, OwnHeader', OwnExclude', l)
  <2> HIDE DEF d
  <2> QED BY <1>5, <1>6, <1>7, <1>8, <1>10, <1>12 DEF FlagsInv
<1>14. passes' <=> \/ LastError'.level = "error"
                   \/ \E l \in Places' : LineIn(LastError'.tu, l)
  <2> HIDE DEF d
  <2> QED BY <1>5, <1>6, <1>7, <1>8, <1>10, <1>12 DEF FlagsInv
<1> QED BY <1>13, <1>14 DEF FlagsInv, UserIn, LineIn

LEMMA FilesAreNumbers == Files \subseteq Nat
<1>1. NumFiles \in Nat BY FilesAssumption
<1> QED BY <1>1 DEF Files

\* The fields that FileInv looks at survive a note.
LEMMA NoteKeepsPlaces ==
  ASSUME TypeInv, AttachNote
  PROVE  /\ Len(errors') = Len(errors) /\ Len(errors) \in Nat
         /\ \A i \in 1..Len(errors) : /\ errors'[i].tu = errors[i].tu
                                      /\ errors'[i].root = errors[i].root
                                      /\ errors'[i].name = errors[i].name
                                      /\ errors'[i].level = errors[i].level
<1> DEFINE n == Len(errors)
<1>1. /\ n \in Nat /\ Len(errors') = n
      /\ \A i \in 1..n : i # n => errors'[i] = errors[i]
      /\ errors'[n] = [errors[n] EXCEPT !.notes = Append(@, Noted)]
      /\ errors[n] \in ErrorType
  BY NoteAttached
<1>2. /\ errors'[n].tu = errors[n].tu /\ errors'[n].root = errors[n].root
      /\ errors'[n].name = errors[n].name /\ errors'[n].level = errors[n].level
  BY <1>1 DEF ErrorType
<1> QED BY <1>1, <1>2

LEMMA FileAdded == ASSUME TypeInv, OwnerInv, FileInv, AddError PROVE FileInv'
<1> DEFINE x == NewError(agenda[1].d)
           m == Len(Settled)
<1>1. /\ agenda # <<>> /\ x \in ErrorType /\ m \in Nat /\ Len(errors') = m + 1
      /\ \A i \in 1..m : errors'[i] = Settled[i]
      /\ errors'[m + 1] = x
  BY ErrorAdded
<1>2. /\ Len(errors) \in Nat /\ m <= Len(errors)
      /\ \A i \in 1..m : Settled[i] = errors[i]
  BY SettledType DEF TypeInv
<1>3. x.root = subject.id /\ x.tu = file
  <2>1. agenda[1].d.root = subject.id BY <1>1, ServingTop
  <2> QED BY <2>1 DEF NewError
<1>4. subject' = subject /\ nextId' = nextId /\ file' = file BY DEF AddError
<1>5. LastError' = x BY <1>1 DEF LastError
<1>6. \A i \in 1..Len(errors') : i \in 1..m \/ i = m + 1 BY <1>1
<1>7. \A i \in 1..m : i \in 1..Len(errors) /\ errors'[i] = errors[i] BY <1>1, <1>2
<1>8. file \in Nat /\ \A i \in 1..Len(errors) : errors[i].tu \in Nat
  <2>1. Files \subseteq Nat BY FilesAreNumbers
  <2>2. \A i \in 1..Len(errors) : errors[i] \in ErrorType BY ErrorsTyped
  <2> QED BY <2>1, <2>2 DEF TypeInv, TypeOK, ErrorType
<1> HIDE DEF x, m
<1>9. subject.id < nextId /\ \A i \in 1..Len(errors') : errors'[i].root < nextId
  BY <1>1, <1>3, <1>6, <1>7 DEF FileInv
<1>10. \A i \in 1..Len(errors') : errors'[i].tu <= file
  BY <1>1, <1>3, <1>6, <1>7, <1>8 DEF FileInv
<1>11. \A i \in 1..(Len(errors') - 1) : errors'[i].tu <= errors'[i + 1].tu
  <2> SUFFICES ASSUME NEW i \in 1..m PROVE errors'[i].tu <= errors'[i + 1].tu BY <1>1
  <2>1. i \in 1..Len(errors) /\ errors'[i] = errors[i] BY <1>7
  <2>2. CASE i = m BY <1>1, <1>3, <2>1, <2>2 DEF FileInv
  <2>3. CASE i # m
    <3>1. i + 1 \in 1..m /\ i \in 1..(Len(errors) - 1) BY <1>1, <1>2, <2>3
    <3>2. errors'[i + 1] = errors[i + 1] BY <1>7, <3>1
    <3> QED BY <2>1, <3>1, <3>2 DEF FileInv
  <2> QED BY <2>2, <2>3
<1> QED BY <1>3, <1>4, <1>5, <1>9, <1>10, <1>11 DEF FileInv

LEMMA FileStep == TypeInv /\ OwnerInv /\ FileInv /\ [Next]_vars => FileInv'
<1> SUFFICES ASSUME TypeInv, OwnerInv, FileInv, [Next]_vars PROVE FileInv' OBVIOUS
<1>1. ASSUME errors' = errors, taken' = taken, subject'.id = subject.id, file' = file,
             nextId' = nextId
      PROVE  FileInv'
  BY <1>1 DEF FileInv, Pending, LastError
<1>2. /\ Len(errors) \in Nat /\ nextId \in Nat \ {0} /\ file \in Nat
      /\ \A i \in 1..Len(errors) : errors[i].root \in Nat /\ errors[i].tu \in Nat
  <2>1. Files \subseteq Nat BY FilesAreNumbers
  <2>2. Len(errors) \in Nat /\ \A i \in 1..Len(errors) : errors[i] \in ErrorType BY ErrorsTyped
  <2> QED BY <2>1, <2>2 DEF TypeInv, TypeOK, ErrorType
<1>3. CASE StartFile
  <2>1. /\ errors' = errors /\ nextId' = nextId /\ taken' = taken /\ file' = file + 1
        /\ subject'.id = 0
    BY <1>3 DEF StartFile, NoSubject
  <2>2. \A i \in 1..Len(errors) : errors[i].tu <= file + 1 BY <1>2 DEF FileInv
  <2> QED BY <1>2, <2>1, <2>2 DEF FileInv
<1>4. CASE ReportDiag
  <2>1. /\ errors' = errors /\ nextId' = nextId + 1 /\ taken' = taken /\ file' = file
        /\ subject'.id = nextId
    BY <1>4 DEF ReportDiag
  <2>2. \A i \in 1..Len(errors) : errors[i].root < nextId /\ errors[i].root < nextId + 1
    BY <1>2 DEF FileInv
  <2>3. Pending => LastError.root # nextId
    <3> SUFFICES ASSUME errors # <<>> PROVE LastError.root # nextId BY DEF Pending
    <3>1. Len(errors) \in 1..Len(errors) BY ErrorsTyped
    <3> QED BY <1>2, <2>2, <3>1 DEF LastError
  <2>4. Pending' <=> Pending BY <2>1 DEF Pending
  <2>5. LastError' = LastError BY <2>1 DEF LastError
  <2>6. Pending' /\ LastError'.root = subject'.id => FALSE BY <2>1, <2>3, <2>4, <2>5
  <2>7. nextId < nextId + 1 BY <1>2
  <2> QED BY <2>1, <2>2, <2>6, <2>7 DEF FileInv
<1>5. CASE ReportNote
  <2>1. /\ errors' = errors /\ nextId' = nextId + 1 /\ taken' = taken /\ file' = file
        /\ subject' = subject
    BY <1>5 DEF ReportNote
  <2>2. \A i \in 1..Len(errors) : errors[i].root < nextId /\ errors[i].root < nextId + 1
    BY <1>2 DEF FileInv
  <2>3. subject.id \in Nat BY DEF TypeInv, TypeOK
  <2>4. subject.id < nextId + 1 BY <1>2, <2>3 DEF FileInv
  <2> QED BY <2>1, <2>2, <2>4 DEF FileInv, Pending, LastError
<1>6. CASE Suppress
  <2> DEFINE b == subject.silenced \/ (agenda[1].d.gen = 0 /\ agenda[1].d.level # "note")
  <2>1. subject' = [subject EXCEPT !.silenced = b] BY <1>6 DEF Suppress
  <2>2. subject \in [id : Nat, name : Names, silenced : BOOLEAN] BY DEF TypeInv, TypeOK
  <2> HIDE DEF b
  <2>3. subject'.id = subject.id BY <2>1, <2>2
  <2> QED BY <1>1, <1>6, <2>3 DEF Suppress
<1>7. CASE AttachNote
  <2>1. /\ subject' = subject /\ nextId' = nextId /\ taken' = taken /\ file' = file
        /\ errors # <<>>
    BY <1>7 DEF AttachNote
  <2>2. /\ Len(errors') = Len(errors)
        /\ \A i \in 1..Len(errors) : errors'[i].tu = errors[i].tu /\ errors'[i].root = errors[i].root
    BY <1>7, NoteKeepsPlaces
  <2>3. Len(errors) \in 1..Len(errors) BY <2>1, ErrorsTyped
  <2>4. LastError'.root = LastError.root /\ LastError'.tu = LastError.tu
    BY <2>2, <2>3 DEF LastError
  <2>5. Pending' => Pending BY <2>1 DEF Pending
  <2>6. \A i \in 1..(Len(errors) - 1) : errors'[i].tu <= errors'[i + 1].tu
    <3> TAKE i \in 1..(Len(errors) - 1)
    <3>1. i \in 1..Len(errors) /\ i + 1 \in 1..Len(errors) BY <1>2
    <3> QED BY <2>2, <3>1 DEF FileInv
  <2> QED BY <2>1, <2>2, <2>4, <2>5, <2>6 DEF FileInv
<1>8. CASE AddError BY <1>8, FileAdded
<1>9. CASE Take
  <2>1. /\ errors' = Settled /\ subject' = subject /\ nextId' = nextId /\ taken' = TRUE
        /\ file' = file
    BY <1>9 DEF Take
  <2>2. /\ Len(Settled) \in Nat /\ Len(Settled) <= Len(errors)
        /\ \A i \in 1..Len(Settled) : Settled[i] = errors[i]
    BY SettledType DEF TypeInv
  <2>3. \A i \in 1..Len(Settled) : i \in 1..Len(errors) BY <1>2, <2>2
  <2>4. \A i \in 1..(Len(Settled) - 1) : errors'[i].tu <= errors'[i + 1].tu
    <3> TAKE i \in 1..(Len(Settled) - 1)
    <3>1. /\ i \in 1..Len(Settled) /\ i + 1 \in 1..Len(Settled)
          /\ i \in 1..(Len(errors) - 1)
      BY <1>2, <2>2
    <3> QED BY <2>1, <2>2, <3>1 DEF FileInv
  <2>5. \A i \in 1..Len(Settled) : errors'[i].root < nextId /\ errors'[i].tu <= file
    BY <2>1, <2>2, <2>3 DEF FileInv
  <2> QED BY <2>1, <2>4, <2>5 DEF FileInv, Pending
<1>10. CASE Deliver \/ EmitAlternative \/ RestoreClient \/ CopyCounts \/ IgnoreNote
  BY <1>1, <1>10 DEF Deliver, EmitAlternative, RestoreClient, CopyCounts, IgnoreNote
<1>11. CASE UNCHANGED vars BY <1>1, <1>11 DEF vars
<1> QED BY <1>3, <1>4, <1>5, <1>6, <1>7, <1>8, <1>9, <1>10, <1>11 DEF Next, Step

LEMMA FlagsStep == TypeInv /\ OwnerInv /\ FileInv /\ FlagsInv /\ [Next]_vars => FlagsInv'
<1> SUFFICES ASSUME TypeInv, OwnerInv, FileInv, FlagsInv, [Next]_vars PROVE FlagsInv' OBVIOUS
<1>1. ASSUME UNCHANGED <<errors, taken, relates, passes, header, exclude>> PROVE FlagsInv'
  BY <1>1 DEF FlagsInv, Pending, LastError, Places, NotesOf, OwnHeader, OwnExclude, UserIn, LineIn
<1>2. CASE Take
  <2>1. ~Pending' BY <1>2 DEF Take, Pending
  <2> QED BY <2>1 DEF FlagsInv
<1>3. CASE \/ StartFile \/ ReportDiag \/ ReportNote \/ Deliver \/ EmitAlternative
           \/ RestoreClient \/ CopyCounts \/ IgnoreNote \/ Suppress
  BY <1>1, <1>3 DEF StartFile, ReportDiag, ReportNote, Deliver, EmitAlternative, RestoreClient,
                    CopyCounts, IgnoreNote, Suppress
<1>4. CASE UNCHANGED vars BY <1>1, <1>4 DEF vars
<1> QED BY <1>2, <1>3, <1>4, FlagsAdded, FlagsNoted DEF Next, Step

LEMMA InitFilters == Init => FileInv /\ FlagsInv
<1> SUFFICES ASSUME Init PROVE FileInv /\ FlagsInv OBVIOUS
<1>1. errors = <<>> /\ Len(errors) = 0 /\ subject.id = 0 /\ nextId = 1
  BY EmptySeq DEF Init, NoSubject
<1>2. ~Pending BY <1>1 DEF Pending
<1> QED BY <1>1, <1>2 DEF FileInv, FlagsInv

\* The flags that decide on the last error are earned by it and its notes, under the
\* regexes in use: nothing of an error before it leaks into them, whatever comes between.
THEOREM FlagsRight == Spec => []FlagsDescribeLastError
<1>1. TypeInv /\ FlagsInv => FlagsDescribeLastError
  <2> SUFFICES ASSUME TypeInv, FlagsInv, Pending PROVE FlagsDescribeLastError
    BY DEF FlagsDescribeLastError
  <2>1. LastError \in ErrorType /\ Places \subseteq Locs \cup {NoLoc}
    <3>1. errors \in Seq(ErrorType) /\ errors # <<>> BY DEF TypeInv, TypeOK, Pending
    <3>2. LastError \in ErrorType BY <3>1, ButLast DEF LastError
    <3>3. LastError.notes \in Seq(NoteType) /\ LastError.loc \in Locs \cup {NoLoc}
      BY <3>2 DEF ErrorType
    <3>4. \A i \in DOMAIN LastError.notes : LastError.notes[i] \in NoteType
      BY <3>3, ElementOfSeq, LenProperties
    <3>5. \A i \in DOMAIN LastError.notes : LastError.notes[i].loc \in Locs \cup {NoLoc}
      BY <3>4 DEF NoteType
    <3>6. NotesOf(Len(errors)) = {LastError.notes[i] : i \in DOMAIN LastError.notes}
      BY DEF NotesOf, LastError
    <3> QED BY <3>2, <3>3, <3>5, <3>6 DEF Places
  <2>2. \A l \in Places : /\ Earned(LastError, l).user <=>
                               UserIn(LastError.tu, OwnHeader, OwnExclude, l)
                          /\ Earned(LastError, l).line <=> LineIn(LastError.tu, l)
    <3> TAKE l \in Places
    <3>1. NoLoc \notin Locs /\ SystemLocs \cup NoFileLocs \cup LineOK \subseteq Locs
      BY LocsAssumption
    <3>2. l \in Locs \cup {NoLoc} BY <2>1
    <3>3. /\ LastError.tu \in Files /\ OwnHeader \in Files /\ OwnExclude \in Files
      BY <2>1 DEF TypeInv, TypeOK, OwnHeader, OwnExclude, ErrorType
    <3> QED BY <3>1, <3>2, <3>3 DEF Earned, UserIn, LineIn, OwnHeader, OwnExclude
  <2>3. relates \in BOOLEAN /\ passes \in BOOLEAN BY DEF TypeInv, TypeOK
  <2>4. /\ relates = (\/ LastError.level = "error"
                      \/ \E l \in Places : Earned(LastError, l).user)
        /\ passes = (\/ LastError.level = "error"
                     \/ \E l \in Places : Earned(LastError, l).line)
    BY <2>2, <2>3 DEF FlagsInv
  <2> QED BY <2>4 DEF FlagsDescribeLastError, Places
<1> QED BY <1>1, InitTypeInv, TypeInvStep, InitOwner, OwnerInvStep, InitFilters, FileStep,
           FlagsStep, PTL DEF Spec

\* Of the errors that are settled only errors and option complaints were not enabled in
\* the file they come from, unless they were the last of their file.
LEMMA JudgedStep ==
  TypeInv /\ OwnerInv /\ FileInv /\ JudgedByOwnFile /\ [Next]_vars => JudgedByOwnFile'
<1> SUFFICES ASSUME TypeInv, OwnerInv, FileInv, JudgedByOwnFile, [Next]_vars
             PROVE  JudgedByOwnFile'
  OBVIOUS
<1>1. CASE AddError
  <2> DEFINE x == NewError(agenda[1].d)
             m == Len(Settled)
  <2>1. /\ m \in Nat /\ Len(errors') = m + 1
        /\ \A i \in 1..m : errors'[i] = Settled[i]
        /\ errors'[m + 1] = x
    BY <1>1, ErrorAdded
  <2>2. /\ Len(errors) \in Nat /\ m <= Len(errors)
        /\ \A i \in 1..m : Settled[i] = errors[i]
    BY SettledType DEF TypeInv
  <2>3. x.tu = file BY DEF NewError
  <2> HIDE DEF x, m
  <2> SUFFICES ASSUME NEW i \in 1..m
               PROVE  \/ errors'[i].level = "error" \/ errors'[i].name = ConfigCheck
                      \/ errors'[i].name \in Enabled[errors'[i].tu]
                      \/ errors'[i + 1].tu # errors'[i].tu
    BY <2>1 DEF JudgedByOwnFile
  <2>4. errors'[i] = errors[i] /\ i \in 1..Len(errors) BY <2>1, <2>2
  <2>5. CASE i # m
    <3>1. i + 1 \in 1..m /\ i \in 1..(Len(errors) - 1) BY <2>1, <2>2, <2>5
    <3>2. errors'[i + 1] = errors[i + 1] BY <2>1, <2>2, <3>1
    <3> QED BY <2>4, <3>1, <3>2 DEF JudgedByOwnFile
  <2>6. CASE i = m /\ m < Len(errors)
    <3>1. i \in 1..(Len(errors) - 1) /\ i + 1 \in 1..Len(errors) BY <2>1, <2>2, <2>6
    <3>2. errors[i].tu <= errors[i + 1].tu /\ errors[i + 1].tu <= file BY <3>1 DEF FileInv
    <3>3. errors[i].tu \in Nat /\ errors[i + 1].tu \in Nat /\ file \in Nat
      <4>1. Files \subseteq Nat BY FilesAreNumbers
      <4>2. errors[i] \in ErrorType /\ errors[i + 1] \in ErrorType BY <2>4, <3>1, ErrorsTyped
      <4> QED BY <4>1, <4>2 DEF TypeInv, TypeOK, ErrorType
    <3>4. errors[i + 1].tu # errors[i].tu => file # errors[i].tu BY <3>2, <3>3
    <3> QED BY <2>1, <2>3, <2>4, <2>6, <3>1, <3>4 DEF JudgedByOwnFile
  <2>7. CASE i = m /\ m = Len(errors)
    <3>1. errors # <<>> /\ LastError = errors[i] BY <2>1, <2>7, EmptySeq DEF LastError
    <3>2. Verdict = "displayed"
      <4> SUFFICES ASSUME Verdict # "displayed" PROVE FALSE OBVIOUS
      <4>1. errors \in Seq(ErrorType) BY DEF TypeInv, TypeOK
      <4>2. m = Len(errors) - 1 BY <3>1, <4>1, ButLast DEF Settled, m
      <4> QED BY <2>2, <2>7, <4>2
    <3>3. \/ LastError.name = ConfigCheck \/ LastError.level = "error"
          \/ LastError.name \in Enabled[file]
      BY <3>2 DEF Verdict, Disabled
    <3>4. CASE errors[i].tu = file BY <2>4, <3>1, <3>3, <3>4
    <3>5. CASE errors[i].tu # file BY <2>1, <2>3, <2>4, <2>7, <3>5
    <3> QED BY <3>4, <3>5
  <2> QED BY <2>1, <2>2, <2>5, <2>6, <2>7
<1>2. CASE AttachNote
  <2>1. /\ Len(errors') = Len(errors) /\ Len(errors) \in Nat
        /\ \A i \in 1..Len(errors) : /\ errors'[i].tu = errors[i].tu
                                     /\ errors'[i].name = errors[i].name
                                     /\ errors'[i].level = errors[i].level
    BY <1>2, NoteKeepsPlaces
  <2>2. \A i \in 1..(Len(errors) - 1) : i \in 1..Len(errors) /\ i + 1 \in 1..Len(errors)
    BY <2>1
  <2> QED BY <2>1, <2>2 DEF JudgedByOwnFile
<1>3. CASE Take
  <2>1. errors' = Settled BY <1>3 DEF Take
  <2>2. /\ Len(Settled) \in Nat /\ Len(errors) \in Nat /\ Len(Settled) <= Len(errors)
        /\ \A i \in 1..Len(Settled) : Settled[i] = errors[i]
    BY SettledType DEF TypeInv
  <2>3. \A i \in 1..(Len(Settled) - 1) : /\ i \in 1..Len(Settled) /\ i + 1 \in 1..Len(Settled)
                                         /\ i \in 1..(Len(errors) - 1)
    BY <2>2
  <2> QED BY <2>1, <2>2, <2>3 DEF JudgedByOwnFile
<1>4. CASE \/ StartFile \/ ReportDiag \/ ReportNote \/ Deliver \/ EmitAlternative
           \/ RestoreClient \/ CopyCounts \/ IgnoreNote \/ Suppress
  <2>1. errors' = errors
    BY <1>4 DEF StartFile, ReportDiag, ReportNote, Deliver, EmitAlternative, RestoreClient,
                CopyCounts, IgnoreNote, Suppress
  <2> QED BY <2>1 DEF JudgedByOwnFile
<1>5. CASE UNCHANGED vars BY <1>5 DEF vars, JudgedByOwnFile
<1> QED BY <1>1, <1>2, <1>3, <1>4, <1>5 DEF Next, Step

\* Which file's Checks a displayed warning passed: its own, except for the last of a file.
THEOREM JudgedRight == Spec => []JudgedByOwnFile
<1>1. Init => JudgedByOwnFile
  <2> SUFFICES ASSUME Init PROVE JudgedByOwnFile OBVIOUS
  <2>1. Len(errors) = 0 BY EmptySeq DEF Init
  <2> QED BY <2>1 DEF JudgedByOwnFile
<1> QED BY <1>1, InitTypeInv, TypeInvStep, InitOwner, OwnerInvStep, InitFilters, FileStep,
           JudgedStep, PTL DEF Spec

-----------------------------------------------------------------------------
\* The notes of a silenced diagnostic.

\* The mapping files name no alternative, and every NOLINTBEGIN has its end: nothing is
\* reported from within a handler.
Quiet == FrontClient = "consumer" /\ \A h \in DOMAIN Unmatched : Unmatched[h] = <<>>

\* Then the call stack of a reported diagnostic is that diagnostic, and the complaints
\* about options, which stem from no diagnostic, have no place that NOLINT could name.
QuietCall(id) == {c \in GoodCall : /\ c.op \in {"dispatch", "consume"}
                                   /\ id = 0 => c.d.loc = NoLoc}
QuietInv ==
  /\ client = "consumer"
  /\ agenda \in Seq(QuietCall(subject.id))
  /\ subject.id # 0 => Len(agenda) <= 1
  /\ subject.silenced => subject.id # 0 /\ ignored /\ ~Arriving
  /\ (subject.silenced \/ Arriving) /\ subject.id # 0
       => \A i \in 1..Len(errors) : errors[i].root # subject.id

LEMMA NothingUnmatched ==
  ASSUME Quiet, NEW d \in DiagType PROVE SuppressionErrors(d) = <<>>
<1>1. CASE ReadsBlocks(d)
  <2>1. d.loc \in Locs BY <1>1 DEF ReadsBlocks, Silenceable
  <2>2. Unmatched[FileOf[d.loc]] = <<>> BY <2>1, LocsAssumption DEF Quiet
  <2>3. Len(Unmatched[FileOf[d.loc]]) = 0 BY <2>2, EmptySeq
  <2>4. SuppressionErrors(d) = [k \in 1..0 |-> Dispatch(NoLintError(d, Unmatched[FileOf[d.loc]][k]))]
    BY <1>1, <2>3 DEF SuppressionErrors
  <2>5. DOMAIN SuppressionErrors(d) = 1..0 BY <2>4
  <2>6. SuppressionErrors(d) \in Seq(GoodCall) BY SuppressionErrorsGood
  <2>7. Len(SuppressionErrors(d)) = 0 BY <2>5, <2>6, LenProperties
  <2> QED BY <2>6, <2>7, EmptySeq
<1>2. CASE ~ReadsBlocks(d) BY <1>2 DEF SuppressionErrors
<1> QED BY <1>1, <1>2

\* The call on top returns without a further call.
LEMMA Returned ==
  ASSUME NEW S, agenda \in Seq(S), agenda # <<>>, Push(<<>>)
  PROVE  /\ agenda' \in Seq(S)
         /\ Len(agenda) <= 1 => agenda' = <<>>
<1> DEFINE t == Tail(agenda)
<1>1. Len(agenda) \in Nat \ {0} BY EmptySeq
<1>2. t \in Seq(S) /\ Len(t) = Len(agenda) - 1 BY HeadTailProperties
<1>3. <<>> \in Seq(S) /\ Len(<<>>) = 0 BY EmptySeq
<1>4. agenda' = <<>> \o t BY DEF Push
<1> HIDE DEF t
<1>5. agenda' \in Seq(S) /\ Len(agenda') = Len(<<>>) + Len(t) BY <1>2, <1>3, <1>4, ConcatProperties
<1>6. Len(agenda') = Len(agenda) - 1 BY <1>1, <1>2, <1>3, <1>5
<1>7. Len(agenda) <= 1 => Len(agenda') = 0 BY <1>1, <1>6
<1> QED BY <1>5, <1>7, EmptySeq

LEMMA QuietOutside ==
  ASSUME Quiet, TypeInv, FileInv, QuietInv, StartFile \/ ReportDiag \/ ReportNote
  PROVE  QuietInv'
<1>1. /\ client' = client /\ errors' = errors /\ ignored' = ignored
  BY DEF StartFile, ReportDiag, ReportNote
<1>2. agenda' \in Seq(GoodCall)
  <2>1. TypeInv' BY StartFileType, ReportType
  <2> QED BY <2>1 DEF TypeInv
<1>3. CASE StartFile
  <2> DEFINE c == ConfigDiags[file + 1]
             t == [k \in 1..Len(c) |-> Dispatch(ConfigDiag(c[k]))]
  <2>1. subject'.id = 0 /\ ~subject'.silenced BY <1>3 DEF StartFile, NoSubject
  <2>2. agenda' = t BY <1>3 DEF StartFile
  <2>3. \A x : Dispatch(ConfigDiag(x)).op = "dispatch" /\ Dispatch(ConfigDiag(x)).d.loc = NoLoc
    BY DEF Dispatch, ConfigDiag, Diag
  <2>4. DOMAIN t = 1..Len(c) /\ \A k \in 1..Len(c) : t[k].op = "dispatch" /\ t[k].d.loc = NoLoc
    BY <2>3
  <2>5. DOMAIN agenda' = 1..Len(agenda') /\ \A k \in 1..Len(agenda') : agenda'[k] \in GoodCall
    BY <1>2, ElementOfSeq, LenProperties
  <2> HIDE DEF t
  <2>6. \A k \in 1..Len(agenda') : agenda'[k] \in QuietCall(0) BY <2>2, <2>4, <2>5 DEF QuietCall
  <2>7. agenda' \in Seq(QuietCall(0)) BY <1>2, <2>6, SeqDef, LenProperties
  <2> QED BY <1>1, <2>1, <2>7 DEF QuietInv
<1>4. CASE ReportDiag
  <2>1. PICK d : agenda' = <<Dispatch(d)>> BY <1>4 DEF ReportDiag
  <2>2. subject'.id = nextId /\ ~subject'.silenced BY <1>4 DEF ReportDiag
  <2>3. nextId \in Nat \ {0} /\ \A i \in 1..Len(errors) : errors[i].root \in Nat
    <3>1. \A i \in 1..Len(errors) : errors[i] \in ErrorType BY ErrorsTyped
    <3> QED BY <3>1 DEF TypeInv, TypeOK, ErrorType
  <2>4. \A i \in 1..Len(errors) : errors[i].root # nextId BY <2>3 DEF FileInv
  <2>5. Dispatch(d) \in GoodCall BY <1>2, <2>1, ElementOfSeq, LenProperties
  <2>6. Dispatch(d) \in QuietCall(nextId) BY <2>3, <2>5 DEF QuietCall, Dispatch
  <2>7. agenda' \in Seq(QuietCall(subject'.id)) /\ Len(agenda') <= 1 BY <2>1, <2>2, <2>6
  <2> QED BY <1>1, <2>2, <2>4, <2>7 DEF QuietInv
<1>5. CASE ReportNote
  <2>1. PICK d : agenda' = <<Dispatch(d)>> /\ d.level = "note"
    <3> DEFINE n == IF subject.name \in CompilerNames THEN "" ELSE subject.name
    <3>1. PICK l : agenda' = <<Dispatch(Diag(subject.id, 0, n, "note", l, "note"))>>
      BY <1>5 DEF ReportNote
    <3> DEFINE x == Diag(subject.id, 0, n, "note", l, "note")
    <3>2. x.level = "note" BY DEF Diag
    <3>3. agenda' = <<Dispatch(x)>> BY <3>1
    <3> HIDE DEF x
    <3> QED BY <3>2, <3>3
  <2>2. subject' = subject /\ subject.id # 0 BY <1>5 DEF ReportNote, NoSubject
  <2>3. Dispatch(d) \in GoodCall BY <1>2, <2>1, ElementOfSeq, LenProperties
  <2>4. Dispatch(d) \in QuietCall(subject.id) BY <2>2, <2>3 DEF QuietCall, Dispatch
  <2>5. agenda' \in Seq(QuietCall(subject'.id)) /\ Len(agenda') <= 1 BY <2>1, <2>2, <2>4
  <2>6. ~Arriving' BY <2>1 DEF Arriving, Dispatch
  <2> QED BY <1>1, <2>2, <2>5, <2>6 DEF QuietInv
<1> QED BY <1>3, <1>4, <1>5

LEMMA QuietDeliver == ASSUME Quiet, TypeInv, QuietInv, Deliver PROVE QuietInv'
<1> DEFINE S == QuietCall(subject.id)
           d == agenda[1].d
<1>1. agenda # <<>> /\ agenda[1].op = "dispatch" BY DEF Deliver, Calls
<1>2. agenda \in Seq(S) /\ client = "consumer" BY DEF QuietInv
<1>3. agenda[1] \in S /\ d \in DiagType BY <1>1, <1>2, AgendaOf, TopIsGood
<1>4. Consume(d) \in S
  <2>1. Consume(d) \in GoodCall BY <1>3, GoodCalls
  <2> QED BY <1>3, <2>1 DEF QuietCall, Consume
<1>5. /\ client' = client /\ errors' = errors /\ ignored' = ignored /\ subject' = subject
      /\ Push(<<Consume(d)>>)
  BY <1>2 DEF Deliver
<1> HIDE DEF S, d
<1>6. <<Consume(d)>> \in Seq(S) /\ <<Consume(d)>> # <<>> /\ <<Consume(d)>>[1] = Consume(d)
      /\ Len(<<Consume(d)>>) = 1
  BY <1>4
<1>7. agenda' # <<>> /\ agenda'[1] = Consume(d) /\ agenda' \in Seq(S)
  BY <1>1, <1>2, <1>5, <1>6, PushTop, AgendaOf
<1>8. Len(agenda') = Len(agenda)
  <2>1. Len(agenda) \in Nat \ {0} BY <1>1, <1>2, EmptySeq
  <2>2. Tail(agenda) \in Seq(S) /\ Len(Tail(agenda)) = Len(agenda) - 1
    BY <1>1, <1>2, HeadTailProperties
  <2>3. Len(agenda') = Len(<<Consume(d)>>) + Len(Tail(agenda))
    BY <1>5, <1>6, <2>2, ConcatProperties DEF Push
  <2> QED BY <1>6, <2>1, <2>2, <2>3
<1>9. Arriving' <=> Arriving BY <1>1, <1>7 DEF Arriving, Consume, d
<1> QED BY <1>2, <1>5, <1>7, <1>8, <1>9 DEF QuietInv, S

\* The consumer's exits: of a reported diagnostic nothing is left on the stack.
LEMMA QuietConsumer ==
  ASSUME Quiet, TypeInv, OwnerInv, QuietInv, IgnoreNote \/ Suppress \/ AttachNote \/ AddError
  PROVE  QuietInv'
<1> DEFINE S == QuietCall(subject.id)
           d == agenda[1].d
<1>1. agenda # <<>> /\ agenda[1].op = "consume"
  BY DEF IgnoreNote, Suppress, AttachNote, AddError, Handled, Calls
<1>2. agenda \in Seq(S) /\ (subject.id # 0 => Len(agenda) <= 1) BY DEF QuietInv
<1>3. agenda[1] \in S /\ d \in DiagType BY <1>1, <1>2, AgendaOf, TopIsGood
<1>4. d.level = "note" => subject.id # 0 BY <1>1, ServingTop
<1>5. Push(<<>>)
  <2>1. SuppressionErrors(d) = <<>> BY <1>3, NothingUnmatched
  <2>2. IgnoreNote => Push(<<>>) BY DEF IgnoreNote
  <2>3. Suppress \/ AttachNote \/ AddError => Push(SuppressionErrors(d))
    BY DEF Suppress, AttachNote, AddError
  <2> HIDE DEF d
  <2> QED BY <2>1, <2>2, <2>3
<1>6. agenda' \in Seq(S) /\ (subject.id # 0 => agenda' = <<>>)
  <2> HIDE DEF S
  <2> QED BY <1>1, <1>2, <1>5, Returned
<1>7. client' = client BY DEF IgnoreNote, Suppress, AttachNote, AddError
<1>8. subject.id # 0 => ~Arriving' /\ Len(agenda') <= 1
  <2> SUFFICES ASSUME subject.id # 0 PROVE ~Arriving' /\ Len(agenda') <= 1 OBVIOUS
  <2>1. agenda' = <<>> BY <1>6
  <2>2. Len(agenda') = 0 BY <2>1, EmptySeq
  <2> QED BY <2>1, <2>2 DEF Arriving
<1>9. Arriving <=> d.level # "note" BY <1>1 DEF Arriving
<1>10. CASE IgnoreNote
  <2>1. ignored' = ignored /\ subject' = subject /\ errors' = errors BY <1>10 DEF IgnoreNote
  <2> QED BY <1>6, <1>7, <1>8, <2>1 DEF QuietInv
<1>11. CASE AttachNote \/ AddError
  <2>1. subject' = subject BY <1>11 DEF AttachNote, AddError
  <2>2. ~subject.silenced
    <3>1. CASE AttachNote BY <3>1 DEF AttachNote, Handled, QuietInv
    <3>2. CASE AddError
      <4>1. Arriving BY <1>9, <3>2 DEF AddError
      <4> QED BY <4>1 DEF QuietInv
    <3> QED BY <1>11, <3>1, <3>2
  <2> QED BY <1>6, <1>7, <1>8, <2>1, <2>2 DEF QuietInv
<1>12. CASE Suppress
  <2> DEFINE b == subject.silenced \/ (agenda[1].d.gen = 0 /\ agenda[1].d.level # "note")
  <2>1. ignored' = TRUE /\ errors' = errors /\ subject' = [subject EXCEPT !.silenced = b]
    BY <1>12 DEF Suppress
  <2>2. subject \in [id : Nat, name : Names, silenced : BOOLEAN] BY DEF TypeInv, TypeOK
  <2>3. b => subject.silenced \/ Arriving BY <1>9
  <2> HIDE DEF b
  <2>4. subject'.id = subject.id /\ (subject'.silenced => b) BY <2>1, <2>2
  <2>5. subject.id # 0
    <3>1. d.loc \in Locs BY <1>12 DEF Suppress, SuppressedBy, OnLine, Silenceable
    <3> QED BY <1>3, <3>1, LocsAssumption DEF QuietCall
  <2> QED BY <1>6, <1>7, <1>8, <2>1, <2>3, <2>4, <2>5 DEF QuietInv
<1> QED BY <1>10, <1>11, <1>12

LEMMA QuietStep ==
  ASSUME Quiet PROVE TypeInv /\ OwnerInv /\ FileInv /\ QuietInv /\ [Next]_vars => QuietInv'
<1> SUFFICES ASSUME TypeInv, OwnerInv, FileInv, QuietInv, [Next]_vars PROVE QuietInv' OBVIOUS
<1>1. CASE EmitAlternative \/ RestoreClient \/ CopyCounts
  <2>1. agenda # <<>> /\ agenda[1].op \in {"alts", "sync"}
    BY <1>1 DEF EmitAlternative, RestoreClient, CopyCounts, Calls
  <2>2. agenda[1] \in QuietCall(subject.id) BY <2>1, AgendaOf DEF QuietInv
  <2> QED BY <2>1, <2>2 DEF QuietCall
<1>2. CASE Take
  <2>1. /\ client' = client /\ agenda' = agenda /\ ignored' = ignored /\ subject' = subject
        /\ errors' = Settled
    BY <1>2 DEF Take
  <2>2. Arriving' <=> Arriving BY <2>1 DEF Arriving
  <2>3. /\ Len(Settled) \in Nat /\ Len(errors) \in Nat /\ Len(Settled) <= Len(errors)
        /\ \A i \in 1..Len(Settled) : Settled[i] = errors[i]
    BY SettledType DEF TypeInv
  <2>4. \A i \in 1..Len(Settled) : i \in 1..Len(errors) BY <2>3
  <2> QED BY <2>1, <2>2, <2>3, <2>4 DEF QuietInv
<1>3. CASE UNCHANGED vars BY <1>3 DEF vars, QuietInv, Arriving
<1> QED BY <1>1, <1>2, <1>3, QuietOutside, QuietDeliver, QuietConsumer DEF Next, Step

\* What is filtered out is what the rules say: the notes of a silenced diagnostic and no
\* others, the last error by its own flags, and no warning that its file enables.
THEOREM FiltersRight == ASSUME Quiet PROVE Spec => []FiltersExact
<1>1. Init => QuietInv
  <2> SUFFICES ASSUME Init PROVE QuietInv OBVIOUS
  <2>1. /\ client = "consumer" /\ agenda = <<>> /\ subject.id = 0 /\ ~subject.silenced
    BY DEF Init, Quiet, NoSubject
  <2>2. agenda \in Seq(QuietCall(subject.id)) BY <2>1, EmptySeq
  <2> QED BY <2>1, <2>2 DEF QuietInv
<1>2. TypeInv /\ OwnerInv /\ FileInv /\ QuietInv /\ [Next]_vars => QuietInv' BY QuietStep
<1>3. TypeInv /\ OwnerInv /\ QuietInv => SilencedNotesDropped
  <2> SUFFICES ASSUME TypeInv, OwnerInv, QuietInv, subject.silenced,
                      NEW i \in DOMAIN errors, NEW n \in NotesOf(i)
               PROVE  n.of # subject.id
    BY DEF SilencedNotesDropped
  <2>1. i \in 1..Len(errors) BY ErrorsTyped
  <2>2. n.of = errors[i].root BY DEF OwnerInv, NoteOwner
  <2> QED BY <2>1, <2>2 DEF QuietInv
<1>4. Spec => []SilencedNotesDropped
  BY <1>1, <1>2, <1>3, InitTypeInv, TypeInvStep, InitOwner, OwnerInvStep, InitFilters, FileStep,
     PTL DEF Spec
<1>5. FiltersExact <=> SilencedNotesDropped /\ FlagsDescribeLastError /\ JudgedByOwnFile
  BY DEF FiltersExact
<1> QED BY <1>4, <1>5, FlagsRight, JudgedRight, PTL

-----------------------------------------------------------------------------
\* The alternatives of a recorded error are recorded.

\* Call c is going to record the alternative k of error e: it is the loop, which has
\* not come to k, or hands the alternative over.
Owes(c, e, k) ==
  /\ c.d.root = e.root /\ c.d.loc = e.loc
  /\ \/ c.op = "alts" /\ c.d.gen = 0 /\ k \in c.left
     \/ /\ Serving(c) /\ c.d.gen = 1 /\ c.d.level = "warning"
        /\ c.d.name = MappingItems[k].alt
Added(f, e, k) ==
  /\ f.gen = 1 /\ f.root = e.root
  /\ f.name = MappingItems[k].alt /\ f.loc = e.loc
Mapped(e, k) ==
  /\ e.gen = 0 /\ e.name \notin Unmapped
  /\ k \in AltsOf(e.name) /\ Visible(MappingItems[k].alt, e.loc)

AddedAfter(i, k) == \E j \in (i + 1)..Len(errors) : Added(errors[j], errors[i], k)
Owed(i, k)       == \E c \in 1..Len(agenda) : Owes(agenda[c], errors[i], k)
OwedInv ==
  \A i \in 1..Len(errors) : \A k \in DOMAIN MappingItems :
    Mapped(errors[i], k) => AddedAfter(i, k) \/ Owed(i, k)

\* The loop waits below the consumer's handler of the original; only the NOLINT
\* reader's errors ever miss theirs, and nothing else is reported above a loop.
LoopInv ==
  /\ \A c \in 1..Len(agenda) :
       LET d == agenda[c].d
       IN  agenda[c].op = "consume" /\ d.gen = 0 /\ d.name # NoLintCheck /\ AltsOf(d.name) # {}
             => c + 1 \in 1..Len(agenda) /\ agenda[c + 1] = Alts(d, AltsOf(d.name))
  /\ \A e \in 1..Len(agenda) : \A c \in 1..(e - 1) :
       agenda[e].op = "alts" /\ agenda[c].op = "dispatch" /\ agenda[c].d.gen = 0
         => agenda[c].d.name = NoLintCheck

\* There are no places in the sources before the first file.
PlaceInv ==
  /\ file = 0 => \A c \in 1..Len(agenda) : agenda[c].d.loc = NoLoc
  /\ \A i \in 1..Len(errors) : errors[i].loc # NoLoc => errors[i].tu # 0

\* What each handler pushes: deliveries that are not notes of an older generation, the
\* loop of the diagnostic that was handed over, and places only where it had one.
LEMMA PushedLoops ==
  ASSUME TypeInv, LoopInv, PlaceInv, agenda # <<>>, NEW s \in Seq(GoodCall), Push(s),
         \A c \in 1..Len(s) :
           /\ s[c].op = "dispatch" /\ s[c].d.gen = 0 => s[c].d.name = NoLintCheck
           /\ s[c].d.loc # NoLoc => agenda[1].d.loc # NoLoc
           /\ s[c].op = "consume" /\ s[c].d.gen = 0 /\ s[c].d.name # NoLintCheck
              /\ AltsOf(s[c].d.name) # {}
                => c + 1 \in 1..Len(s) /\ s[c + 1] = Alts(s[c].d, AltsOf(s[c].d.name))
  PROVE  /\ LoopInv'
         /\ file = 0 => \A c \in 1..Len(agenda') : agenda'[c].d.loc = NoLoc
<1> DEFINE n == Len(s)
           m == Len(agenda)
<1>1. /\ n \in Nat /\ m \in Nat \ {0}
      /\ Len(agenda') = n + m - 1
      /\ \A c \in 1..n : agenda'[c] = s[c]
      /\ \A c \in 1..m : c >= 2 => agenda'[n + c - 1] = agenda[c]
      /\ \A c \in 1..Len(agenda') :
           c > n => c - n + 1 \in 2..m /\ agenda'[c] = agenda[c - n + 1]
  <2>1. agenda \in Seq(GoodCall) BY DEF TypeInv
  <2> QED BY <2>1, Pushed
<1> HIDE DEF n, m
<1>2. ASSUME NEW c \in 1..Len(agenda'), agenda'[c].op = "consume", agenda'[c].d.gen = 0,
             agenda'[c].d.name # NoLintCheck, AltsOf(agenda'[c].d.name) # {}
      PROVE  /\ c + 1 \in 1..Len(agenda')
             /\ agenda'[c + 1] = Alts(agenda'[c].d, AltsOf(agenda'[c].d.name))
  <2>1. CASE c <= n
    <3>1. c \in 1..n /\ agenda'[c] = s[c] BY <1>1, <2>1
    <3>2. c + 1 \in 1..n /\ s[c + 1] = Alts(s[c].d, AltsOf(s[c].d.name))
      BY <1>2, <3>1 DEF n
    <3>3. agenda'[c + 1] = s[c + 1] /\ c + 1 \in 1..Len(agenda') BY <1>1, <3>2
    <3> QED BY <3>1, <3>2, <3>3
  <2>2. CASE c > n
    <3> DEFINE b == c - n + 1
    <3>1. b \in 2..m /\ agenda'[c] = agenda[b] BY <1>1, <2>2
    <3>2. b \in 1..m BY <1>1, <3>1
    <3>3. b + 1 \in 1..m /\ agenda[b + 1] = Alts(agenda[b].d, AltsOf(agenda[b].d.name))
      BY <1>2, <3>1, <3>2 DEF LoopInv, m
    <3>4. c + 1 \in 1..Len(agenda') /\ n + (b + 1) - 1 = c + 1 /\ b + 1 >= 2
      BY <1>1, <2>2, <3>3
    <3>5. agenda'[c + 1] = agenda[b + 1] BY <1>1, <3>3, <3>4
    <3> QED BY <3>1, <3>3, <3>4, <3>5
  <2> QED BY <1>1, <2>1, <2>2
<1>3. ASSUME NEW e \in 1..Len(agenda'), NEW c \in 1..(e - 1), agenda'[e].op = "alts",
             agenda'[c].op = "dispatch", agenda'[c].d.gen = 0
      PROVE  agenda'[c].d.name = NoLintCheck
  <2>1. c \in 1..Len(agenda') BY <1>1
  <2>2. CASE c <= n
    <3>1. c \in 1..n /\ agenda'[c] = s[c] BY <1>1, <2>1, <2>2
    <3> QED BY <1>3, <3>1 DEF n
  <2>3. CASE c > n
    <3> DEFINE b == c - n + 1
               f == e - n + 1
    <3>1. agenda'[c] = agenda[b] /\ b \in 2..m BY <1>1, <2>1, <2>3
    <3>2. agenda'[e] = agenda[f] /\ f \in 2..m BY <1>1, <2>3
    <3>3. f \in 1..m /\ b \in 1..(f - 1) BY <1>1, <2>3, <3>1, <3>2
    <3> HIDE DEF b, f
    <3> QED BY <1>3, <3>1, <3>2, <3>3 DEF LoopInv, m
  <2> QED BY <1>1, <2>1, <2>2, <2>3
<1>4. ASSUME file = 0, NEW c \in 1..Len(agenda') PROVE agenda'[c].d.loc = NoLoc
  <2>0. \A b \in 1..m : agenda[b].d.loc = NoLoc BY <1>4 DEF PlaceInv, m
  <2>1. CASE c <= n
    <3>1. c \in 1..n /\ agenda'[c] = s[c] /\ 1 \in 1..m BY <1>1, <2>1
    <3> QED BY <2>0, <3>1 DEF n
  <2>2. CASE c > n
    <3>1. c - n + 1 \in 1..m /\ agenda'[c] = agenda[c - n + 1] BY <1>1, <2>2
    <3> QED BY <2>0, <3>1
  <2> QED BY <1>1, <2>1, <2>2
<1> QED BY <1>2, <1>3, <1>4 DEF LoopInv

LEMMA OutsideLoops ==
  TypeInv /\ LoopInv /\ PlaceInv /\ (StartFile \/ ReportDiag \/ ReportNote)
    => LoopInv' /\ PlaceInv'
<1> SUFFICES ASSUME TypeInv, LoopInv, PlaceInv, StartFile \/ ReportDiag \/ ReportNote
             PROVE  LoopInv' /\ PlaceInv'
  OBVIOUS
<1>1. \A c \in 1..Len(agenda') : agenda'[c].op = "dispatch" /\ agenda'[c].d.gen = 0
  BY OutsideCalls
<1>2. LoopInv' BY <1>1 DEF LoopInv
<1>3. errors' = errors BY DEF StartFile, ReportDiag, ReportNote
<1>4. CASE StartFile
  <2>1. file' = file + 1 BY <1>4 DEF StartFile
  <2>2. file \in Nat BY FilesAreNumbers DEF TypeInv, TypeOK
  <2>3. file' # 0 BY <2>1, <2>2
  <2> QED BY <1>2, <1>3, <2>3 DEF PlaceInv
<1>5. CASE ReportDiag \/ ReportNote
  <2>1. file' = file BY <1>5 DEF ReportDiag, ReportNote
  <2>2. ASSUME file = 0
        PROVE  \E r, x, v, t : agenda' = <<Dispatch(Diag(r, 0, x, v, NoLoc, t))>>
    <3>1. LocsIn[file] = {} BY <2>2, LocsAssumption
    <3>2. ReportDiag BY <1>5, <3>1 DEF ReportNote
    <3> QED BY <3>1, <3>2 DEF ReportDiag, Reportable
  <2>3. ASSUME file = 0 PROVE \A c \in 1..Len(agenda') : agenda'[c].d.loc = NoLoc
    <3>1. PICK r, x, v, t : agenda' = <<Dispatch(Diag(r, 0, x, v, NoLoc, t))>>
      BY <2>2, <2>3
    <3>2. \A c \in 1..Len(agenda') : c = 1 BY <3>1
    <3> QED BY <3>1, <3>2 DEF Dispatch, Diag
  <2> QED BY <1>2, <1>3, <2>1, <2>3 DEF PlaceInv
<1> QED BY <1>4, <1>5

\* The fields of the errors that a note leaves alone.
LEMMA NoteKeepsFields ==
  ASSUME TypeInv, AttachNote
  PROVE  /\ Len(errors') = Len(errors) /\ Len(errors) \in Nat
         /\ \A i \in 1..Len(errors) :
              /\ errors'[i].gen = errors[i].gen /\ errors'[i].root = errors[i].root
              /\ errors'[i].name = errors[i].name /\ errors'[i].loc = errors[i].loc
              /\ errors'[i].tu = errors[i].tu /\ errors'[i].level = errors[i].level
              /\ errors'[i].asError = errors[i].asError
<1> DEFINE n == Len(errors)
<1>1. /\ n \in Nat /\ Len(errors') = n
      /\ \A i \in 1..n : i # n => errors'[i] = errors[i]
      /\ errors'[n] = [errors[n] EXCEPT !.notes = Append(@, Noted)]
      /\ errors[n] \in ErrorType
  BY NoteAttached
<1>2. /\ errors'[n].gen = errors[n].gen /\ errors'[n].root = errors[n].root
      /\ errors'[n].name = errors[n].name /\ errors'[n].loc = errors[n].loc
      /\ errors'[n].tu = errors[n].tu /\ errors'[n].level = errors[n].level
      /\ errors'[n].asError = errors[n].asError
  BY <1>1 DEF ErrorType
<1> QED BY <1>1, <1>2

\* Only new errors have new places.
LEMMA PlacesOfErrors ==
  ASSUME TypeInv, PlaceInv, [Next]_vars
  PROVE  \A i \in 1..Len(errors') : errors'[i].loc # NoLoc => errors'[i].tu # 0
<1>1. CASE errors' = errors BY <1>1 DEF PlaceInv
<1>2. /\ Settled \in Seq(ErrorType) /\ Len(Settled) \in Nat /\ Len(errors) \in Nat
      /\ Len(Settled) <= Len(errors)
      /\ \A i \in 1..Len(Settled) : Settled[i] = errors[i]
  BY SettledType DEF TypeInv
<1>3. \A i \in 1..Len(Settled) : Settled[i].loc # NoLoc => Settled[i].tu # 0
  <2>1. \A i \in 1..Len(Settled) : i \in 1..Len(errors) BY <1>2
  <2> QED BY <1>2, <2>1 DEF PlaceInv
<1>4. CASE Take BY <1>3, <1>4 DEF Take
<1>5. CASE AddError
  <2> DEFINE d == agenda[1].d
  <2>1. /\ Len(errors') = Len(Settled) + 1
        /\ \A i \in 1..Len(Settled) : errors'[i] = Settled[i]
        /\ errors'[Len(Settled) + 1] = NewError(d)
        /\ agenda # <<>>
    BY <1>5, ErrorAdded
  <2>2. NewError(d).loc = d.loc /\ NewError(d).tu = file BY DEF NewError
  <2>3. file = 0 => d.loc = NoLoc
    <3>1. Len(agenda) \in Nat \ {0} BY <2>1, EmptySeq DEF TypeInv
    <3>2. 1 \in 1..Len(agenda) BY <3>1
    <3> QED BY <3>2 DEF PlaceInv
  <2> HIDE DEF d
  <2>4. \A i \in 1..Len(errors') : i \in 1..Len(Settled) \/ i = Len(Settled) + 1
    BY <1>2, <2>1
  <2> QED BY <1>3, <2>1, <2>2, <2>3, <2>4
<1>6. CASE AttachNote BY <1>6, NoteKeepsFields DEF PlaceInv
<1>7. \/ errors' = errors \/ Take \/ AddError \/ AttachNote
  BY DEF Next, Step, vars, StartFile, ReportDiag, ReportNote, Deliver, EmitAlternative,
         RestoreClient, CopyCounts, IgnoreNote, Suppress
<1> QED BY <1>1, <1>4, <1>5, <1>6, <1>7

LEMMA LoopMoves ==
  TypeInv /\ SwitchInv /\ LoopInv /\ PlaceInv
    /\ (Deliver \/ EmitAlternative \/ RestoreClient \/ CopyCounts)
    => LoopInv' /\ PlaceInv'
<1> SUFFICES ASSUME TypeInv, SwitchInv, LoopInv, PlaceInv,
                    Deliver \/ EmitAlternative \/ RestoreClient \/ CopyCounts
             PROVE  LoopInv' /\ PlaceInv'
  OBVIOUS
<1> DEFINE d == agenda[1].d
<1>1. agenda # <<>> /\ errors' = errors /\ file' = file
  BY DEF Deliver, EmitAlternative, RestoreClient, CopyCounts, Calls
<1>2. d \in DiagType BY <1>1, TopIsGood
<1>3. /\ Dispatch(d).op = "dispatch" /\ Consume(d).op = "consume" /\ Sync(d).op = "sync"
      /\ Dispatch(d).d = d /\ Consume(d).d = d /\ Sync(d).d = d
      /\ \A S : Alts(d, S).op = "alts" /\ Alts(d, S).d = d
  BY DEF Dispatch, Consume, Sync, Alts
<1>4. LoopInv' /\ (file = 0 => \A c \in 1..Len(agenda') : agenda'[c].d.loc = NoLoc)
        => LoopInv' /\ PlaceInv'
  BY <1>1 DEF PlaceInv
<1>5. CASE Deliver /\ client = "mapping"
  <2> DEFINE s == MappingCalls(d)
  <2>1. /\ Consume(d) \in GoodCall /\ Sync(d) \in GoodCall
        /\ Alts(d, AltsOf(d.name)) \in GoodCall
    BY <1>2, GoodCalls
  <2> HIDE DEF d
  <2>2. s \in Seq(GoodCall) BY <2>1 DEF MappingCalls
  <2>3. \A c \in 1..Len(s) :
           /\ s[c].op = "dispatch" /\ s[c].d.gen = 0 => s[c].d.name = NoLintCheck
           /\ s[c].d.loc # NoLoc => d.loc # NoLoc
           /\ s[c].op = "consume" /\ s[c].d.gen = 0 /\ s[c].d.name # NoLintCheck
              /\ AltsOf(s[c].d.name) # {}
                => c + 1 \in 1..Len(s) /\ s[c + 1] = Alts(s[c].d, AltsOf(s[c].d.name))
    <3>1. CASE AltsOf(d.name) = {} BY <1>3, <3>1 DEF MappingCalls
    <3>2. CASE AltsOf(d.name) # {}
      <4>1. s = <<Consume(d), Alts(d, AltsOf(d.name)), Sync(d)>> BY <3>2 DEF MappingCalls
      <4> HIDE DEF s
      <4>2. Len(s) = 3 /\ s[1] = Consume(d) /\ s[2] = Alts(d, AltsOf(d.name)) /\ s[3] = Sync(d)
        BY <4>1
      <4>3. \A c \in 1..Len(s) : c = 1 \/ c = 2 \/ c = 3 BY <4>2
      <4>4. 1 + 1 = 2 /\ 2 \in 1..3 OBVIOUS
      <4> QED BY <1>3, <4>2, <4>3, <4>4
    <3> QED BY <3>1, <3>2
  <2>4. Push(s) BY <1>5 DEF Deliver, d
  <2> HIDE DEF s
  <2> QED BY <1>1, <1>4, <2>2, <2>3, <2>4, PushedLoops DEF d
<1>6. CASE Deliver /\ client # "mapping"
  <2> DEFINE s == <<Consume(d)>>
  <2>1. Consume(d) \in GoodCall BY <1>2, GoodCalls
  <2>2. Push(s) BY <1>6 DEF Deliver
  <2>3. d.gen = 0 /\ d.name # NoLintCheck => AltsOf(d.name) = {}
    <3> SUFFICES ASSUME d.gen = 0, d.name # NoLintCheck, AltsOf(d.name) # {} PROVE FALSE
      OBVIOUS
    <3>1. FrontClient = "mapping" BY DEF AltsOf, FrontClient
    <3>2. client = "consumer" BY <1>6 DEF TypeInv, TypeOK
    <3>3. PICK e \in 1..Len(agenda) : agenda[e].op = "alts"
      BY <3>1, <3>2 DEF SwitchInv, SwitchedFor
    <3>4. agenda[1].op = "dispatch" BY <1>6 DEF Deliver, Calls
    <3>5. Len(agenda) \in Nat BY LenProperties DEF TypeInv
    <3>6. e # 1 BY <3>3, <3>4
    <3>7. 1 \in 1..(e - 1) BY <3>5, <3>6
    <3> QED BY <3>3, <3>4, <3>7 DEF LoopInv
  <2> HIDE DEF d
  <2>4. s \in Seq(GoodCall) /\ Len(s) = 1 /\ s[1] = Consume(d) BY <2>1
  <2> HIDE DEF s
  <2>5. \A c \in 1..Len(s) : s[c] = Consume(d) BY <2>4
  <2>6. \A c \in 1..Len(s) :
           /\ s[c].op = "dispatch" /\ s[c].d.gen = 0 => s[c].d.name = NoLintCheck
           /\ s[c].d.loc # NoLoc => d.loc # NoLoc
           /\ s[c].op = "consume" /\ s[c].d.gen = 0 /\ s[c].d.name # NoLintCheck
              /\ AltsOf(s[c].d.name) # {}
                => c + 1 \in 1..Len(s) /\ s[c + 1] = Alts(s[c].d, AltsOf(s[c].d.name))
    BY <1>3, <2>3, <2>5
  <2> QED BY <1>1, <1>4, <2>2, <2>4, <2>6, PushedLoops DEF d, s
<1>7. CASE EmitAlternative
  <2> DEFINE k == Lowest(agenda[1].left)
             a == Alternative(d, k)
             l == Alts(d, agenda[1].left \ {k})
             s == <<Dispatch(a), l>>
  <2>1. Push(s) BY <1>7 DEF EmitAlternative
  <2>2. /\ agenda[1].left # {} /\ agenda[1].left \subseteq DOMAIN MappingItems
        /\ \A j \in agenda[1].left : Complete(j)
    BY <1>1, <1>7, TopIsGood DEF EmitAlternative
  <2>3. k \in agenda[1].left BY <2>2, LowestIsIn
  <2>4. a \in DiagType BY <1>2, <2>2, <2>3, AlternativeType
  <2>5. Dispatch(a) \in GoodCall BY <2>4, GoodCalls
  <2>6. l \in GoodCall
    <3>1. agenda[1].left \ {k} \in SUBSET DOMAIN MappingItems BY <2>2
    <3>2. \A j \in agenda[1].left \ {k} : Complete(j) BY <2>2
    <3> QED BY <1>2, <3>1, <3>2, GoodCalls
  <2>7. a.gen # 0 /\ a.loc = d.loc
    <3>1. a.gen = d.gen + 1 /\ a.loc = d.loc BY DEF Alternative, Diag
    <3>2. d.gen \in Nat BY <1>2 DEF DiagType
    <3> HIDE DEF a, d
    <3> QED BY <3>1, <3>2
  <2>8. l.op = "alts" /\ l.d = d BY <1>3
  <2>9. Dispatch(a).op = "dispatch" /\ Dispatch(a).d = a BY DEF Dispatch
  <2> HIDE DEF a, d, l
  <2>10. s \in Seq(GoodCall) /\ \A c \in 1..Len(s) : s[c] = Dispatch(a) \/ s[c] = l
    BY <2>5, <2>6
  <2> HIDE DEF s
  <2>11. \A c \in 1..Len(s) :
           /\ s[c].op = "dispatch" /\ s[c].d.gen = 0 => s[c].d.name = NoLintCheck
           /\ s[c].d.loc # NoLoc => d.loc # NoLoc
           /\ s[c].op # "consume"
    BY <2>7, <2>8, <2>9, <2>10
  <2> QED BY <1>1, <1>4, <2>1, <2>10, <2>11, PushedLoops DEF d, s
<1>8. CASE RestoreClient \/ CopyCounts
  <2>1. Push(<<>>) BY <1>8 DEF RestoreClient, CopyCounts
  <2>2. <<>> \in Seq(GoodCall) /\ \A c \in 1..Len(<<>>) : FALSE BY EmptySeq
  <2> QED BY <1>1, <1>4, <2>1, <2>2, PushedLoops
<1> QED BY <1>5, <1>6, <1>7, <1>8

LEMMA LoopStep ==
  TypeInv /\ SwitchInv /\ LoopInv /\ PlaceInv /\ [Next]_vars => LoopInv' /\ PlaceInv'
<1> SUFFICES ASSUME TypeInv, SwitchInv, LoopInv, PlaceInv, [Next]_vars
             PROVE  LoopInv' /\ PlaceInv'
  OBVIOUS
<1>1. CASE IgnoreNote \/ Suppress \/ AttachNote \/ AddError
  <2> DEFINE d == agenda[1].d
             s == IF IgnoreNote THEN <<>> ELSE SuppressionErrors(d)
  <2>1. agenda # <<>> /\ d \in DiagType BY <1>1, ConsumerCalls
  <2>2. file' = file BY <1>1 DEF IgnoreNote, Suppress, AttachNote, AddError
  <2>3. CASE IgnoreNote
    <3>1. Push(<<>>) BY <2>3 DEF IgnoreNote
    <3>2. <<>> \in Seq(GoodCall) /\ \A c \in 1..Len(<<>>) : FALSE BY EmptySeq
    <3>3. LoopInv' /\ (file = 0 => \A c \in 1..Len(agenda') : agenda'[c].d.loc = NoLoc)
      BY <2>1, <3>1, <3>2, PushedLoops
    <3> QED BY <2>2, <3>3, PlacesOfErrors DEF PlaceInv
  <2>4. CASE Suppress \/ AttachNote \/ AddError
    <3>1. Push(SuppressionErrors(d)) BY <2>4 DEF Suppress, AttachNote, AddError
    <3>2. SuppressionErrors(d) \in Seq(GoodCall) BY <2>1, SuppressionErrorsGood
    <3>3. \A l : /\ Dispatch(NoLintError(d, l)).op = "dispatch"
                 /\ Dispatch(NoLintError(d, l)).d.name = NoLintCheck
      BY DEF Dispatch, NoLintError, Diag
    <3>4. \A c \in 1..Len(SuppressionErrors(d)) :
            /\ SuppressionErrors(d)[c].op = "dispatch"
            /\ SuppressionErrors(d)[c].d.name = NoLintCheck
      <4>1. \A c \in 1..Len(SuppressionErrors(d)) :
              SuppressionErrors(d)[c] \in {Dispatch(NoLintError(d, l)) : l \in Locs}
        BY <2>1, SuppressionErrorsType
      <4> HIDE DEF d
      <4> QED BY <3>3, <4>1
    <3>5. \A c \in 1..Len(SuppressionErrors(d)) : d.loc # NoLoc
      <4>1. CASE ReadsBlocks(d)
        <5>1. d.loc \in Locs BY <4>1 DEF ReadsBlocks, Silenceable
        <5> QED BY <5>1, LocsAssumption
      <4>2. CASE ~ReadsBlocks(d)
        <5>1. SuppressionErrors(d) = <<>> BY <4>2 DEF SuppressionErrors
        <5> QED BY <5>1, EmptySeq
      <4> QED BY <4>1, <4>2
    <3>6. LoopInv' /\ (file = 0 => \A c \in 1..Len(agenda') : agenda'[c].d.loc = NoLoc)
      BY <2>1, <3>1, <3>2, <3>4, <3>5, PushedLoops
    <3> QED BY <2>2, <3>6, PlacesOfErrors DEF PlaceInv
  <2> QED BY <1>1, <2>3, <2>4
<1>2. CASE Take
  <2>1. agenda' = agenda /\ file' = file BY <1>2 DEF Take
  <2> QED BY <2>1, PlacesOfErrors DEF LoopInv, PlaceInv
<1>3. CASE UNCHANGED vars BY <1>3 DEF vars, LoopInv, PlaceInv
<1> QED BY <1>1, <1>2, <1>3, LoopMoves, OutsideLoops DEF Next, Step

\* No filter drops an error at a place and of a name that every file shows.
LEMMA VisibleKept ==
  ASSUME TypeInv, FileInv, FlagsInv, PlaceInv, ~taken, NEW i \in 1..Len(errors),
         Visible(errors[i].name, errors[i].loc)
  PROVE  i \in 1..Len(Settled)
<1> DEFINE e == errors[i]
           n == Len(errors)
<1>1. errors \in Seq(ErrorType) /\ n \in Nat /\ e \in ErrorType /\ errors # <<>>
  BY ErrorsTyped
<1>2. Len(Settled) \in Nat BY SettledType DEF TypeInv
<1>3. CASE i # n
  <2>1. Len(Settled) = n \/ Len(Settled) = n - 1
    <3>1. CASE Verdict = "displayed" BY <3>1 DEF Settled
    <3>2. CASE Verdict # "displayed"
      <4>1. Settled = SubSeq(errors, 1, Len(errors) - 1) BY <1>1, <3>2 DEF Settled
      <4> QED BY <1>1, <4>1, ButLast
    <3> QED BY <3>1, <3>2
  <2> QED BY <1>1, <1>2, <1>3, <2>1
<1>4. CASE i = n
  <2>1. Pending /\ LastError = e BY <1>1, <1>4 DEF Pending, LastError
  <2>2. e.loc \in Locs /\ e.loc \in LineOK /\ e.loc \notin SystemLocs /\ e.loc \notin NoFileLocs
    BY LocsAssumption DEF Visible
  <2>3. e.tu # 0
    <3>1. e.loc # NoLoc BY <2>2, LocsAssumption
    <3> QED BY <3>1 DEF PlaceInv
  <2>4. e.tu \in 1..NumFiles /\ file \in 1..NumFiles
    <3>1. e.tu \in 0..NumFiles /\ file \in 0..NumFiles /\ NumFiles \in Nat
      BY <1>1, FilesAssumption DEF ErrorType, TypeInv, TypeOK, Files
    <3>2. e.tu <= file BY DEF FileInv
    <3> QED BY <2>3, <3>1, <3>2
  <2>5. e.loc \in MainLocs[e.tu] /\ e.name \in Enabled[file] BY <2>4 DEF Visible
  <2>6. e.loc \in Places BY <2>1 DEF Places
  <2>7. relates
    <3>1. UserIn(LastError.tu, OwnHeader, OwnExclude, e.loc) BY <2>1, <2>2, <2>5 DEF UserIn
    <3> QED BY <2>1, <2>6, <3>1 DEF FlagsInv
  <2>8. passes
    <3>1. LineIn(LastError.tu, e.loc) BY <2>2 DEF LineIn
    <3> QED BY <2>1, <2>6, <3>1 DEF FlagsInv
  <2>9. Verdict = "displayed" BY <2>1, <2>5, <2>7, <2>8 DEF Verdict, Disabled
  <2>10. Settled = errors BY <2>9 DEF Settled
  <2> QED BY <2>10
<1> QED BY <1>3, <1>4

\* What was owed is still owed, if the call on top passes its debt on.
LEMMA StillOwed ==
  ASSUME TypeInv, agenda # <<>>, NEW s \in Seq(GoodCall), Push(s), NEW e, NEW k,
         \E c \in 1..Len(agenda) : Owes(agenda[c], e, k),
         Owes(agenda[1], e, k) => \E c \in 1..Len(s) : Owes(s[c], e, k)
  PROVE  \E c \in 1..Len(agenda') : Owes(agenda'[c], e, k)
<1> DEFINE n == Len(s)
           m == Len(agenda)
<1>1. /\ n \in Nat /\ m \in Nat \ {0}
      /\ Len(agenda') = n + m - 1
      /\ \A c \in 1..n : agenda'[c] = s[c]
      /\ \A c \in 1..m : c >= 2 => agenda'[n + c - 1] = agenda[c]
  <2>1. agenda \in Seq(GoodCall) BY DEF TypeInv
  <2> QED BY <2>1, Pushed
<1>2. PICK c \in 1..m : Owes(agenda[c], e, k) OBVIOUS
<1> HIDE DEF n, m
<1>3. CASE c = 1
  <2>1. PICK b \in 1..n : Owes(s[b], e, k) BY <1>2, <1>3 DEF n
  <2>2. b \in 1..Len(agenda') /\ agenda'[b] = s[b] BY <1>1, <2>1
  <2> QED BY <2>1, <2>2
<1>4. CASE c # 1
  <2>1. c >= 2 /\ n + c - 1 \in 1..Len(agenda') BY <1>1, <1>4
  <2>2. agenda'[n + c - 1] = agenda[c] BY <1>1, <2>1
  <2> QED BY <1>2, <2>1, <2>2
<1> QED BY <1>3, <1>4

\* The steps that change no error.
LEMMA OwedMoves ==
  ASSUME TypeInv, OwedInv,
         Deliver \/ EmitAlternative \/ RestoreClient \/ CopyCounts \/ IgnoreNote \/ Suppress,
         SwitchInv
  PROVE  OwedInv'
<1> DEFINE d == agenda[1].d
<1>1. agenda # <<>> /\ errors' = errors
  BY DEF Deliver, EmitAlternative, RestoreClient, CopyCounts, IgnoreNote, Suppress, Handled, Calls
<1>2. d \in DiagType BY <1>1, TopIsGood
<1>3. SUFFICES ASSUME NEW i \in 1..Len(errors), NEW k \in DOMAIN MappingItems,
                      Mapped(errors[i], k), Owed(i, k)
               PROVE  \E c \in 1..Len(agenda') : Owes(agenda'[c], errors[i], k)
  BY <1>1 DEF OwedInv, AddedAfter, Owed
<1>4. \E c \in 1..Len(agenda) : Owes(agenda[c], errors[i], k) BY <1>3 DEF Owed
<1>5. CASE Deliver
  <2> DEFINE s == IF client = "mapping" THEN MappingCalls(d) ELSE <<Consume(d)>>
  <2>1. /\ Consume(d) \in GoodCall /\ Sync(d) \in GoodCall
        /\ Alts(d, AltsOf(d.name)) \in GoodCall
    BY <1>2, GoodCalls
  <2>2. Push(s) BY <1>5 DEF Deliver
  <2>3. agenda[1].op = "dispatch" BY <1>5 DEF Deliver, Calls
  <2>4. Owes(agenda[1], errors[i], k) => Owes(Consume(d), errors[i], k)
    BY <2>3 DEF Owes, Consume, Serving
  <2> HIDE DEF d
  <2>5. s \in Seq(GoodCall) /\ Len(s) \in Nat /\ s # <<>> /\ s[1] = Consume(d)
    BY <2>1, LenProperties DEF MappingCalls
  <2> HIDE DEF s
  <2>6. 1 \in 1..Len(s)
    <3>1. Len(s) # 0 BY <2>5, EmptySeq
    <3> QED BY <2>5, <3>1
  <2> QED BY <1>1, <1>4, <2>2, <2>4, <2>5, <2>6, StillOwed
<1>6. CASE EmitAlternative
  <2> DEFINE j == Lowest(agenda[1].left)
             a == Alternative(d, j)
             l == Alts(d, agenda[1].left \ {j})
             s == <<Dispatch(a), l>>
  <2>1. Push(s) /\ agenda[1].op = "alts" BY <1>6 DEF EmitAlternative, Calls
  <2>2. /\ agenda[1].left # {} /\ agenda[1].left \subseteq DOMAIN MappingItems
        /\ \A x \in agenda[1].left : Complete(x)
    BY <1>1, <1>6, TopIsGood DEF EmitAlternative
  <2>3. j \in agenda[1].left BY <2>2, LowestIsIn
  <2>4. a \in DiagType BY <1>2, <2>2, <2>3, AlternativeType
  <2>5. Dispatch(a) \in GoodCall BY <2>4, GoodCalls
  <2>6. l \in GoodCall
    <3>1. agenda[1].left \ {j} \in SUBSET DOMAIN MappingItems BY <2>2
    <3>2. \A x \in agenda[1].left \ {j} : Complete(x) BY <2>2
    <3> QED BY <1>2, <3>1, <3>2, GoodCalls
  <2>7. /\ Dispatch(a).op = "dispatch" /\ Dispatch(a).d = a
        /\ l.op = "alts" /\ l.d = d /\ l.left = agenda[1].left \ {j}
    BY DEF Dispatch, Alts
  <2>8. /\ a.root = d.root /\ a.loc = d.loc /\ a.level = "warning" /\ a.gen = d.gen + 1
        /\ a.name = MappingItems[j].alt
    BY DEF Alternative, Diag
  <2> HIDE DEF a, l, j
  <2>9. Owes(agenda[1], errors[i], k) => Owes(Dispatch(a), errors[i], k) \/ Owes(l, errors[i], k)
    <3> SUFFICES ASSUME Owes(agenda[1], errors[i], k)
                 PROVE  Owes(Dispatch(a), errors[i], k) \/ Owes(l, errors[i], k)
      OBVIOUS
    <3>1. /\ d.root = errors[i].root /\ d.loc = errors[i].loc /\ d.gen = 0
          /\ k \in agenda[1].left
      BY <2>1 DEF Owes, Serving
    <3>2. CASE k = j BY <2>7, <2>8, <3>1, <3>2 DEF Owes, Serving
    <3>3. CASE k # j BY <2>7, <3>1, <3>3 DEF Owes
    <3> QED BY <3>2, <3>3
  <2>10. s \in Seq(GoodCall) /\ Len(s) = 2 /\ s[1] = Dispatch(a) /\ s[2] = l
    BY <2>5, <2>6
  <2> HIDE DEF s
  <2>11. 1 \in 1..Len(s) /\ 2 \in 1..Len(s) BY <2>10
  <2>12. Owes(agenda[1], errors[i], k) => \E c \in 1..Len(s) : Owes(s[c], errors[i], k)
    BY <2>9, <2>10, <2>11
  <2> QED BY <1>1, <1>4, <2>1, <2>10, <2>12, StillOwed DEF s
<1>7. CASE RestoreClient \/ CopyCounts \/ IgnoreNote
  <2>1. Push(<<>>) /\ <<>> \in Seq(GoodCall)
    BY <1>7, EmptySeq DEF RestoreClient, CopyCounts, IgnoreNote
  <2>2. ~Owes(agenda[1], errors[i], k)
    BY <1>7 DEF RestoreClient, CopyCounts, IgnoreNote, Calls, Owes, Serving
  <2> QED BY <1>1, <1>4, <2>1, <2>2, StillOwed
<1>8. CASE Suppress
  <2>1. Push(SuppressionErrors(d)) /\ SuppressedBy(d) BY <1>8 DEF Suppress
  <2>2. SuppressionErrors(d) \in Seq(GoodCall) BY <1>2, SuppressionErrorsGood
  <2>3. ~Owes(agenda[1], errors[i], k)
    <3> SUFFICES ASSUME Owes(agenda[1], errors[i], k) PROVE FALSE OBVIOUS
    <3>1. agenda[1].op = "consume" BY <1>8 DEF Suppress, Handled, Calls
    <3>2. d.name = MappingItems[k].alt /\ d.loc = errors[i].loc BY <3>1 DEF Owes
    <3>3. d.loc \in Locs /\ d.name \in LineNoLint[d.loc] \cup BlockNoLint[d.loc]
      BY <2>1 DEF SuppressedBy, OnLine, Silenceable
    <3> QED BY <1>3, <3>2, <3>3 DEF Mapped, Visible
  <2> QED BY <1>1, <1>4, <2>1, <2>2, <2>3, StillOwed
<1> QED BY <1>5, <1>6, <1>7, <1>8

\* A new error is owed its alternatives by the loop below it, and settles what is owed
\* to an older one.
LEMMA OwedAdded ==
  ASSUME TypeInv, FileInv, FlagsInv, LoopInv, PlaceInv, OwedInv, ~taken, AddError
  PROVE  OwedInv'
<1> DEFINE d == agenda[1].d
           x == NewError(d)
           m == Len(Settled)
<1>1. /\ agenda # <<>> /\ d \in DiagType /\ d.level # "note"
      /\ m \in Nat /\ Len(errors') = m + 1
      /\ \A i \in 1..m : errors'[i] = Settled[i]
      /\ errors'[m + 1] = x
  BY ErrorAdded
<1>2. /\ Len(errors) \in Nat /\ m <= Len(errors)
      /\ \A i \in 1..m : Settled[i] = errors[i]
  BY SettledType DEF TypeInv
<1>3. \A i \in 1..m : i \in 1..Len(errors) /\ errors'[i] = errors[i] BY <1>1, <1>2
<1>4. Push(SuppressionErrors(d)) /\ ~SuppressedBy(d) /\ agenda[1].op = "consume"
  BY DEF AddError, Handled, Calls
<1>5. SuppressionErrors(d) \in Seq(GoodCall) BY <1>1, SuppressionErrorsGood
<1>6. /\ x.gen = d.gen /\ x.root = d.root /\ x.loc = d.loc /\ x.name = ErrorName(d)
  BY DEF NewError
<1>7. d.name # "" => ErrorName(d) = d.name BY DEF ErrorName
<1> HIDE DEF x, m
<1> SUFFICES ASSUME NEW i \in 1..Len(errors'), NEW k \in DOMAIN MappingItems,
                    Mapped(errors'[i], k)
             PROVE  AddedAfter(i, k)' \/ Owed(i, k)'
  BY DEF OwedInv
<1>8. CASE i # m + 1
  <2>1. i \in 1..m /\ errors'[i] = errors[i] /\ i \in 1..Len(errors) BY <1>1, <1>3, <1>8
  <2>2. AddedAfter(i, k) \/ Owed(i, k) BY <2>1 DEF OwedInv
  <2>3. Visible(MappingItems[k].alt, errors[i].loc) BY <2>1 DEF Mapped
  <2>4. CASE AddedAfter(i, k)
    <3>1. PICK j \in (i + 1)..Len(errors) : Added(errors[j], errors[i], k)
      BY <2>4 DEF AddedAfter
    <3>2. j \in 1..Len(errors) BY <1>2, <2>1, <3>1
    <3>3. Visible(errors[j].name, errors[j].loc) BY <2>3, <3>1 DEF Added
    <3>4. j \in 1..m BY <3>2, <3>3, VisibleKept DEF m
    <3>5. errors'[j] = errors[j] /\ j \in (i + 1)..Len(errors') BY <1>1, <1>3, <3>1, <3>4
    <3> QED BY <2>1, <3>1, <3>5 DEF AddedAfter
  <2>5. CASE Owed(i, k)
    <3>1. \E c \in 1..Len(agenda) : Owes(agenda[c], errors[i], k) BY <2>5 DEF Owed
    <3>2. CASE Owes(agenda[1], errors[i], k)
      <4>1. /\ d.root = errors[i].root /\ d.loc = errors[i].loc /\ d.gen = 1
            /\ d.name = MappingItems[k].alt
        BY <1>4, <3>2 DEF Owes
      <4>2. d.name # "" BY <2>3, <4>1 DEF Visible
      <4>3. Added(x, errors[i], k) BY <1>6, <1>7, <4>1, <4>2 DEF Added
      <4>4. m + 1 \in (i + 1)..Len(errors') BY <1>1, <2>1
      <4> QED BY <1>1, <2>1, <4>3, <4>4 DEF AddedAfter
    <3>3. CASE ~Owes(agenda[1], errors[i], k)
      <4>1. \E c \in 1..Len(agenda') : Owes(agenda'[c], errors[i], k)
        BY <1>1, <1>4, <1>5, <3>1, <3>3, StillOwed
      <4> QED BY <2>1, <4>1 DEF Owed
    <3> QED BY <3>2, <3>3
  <2> QED BY <2>2, <2>4, <2>5
<1>9. CASE i = m + 1
  <2>1. errors'[i] = x BY <1>1, <1>9
  <2>2. d.gen = 0 /\ x.name \notin Unmapped /\ k \in AltsOf(x.name)
    BY <1>6, <2>1 DEF Mapped
  <2>3. d.name # ""
    <3> SUFFICES ASSUME d.name = "" PROVE FALSE OBVIOUS
    <3>1. d.level \in {"error", "warning", "remark"} BY <1>1 DEF DiagType, Levels
    <3>2. ErrorName(d) \in ClangNames BY <3>1 DEF ErrorName, ClangNames
    <3> QED BY <1>6, <2>2, <3>2 DEF Unmapped
  <2>4. x.name = d.name /\ d.name # NoLintCheck /\ k \in AltsOf(d.name)
    BY <1>6, <1>7, <2>2, <2>3 DEF Unmapped
  <2>5. 1 \in 1..Len(agenda)
    <3>1. Len(agenda) \in Nat \ {0} BY <1>1, EmptySeq DEF TypeInv
    <3> QED BY <3>1
  <2>6. 1 + 1 \in 1..Len(agenda) /\ agenda[1 + 1] = Alts(d, AltsOf(d.name))
    BY <1>4, <2>2, <2>4, <2>5 DEF LoopInv
  <2>7. Owes(Alts(d, AltsOf(d.name)), x, k) BY <1>6, <2>2, <2>4 DEF Owes, Alts
  <2>8. \E c \in 1..Len(agenda) : Owes(agenda[c], x, k) BY <2>6, <2>7
  <2>9. ~Owes(agenda[1], x, k) BY <1>4, <2>2 DEF Owes
  <2>10. \E c \in 1..Len(agenda') : Owes(agenda'[c], x, k)
    BY <1>1, <1>4, <1>5, <2>8, <2>9, StillOwed
  <2> QED BY <2>1, <2>10 DEF Owed
<1> QED BY <1>8, <1>9

LEMMA OwedStep ==
  TypeInv /\ OwnerInv /\ FileInv /\ FlagsInv /\ SwitchInv /\ LoopInv /\ PlaceInv /\ OwedInv
    /\ [Next]_vars => OwedInv'
<1> SUFFICES ASSUME TypeInv, OwnerInv, FileInv, FlagsInv, SwitchInv, LoopInv, PlaceInv,
                    OwedInv, [Next]_vars
             PROVE  OwedInv'
  OBVIOUS
<1>1. CASE StartFile \/ ReportDiag \/ ReportNote
  <2>1. agenda = <<>> /\ errors' = errors BY <1>1 DEF StartFile, ReportDiag, ReportNote, Idle
  <2>2. \A c \in 1..Len(agenda) : FALSE BY <2>1, EmptySeq
  <2> QED BY <2>1, <2>2 DEF OwedInv, AddedAfter, Owed
<1>2. CASE AddError
  <2>1. ~taken
    <3>1. agenda # <<>> BY <1>2 DEF AddError, Handled, Calls
    <3> QED BY <3>1 DEF OwnerInv
  <2> QED BY <1>2, <2>1, OwedAdded
<1>3. CASE AttachNote
  <2> DEFINE d == agenda[1].d
  <2>1. agenda # <<>> /\ d.level = "note" /\ agenda[1].op = "consume"
        /\ Push(SuppressionErrors(d))
    BY <1>3 DEF AttachNote, Handled, Calls
  <2>2. SuppressionErrors(d) \in Seq(GoodCall)
    <3>1. d \in DiagType BY <2>1, TopIsGood
    <3> QED BY <3>1, SuppressionErrorsGood
  <2>3. /\ Len(errors') = Len(errors) /\ Len(errors) \in Nat
        /\ \A i \in 1..Len(errors) :
              /\ errors'[i].gen = errors[i].gen /\ errors'[i].root = errors[i].root
              /\ errors'[i].name = errors[i].name /\ errors'[i].loc = errors[i].loc
    BY <1>3, NoteKeepsFields
  <2> SUFFICES ASSUME NEW i \in 1..Len(errors), NEW k \in DOMAIN MappingItems,
                      Mapped(errors'[i], k)
               PROVE  AddedAfter(i, k)' \/ Owed(i, k)'
    BY <2>3 DEF OwedInv
  <2>4. Mapped(errors[i], k) BY <2>3 DEF Mapped
  <2>5. CASE AddedAfter(i, k)
    <3>1. PICK j \in (i + 1)..Len(errors) : Added(errors[j], errors[i], k)
      BY <2>5 DEF AddedAfter
    <3>2. j \in 1..Len(errors) BY <2>3, <3>1
    <3>3. Added(errors'[j], errors'[i], k) BY <2>3, <3>1, <3>2 DEF Added
    <3> QED BY <2>3, <3>1, <3>3 DEF AddedAfter
  <2>6. CASE Owed(i, k)
    <3>1. ~Owes(agenda[1], errors[i], k) BY <2>1 DEF Owes
    <3>2. \E c \in 1..Len(agenda) : Owes(agenda[c], errors[i], k) BY <2>6 DEF Owed
    <3>3. PICK c \in 1..Len(agenda') : Owes(agenda'[c], errors[i], k)
      BY <2>1, <2>2, <3>1, <3>2, StillOwed
    <3>4. Owes(agenda'[c], errors'[i], k) BY <2>3, <3>3 DEF Owes
    <3> QED BY <3>4 DEF Owed
  <2> QED BY <2>4, <2>5, <2>6 DEF OwedInv
<1>4. CASE Take
  <2>1. errors' = Settled /\ agenda' = agenda /\ agenda = <<>> /\ ~taken
    BY <1>4 DEF Take, Idle
  <2>2. /\ Len(Settled) \in Nat /\ Len(Settled) <= Len(errors) /\ Len(errors) \in Nat
        /\ \A i \in 1..Len(Settled) : Settled[i] = errors[i]
    BY SettledType DEF TypeInv
  <2>3. \A c \in 1..Len(agenda) : FALSE BY <2>1, EmptySeq
  <2> SUFFICES ASSUME NEW i \in 1..Len(Settled), NEW k \in DOMAIN MappingItems,
                      Mapped(Settled[i], k)
               PROVE  AddedAfter(i, k)'
    BY <2>1 DEF OwedInv
  <2>4. i \in 1..Len(errors) /\ errors'[i] = errors[i] BY <2>1, <2>2
  <2>5. Mapped(errors[i], k) BY <2>2
  <2>6. AddedAfter(i, k) BY <2>3, <2>4, <2>5 DEF OwedInv, Owed
  <2>7. PICK j \in (i + 1)..Len(errors) : Added(errors[j], errors[i], k)
    BY <2>6 DEF AddedAfter
  <2>8. j \in 1..Len(errors) BY <2>2, <2>7
  <2>9. Visible(errors[j].name, errors[j].loc) BY <2>5, <2>7 DEF Added, Mapped
  <2>10. j \in 1..Len(Settled) BY <2>1, <2>8, <2>9, VisibleKept
  <2>11. errors'[j] = errors[j] /\ j \in (i + 1)..Len(errors') BY <2>1, <2>2, <2>7, <2>10
  <2> QED BY <2>4, <2>7, <2>11 DEF AddedAfter
<1>5. CASE UNCHANGED vars BY <1>5 DEF vars, OwedInv, AddedAfter, Owed
<1> QED BY <1>1, <1>2, <1>3, <1>4, <1>5, OwedMoves DEF Next, Step

LEMMA InitOwed == Init => LoopInv /\ PlaceInv /\ OwedInv
<1> SUFFICES ASSUME Init PROVE LoopInv /\ PlaceInv /\ OwedInv OBVIOUS
<1>1. agenda = <<>> /\ errors = <<>> BY DEF Init
<1>2. (\A c \in 1..Len(agenda) : FALSE) /\ (\A i \in 1..Len(errors) : FALSE)
  BY <1>1, EmptySeq
<1> QED BY <1>2 DEF LoopInv, PlaceInv, OwedInv

\* The mapping adds every alternative of every original that is recorded, whatever
\* names the items map, in circles or not, whatever the NOLINT reader reports between
\* them, and whichever of the diagnostics around them the filters drop.
THEOREM AlternativesAreAdded == Spec => []AlternativesComplete
<1>1. TypeInv /\ OwedInv => AlternativesComplete
  <2> SUFFICES ASSUME TypeInv, OwedInv, Idle, NEW i \in DOMAIN errors, errors[i].gen = 0,
                      errors[i].name \notin Unmapped, NEW k \in DOMAIN MappingItems,
                      MappingItems[k].orig = errors[i].name,
                      Visible(MappingItems[k].alt, errors[i].loc)
               PROVE  \E j \in (i + 1)..Len(errors) :
                        /\ errors[j].gen = 1 /\ errors[j].root = errors[i].root
                        /\ errors[j].name = MappingItems[k].alt /\ errors[j].loc = errors[i].loc
    BY DEF AlternativesComplete
  <2>1. i \in 1..Len(errors) /\ errors[i] \in ErrorType BY ErrorsTyped
  <2>2. MappingItems[k].orig # Absent BY <2>1, NamesAssumption DEF ErrorType
  <2>3. k \in AltsOf(errors[i].name) BY <2>2 DEF AltsOf, Complete, Visible
  <2>4. \A c \in 1..Len(agenda) : FALSE BY EmptySeq DEF Idle
  <2>5. AddedAfter(i, k) BY <2>1, <2>3, <2>4 DEF OwedInv, Mapped, Owed
  <2> QED BY <2>5 DEF AddedAfter, Added
<1> QED BY <1>1, InitTypeInv, TypeInvStep, InitOwner, OwnerInvStep, InitFilters, FileStep,
           FlagsStep, InitSwitch, SwitchStep, InitOwed, LoopStep, OwedStep, PTL DEF Spec

-----------------------------------------------------------------------------
\* Upgrades.

\* What is reported and what is recorded has one of the pairs of a name and a level
\* that Recordable lists.
LevelInv ==
  /\ \A c \in 1..Len(agenda) : agenda[c].d.level # "note" => Named(agenda[c].d) \in Recordable
  /\ \A i \in 1..Len(errors) :
       /\ <<errors[i].name, errors[i].level>> \in Recordable
       /\ errors[i].asError <=> /\ errors[i].level = "warning"
                                /\ errors[i].name \in AsErrors[errors[i].tu]

LEMMA PushedLevels ==
  ASSUME TypeInv, LevelInv, agenda # <<>>, NEW s \in Seq(GoodCall), Push(s),
         \A c \in 1..Len(s) :
            s[c].d.level # "note" => s[c].d = agenda[1].d \/ Named(s[c].d) \in Recordable
  PROVE  \A c \in 1..Len(agenda') :
            agenda'[c].d.level # "note" => Named(agenda'[c].d) \in Recordable
<1> DEFINE n == Len(s)
           m == Len(agenda)
           Fine(d) == d.level # "note" => Named(d) \in Recordable
<1>1. /\ n \in Nat /\ m \in Nat \ {0}
      /\ \A c \in 1..n : agenda'[c] = s[c]
      /\ \A c \in 1..Len(agenda') :
           c > n => c - n + 1 \in 2..m /\ agenda'[c] = agenda[c - n + 1]
      /\ Len(agenda') \in Nat
  <2>1. agenda \in Seq(GoodCall) BY DEF TypeInv
  <2> QED BY <2>1, Pushed, LenProperties
<1>2. \A c \in 1..m : Fine(agenda[c].d) BY DEF LevelInv
<1>3. Fine(agenda[1].d)
  <2>1. 1 \in 1..m BY <1>1
  <2> QED BY <1>2, <2>1
<1>4. \A c \in 1..n : Fine(s[c].d) BY <1>3
<1> HIDE DEF n, m
<1> SUFFICES ASSUME NEW c \in 1..Len(agenda') PROVE Fine(agenda'[c].d) OBVIOUS
<1> HIDE DEF Fine
<1>5. CASE c <= n
  <2>1. c \in 1..n BY <1>1, <1>5
  <2> QED BY <1>1, <1>4, <2>1
<1>6. CASE c > n
  <2>1. c - n + 1 \in 1..m /\ agenda'[c] = agenda[c - n + 1] BY <1>1, <1>6
  <2> QED BY <1>2, <2>1
<1> QED BY <1>1, <1>5, <1>6

\* Calls from outside.
LEMMA OutsideLevels ==
  ASSUME TypeInv, StartFile \/ ReportDiag \/ ReportNote
  PROVE  \A c \in 1..Len(agenda') :
            agenda'[c].d.level # "note" => Named(agenda'[c].d) \in Recordable
<1>0. \A d : d.name # "" => Named(d) = <<d.name, d.level>> BY DEF Named, ErrorName
<1>1. CASE StartFile
  <2> DEFINE c == ConfigDiags[file + 1]
  <2>1. agenda' = [k \in 1..Len(c) |-> Dispatch(ConfigDiag(c[k]))] BY <1>1 DEF StartFile
  <2>2. Len(c) \in Nat
    <3>1. file + 1 \in Files
      <4>1. NumFiles \in Nat BY FilesAssumption
      <4>2. file \in 0..NumFiles BY DEF TypeInv, TypeOK, Files
      <4>3. file < NumFiles BY <1>1 DEF StartFile
      <4> QED BY <4>1, <4>2, <4>3 DEF Files
    <3>2. c \in Seq(Texts) BY <3>1, FilesAssumption
    <3> QED BY <3>2, LenProperties
  <2> HIDE DEF c
  <2>3. Len(agenda') = Len(c) BY <2>1, <2>2
  <2>4. \A x : /\ Dispatch(ConfigDiag(x)).d.name = ConfigCheck
               /\ Dispatch(ConfigDiag(x)).d.level = "warning"
    BY DEF Dispatch, ConfigDiag, Diag
  <2>5. ConfigCheck # "" BY DEF ConfigCheck
  <2>6. \A x : Named(Dispatch(ConfigDiag(x)).d) \in Recordable
    BY <1>0, <2>4, <2>5 DEF Recordable
  <2> QED BY <2>1, <2>3, <2>6
<1>2. CASE ReportDiag
  <2>1. PICK i \in Inputs :
          agenda' = <<Dispatch(Diag(nextId, 0, i.name, i.level, i.loc, i.text))>>
    BY <1>2 DEF ReportDiag, Reportable
  <2> DEFINE x == Diag(nextId, 0, i.name, i.level, i.loc, i.text)
  <2>2. x.name = i.name /\ x.level = i.level BY DEF Diag
  <2>3. agenda' = <<Dispatch(x)>> BY <2>1
  <2> HIDE DEF x
  <2>4. Named(x) = Named(i) BY <2>2 DEF Named, ErrorName
  <2>5. Named(x) \in Recordable BY <2>4 DEF Recordable
  <2>6. \A c \in 1..Len(agenda') : agenda'[c].d = x BY <2>3 DEF Dispatch
  <2> QED BY <2>5, <2>6
<1>3. CASE ReportNote
  <2>1. \E r, n, l : agenda' = <<Dispatch(Diag(r, 0, n, "note", l, "note"))>>
    BY <1>3 DEF ReportNote
  <2>2. \A c \in 1..Len(agenda') : agenda'[c].d.level = "note" BY <2>1 DEF Dispatch, Diag
  <2> QED BY <2>2
<1> QED BY <1>1, <1>2, <1>3

LEMMA LevelMoves ==
  TypeInv /\ LevelInv /\ Step
    => \A c \in 1..Len(agenda') : agenda'[c].d.level # "note" => Named(agenda'[c].d) \in Recordable
<1> SUFFICES ASSUME TypeInv, LevelInv, Step
             PROVE  \A c \in 1..Len(agenda') :
                      agenda'[c].d.level # "note" => Named(agenda'[c].d) \in Recordable
  OBVIOUS
<1> DEFINE d == agenda[1].d
<1>1. agenda # <<>>
  BY DEF Step, Deliver, EmitAlternative, RestoreClient, CopyCounts, IgnoreNote, Suppress,
         AttachNote, AddError, Handled, Calls
<1>2. d \in DiagType BY <1>1, TopIsGood
<1>3. CASE Deliver
  <2> DEFINE s == IF client = "mapping" THEN MappingCalls(d) ELSE <<Consume(d)>>
  <2>1. /\ Consume(d) \in GoodCall /\ Sync(d) \in GoodCall
        /\ Alts(d, AltsOf(d.name)) \in GoodCall
    BY <1>2, GoodCalls
  <2>2. Push(s) BY <1>3 DEF Deliver
  <2>3. Consume(d).d = d /\ Sync(d).d = d /\ \A S : Alts(d, S).d = d
    BY DEF Consume, Sync, Alts
  <2> HIDE DEF d
  <2>4. s \in Seq(GoodCall) BY <2>1 DEF MappingCalls
  <2>5. \A c \in 1..Len(s) : s[c].d = d BY <2>3 DEF MappingCalls
  <2> HIDE DEF s
  <2> QED BY <1>1, <2>2, <2>4, <2>5, PushedLevels DEF d
<1>4. CASE EmitAlternative
  <2> DEFINE k == Lowest(agenda[1].left)
             a == Alternative(d, k)
             l == Alts(d, agenda[1].left \ {k})
             s == <<Dispatch(a), l>>
  <2>1. Push(s) BY <1>4 DEF EmitAlternative
  <2>2. /\ agenda[1].left # {} /\ agenda[1].left \subseteq DOMAIN MappingItems
        /\ \A x \in agenda[1].left : Complete(x)
    BY <1>1, <1>4, TopIsGood DEF EmitAlternative
  <2>3. k \in agenda[1].left BY <2>2, LowestIsIn
  <2>4. a \in DiagType BY <1>2, <2>2, <2>3, AlternativeType
  <2>5. Dispatch(a) \in GoodCall BY <2>4, GoodCalls
  <2>6. l \in GoodCall
    <3>1. agenda[1].left \ {k} \in SUBSET DOMAIN MappingItems BY <2>2
    <3>2. \A x \in agenda[1].left \ {k} : Complete(x) BY <2>2
    <3> QED BY <1>2, <3>1, <3>2, GoodCalls
  <2>7. Dispatch(a).d = a /\ l.d = d BY DEF Dispatch, Alts
  <2>8. Named(a) \in Recordable
    <3> DEFINE r == [name |-> MappingItems[k].alt, level |-> "warning"]
    <3>1. a.name = r.name /\ a.level = r.level BY DEF Alternative, Diag
    <3>2. Complete(k) /\ k \in DOMAIN MappingItems BY <2>2, <2>3
    <3>3. Named(r) \in Recordable BY <3>2 DEF Recordable
    <3> HIDE DEF a, r
    <3>4. Named(a) = Named(r) BY <3>1 DEF Named, ErrorName
    <3> QED BY <3>3, <3>4
  <2> HIDE DEF a, d, l
  <2>9. s \in Seq(GoodCall) /\ \A c \in 1..Len(s) : s[c] = Dispatch(a) \/ s[c] = l
    BY <2>5, <2>6
  <2> HIDE DEF s
  <2>10. \A c \in 1..Len(s) : s[c].d = d \/ Named(s[c].d) \in Recordable
    BY <2>7, <2>8, <2>9
  <2> QED BY <1>1, <2>1, <2>9, <2>10, PushedLevels DEF d, s
<1>5. CASE RestoreClient \/ CopyCounts \/ IgnoreNote
  <2>1. Push(<<>>) BY <1>5 DEF RestoreClient, CopyCounts, IgnoreNote
  <2>2. <<>> \in Seq(GoodCall) /\ \A c \in 1..Len(<<>>) : FALSE BY EmptySeq
  <2> QED BY <1>1, <2>1, <2>2, PushedLevels
<1>6. CASE Suppress \/ AttachNote \/ AddError
  <2>1. Push(SuppressionErrors(d)) BY <1>6 DEF Suppress, AttachNote, AddError
  <2>2. SuppressionErrors(d) \in Seq(GoodCall) BY <1>2, SuppressionErrorsGood
  <2>3. \A l : Named(Dispatch(NoLintError(d, l)).d) \in Recordable
    <3>1. \A l : Dispatch(NoLintError(d, l)).d = NoLintError(d, l) BY DEF Dispatch
    <3>2. \A l : NoLintError(d, l).name = NoLintCheck /\ NoLintError(d, l).level = "error"
      BY DEF NoLintError, Diag
    <3>3. NoLintCheck # "" BY DEF NoLintCheck
    <3>4. \A l : Named(NoLintError(d, l)) = <<NoLintCheck, "error">>
      BY <3>2, <3>3 DEF Named, ErrorName
    <3> QED BY <3>1, <3>4 DEF Recordable
  <2>4. \A c \in 1..Len(SuppressionErrors(d)) : Named(SuppressionErrors(d)[c].d) \in Recordable
    <3>1. \A c \in 1..Len(SuppressionErrors(d)) :
            SuppressionErrors(d)[c] \in {Dispatch(NoLintError(d, l)) : l \in Locs}
      BY <1>2, SuppressionErrorsType
    <3> HIDE DEF d
    <3> QED BY <2>3, <3>1
  <2> QED BY <1>1, <2>1, <2>2, <2>4, PushedLevels
<1> QED BY <1>3, <1>4, <1>5, <1>6 DEF Step

LEMMA LevelStep == TypeInv /\ LevelInv /\ [Next]_vars => LevelInv'
<1> SUFFICES ASSUME TypeInv, LevelInv, [Next]_vars PROVE LevelInv' OBVIOUS
<1> DEFINE Fits(e) == /\ <<e.name, e.level>> \in Recordable
                      /\ e.asError <=> e.level = "warning" /\ e.name \in AsErrors[e.tu]
<1>1. \A c \in 1..Len(agenda') :
        agenda'[c].d.level # "note" => Named(agenda'[c].d) \in Recordable
  <2>1. CASE agenda' = agenda BY <2>1 DEF LevelInv
  <2>2. CASE Take \/ UNCHANGED vars
    <3>1. agenda' = agenda BY <2>2 DEF Take, vars
    <3> QED BY <2>1, <3>1
  <2> QED BY <2>2, OutsideLevels, LevelMoves DEF Next
<1>2. /\ Settled \in Seq(ErrorType) /\ Len(Settled) \in Nat /\ Len(errors) \in Nat
      /\ Len(Settled) <= Len(errors)
      /\ \A i \in 1..Len(Settled) : Settled[i] = errors[i]
  BY SettledType DEF TypeInv
<1>3. \A i \in 1..Len(errors) : Fits(errors[i]) BY DEF LevelInv
<1>4. \A i \in 1..Len(Settled) : Fits(Settled[i])
  <2>1. \A i \in 1..Len(Settled) : i \in 1..Len(errors) BY <1>2
  <2> HIDE DEF Fits
  <2> QED BY <1>2, <1>3, <2>1
<1>5. \A i \in 1..Len(errors') : Fits(errors'[i])
  <2>1. CASE errors' = errors BY <1>3, <2>1
  <2>2. CASE Take
    <3>1. errors' = Settled BY <2>2 DEF Take
    <3> HIDE DEF Fits
    <3> QED BY <1>4, <3>1
  <2>3. CASE AddError
    <3> DEFINE d == agenda[1].d
    <3>1. /\ Len(errors') = Len(Settled) + 1
          /\ \A i \in 1..Len(Settled) : errors'[i] = Settled[i]
          /\ errors'[Len(Settled) + 1] = NewError(d)
          /\ agenda # <<>> /\ d.level # "note"
      BY <2>3, ErrorAdded
    <3>2. Named(d) \in Recordable
      <4>1. Len(agenda) \in Nat \ {0} BY <3>1, EmptySeq DEF TypeInv
      <4>2. 1 \in 1..Len(agenda) BY <4>1
      <4> QED BY <3>1, <4>2 DEF LevelInv
    <3> DEFINE x == NewError(d)
    <3>3. Fits(x)
      <4> DEFINE b == d.level = "warning" /\ ErrorName(d) \in AsErrors[file]
      <4>1. x = [root |-> d.root, gen |-> d.gen, tu |-> file, name |-> ErrorName(d),
                 level |-> d.level, loc |-> d.loc, text |-> d.text, notes |-> <<>>,
                 asError |-> b]
        BY DEF NewError
      <4> HIDE DEF x, b
      <4>2. x.name = ErrorName(d) /\ x.level = d.level /\ x.tu = file /\ x.asError = b
        BY <4>1
      <4>3. <<x.name, x.level>> \in Recordable BY <3>2, <4>2 DEF Named
      <4>4. b <=> x.level = "warning" /\ x.name \in AsErrors[x.tu] BY <4>2 DEF b
      <4> QED BY <4>2, <4>3, <4>4
    <3> HIDE DEF x, d, Fits
    <3>4. \A i \in 1..Len(errors') : i \in 1..Len(Settled) \/ i = Len(Settled) + 1
      BY <1>2, <3>1
    <3> QED BY <1>4, <3>1, <3>3, <3>4 DEF x
  <2>4. CASE AttachNote
    <3>1. /\ Len(errors') = Len(errors)
          /\ \A i \in 1..Len(errors) :
                /\ errors'[i].name = errors[i].name /\ errors'[i].level = errors[i].level
                /\ errors'[i].tu = errors[i].tu /\ errors'[i].asError = errors[i].asError
      BY <2>4, NoteKeepsFields
    <3> QED BY <1>3, <3>1
  <2>5. \/ errors' = errors \/ Take \/ AddError \/ AttachNote
    BY DEF Next, Step, vars, StartFile, ReportDiag, ReportNote, Deliver, EmitAlternative,
           RestoreClient, CopyCounts, IgnoreNote, Suppress
  <2> QED BY <2>1, <2>2, <2>3, <2>4, <2>5
<1> QED BY <1>1, <1>5 DEF LevelInv

\* When what bears one name at one place agrees in its upgrade, merging keeps it.
LEMMA MergeUpgrades ==
  ASSUME NEW s \in Seq(ErrorType), NEW i \in DOMAIN s, s[i].asError,
         \A j \in DOMAIN s : s[j].name = s[i].name => s[j].asError
  PROVE  \E r \in Merged(Unique(s)) : SamePlace(s[i], r.error) /\ r.asError
<1> DEFINE U == Unique(s)
<1>1. U \in SUBSET ErrorType BY OneOfEach
<1>2. PICK f \in U : SamePlace(s[i], f) /\ f.name = s[i].name BY OneOfEach
<1>3. f.asError
  <2>1. PICK j \in DOMAIN s : f = s[j] BY <1>2 DEF Unique
  <2> QED BY <1>2, <2>1
<1>4. PICK e \in Leaders(U) : SamePlace(f, e) BY <1>1, <1>2, LeaderOfEach
<1> DEFINE b == \E g \in U : SamePlace(e, g) /\ g.asError
           al == {g.name : g \in {g \in U : SamePlace(e, g)}} \ {e.name}
           r == [error |-> e, aliases |-> al, asError |-> b]
<1>5. r \in Merged(U) BY <1>4 DEF Merged
<1>6. b
  <2>1. SamePlace(e, f) BY <1>4 DEF SamePlace
  <2> QED BY <1>2, <1>3, <2>1
<1>7. SamePlace(s[i], e) BY <1>2, <1>4 DEF SamePlace
<1> HIDE DEF U, b, al
<1>8. r.error = e /\ r.asError = b OBVIOUS
<1> HIDE DEF r
<1>9. SamePlace(s[i], r.error) /\ r.asError BY <1>6, <1>7, <1>8
<1> QED BY <1>5, <1>9 DEF U

LEMMA UpgradeStep ==
  ASSUME Uniform
  PROVE  TypeInv /\ OwnerInv /\ LevelInv /\ AsErrorKept /\ [Next]_vars => AsErrorKept'
<1> SUFFICES ASSUME TypeInv, OwnerInv, LevelInv, AsErrorKept, [Next]_vars PROVE AsErrorKept'
  OBVIOUS
<1>1. CASE Take
  <2>1. errors' = Settled /\ report' = Merged(Unique(Settled)) BY <1>1 DEF Take
  <2>2. /\ Settled \in Seq(ErrorType) /\ Len(Settled) \in Nat /\ Len(errors) \in Nat
        /\ Len(Settled) <= Len(errors)
        /\ \A i \in 1..Len(Settled) : Settled[i] = errors[i]
    BY SettledType DEF TypeInv
  <2>3. DOMAIN Settled = 1..Len(Settled) BY <2>2, LenProperties
  <2>4. \A i \in DOMAIN Settled :
          /\ <<Settled[i].name, Settled[i].level>> \in Recordable
          /\ Settled[i].asError <=> /\ Settled[i].level = "warning"
                                    /\ Settled[i].name \in AsErrors[Settled[i].tu]
    <3>1. \A i \in DOMAIN Settled : i \in 1..Len(errors) /\ Settled[i] = errors[i]
      BY <2>2, <2>3
    <3> QED BY <3>1 DEF LevelInv
  <2>5. \A i \in DOMAIN Settled : Settled[i].tu \in Files
    <3>1. \A i \in DOMAIN Settled : Settled[i] \in ErrorType BY <2>2, <2>3, ElementOfSeq
    <3> QED BY <3>1 DEF ErrorType
  <2>6. ASSUME NEW i \in DOMAIN Settled, Settled[i].asError, NEW j \in DOMAIN Settled,
               Settled[j].name = Settled[i].name
        PROVE  Settled[j].asError
    <3>1. Settled[i].level = "warning" /\ Settled[i].name \in AsErrors[Settled[i].tu]
      BY <2>4, <2>6
    <3> DEFINE p == <<Settled[i].name, Settled[i].level>>
               q == <<Settled[j].name, Settled[j].level>>
    <3>2. p \in Recordable /\ q \in Recordable /\ p[1] = q[1] BY <2>4, <2>6
    <3>3. p[2] = q[2]
      <4> HIDE DEF p, q
      <4> QED BY <3>2 DEF Uniform
    <3>4. Settled[j].level = "warning" BY <3>1, <3>3
    <3>5. AsErrors[Settled[j].tu] = AsErrors[Settled[i].tu] BY <2>5 DEF Uniform
    <3> QED BY <2>4, <2>6, <3>1, <3>4, <3>5
  <2>7. \A i \in DOMAIN Settled : Settled[i].asError =>
           \E r \in Merged(Unique(Settled)) : SamePlace(Settled[i], r.error) /\ r.asError
    BY <2>2, <2>6, MergeUpgrades
  <2> QED BY <2>1, <2>7 DEF AsErrorKept, SamePlace
<1>2. CASE Next /\ ~Take
  <2>1. ~taken
    <3>1. taken => agenda = <<>> BY DEF OwnerInv
    <3>2. CASE StartFile \/ ReportDiag \/ ReportNote
      BY <3>2 DEF StartFile, ReportDiag, ReportNote
    <3>3. CASE Step
      BY <3>1, <3>3 DEF Step, Deliver, EmitAlternative, RestoreClient, CopyCounts, IgnoreNote,
                        Suppress, AttachNote, AddError, Handled, Calls
    <3> QED BY <1>2, <3>2, <3>3 DEF Next
  <2>2. taken' = taken
    BY <1>2 DEF Next, Step, StartFile, ReportDiag, ReportNote, Deliver, EmitAlternative,
                RestoreClient, CopyCounts, IgnoreNote, Suppress, AttachNote, AddError
  <2> QED BY <2>1, <2>2 DEF AsErrorKept
<1>3. CASE UNCHANGED vars BY <1>3 DEF vars, AsErrorKept, SamePlace
<1> QED BY <1>1, <1>2, <1>3

\* Where the files agree on what is upgraded, and no name is recorded on two levels,
\* the mapping adds all alternatives and the merge takes no upgrade back.
THEOREM MappingIsFaithful == ASSUME Uniform PROVE Spec => []MappingFaithful
<1>1. Init => LevelInv /\ AsErrorKept
  <2> SUFFICES ASSUME Init PROVE LevelInv /\ AsErrorKept OBVIOUS
  <2>1. agenda = <<>> /\ errors = <<>> /\ ~taken BY DEF Init
  <2>2. (\A c \in 1..Len(agenda) : FALSE) /\ (\A i \in 1..Len(errors) : FALSE)
    BY <2>1, EmptySeq
  <2> QED BY <2>1, <2>2 DEF LevelInv, AsErrorKept
<1>2. TypeInv /\ OwnerInv /\ LevelInv /\ AsErrorKept /\ [Next]_vars => AsErrorKept'
  BY UpgradeStep
<1>3. AlternativesComplete /\ AsErrorKept => MappingFaithful BY DEF MappingFaithful
<1> QED BY <1>1, <1>2, <1>3, InitTypeInv, TypeInvStep, InitOwner, OwnerInvStep, LevelStep,
           AlternativesAreAdded, PTL DEF Spec
=============================================================================
