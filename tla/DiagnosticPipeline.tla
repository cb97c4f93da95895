------------------------- MODULE DiagnosticPipeline -------------------------
(***************************************************************************)
(* The path of a diagnostic through clang-tidy-automotive: the diagnostics *)
(* engine hands it to ClangTidyDiagnosticMapping, which forwards it to     *)
(* ClangTidyDiagnosticConsumer and then reports the alternative            *)
(* diagnostics its mapping files name; the consumer suppresses it (NOLINT),*)
(* appends it to the last error (a note) or first settles the last error   *)
(* and pushes a new one.  runClangTidy feeds the translation units one     *)
(* after the other and ends with take().                                   *)
(*                                                                         *)
(* Everything runs on one thread, but handlers call each other: a handler  *)
(* reports further diagnostics through the engine while it runs.  `agenda' *)
(* is that call stack: the work still to do before the engine returns to   *)
(* the code that reported, next work first.  Diagnostics carry no fix-its  *)
(* here; FixConflicts models those.                                        *)
(***************************************************************************)
EXTENDS Integers, Sequences, FiniteSets

CONSTANTS
  NumFiles,     \* translation units 1..NumFiles; 0 stands for the file ""
  MaxDiags,     \* bound: diagnostics reported from outside the pipeline
  Texts,        \* message texts, told apart by take() alone
  Inputs,       \* what checks and compiler report: [name, level, loc, text]
  NoteLocs,     \* where their notes point
  LocsIn,       \* LocsIn[f]: the locations in the sources that f includes
  CompilerNames,\* getCheckName() of compiler diagnostics; "" without an option
  Rank,         \* the alphabetical order of diagnostic names, as numbers
  Locs,         \* valid source locations
  NoLoc,        \* an invalid location
  SystemLocs,   \* in a system header or a macro defined there
  NoFileLocs,   \* in a buffer without a file, such as the command line
  LineOK,       \* locations that pass the (global) line filter
  MainLocs,     \* MainLocs[f]: in the main file while f is analysed
  HeaderLocs,   \* HeaderLocs[f]: matched by f's HeaderFilterRegex
  ExcludeLocs,  \* ExcludeLocs[f]: matched by f's ExcludeHeaderFilterRegex
  ShowSystem,   \* files analysed with the option SystemHeaders
  Enabled,      \* Enabled[f]: diagnostics that f's Checks option enables
  AsErrors,     \* AsErrors[f]: those its WarningsAsErrors option matches
  ConfigDiags,  \* ConfigDiags[f]: one text per file extension list of f in error
  LineNoLint,   \* LineNoLint[l]: names a NOLINT(NEXTLINE) silences at l
  BlockNoLint,  \* BlockNoLint[l]: names a NOLINTBEGIN..END block silences at l
  FileOf,       \* FileOf[l]: the file that holds l
  Unmatched,    \* Unmatched[h]: unmatched NOLINTBEGIN/END directives in file h
  MappingItems  \* the "diagnostic-mappings" items read: [orig, alt, message]

Files  == 0..NumFiles
Names  == DOMAIN Rank
Levels == {"note", "remark", "warning", "error"}

ConfigCheck == "clang-tidy-config"
NoLintCheck == "clang-tidy-nolint"
ClangNames  == {"clang-diagnostic-error", "clang-diagnostic-warning",
                "clang-diagnostic-remark"}
Absent      == "absent"    \* a JSON field that an item does not have; no name

ASSUME FilesAssumption ==
  /\ NumFiles \in Nat
  /\ MaxDiags \in Nat
  /\ ShowSystem \subseteq Files
  /\ {"", "note", "unmatched"} \subseteq Texts
  /\ ConfigDiags \in [Files -> Seq(Texts)]

ASSUME NamesAssumption ==
  /\ Rank \in [Names -> Nat]
  /\ \A m, n \in Names : Rank[m] = Rank[n] => m = n
  /\ {"", ConfigCheck, NoLintCheck} \cup ClangNames \subseteq Names
  /\ Absent \notin Names
  /\ CompilerNames \subseteq Names
  /\ Enabled \in [Files -> SUBSET Names]
  /\ AsErrors \in [Files -> SUBSET Names]

ASSUME LocsAssumption ==
  /\ NoLoc \notin Locs
  /\ NoteLocs \subseteq Locs
  /\ SystemLocs \cup NoFileLocs \cup LineOK \subseteq Locs
  /\ LocsIn \in [Files -> SUBSET Locs]
  /\ LocsIn[0] = {}             \* no source is read before the first file
  /\ MainLocs \in [Files -> SUBSET Locs]
  /\ HeaderLocs \in [Files -> SUBSET Locs]
  /\ ExcludeLocs \in [Files -> SUBSET Locs]
  /\ LineNoLint \in [Locs -> SUBSET Names]
  /\ BlockNoLint \in [Locs -> SUBSET Names]
  /\ DOMAIN FileOf = Locs
  /\ \A l \in Locs : FileOf[l] \in DOMAIN Unmatched
  /\ \A h \in DOMAIN Unmatched : Unmatched[h] \in Seq(Locs)

ASSUME InputsAssumption ==
  Inputs \subseteq [name : Names, level : Levels \ {"note"}, loc : Locs \cup {NoLoc},
                    text : Texts]

\* An item may lack any of its fields; the message is not checked for.
ASSUME MappingAssumption ==
  /\ MappingItems \in Seq([orig : Names \cup {Absent}, alt : Names \cup {Absent},
                           message : Texts \cup {Absent}])

VARIABLES
  file,      \* Context.CurrentFile: whose options and filters apply
  client,    \* the client of Context.DiagEngine: "mapping" or "consumer"
  agenda,    \* the calls still to make, innermost first
  errors,    \* Errors: the last one may still be dropped
  relates,   \* LastErrorRelatesToUserCode
  passes,    \* LastErrorPassesLineFilter
  ignored,   \* LastErrorWasIgnored
  header,    \* the file whose options HeaderFilter was built from
  exclude,   \* the file whose options ExcludeHeaderFilter was built from
  stats,     \* Context.Stats
  counts,    \* NumWarnings, NumErrors of the consumer (and remarks, uncounted)
  mapCounts, \* NumWarnings, NumErrors of the mapping
  scanned,   \* files whose NOLINT blocks are in the NoLintHandler's cache
  nextId,    \* number of diagnostics reported from outside, plus one
  subject,   \* the diagnostic that a note reported next belongs to; whether it
             \* was suppressed is recorded for the properties only
  taken,     \* take() has been called
  report     \* what it returned

vars == <<file, client, agenda, errors, relates, passes, ignored, header, exclude,
          stats, counts, mapCounts, scanned, nextId, subject, taken, report>>

Unbuilt   == -1          \* a filter regex not built yet
NoSubject == [id |-> 0, name |-> "", silenced |-> FALSE]
-----------------------------------------------------------------------------
\* Mapping: the items that name both an alternative and an original.
AnyItem(k)  == MappingItems[k].orig # Absent     \* mutant: the new name is not checked
Complete(k) == MappingItems[k].orig # Absent /\ MappingItems[k].alt # Absent

\* Mutant: a second item for the same original replaces the first.
LastAltOf(name) == {k \in DOMAIN MappingItems :
                      /\ Complete(k) /\ MappingItems[k].orig = name
                      /\ \A j \in DOMAIN MappingItems : MappingItems[j].orig = name => j <= k}
AltsOf(name) == {k \in DOMAIN MappingItems : Complete(k) /\ MappingItems[k].orig = name}

\* getDiagnosticConsumer(): without a mapping the layer is bypassed.
FrontClient == IF \E k \in DOMAIN MappingItems : Complete(k) THEN "mapping" ELSE "consumer"

\* A diagnostic in flight.  `root' is the outside diagnostic it stems from, for
\* a note the one the note is about; `gen' is 1 for what the mapping reports.
Diag(root, gen, name, level, loc, text) ==
  [root |-> root, gen |-> gen, name |-> name, level |-> level, loc |-> loc, text |-> text]

\* The alternative is a warning at the location of the original, with the
\* message of its item: "" when the item has none (setMessage).
Alternative(d, k) ==
  Diag(d.root, d.gen + 1, MappingItems[k].alt, "warning", d.loc,
       IF MappingItems[k].message = Absent THEN "" ELSE MappingItems[k].message)

NoLintError(d, l) == Diag(d.root, 0, NoLintCheck, "error", l, "unmatched")

ConfigDiag(text) == Diag(0, 0, ConfigCheck, "warning", NoLoc, text)

\* The calls on the agenda.
Dispatch(d)   == [op |-> "dispatch", d |-> d, left |-> {}]   \* to the engine's client
Consume(d)    == [op |-> "consume",  d |-> d, left |-> {}]   \* the consumer's handler
Alts(d, left) == [op |-> "alts",     d |-> d, left |-> left] \* the mapping's loop
Sync(d)       == [op |-> "sync",     d |-> d, left |-> {}]   \* its last statements

\* The mapping's HandleDiagnostic forwards the original first; if its name is
\* mapped the loop over the alternatives follows.  Mutant: the counts are copied
\* before the loop.
EagerCalls(d) == IF AltsOf(d.name) = {} THEN <<Consume(d), Sync(d)>>
                                        ELSE <<Consume(d), Sync(d), Alts(d, AltsOf(d.name))>>
MappingCalls(d) == IF AltsOf(d.name) = {} THEN <<Consume(d), Sync(d)>>
                                          ELSE <<Consume(d), Alts(d, AltsOf(d.name)), Sync(d)>>

Idle     == agenda = <<>>
Calls(o) == agenda # <<>> /\ agenda[1].op = o
Push(s)  == agenda' = s \o Tail(agenda)
-----------------------------------------------------------------------------
\* External (NoLintDirectiveHandler): errors are never suppressed, and a
\* directive is only looked for in a file.  The blocks of a file are read once,
\* when no directive on the line settles the matter; its unmatched directives
\* are found by that read.
Silenceable(d)  == d.level # "error" /\ d.loc \in Locs \ NoFileLocs
OnLine(d)       == Silenceable(d) /\ d.name \in LineNoLint[d.loc]
SuppressedBy(d) == OnLine(d) \/ (Silenceable(d) /\ d.name \in BlockNoLint[d.loc])
ReadsBlocks(d)  == Silenceable(d) /\ ~OnLine(d) /\ FileOf[d.loc] \notin scanned
SuppressionErrors(d) ==
  IF ReadsBlocks(d) THEN [k \in 1..Len(Unmatched[FileOf[d.loc]]) |->
                             Dispatch(NoLintError(d, Unmatched[FileOf[d.loc]][k]))]
                    ELSE <<>>
Scan(d) == scanned' = IF ReadsBlocks(d) THEN scanned \cup {FileOf[d.loc]} ELSE scanned
-----------------------------------------------------------------------------
\* finalizeLastError: what becomes of the last error.
LastError == errors[Len(errors)]

NeverDisabled(e) == FALSE               \* mutant: isDiagnosticEnabled returns true
Disabled(e) == e.name \notin Enabled[file] /\ e.level # "error"

Verdict ==
  IF LastError.name = ConfigCheck   THEN "displayed"
  ELSE IF Disabled(LastError)       THEN "check"
  ELSE IF ~relates                  THEN "nonuser"
  ELSE IF ~passes                   THEN "line"
                                    ELSE "displayed"

SettledOldest ==                        \* mutant: the wrong end of the vector is dropped
  IF errors = <<>> \/ Verdict = "displayed" THEN errors ELSE Tail(errors)
SettledNever == errors                  \* mutant: a dropped error is only counted
Settled == IF errors = <<>> \/ Verdict = "displayed" THEN errors
                                                     ELSE SubSeq(errors, 1, Len(errors) - 1)
SettledStats == IF errors = <<>> THEN stats ELSE [stats EXCEPT ![Verdict] = @ + 1]

\* A compiler diagnostic without a warning option is named after its level.
ErrorName(d) ==
  IF d.name # "" THEN d.name
  ELSE CASE d.level = "error"   -> "clang-diagnostic-error"
         [] d.level = "warning" -> "clang-diagnostic-warning"
         [] d.level = "remark"  -> "clang-diagnostic-remark"

NewError(d) ==
  [root |-> d.root, gen |-> d.gen, tu |-> file, name |-> ErrorName(d), level |-> d.level,
   loc |-> d.loc, text |-> d.text, notes |-> <<>>,
   asError |-> d.level = "warning" /\ ErrorName(d) \in AsErrors[file]]

\* The flags of a new error: errors are shown whatever the filters say.
StickyFlags(d)   == d.level = "error" \/ relates    \* mutant: no reset when settling
UnforcedFlags(d) == FALSE                           \* mutant: errors are filtered too
InitialFlags(d)  == d.level = "error"

\* checkFilters: the flags r and p, of the last error, after a diagnostic at
\* loc.  The two header regexes are built when first asked for, and kept.
SkipsSystem(loc) == loc \in SystemLocs /\ file \notin ShowSystem
Exempt(loc)      == loc = NoLoc \/ (loc \in NoFileLocs /\ ~SkipsSystem(loc))
InFile(loc)      == loc \in Locs \ NoFileLocs /\ ~SkipsSystem(loc)
HeaderFile       == IF header = Unbuilt THEN file ELSE header
ExcludeFile      == IF exclude = Unbuilt THEN file ELSE exclude
InHeader(loc)    == loc \in HeaderLocs[HeaderFile]
UserCode(loc)    == \/ Exempt(loc)
                    \/ InFile(loc) /\ loc \in MainLocs[file]
                    \/ InFile(loc) /\ InHeader(loc) /\ loc \notin ExcludeLocs[ExcludeFile]

CheckFilters(loc, r, p) ==
  LET asks == InFile(loc) /\ ~r /\ loc \notin MainLocs[file]
  IN  /\ relates' = (r \/ UserCode(loc))
      /\ passes'  = (p \/ Exempt(loc) \/ (InFile(loc) /\ loc \in LineOK))
      /\ header'  = IF asks THEN HeaderFile ELSE header
      /\ exclude' = IF asks /\ InHeader(loc) THEN ExcludeFile ELSE exclude
-----------------------------------------------------------------------------
Init ==
  /\ file = 0
  /\ client = FrontClient
  /\ agenda = <<>>
  /\ errors = <<>>
  /\ relates = FALSE /\ passes = FALSE /\ ignored = FALSE
  /\ header = Unbuilt /\ exclude = Unbuilt
  /\ stats = [displayed |-> 0, check |-> 0, nolint |-> 0, nonuser |-> 0, line |-> 0]
  /\ counts = [warning |-> 0, error |-> 0, remark |-> 0]
  /\ mapCounts = counts
  /\ scanned = {}
  /\ nextId = 1
  /\ subject = NoSubject
  /\ taken = FALSE
  /\ report = {}

\* The next translation unit: createASTConsumer sets the current file, and the
\* options, filters and checks with it, then complains about bad options.
StartFile ==
  /\ Idle /\ ~taken /\ file < NumFiles
  /\ file' = file + 1
  /\ subject' = NoSubject
  /\ agenda' = [k \in 1..Len(ConfigDiags[file + 1]) |-> Dispatch(ConfigDiag(ConfigDiags[file + 1][k]))]
  /\ UNCHANGED <<client, errors, relates, passes, ignored, header, exclude, stats, counts,
                 mapCounts, scanned, nextId, taken, report>>

\* A check or the compiler reports a diagnostic.  Only the checks that the
\* current file enables have been created.
Reportable == {i \in Inputs : /\ i.loc \in LocsIn[file] \cup {NoLoc}
                              /\ i.name \in CompilerNames \cup Enabled[file]}
ReportDiag ==
  /\ Idle /\ ~taken /\ nextId <= MaxDiags
  /\ \E i \in Reportable :
       /\ agenda' = <<Dispatch(Diag(nextId, 0, i.name, i.level, i.loc, i.text))>>
       /\ subject' = [id |-> nextId, name |-> i.name, silenced |-> FALSE]
  /\ nextId' = nextId + 1
  /\ UNCHANGED <<file, client, errors, relates, passes, ignored, header, exclude, stats,
                 counts, mapCounts, scanned, taken, report>>

\* It adds a note.  A check's notes bear its name, the compiler's have no option.
ReportNote ==
  /\ Idle /\ ~taken /\ nextId <= MaxDiags /\ subject.id # NoSubject.id
  /\ \E l \in NoteLocs \cap LocsIn[file] :
       agenda' = <<Dispatch(Diag(subject.id, 0,
                                 IF subject.name \in CompilerNames THEN "" ELSE subject.name,
                                 "note", l, "note"))>>
  /\ nextId' = nextId + 1
  /\ UNCHANGED <<file, client, errors, relates, passes, ignored, header, exclude, stats,
                 counts, mapCounts, scanned, subject, taken, report>>

\* The engine calls its client, the mapping or the consumer itself.
Deliver ==
  /\ Calls("dispatch")
  /\ Push(IF client = "mapping" THEN MappingCalls(agenda[1].d) ELSE <<Consume(agenda[1].d)>>)
  /\ UNCHANGED <<file, client, errors, relates, passes, ignored, header, exclude, stats,
                 counts, mapCounts, scanned, nextId, subject, taken, report>>

\* One round of the loop.  The client stays switched to the consumer, so that
\* the alternative is not mapped in turn.
Lowest(S) == CHOOSE k \in S : \A j \in S : k <= j

\* Mutant: the client is not switched.
EmitThroughMapping ==
  /\ Calls("alts") /\ agenda[1].left # {}
  /\ LET d == agenda[1].d
         k == Lowest(agenda[1].left)
     IN  Push(<<Dispatch(Alternative(d, k)), Alts(d, agenda[1].left \ {k})>>)
  /\ UNCHANGED <<file, client, errors, relates, passes, ignored, header, exclude, stats,
                 counts, mapCounts, scanned, nextId, subject, taken, report>>

EmitAlternative ==
  /\ Calls("alts") /\ agenda[1].left # {}
  /\ client' = "consumer"
  /\ LET d == agenda[1].d
         k == Lowest(agenda[1].left)
     IN  Push(<<Dispatch(Alternative(d, k)), Alts(d, agenda[1].left \ {k})>>)
  /\ UNCHANGED <<file, errors, relates, passes, ignored, header, exclude, stats, counts,
                 mapCounts, scanned, nextId, subject, taken, report>>

\* The loop is over: the mapping is the client again.
\* Mutant: it stays bypassed.
ForgetClient ==
  /\ Calls("alts") /\ agenda[1].left = {}
  /\ Push(<<>>)
  /\ UNCHANGED <<file, client, errors, relates, passes, ignored, header, exclude, stats,
                 counts, mapCounts, scanned, nextId, subject, taken, report>>

RestoreClient ==
  /\ Calls("alts") /\ agenda[1].left = {}
  /\ client' = "mapping"
  /\ Push(<<>>)
  /\ UNCHANGED <<file, errors, relates, passes, ignored, header, exclude, stats, counts,
                 mapCounts, scanned, nextId, subject, taken, report>>

CopyCounts ==
  /\ Calls("sync")
  /\ mapCounts' = counts
  /\ Push(<<>>)
  /\ UNCHANGED <<file, client, errors, relates, passes, ignored, header, exclude, stats,
                 counts, scanned, nextId, subject, taken, report>>

\* The consumer's HandleDiagnostic, by its exits.  A note of what was ignored:
IgnoreNote ==
  /\ Calls("consume") /\ ignored /\ agenda[1].d.level = "note"
  /\ Push(<<>>)
  /\ UNCHANGED <<file, client, errors, relates, passes, ignored, header, exclude, stats,
                 counts, mapCounts, scanned, nextId, subject, taken, report>>

HandledAnyway == Calls("consume")       \* mutant: LastErrorWasIgnored is not consulted
Handled == Calls("consume") /\ ~(ignored /\ agenda[1].d.level = "note")

Suppress ==
  /\ Handled /\ SuppressedBy(agenda[1].d)
  /\ ignored' = TRUE
  /\ stats' = [stats EXCEPT !.nolint = @ + 1]
  /\ Scan(agenda[1].d)
  /\ Push(SuppressionErrors(agenda[1].d))
  /\ subject' = [subject EXCEPT !.silenced =
                    @ \/ (agenda[1].d.gen = 0 /\ agenda[1].d.level # "note")]
  /\ UNCHANGED <<file, client, errors, relates, passes, header, exclude, counts, mapCounts,
                 nextId, taken, report>>

\* A note joins the last error, and may let it through the filters.
AttachNote ==
  /\ Handled /\ ~SuppressedBy(agenda[1].d) /\ agenda[1].d.level = "note"
  /\ ignored' = FALSE
  /\ errors # <<>>
  /\ errors' = [errors EXCEPT ![Len(errors)].notes =
                   Append(@, [of |-> agenda[1].d.root, loc |-> agenda[1].d.loc])]
  /\ CheckFilters(agenda[1].d.loc, relates, passes)
  /\ Scan(agenda[1].d)
  /\ Push(SuppressionErrors(agenda[1].d))
  /\ UNCHANGED <<file, client, stats, counts, mapCounts, nextId, subject, taken, report>>

\* Any other diagnostic settles the last error and becomes the last error.
AddError ==
  /\ Handled /\ ~SuppressedBy(agenda[1].d) /\ agenda[1].d.level # "note"
  /\ ignored' = FALSE
  /\ counts' = [counts EXCEPT ![agenda[1].d.level] = @ + 1]
  /\ stats' = SettledStats
  /\ errors' = Append(Settled, NewError(agenda[1].d))
  /\ CheckFilters(agenda[1].d.loc, InitialFlags(agenda[1].d), InitialFlags(agenda[1].d))
  /\ Scan(agenda[1].d)
  /\ Push(SuppressionErrors(agenda[1].d))
  /\ UNCHANGED <<file, client, mapCounts, nextId, subject, taken, report>>

\* take(): sorted by place and name, one error is kept of those that agree in
\* location, name and text (the first raised: the sort is stable), and of the
\* names for one text at one location the first; the others are its aliases.
SamePlace(e, f) == e.loc = f.loc /\ e.text = f.text
Unique(s) == {s[i] : i \in {i \in DOMAIN s : \A j \in 1..(i - 1) :
                               ~(SamePlace(s[j], s[i]) /\ s[j].name = s[i].name)}}
AllLead(U) == U                         \* mutant: aliases are not merged
Leaders(U) == {e \in U : \A f \in U : SamePlace(e, f) => Rank[e.name] <= Rank[f.name]}
MergedDowngrading(U) ==                 \* mutant: an alias' upgrade is lost
  {[error   |-> e,
    aliases |-> {f.name : f \in {f \in U : SamePlace(e, f)}} \ {e.name},
    asError |-> e.asError] : e \in Leaders(U)}
Merged(U) ==
  {[error   |-> e,
    aliases |-> {f.name : f \in {f \in U : SamePlace(e, f)}} \ {e.name},
    asError |-> \E f \in U : SamePlace(e, f) /\ f.asError] : e \in Leaders(U)}

Take ==
  /\ Idle /\ ~taken /\ file = NumFiles
  /\ taken' = TRUE
  /\ stats' = SettledStats
  /\ errors' = Settled
  /\ relates' = FALSE /\ passes' = FALSE
  /\ report' = Merged(Unique(Settled))
  /\ UNCHANGED <<file, client, agenda, ignored, header, exclude, counts, mapCounts, scanned,
                 nextId, subject>>

Step == \/ Deliver \/ EmitAlternative \/ RestoreClient \/ CopyCounts
        \/ IgnoreNote \/ Suppress \/ AttachNote \/ AddError
Next == StartFile \/ ReportDiag \/ ReportNote \/ Step \/ Take

Spec == Init /\ [][Next]_vars
-----------------------------------------------------------------------------
DiagType == [root : Nat, gen : Nat, name : Names, level : Levels, loc : Locs \cup {NoLoc},
             text : Texts]
CallType == [op : {"dispatch", "consume", "alts", "sync"}, d : DiagType,
             left : SUBSET DOMAIN MappingItems]
NoteType  == [of : Nat, loc : Locs \cup {NoLoc}]
ErrorType == [root : Nat, gen : Nat, tu : Files, name : Names, level : Levels \ {"note"},
              loc : Locs \cup {NoLoc}, text : Texts, notes : Seq(NoteType),
              asError : BOOLEAN]

\* Every variable has its type; in particular what is delivered under a name
\* the mapping does not know stays within the names that exist.
TypeOK ==
  /\ file \in Files
  /\ client \in {"mapping", "consumer"}
  /\ agenda \in Seq(CallType)
  /\ errors \in Seq(ErrorType)
  /\ relates \in BOOLEAN /\ passes \in BOOLEAN /\ ignored \in BOOLEAN
  /\ header \in Files \cup {Unbuilt} /\ exclude \in Files \cup {Unbuilt}
  /\ stats \in [{"displayed", "check", "nolint", "nonuser", "line"} -> Nat]
  /\ counts \in [{"warning", "error", "remark"} -> Nat]
  /\ mapCounts \in [{"warning", "error", "remark"} -> Nat]
  /\ scanned \subseteq DOMAIN Unmatched
  /\ nextId \in Nat \ {0}
  /\ subject \in [id : Nat, name : Names, silenced : BOOLEAN]
  /\ taken \in BOOLEAN
  /\ report \subseteq [error : ErrorType, aliases : SUBSET Names, asError : BOOLEAN]
-----------------------------------------------------------------------------
\* Properties.

Pending    == errors # <<>> /\ ~taken      \* the last error is not settled yet
IsLast(i)  == Pending /\ i = Len(errors)
NotesOf(i) == {errors[i].notes[n] : n \in DOMAIN errors[i].notes}

\* A note ends up under an error that stems from the very diagnostic the note
\* explains, whatever was suppressed, mapped or dropped in between: this is what
\* LastErrorWasIgnored and "append to the last error" are for
\* (ClangTidyDiagnosticConsumer.cpp, HandleDiagnostic).
NoteOwner == \A i \in DOMAIN errors : \A n \in NotesOf(i) : n.of = errors[i].root

\* A note that is neither ignored nor suppressed finds an error to join: the
\* assertion "A diagnostic note can only be appended to a message".
NoteHasError ==
  Handled /\ agenda[1].d.level = "note" /\ ~SuppressedBy(agenda[1].d) => errors # <<>>

\* Both together: a note always finds the error it explains.
NotesOwned == NoteOwner /\ NoteHasError

\* "Ignored a warning, should ignore related notes as well": none of the notes of
\* a suppressed diagnostic is recorded.
SilencedNotesDropped ==
  subject.silenced => \A i \in DOMAIN errors : \A n \in NotesOf(i) : n.of # subject.id

\* Every diagnostic counted by the base class is displayed, or counted under
\* exactly one filter, or is the pending last error; and what is displayed is
\* what the vector holds.
Balance ==
  LET pending == IF Pending THEN 1 ELSE 0
  IN  /\ stats.displayed + stats.check + stats.nonuser + stats.line + pending
            = counts.warning + counts.error + counts.remark
      /\ stats.displayed + pending = Len(errors)

\* The two flags speak of the last error alone: forced by its level, or earned
\* by its own location or by that of one of its notes, in its own file and under
\* the regexes in use.  Nothing of an earlier error leaks into them.
Earned(e, loc) ==
  LET skipped == loc \in SystemLocs /\ e.tu \notin ShowSystem
      free    == loc = NoLoc \/ (loc \in NoFileLocs /\ ~skipped)
      h == IF header = Unbuilt THEN e.tu ELSE header
      x == IF exclude = Unbuilt THEN e.tu ELSE exclude
  IN  [user |-> free \/ (~skipped /\ (loc \in MainLocs[e.tu]
                                       \/ loc \in HeaderLocs[h] \ ExcludeLocs[x])),
       line |-> free \/ (~skipped /\ loc \in LineOK)]
FlagsDescribeLastError ==
  Pending =>
    LET e == LastError
        places == {e.loc} \cup {n.loc : n \in NotesOf(Len(errors))}
    IN  /\ relates = (e.level = "error" \/ \E l \in places : Earned(e, l).user)
        /\ passes  = (e.level = "error" \/ \E l \in places : Earned(e, l).line)

\* A displayed warning is enabled in the file it was raised in, except the last
\* error of a file: that one is settled under the filter of the file whose
\* diagnostic comes next (setCurrentFile runs before finalizeLastError does).
JudgedByOwnFile ==
  \A i \in 1..(Len(errors) - 1) :
    \/ errors[i].level = "error" \/ errors[i].name = ConfigCheck
    \/ errors[i].name \in Enabled[errors[i].tu]
    \/ errors[i + 1].tu # errors[i].tu

\* What is filtered out, and by which file's filter, is what the three rules above
\* say: notes with their warning, the last error by the flags, and no other error.
FiltersExact == SilencedNotesDropped /\ FlagsDescribeLastError /\ JudgedByOwnFile

\* Compiler errors and the errors of the NOLINT reader are never filtered out.
ErrorsAlwaysShown ==
  [][\A i \in DOMAIN errors : errors[i].level = "error" =>
       /\ i \in DOMAIN errors'
       /\ errors'[i].root = errors[i].root /\ errors'[i].name = errors[i].name]_vars

\* take() loses no error and shows no text twice at one place: every error that
\* was displayed appears in the report, by name or as an alias.
ReportComplete ==
  taken =>
    /\ \A i \in DOMAIN errors : \E r \in report :
         SamePlace(errors[i], r.error) /\ errors[i].name \in {r.error.name} \cup r.aliases
    /\ \A r, q \in report : SamePlace(r.error, q.error) => r = q

\* Merging aliases does not turn an error back into a warning: what one of the
\* names upgrades stays upgraded, when the files agree on WarningsAsErrors and
\* nothing is recorded under one name both as a warning and as an error.
AsErrorKept ==
  taken => \A i \in DOMAIN errors : errors[i].asError =>
             \E r \in report : SamePlace(errors[i], r.error) /\ r.asError

\* When that is so: what can be recorded, by name and level.
Named(d) == <<ErrorName(d), d.level>>
Recordable ==
  {Named(i) : i \in Inputs} \cup {<<NoLintCheck, "error">>, <<ConfigCheck, "warning">>}
  \cup {Named([name |-> MappingItems[k].alt, level |-> "warning"]) :
          k \in {k \in DOMAIN MappingItems : Complete(k)}}
Uniform ==
  /\ \A f, g \in Files : AsErrors[f] = AsErrors[g]
  /\ \A m, n \in Recordable : m[1] = n[1] => m[2] = n[2]

\* Whoever reports next is heard by the right client: the switch made for the
\* alternatives is always undone.
ClientRestored == Idle => client = FrontClient

\* An alternative is never mapped in turn, not even when its name is mapped.
NoRemap == \A i \in DOMAIN errors : errors[i].gen <= 1

\* Between diagnostics the mapping shows the counts of the consumer it wraps.
CountsAgree == Idle /\ FrontClient = "mapping" => mapCounts = counts

\* The mapping layer is a wrapper that re-entrant calls do not confuse: the client
\* is restored, no alternative is mapped in turn, the counts are those of the
\* wrapped consumer.
MappingTransparent == ClientRestored /\ NoRemap /\ CountsAgree

\* Each alternative of a recorded original is recorded after it, at its location,
\* unless NOLINT silences it or a filter may drop it.  Two kinds of originals have
\* none: what the consumer names, and what the NOLINT reader reports while an
\* alternative is handed over.
Unmapped == ClangNames \cup {NoLintCheck}
Visible(name, loc) ==
  /\ name \notin {Absent, ""}
  /\ loc \in Locs => name \notin LineNoLint[loc] \cup BlockNoLint[loc]
  /\ \A f \in 1..NumFiles : name \in Enabled[f] /\ loc \in MainLocs[f]
  /\ loc \in LineOK \ (SystemLocs \cup NoFileLocs)
AlternativesComplete ==
  Idle =>
    \A i \in DOMAIN errors : errors[i].gen = 0 /\ errors[i].name \notin Unmapped =>
      \A k \in DOMAIN MappingItems :
        MappingItems[k].orig = errors[i].name /\ Visible(MappingItems[k].alt, errors[i].loc) =>
          \E j \in (i + 1)..Len(errors) :
            /\ errors[j].gen = 1 /\ errors[j].root = errors[i].root
            /\ errors[j].name = MappingItems[k].alt /\ errors[j].loc = errors[i].loc

\* The mapping adds all the alternatives that are to be seen; where an alternative
\* meets another name of the same report, what one of them upgrades to an error stays
\* one.
MappingFaithful == AlternativesComplete /\ AsErrorKept

\* The pipeline implements DiagnosticGroups: the open group is the last error.
Groups == INSTANCE DiagnosticGroups
            WITH Notes  <- [of : 0..MaxDiags, loc : Locs \cup {NoLoc}],
                 shown  <- IF Pending THEN SubSeq(errors, 1, Len(errors) - 1) ELSE errors,
                 open   <- IF Pending THEN LastError ELSE [root |-> -1],
                 closed <- taken

\* Groups of a diagnostic and its notes are shown or dropped as a whole, errors
\* always, in the order they were raised, and do not change once settled.
ImplementsGroups == Groups!Spec
=============================================================================
