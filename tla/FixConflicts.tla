---------------------------- MODULE FixConflicts ----------------------------
(***************************************************************************)
(* What becomes of the fix-its.  take() merges the diagnostics of alias    *)
(* checks and drops the fixes that disagree, removeIncompatibleErrors      *)
(* sweeps over the text that the remaining fixes change and clears those   *)
(* that overlap; handleErrors then applies what is left, one diagnostic    *)
(* after the other, and finish() writes the changed files and sums up.     *)
(*                                                                         *)
(* A replacement changes the text [from, to) of a file into another; an    *)
(* insertion has from = to.  A fix is the set of replacements of one       *)
(* message, which never overlap each other (emitCodeContext).              *)
(***************************************************************************)
EXTENDS Integers, Sequences, FiniteSets

CONSTANTS
  Places,        \* the places of diagnostics
  Checks,        \* the names of checks
  Replacements,  \* the replacements that occur: [file, from, to, text]
  Reported,      \* the lists of diagnostics the filters let through, sorted and
                 \* without duplicates: [place, name, fix, note]; note is the fix
                 \* attached to a note
  AnyFix         \* GetFixesFromNotes: with --fix-notes the fixes of notes count

ASSUME ReplacementsAssumption ==
  /\ IsFiniteSet(Replacements)
  /\ \A r \in Replacements : r.from \in Nat /\ r.to \in Nat /\ r.from <= r.to

IsInsertion(r) == r.from = r.to
Overlap(r, q)  == r.file = q.file /\ r.to > q.from /\ r.from < q.to
Apart(fix)     == \A r, q \in fix : r # q => ~Overlap(r, q)

\* isApplicable: text that is in no file, as on the command line, cannot be changed.
InvalidLocation == ""
Applicable(fix) == {r \in fix : r.file # InvalidLocation}

Diagnostic == [place : Places, name : Checks,
               fix : SUBSET Replacements, note : SUBSET Replacements]
ASSUME ReportedAssumption ==
  /\ AnyFix \in BOOLEAN
  /\ Reported \subseteq Seq(Diagnostic)
  /\ \A s \in Reported : \A i \in DOMAIN s : Apart(s[i].fix) /\ Apart(s[i].note)

VARIABLES
  input,    \* the list as take() found it
  phase,    \* what runs: "alias", "sweep", "report", "write" or "done"
  next,     \* the position of the alias loop and of the reporting loop
  errors,   \* the list; an entry also has its aliases, and knows whether a note
            \* says that its fix is not applied
  events,   \* the ends of intervals still to sweep
  open,     \* OpenIntervals, file by file
  apply,    \* Apply: the fixes that may still be applied
  total,    \* TotalFixes
  applied,  \* the replacements applied, with their error; AppliedFixes counts them
  pending,  \* the files with replacements to write
  failed,   \* AnyNotWritten
  written,  \* the files rewritten on disk
  summary   \* how many fixes the last line says were applied

vars == <<input, phase, next, errors, events, open, apply, total, applied, pending, failed,
          written, summary>>

Silent == -1     \* nothing was to be fixed, or the last line admits a failure

TargetFiles == {r.file : r \in Replacements}
-----------------------------------------------------------------------------
\* getFixIt: the fix of the message, else the note's if those count.
NoteFixIt(e) == IF e.fix # {} THEN e.fix ELSE e.note       \* mutant: notes always count
GetFixIt(e) == IF e.fix # {} \/ ~AnyFix THEN e.fix ELSE e.note

\* The alias loop's view of a diagnostic d at the place of a kept one e: d is an
\* alias of e, and if their fixes differ neither is applied.
FirstFixWins(e, d) == [e EXCEPT !.aliases = @ \cup {d.name}]   \* mutant: no comparison
AsAlias(e, d) ==
  IF d.fix = e.fix THEN [e EXCEPT !.aliases = @ \cup {d.name}]
                   ELSE [e EXCEPT !.aliases = @ \cup {d.name}, !.fix = {}, !.dropped = TRUE]

\* Sizes: how much text the fix of error i changes, the lengths added up.
Size(i) == Cardinality(UNION {{r} \X (r.from..(r.to - 1)) : r \in GetFixIt(errors[i])})

\* The events of a list: both ends of each interval, an insertion is one event.
Event(i, r, type) == [err |-> i, rep |-> r, type |-> type, size |-> Size(i)]
EventsOf(i, r)    == IF IsInsertion(r) THEN {Event(i, r, "insert")}
                                       ELSE {Event(i, r, "begin"), Event(i, r, "end")}
AllEvents == UNION {UNION {EventsOf(i, r) : r \in GetFixIt(errors[i])} : i \in DOMAIN errors}

\* Priority, compared lexicographically.
UnsizedPriority(e) ==                        \* mutant: the sizes are not looked at
  CASE e.type = "begin"  -> <<e.rep.from,  1, -e.rep.to, e.err>>
    [] e.type = "insert" -> <<e.rep.from,  0, -e.rep.to, e.err>>
    [] e.type = "end"    -> <<e.rep.to,   -1, -e.rep.from, e.err>>
Priority(e) ==
  CASE e.type = "begin"  -> <<e.rep.from,  1, -e.rep.to,  -e.size, e.err>>
    [] e.type = "insert" -> <<e.rep.from,  0, -e.rep.to,   e.size, e.err>>
    [] e.type = "end"    -> <<e.rep.to,   -1, -e.rep.from, e.size, e.err>>
Before(e, f) ==
  LET p == Priority(e)
      q == Priority(f)
  IN  \E k \in DOMAIN p : p[k] < q[k] /\ \A j \in 1..(k - 1) : p[j] = q[j]

\* OpenIntervals after an event, and whether the event disqualifies its error.
InsertCloses(e, n) == IF e.type = "begin" THEN n + 1 ELSE n - 1    \* mutant: two kinds only
InsertOpens(e, n)  == IF e.type = "end" THEN n - 1 ELSE n + 1      \* mutant: the other way
Opened(e, n)   == CASE e.type = "begin" -> n + 1 [] e.type = "insert" -> n [] e.type = "end" -> n - 1
Conflicts(e, n) == IF e.type = "end" THEN n - 1 # 0 ELSE n # 0
-----------------------------------------------------------------------------
Init ==
  /\ input \in Reported
  /\ phase = "alias"
  /\ next = 1
  /\ errors = [i \in DOMAIN input |->
                 [place |-> input[i].place, name |-> input[i].name, fix |-> input[i].fix,
                  note |-> input[i].note, aliases |-> {}, dropped |-> FALSE]]
  /\ events = {}
  /\ open = [f \in TargetFiles |-> 0]
  /\ apply = {}
  /\ total = 0
  /\ applied = {}
  /\ pending = {}
  /\ failed = FALSE
  /\ written = {}
  /\ summary = Silent

\* The alias loop: a diagnostic at a new place stays.
KeepUnique ==
  /\ phase = "alias" /\ next <= Len(errors)
  /\ \A i \in 1..(next - 1) : errors[i].place # errors[next].place
  /\ next' = next + 1
  /\ UNCHANGED <<input, phase, errors, events, open, apply, total, applied, pending, failed,
                 written, summary>>

\* One at the place of a kept diagnostic is erased from the list.
MergeAlias ==
  /\ phase = "alias" /\ next <= Len(errors)
  /\ \E i \in 1..(next - 1) :
       /\ errors[i].place = errors[next].place
       /\ errors' = [k \in 1..(Len(errors) - 1) |->
                       IF k = i THEN AsAlias(errors[i], errors[next])
                       ELSE IF k < next THEN errors[k] ELSE errors[k + 1]]
  /\ UNCHANGED <<input, phase, next, events, open, apply, total, applied, pending, failed,
                 written, summary>>

\* The rest of removeIncompatibleErrors starts with the events of all fixes.
StartSweep ==
  /\ phase = "alias" /\ next > Len(errors)
  /\ phase' = "sweep"
  /\ events' = AllEvents
  /\ apply' = DOMAIN errors
  /\ UNCHANGED <<input, next, errors, open, total, applied, pending, failed, written, summary>>

\* The sweep takes the events of each file in order.
Sweep ==
  /\ phase = "sweep"
  /\ \E e \in events :
       /\ \A f \in events \ {e} : f.rep.file = e.rep.file => Before(e, f)
       /\ events' = events \ {e}
       /\ open' = [open EXCEPT ![e.rep.file] = Opened(e, @)]
       /\ apply' = IF Conflicts(e, open[e.rep.file]) THEN apply \ {e.err} ELSE apply
  /\ UNCHANGED <<input, phase, next, errors, total, applied, pending, failed, written, summary>>

\* The fixes that conflict are cleared where getFixIt found them, with a note.
NotedOnly(e) == [e EXCEPT !.dropped = TRUE]     \* mutant: the note, but not the clearing
Cleared(e) == IF e.fix # {} \/ ~AnyFix THEN [e EXCEPT !.fix = {}, !.dropped = TRUE]
                                       ELSE [e EXCEPT !.note = {}, !.dropped = TRUE]
ClearConflicts ==
  /\ phase = "sweep" /\ events = {}
  /\ phase' = "report"
  /\ next' = 1
  /\ errors' = [i \in DOMAIN errors |-> IF i \in apply THEN errors[i] ELSE Cleared(errors[i])]
  /\ UNCHANGED <<input, events, open, apply, total, applied, pending, failed, written, summary>>

\* reportDiagnostic: each replacement counts, and joins those of its file, if it has
\* one.  Replacements::add (external) refuses one that overlaps another or that inserts another text at
\* the same place; a refused insertion is moved behind what is there, another
\* replacement if its length allows it.
SameInsertion(r, q) == r.file = q.file /\ IsInsertion(r) /\ IsInsertion(q) /\ r.from = q.from
Refused(r) == \E a \in applied : \/ Overlap(r, a.rep)
                                 \/ SameInsertion(r, a.rep) /\ r.text # a.rep.text
Report ==
  /\ phase = "report" /\ next <= Len(errors)
  /\ LET fix == GetFixIt(errors[next])
         able == Applicable(fix)
     IN  /\ total' = total + Cardinality(fix)
         /\ pending' = pending \cup {r.file : r \in able}
         /\ \E lost \in SUBSET {r \in able : Refused(r) /\ ~IsInsertion(r)} :
              applied' = applied \cup {[err |-> next, rep |-> r] : r \in able \ lost}
  /\ next' = next + 1
  /\ UNCHANGED <<input, phase, errors, events, open, apply, failed, written, summary>>

\* finish(): without a fix there is nothing to write.
StartWriting ==
  /\ phase = "report" /\ next > Len(errors)
  /\ phase' = IF total > 0 THEN "write" ELSE "done"
  /\ UNCHANGED <<input, next, errors, events, open, apply, total, applied, pending, failed,
                 written, summary>>

\* A file that cannot be read, or has no usable style, is passed over.
SkipFile ==
  /\ phase = "write"
  /\ \E f \in pending : pending' = pending \ {f}
  /\ UNCHANGED <<input, phase, next, errors, events, open, apply, total, applied, failed,
                 written, summary>>

\* Otherwise it is rewritten, unless that fails.
WriteFile ==
  /\ phase = "write"
  /\ \E f \in pending :
       /\ pending' = pending \ {f}
       /\ \/ written' = written \cup {f} /\ failed' = failed
          \/ written' = written /\ failed' = TRUE
  /\ UNCHANGED <<input, phase, next, errors, events, open, apply, total, applied, summary>>

SumUp ==
  /\ phase = "write" /\ pending = {}
  /\ phase' = "done"
  /\ summary' = IF failed THEN Silent ELSE Cardinality(applied)
  /\ UNCHANGED <<input, next, errors, events, open, apply, total, applied, pending, failed,
                 written>>

Next == \/ KeepUnique \/ MergeAlias \/ StartSweep \/ Sweep \/ ClearConflicts
        \/ Report \/ StartWriting \/ SkipFile \/ WriteFile \/ SumUp

Spec == Init /\ [][Next]_vars
-----------------------------------------------------------------------------
\* What is applied to a file does not overlap: whatever the checks propose, no
\* text is changed by two fixes ("To detect overlapping replacements, we use a
\* sweep line algorithm").
NoOverlap == \A a, b \in applied : a.err # b.err => ~Overlap(a.rep, b.rep)

\* The sweep drops exactly what its comment announces: a fix stays if each of its
\* replacements is apart from the others or contains them, where of two equal
\* intervals the one of the larger fix contains the other.
Contains(r, i, q, j) ==
  /\ r.from <= q.from /\ q.to <= r.to
  /\ (r.from = q.from /\ r.to = q.to) => Size(i) > Size(j)
Stays(i) ==
  \A j \in DOMAIN errors \ {i} : \A r \in GetFixIt(errors[i]), q \in GetFixIt(errors[j]) :
    Overlap(r, q) => Contains(r, i, q, j)

\* "Amount of begin/end points doesn't match": the counter is back at zero when
\* the events of a file are used up.
SweepBalanced ==
  \A f \in TargetFiles : (\A e \in events : e.rep.file # f) => open[f] = 0

\* The sweep keeps exactly the fixes that it announces to keep.
KeepsAnnounced ==
  phase = "sweep" /\ events = {} => \A i \in DOMAIN errors : i \in apply <=> Stays(i)

\* It ends in balance, keeps what it announces, and what it keeps does not overlap.
SweepExact == SweepBalanced /\ KeepsAnnounced /\ NoOverlap

\* What can be applied of a fix is applied as a whole or not at all, over all its
\* files, and nothing that survived the sweep gets lost on the way.  "This fix will not be applied
\* because ...": a diagnostic that carries such a note changes no file, whatever
\* fixes its notes hold.  (With --fix-notes the code breaks that promise: getFixIt
\* falls back to the note.)
WholeFixes ==
  /\ phase = "write" => \A i \in DOMAIN errors :
       {a.rep : a \in {b \in applied : b.err = i}} = Applicable(GetFixIt(errors[i]))
  /\ ~AnyFix => \A a \in applied : ~errors[a.err].dropped

\* Of the diagnostics at one place, a fix survives the merge only if all of the
\* alias checks suggested that very fix; none of the diagnostics is lost.
At(place)  == {i \in DOMAIN input : input[i].place = place}
Suggested(place) == {input[i].fix : i \in At(place)}
AliasesAgree ==
  phase = "sweep" => \A i \in DOMAIN input : \E k \in DOMAIN errors :
    /\ errors[k].place = input[i].place
    /\ input[i].name \in {errors[k].name} \cup errors[k].aliases
    /\ errors[k].fix = IF Cardinality(Suggested(input[i].place)) = 1 THEN input[i].fix ELSE {}

\* A fix that is applied is the whole of what every check at its place suggests, as
\* far as it is in files.
FixesAgree == WholeFixes /\ AliasesAgree
=============================================================================
