--------------------------- MODULE SymbolDatabase ---------------------------
(***************************************************************************)
(* The cross-translation-unit rules 5.8 and 8.6.  A first pass             *)
(* (ExternalSymbolCollectorCheck) gathers the external symbols of all      *)
(* translation units in a JSON file, the second pass                       *)
(* (DuplicateExternalIdentifierCheck, MultipleExternalDefinitionCheck)     *)
(* looks the definitions it meets up in that file.  Every run of           *)
(* clang-tidy is a process; it takes its translation units one by one and  *)
(* creates fresh check objects for each of them.  The file is all that the *)
(* runs share, and nothing locks it.                                       *)
(***************************************************************************)
EXTENDS Integers, Sequences, FiniteSets

CONSTANTS
  NumRuns,       \* the runs of clang-tidy, 1..NumRuns, in the order they are started
  Schedules,     \* the ways to hand translation units to runs: functions from
                 \* runs to sequences of units
  Checks,        \* Checks[r]: which of "collect", "5.8" and "8.6" it enables
  Decls,         \* Decls[t]: the declarations with external linkage the matchers
                 \* find in t: [name, file, pos, def, ignored]; ignored are main
                 \* and what has no name or no file
  Overlapping,   \* the schedules whose runs may overlap in time
  Faulty         \* the runs that may die, or fail to open the file for writing;
                 \* runs that overlap all may

Runs     == 1..NumRuns
Rules    == {"5.8", "8.6"}
AllDecls == UNION {{Decls[t][n] : n \in DOMAIN Decls[t]} : t \in DOMAIN Decls}

ASSUME RunsAssumption ==
  /\ NumRuns \in Nat
  /\ \A s \in Schedules : s \in [Runs -> Seq(DOMAIN Decls)]
  /\ Checks \in [Runs -> SUBSET ({"collect"} \cup Rules)]
  /\ Overlapping \subseteq Schedules /\ Faulty \subseteq Runs

ASSUME DeclsAssumption ==
  /\ \A t \in DOMAIN Decls : Decls[t] \in Seq(AllDecls)
  /\ \A d \in AllDecls : d.def \in BOOLEAN /\ d.ignored \in BOOLEAN

VARIABLES
  units,      \* units[r]: the translation units on the command line of run r
  disk,       \* OutputFile = SymbolDatabase: its state ("blank": missing or just
              \* truncated, "valid", "garbage": no JSON) and the symbols in it
  pc,         \* pc[r]: "start" (between units), "match", "write" or "ended"
  unit,       \* unit[r]: position in units[r]
  decl,       \* decl[r]: position in the declarations of that unit
  collected,  \* CollectedSymbols of run r's collector
  base,       \* base[r][k]: the table of rule k's check
  loaded,     \* DatabaseLoaded
  reports,    \* the diagnostics
  failed      \* the runs that said "Error writing symbol database"

vars == <<units, disk, pc, unit, decl, collected, base, loaded, reports, failed>>
-----------------------------------------------------------------------------
Blank    == [state |-> "blank", syms |-> <<>>]
Garbage  == [state |-> "garbage", syms |-> <<>>]
Valid(s) == [state |-> "valid", syms |-> s]
SetOf(s) == {s[i] : i \in DOMAIN s}

\* getSymbolKey: two declarations at one place are the same, whatever they declare.
NameKey(d) == d.name                          \* mutant: the place is not in the key
Key(d)     == <<d.file, d.pos, d.name>>
Keys(s)    == {Key(s[i]) : i \in DOMAIN s}

\* loadExistingSymbols and loadSymbolDatabase: what cannot be read is empty.
LoadNothing == <<>>                           \* mutant: every unit starts afresh
LoadButLast == SubSeq(disk.syms, 1, Len(disk.syms) - 1)    \* mutant: off by one
Load == disk.syms

\* The collector's check(): symbols already seen are not taken again.
TakeMain(s, d) == IF Key(d) \in Keys(s) THEN s ELSE Append(s, d)   \* mutant: main too
TakeAll(s, d) == IF d.ignored THEN s ELSE Append(s, d)     \* mutant: no deduplication
Gather(s, d)  == IF d.ignored \/ Key(d) \in Keys(s) THEN s ELSE Append(s, d)

\* The second pass: definitions of the name in other files.
Elsewhere(table, d) == {o \in SetOf(table) : o.name = d.name /\ o.def /\ o.file # d.file}

\* Rule 8.6 matches definitions only, 5.8 all declarations; both load the table
\* at the first match.
Matches(k, d) == k = "5.8" \/ d.def
Table(r, k)   == IF k \in loaded[r] THEN base[r][k] ELSE Load
Report(r, k, d) ==
  LET others == Elsewhere(Table(r, k), d)
  IN  IF d.ignored \/ ~d.def \/ others = {} THEN {}
      ELSE {[rule |-> k, decl |-> d, run |-> r, others |-> others]}

Unit(r)     == Decls[units[r][unit[r]]]
Collects(r) == "collect" \in Checks[r]
InTurn      == units \notin Overlapping
MayFail(r)  == InTurn => r \in Faulty
-----------------------------------------------------------------------------
Init ==
  /\ units \in Schedules
  /\ disk = Blank
  /\ pc = [r \in Runs |-> "start"]
  /\ unit = [r \in Runs |-> 1]
  /\ decl = [r \in Runs |-> 1]
  /\ collected = [r \in Runs |-> <<>>]
  /\ base = [r \in Runs |-> [k \in Rules |-> <<>>]]
  /\ loaded = [r \in Runs |-> {}]
  /\ reports = {}
  /\ failed = {}

\* The check objects of a translation unit: the collector reads the file at once.
StartUnit(r) ==
  /\ pc[r] = "start" /\ unit[r] <= Len(units[r])
  /\ InTurn => \A q \in 1..(r - 1) : pc[q] = "ended"
  /\ pc' = [pc EXCEPT ![r] = "match"]
  /\ decl' = [decl EXCEPT ![r] = 1]
  /\ collected' = [collected EXCEPT ![r] = IF Collects(r) THEN Load ELSE <<>>]
  /\ loaded' = [loaded EXCEPT ![r] = {}]
  /\ UNCHANGED <<units, disk, unit, base, reports, failed>>

\* The next declaration, seen by all checks whose matchers accept it.
Match(r) ==
  /\ pc[r] = "match" /\ decl[r] <= Len(Unit(r))
  /\ LET d == Unit(r)[decl[r]]
         rules == {k \in Checks[r] \cap Rules : Matches(k, d)}
     IN  /\ collected' = [collected EXCEPT ![r] = IF Collects(r) THEN Gather(@, d) ELSE @]
         /\ base' = [base EXCEPT ![r] = [k \in Rules |-> IF k \in rules THEN Table(r, k) ELSE @[k]]]
         /\ loaded' = [loaded EXCEPT ![r] = @ \cup rules]
         /\ reports' = reports \cup UNION {Report(r, k, d) : k \in rules}
  /\ decl' = [decl EXCEPT ![r] = @ + 1]
  /\ UNCHANGED <<units, disk, pc, unit, failed>>

NextUnit(r) == /\ pc' = [pc EXCEPT ![r] = "start"]
               /\ unit' = [unit EXCEPT ![r] = @ + 1]

\* onEndOfTranslationUnit: without symbols the file is left alone ...
EndUnit(r) ==
  /\ pc[r] = "match" /\ decl[r] > Len(Unit(r))
  /\ collected[r] = <<>>
  /\ NextUnit(r)
  /\ UNCHANGED <<units, disk, decl, collected, base, loaded, reports, failed>>

\* ... otherwise it is opened, which empties it; ...
OpenOutput(r) ==
  /\ pc[r] = "match" /\ decl[r] > Len(Unit(r))
  /\ collected[r] # <<>>
  /\ disk' = Blank
  /\ pc' = [pc EXCEPT ![r] = "write"]
  /\ UNCHANGED <<units, unit, decl, collected, base, loaded, reports, failed>>

\* ... or cannot be opened, and the symbols of this unit are gone; ...
OpenFails(r) ==
  /\ MayFail(r)
  /\ pc[r] = "match" /\ decl[r] > Len(Unit(r))
  /\ collected[r] # <<>>
  /\ NextUnit(r)
  /\ failed' = failed \cup {r}
  /\ UNCHANGED <<units, disk, decl, collected, base, loaded, reports>>

\* ... and everything collected is written.  Over what another run has written
\* since, a shorter text leaves the tail of the longer one.
Written(r) == IF disk.state = "blank" THEN {Valid(collected[r])}
                                      ELSE {Valid(collected[r]), Garbage}
WriteOutput(r) ==
  /\ pc[r] = "write"
  /\ disk' \in Written(r)
  /\ NextUnit(r)
  /\ UNCHANGED <<units, decl, collected, base, loaded, reports, failed>>

EndRun(r) ==
  /\ pc[r] = "start" /\ unit[r] > Len(units[r])
  /\ pc' = [pc EXCEPT ![r] = "ended"]
  /\ UNCHANGED <<units, disk, unit, decl, collected, base, loaded, reports, failed>>

\* A run dies at any point after it was started, also between opening and writing.
Die(r) ==
  /\ MayFail(r)
  /\ pc[r] \in {"match", "write"}
  /\ pc' = [pc EXCEPT ![r] = "ended"]
  /\ UNCHANGED <<units, disk, unit, decl, collected, base, loaded, reports, failed>>

Next == \E r \in Runs : \/ StartUnit(r) \/ Match(r) \/ EndUnit(r) \/ OpenOutput(r)
                        \/ OpenFails(r) \/ WriteOutput(r) \/ EndRun(r) \/ Die(r)

Spec == Init /\ [][Next]_vars
-----------------------------------------------------------------------------
Symbol     == {d \in AllDecls : ~d.ignored}
ReportType == [rule : Rules, decl : Symbol, run : Runs, others : SUBSET Symbol]
TypeOK ==
  /\ units \in [Runs -> Seq(DOMAIN Decls)]
  /\ disk \in [state : {"blank", "valid", "garbage"}, syms : Seq(Symbol)]
  /\ pc \in [Runs -> {"start", "match", "write", "ended"}]
  /\ unit \in [Runs -> Nat \ {0}]
  /\ decl \in [Runs -> Nat \ {0}]
  /\ collected \in [Runs -> Seq(Symbol)]
  /\ base \in [Runs -> [Rules -> Seq(Symbol)]]
  /\ loaded \in [Runs -> SUBSET Rules]
  /\ reports \subseteq ReportType
  /\ failed \subseteq Runs

Symbols(t)   == {Decls[t][n] : n \in DOMAIN Decls[t]} \cap Symbol
KeysOf(t)    == {Key(d) : d \in Symbols(t)}
UnitsOf(r)   == {units[r][n] : n \in DOMAIN units[r]}
Completed(r) == pc[r] = "ended" /\ unit[r] > Len(units[r]) /\ r \notin failed

\* SeenSymbols does its work: no place is in the database twice, whatever runs
\* overlapped, died or were repeated.
Distinct(s)     == \A i, j \in DOMAIN s : Key(s[i]) = Key(s[j]) => i = j
NoDuplicateKeys == Distinct(disk.syms) /\ \A r \in Runs : Distinct(collected[r])

\* Whatever is lost when runs overlap, die or cannot open the file, is lost by
\* whole translation units: no table is ever built from half a unit.
Whole(s)   == \E T \in SUBSET DOMAIN Decls : Keys(s) = UNION {KeysOf(t) : t \in T}
WholeUnits == Whole(disk.syms)

\* After a first pass that ran to its end undisturbed, all symbols of its units
\* are in the database, whatever the runs before it left in the file.
Latest(r)    == \A q \in Runs : q > r => pc[q] = "start" /\ unit[q] = 1
PassCollects ==
  \A r \in Runs : InTurn /\ Collects(r) /\ Completed(r) /\ Latest(r) =>
    \A t \in UnitsOf(r) : KeysOf(t) \subseteq Keys(disk.syms)

\* The second pass finds every clash of a definition in its units with a
\* definition in another file that an earlier first pass has seen, if that pass
\* and all since went well; what went wrong before does not matter.  (One place
\* that is a declaration in one unit and a definition in another is left out:
\* it has one key, and the database keeps what it met first.)
Clash(d, e)     == d.def /\ e.def /\ d.name = e.name /\ d.file # e.file
OneMeaning(e)   == \A o \in Symbol : o.file = e.file /\ o.pos = e.pos => o = e
Earlier(r)      == {p \in 1..(r - 1) : Collects(p) /\ \A q \in p..(r - 1) : Completed(q)}
Gathered(r)     == UNION {Symbols(t) : t \in UNION {UnitsOf(p) : p \in Earlier(r)}}
ClashesReported ==
  \A r \in Runs : InTurn /\ Completed(r) =>
    \A k \in Checks[r] \cap Rules : \A t \in UnitsOf(r) :
      \A d \in Symbols(t) : \A e \in Gathered(r) :
        Clash(d, e) /\ OneMeaning(e) =>
          \E x \in reports : x.run = r /\ x.rule = k /\ x.decl = d /\ e \in x.others

\* What the two passes promise when nothing disturbs them: the first one's symbols are all
\* there, and the second one finds their clashes.
PassesComplete == PassCollects /\ ClashesReported

\* Runs that do not overlap implement SymbolCollection; while the file is being
\* written, what is about to be in it counts.  (Nothing is promised of the others.)
Writers == {r \in Runs : pc[r] = "write"}
Collection == INSTANCE SymbolCollection WITH
  SymbolsOf <- [t \in DOMAIN Decls |-> KeysOf(t)],
  known     <- IF ~InTurn THEN {} ELSE IF Writers = {} THEN Keys(disk.syms) ELSE Keys(collected[CHOOSE r \in Writers : TRUE])

\* The database grows by one whole translation unit at a time; only a run that
\* dies while it writes loses it.
ImplementsCollection == Collection!Spec
=============================================================================
