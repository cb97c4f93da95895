# Formal model of clang-tidy-automotive

clang-tidy-automotive is clang-tidy (the code under `prepatch/` and `src/ClangTidyDiagnosticMapping.*`
replaces files of the host) with about 300 checks for automotive coding rules. This directory holds
TLA+ modules that model the parts of it that keep state, the TLC configurations that check them on
small instances, and proofs that TLAPS checks for every instance.

To check a module: `tlc -config <run>.cfg <MC module>`; to check a proof: `tlapm <module>Proofs.tla`.
`PROJECT.json` lists runs, theorems, hazards, and for each definition the source lines it stands for.

## 1. The system

| part | state it keeps | operations | talks to |
|---|---|---|---|
| Diagnostic mapping layer, `src/ClangTidyDiagnosticMapping.*` | mapping table, copied counters | `HandleDiagnostic`, reading of mapping files | is the client of the diagnostics engine; calls the consumer, reports through the engine again |
| Diagnostic consumer and context, `prepatch/ClangTidyDiagnosticConsumer.*` | the vector of errors, three flags about the last one, two regexes, statistics, current file and its options | `HandleDiagnostic`, `finalizeLastError`, `checkFilters`, `take` | called by the mapping or by the engine; reports NOLINT errors back through the engine |
| Driver, `prepatch/ClangTidy.cpp` | replacements per file, counters of fixes | `createASTConsumer`, `reportDiagnostic`, `finish`, `runClangTidy`, `handleErrors` | sets the current file; consumes what `take` returns; writes files |
| Options, `prepatch/ClangTidyOptions.*` | cache of configuration files | `getOptions`, `addRawFileOptions`, `mergeWith`, `parseConfiguration` | asked by the context for every file, several times |
| Symbol database, `automotive/storage/{ExternalSymbolCollector,DuplicateExternalIdentifier,MultipleExternalDefinition}Check.cpp` | a JSON file that outlives the process; per translation unit the symbols collected, the table loaded | collect, write, load, compare | processes meet in the file only |
| Checks of threads and mutexes (`stdlib`) | maps and sets filled by matchers or visitors, evaluated at the end | `check`, `onEndOfTranslationUnit` | report diagnostics to the context |
| Preprocessor monitors (`preprocessor`) | stacks of conditionals, maps of macros and files | the `PPCallbacks`: macros, conditionals, files, end of the main file | called by the preprocessor in the order of the text; two check again over the AST |
| Comment and literal scanners (`comment`, `utils`) | the state of a scanner within one comment | `HandleComment`, `CheckComment` | called for each comment |
| Checks of control flow (`statement`, `return`, `cpp23`) | one of them the previous switch and default | `check`, recursive walks over statements | same |
| Essential types and expressions, `_Generic` (`type`, `expression`, `operator`, `cpp23`) | none; what is known of an operand is computed again at each node | `check` at each node of an expression | several checks share a node, each leaving a part to the others |
| Checks of pointers, lifetimes and unions (`pointer`, `array`, `cpp23`) | one: the member last written, per union variable | `check`; searches for the origin of a pointer | same |
| Checks of the standard library (`stdlib`, `cpp23`) | none or a set per unit | `check`, walks to the statements before and after | same |
| Checks of classes and of exceptions (`cpp23`) | none | `check` on a class, a throw, a handler | same |
| Checks of side effects, of loop counters and parameters (`expression`, `statement`, `function`, `cpp23`) | none | `check`, searches through one statement or one body | same |
| Checks of declarations and scopes (`storage`, `function`, `type`, `unused-code`, `cpp23`) | sets of names and declarations of a unit | `check`, some at the end of the unit | same |
| Registration (`*Component.cpp`, `ClangTidy.cpp`) | one table of factories by name | `addCheckFactories`, `createChecks`, `getCheckNames` | asked by the driver for every unit |
| Checks of one matcher | none | `check` | same |
| Scripts, documentation, examples | none at run time | | |

The analyser runs on one thread. What makes it hard all the same:

* *Re-entrance.* A diagnostic that is being handled can report others: unmatched NOLINT directives,
  alternatives of the mapping. The handlers share flags that speak of "the last error".
* *Delayed decisions.* An error is judged when the next one arrives, possibly in another file and
  under other options.
* *Things that outlive a file.* Regexes, the cache of configuration files and the vector of errors
  live as long as the process, the symbol database longer; several processes may write it.
* *Partial failure.* Fixes span files; a file may be unreadable; a run may die between truncating
  the database and writing it.
* *Verdicts about another program.* Most checks decide from the text near one node what several steps
  of the analysed program will do, in orders that the text does not show: threads, exceptions, loops,
  conversions to a base and back. What a check promises can only be stated against an execution.

## 2. Modules

| module | kind | what it models |
|---|---|---|
| `DiagnosticPipeline` | component | mapping, consumer, context and the loop over files: what becomes of each diagnostic and note |
| `DiagnosticGroups` | abstract | what that promises: groups of a diagnostic and its notes, shown or dropped as a whole |
| `FixConflicts` | component | what becomes of fix-its: alias merge, sweep, reporting, writing |
| `ConfigCache` | component | looking up the options of a file with the cache, and merging them |
| `SymbolDatabase` | component | any number of processes that collect into, and check against, the symbol database |
| `SymbolCollection` | abstract | what the first pass promises: the database grows by whole translation units, or is lost as a whole |
| `StatementChecks` | component | the checks of switches, loops, jumps and returns on one function body, and the execution of that body |
| `PreprocessorMonitors` | component | the monitors of `automotive/preprocessor` with the preprocessor they listen to; composes `CommentScanners` |
| `CommentScanners` | operators | the checks of comments as functions of the text of one comment |
| `ExpressionChecks` | component | fifteen checks of conversions and operators on one expression, with the value the expression has at run time |
| `PointerChecks` | component | 24 checks of pointer arithmetic, casts, lifetimes and missing values on one function, and where its pointers lead |
| `UnionAccesses` | component | the check that remembers the member of a union that was written last, and a loop that runs over the accesses |
| `GenericSelections` | component | twelve checks of `_Generic`, the association the compiler takes and what is evaluated |
| `ErrnoTests` | component | the two checks of errno on one function, and errno when it runs |
| `LibraryObjects` | component | checks of FILE pointers, streams, strings of the library, thread-specific storage, waits and exit handlers, with the objects |
| `SharedAccesses` | component | checks of shared and atomic objects, memory orders and nested locking, and two threads that run |
| `ClassObjects` | component | fourteen checks of classes, conversions and copies, and the life of an object |
| `ThrownExceptions` | component | checks of throws, handlers and specifications, and the way an exception takes |
| `SideEffects` | component | fourteen checks of effects, assignments and conditions in one statement, executed in all orders |
| `LocalChanges` | component | checks of loop counters, early exits and parameters, and the loop or the call |
| `FileDeclarations` | component | checks of linkage, storage classes, prototypes and users over the declarations of one name |
| `NameScopes` | component | checks of hidden and repeated names, inline types and too wide scopes over nested scopes |
| `CheckRegistry` | component | which class runs under which name, from the registrations to the checks of one unit |
| `ConfiguredChecks` | composition | `ConfigCache` and `CheckRegistry`: the checks that one unit gets from the options of its directory |
| `Reports` | operator | what one check says of one node |
| `SyncChecks` | component | the checks of rules 21.26, 22.11, 22.17, 22.18 and 22.19 that remember calls, in one traversal of a translation unit |
| `MC...` | instances | constants for TLC |
| `...Proofs` | proofs | theorems about the component |

### DiagnosticPipeline

`agenda` is the call stack of handlers: a call that is on it has not returned yet. The engine's
`Report` pushes `Dispatch`; the mapping's `HandleDiagnostic` becomes `Consume` (forward the
original), `Alts` (the loop) and `Sync` (the counters); the consumer's becomes one of `IgnoreNote`,
`Suppress`, `AttachNote`, `AddError`. `Suppress` pushes the NOLINT errors it reports *before* the
rest of the agenda, as the nested calls run to completion before the outer call returns.
`finalizeLastError` is `Verdict`/`Settled`/`SettledStats`, part of `AddError` and of `Take`. The
flags `relates`, `passes`, `ignored` and the two regexes `header`, `exclude` (each remembered as the
file whose options it was built from) are the members of the consumer with those meanings. The
location predicates (main file, system header, line filter, the regexes of each file) are constants:
any assignment is possible, and the theorems hold for all of them. NOLINT matching is external and
modelled from its interface: which names are silenced at a place, and that reading a file's blocks
for the first time yields its unmatched directives.

Ghost state: `root` and `gen` of a diagnostic (from which report it stems, and whether it is an
alternative), `subject` (the diagnostic the reporting code is talking about).

### FixConflicts

Starts from every list of diagnostics in `Reported`, as `take` finds it after sorting. One action
per turn of the alias loop, per event of the sweep, per diagnostic reported and per file written.
`Priority` is the tuple that `Event` builds, compared lexicographically as in `operator<`.
`Replacements::add` is external: it refuses a replacement that overlaps one that is there. A replacement at
no place in a file (`InvalidLocation`) counts as a fix but is passed over (`Applicable`), so a fix is whole
as far as it is in files.

### ConfigCache

One action per turn of the loop of `addRawFileOptions`: `Hit`, `Miss` or `Read`. Paths are given
by a constant `Path` (a directory, its parent, ..., the root), so that the positions `at` and
`root` are `CurrentPath` and `RootPath`. `Merge` is `getOptions`; of the merged options each kind is
read off the sources in their order: the last that sets a field (`overrideValue`), the last glob for a check
(the lists are joined end to end). `ParseCrash` is the other outcome of the undefined behaviour in
`parseConfiguration`.

### SymbolDatabase

A process runs over its translation units; in each, the collector reads the file when it is
constructed (`StartUnit`), sees the declarations one by one (`Match`), and at the end truncates
(`OpenOutput`) and writes (`WriteOutput`) the file. The checks of the second pass load the table at
their first match. Processes interleave freely in the schedules of `Overlapping`; those in `Faulty`, and all that
overlap, may die or fail to open the file. The refinement of `SymbolCollection` maps what lies in the file and in the table of the
writer at work to the set `known`.

### SyncChecks

A translation unit is a sequence of nodes in the order of the traversal: function definitions and the
calls the checks look at, each with the definitions around it and with what its arguments refer to
(the names by which four of the checks know an object, the variable by which the fifth does). `at` is
the node the matchers have reached. At a function definition the two visitors start (`EnterFunction`)
with fresh maps and walk through the body, nested functions included (`visit`, `step`), before the
traversal goes on into that body (`LeaveFunction`); so a nested function is walked through several
times. The two visitors are independent and walk in step here. The `Match...` actions are `check()` of
the other three; `EndUnit` is `onEndOfTranslationUnit`. Each property compares the reports at the end
with what the text of the unit calls for, stated over the whole sequence and without the maps.

### StatementChecks

A function body is a tree of statements numbered in the order of the text. Each check is the set of
statements it reports, computed by the walk its code makes (`ContainsTerminator`, `AlwaysReturns`,
`Labelled`, ...); `WrongOrderInSwitchStmtCheck`, which compares each match with the one before, is a
state machine over the matches (`MatchSwitchCase`): `rest` is the set of those to come, `NextMatch` the
first of them. When the analysis is done the body *runs*: `Succ` is where control may go from a statement,
as the language defines it, with conditions that may hold or not. `Parses` says which trees are bodies:
the statements in a statement follow it without a gap, each kind has as many as it must have, labels, jumps
and defaults stand where they may; TLC evaluates it on every body of the run. The properties compare the
reports with what an execution does.

### PreprocessorMonitors and CommentScanners

One action per directive (`Define`, `Undef`, `If`, `Elif`, `Else`, `Endif`, `Include`, `Once`, `Use`,
`Declare`, `Comment`, `Skip` for skipped text), per end of a file and per match of the AST afterwards.
Each action does what the preprocessor does (files, conditionals, macros, the controlling macro of a
file, the value of a condition) and what every check's callback does. Conditions and macro bodies are
sequences of tokens. `history` is ghost state: the definitions in their order, which were expanded or
removed, which entries of a file handed text to the compiler (`bodies`) and how much was defined when each
of them began (`begun`), the value of each condition. `CommentScanners` gives the scanner of
comments (`NextState`, `CommentScan`) over characters, with line splices as one character.
An `#elif` or `#else` behind a branch that was taken calls no check back (`Called`).
`EventsJudged` is about the events of the preprocessor: its stack of conditionals (`IfsMatched`: the check never
holds one that has ended, and holds the right ones where no system header has any), headers
(`HeadersJudged`), names (`NamesJudged`) and comments (`CommentsJudged`); `ConditionsJudged` about the values
of conditions and macro bodies. `UnitsAssumption` says which texts are units; TLC evaluates it on those of the run.

### ExpressionChecks

An expression is put together as the compiler reads it: an operand (`Init`), an operator with another
operand (`Binary`), `Unary`, `Cast`, and last the place the value goes to (`Declare`, `Assign`,
`Update`). Each action adds what the checks report at that node from the types and the constants. The
value that the node has at run time and what was lost on the way to it are computed by the conversions
of the language with the widths of the constants; only the properties look at them.

### Checks beside an execution

The other modules of checks have one plan. One half is what the checks compute from the text: each
check is an operator, named as its class without `Avoid` and `Check`, that says for which nodes,
statements or declarations it reports. The other half is what the language and its library do
with that text; it is marked external. The program is put together step by step where its text decides
(pointers, declarations, scopes, selections), or drawn from a set of the MC module (programs of threads,
of exceptions, statements with effects, loops). The properties compare the two halves: what goes wrong
was reported, and what was reported goes wrong, up to gaps that the comment above each property lists.

* `PointerChecks`: a pointer expression grows by one action per step (`Element`, `Plus`, `Cast`) from a leaf; `JudgeSubtraction` and `Follow` are
  the turns of the loop in `findOrigin`, one state each, because they need not end. `event` is the first
  undefined event of the run; the pointer that caused it carries what was said about it.
* `UnionAccesses`: `Visit` is one match in the order of the text and keeps `LastWrittenMember`; then the
  accesses run in a loop, each guarded one or not. The check compares a read after it has seen the
  assignment around it, so a copy within one union is compared with what it is about to write (`Overwrites`).
* `GenericSelections`: `Associate` writes an association, `Choose` is the compiler, with compatible types
  and the conversions of the operand; `EvaluateChosen` counts the effects of a macro's argument.
* `ErrnoTests`: statements and blocks are read and run at the same time; the checks look back in one
  block, errno is what the last call has left.
* `LibraryObjects`: one statement per action, for one kind of object at a time (`topic`).
* `SharedAccesses`: a plain access takes two steps, an atomic one takes one, a store arrives late unless
  both orders are sequentially consistent; threads wait in `mtx_lock` and in `call_once`; the function that
  started them may return while they run. `ProgramFits` says which steps a type of object has.
* `ClassObjects`: `New`, `ConvertPointer`, `CopyTo`, `CallM`, `Delete` on an object whose dynamic type is
  known to the model only. `Line` is the smallest set with a class and the bases of its members.
* `ThrownExceptions`: a machine with frames, handlers, destructors of locals and specifications.
* `SideEffects`: a statement is a tree; `Results` are all outcomes over the orders the language leaves
  open, also with one kind of value forgotten (which shows what a report is about). `LocalChanges`: the
  rounds of a loop, or the statements of a function with its caller's objects.
* `FileDeclarations`, `NameScopes`: one action per declaration, use, scope; clang's chain of
  redeclarations, linkage, contexts and lookup are external. In `NameScopes` the function whose variable is
  to move runs with both declarations side by side (`differs`).
* `CheckRegistry`: `AddCheckFactories` registers one component after the other, in the order of the module;
  `CreateASTConsumer` makes the checks of one unit, and the checkers of the static analyzer, from the names
  that the options of the unit's directory enable. `ConfiguredChecks` composes it with `ConfigCache`.

The constants of these modules carry what the language demands of a program (`LocalAssumption`,
`ProgramsAssumption`, `SharedAssumption`, `SelectionAssumption`, `ObjectsAssumption`, `UnionAssumption`,
`HierarchiesAssumption`): a table of types, names that differ, no class above itself, bodies made of the
statements the module knows. The theorems need no more.

They run in one process each, and share no state but the diagnostics; so they are composed side by side
(`MCSyncChecks`, `MCExpressionChecks`, `MCSymbolDatabase`, `MCConfigCache`), one of them at work in each
behaviour, except for the registry, which is asked for the options that the cache has found.

## 3. Runs

Of the components that do their work within one call, none waits for another and none needs fairness.
`StatementChecks` also runs the programs it analyses, and there a check promises that something ends.
`Fairness` is that of the program that is analysed: a program that runs goes on (`WF` of `Next`), and a
condition of a loop that is evaluated again and again is false at last (`SF` of `LeaveLoop`, one for
each depth of loops, as an inner loop must not use up the patience of the outer one). Loops without
a condition are exempt, so the property says what it should: what is left to run for ever has been
reported. In `PointerChecks` the analyser itself has a loop that might not end: `WF` of `Follow` and
`JudgeSubtraction` says no more than that a loop which can take another turn takes it; `OriginFound` then
says that every search ends but for a variable that is its own initializer. A run of the analyser ends, so the configurations of the pipeline, the fixes, the options,
the database and the checks of threads set `CHECK_DEADLOCK FALSE`. The others check deadlock: a
function may be called again, a unit or an expression ends in an explicit stuttering step, and
nothing else may stop.

| run | bounds | shows |
|---|---|---|
| `pipeline_files` | 2 files, 4 reports, 8 locations | counters balance, flags describe the last error only, a warning is judged by its own file (the last of a file excepted), notes of suppressed diagnostics vanish, `take` loses nothing, errors are always shown, and the pipeline implements `DiagnosticGroups` |
| `pipeline_mapping` | 1 file, 5 reports, cyclic mapping items, an unmatched NOLINTBEGIN | notes keep their owner through nested reports; alternatives are never mapped again, client and counters are restored (`MappingTransparent`); alternatives are complete and merging aliases keeps promoted errors (`MappingFaithful`) |
| `fixes` | all lists of 3 fixes from 11 in two files, and lists of 3 diagnostics at 1 to 3 places with 4 fixes | no two fixes that are applied overlap; the sweep drops what its comment announces; its counters return to zero; aliases that disagree lose their fix; a fix is applied in all its files or in none |
| `config_lookups` | 5 directories, all 243 combinations of files, 3 lookups; units in C90, later C and C++, with the names their configurations enable | the cache is right and nothing is parsed twice (`CacheSound`), lookups find the whole chain; the effective options do not depend on the cache; the checks of a unit are those registered last under the enabled names (`ChecksJudged`) |
| `symbols` | 2 first passes over any of 4 units in any order, of which one may die or fail to write, a second pass that collects too; or 3 runs at the same time, each of which may. Besides: 4 declarations or uses of an object, 3 of a function, 5 of one with default values, in C and C++; 3 scopes, 3 declarations of a name, 2 uses of a type; functions with up to three references to a variable | a pass that succeeds repairs what others left and clashes are found whatever the order (`PassesComplete`); the database implements `SymbolCollection`; when runs overlap, what is lost is lost by whole units and no place is stored twice; declarations and scopes are judged as linkage, lookup and calls call for (`FileJudged`, `ScopesJudged`) |
| `checks_registered` | all registrations that share a name or a class, one other per component | *violation* |
| `runtime_checks` | threads and mutexes: units of two functions, nested or side by side, of one name or in a system header, with up to 5 calls on 2 names; errno: 5 statements, 3 blocks deep, 5 functions; library: 5 steps, 2 handlers; 4 steps with an object of a hierarchy; programs of three functions that throw; 14 operators, two deep; loops of 4 rounds with a limit of 3; two threads of up to three steps | locks, unlocks, joins, waits and timed locks are reported exactly where the text calls for it; what goes wrong with errno, objects, classes, exceptions, effects, counters, parameters and shared objects was reported, up to the listed gaps |
| `sync_missing_unlock` | units of threads and mutexes as above | *violation* |
| `statements` | switches of three items from 19, one switch within another, all five kinds of loops with two statements from 9, blocks with three statements from 7 around a label, in functions that may return or not | what the checks of switches and exits report, or leave unreported, agrees with where control goes; functions without a report end |
| `statements_unreachable` | as above | *violation* |
| `preprocessing` | two headers that are included twice, each in 9 forms; macro units of four directives from 10; 21 x 21 conditions on macros with 4 values; 13 macro bodies; comments of up to 4 characters | the headers and conditionals, names, conditions and comments are judged as the preprocessor's own work calls for |
| `expressions` | operands of 12 types at the ends of their ranges, two operators, 5 casts, 7 targets, both languages, widths 2 to 7 bits; functions of 3 statements with 2 steps between pointers, in 8 fragments of the language; 3 accesses to two unions; selections of 3 associations | where every check is silent the value is that of unbounded integers, up to the losses that are no check's business; the first undefined event of a run was announced (`MemoryJudged`); searches for an origin end (`OriginFound`); the association taken is the one the operand is written for, or this is reported (`SelectionsJudged`) |

Why the bounds suffice: the pipeline remembers one last error, so three reports and a note already
show every pair of neighbours in both orders, and two files every change of options; the sweep
compares intervals pairwise through one counter per file, and three fixes are the least with an
overlap hidden behind another; in the cache, five directories give a key below, beside and above the
directory asked for; what the checks of threads know of an object is one entry, so that three calls on
one name, with one on another in between, show every step of its life; two writers and a reader show every conflict on one file; what a check of control flow remembers is one
terminator, one default or one nesting, so that bodies of three items, with a block or a loop in them,
show each against a label that jumps past it; a conditional stack of two, a guard taken by one other
header and a macro defined twice are the least with which the monitors' tables can go stale; and as a
check of an expression sees one node at a time, two operators show what one check leaves to another at
the next node. The widths keep the order of the real ones (char < short < mantissa of float < int <
mantissa of double < long), which is all that the checks compare. A check that looks at one
statement and its neighbours shows each of its ways within the four or five steps it takes to make an
object, let it go stale and use it; two threads of three steps are the least with a lock on both sides
of an access, or with a store and a load each; three declarations give a first, a previous and a last
one; three scopes give a block within a block of a function; and a program of three functions puts one
frame between a throw and its handler. What depends on more than that is proved.

Every property comes with a mutant: a plausible slip in a definition (a flag not reset, the wrong end
of a vector, a missing entry of the cache) under which TLC finds the property violated.

## 4. Proofs

| theorem | says | assumes |
|---|---|---|
| `DiagnosticPipelineProofs!TypeCorrect` | the types, for all files, filters, NOLINT directives and mappings | the assumptions of the module on its constants |
| `...!NotesFindTheirError`, `NotesHaveAnError`, `NotesSound` | a recorded note is about the error it is recorded under; the assert "A diagnostic note can only be appended to a message" never fails; the two together are `NotesOwned` | same |
| `...!StatisticsBalance` | every diagnostic counted is displayed, filtered under one reason, or pending | same |
| `...!MappingIsTransparent` | the engine gets its client back, alternatives are not mapped in turn, and between reports the counters are the consumer's | same; mapping items may be cyclic |
| `...!AlternativesAreAdded` | every recorded original whose name is mapped has all of its alternatives (`AlternativesComplete`) | same; not for Clang's own diagnostics and NOLINT errors, which no item is meant to map |
| `...!MappingIsFaithful` | besides, merging aliases takes no upgrade back (`MappingFaithful`) | `Uniform`: the files agree on WarningsAsErrors and no name is recorded on two levels, without which the merge does lose upgrades; TLC evaluates it on the runs' instance |
| `...!ErrorsShown`, `ReportIsComplete` | errors are never dropped or moved; `take` loses none and shows no text twice at a place | same |
| `...!FlagsRight`, `JudgedRight` | the flags describe the last error; a warning that is kept was enabled in its own file, the last of a file excepted | same |
| `...!FiltersRight` | both, and the notes of what is silenced vanish (`FiltersExact`) | `Quiet`: no mapping items and no unmatched NOLINTBEGIN, each of which breaks the part on notes (section 5) |
| `...!PipelineImplementsGroups` | the refinement of `DiagnosticGroups` | same as `TypeCorrect` |
| `FixConflictsProofs!SweepKeepsAnnounced`, `AliasesMerged` | the sweep's counters end at zero and it keeps what its comment announces; merging aliases loses no diagnostic and keeps a fix only where all agree | the fixes of one diagnostic are apart |
| `...!SweepIsExact`, `FixesAreWhole` | besides, nothing that is applied overlaps, and a fix is applied whole | same, and no `--fix-notes`: with it `getFixIt` falls back on a note that the sweep has not seen |
| `ConfigCacheProofs!TypeCorrect`, `CacheSoundness`, `ChainFound` | the cache is right for every tree and every history of lookups | `Path` is a tree |
| `...!OptionsAsFresh` | the options merged from the cache are those of a lookup without it: the sources, their order, and what they make of checks, filters and check options; a first lookup repeats none | same |
| `...!LookupsAsAlone` | in the composition with the registry the lookups behave as they do alone | same |
| `...!ChecksRight` | each unit gets the checks that are enabled for it, each once and of the class registered last under its name, and the checkers of the analyzer (`ChecksJudged`) | same; the analyzer's checkers have names of their own |
| `SymbolDatabaseProofs!TypeCorrect`, `NoPlaceTwice`, `LostByUnits` | the database under any number of concurrent, dying runs | the assumptions on the constants |
| `...!PassesDoTheirWork`, `DatabaseCollects` | runs in turn: a pass repairs what others left and clashes are found; the refinement of `SymbolCollection` | same; both properties speak of runs that do not overlap |
| `...!DeclarationsRight` | the declarations and uses of one name in a header and a source file, however many | none beyond the bound's type |
| `...!ScopesRight` | names in any nesting of scopes, structs with any number of uses, and a variable of any function (`ScopesJudged`) | the functions are texts: a block is in one place and is not come back to |
| `SyncChecksProofs!TypeCorrect`, `UnlocksRight`, `RelocksAndLeftovers`, `WaitsRightly` | the types, and the reports of rules 22.17, 22.18, 22.11, 22.19 and 21.26, for every translation unit | units are sequences of nodes in the order of a traversal; the empty name is no name |
| `CheckedProgramsProofs!ChangesRight` | loop counters, jumps and parameters, for all loops and functions | bodies are made of the statements the module knows |
| `...!ExceptionsRight` | exceptions, for all programs of functions, handlers, destructors and moves | same |
| `...!LibraryUseRight` | errno, and the objects of the library, for all functions and sequences of calls | a table of functions; blocks nest at least once |
| `...!SelectionsRight` | `_Generic` with any number of associations | operands after the conversions that C applies |
| `...!AccessesRight` | two threads of any programs, in all interleavings and with late stores | programs fit `SharedAssumption` |
| `...!ClassesRight` | classes and their objects, for all hierarchies and all sequences of conversions, calls, copies and deletions | one base each, no class above itself; names differ |
| `SourceTextProofs!ControlRight` | switches, jumps, returns and unreachable code, for all function bodies, and however often they run | bodies parse |
| `...!EventsRight` | what the monitors make of conditionals, headers, names and comments, for all translation units (`EventsJudged`) | units fit `UnitsAssumption`: the files name each other, a file with an `#if` has an `#endif`, a comment is one |
| `MemoryProofs!MemoryRight` | pointers and unions, for all objects, types and texts | names differ; a cast says whether its target is const |

The arguments:

* *Notes.* `NoteOwner` is not inductive: it says nothing of the calls still on the agenda. The
  invariant adds that every call on the agenda serves the current `subject`, and that whenever a
  note could still be attached, the last error stems from that subject unless `ignored` is set.
* *Statistics.* Each handler changes the counters and the vector together; the invariant relates
  their sums, with the pending last error counted apart.
* *Mapping.* The client is the wrapped consumer only while a loop over alternatives is on the stack, with
  nothing but its deliveries above it; so no alternative meets the mapping, and the loop's end restores
  both client and counters. What is owed to an original whose loop is under way is on the agenda above
  the loop's end (`LoopInv`, `OwedInv`), and the list it came from starts at its first item (`PlaceInv`). In
  the merge, whether an entry is an error is a matter of its name (`LevelInv`).
* *Settling.* An error sets both flags, whatever its place, so a filter never asks further. The flags are
  the disjunction over the last error and the notes it has got so far; the diagnostics are numbered and
  files follow each other, so that of two errors the earlier is of the earlier file, and only the last of
  a file is settled under the next. Notes go wrong only where a nested report changes `ignored`, which is
  what `Quiet` excludes. In `take`, what represents a name at a place is the entry of the least rank and
  index. The refinement needs no more than these invariants: each handler is one step of the groups, or none.
* *Sweep.* The counter of a file counts the intervals that are open: the events already swept precede all
  others in the lexicographic order of `Priority`, so that when two intervals overlap the second event
  finds the first open. In the alias loop, the rest of the list is still the end of the input, and each
  place before it has one entry, whose fix is that of all diagnostics there or gone.
* *Cache.* `NearestMemorized` is not inductive: a walk that first meets a key and then reads a file
  would overwrite good entries, because `RootPath` does not move on a hit. It never happens, because
  the keys are closed upwards: if a key has a configuration that inherits, then the nearest
  configuration above it is a key too, or there is none (`ParentsKnown`), except while the walk that
  read it is under way (`Pending`). So after a hit a walk finds keys or nothing (`WalkKnown`).
* *Options.* What a walk has found lies below the current path or is the first configuration from there on
  (`FoundPassed`), so the next it finds is never closer (`FoundSorted`); merged in reverse, the sources have
  growing strengths. No two sources of one lookup are equally strong, so the last of them that sets something is
  the strongest that does, however often the cache repeats it. In a first lookup the keys are the
  paths already passed, and the cache answers nothing (`FirstWalk`).
* *Registry.* The registrations so far are linearly ordered by component and place in it, and the table
  holds, of each name, the last of them (`Lasting`): a component adds its own, one of a name each, and
  replaces what the table has under them. What a unit gets is that table cut down to the names its options enable.
* *Database.* Every table, in memory or on disk, is a sequence without repeated keys that holds all
  of some units, plus, in the run at work, a prefix of its current unit (`InUnit`, `Parts`). With runs in
  turn, what the collector holds is what the file held and the part of its unit that was seen; the file is
  blank only while it is written; and each place that is owed to a later pass is handed on, from the last
  first pass that went well to the end of the next.
* *Declarations.* What a declaration or a use has to fit to stands before it, and what stands before a place
  stays the same when the file goes on (`GoesOn`, `SameBehind`); so each item still fits (`FileInv`): static
  from the first declaration on, one body, every use with a declaration it sees. Of two different default
  values the first place where the value changes has a neighbour that the check compares it with.
* *Scopes.* A path starts with the unit, each scope in it fits into the one before, and a scope is in one place
  (`PathRight`, `OnePlace`); so one path is inside another where it goes on from the other's last scope, and
  what the checks find by contexts they find by paths. The scope reported for a variable is a prefix of
  the path of each reference (`ScopeHolds`): outside of it nothing happens to the variable, so on the way there
  it has its first value, inside it has the value of the moved declaration, and the steps inside are one piece
  of the text, so it is not entered again but in a loop around it (`SideBySide`).
* *Threads and mutexes.* The properties speak of the end of a unit only. The invariants say the same of the
  nodes before `at` (`ReportsRight`), and what each table means: the lock of `h` that is open, the call that
  has held a mutex since it was last free, the last call on a thread, the increasing list of waits, the last
  initialization. How the open locks change from one node to the next is `OpenStep`. Visits leave the reports
  at `at` alone because it stands still at the function they walk through, and a body is one unbroken
  stretch of the traversal.
* *Loops and exceptions.* The body of a loop on which the checks are silent leaves the counter alone, so
  the counter is the number of rounds until the loop is left; what has `changed` is what the statements behind
  `position` write. The frames of a program form a stack whose outermost nobody called; one that is entered
  while an exception flies is a destructor, one that is entered by growing a container is a move; and the
  function where the exception's `fate` is decided does, or does not, let it out.
* *Library.* One invariant for each kind of object: what could go wrong next was reported, or is listed. For
  errno, open blocks are numbered by their place, those that run are the first ones, and the block of the last
  call shows it.
* *Threads that run.* A thread that has missed the other's flag has its own in place, for its store has arrived
  unless that was its right; the holder of the mutex locked it last, so it can go on; the atomic counter is the
  number of counts behind the threads; a struct that nobody writes has equal halves. What went wrong is in
  the end a matter of the object's type and the steps of the program, which is what the checks see.
* *Classes.* The line of a class is a chain, and nothing is above itself; so the nearest declaration of `m`
  in a line is there and is the only one, and if a class and a class above it find different ones, a
  declaration between them hides the other. A pointer has the type of its object or of a class above it, unless
  `reinterpret_cast` was reported or a `static_cast` went down; what goes wrong then at a call, a copy or a
  deletion is a matter of the two classes, which is what the checks see.
* *Control flow.* The walks of the checks are functions defined by recursion over the tree. `Recursion` proves
  that such a definition has a value: for every n there is one function that solves the equations at the
  places of rank below n, and the solutions agree; induction over numbers that the prover can do, because
  what is proved of n is a set of numbers and not an operator. So each walk satisfies its equation, and what is
  found of a statement is found of the last one run in it (`SameFound`). When control passes the end of `n` it goes on behind
  the first statement around `n` that holds it (`Holds`), and this gives every way into a clause or a block
  (`Enters`). That nothing behind a closed door runs is inductive only if it is said of all doors at once
  (`Alive`). For the defaults, the matches seen precede those to come, and PrevDefault is a default with a label
  of its switch behind it (`Walked`). A step leaves the body alone, and so all that depends on it (`Steady`).
* *Preprocessor and comments.* The places that have been read (`Past`) grow by the top line of the innermost
  file, and everything recorded is about one of them (`Recorded`); so a report on a place is made when it is
  read, or never (`SaidOn`). The last definition of each name carries the mark of `MacroUsage` (`LastDef`,
  `NamesRight`). The check's stack is the preprocessor's without the conditionals in skipped text, which are
  the innermost (`StackOf`), as long as no system header pops from it. Whatever pops, an entry stands for an open
  conditional inside of which at least as many are open as entries lie above it, in live text (`OpenOnly`); so a
  conditional that ends takes its entry with it. The scan of a comment is followed turn by turn (`ScanRight`). For headers, the
  conditionals of an entry are as many as its lines are nested (`CondsRight`); so in a file with a controlling
  macro the first one is open up to the last line, and no `#else` touches it: what the entry hands on is live
  only if the macro was undefined when the entry began (`GuardsRight`), that is, if nothing had defined it
  (`MacrosKept`, `Fresh`). So each entry with text began before every definition of the guard. And when an
  entry ends whose file has defined its macro, the macro stands for a definition, which another file can have
  made only if the two share the guard (`HeadersRight`).
* *Pointers and unions.* What can go wrong with a pointer has been said on it before it is used: outside of the
  object, in another type, without const, uninitialized (`BoundsSaid` and the others), and a variable keeps
  what was said of what it holds. The object of a text is that of its leaf, so a turn of the search leads to
  the same object as long as no variable on the way was assigned to (`HoldInv`, `SearchInv`); no measure is
  needed, as the theorem does not say that the search ends. For unions there is one history of members
  written last that both the check and a run in the order of the text go through.

Only model-checked, and why:

* `ConditionsJudged`, `ValuesJudged` and `EffectsJudged` compare what recursive definitions compute. The value of
  a condition (`Eval`) is defined over all parts of a sequence of tokens, with a choice of the weakest operator
  and powers of two. The bits and exponents of `ExpressionChecks` come from `Bitwise`, and the operators of
  `SideEffects` are RECURSIVE; a module that reaches either cannot hold a theorem. As recursive functions, the
  latter could be reasoned about by rank, as the walks of `StatementChecks` are (`Recursion`); that has not been done.
* `Ends` and `OriginFound`: liveness under fairness, which the prover does not handle.

## 5. Disagreements between code and documentation

Three are runs that end in a counterexample, with the line quoted in `PROJECT.json`:

* `sync_missing_unlock`: a lock without unlock is forgotten when another variable of its name is locked.
* `statements_unreachable`: the case label behind the `break` of the clause before is reported as unreachable
  code, and the switch leads to it (`LabelsNotReported`). A label that a `goto` reaches is reported likewise.
* `checks_registered`: six names are registered for two classes, so the earlier one never runs under its
  name; four classes have no other name (`AvoidOverlappingCopy`, `AvoidUnrelatedPointerConversion`,
  `AvoidUnrelatedPointerSubtraction`, `AvoidVoidPointerCast`). One name, `preprocessor-flow`, lacks the
  prefix `automotive-`.

Others were met while modelling; the model does what the code does, and the properties make the exception.

Pipeline and driver:

* The header filter of the first file that needs it is used for all files
  (`ClangTidyDiagnosticConsumer.cpp:582`).
* Notes of an unmatched NOLINTBEGIN reset the flag, so that notes of a suppressed warning reappear
  (`ClangTidyDiagnosticConsumer.cpp:379`).
* With `--fix-notes`, a diagnostic whose fix "will not be applied" has its note's fix applied.
* A repeated lookup applies an inherited configuration several times; a configuration without
  `MappingFiles` makes `parseConfiguration` dereference an empty optional (`ClangTidyOptions.cpp:523`;
  its comment promises options "or an error").
* An alternative of an item without a message has an empty text (`ClangTidyDiagnosticMapping.cpp:81`);
  fixes in files that `finish` passes over are counted as applied (`ClangTidy.cpp:209`).

Symbol database and threads:

* A definition at a place first seen as a declaration is not recorded
  (`ExternalSymbolCollectorCheck.cpp:96`); of two collecting runs that overlap, the later writer erases
  the symbols of the other (line 186), which `WholeUnits` limits to whole units.
* `mtx_timed` is taken to be 4 (`MtxTimedlockTypeCheck.cpp:23`), which is for the C library to choose.

Control flow:

* `MissingReturnCheck.cpp:83` spares functions with the GNU attribute only: one that is `[[noreturn]]` or
  `_Noreturn` is reported (`Spared`).

Preprocessor and comments:

* A header whose guard is defined only under some condition, or late, is not reported, though its text may reach
  the compiler several times before: `MissingHeaderGuardCheck` asks whether a definition is used as a guard,
  not when it was made. `HeadersJudged` promises protection from the definition on.
* A header with `#pragma once` alone is reported, though `MissingHeaderGuardCheck.cpp:110` speaks of it
  as a guard.
* The `#endif` of a system header pops the user's `#if`, whose own `#endif` is then judged by an outer
  one in another file, or not at all (`AvoidCrossFileIfCheck.cpp:62`).
* `AvoidUndef` is silent on an `#undef` of a macro that is not defined; there `AvoidReservedMacroIdentifier`
  loses its filter of system headers (line 100). Conditions of `#elif` that are not evaluated are judged,
  and identifiers that come out of a macro's body are not.
* `MacroParentheses` accepts `!p`, `IfExpressionValue` accepts `A + (B == 1)`.
* `AvoidCommentWithinComment` gives a note without a warning for an unknown protocol (line 117), and
  passes over a comment that ends in a spliced `*/`; `AvoidTrigraphCheck.cpp:65` computes `size() - 2`
  of an unsigned size.
* `AvoidCodeBeforeInclude` never learns of code: nothing calls `setSeenCode`.

Expressions:

* The example of `AvoidCompositeExpressionMismatchCheck.h:30` is not reported; the compound assignments
  that `AvoidInappropriateEssentialTypeCheck.cpp:27` matches are never judged; `isAnyCharacterType`
  makes `uint8_t` and `int8_t` characters.
* `AvoidImplicitConversionCheck.cpp:96` says that promotions are allowed, but those of unsigned types
  that change the sign are reported before that line.
* No check looks at: a plain initializer in C, a unary minus on an enumeration, the conversion of an
  enumeration to a narrower type in C++, `signed x op= enum`, `x /= 0`, a wrap-around of constants
  outside the initializer of a constant or a global variable.

Selections (`expression/Generic*`):

* Promotions are seen in `+ - * / %` only; the exception for integer constants is never reached. Decays
  deeper in the operand (`*a`, `a == 0`) are reported although its type is the one written.
* `GenericCompatibleTypes` never reports: the compiler rejects such a selection first.
* `GenericParameterUsage` counts functions and the argument's own repeated names, and misses arguments
  without names; `GenericParameterTypeCheck` takes `sizeof` for a use and is blind in headers and for the
  default.

Pointers and unions:

* For `T *p = p;` the loop that looks for the origin does not end, whatever
  `AvoidUnrelatedPointerSubtractionCheck.cpp:37` says of it.
* `AvoidUnionTypePunning` reports int against unsigned, against its own comment (line 31), and judges by
  the text order of accesses.
* `AvoidReturnLocalAddress` is silent if a const is added on the way; any `return p` of a local pointer is a
  dangling reference; `a[0] = 1` is reported as a read without a value; `memcpy` between `&a[0]` and `&a[1]`
  passes.

Library:

* `n = strtol(...); if (errno ...)` is reported, a test in the condition of a `while` never judged; the two
  checks of errno have different lists of functions.
* `CheckFilePointerValidity` never does what "we'll check usage later" says; `if (fopen(...))` is reported in
  C++. Streams of derived types are unknown, and only the next statement counts as a check.
* `NULL` is no null destructor for `TssUsage` in C; `tss_set` of the address of a local passes; a key whose
  type is `tss_t` by another name is reported at each use.
* Every use of a static object in a function is reported as unsynchronized, locked or not; objects handed
  to threads by address never are, nor types with "atomic" in their name. `x = x + 1` of an atomic object
  loses counts silently; a memory order in a variable is not seen.
* `ThreadObjectStorage` misses typedefs, arrays and members; the test `avoid-nested-sync-calls.c` (XFAIL)
  wants two locks in sequence reported, the code sees calls inside another's arguments only;
  `AvoidUninitializedAtomic` reports static objects, which are zero, and misses arrays.
* Every `tss_get` with a named key is reported, and none with an element of an array.

Classes and exceptions:

* `AvoidMemberPointerConversion` reports the safe direction. `VirtualDestructor` and
  `RequireVirtualDestructor` contradict each other on protected destructors; the latter also reports those
  that are virtual by inheritance. The matchers of `AvoidObjectSlicing` for variables and returned
  values never match.
* The example of `AvoidExceptionAcrossBoundaryCheck.h` with `noexcept(false)` is not reported. `NoexceptMove`
  reports `throw()`. A throw in a lambda is reported for the function around it, caught or not.

Effects, loops and parameters:

* `f() ? 1 : 0;` and `(int)f();` are reported as without effect. In C `if (x = 1)` and `return x = 1;` are not
  reported as used assignments, `x = 1, y = 2` is. `(void)f()` is asked for by one check and reported by another.
* `WellFormedForLoop` lets pass a loop that tests one counter and steps the other, and changes in inner
  loops. `AvoidNonConstPointerParam` judges the first pointer only and takes `(*p) = 1`, a copy or `*(p + 1)`
  for no change.

Declarations and scopes:

* `extern int v; int v = 1;` in a header defines `v` in every file silently. `MissingStatic` and `StaticStorageClass`
  ask for what `UseUnnamedNamespace` reports in C++. `AvoidGlobalObject` counts users per redeclaration, and
  `UnusedObjectDefinition` reports objects used in `sizeof`.
* `DefaultArgumentOrder` can report declarations in blocks only; `FunctionDeclarationMismatch` compares with
  the declaration just before.
* `AvoidIdentifierShadowing` does not see a block within a block, and reports globals that come later.
  `AvoidTagNameHiding` ignores that tags have a name space of their own in C. `AvoidInlineTypeDefinition` reports
  uses of a typedef, and no struct with a tag.
* `AvoidWideVariableScope`: `findCommonScope` starts above the block it is given, so each further reference
  goes one block up; moving into a loop, or past a change of what initializes the variable, changes values.

The mapping layer is latent in the tree as it stands: `AdditionalConfigFile::getFile()` returns an
empty name, so no mapping file is read. It is modelled as written, for the items a file would give it.

## 6. Not modelled, and the plan

Not modelled: the plugin path `forwardDiagnostic` (it needs an external engine), rendering of messages,
profiling, the analyzer, YAML syntax, clang-format, scripts and documentation; and the checks that are
one matcher with one message: a model of such a check repeats its matcher, and nothing can be said of it
that is not in the matcher. These are most of `cpp23`, `operator`, `literal`, `bitfield`, and the checks of
forbidden functions and headers in `stdlib`. Of the checks with an algorithm these are out:
the scanners of literals, `TgmathOperandType` (a list of names whose stripping loses `erf`, `ceil` and
`modf`), the sizes given to memory functions, array initializers.

In each module of checks the language is a fragment. The pointers have no pointers to pointers and no null;
the classes have one base, the exceptions no function-try-blocks; templates appear nowhere.

The plan, in order of weight:

1. The pipeline, the fixes, the options, the symbol database, the checks of threads and mutexes (done).
2. Checks with state or with algorithms over a unit: preprocessor monitors, comments, control flow,
   essential types, pointers, the library, classes, exceptions, side effects, declarations, scopes,
   shared objects, selections (done). Registration (done).
3. Still open: array initializers, literals, the sizes of memory functions.
4. Proofs: what the prover reaches of the properties above is proved (section 4); open are
   the three invariants that are only model-checked.
