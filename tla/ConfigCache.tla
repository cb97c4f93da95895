----------------------------- MODULE ConfigCache -----------------------------
(***************************************************************************)
(* How the options of a file are found.  FileOptionsBaseProvider walks from*)
(* the directory of the file to the root and collects the .clang-tidy files*)
(* up to the first that does not set InheritParentConfig.  What it reads it*)
(* keeps in a cache for the whole run, together with the directories that  *)
(* it passed on the way: their nearest configuration is the same.          *)
(* getOptions then merges what it found, the farthest configuration first, *)
(* between the defaults and the options of the command line.               *)
(*                                                                         *)
(* One action is one turn of the loop in addRawFileOptions.  The files do  *)
(* not change while the program runs.                                      *)
(***************************************************************************)
EXTENDS Integers, Sequences, SequencesExt, FiniteSets

CONSTANTS
  Dirs,          \* the directories
  Path,          \* Path[d]: d, its parent, and so on up to the root
  Trees,         \* tree[d]: what is in the configuration file of directory d
  Options,       \* Options[s]: what source s sets, see below
  MaxLookups,    \* bound: lookups during the run
  CommandLine    \* -config: "no", "alone" or "inherit" (InheritParentConfig)

Commands == {"binary", "config", "checks"}  \* sources other than the directories
Sources  == Dirs \cup Commands
Unset    == "unset"

\* The paths form a tree: from any directory on, a path is that directory's.
ASSUME PathAssumption ==
  /\ Path \in [Dirs -> Seq(Dirs)]
  /\ \A d \in Dirs : Len(Path[d]) >= 1 /\ Path[d][1] = d
  /\ \A d \in Dirs : \A k \in 1..Len(Path[d]) : Len(Path[Path[d][k]]) = Len(Path[d]) - k + 1
  /\ \A d \in Dirs : \A k \in 1..Len(Path[d]) : \A j \in k..Len(Path[d]) :
       Path[Path[d][k]][j - k + 1] = Path[d][j]

\* No usable file ("none": absent, empty or in error), or one with or without
\* InheritParentConfig.
Contents == {"none", "alone", "inherit"}
ASSUME TreesAssumption == \A t \in Trees : t \in [Dirs -> Contents]

\* A source sets an ordered list of globs of Checks, a HeaderFilterRegex, an option
\* of a check under its local and under its global name, and MappingFiles.
ASSUME OptionsAssumption ==
  /\ DOMAIN Options = Sources
  /\ \A s \in Sources : /\ DOMAIN Options[s] = {"checks", "header", "local", "global", "mappings"}
                        /\ Options[s].checks \in Seq([name : STRING, on : BOOLEAN])
  /\ Dirs \cap Commands = {}
  /\ CommandLine \in {"no", "alone", "inherit"}
  /\ MaxLookups \in Nat

VARIABLES
  tree,       \* the configuration files
  memorized,  \* CachedOptions.Memorized: a position in storage for each cached path
  storage,    \* CachedOptions.Storage: the configurations read, by their directory
  phase,      \* "idle", "walk", "merge", "answered" or "crashed"
  dir,        \* the directory of the file whose options are looked for
  root,       \* RootPath, as a position in Path[dir]
  at,         \* CurrentPath, as a position in Path[dir]
  found,      \* the configurations found, closest first
  raw,        \* getRawOptions: the sources in order of increasing priority
  lookups     \* number of lookups, bounded by MaxLookups

vars == <<tree, memorized, storage, phase, dir, root, at, found, raw, lookups>>
-----------------------------------------------------------------------------
\* tryReadConfigFile yields options.
HasConfig(d) == tree[d] # "none"
Inherits(d)  == tree[d] = "inherit"

Here == Path[dir][at]

\* The cache after the configuration at Here was read: the paths from RootPath to
\* Here get it.
NotHere  == [d \in DOMAIN memorized \cup {Path[dir][k] : k \in root..(at - 1)} |->  \* mutant: off by one
               IF \E k \in root..(at - 1) : d = Path[dir][k] THEN Len(storage) + 1 ELSE memorized[d]]
FromFile == [d \in DOMAIN memorized \cup {Path[dir][k] : k \in 1..at} |->  \* mutant: RootPath stays
               IF \E k \in 1..at : d = Path[dir][k] THEN Len(storage) + 1 ELSE memorized[d]]
Memorize == [d \in DOMAIN memorized \cup {Path[dir][k] : k \in root..at} |->
               IF \E k \in root..at : d = Path[dir][k] THEN Len(storage) + 1 ELSE memorized[d]]

\* What follows a configuration c: the parent directory, if c inherits from it.
OnPastRoot(c) == IF Inherits(c) THEN "walk" ELSE "merge"             \* mutant: no end at the root
OnAnyway(c) == IF at < Len(Path[dir]) THEN "walk" ELSE "merge"       \* mutant: no break
Onward(c) == IF Inherits(c) /\ at < Len(Path[dir]) THEN "walk" ELSE "merge"

\* The sources, closer configurations later.
FromCommandLine == IF CommandLine = "no" THEN <<"checks">> ELSE <<"config", "checks">>
Unreversed(cs) == <<"binary">> \o cs \o FromCommandLine     \* mutant: closest first
Ordered(cs)    == <<"binary">> \o Reverse(cs) \o FromCommandLine

\* mergeWith, source by source: lists grow at their ends, other settings are replaced.
LastOf(s, S) == Max({i \in DOMAIN s : s[i] \in S} \cup {0})
Setting(field) == {x \in Sources : Options[x][field] # Unset}
Value(s, field) == LET i == LastOf(s, Setting(field)) IN IF i = 0 THEN Unset ELSE Options[s[i]][field]
\* Of each check the sources whose globs name it, and those whose last such glob enables it.
AllChecks == UNION {{Options[s].checks[k].name : k \in DOMAIN Options[s].checks} : s \in Sources}
GlobsFor(x, n) == {j \in DOMAIN Options[x].checks : Options[x].checks[j].name = n}
Naming   == [n \in AllChecks |-> {x \in Sources : GlobsFor(x, n) # {}}]
Enabling == [n \in AllChecks |-> {x \in Naming[n] : Options[x].checks[Max(GlobsFor(x, n))].on}]
-----------------------------------------------------------------------------
Init ==
  /\ tree \in Trees
  /\ memorized = <<>>
  /\ storage = <<>>
  /\ phase = "idle"
  /\ dir \in Dirs
  /\ root = 1 /\ at = 1
  /\ found = <<>>
  /\ raw = <<>>
  /\ lookups = 0

\* getRawOptions for a file in directory d.
LookUp(d) ==
  /\ phase \in {"idle", "answered"} /\ lookups < MaxLookups
  /\ lookups' = lookups + 1
  /\ dir' = d
  /\ root' = 1 /\ at' = 1
  /\ found' = <<>>
  /\ phase' = IF CommandLine = "alone" THEN "merge" ELSE "walk"
  /\ UNCHANGED <<tree, memorized, storage, raw>>

\* The current path is cached.
Hit ==
  /\ phase = "walk" /\ Here \in DOMAIN memorized
  /\ LET c == storage[memorized[Here]]
     IN  /\ found' = Append(found, c)
         /\ phase' = Onward(c)
  /\ at' = at + 1
  /\ UNCHANGED <<tree, memorized, storage, dir, root, raw, lookups>>

\* It is not, and holds no configuration.
Miss ==
  /\ phase = "walk" /\ Here \notin DOMAIN memorized
  /\ ~HasConfig(Here)
  /\ phase' = IF at < Len(Path[dir]) THEN "walk" ELSE "merge"
  /\ at' = at + 1
  /\ UNCHANGED <<tree, memorized, storage, dir, root, found, raw, lookups>>

\* It is not, and its configuration is read.
Read ==
  /\ phase = "walk" /\ Here \notin DOMAIN memorized
  /\ HasConfig(Here)
  /\ storage' = Append(storage, Here)
  /\ memorized' = Memorize
  /\ root' = at + 1
  /\ at' = at + 1
  /\ found' = Append(found, Here)
  /\ phase' = Onward(Here)
  /\ UNCHANGED <<tree, dir, raw, lookups>>

\* parseConfiguration looks at the MappingFiles without asking whether the file
\* sets them; if not, anything may happen, the end of the program included.
ParseCrash ==
  /\ phase = "walk" /\ Here \notin DOMAIN memorized
  /\ HasConfig(Here) /\ Options[Here].mappings = Unset
  /\ phase' = "crashed"
  /\ UNCHANGED <<tree, memorized, storage, dir, root, at, found, raw, lookups>>

\* The sources are complete, and getOptions merges them.
Merge ==
  /\ phase = "merge"
  /\ phase' = "answered"
  /\ raw' = Ordered(found)
  /\ UNCHANGED <<tree, memorized, storage, dir, root, at, found, lookups>>

\* The path of the file cannot be made absolute: no options from files, and
\* without -config none at all.
NoPath ==
  /\ phase \in {"idle", "answered"} /\ lookups < MaxLookups
  /\ CommandLine # "alone"
  /\ lookups' = lookups + 1
  /\ phase' = "idle"
  /\ raw' = IF CommandLine = "no" THEN <<>> ELSE Ordered(<<>>)
  /\ UNCHANGED <<tree, memorized, storage, dir, root, at, found>>

Next == (\E d \in Dirs : LookUp(d)) \/ Hit \/ Miss \/ Read \/ ParseCrash \/ Merge \/ NoPath

Spec == Init /\ [][Next]_vars
-----------------------------------------------------------------------------
TypeOK ==
  /\ tree \in [Dirs -> Contents]
  /\ storage \in Seq(Dirs)
  /\ DOMAIN memorized \subseteq Dirs
  /\ \A d \in DOMAIN memorized : memorized[d] \in DOMAIN storage
  /\ phase \in {"idle", "walk", "merge", "answered", "crashed"}
  /\ dir \in Dirs
  /\ root \in Nat \ {0} /\ at \in Nat \ {0} /\ root <= at
  /\ phase = "walk" => at <= Len(Path[dir])
  /\ found \in Seq(Dirs)
  /\ raw \in Seq(Sources)
  /\ lookups \in 0..MaxLookups

\* The nearest configuration of a directory, as a position in its path.
NearestAt(d, k) == HasConfig(Path[d][k]) /\ \A j \in 1..(k - 1) : ~HasConfig(Path[d][j])

\* Whatever lookups filled the cache, and in whichever order, a cached path leads
\* to its own nearest configuration.
NearestMemorized ==
  \A d \in DOMAIN memorized : \E k \in 1..Len(Path[d]) :
    NearestAt(d, k) /\ storage[memorized[d]] = Path[d][k]

\* No configuration file is parsed twice.
ReadOnce == \A i, j \in DOMAIN storage : storage[i] = storage[j] => i = j

\* The cache is what a walk without it would find: each path that was passed leads to
\* its nearest configuration, of which there is one copy (FileOptionsBaseProvider).
CacheSound == NearestMemorized /\ ReadOnce

\* What a lookup without a cache would find: the configurations with no other
\* between them and the file that does not inherit.
Chain(d) == {k \in 1..Len(Path[d]) : /\ HasConfig(Path[d][k])
                                     /\ \A j \in 1..(k - 1) : tree[Path[d][j]] # "alone"}

\* External (GlobList): the last glob that matches a check decides.
EnabledBy(s) == {n \in AllChecks : LET i == LastOf(s, Naming[n]) IN i # 0 /\ s[i] \in Enabling[n]}

\* External (getLocalOrGlobal): of the two names of an option the one set by the
\* source of higher priority counts, the local one if both are set by it.
OptionOf(s) == IF LastOf(s, Setting("global")) > LastOf(s, Setting("local")) THEN Value(s, "global") ELSE Value(s, "local")

\* The sources that a lookup without a cache applies to a file in d, and how strong each
\* is: the command line, then the directories from d upwards, then the defaults.
Applied(d) == {"binary"} \cup {FromCommandLine[i] : i \in DOMAIN FromCommandLine}
                \cup IF CommandLine = "alone" THEN {} ELSE {Path[d][k] : k \in Chain(d)}
Strength(d, x) == CASE x = "binary" -> 0
                    [] x = "config" -> Len(Path[d]) + 1
                    [] x = "checks" -> Len(Path[d]) + 2
                    [] OTHER -> Len(Path[d]) + 1 - CHOOSE k \in 1..Len(Path[d]) : Path[d][k] = x
Strongest(d, S) == CHOOSE x \in S \cap Applied(d) : \A y \in S \cap Applied(d) : Strength(d, y) <= Strength(d, x)

\* "it will take a configuration file in the parent directory (if any exists) and
\* apply this config file on top of the parent one".  The cache may make it apply a
\* configuration several times in a row, which doubles the entries of its lists; apart
\* from that what is applied, and in which order, is what a lookup without a cache would
\* apply, and in a first lookup nothing is repeated.
AppliedInOrder ==
  /\ {raw[i] : i \in DOMAIN raw} = Applied(dir)
  /\ \A i, j \in DOMAIN raw : i < j => Strength(dir, raw[i]) <= Strength(dir, raw[j])
  /\ lookups = 1 => \A i, j \in DOMAIN raw : i < j => raw[i] # raw[j]

\* What a lookup without a cache would make of the settings: the strongest source that
\* sets one decides.
SetBySome(S) == S \cap Applied(dir) # {}
Fresh(field) == IF SetBySome(Setting(field)) THEN Options[Strongest(dir, Setting(field))][field] ELSE Unset
GlobalCounts ==
  /\ SetBySome(Setting("global"))
  /\ \/ ~SetBySome(Setting("local"))
     \/ Strength(dir, Strongest(dir, Setting("global"))) > Strength(dir, Strongest(dir, Setting("local")))

\* Whatever the cache holds, and although it makes a lookup repeat configurations: a check
\* is enabled if the strongest source that names it says so, and the header filter and
\* the option of a check are those of the strongest source that sets them.
EffectiveAsFresh ==
  phase = "answered" =>
    /\ EnabledBy(raw) = {n \in AllChecks : SetBySome(Naming[n]) /\ Strongest(dir, Naming[n]) \in Enabling[n]}
    /\ Value(raw, "header") = Fresh("header")
    /\ OptionOf(raw) = Fresh(IF GlobalCounts THEN "global" ELSE "local")
    /\ AppliedInOrder

\* A lookup finds the configurations of the chain, all of them and no others.
WholeChain == phase = "merge" /\ CommandLine # "alone" =>
                {found[i] : i \in DOMAIN found} = {Path[dir][k] : k \in Chain(dir)}
=============================================================================
