----------------------------- MODULE SyncChecks -----------------------------
(***************************************************************************)
(* The checks of the rules on threads and mutexes that remember calls over *)
(* a translation unit.  One traversal of the syntax tree serves them all:  *)
(* MutexUnlockThreadCheck (rule 22.17), CondVarMutexAssociationCheck       *)
(* (22.19) and MtxTimedlockTypeCheck (21.26) are called for each call they *)
(* match, in the order of the text; ThreadJoinDetachCheck (22.11) and      *)
(* RecursiveMutexLockCheck (22.18) are called for each function definition *)
(* and walk through its body, bodies of nested functions included, before  *)
(* the traversal goes on into it.                                          *)
(***************************************************************************)
EXTENDS Integers, Sequences, FiniteSets

CONSTANTS
  Units,        \* the translation units: sequences of nodes in the order of the traversal
  Names,        \* the names of variables and fields
  Vars,         \* the variables; several may have one name
  NoVar,        \* a call whose argument is not a variable
  Functions,    \* the function definitions
  NameOf,       \* their names, without class or parameters
  SysFunctions  \* those in system headers

Life  == {"create", "join", "detach"}
Ends  == {"join", "detach"}
Calls == Life \cup {"lock", "timedlock", "unlock", "wait", "init"}

\* A node: op is "function" or a call; fns the enclosing function definitions,
\* outermost first, with the function itself; name and var what its first argument
\* refers to; addr if that is &var; with the name of the second argument of a wait;
\* flags the value of the second argument of mtx_init, -1 if it is not constant;
\* inDecl if the call is the initializer of a variable.
Node == [op : {"function"} \cup Calls, fns : Seq(Functions), name : Names \cup {""},
         var : Vars \cup {NoVar}, addr : BOOLEAN, with : Names \cup {""},
         flags : Nat \cup {-1}, inDecl : BOOLEAN]
ASSUME UnitsAssumption == \A u \in Units : u \in Seq(Node)
\* The traversal goes through the body of a function without a break.
ASSUME TraversalAssumption ==
  \A u \in Units : \A v, n \in DOMAIN u :
    LET In(k) == \E i \in DOMAIN u[k].fns : u[k].fns[i] = u[v].fns[Len(u[v].fns)]
    IN  u[v].op = "function" /\ v < n /\ In(n) => \A k \in (v + 1)..n : In(k)
ASSUME NamesAssumption ==
  "" \notin Names /\ NoVar \notin Vars /\ NameOf \in [Functions -> STRING]

VARIABLES
  unit,      \* the translation unit
  at,        \* the node the traversal has reached
  visit,     \* the function the two visitors walk through, 0 if none
  step,      \* ... and the node they have reached
  threads,   \* ThreadStates: the last call that created, joined or detached a thread
  held,      \* LockedMutexes of RecursiveMutexLockCheck: the call that locked it
  locks,     \* MutexLocks of MutexUnlockThreadCheck: the last call that locked it
  waits,     \* CondVarMutexMap: the waits on a condition variable
  types,     \* MutexTypes: the flags of an initialized mutex, -1 if unknown
  reports,   \* the diagnostics, each with its note
  ended      \* is the unit at its end?

vars == <<unit, at, visit, step, threads, held, locks, waits, types, reports, ended>>
-----------------------------------------------------------------------------
Nowhere == [h \in Names |-> 0]
Report(rule, n, m, v) == [rule |-> rule, at |-> n, note |-> m, in |-> v]

Positions == 1..Len(unit)
Function(v) == unit[v].fns[Len(unit[v].fns)]
Encloses(v, n) == \E i \in DOMAIN unit[n].fns : unit[n].fns[i] = Function(v)
Inside(n) == n \in Positions /\ Encloses(visit, n)

\* isInSystemHeader: of the function, and of the call.
System(n) == unit[n].fns # <<>> /\ Function(n) \in SysFunctions

\* getFunctionName goes up through statements; it meets no function from the
\* initializer of a variable.
FunctionName(n) == IF unit[n].inDecl \/ unit[n].fns = <<>> THEN "" ELSE NameOf[Function(n)]

\* The names that the two mutex checks take for a lock.
LockOnly     == {"lock"}                      \* mutant: timed locks are not known
VisitorLocks == {"lock", "timedlock"}
MatcherLocks == {"lock", "timedlock"}

\* handleJoin and handleDetach: the thread was joined or detached before.
EndCalls  == Ends                             \* mutant: creation is not recorded
LifeCalls == Life
ThreadReports(n) ==
  LET m == threads[unit[n].name]
  IN  IF unit[n].op \in Ends /\ m # 0 /\ unit[m].op \in Ends
      THEN {Report("22.11", n, m, visit)} ELSE {}

\* The mutex was locked in one function and is unlocked in another.
UnlockReports(n) ==
  LET m == locks[unit[n].name]
  IN  IF m # 0 /\ FunctionName(m) # "" /\ FunctionName(n) # "" /\ FunctionName(m) # FunctionName(n)
      THEN {Report("22.17", n, m, 0)} ELSE {}

\* supportsTimeout: the bit 0x4.
RecursiveBit(t)    == (t \div 2) % 2 = 1       \* mutant: the bit of mtx_recursive
SupportsTimeout(t) == (t \div 4) % 2 = 1

\* mtx_timedlock, but not its POSIX twin, which counts as a lock here; its variable
\* may be a pointer.
TimedReports(n) ==
  LET d == unit[n].var
  IN  IF unit[n].op # "timedlock" \/ d = NoVar THEN {}
      ELSE IF types[d] = -1 THEN {Report("21.26 unknown", n, 0, 0)}
      ELSE IF SupportsTimeout(types[d]) THEN {} ELSE {Report("21.26", n, 0, 0)}

\* At the end: the mutexes still locked, ...
Leftover == {Report("22.17", locks[h], 0, 0) : h \in {k \in Names : locks[k] # 0}}

\* ... and the first wait with another mutex than the first one.
Changes(w) == {i \in DOMAIN w : i > 1 /\ unit[w[i]].with # unit[w[2]].with}
                                              \* mutant: the second one is the measure
Strays(w)  == {i \in DOMAIN w : unit[w[i]].with # unit[w[1]].with}
WaitReports ==
  UNION {{Report("22.19", waits[h][i], waits[h][1], 0) :
            i \in {j \in Strays(waits[h]) : \A k \in Strays(waits[h]) : j <= k}} : h \in Names}
-----------------------------------------------------------------------------
Init ==
  /\ unit \in Units
  /\ at = 1 /\ visit = 0 /\ step = 0
  /\ threads = Nowhere /\ held = Nowhere /\ locks = Nowhere
  /\ waits = [h \in Names |-> <<>>]
  /\ types = [d \in Vars |-> -1]
  /\ reports = {}
  /\ ended = FALSE

\* The next node is a function definition: new visitors, unless it is in a system
\* header.
EnterFunction ==
  /\ visit = 0 /\ at \in Positions /\ unit[at].op = "function"
  /\ IF System(at)
     THEN at' = at + 1 /\ UNCHANGED <<visit, step, threads, held>>
     ELSE /\ visit' = at /\ step' = at + 1
          /\ threads' = Nowhere /\ held' = Nowhere
          /\ UNCHANGED at
  /\ UNCHANGED <<unit, locks, waits, types, reports, ended>>

\* VisitCallExpr of the two visitors.
Visiting(ops) == /\ visit # 0 /\ Inside(step)
                 /\ unit[step].op \in ops /\ unit[step].name # ""
                 /\ step' = step + 1
                 /\ UNCHANGED <<unit, at, visit, locks, waits, types, ended>>

VisitThreadCall ==
  /\ Visiting(Life)
  /\ threads' = IF unit[step].op \in LifeCalls THEN [threads EXCEPT ![unit[step].name] = step]
                                               ELSE threads
  /\ reports' = reports \cup ThreadReports(step)
  /\ UNCHANGED held

VisitLock ==
  /\ Visiting(VisitorLocks)
  /\ LET h == unit[step].name
     IN  IF held[h] # 0
         THEN /\ reports' = reports \cup {Report("22.18", step, held[h], visit)}
              /\ UNCHANGED held
         ELSE held' = [held EXCEPT ![h] = step] /\ UNCHANGED reports
  /\ UNCHANGED threads

StillHeld(h) == held                          \* mutant: an unlock changes nothing
Released(h)  == [held EXCEPT ![h] = 0]
VisitUnlock ==
  /\ Visiting({"unlock"})
  /\ held' = Released(unit[step].name)
  /\ UNCHANGED <<threads, reports>>

VisitOther ==
  /\ visit # 0 /\ Inside(step)
  /\ unit[step].name = "" \/ unit[step].op \notin Life \cup VisitorLocks \cup {"unlock"}
  /\ step' = step + 1
  /\ UNCHANGED <<unit, at, visit, threads, held, locks, waits, types, reports, ended>>

\* The visitors are through, the traversal goes into the body.
AfterBody == step + 1                         \* mutant: it goes on behind the body
NextNode  == visit + 1
LeaveFunction ==
  /\ visit # 0 /\ ~Inside(step)
  /\ at' = NextNode
  /\ visit' = 0 /\ step' = 0
  /\ UNCHANGED <<unit, threads, held, locks, waits, types, reports, ended>>

\* check() of the other three, called for the next node.
Matching(ops) == /\ visit = 0 /\ at \in Positions /\ unit[at].op \in ops
                 /\ at' = at + 1
                 /\ UNCHANGED <<unit, visit, step, threads, held, ended>>

MatchLock ==
  /\ Matching(MatcherLocks) /\ ~System(at)
  /\ locks' = IF unit[at].name # "" THEN [locks EXCEPT ![unit[at].name] = at] ELSE locks
  /\ reports' = reports \cup TimedReports(at)
  /\ UNCHANGED <<waits, types>>

StillLocked(h) == locks                       \* mutant: the entry is not erased
Unlocked(h)    == [locks EXCEPT ![h] = 0]
MatchUnlock ==
  /\ Matching({"unlock"}) /\ ~System(at) /\ unit[at].name # ""
  /\ reports' = reports \cup UnlockReports(at)
  /\ locks' = Unlocked(unit[at].name)
  /\ UNCHANGED <<waits, types>>

MatchWait ==
  /\ Matching({"wait"}) /\ ~System(at) /\ unit[at].name # "" /\ unit[at].with # ""
  /\ waits' = [waits EXCEPT ![unit[at].name] = Append(@, at)]
  /\ UNCHANGED <<locks, types, reports>>

\* mtx_init counts only with &var and constant flags.
MatchInit ==
  /\ Matching({"init"}) /\ ~System(at)
  /\ unit[at].addr /\ unit[at].var # NoVar /\ unit[at].flags # -1
  /\ types' = [types EXCEPT ![unit[at].var] = unit[at].flags]
  /\ UNCHANGED <<locks, waits, reports>>

MatchNothing ==
  /\ Matching(Calls)
  /\ LET c == unit[at]
     IN  \/ System(at) \/ c.op \in Life
         \/ c.op = "unlock" /\ c.name = ""
         \/ c.op = "wait" /\ (c.name = "" \/ c.with = "")
         \/ c.op = "init" /\ (~c.addr \/ c.var = NoVar \/ c.flags = -1)
  /\ UNCHANGED <<locks, waits, types, reports>>

\* onEndOfTranslationUnit: what is left over is reported, and forgotten.
EndUnit ==
  /\ visit = 0 /\ at \notin Positions /\ ~ended
  /\ reports' = reports \cup Leftover \cup WaitReports
  /\ locks' = Nowhere
  /\ waits' = [h \in Names |-> <<>>]
  /\ types' = [d \in Vars |-> -1]
  /\ ended' = TRUE
  /\ UNCHANGED <<unit, at, visit, step, threads, held>>

Next == \/ EnterFunction \/ VisitThreadCall \/ VisitLock \/ VisitUnlock \/ VisitOther
        \/ LeaveFunction
        \/ MatchLock \/ MatchUnlock \/ MatchWait \/ MatchInit \/ MatchNothing
        \/ EndUnit

Spec == Init /\ [][Next]_vars
-----------------------------------------------------------------------------
TypeOK ==
  /\ unit \in Seq(Node)
  /\ at \in 1..(Len(unit) + 1)
  /\ visit \in 0..Len(unit) /\ step \in 0..(Len(unit) + 1)
  /\ threads \in [Names -> 0..Len(unit)]
  /\ held \in [Names -> 0..Len(unit)]
  /\ locks \in [Names -> 0..Len(unit)]
  /\ waits \in [Names -> Seq(1..Len(unit))]
  /\ types \in [Vars -> Nat \cup {-1}]
  /\ \A r \in reports : r.at \in Positions /\ r.note \in 0..Len(unit) /\ r.in \in 0..Len(unit)
  /\ ended \in BOOLEAN

Same(m, n) == unit[m].name = unit[n].name /\ unit[n].name # ""
Visited    == {v \in Positions : unit[v].op = "function" /\ ~System(v)}
Body(v)    == {n \in Positions : n > v /\ Encloses(v, n)}
\* The last of the nodes in S that a call n of ops on the same object follows.
Precedes(m, n, S, ops) ==
  /\ m < n /\ Same(m, n) /\ unit[m].op \in ops
  /\ \A k \in S : m < k /\ k < n /\ Same(k, n) => unit[k].op \notin ops

\* Rule 22.11, for the text: in a function, a join or detach is reported exactly if
\* the last call for that thread before it is no creation, and the note names it.
JoinsJudged ==
  ended => \A v \in Visited : \A m, n \in Body(v) :
    Report("22.11", n, m, v) \in reports <=>
      unit[n].op \in Ends /\ unit[m].op \in Ends /\ Precedes(m, n, Body(v), Life)

\* Rule 22.18: a lock is reported exactly if the mutex is locked since the note's
\* call, which locked it when it was free.
HeldFrom(m, n, S) ==
  /\ m < n /\ Same(m, n) /\ unit[m].op \in MatcherLocks
  /\ \A k \in S : m < k /\ k < n /\ Same(k, n) => unit[k].op # "unlock"
RelocksJudged ==
  ended => \A v \in Visited : \A m, n \in Body(v) :
    Report("22.18", n, m, v) \in reports <=>
      /\ unit[n].op \in MatcherLocks /\ HeldFrom(m, n, Body(v))
      /\ \A k \in Body(v) : ~HeldFrom(k, m, Body(v))

\* Rule 22.17: an unlock is reported exactly if the last lock of the mutex before
\* it was not unlocked yet and is in a function of another name.
Tracked == {n \in Positions : unit[n].op \in Calls /\ ~System(n)}
Pairing == MatcherLocks \cup {"unlock"}
UnlocksJudged ==
  ended => \A m, n \in Tracked : unit[n].op = "unlock" =>
    (Report("22.17", n, m, 0) \in reports <=>
      /\ unit[m].op \in MatcherLocks /\ Precedes(m, n, Tracked, Pairing)
      /\ FunctionName(m) # "" /\ FunctionName(n) # "" /\ FunctionName(m) # FunctionName(n))

\* A lock that nothing follows is reported at the end; and no lock is lost inside a
\* function: where the check of 22.17 forgets a lock because another one of the same
\* function follows, the check of 22.18 reports that one.
LastReported ==
  \A m \in Tracked : unit[m].op \in MatcherLocks /\ unit[m].name # "" =>
    (Report("22.17", m, 0, 0) \in reports <=>
       \A n \in Tracked : n > m /\ Same(m, n) => unit[n].op \notin Pairing)
RelocksReported(v) ==
  \A m, n \in Body(v) :
    /\ unit[m].op \in MatcherLocks /\ unit[n].op \in MatcherLocks
    /\ Precedes(m, n, Body(v), Pairing)
    => \E k \in Body(v) : Report("22.18", n, k, v) \in reports
LocksAccounted == ended => LastReported /\ \A v \in Visited : RelocksReported(v)

\* Rule 22.18 is judged exactly, and with rule 22.17 it accounts for every lock.
LocksJudged == RelocksJudged /\ LocksAccounted

\* Rule 22.19: a condition variable is reported exactly if it was used with two
\* mutexes, once, and the note is at its first use.
Uses(h) == {n \in Tracked : unit[n].op = "wait" /\ unit[n].name = h /\ unit[n].with # ""}
ConditionsJudged ==
  ended => \A h \in Names :
    LET found == {r \in reports : r.rule = "22.19" /\ unit[r.at].name = h}
    IN  /\ Cardinality(found) = IF Cardinality({unit[n].with : n \in Uses(h)}) > 1 THEN 1 ELSE 0
        /\ \A r \in found : \A n \in Uses(h) : r.note <= n

\* Rule 21.26: a timed lock is accepted exactly if the last mtx_init of that variable
\* before it asked for a timed mutex, and "cannot be verified" if there is none.
InitOf(d) == {n \in Tracked : unit[n].op = "init" /\ unit[n].addr /\ unit[n].var = d
                              /\ unit[n].flags # -1}
TimedlocksJudged ==
  ended => \A n \in Tracked : unit[n].op = "timedlock" /\ unit[n].var # NoVar =>
    LET before == {m \in InitOf(unit[n].var) : m < n}
        last   == {m \in before : \A k \in before : k <= m}
    IN  /\ (Report("21.26 unknown", n, 0, 0) \in reports <=> before = {})
        /\ (Report("21.26", n, 0, 0) \in reports <=> \E m \in last : unit[m].flags % 8 \notin 4..7)

\* Rules 22.11, 22.19 and 21.26: what a call waits for, a thread, a condition or a
\* time, is judged exactly.
WaitsJudged == JoinsJudged /\ ConditionsJudged /\ TimedlocksJudged

\* "Missing unlock - will be reported at end of TU": of the locks of a mutex that is
\* never unlocked, one is reported.
MissingUnlockReported ==
  ended => \A m \in Tracked :
    /\ unit[m].op \in MatcherLocks /\ unit[m].var # NoVar
    /\ \A n \in Tracked : unit[n].var = unit[m].var => unit[n].op # "unlock"
    => \E k \in Tracked : unit[k].var = unit[m].var /\ Report("22.17", k, 0, 0) \in reports
=============================================================================
