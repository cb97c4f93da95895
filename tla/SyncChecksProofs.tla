-------------------------- MODULE SyncChecksProofs --------------------------
(***************************************************************************)
(* Theorems about SyncChecks: its types, and that the checks of rules      *)
(* 22.17 and 22.18 judge the locks of any translation unit as they should, *)
(* and those of rules 22.11, 22.19 and 21.26 its threads, conditions and   *)
(* timed locks.                                                            *)
(***************************************************************************)
EXTENDS SyncChecks, SequenceTheorems, FiniteSetTheorems,
        WellFoundedInduction, TLAPS
-----------------------------------------------------------------------------
LEMMA NodeTypes ==
  ASSUME unit \in Seq(Node), NEW n \in Positions
  PROVE  /\ unit[n] \in Node /\ unit[n].name \in Names \cup {""}
         /\ unit[n].flags \in Nat \cup {-1} /\ unit[n].var \in Vars \cup {NoVar}
         /\ unit[n].op \in {"function"} \cup Calls
<1>1. Len(unit) \in Nat /\ n \in 1..Len(unit) BY DEF Positions
<1>2. unit[n] \in Node BY <1>1, ElementOfSeq
<1> QED BY <1>2 DEF Node

\* The next place in the unit.
LEMMA NextPosition ==
  ASSUME unit \in Seq(Node), NEW n \in Positions
  PROVE  /\ n \in 1..Len(unit) /\ n \in 0..Len(unit) /\ n \in Nat /\ n # 0
         /\ n + 1 \in 1..(Len(unit) + 1) /\ n + 1 \in 0..(Len(unit) + 1)
<1>1. Len(unit) \in Nat /\ n \in 1..Len(unit) BY DEF Positions
<1> QED BY <1>1

\* A report has its place in the unit.
Placed(S) == \A r \in S : r.at \in Positions /\ r.note \in 0..Len(unit) /\ r.in \in 0..Len(unit)

LEMMA PlacedReport ==
  ASSUME NEW rule, NEW n \in Positions, NEW m \in 0..Len(unit), NEW v \in 0..Len(unit)
  PROVE  Placed({Report(rule, n, m, v)})
BY DEF Placed, Report

LEMMA PlacedUnion ==
  ASSUME NEW S, NEW T, Placed(S), Placed(T)
  PROVE  Placed(S \cup T)
BY DEF Placed

LEMMA InitTypes == Init => TypeOK
<1> SUFFICES ASSUME Init PROVE TypeOK OBVIOUS
<1>1. unit \in Seq(Node) BY UnitsAssumption DEF Init
<1>2. Len(unit) \in Nat BY <1>1
<1>3. at \in 1..(Len(unit) + 1) /\ visit \in 0..Len(unit) /\ step \in 0..(Len(unit) + 1)
  <2>1. at = 1 /\ visit = 0 /\ step = 0 BY DEF Init
  <2> QED BY <1>2, <2>1
<1>4. /\ threads \in [Names -> 0..Len(unit)] /\ held \in [Names -> 0..Len(unit)]
      /\ locks \in [Names -> 0..Len(unit)]
  BY <1>2 DEF Init, Nowhere
<1>5. waits \in [Names -> Seq(1..Len(unit))] BY <1>2 DEF Init
<1>6. types \in [Vars -> Nat \cup {-1}] /\ ended \in BOOLEAN BY DEF Init
<1>7. \A r \in reports : r.at \in Positions /\ r.note \in 0..Len(unit) /\ r.in \in 0..Len(unit)
  BY DEF Init
<1> QED BY <1>1, <1>3, <1>4, <1>5, <1>6, <1>7 DEF TypeOK

\* What a step of a visitor, and one of a matcher, leaves to show.
LEMMA VisitFrame ==
  ASSUME TypeOK, visit # 0, Inside(step), step' = step + 1,
         UNCHANGED <<unit, at, visit, locks, waits, types, ended>>,
         threads' \in [Names -> 0..Len(unit)], held' \in [Names -> 0..Len(unit)],
         Placed(reports')
  PROVE  TypeOK'
<1>1. unit' = unit /\ Len(unit') = Len(unit) /\ Positions' = Positions
  BY DEF Positions
<1>2. step' \in 0..(Len(unit') + 1) BY <1>1, NextPosition DEF Inside, TypeOK
<1>3. \A r \in reports' : r.at \in Positions' /\ r.note \in 0..Len(unit') /\ r.in \in 0..Len(unit')
  BY <1>1 DEF Placed
<1> QED BY <1>1, <1>2, <1>3 DEF TypeOK

LEMMA MatchFrame ==
  ASSUME TypeOK, at \in Positions, at' = at + 1,
         UNCHANGED <<unit, visit, step, threads, held, ended>>,
         locks' \in [Names -> 0..Len(unit)], waits' \in [Names -> Seq(1..Len(unit))],
         types' \in [Vars -> Nat \cup {-1}], Placed(reports')
  PROVE  TypeOK'
<1>1. unit' = unit /\ Len(unit') = Len(unit) /\ Positions' = Positions
  BY DEF Positions
<1>2. at' \in 1..(Len(unit') + 1) BY <1>1, NextPosition DEF TypeOK
<1>3. \A r \in reports' : r.at \in Positions' /\ r.note \in 0..Len(unit') /\ r.in \in 0..Len(unit')
  BY <1>1 DEF Placed
<1> QED BY <1>1, <1>2, <1>3 DEF TypeOK

LEMMA NextTypes == TypeOK /\ [Next]_vars => TypeOK'
<1> SUFFICES ASSUME TypeOK, [Next]_vars PROVE TypeOK' OBVIOUS
<1>0. /\ unit \in Seq(Node) /\ Len(unit) \in Nat /\ Placed(reports) /\ 0 \in 0..Len(unit)
      /\ threads \in [Names -> 0..Len(unit)] /\ held \in [Names -> 0..Len(unit)]
      /\ locks \in [Names -> 0..Len(unit)] /\ waits \in [Names -> Seq(1..Len(unit))]
      /\ types \in [Vars -> Nat \cup {-1}] /\ visit \in 0..Len(unit)
  BY DEF TypeOK, Placed
<1>1. CASE EnterFunction
  <2>1. /\ at \in Positions /\ unit' = unit /\ reports' = reports /\ locks' = locks
        /\ waits' = waits /\ types' = types /\ ended' = ended
    BY <1>1 DEF EnterFunction
  <2>2. Len(unit') = Len(unit) /\ Positions' = Positions BY <2>1 DEF Positions
  <2>3. at' \in 1..(Len(unit) + 1) /\ visit' \in 0..Len(unit) /\ step' \in 0..(Len(unit) + 1)
    BY <1>0, <1>1, <2>1, NextPosition DEF EnterFunction, TypeOK
  <2>4. threads' \in [Names -> 0..Len(unit)] /\ held' \in [Names -> 0..Len(unit)]
    BY <1>0, <1>1 DEF EnterFunction, Nowhere
  <2> QED BY <2>1, <2>2, <2>3, <2>4 DEF TypeOK
<1>2. CASE VisitThreadCall
  <2>1. /\ visit # 0 /\ Inside(step) /\ step' = step + 1 /\ unit[step].name # ""
        /\ UNCHANGED <<unit, at, visit, locks, waits, types, ended>>
        /\ held' = held /\ reports' = reports \cup ThreadReports(step)
    BY <1>2 DEF VisitThreadCall, Visiting
  <2>2. step \in Positions /\ step \in 0..Len(unit) BY <1>0, <2>1, NextPosition DEF Inside
  <2>3. unit[step].name \in Names BY <1>0, <2>1, <2>2, NodeTypes
  <2>4. Placed({Report("22.11", step, threads[unit[step].name], visit)})
    BY <1>0, <2>2, <2>3, PlacedReport
  <2>5. Placed(reports') BY <1>0, <2>1, <2>4, PlacedUnion DEF ThreadReports, Placed
  <2>6. threads' \in [Names -> 0..Len(unit)]
    BY <1>0, <1>2, <2>2, <2>3 DEF VisitThreadCall
  <2> QED BY <1>0, <2>1, <2>5, <2>6, VisitFrame
<1>3. CASE VisitLock
  <2>1. /\ visit # 0 /\ Inside(step) /\ step' = step + 1 /\ unit[step].name # ""
        /\ UNCHANGED <<unit, at, visit, locks, waits, types, ended>>
        /\ threads' = threads
    BY <1>3 DEF VisitLock, Visiting
  <2>2. step \in Positions /\ step \in 0..Len(unit) BY <1>0, <2>1, NextPosition DEF Inside
  <2>3. unit[step].name \in Names BY <1>0, <2>1, <2>2, NodeTypes
  <2>4. Placed({Report("22.18", step, held[unit[step].name], visit)})
    BY <1>0, <2>2, <2>3, PlacedReport
  <2>5. Placed(reports')
    <3> DEFINE S == {Report("22.18", step, held[unit[step].name], visit)}
    <3>1. (reports' = reports) \/ (reports' = reports \cup S) BY <1>3 DEF VisitLock
    <3>2. Placed(S) BY <2>4
    <3> HIDE DEF S
    <3> QED BY <1>0, <3>1, <3>2, PlacedUnion
  <2>6. held' \in [Names -> 0..Len(unit)]
    BY <1>0, <1>3, <2>2, <2>3 DEF VisitLock
  <2> QED BY <1>0, <2>1, <2>5, <2>6, VisitFrame
<1>4. CASE VisitUnlock
  <2>1. /\ visit # 0 /\ Inside(step) /\ step' = step + 1
        /\ UNCHANGED <<unit, at, visit, locks, waits, types, ended>>
        /\ threads' = threads /\ reports' = reports /\ held' = Released(unit[step].name)
    BY <1>4 DEF VisitUnlock, Visiting
  <2>2. held' \in [Names -> 0..Len(unit)] BY <1>0, <2>1 DEF Released
  <2> QED BY <1>0, <2>1, <2>2, VisitFrame
<1>5. CASE VisitOther
  <2>1. /\ visit # 0 /\ Inside(step) /\ step' = step + 1
        /\ UNCHANGED <<unit, at, visit, locks, waits, types, ended>>
        /\ threads' = threads /\ reports' = reports /\ held' = held
    BY <1>5 DEF VisitOther
  <2> QED BY <1>0, <2>1, VisitFrame
<1>6. CASE LeaveFunction
  <2>1. /\ visit # 0 /\ at' = visit + 1 /\ visit' = 0 /\ step' = 0
        /\ UNCHANGED <<unit, threads, held, locks, waits, types, reports, ended>>
    BY <1>6 DEF LeaveFunction, NextNode
  <2>2. unit' = unit /\ Len(unit') = Len(unit) /\ Positions' = Positions
    BY <2>1 DEF Positions
  <2>3. at' \in 1..(Len(unit) + 1) /\ visit' \in 0..Len(unit) /\ step' \in 0..(Len(unit) + 1)
    BY <1>0, <2>1
  <2> QED BY <2>1, <2>2, <2>3 DEF TypeOK
<1>7. CASE MatchLock
  <2>1. /\ at \in Positions /\ at' = at + 1
        /\ UNCHANGED <<unit, visit, step, threads, held, ended>>
        /\ waits' = waits /\ types' = types /\ reports' = reports \cup TimedReports(at)
    BY <1>7 DEF MatchLock, Matching
  <2>2. at \in 0..Len(unit) BY <1>0, <2>1, NextPosition
  <2>3. locks' \in [Names -> 0..Len(unit)]
    BY <1>0, <1>7, <2>2 DEF MatchLock
  <2>4. Placed({Report("21.26 unknown", at, 0, 0)}) /\ Placed({Report("21.26", at, 0, 0)})
    BY <1>0, <2>1, PlacedReport
  <2>5. Placed(reports') BY <1>0, <2>1, <2>4, PlacedUnion DEF TimedReports, Placed
  <2> QED BY <1>0, <2>1, <2>3, <2>5, MatchFrame
<1>8. CASE MatchUnlock
  <2>1. /\ at \in Positions /\ at' = at + 1 /\ unit[at].name # ""
        /\ UNCHANGED <<unit, visit, step, threads, held, ended>>
        /\ waits' = waits /\ types' = types /\ reports' = reports \cup UnlockReports(at)
        /\ locks' = Unlocked(unit[at].name)
    BY <1>8 DEF MatchUnlock, Matching
  <2>2. unit[at].name \in Names BY <1>0, <2>1, NodeTypes
  <2>3. Placed({Report("22.17", at, locks[unit[at].name], 0)})
    BY <1>0, <2>1, <2>2, PlacedReport
  <2>4. Placed(reports') BY <1>0, <2>1, <2>3, PlacedUnion DEF UnlockReports, Placed
  <2>5. locks' \in [Names -> 0..Len(unit)] BY <1>0, <2>1 DEF Unlocked
  <2> QED BY <1>0, <2>1, <2>4, <2>5, MatchFrame
<1>9. CASE MatchWait
  <2>1. /\ at \in Positions /\ at' = at + 1
        /\ UNCHANGED <<unit, visit, step, threads, held, ended>>
        /\ waits' = [waits EXCEPT ![unit[at].name] = Append(@, at)]
        /\ locks' = locks /\ types' = types /\ reports' = reports
    BY <1>9 DEF MatchWait, Matching
  <2>2. \A h \in Names : Append(waits[h], at) \in Seq(1..Len(unit))
    BY <1>0, <2>1, NextPosition
  <2>3. waits' \in [Names -> Seq(1..Len(unit))] BY <1>0, <2>1, <2>2
  <2> QED BY <1>0, <2>1, <2>3, MatchFrame
<1>10. CASE MatchInit
  <2>1. /\ at \in Positions /\ at' = at + 1
        /\ UNCHANGED <<unit, visit, step, threads, held, ended>>
        /\ types' = [types EXCEPT ![unit[at].var] = unit[at].flags]
        /\ locks' = locks /\ waits' = waits /\ reports' = reports
    BY <1>10 DEF MatchInit, Matching
  <2>2. unit[at].flags \in Nat \cup {-1} BY <1>0, <2>1, NodeTypes
  <2>3. types' \in [Vars -> Nat \cup {-1}] BY <1>0, <2>1, <2>2
  <2> QED BY <1>0, <2>1, <2>3, MatchFrame
<1>11. CASE MatchNothing
  <2>1. /\ at \in Positions /\ at' = at + 1
        /\ UNCHANGED <<unit, visit, step, threads, held, ended>>
        /\ locks' = locks /\ waits' = waits /\ types' = types /\ reports' = reports
    BY <1>11 DEF MatchNothing, Matching
  <2> QED BY <1>0, <2>1, MatchFrame
<1>12. CASE EndUnit
  <2>1. Placed(Leftover)
    <3>1. ASSUME NEW h \in Names, locks[h] # 0 PROVE locks[h] \in Positions
      BY <1>0, <3>1 DEF Positions
    <3> QED BY <1>0, <3>1 DEF Leftover, Placed, Report
  <2>2. Placed(WaitReports)
    <3> SUFFICES ASSUME NEW h \in Names, NEW i \in Strays(waits[h])
                 PROVE  Placed({Report("22.19", waits[h][i], waits[h][1], 0)})
      BY DEF WaitReports, Placed
    <3>1. waits[h] \in Seq(1..Len(unit)) /\ i \in 1..Len(waits[h])
      BY <1>0 DEF Strays
    <3>2. waits[h][i] \in 1..Len(unit) /\ waits[h][1] \in 1..Len(unit)
      BY <3>1
    <3>3. waits[h][i] \in Positions /\ waits[h][1] \in 0..Len(unit)
      BY <1>0, <3>2 DEF Positions
    <3> QED BY <1>0, <3>3, PlacedReport
  <2>3. Placed(reports')
    BY <1>0, <1>12, <2>1, <2>2, PlacedUnion DEF EndUnit
  <2>4. /\ locks' \in [Names -> 0..Len(unit)] /\ waits' \in [Names -> Seq(1..Len(unit))]
        /\ types' \in [Vars -> Nat \cup {-1}] /\ ended' \in BOOLEAN
    BY <1>0, <1>12 DEF EndUnit, Nowhere
  <2>5. UNCHANGED <<unit, at, visit, step, threads, held>> BY <1>12 DEF EndUnit
  <2>6. Len(unit') = Len(unit) /\ Positions' = Positions BY <2>5 DEF Positions
  <2>7. \A r \in reports' : r.at \in Positions' /\ r.note \in 0..Len(unit') /\ r.in \in 0..Len(unit')
    BY <2>3, <2>6, <2>5 DEF Placed
  <2> QED BY <2>4, <2>5, <2>6, <2>7 DEF TypeOK
<1>13. CASE UNCHANGED vars
  BY <1>13 DEF vars, TypeOK, Positions
<1> QED
  BY <1>1, <1>2, <1>3, <1>4, <1>5, <1>6, <1>7, <1>8, <1>9, <1>10, <1>11, <1>12, <1>13 DEF Next

\* The types, for every translation unit.
THEOREM TypeCorrect == Spec => []TypeOK
<1>1. Init => TypeOK BY InitTypes
<1>2. TypeOK /\ [Next]_vars => TypeOK' BY NextTypes
<1> QED BY <1>1, <1>2, PTL DEF Spec

-----------------------------------------------------------------------------
(***************************************************************************)
(* Rule 22.17.  The property speaks of the end of the unit; the invariant  *)
(* says the same of the nodes before `at`, and that the entry of a name in *)
(* locks is the lock that is still open there.                             *)
(***************************************************************************)
OpenLock(m, p) ==
  /\ m < p /\ unit[m].op \in MatcherLocks
  /\ \A k \in Tracked : m < k /\ k < p /\ unit[k].name = unit[m].name => unit[k].op \notin Pairing

LocksRight(l, p) ==
  \A h \in Names :
    /\ l[h] # 0 => l[h] \in Tracked /\ unit[l[h]].name = h
    /\ \A m \in Tracked : unit[m].name = h => (l[h] = m <=> OpenLock(m, p))

Elsewhere(m, n) ==
  FunctionName(m) # "" /\ FunctionName(n) # "" /\ FunctionName(m) # FunctionName(n)

ReportsRight(R, p) ==
  \A m, n \in Tracked : unit[n].op = "unlock" =>
    (Report("22.17", n, m, 0) \in R <=> n < p /\ Same(m, n) /\ OpenLock(m, n) /\ Elsewhere(m, n))

UnlockInv ==
  /\ ~ended => LocksRight(locks, at)
  /\ ReportsRight(reports, at)
  /\ visit # 0 => visit = at /\ at \in Positions /\ unit[at].op = "function"
  /\ ended => visit = 0 /\ at \notin Positions

\* All of this is about the unit, which stays.
LEMMA UnlockCarry ==
  ASSUME unit' = unit, ~ended' => LocksRight(locks', at'), ReportsRight(reports', at'),
         visit' # 0 => visit' = at' /\ at' \in Positions /\ unit[at'].op = "function",
         ended' => visit' = 0 /\ at' \notin Positions
  PROVE  UnlockInv'
<1>1. Positions' = Positions /\ Tracked' = Tracked
  BY DEF Tracked, Positions, System, Function
<1>2. \A n : FunctionName(n)' = FunctionName(n) BY DEF FunctionName, Function
<1>3. \A m, n : /\ Same(m, n)' <=> Same(m, n)
                /\ Elsewhere(m, n)' <=> Elsewhere(m, n)
                /\ OpenLock(m, n)' <=> OpenLock(m, n)
  BY <1>1, <1>2 DEF Same, Elsewhere, OpenLock
<1>4. \A m : (OpenLock(m, at))' <=> OpenLock(m, at')
  BY <1>1 DEF OpenLock
<1>5. ~ended' => LocksRight(locks, at)' BY <1>1, <1>4 DEF LocksRight
<1>6. ReportsRight(reports, at)' BY <1>1, <1>3 DEF ReportsRight, Report
<1> QED BY <1>1, <1>5, <1>6 DEF UnlockInv


LEMMA TrackedPlaces ==
  ASSUME TypeOK, NEW k \in Tracked
  PROVE  /\ k \in Positions /\ k \in Int /\ k # 0 /\ at \in Int
         /\ k < at + 1 <=> k < at \/ k = at
         /\ ~(at < at)
<1>1. k \in Positions BY DEF Tracked
<1>2. k \in Int /\ k # 0 BY <1>1, NextPosition DEF TypeOK
<1>3. at \in Int BY DEF TypeOK
<1> QED BY <1>1, <1>2, <1>3

\* Which locks are open behind the node at `at`.
LEMMA OpenStep ==
  ASSUME TypeOK, NEW m \in Tracked
  PROVE  /\ m = at => (OpenLock(m, at + 1) <=> unit[m].op \in MatcherLocks)
         /\ m # at => (OpenLock(m, at + 1) <=>
              OpenLock(m, at)
                /\ ~(at \in Tracked /\ unit[at].name = unit[m].name /\ unit[at].op \in Pairing))
<1>1. \A k \in Tracked : k \in Int /\ at \in Int /\ (k < at + 1 <=> k < at \/ k = at)
  BY TrackedPlaces
<1>2. CASE m = at
  <2>1. \A k \in Tracked : ~(m < k /\ k < at + 1) BY <1>1, <1>2
  <2>2. m < at + 1 BY <1>1, <1>2
  <2> QED BY <1>2, <2>1, <2>2 DEF OpenLock
<1>3. CASE m # at
  <2>1. m < at + 1 <=> m < at BY <1>1, <1>3
  <2>2. m < at =>
          ((\A k \in Tracked : m < k /\ k < at + 1 /\ unit[k].name = unit[m].name
                                 => unit[k].op \notin Pairing)
           <=> /\ \A k \in Tracked : m < k /\ k < at /\ unit[k].name = unit[m].name
                                       => unit[k].op \notin Pairing
               /\ ~(at \in Tracked /\ unit[at].name = unit[m].name /\ unit[at].op \in Pairing))
    BY <1>1
  <2> QED BY <1>3, <2>1, <2>2 DEF OpenLock
<1> QED BY <1>2, <1>3

\* Reports of other rules, and those without a note, do not matter here.
Foreign(S) == \A r \in S : r.rule # "22.17" \/ r.note = 0

LEMMA ForeignReports ==
  ASSUME TypeOK, NEW S, Foreign(S), NEW p, ReportsRight(reports, p)
  PROVE  ReportsRight(reports \cup S, p)
<1>1. \A m \in Tracked : m # 0 BY TrackedPlaces
<1> QED BY <1>1 DEF Foreign, ReportsRight, Report

\* The node at p is no pairing call on a named mutex.
Idle(p) == p \in Tracked => unit[p].op \notin Pairing \/ unit[p].name = ""

LEMMA IdleStep ==
  ASSUME TypeOK, at \in Positions, Idle(at), NEW S, Foreign(S),
         LocksRight(locks, at), ReportsRight(reports, at)
  PROVE  LocksRight(locks, at + 1) /\ ReportsRight(reports \cup S, at + 1)
<1>1. ASSUME NEW h \in Names, NEW m \in Tracked, unit[m].name = h
      PROVE  OpenLock(m, at + 1) <=> OpenLock(m, at)
  <2>1. h # "" BY NamesAssumption
  <2>2. at \in Tracked /\ unit[at].name = h => unit[at].op \notin Pairing
    BY <2>1 DEF Idle
  <2>3. ~OpenLock(at, at) BY TrackedPlaces DEF OpenLock
  <2>4. m = at => unit[m].op \notin MatcherLocks BY <1>1, <2>2 DEF Pairing
  <2> QED BY <1>1, <2>2, <2>3, <2>4, OpenStep
<1>2. LocksRight(locks, at + 1) BY <1>1 DEF LocksRight
<1>3. ReportsRight(reports, at + 1)
  <2> SUFFICES ASSUME NEW m \in Tracked, NEW n \in Tracked, unit[n].op = "unlock", Same(m, n)
               PROVE  n < at + 1 <=> n < at
    BY DEF ReportsRight
  <2>1. n # at BY DEF Idle, Same, Pairing
  <2> QED BY <2>1, TrackedPlaces
<1> QED BY <1>2, <1>3, ForeignReports

LEMMA LockStep ==
  ASSUME TypeOK, at \in Tracked, unit[at].op \in MatcherLocks, unit[at].name # "",
         NEW S, Foreign(S), LocksRight(locks, at), ReportsRight(reports, at)
  PROVE  /\ LocksRight([locks EXCEPT ![unit[at].name] = at], at + 1)
         /\ ReportsRight(reports \cup S, at + 1)
<1>0. at # 0 /\ unit[at].name \in Names /\ locks \in [Names -> 0..Len(unit)]
  <2>1. at \in Positions BY TrackedPlaces
  <2>2. unit \in Seq(Node) /\ locks \in [Names -> 0..Len(unit)] BY DEF TypeOK
  <2>3. unit[at].name \in Names BY <2>1, <2>2, NodeTypes
  <2> QED BY <2>1, <2>2, <2>3, NextPosition
<1> DEFINE l == [locks EXCEPT ![unit[at].name] = at]
<1>2. ASSUME NEW h \in Names
      PROVE  /\ l[h] # 0 => l[h] \in Tracked /\ unit[l[h]].name = h
             /\ \A m \in Tracked : unit[m].name = h => (l[h] = m <=> OpenLock(m, at + 1))
  <2>1. CASE h = unit[at].name
    <3>1. l[h] = at BY <1>0, <2>1
    <3>2. \A m \in Tracked : unit[m].name = h => (at = m <=> OpenLock(m, at + 1))
      BY <1>0, <2>1, OpenStep, TrackedPlaces DEF Pairing, MatcherLocks
    <3> QED BY <2>1, <3>1, <3>2
  <2>2. CASE h # unit[at].name
    <3>1. l[h] = locks[h] BY <1>0, <2>2
    <3>2. \A m \in Tracked : unit[m].name = h => m # at /\ (OpenLock(m, at + 1) <=> OpenLock(m, at))
      BY <2>2, OpenStep
    <3>3. locks[h] # 0 => locks[h] \in Tracked /\ unit[locks[h]].name = h BY DEF LocksRight
    <3>4. \A m \in Tracked : unit[m].name = h => (locks[h] = m <=> OpenLock(m, at)) BY DEF LocksRight
    <3> HIDE DEF l
    <3> QED BY <3>1, <3>2, <3>3, <3>4
  <2> QED BY <2>1, <2>2
<1>3. LocksRight(l, at + 1) BY <1>2 DEF LocksRight
<1>4. ReportsRight(reports, at + 1)
  <2>1. unit[at].op # "unlock" BY DEF MatcherLocks
  <2>2. \A n \in Tracked : unit[n].op = "unlock" => (n < at + 1 <=> n < at)
    BY <2>1, TrackedPlaces
  <2> QED BY <2>2 DEF ReportsRight
<1> QED BY <1>3, <1>4, ForeignReports

LEMMA UnlockStep ==
  ASSUME TypeOK, at \in Tracked, unit[at].op = "unlock", unit[at].name # "",
         LocksRight(locks, at), ReportsRight(reports, at)
  PROVE  /\ LocksRight(Unlocked(unit[at].name), at + 1)
         /\ ReportsRight(reports \cup UnlockReports(at), at + 1)
<1>0. at # 0 /\ unit[at].name \in Names /\ locks \in [Names -> 0..Len(unit)]
  <2>1. at \in Positions BY TrackedPlaces
  <2>2. unit \in Seq(Node) /\ locks \in [Names -> 0..Len(unit)] BY DEF TypeOK
  <2>3. unit[at].name \in Names BY <2>1, <2>2, NodeTypes
  <2> QED BY <2>1, <2>2, <2>3, NextPosition
<1> DEFINE l == Unlocked(unit[at].name)
<1>2. ASSUME NEW h \in Names
      PROVE  /\ l[h] # 0 => l[h] \in Tracked /\ unit[l[h]].name = h
             /\ \A m \in Tracked : unit[m].name = h => (l[h] = m <=> OpenLock(m, at + 1))
  <2>1. CASE h = unit[at].name
    <3>1. l[h] = 0 BY <1>0, <2>1 DEF Unlocked
    <3>2. \A m \in Tracked : unit[m].name = h => (0 = m <=> OpenLock(m, at + 1))
      BY <1>0, <2>1, OpenStep, TrackedPlaces DEF Pairing, MatcherLocks
    <3> QED BY <2>1, <3>1, <3>2
  <2>2. CASE h # unit[at].name
    <3>1. l[h] = locks[h] BY <1>0, <2>2 DEF Unlocked
    <3>2. \A m \in Tracked : unit[m].name = h => m # at /\ (OpenLock(m, at + 1) <=> OpenLock(m, at))
      BY <2>2, OpenStep
    <3>3. locks[h] # 0 => locks[h] \in Tracked /\ unit[locks[h]].name = h BY DEF LocksRight
    <3>4. \A m \in Tracked : unit[m].name = h => (locks[h] = m <=> OpenLock(m, at)) BY DEF LocksRight
    <3> HIDE DEF l
    <3> QED BY <3>1, <3>2, <3>3, <3>4
  <2> QED BY <2>1, <2>2
<1>3. LocksRight(l, at + 1) BY <1>2 DEF LocksRight
<1>4. ReportsRight(reports \cup UnlockReports(at), at + 1)
  <2> HIDE DEF l
  <2> SUFFICES ASSUME NEW m \in Tracked, NEW n \in Tracked, unit[n].op = "unlock"
               PROVE  Report("22.17", n, m, 0) \in reports \cup UnlockReports(at)
                        <=> n < at + 1 /\ Same(m, n) /\ OpenLock(m, n) /\ Elsewhere(m, n)
    BY DEF ReportsRight
  <2>1. Report("22.17", n, m, 0) \in reports
          <=> n < at /\ Same(m, n) /\ OpenLock(m, n) /\ Elsewhere(m, n)
    BY DEF ReportsRight
  <2>2. Report("22.17", n, m, 0) \in UnlockReports(at)
          <=> n = at /\ m = locks[unit[at].name] /\ Elsewhere(m, n)
    <3>1. m # 0 BY TrackedPlaces
    <3> QED BY <3>1 DEF UnlockReports, Report, Elsewhere
  <2>3. unit[m].name = unit[at].name => (m = locks[unit[at].name] <=> OpenLock(m, at))
    BY <1>0 DEF LocksRight
  <2>4. m = locks[unit[at].name] => unit[m].name = unit[at].name
    <3>1. m # 0 BY TrackedPlaces
    <3> QED BY <1>0, <3>1 DEF LocksRight
  <2>5. n < at + 1 <=> n < at \/ n = at BY Zenon, TrackedPlaces
  <2>6. ~(at < at) BY Zenon, TrackedPlaces
  <2>7. n = at => (Same(m, n) <=> unit[m].name = unit[at].name) BY DEF Same
  <2> QED BY Zenon, <2>1, <2>2, <2>3, <2>4, <2>5, <2>6, <2>7
<1> QED BY <1>3, <1>4


LEMMA UnlockInit == Init => UnlockInv
<1> SUFFICES ASSUME Init PROVE UnlockInv OBVIOUS
<1>0. TypeOK BY InitTypes
<1>1. at = 1 /\ visit = 0 /\ ended = FALSE /\ reports = {} /\ locks = Nowhere BY DEF Init
<1>2. \A k \in Tracked : ~(k < at) /\ k # 0
  <2> SUFFICES ASSUME NEW k \in Tracked PROVE ~(k < at) /\ k # 0 OBVIOUS
  <2>1. k \in 1..Len(unit) BY <1>0, TrackedPlaces DEF Positions
  <2> QED BY <1>1, <2>1
<1>3. LocksRight(locks, at) BY <1>1, <1>2 DEF LocksRight, OpenLock, Nowhere
<1>4. ReportsRight(reports, at) BY <1>1, <1>2 DEF ReportsRight
<1> QED BY <1>1, <1>3, <1>4 DEF UnlockInv

LEMMA UnlockNext == TypeOK /\ UnlockInv /\ [Next]_vars => UnlockInv'
<1> SUFFICES ASSUME TypeOK, UnlockInv, [Next]_vars PROVE UnlockInv' OBVIOUS
<1>0. /\ ReportsRight(reports, at) /\ Foreign({})
      /\ visit # 0 => visit = at /\ at \in Positions /\ unit[at].op = "function"
  BY DEF UnlockInv, Foreign
<1>a. ASSUME unit' = unit, UNCHANGED <<at, locks, ended>>, visit # 0, visit' = visit,
             NEW S, reports' = reports \cup S, Foreign(S)
      PROVE  UnlockInv'
  <2>1. ReportsRight(reports', at') BY <1>a, <1>0, ForeignReports
  <2>2. ended' => visit' = 0 /\ at' \notin Positions BY <1>a DEF UnlockInv
  <2>3. ~ended' => LocksRight(locks', at') BY <1>a DEF UnlockInv
  <2> QED BY <1>a, <1>0, <2>1, <2>2, <2>3, UnlockCarry
<1>b. ASSUME unit' = unit, at \in Positions, Idle(at), at' = at + 1,
             UNCHANGED <<locks, ended>>, visit' = 0,
             NEW S, reports' = reports \cup S, Foreign(S)
      PROVE  UnlockInv'
  <2>1. ~ended /\ LocksRight(locks, at) BY <1>b DEF UnlockInv
  <2>2. LocksRight(locks, at + 1) /\ ReportsRight(reports \cup S, at + 1)
    BY <1>0, <1>b, <2>1, IdleStep
  <2> QED BY <1>b, <2>1, <2>2, UnlockCarry
<1>c. ASSUME Matching(Calls) PROVE at \in Positions /\ at' = at + 1 /\ visit' = 0
                                   /\ unit' = unit /\ ended' = ended
  BY <1>c DEF Matching
<1>1. CASE EnterFunction
  <2>0. /\ visit = 0 /\ at \in Positions /\ unit[at].op = "function" /\ unit' = unit
        /\ locks' = locks /\ reports' = reports \cup {} /\ ended' = ended
    BY <1>1 DEF EnterFunction
  <2>1. CASE System(at)
    <3>1. at' = at + 1 /\ visit' = 0 BY <1>1, <2>0, <2>1 DEF EnterFunction
    <3>2. Idle(at) BY <2>0 DEF Idle, Pairing, MatcherLocks
    <3> QED BY <1>0, <1>b, <2>0, <3>1, <3>2
  <2>2. CASE ~System(at)
    <3>1. visit' = at /\ at' = at BY <1>1, <2>2 DEF EnterFunction
    <3>2. ~ended /\ LocksRight(locks, at) BY <2>0 DEF UnlockInv
    <3>3. reports' = reports BY <2>0
    <3> QED BY <1>0, <2>0, <3>1, <3>2, <3>3, UnlockCarry
  <2> QED BY <2>1, <2>2
<1>2. CASE VisitThreadCall
  <2>1. /\ unit' = unit /\ UNCHANGED <<at, locks, ended>> /\ visit # 0 /\ visit' = visit
        /\ reports' = reports \cup ThreadReports(step)
    BY <1>2 DEF VisitThreadCall, Visiting
  <2>2. Foreign(ThreadReports(step)) BY DEF Foreign, ThreadReports, Report
  <2> QED BY <1>a, <2>1, <2>2
<1>3. CASE VisitLock
  <2>1. /\ unit' = unit /\ UNCHANGED <<at, locks, ended>> /\ visit # 0 /\ visit' = visit
    BY <1>3 DEF VisitLock, Visiting
  <2>2. CASE held[unit[step].name] # 0
    <3> DEFINE S == {Report("22.18", step, held[unit[step].name], visit)}
    <3>1. reports' = reports \cup S BY <1>3, <2>2 DEF VisitLock
    <3>2. Foreign(S) BY DEF Foreign, Report
    <3> HIDE DEF S
    <3> QED BY <1>a, <2>1, <3>1, <3>2
  <2>3. CASE held[unit[step].name] = 0
    <3>1. reports' = reports \cup {} BY <1>3, <2>3 DEF VisitLock
    <3> QED BY <1>0, <1>a, <2>1, <3>1
  <2> QED BY <2>2, <2>3
<1>4. CASE VisitUnlock
  <2>1. /\ unit' = unit /\ UNCHANGED <<at, locks, ended>> /\ visit # 0 /\ visit' = visit
        /\ reports' = reports \cup {}
    BY <1>4 DEF VisitUnlock, Visiting
  <2> QED BY <1>0, <1>a, <2>1
<1>5. CASE VisitOther
  <2>1. /\ unit' = unit /\ UNCHANGED <<at, locks, ended>> /\ visit # 0 /\ visit' = visit
        /\ reports' = reports \cup {}
    BY <1>5 DEF VisitOther
  <2> QED BY <1>0, <1>a, <2>1
<1>6. CASE LeaveFunction
  <2>1. /\ unit' = unit /\ UNCHANGED <<locks, ended>> /\ visit # 0 /\ visit' = 0
        /\ at' = visit + 1 /\ reports' = reports \cup {} /\ visit = at
    BY <1>0, <1>6 DEF LeaveFunction, NextNode
  <2>2. at \in Positions /\ Idle(at) BY <1>0, <2>1 DEF Idle, Pairing, MatcherLocks
  <2> QED BY <1>0, <1>b, <2>1, <2>2
<1>7. CASE MatchLock
  <2>1. /\ at \in Positions /\ at' = at + 1 /\ visit' = 0 /\ unit' = unit /\ ended' = ended
        /\ unit[at].op \in MatcherLocks /\ ~System(at)
        /\ reports' = reports \cup TimedReports(at)
    BY <1>7 DEF MatchLock, Matching
  <2>2. Foreign(TimedReports(at))
    <3>1. \A r \in TimedReports(at) : r \in {Report("21.26 unknown", at, 0, 0), Report("21.26", at, 0, 0)}
      BY DEF TimedReports
    <3>2. Report("21.26 unknown", at, 0, 0).note = 0 /\ Report("21.26", at, 0, 0).note = 0
      BY DEF Report
    <3> QED BY <3>1, <3>2 DEF Foreign
  <2>3. at \in Tracked BY <2>1 DEF Tracked, Calls, MatcherLocks
  <2>4. CASE unit[at].name = ""
    <3>1. locks' = locks BY <1>7, <2>4 DEF MatchLock
    <3>2. Idle(at) BY <2>4 DEF Idle
    <3> QED BY <1>b, <2>1, <2>2, <3>1, <3>2
  <2>5. CASE unit[at].name # ""
    <3>1. locks' = [locks EXCEPT ![unit[at].name] = at] BY <1>7, <2>5 DEF MatchLock
    <3>2. ~ended /\ LocksRight(locks, at) BY <2>1 DEF UnlockInv
    <3>3. LocksRight(locks', at') /\ ReportsRight(reports', at')
      BY <1>0, <2>1, <2>2, <2>3, <2>5, <3>1, <3>2, LockStep
    <3> QED BY <2>1, <3>2, <3>3, UnlockCarry
  <2> QED BY <2>4, <2>5
<1>8. CASE MatchUnlock
  <2>1. /\ at \in Positions /\ at' = at + 1 /\ visit' = 0 /\ unit' = unit /\ ended' = ended
        /\ unit[at].op = "unlock" /\ unit[at].name # "" /\ ~System(at)
        /\ reports' = reports \cup UnlockReports(at) /\ locks' = Unlocked(unit[at].name)
    BY <1>8 DEF MatchUnlock, Matching
  <2>2. at \in Tracked BY <2>1 DEF Tracked, Calls
  <2>3. ~ended /\ LocksRight(locks, at) BY <2>1 DEF UnlockInv
  <2>4. LocksRight(locks', at') /\ ReportsRight(reports', at')
    BY <1>0, <2>1, <2>2, <2>3, UnlockStep
  <2> QED BY <2>1, <2>3, <2>4, UnlockCarry
<1>9. CASE MatchWait
  <2>1. /\ at \in Positions /\ at' = at + 1 /\ visit' = 0 /\ unit' = unit
        /\ UNCHANGED <<locks, ended>> /\ unit[at].op = "wait" /\ reports' = reports \cup {}
    BY <1>9 DEF MatchWait, Matching
  <2>2. Idle(at) BY <2>1 DEF Idle, Pairing, MatcherLocks
  <2> QED BY <1>0, <1>b, <2>1, <2>2
<1>10. CASE MatchInit
  <2>1. /\ at \in Positions /\ at' = at + 1 /\ visit' = 0 /\ unit' = unit
        /\ UNCHANGED <<locks, ended>> /\ unit[at].op = "init" /\ reports' = reports \cup {}
    BY <1>10 DEF MatchInit, Matching
  <2>2. Idle(at) BY <2>1 DEF Idle, Pairing, MatcherLocks
  <2> QED BY <1>0, <1>b, <2>1, <2>2
<1>11. CASE MatchNothing
  <2>1. /\ at \in Positions /\ at' = at + 1 /\ visit' = 0 /\ unit' = unit
        /\ UNCHANGED <<locks, ended>> /\ reports' = reports \cup {}
    BY <1>11 DEF MatchNothing, Matching
  <2>2. Idle(at)
    BY <1>11 DEF MatchNothing, Idle, Tracked, Pairing, MatcherLocks, Life
  <2> QED BY <1>0, <1>b, <2>1, <2>2
<1>12. CASE EndUnit
  <2>1. /\ visit' = 0 /\ at' = at /\ at \notin Positions /\ unit' = unit /\ ended' = TRUE
        /\ reports' = reports \cup (Leftover \cup WaitReports)
    BY <1>12 DEF EndUnit
  <2>2. Foreign(Leftover \cup WaitReports) BY DEF Foreign, Leftover, WaitReports, Report
  <2>3. ReportsRight(reports', at') BY <1>0, <2>1, <2>2, ForeignReports
  <2> QED BY <2>1, <2>3, UnlockCarry
<1>13. CASE UNCHANGED vars
  <2>1. unit' = unit /\ at' = at /\ visit' = visit /\ ended' = ended /\ locks' = locks
        /\ reports' = reports
    BY <1>13 DEF vars
  <2> QED BY <2>1, UnlockCarry DEF UnlockInv
<1> QED
  BY <1>1, <1>2, <1>3, <1>4, <1>5, <1>6, <1>7, <1>8, <1>9, <1>10, <1>11, <1>12, <1>13 DEF Next

LEMMA UnlockInvImplies == TypeOK /\ UnlockInv => UnlocksJudged
<1> SUFFICES ASSUME TypeOK, UnlockInv, ended, NEW m \in Tracked, NEW n \in Tracked,
                    unit[n].op = "unlock"
             PROVE  Report("22.17", n, m, 0) \in reports <=>
                      /\ unit[m].op \in MatcherLocks /\ Precedes(m, n, Tracked, Pairing)
                      /\ Elsewhere(m, n)
  BY DEF UnlocksJudged, Elsewhere
<1>1. n < at
  <2>1. n \in 1..Len(unit) /\ at \in 1..(Len(unit) + 1) /\ Len(unit) \in Nat
    BY TrackedPlaces DEF TypeOK, Positions
  <2>2. at \notin 1..Len(unit) BY DEF UnlockInv, Positions
  <2> QED BY <2>1, <2>2
<1>2. Precedes(m, n, Tracked, Pairing) /\ unit[m].op \in MatcherLocks
        <=> Same(m, n) /\ OpenLock(m, n)
  BY DEF Precedes, OpenLock, Same, Pairing
<1> QED BY <1>1, <1>2 DEF UnlockInv, ReportsRight

\* Rule 22.17, for every translation unit: an unlock is reported exactly if the last
\* lock of that mutex before it was not unlocked yet and is in another function.
THEOREM UnlocksRight == Spec => []UnlocksJudged
<1>1. Init => TypeOK /\ UnlockInv BY InitTypes, UnlockInit
<1>2. TypeOK /\ UnlockInv /\ [Next]_vars => (TypeOK /\ UnlockInv)'
  BY NextTypes, UnlockNext
<1>3. TypeOK /\ UnlockInv => UnlocksJudged BY UnlockInvImplies
<1> QED BY <1>1, <1>2, <1>3, PTL DEF Spec

-----------------------------------------------------------------------------
(***************************************************************************)
(* Rules 22.11 and 22.18: the two visitors.  The properties speak of the   *)
(* end of the unit; the invariant says the same of the visits that are     *)
(* over, and of the one under way up to `step`.                            *)
(***************************************************************************)
\* The bodies are without gaps, as TraversalAssumption says.
Whole ==
  \A v, n \in Positions : unit[v].op = "function" /\ v < n /\ Encloses(v, n) =>
    \A k \in Positions : v < k /\ k < n => Encloses(v, k)

\* Nodes that the visit of v has seen, when the traversal is at a and the visit of w
\* has reached s.
Seen(a, w, s, v, n) == v < a \/ (v = w /\ n < s)

JoinJudged(m, n, v) ==
  unit[n].op \in Ends /\ unit[m].op \in Ends /\ Precedes(m, n, Body(v), Life)
RelockJudged(m, n, v) ==
  /\ unit[n].op \in MatcherLocks /\ HeldFrom(m, n, Body(v))
  /\ \A k \in Body(v) : ~HeldFrom(k, m, Body(v))

JoinsRight(R, a, w, s) ==
  \A v \in Visited : \A m, n \in Body(v) :
    Report("22.11", n, m, v) \in R <=> Seen(a, w, s, v, n) /\ JoinJudged(m, n, v)
RelocksRight(R, a, w, s) ==
  \A v \in Visited : \A m, n \in Body(v) :
    Report("22.18", n, m, v) \in R <=> Seen(a, w, s, v, n) /\ RelockJudged(m, n, v)

\* What the tables of the visitors mean: the last call for a thread, and the lock that
\* has held the mutex since it was free.
LastCall(m, v, p) ==
  /\ m < p /\ unit[m].op \in Life
  /\ \A k \in Body(v) : m < k /\ k < p /\ unit[k].name = unit[m].name => unit[k].op \notin Life
HeldSince(m, v, p) ==
  /\ m < p /\ unit[m].op \in MatcherLocks
  /\ \A k \in Body(v) : m < k /\ k < p /\ unit[k].name = unit[m].name => unit[k].op # "unlock"
Holder(m, v, p) == HeldSince(m, v, p) /\ \A k \in Body(v) : ~HeldFrom(k, m, Body(v))

ThreadsRight(l, v, p) ==
  \A h \in Names :
    /\ l[h] # 0 => l[h] \in Body(v) /\ unit[l[h]].name = h
    /\ \A m \in Body(v) : unit[m].name = h => (l[h] = m <=> LastCall(m, v, p))
HeldRight(l, v, p) ==
  \A h \in Names :
    /\ l[h] # 0 => l[h] \in Body(v) /\ unit[l[h]].name = h
    /\ \A m \in Body(v) : unit[m].name = h => (l[h] = m <=> Holder(m, v, p))

VisitInv ==
  /\ Whole
  /\ visit # 0 =>
       /\ visit = at /\ visit \in Visited /\ visit < step
       /\ \A k \in Positions : visit < k /\ k < step => Encloses(visit, k)
       /\ ThreadsRight(threads, visit, step) /\ HeldRight(held, visit, step)
  /\ JoinsRight(reports, at, visit, step)
  /\ RelocksRight(reports, at, visit, step)
  /\ ended => visit = 0 /\ at \notin Positions

\* All of this is about the unit, which stays.
LEMMA VisitCarry ==
  ASSUME unit' = unit, VisitInv,
         visit' # 0 =>
           /\ visit' = at' /\ visit' \in Visited /\ visit' < step'
           /\ \A k \in Positions : visit' < k /\ k < step' => Encloses(visit', k)
           /\ ThreadsRight(threads', visit', step') /\ HeldRight(held', visit', step'),
         JoinsRight(reports', at', visit', step'), RelocksRight(reports', at', visit', step'),
         ended' => visit' = 0 /\ at' \notin Positions
  PROVE  VisitInv'
<1>1. Positions' = Positions BY DEF Positions
<1>2. \A v, n : Encloses(v, n)' <=> Encloses(v, n) BY DEF Encloses, Function
<1>3. \A v : System(v)' <=> System(v) BY DEF System, Function
<1>4. Visited' = Visited BY <1>1, <1>3 DEF Visited
<1>5. \A v : Body(v)' = Body(v) BY <1>1, <1>2 DEF Body
<1>6. \A m, n : Same(m, n)' <=> Same(m, n) BY DEF Same
<1>7. \A m, n, v : HeldFrom(m, n, Body(v))' <=> HeldFrom(m, n, Body(v))
  BY <1>5, <1>6 DEF HeldFrom
<1>8. \A m, n, v : /\ JoinJudged(m, n, v)' <=> JoinJudged(m, n, v)
                   /\ RelockJudged(m, n, v)' <=> RelockJudged(m, n, v)
  BY <1>5, <1>6, <1>7 DEF JoinJudged, RelockJudged, Precedes
<1>9. \A m, v, p : LastCall(m, v, p)' <=> LastCall(m, v, p) BY <1>5 DEF LastCall
<1>10. \A m, v, p : Holder(m, v, p)' <=> Holder(m, v, p)
  BY <1>5, <1>7 DEF Holder, HeldSince
<1>11. Whole' BY <1>1, <1>2 DEF VisitInv, Whole
<1>12. JoinsRight(reports, at, visit, step)' BY <1>4, <1>5, <1>8 DEF JoinsRight, Report, Seen
<1>13. RelocksRight(reports, at, visit, step)'
  <2>1. \A v \in Visited : \A m, n \in Body(v) :
          Report("22.18", n, m, v) \in reports' <=>
            Seen(at', visit', step', v, n) /\ RelockJudged(m, n, v)'
    BY <1>8 DEF RelocksRight
  <2> HIDE DEF RelockJudged
  <2> QED BY <1>4, <1>5, <2>1 DEF RelocksRight, Report, Seen
<1>14. visit' # 0 => ThreadsRight(threads, visit, step)'
  <2>1. \A m : LastCall(m, visit, step)' <=> LastCall(m, visit', step')
    BY <1>5 DEF LastCall, Body, Encloses, Function
  <2>2. Body(visit)' = Body(visit') BY <1>1 DEF Body, Encloses, Function
  <2> QED BY <2>1, <2>2 DEF ThreadsRight
<1>15. visit' # 0 => HeldRight(held, visit, step)'
  <2>1. Body(visit)' = Body(visit') BY <1>1 DEF Body, Encloses, Function
  <2>2. \A m : Holder(m, visit, step)' <=> Holder(m, visit', step')
    BY <1>6, <2>1 DEF Holder, HeldSince, HeldFrom
  <2> QED BY <2>1, <2>2 DEF HeldRight
<1>16. visit' # 0 => visit' \in Visited' /\
         \A k \in Positions' : visit' < k /\ k < step' => (Encloses(visit, k))'
  BY <1>1, <1>4 DEF Encloses, Function
<1> QED BY <1>1, <1>11, <1>12, <1>13, <1>14, <1>15, <1>16 DEF VisitInv

LEMMA BodyPlaces ==
  ASSUME TypeOK, NEW v, NEW n \in Body(v)
  PROVE  n \in Positions /\ n \in Nat /\ n # 0 /\ v < n /\ Encloses(v, n)
<1>1. n \in Positions BY DEF Body
<1> QED BY <1>1, NextPosition DEF TypeOK, Body

LEMMA VisitedPlaces ==
  ASSUME TypeOK, NEW v \in Visited
  PROVE  v \in Positions /\ v \in Nat /\ v # 0 /\ unit[v].op = "function" /\ ~System(v)
<1>1. v \in Positions BY DEF Visited
<1> QED BY <1>1, NextPosition DEF TypeOK, Visited

\* The node the visitors are at.
LEMMA VisitAt ==
  ASSUME TypeOK, VisitInv, visit # 0, Inside(step)
  PROVE  /\ step \in Body(visit) /\ step \in Positions /\ step \in Nat /\ step # 0
         /\ visit \in Visited /\ visit = at /\ visit \in Nat /\ visit < step /\ visit < step + 1
         /\ \A k \in Positions : visit < k /\ k < step + 1 => Encloses(visit, k)
         /\ \A k \in Nat : k < step + 1 <=> k < step \/ k = step
<1>1. step \in Positions /\ Encloses(visit, step) BY DEF Inside
<1>2. step \in Nat /\ step # 0 BY <1>1, NextPosition DEF TypeOK
<1>3. visit \in Visited /\ visit = at /\ visit < step BY DEF VisitInv
<1>4. visit \in Nat BY <1>3, VisitedPlaces
<1>5. step \in Body(visit) BY <1>1, <1>3 DEF Body
<1>6. \A k \in Nat : k < step + 1 <=> k < step \/ k = step BY <1>2
<1>7. \A k \in Positions : k \in Nat BY NextPosition DEF TypeOK
<1>8. \A k \in Positions : visit < k /\ k < step + 1 => Encloses(visit, k)
  BY <1>1, <1>6, <1>7 DEF VisitInv
<1>9. visit < step + 1 BY <1>2, <1>3, <1>4
<1> QED BY <1>1, <1>2, <1>3, <1>4, <1>5, <1>6, <1>8, <1>9

\* One node of the visit: what is reported at it.
LEMMA SeenStep ==
  ASSUME TypeOK, VisitInv, visit # 0, Inside(step), NEW v \in Visited, NEW n \in Body(v)
  PROVE  /\ Seen(at, visit, step + 1, v, n) <=> \/ Seen(at, visit, step, v, n)
                                                \/ v = visit /\ n = step
         /\ v = visit /\ n = step => ~Seen(at, visit, step, v, n)
<1>1. n \in Nat /\ step \in Nat /\ visit \in Nat /\ visit = at BY BodyPlaces, VisitAt
<1>2. n < step + 1 <=> n < step \/ n = step BY <1>1
<1>3. ~(visit < at) /\ ~(step < step) BY <1>1
<1> QED BY <1>1, <1>2, <1>3 DEF Seen

LEMMA JoinsStep ==
  ASSUME TypeOK, VisitInv, visit # 0, Inside(step), NEW T,
         \A v \in Visited : \A m, n \in Body(v) :
           Report("22.11", n, m, v) \in T <=> v = visit /\ n = step /\ JoinJudged(m, n, v)
  PROVE  JoinsRight(reports \cup T, at, visit, step + 1)
<1> SUFFICES ASSUME NEW v \in Visited, NEW m \in Body(v), NEW n \in Body(v)
             PROVE  Report("22.11", n, m, v) \in reports \cup T <=>
                      Seen(at, visit, step + 1, v, n) /\ JoinJudged(m, n, v)
  BY DEF JoinsRight
<1>1. Report("22.11", n, m, v) \in reports <=> Seen(at, visit, step, v, n) /\ JoinJudged(m, n, v)
  BY DEF VisitInv, JoinsRight
<1>2. Seen(at, visit, step + 1, v, n) <=> Seen(at, visit, step, v, n) \/ (v = visit /\ n = step)
  BY SeenStep
<1> QED BY <1>1, <1>2

LEMMA RelocksStep ==
  ASSUME TypeOK, VisitInv, visit # 0, Inside(step), NEW T,
         \A v \in Visited : \A m, n \in Body(v) :
           Report("22.18", n, m, v) \in T <=> v = visit /\ n = step /\ RelockJudged(m, n, v)
  PROVE  RelocksRight(reports \cup T, at, visit, step + 1)
<1> SUFFICES ASSUME NEW v \in Visited, NEW m \in Body(v), NEW n \in Body(v)
             PROVE  Report("22.18", n, m, v) \in reports \cup T <=>
                      Seen(at, visit, step + 1, v, n) /\ RelockJudged(m, n, v)
  BY DEF RelocksRight
<1>1. Report("22.18", n, m, v) \in reports <=> Seen(at, visit, step, v, n) /\ RelockJudged(m, n, v)
  BY DEF VisitInv, RelocksRight
<1>2. Seen(at, visit, step + 1, v, n) <=> Seen(at, visit, step, v, n) \/ (v = visit /\ n = step)
  BY SeenStep
<1> QED BY <1>1, <1>2

LEMMA NothingBetween ==
  \A i \in Nat : ~(i < i) /\ i < i + 1 /\ \A k \in Nat : ~(i < k /\ k < i + 1)
OBVIOUS

\* The last call for a thread, behind the node at `step`.
LEMMA ThreadsStep ==
  ASSUME TypeOK, VisitInv, visit # 0, Inside(step), NEW l \in [Names -> 0..Len(unit)],
         IF unit[step].op \in Life /\ unit[step].name # ""
         THEN l = [threads EXCEPT ![unit[step].name] = step] ELSE l = threads
  PROVE  ThreadsRight(l, visit, step + 1)
<1> DEFINE B == Body(visit)
           c == unit[step].op \in Life /\ unit[step].name # ""
<1>1. /\ step \in B /\ step \in Positions /\ step \in Nat /\ step # 0 /\ visit < step
      /\ \A k \in Nat : k < step + 1 <=> k < step \/ k = step
  BY VisitAt
<1>2. \A k \in B : k \in Nat /\ k # 0 BY BodyPlaces
<1>3. threads \in [Names -> 0..Len(unit)] /\ unit[step].name \in Names \cup {""}
  BY <1>1, NodeTypes DEF TypeOK
<1>4. ThreadsRight(threads, visit, step) BY DEF VisitInv
<1>5. \A m \in B : m # step => (LastCall(m, visit, step + 1) <=>
        LastCall(m, visit, step) /\ ~(unit[step].name = unit[m].name /\ unit[step].op \in Life))
  <2> SUFFICES ASSUME NEW m \in B, m # step
               PROVE  LastCall(m, visit, step + 1) <=>
                        /\ LastCall(m, visit, step)
                        /\ ~(unit[step].name = unit[m].name /\ unit[step].op \in Life)
    OBVIOUS
  <2>1. m \in Nat /\ (m < step + 1 <=> m < step) BY <1>1, <1>2
  <2>2. \A k \in B : k < step + 1 <=> k < step \/ k = step BY <1>1, <1>2
  <2> QED BY <1>1, <2>1, <2>2 DEF LastCall
<1>6. LastCall(step, visit, step + 1) <=> unit[step].op \in Life
  <2>1. step < step + 1 /\ \A k \in B : ~(step < k /\ k < step + 1)
    BY <1>1, <1>2, NothingBetween
  <2> QED BY <1>1, <2>1 DEF LastCall
<1>7. ~LastCall(step, visit, step)
  <2>1. ~(step < step) BY <1>1, NothingBetween
  <2> QED BY <2>1 DEF LastCall
<1> SUFFICES ASSUME NEW h \in Names
             PROVE  /\ l[h] # 0 => l[h] \in B /\ unit[l[h]].name = h
                    /\ \A m \in B : unit[m].name = h => (l[h] = m <=> LastCall(m, visit, step + 1))
  BY DEF ThreadsRight
<1>8. h # "" BY NamesAssumption
<1>9. /\ threads[h] # 0 => threads[h] \in B /\ unit[threads[h]].name = h
      /\ \A m \in B : unit[m].name = h => (threads[h] = m <=> LastCall(m, visit, step))
  BY <1>4 DEF ThreadsRight
<1> HIDE DEF B
<1>10. CASE unit[step].op \in Life /\ unit[step].name = h
  <2>1. l[h] = step BY <1>3, <1>8, <1>10
  <2> QED BY <1>1, <1>5, <1>6, <1>10, <2>1
<1>11. CASE ~(unit[step].op \in Life /\ unit[step].name = h)
  <2>1. l[h] = threads[h] BY <1>3, <1>11
  <2>2. \A m \in B : unit[m].name = h => (LastCall(m, visit, step + 1) <=> LastCall(m, visit, step))
    BY <1>5, <1>6, <1>7, <1>11
  <2> QED BY <1>9, <2>1, <2>2
<1> QED BY <1>10, <1>11

\* Which locks hold the mutex behind the node at `step`.
LEMMA HoldStep ==
  ASSUME TypeOK, VisitInv, visit # 0, Inside(step), NEW m \in Body(visit)
  PROVE  /\ m = step => /\ HeldSince(m, visit, step + 1) <=> unit[step].op \in MatcherLocks
                        /\ ~HeldSince(m, visit, step)
         /\ m # step => (HeldSince(m, visit, step + 1) <=>
              /\ HeldSince(m, visit, step)
              /\ ~(unit[step].name = unit[m].name /\ unit[step].op = "unlock"))
<1> DEFINE B == Body(visit)
<1>1. step \in B /\ step \in Nat /\ \A k \in Nat : k < step + 1 <=> k < step \/ k = step
  BY VisitAt
<1>2. \A k \in B : k \in Nat BY BodyPlaces
<1>3. CASE m = step
  <2>1. /\ step < step + 1 /\ ~(step < step)
        /\ \A k \in B : ~(step < k /\ k < step + 1)
    BY <1>1, <1>2, NothingBetween
  <2> QED BY <1>3, <2>1 DEF HeldSince
<1>4. CASE m # step
  <2>1. m < step + 1 <=> m < step BY <1>1, <1>2, <1>4
  <2>2. \A k \in B : k < step + 1 <=> k < step \/ k = step BY <1>1, <1>2
  <2> QED BY <1>1, <2>1, <2>2 DEF HeldSince
<1> QED BY <1>3, <1>4

\* A lock that holds its mutex at p held it at any later lock of it, ...
LEMMA HeldBetween ==
  ASSUME TypeOK, NEW v, NEW m \in Body(v), NEW n \in Body(v), NEW p \in Nat, m < n, n < p,
         Same(m, n), HeldSince(m, v, p)
  PROVE  HeldFrom(m, n, Body(v))
<1>1. \A k \in Body(v) : k \in Nat /\ (k < n => k < p)
  <2>1. n \in Nat BY BodyPlaces
  <2> QED BY <2>1, BodyPlaces
<1>2. \A k \in Body(v) : Same(k, n) => unit[k].name = unit[m].name BY DEF Same
<1> QED BY <1>1, <1>2 DEF HeldFrom, HeldSince

\* ... and one that held it at a lock which holds it at p, holds it at p.
LEMMA HeldOn ==
  ASSUME TypeOK, NEW v, NEW m \in Body(v), NEW n \in Body(v), NEW p \in Nat,
         HeldFrom(m, n, Body(v)), HeldSince(n, v, p)
  PROVE  HeldSince(m, v, p)
<1>1. m \in Nat /\ n \in Nat /\ m < n /\ n < p BY BodyPlaces DEF HeldFrom, HeldSince
<1>2. m < p BY <1>1
<1>3. \A k \in Body(v) : k \in Nat BY BodyPlaces
<1>4. \A k \in Body(v) : k < n \/ k = n \/ n < k BY <1>1, <1>3
<1>5. unit[n].op # "unlock" BY DEF HeldSince, MatcherLocks
<1>6. unit[m].name = unit[n].name /\ unit[n].name # "" BY DEF HeldFrom, Same
<1>7. ASSUME NEW k \in Body(v), m < k, k < p, unit[k].name = unit[m].name
      PROVE  unit[k].op # "unlock"
  <2>1. CASE k < n BY <1>6, <1>7, <2>1 DEF HeldFrom, Same
  <2>2. CASE n < k BY <1>6, <1>7, <2>2 DEF HeldSince
  <2> QED BY <1>4, <1>5, <2>1, <2>2
<1> QED BY <1>2, <1>7 DEF HeldSince, HeldFrom

\* At most one lock of a mutex has held it since it was free, and one has if any lock
\* holds it: the first of them.
LEMMA OneHolder ==
  ASSUME TypeOK, NEW v, NEW m \in Body(v), NEW n \in Body(v), NEW p \in Nat,
         Same(m, n), Holder(m, v, p), Holder(n, v, p)
  PROVE  m = n
<1>1. m \in Nat /\ n \in Nat BY BodyPlaces
<1>2. m < p /\ n < p BY DEF Holder, HeldSince
<1>3. ~(m < n)
  <2> SUFFICES ASSUME m < n PROVE FALSE OBVIOUS
  <2>1. HeldFrom(m, n, Body(v)) BY <1>2, HeldBetween DEF Holder
  <2> QED BY <2>1 DEF Holder
<1>4. ~(n < m)
  <2> SUFFICES ASSUME n < m PROVE FALSE OBVIOUS
  <2>1. Same(n, m) BY DEF Same
  <2>2. HeldFrom(n, m, Body(v)) BY <1>2, <2>1, HeldBetween DEF Holder
  <2> QED BY <2>2 DEF Holder
<1> QED BY <1>1, <1>3, <1>4

LEMMA LeastNat ==
  ASSUME NEW S \in SUBSET Nat, S # {}
  PROVE  \E i \in S : \A j \in S : i <= j
<1> DEFINE R == OpToRel(<, Nat)
<1>1. IsWellFoundedOn(R, Nat) BY NatLessThanWellFounded
<1>2. \A i, j \in S : <<j, i>> \in R <=> j < i BY DEF OpToRel
<1> HIDE DEF R
<1>3. PICK i \in S : \A j \in S : ~ (<<j, i>> \in R) BY <1>1, WFMin
<1>4. \A j \in S : ~ (j < i) BY <1>2, <1>3
<1>5. \A j \in S : i <= j BY <1>4
<1> QED BY <1>5

LEMMA NotBoth == \A i, j \in Nat : i < j => ~(j <= i)
OBVIOUS

LEMMA FirstHolder ==
  ASSUME TypeOK, NEW v, NEW n \in Body(v), NEW p \in Nat, unit[n].name # "", HeldSince(n, v, p)
  PROVE  \E m \in Body(v) : unit[m].name = unit[n].name /\ Holder(m, v, p)
<1> DEFINE S == {m \in Body(v) : unit[m].name = unit[n].name /\ HeldSince(m, v, p)}
<1>1. S \in SUBSET Nat /\ n \in S BY BodyPlaces
<1>2. PICK m \in S : \A j \in S : m <= j BY <1>1, LeastNat
<1>3. ASSUME NEW k \in Body(v), HeldFrom(k, m, Body(v)) PROVE FALSE
  <2>1. HeldSince(k, v, p) BY <1>3, HeldOn
  <2>2. unit[k].name = unit[n].name /\ k < m BY <1>3 DEF HeldFrom, Same
  <2>3. k \in S BY <2>1, <2>2
  <2>4. m <= k BY <1>2, <2>3
  <2>5. k \in Nat /\ m \in Nat BY <1>1, <2>3
  <2> QED BY <2>2, <2>4, <2>5, NotBoth
<1> QED BY <1>3 DEF Holder

\* At the node the visitors are at.
LEMMA HeldHere ==
  ASSUME TypeOK, VisitInv, visit # 0, Inside(step), NEW m \in Body(visit)
  PROVE  HeldFrom(m, step, Body(visit)) <=> Same(m, step) /\ HeldSince(m, visit, step)
<1>1. Same(m, step) => \A k \in Body(visit) : Same(k, step) <=> unit[k].name = unit[m].name
  BY DEF Same
<1> QED BY <1>1 DEF HeldFrom, HeldSince

\* The locks that hold a mutex, behind the node at `step`.
LEMMA HeldStep ==
  ASSUME TypeOK, VisitInv, visit # 0, Inside(step), NEW l \in [Names -> 0..Len(unit)],
         \A h \in Names :
           l[h] = IF h = unit[step].name /\ unit[step].op = "unlock" THEN 0
                  ELSE IF h = unit[step].name /\ unit[step].op \in MatcherLocks /\ held[h] = 0
                       THEN step ELSE held[h]
  PROVE  HeldRight(l, visit, step + 1)
<1> DEFINE B == Body(visit)
<1>1. step \in B /\ step \in Nat /\ step # 0 BY VisitAt
<1>2. \A k \in B : k \in Nat /\ k # 0 BY BodyPlaces
<1>3. HeldRight(held, visit, step) BY DEF VisitInv
<1>4. \A m \in B : /\ m = step => /\ HeldSince(m, visit, step + 1) <=> unit[step].op \in MatcherLocks
                                  /\ ~HeldSince(m, visit, step)
                   /\ m # step => (HeldSince(m, visit, step + 1) <=>
                        /\ HeldSince(m, visit, step)
                        /\ ~(unit[step].name = unit[m].name /\ unit[step].op = "unlock"))
  BY HoldStep
<1>5. \A m \in B : HeldFrom(m, step, B) <=> Same(m, step) /\ HeldSince(m, visit, step)
  BY HeldHere
<1> SUFFICES ASSUME NEW h \in Names
             PROVE  /\ l[h] # 0 => l[h] \in B /\ unit[l[h]].name = h
                    /\ \A m \in B : unit[m].name = h => (l[h] = m <=> Holder(m, visit, step + 1))
  BY DEF HeldRight
<1>6. h # "" BY NamesAssumption
<1>7. /\ held[h] # 0 => held[h] \in B /\ unit[held[h]].name = h
      /\ \A m \in B : unit[m].name = h => (held[h] = m <=> Holder(m, visit, step))
  BY <1>3 DEF HeldRight
<1>8. ASSUME NEW n \in B, unit[n].name = h, HeldSince(n, visit, step)
      PROVE  held[h] # 0
  <2>1. PICK m \in B : unit[m].name = h /\ Holder(m, visit, step)
    BY <1>1, <1>6, <1>8, FirstHolder
  <2> QED BY <1>2, <1>7, <2>1
<1> DEFINE Rest(m) == \A k \in B : ~HeldFrom(k, m, B)
<1>9. \A m, p : Holder(m, visit, p) <=> HeldSince(m, visit, p) /\ Rest(m) BY DEF Holder
<1> HIDE DEF B, Rest
<1>10. CASE h = unit[step].name /\ unit[step].op = "unlock"
  <2>1. l[h] = 0 BY <1>10
  <2>2. unit[step].op \notin MatcherLocks BY <1>10 DEF MatcherLocks
  <2> QED BY <1>2, <1>4, <1>9, <1>10, <2>1, <2>2
<1>11. CASE h = unit[step].name /\ unit[step].op \in MatcherLocks /\ held[h] = 0
  <2>0. unit[step].op # "unlock" BY <1>11 DEF MatcherLocks
  <2>1. l[h] = step BY <1>11, <2>0
  <2>2. \A m \in B : unit[m].name = h => ~HeldSince(m, visit, step) BY <1>8, <1>11
  <2>3. Rest(step) BY <1>5, <1>11, <2>2 DEF Rest, Same
  <2> QED BY <1>1, <1>4, <1>9, <1>11, <2>1, <2>2, <2>3
<1>12. CASE h = unit[step].name /\ unit[step].op \in MatcherLocks /\ held[h] # 0
  <2>0. unit[step].op # "unlock" BY <1>12 DEF MatcherLocks
  <2>1. l[h] = held[h] BY <1>12, <2>0
  <2>2. /\ held[h] \in B /\ unit[held[h]].name = h /\ Holder(held[h], visit, step)
    BY <1>7, <1>12
  <2>3. Same(held[h], step) BY <1>6, <1>12, <2>2 DEF Same
  <2>4. ~Rest(step) BY <1>5, <1>9, <2>2, <2>3 DEF Rest
  <2>5. held[h] # step BY <1>4, <1>9, <2>2
  <2>6. \A m \in B : unit[m].name = h /\ m # step =>
          (Holder(m, visit, step + 1) <=> Holder(m, visit, step))
    BY <1>4, <1>9, <2>0
  <2> QED BY <1>7, <1>9, <2>1, <2>4, <2>5, <2>6
<1>13. CASE ~(h = unit[step].name /\ unit[step].op \in MatcherLocks \cup {"unlock"})
  <2>1. l[h] = held[h] BY <1>13
  <2>2. \A m \in B : unit[m].name = h => (HeldSince(m, visit, step + 1) <=> HeldSince(m, visit, step))
    BY <1>4, <1>13
  <2> QED BY <1>7, <1>9, <2>1, <2>2
<1> QED BY <1>10, <1>11, <1>12, <1>13

\* What the last call and the holder tell of the node the visitors are at.
LEMMA JoinHere ==
  ASSUME TypeOK, VisitInv, visit # 0, Inside(step), NEW m \in Body(visit)
  PROVE  JoinJudged(m, step, visit) <=>
           /\ unit[step].name # "" /\ unit[step].op \in Ends
           /\ threads[unit[step].name] = m /\ unit[m].op \in Ends
<1>1. step \in Positions /\ m # 0 BY VisitAt, BodyPlaces
<1>2. unit[step].name # "" => unit[step].name \in Names BY <1>1, NodeTypes DEF TypeOK
<1>3. ThreadsRight(threads, visit, step) BY DEF VisitInv
<1>4. unit[m].op \in Ends => unit[m].op \in Life BY DEF Ends, Life
<1>5. Same(m, step) => \A k \in Body(visit) : Same(k, step) <=> unit[k].name = unit[m].name
  BY DEF Same
<1>6. unit[m].op \in Ends =>
        (Precedes(m, step, Body(visit), Life) <=> Same(m, step) /\ LastCall(m, visit, step))
  BY <1>4, <1>5 DEF Precedes, LastCall
<1>7. unit[step].name # "" /\ threads[unit[step].name] = m => Same(m, step)
  BY <1>1, <1>2, <1>3 DEF ThreadsRight, Same
<1>8. Same(m, step) => (threads[unit[step].name] = m <=> LastCall(m, visit, step))
  BY <1>2, <1>3 DEF ThreadsRight, Same
<1>9. Same(m, step) => unit[step].name # "" BY DEF Same
<1> QED BY <1>6, <1>7, <1>8, <1>9 DEF JoinJudged

LEMMA RelockHere ==
  ASSUME TypeOK, VisitInv, visit # 0, Inside(step), NEW m \in Body(visit)
  PROVE  RelockJudged(m, step, visit) <=>
           /\ unit[step].name # "" /\ unit[step].op \in MatcherLocks
           /\ held[unit[step].name] = m
<1>1. step \in Positions /\ m # 0 BY VisitAt, BodyPlaces
<1>2. unit[step].name # "" => unit[step].name \in Names BY <1>1, NodeTypes DEF TypeOK
<1>3. HeldRight(held, visit, step) BY DEF VisitInv
<1>4. HeldFrom(m, step, Body(visit)) <=> Same(m, step) /\ HeldSince(m, visit, step)
  BY HeldHere
<1>5. RelockJudged(m, step, visit) <=>
        unit[step].op \in MatcherLocks /\ Same(m, step) /\ Holder(m, visit, step)
  BY <1>4 DEF RelockJudged, Holder
<1>6. unit[step].name # "" /\ held[unit[step].name] = m => Same(m, step)
  BY <1>1, <1>2, <1>3 DEF HeldRight, Same
<1>7. Same(m, step) => (held[unit[step].name] = m <=> Holder(m, visit, step))
  BY <1>2, <1>3 DEF HeldRight, Same
<1>8. Same(m, step) => unit[step].name # "" BY DEF Same
<1> QED BY <1>5, <1>6, <1>7, <1>8

\* One node of the visit, as a step.
LEMMA VisitStep ==
  ASSUME TypeOK, VisitInv, visit # 0, Inside(step), step' = step + 1,
         UNCHANGED <<unit, at, visit, ended>>, NEW T, reports' = reports \cup T,
         threads' \in [Names -> 0..Len(unit)], held' \in [Names -> 0..Len(unit)],
         IF unit[step].op \in Life /\ unit[step].name # ""
         THEN threads' = [threads EXCEPT ![unit[step].name] = step] ELSE threads' = threads,
         \A h \in Names :
           held'[h] = IF h = unit[step].name /\ unit[step].op = "unlock" THEN 0
                      ELSE IF h = unit[step].name /\ unit[step].op \in MatcherLocks /\ held[h] = 0
                           THEN step ELSE held[h],
         \A v \in Visited : \A m, n \in Body(v) :
           Report("22.11", n, m, v) \in T <=> v = visit /\ n = step /\ JoinJudged(m, n, v),
         \A v \in Visited : \A m, n \in Body(v) :
           Report("22.18", n, m, v) \in T <=> v = visit /\ n = step /\ RelockJudged(m, n, v)
  PROVE  VisitInv'
<1>1. /\ visit = at /\ visit \in Visited /\ visit < step + 1
      /\ \A k \in Positions : visit < k /\ k < step + 1 => Encloses(visit, k)
  BY VisitAt
<1>2. ThreadsRight(threads', visit, step + 1) BY ThreadsStep
<1>3. HeldRight(held', visit, step + 1) BY HeldStep
<1>4. JoinsRight(reports', at, visit, step + 1) BY JoinsStep
<1>5. RelocksRight(reports', at, visit, step + 1) BY RelocksStep
<1>6. ~ended' BY DEF VisitInv
<1> QED BY <1>1, <1>2, <1>3, <1>4, <1>5, <1>6, VisitCarry

\* Reports of other rules do not matter here, nor does how far the traversal is as long
\* as it has passed the same visited functions.
OtherRules(S) == \A r \in S : r.rule # "22.11" /\ r.rule # "22.18"

LEMMA NoOtherRule == OtherRules({})
BY DEF OtherRules

LEMMA SameSeen ==
  ASSUME VisitInv, NEW S, OtherRules(S), NEW a, NEW w, NEW s,
         \A v \in Visited : \A n \in Body(v) : Seen(a, w, s, v, n) <=> Seen(at, visit, step, v, n)
  PROVE  JoinsRight(reports \cup S, a, w, s) /\ RelocksRight(reports \cup S, a, w, s)
<1>1. \A n, m, v : Report("22.11", n, m, v) \notin S /\ Report("22.18", n, m, v) \notin S
  BY DEF OtherRules, Report
<1>2. JoinsRight(reports \cup S, a, w, s)
  <2> SUFFICES ASSUME NEW v \in Visited, NEW m \in Body(v), NEW n \in Body(v)
               PROVE  Report("22.11", n, m, v) \in reports \cup S <=>
                        Seen(a, w, s, v, n) /\ JoinJudged(m, n, v)
    BY DEF JoinsRight
  <2>1. Report("22.11", n, m, v) \in reports <=>
          Seen(at, visit, step, v, n) /\ JoinJudged(m, n, v)
    BY DEF VisitInv, JoinsRight
  <2> QED BY <1>1, <2>1
<1>3. RelocksRight(reports \cup S, a, w, s)
  <2> SUFFICES ASSUME NEW v \in Visited, NEW m \in Body(v), NEW n \in Body(v)
               PROVE  Report("22.18", n, m, v) \in reports \cup S <=>
                        Seen(a, w, s, v, n) /\ RelockJudged(m, n, v)
    BY DEF RelocksRight
  <2>1. Report("22.18", n, m, v) \in reports <=>
          Seen(at, visit, step, v, n) /\ RelockJudged(m, n, v)
    BY DEF VisitInv, RelocksRight
  <2> QED BY <1>1, <2>1
<1> QED BY <1>2, <1>3

\* A step of the traversal over a node that is not visited.
LEMMA PassStep ==
  ASSUME TypeOK, VisitInv, visit = 0, at \in Positions, at \notin Visited, at' = at + 1,
         visit' = 0, UNCHANGED <<unit, ended>>, NEW S, OtherRules(S), reports' = reports \cup S
  PROVE  VisitInv'
<1>1. ASSUME NEW v \in Visited, NEW n
      PROVE  Seen(at + 1, 0, step', v, n) <=> Seen(at, visit, step, v, n)
  <2>1. v \in Nat /\ v # 0 /\ at \in Nat BY VisitedPlaces, NextPosition DEF TypeOK
  <2>2. v # at OBVIOUS
  <2>3. v < at + 1 <=> v < at BY <2>1, <2>2
  <2> QED BY <2>1, <2>3 DEF Seen
<1>2. JoinsRight(reports', at + 1, 0, step') /\ RelocksRight(reports', at + 1, 0, step')
  BY <1>1, SameSeen
<1>3. ~ended BY DEF VisitInv
<1> QED BY <1>2, <1>3, VisitCarry

\* Entering a function: nothing of it is seen yet.
LEMMA EnterStep ==
  ASSUME TypeOK, VisitInv, visit = 0, at \in Visited, visit' = at, step' = at + 1,
         threads' = Nowhere, held' = Nowhere, UNCHANGED <<unit, at, reports, ended>>
  PROVE  VisitInv'
<1>1. at \in Nat /\ at # 0 BY VisitedPlaces
<1>2. \A v : \A n \in Body(v) : n \in Nat /\ v < n BY BodyPlaces
<1>3. \A n \in Body(at) : ~(n < at + 1) /\ \A k \in Body(at) : ~(n < k /\ k < at + 1)
  BY <1>1, <1>2
<1>4. ASSUME NEW v \in Visited, NEW n \in Body(v)
      PROVE  Seen(at, at, at + 1, v, n) <=> Seen(at, visit, step, v, n)
  <2>1. v # 0 BY VisitedPlaces
  <2> QED BY <1>3, <2>1 DEF Seen
<1>5. JoinsRight(reports \cup {}, at, at, at + 1) /\ RelocksRight(reports \cup {}, at, at, at + 1)
  BY <1>4, SameSeen DEF OtherRules
<1>6. JoinsRight(reports', at', visit', step') /\ RelocksRight(reports', at', visit', step')
  <2>1. reports' = reports \cup {} OBVIOUS
  <2> QED BY <1>5, <2>1
<1>7. ThreadsRight(Nowhere, at, at + 1)
  <2>1. \A m \in Body(at) : m # 0 /\ ~LastCall(m, at, at + 1) BY <1>3, BodyPlaces DEF LastCall
  <2> QED BY <2>1 DEF ThreadsRight, Nowhere
<1>8. HeldRight(Nowhere, at, at + 1)
  <2>1. \A m \in Body(at) : m # 0 /\ ~Holder(m, at, at + 1)
    BY <1>3, BodyPlaces DEF Holder, HeldSince
  <2> QED BY <2>1 DEF HeldRight, Nowhere
<1>9. \A k \in Positions : ~(at < k /\ k < at + 1)
  <2>1. \A k \in Positions : k \in Nat BY NextPosition DEF TypeOK
  <2> QED BY <1>1, <2>1, NothingBetween
<1>10. at < at + 1 BY <1>1
<1>11. ~ended'
  <2>1. at \in Positions BY VisitedPlaces
  <2> QED BY <2>1 DEF VisitInv
<1> QED BY <1>6, <1>7, <1>8, <1>9, <1>10, <1>11, VisitCarry

\* Leaving it: all of its body is seen.
LEMMA LeaveStep ==
  ASSUME TypeOK, VisitInv, visit # 0, ~Inside(step), at' = visit + 1, visit' = 0,
         UNCHANGED <<unit, reports, ended>>
  PROVE  VisitInv'
<1>1. /\ visit = at /\ visit \in Visited /\ visit < step
      /\ \A k \in Positions : visit < k /\ k < step => Encloses(visit, k)
  BY DEF VisitInv
<1>2. visit \in Nat /\ visit # 0 /\ visit \in Positions /\ unit[visit].op = "function"
  BY <1>1, VisitedPlaces
<1>3. step \in Nat /\ Len(unit) \in Nat BY DEF TypeOK
<1>4. ASSUME NEW n \in Body(visit) PROVE n < step
  <2> SUFFICES ASSUME ~(n < step) PROVE FALSE OBVIOUS
  <2>1. n \in Positions /\ n \in Nat /\ visit < n /\ Encloses(visit, n) BY BodyPlaces
  <2>2. n \in 1..Len(unit) BY <2>1 DEF Positions
  <2>3. step \in 1..Len(unit) /\ step <= n BY <1>1, <1>2, <1>3, <2>1, <2>2
  <2>4. step \in Positions BY <2>3 DEF Positions
  <2>5. ~Encloses(visit, step) BY <2>4 DEF Inside
  <2>6. step < n BY <1>3, <2>1, <2>3, <2>5
  <2>7. Encloses(visit, step) BY <1>1, <1>2, <2>1, <2>4, <2>6 DEF VisitInv, Whole
  <2> QED BY <2>5, <2>7
<1>5. ASSUME NEW v \in Visited, NEW n \in Body(v)
      PROVE  Seen(visit + 1, 0, step', v, n) <=> Seen(at, visit, step, v, n)
  <2>1. v \in Nat /\ v # 0 BY VisitedPlaces
  <2>2. v < visit + 1 <=> v < visit \/ v = visit BY <1>2, <2>1
  <2> QED BY <1>1, <1>4, <2>1, <2>2 DEF Seen
<1>6. JoinsRight(reports \cup {}, visit + 1, 0, step') /\ RelocksRight(reports \cup {}, visit + 1, 0, step')
  BY <1>5, SameSeen DEF OtherRules
<1>7. JoinsRight(reports', at', visit', step') /\ RelocksRight(reports', at', visit', step')
  <2>1. reports' = reports \cup {} OBVIOUS
  <2> QED BY <1>6, <2>1
<1>8. ~ended' BY DEF VisitInv
<1> QED BY <1>7, <1>8, VisitCarry

LEMMA VisitInit == Init => TypeOK /\ VisitInv
<1> SUFFICES ASSUME Init PROVE TypeOK /\ VisitInv OBVIOUS
<1>1. TypeOK BY InitTypes
<1>2. unit \in Units /\ visit = 0 /\ at = 1 /\ reports = {} /\ ended = FALSE BY DEF Init
<1>3. Whole
  <2> SUFFICES ASSUME NEW v \in Positions, NEW n \in Positions, unit[v].op = "function", v < n,
                      Encloses(v, n), NEW k \in Positions, v < k, k < n
               PROVE  Encloses(v, k)
    BY DEF Whole
  <2>1. unit \in Seq(Node) /\ Len(unit) \in Nat BY <1>1 DEF TypeOK
  <2>2. DOMAIN unit = Positions BY <2>1 DEF Positions
  <2>3. v \in Nat /\ n \in Nat /\ k \in Nat BY <1>1, NextPosition DEF TypeOK
  <2>4. k \in (v + 1)..n BY <2>3
  <2> QED BY <1>2, <2>2, <2>4, TraversalAssumption DEF Encloses, Function
<1>4. ASSUME NEW v \in Visited, NEW n \in Body(v) PROVE ~Seen(at, visit, step, v, n)
  <2>1. v \in Nat /\ v # 0 BY <1>1, VisitedPlaces
  <2>2. ~(v < 1) BY <2>1
  <2> QED BY <1>2, <2>1, <2>2 DEF Seen
<1>5. JoinsRight(reports, at, visit, step) /\ RelocksRight(reports, at, visit, step)
  BY <1>2, <1>4 DEF JoinsRight, RelocksRight
<1> QED BY <1>1, <1>2, <1>3, <1>5 DEF VisitInv

LEMMA VisitNext == TypeOK /\ VisitInv /\ [Next]_vars => VisitInv'
<1> SUFFICES ASSUME TypeOK, VisitInv, [Next]_vars PROVE VisitInv' OBVIOUS
<1>0. TypeOK' BY NextTypes
<1>a. /\ unit \in Seq(Node)
      /\ threads \in [Names -> 0..Len(unit)] /\ held \in [Names -> 0..Len(unit)]
  BY DEF TypeOK
<1>b. unit' = unit => threads' \in [Names -> 0..Len(unit)] /\ held' \in [Names -> 0..Len(unit)]
  BY <1>0 DEF TypeOK
<1>c. "" \notin Names BY NamesAssumption
<1>1. CASE EnterFunction
  <2>1. /\ visit = 0 /\ at \in Positions /\ unit[at].op = "function"
        /\ UNCHANGED <<unit, reports, ended>>
    BY <1>1 DEF EnterFunction
  <2>2. CASE System(at)
    <3>1. at' = at + 1 /\ visit' = 0 /\ at \notin Visited /\ reports' = reports \cup {}
      BY <1>1, <2>1, <2>2 DEF EnterFunction, Visited
    <3> QED BY <2>1, <3>1, PassStep, NoOtherRule
  <2>3. CASE ~System(at)
    <3>1. /\ visit' = at /\ step' = at + 1 /\ threads' = Nowhere /\ held' = Nowhere
          /\ at' = at /\ at \in Visited
      BY <1>1, <2>1, <2>3 DEF EnterFunction, Visited
    <3> QED BY <2>1, <3>1, EnterStep
  <2> QED BY <2>2, <2>3
<1>2. CASE VisitThreadCall
  <2>1. /\ visit # 0 /\ Inside(step) /\ step' = step + 1 /\ unit[step].op \in Life
        /\ unit[step].name # "" /\ UNCHANGED <<unit, at, visit, ended>>
        /\ held' = held /\ reports' = reports \cup ThreadReports(step)
    BY <1>2 DEF VisitThreadCall, Visiting
  <2>2. threads' = [threads EXCEPT ![unit[step].name] = step]
    BY <1>2, <2>1 DEF VisitThreadCall, LifeCalls
  <2>3. unit[step].op # "unlock" /\ unit[step].op \notin MatcherLocks
    BY <2>1 DEF Life, MatcherLocks
  <2>4. \A v \in Visited : \A m, n \in Body(v) :
          Report("22.11", n, m, v) \in ThreadReports(step) <=>
            v = visit /\ n = step /\ JoinJudged(m, n, v)
    <3> SUFFICES ASSUME NEW v \in Visited, NEW m \in Body(v), NEW n \in Body(v)
                 PROVE  Report("22.11", n, m, v) \in ThreadReports(step) <=>
                          v = visit /\ n = step /\ JoinJudged(m, n, v)
      OBVIOUS
    <3>1. Report("22.11", n, m, v) \in ThreadReports(step) <=>
            /\ n = step /\ m = threads[unit[step].name] /\ v = visit
            /\ unit[step].op \in Ends /\ m # 0 /\ unit[m].op \in Ends
      BY DEF ThreadReports, Report
    <3>2. m # 0 BY BodyPlaces
    <3>3. v = visit => (JoinJudged(m, step, visit) <=>
            /\ unit[step].name # "" /\ unit[step].op \in Ends
            /\ threads[unit[step].name] = m /\ unit[m].op \in Ends)
      BY <2>1, JoinHere
    <3> QED BY <2>1, <3>1, <3>2, <3>3
  <2>5. \A v \in Visited : \A m, n \in Body(v) :
          Report("22.18", n, m, v) \in ThreadReports(step) <=>
            v = visit /\ n = step /\ RelockJudged(m, n, v)
    BY <2>3 DEF ThreadReports, Report, RelockJudged
  <2> QED BY <1>a, <1>b, <2>1, <2>2, <2>3, <2>4, <2>5, VisitStep
<1>3. CASE VisitLock
  <2> DEFINE h == unit[step].name
             T == IF held[h] # 0 THEN {Report("22.18", step, held[h], visit)} ELSE {}
  <2>1. /\ visit # 0 /\ Inside(step) /\ step' = step + 1 /\ unit[step].op \in MatcherLocks
        /\ unit[step].name # "" /\ UNCHANGED <<unit, at, visit, ended>> /\ threads' = threads
    BY <1>3 DEF VisitLock, Visiting, VisitorLocks, MatcherLocks
  <2>2. reports' = reports \cup T BY <1>3 DEF VisitLock
  <2>3. unit[step].op # "unlock" /\ unit[step].op \notin Life
    BY <2>1 DEF Life, MatcherLocks
  <2>4. \A k \in Names :
          held'[k] = IF k = unit[step].name /\ unit[step].op = "unlock" THEN 0
                     ELSE IF k = unit[step].name /\ unit[step].op \in MatcherLocks /\ held[k] = 0
                          THEN step ELSE held[k]
    BY <1>3, <1>a, <2>1, <2>3 DEF VisitLock
  <2>5. \A v \in Visited : \A m, n \in Body(v) :
          Report("22.18", n, m, v) \in T <=> v = visit /\ n = step /\ RelockJudged(m, n, v)
    <3> SUFFICES ASSUME NEW v \in Visited, NEW m \in Body(v), NEW n \in Body(v)
                 PROVE  Report("22.18", n, m, v) \in T <=>
                          v = visit /\ n = step /\ RelockJudged(m, n, v)
      OBVIOUS
    <3>1. Report("22.18", n, m, v) \in T <=> n = step /\ m = held[h] /\ v = visit /\ m # 0
      BY DEF Report
    <3>2. m # 0 BY BodyPlaces
    <3>3. v = visit => (RelockJudged(m, step, visit) <=>
            /\ unit[step].name # "" /\ unit[step].op \in MatcherLocks
            /\ held[unit[step].name] = m)
      BY <2>1, RelockHere
    <3> HIDE DEF T
    <3> QED BY <2>1, <3>1, <3>2, <3>3
  <2>6. \A v \in Visited : \A m, n \in Body(v) :
          Report("22.11", n, m, v) \in T <=> v = visit /\ n = step /\ JoinJudged(m, n, v)
    <3>1. unit[step].op \notin Ends BY <2>3 DEF Life, Ends
    <3> QED BY <3>1 DEF Report, JoinJudged
  <2> HIDE DEF T
  <2> QED BY <1>a, <1>b, <2>1, <2>2, <2>3, <2>4, <2>5, <2>6, VisitStep
<1>d. ASSUME visit # 0, Inside(step), step' = step + 1, UNCHANGED <<unit, at, visit, ended>>,
             threads' = threads, reports' = reports,
             unit[step].name = "" \/ unit[step].op \notin Life \cup MatcherLocks,
             \A h \in Names :
               held'[h] = IF h = unit[step].name /\ unit[step].op = "unlock" THEN 0 ELSE held[h]
      PROVE  VisitInv'
  <2> DEFINE T == {}
  <2>1. reports' = reports \cup T BY <1>d
  <2>2. \A m : ~JoinJudged(m, step, visit) /\ ~RelockJudged(m, step, visit)
    BY <1>d DEF JoinJudged, RelockJudged, Precedes, HeldFrom, Same, Life, Ends
  <2>3. \A h \in Names :
          held'[h] = IF h = unit[step].name /\ unit[step].op = "unlock" THEN 0
                     ELSE IF h = unit[step].name /\ unit[step].op \in MatcherLocks /\ held[h] = 0
                          THEN step ELSE held[h]
    BY <1>c, <1>d
  <2>4. ~(unit[step].op \in Life /\ unit[step].name # "") BY <1>d
  <2>5. \A v \in Visited : \A m, n \in Body(v) :
          Report("22.11", n, m, v) \in T <=> v = visit /\ n = step /\ JoinJudged(m, n, v)
    BY <2>2
  <2>6. \A v \in Visited : \A m, n \in Body(v) :
          Report("22.18", n, m, v) \in T <=> v = visit /\ n = step /\ RelockJudged(m, n, v)
    BY <2>2
  <2> HIDE DEF T
  <2> QED BY <1>a, <1>b, <1>d, <2>1, <2>3, <2>4, <2>5, <2>6, VisitStep
<1>4. CASE VisitUnlock
  <2>1. /\ visit # 0 /\ Inside(step) /\ step' = step + 1 /\ unit[step].op = "unlock"
        /\ unit[step].name # "" /\ UNCHANGED <<unit, at, visit, ended>> /\ threads' = threads
        /\ reports' = reports /\ held' = [held EXCEPT ![unit[step].name] = 0]
    BY <1>4 DEF VisitUnlock, Visiting, Released
  <2>2. \A h \in Names :
          held'[h] = IF h = unit[step].name /\ unit[step].op = "unlock" THEN 0 ELSE held[h]
    BY <1>a, <2>1
  <2>3. unit[step].op \notin Life \cup MatcherLocks BY <2>1 DEF Life, MatcherLocks
  <2> QED BY <1>d, <2>1, <2>2, <2>3
<1>5. CASE VisitOther
  <2>1. /\ visit # 0 /\ Inside(step) /\ step' = step + 1
        /\ UNCHANGED <<unit, at, visit, ended>> /\ threads' = threads
        /\ reports' = reports /\ held' = held
        /\ unit[step].name = "" \/ unit[step].op \notin Life \cup MatcherLocks \cup {"unlock"}
    BY <1>5 DEF VisitOther, VisitorLocks, MatcherLocks
  <2>2. \A h \in Names :
          held'[h] = IF h = unit[step].name /\ unit[step].op = "unlock" THEN 0 ELSE held[h]
    BY <1>c, <2>1
  <2> QED BY <1>d, <2>1, <2>2
<1>6. CASE LeaveFunction
  <2>1. /\ visit # 0 /\ ~Inside(step) /\ at' = visit + 1 /\ visit' = 0
        /\ UNCHANGED <<unit, reports, ended>>
    BY <1>6 DEF LeaveFunction, NextNode
  <2> QED BY <2>1, LeaveStep
<1>e. ASSUME NEW ops, Matching(ops), ops \subseteq Calls, NEW S, OtherRules(S),
             reports' = reports \cup S
      PROVE  VisitInv'
  <2>1. /\ visit = 0 /\ at \in Positions /\ at' = at + 1 /\ visit' = 0 /\ UNCHANGED <<unit, ended>>
        /\ unit[at].op \in Calls
    BY <1>e DEF Matching
  <2>2. at \notin Visited BY <2>1 DEF Visited, Calls, Life
  <2> QED BY <1>e, <2>1, <2>2, PassStep
<1>7. CASE MatchLock
  <2>1. Matching(MatcherLocks) /\ reports' = reports \cup TimedReports(at)
    BY <1>7 DEF MatchLock
  <2>2. OtherRules(TimedReports(at))
    <3>1. \A r \in TimedReports(at) : r = Report("21.26 unknown", at, 0, 0)
                                      \/ r = Report("21.26", at, 0, 0)
      BY DEF TimedReports
    <3>2. /\ Report("21.26 unknown", at, 0, 0).rule = "21.26 unknown"
          /\ Report("21.26", at, 0, 0).rule = "21.26"
      BY DEF Report
    <3> QED BY <3>1, <3>2 DEF OtherRules
  <2> QED BY <1>e, <2>1, <2>2 DEF MatcherLocks, Calls
<1>8. CASE MatchUnlock
  <2>1. Matching({"unlock"}) /\ reports' = reports \cup UnlockReports(at)
    BY <1>8 DEF MatchUnlock
  <2>2. OtherRules(UnlockReports(at))
    <3>1. \A r \in UnlockReports(at) : r = Report("22.17", at, locks[unit[at].name], 0)
      BY DEF UnlockReports
    <3>2. Report("22.17", at, locks[unit[at].name], 0).rule = "22.17" BY DEF Report
    <3> QED BY <3>1, <3>2 DEF OtherRules
  <2> QED BY <1>e, <2>1, <2>2 DEF Calls
<1>9. CASE MatchWait
  <2>1. Matching({"wait"}) /\ reports' = reports \cup {} BY <1>9 DEF MatchWait
  <2>2. {"wait", "init"} \subseteq Calls BY DEF Calls
  <2> QED BY <1>e, <2>1, <2>2, NoOtherRule
<1>10. CASE MatchInit
  <2>1. Matching({"init"}) /\ reports' = reports \cup {} BY <1>10 DEF MatchInit
  <2>2. {"wait", "init"} \subseteq Calls BY DEF Calls
  <2> QED BY <1>e, <2>1, <2>2, NoOtherRule
<1>11. CASE MatchNothing
  <2>1. Matching(Calls) /\ reports' = reports \cup {} BY <1>11 DEF MatchNothing
  <2> QED BY <1>e, <2>1, NoOtherRule
<1>12. CASE EndUnit
  <2>1. /\ visit = 0 /\ at \notin Positions /\ unit' = unit /\ at' = at /\ visit' = visit
        /\ step' = step /\ reports' = reports \cup (Leftover \cup WaitReports)
    BY <1>12 DEF EndUnit
  <2>2. OtherRules(Leftover \cup WaitReports) BY DEF OtherRules, Leftover, WaitReports, Report
  <2>3. JoinsRight(reports', at, visit, step) /\ RelocksRight(reports', at, visit, step)
    BY <2>1, <2>2, SameSeen
  <2>4. Positions' = Positions BY <2>1 DEF Positions
  <2> QED BY <2>1, <2>3, <2>4, VisitCarry
<1>13. CASE UNCHANGED vars
  <2>1. /\ unit' = unit /\ at' = at /\ visit' = visit /\ step' = step /\ ended' = ended
        /\ threads' = threads /\ held' = held /\ reports' = reports
    BY <1>13 DEF vars
  <2> QED BY <2>1, VisitCarry DEF VisitInv
<1> QED
  BY <1>1, <1>2, <1>3, <1>4, <1>5, <1>6, <1>7, <1>8, <1>9, <1>10, <1>11, <1>12, <1>13 DEF Next

LEMMA VisitInvImplies == TypeOK /\ VisitInv => JoinsJudged /\ RelocksJudged
<1> SUFFICES ASSUME TypeOK, VisitInv, ended PROVE JoinsJudged /\ RelocksJudged
  BY DEF JoinsJudged, RelocksJudged
<1>1. visit = 0 /\ at \notin Positions BY DEF VisitInv
<1>2. ASSUME NEW v \in Visited, NEW n \in Body(v) PROVE Seen(at, visit, step, v, n)
  <2>1. v \in 1..Len(unit) /\ at \in 1..(Len(unit) + 1) /\ Len(unit) \in Nat
    BY VisitedPlaces DEF TypeOK, Positions
  <2>2. at \notin 1..Len(unit) BY <1>1 DEF Positions
  <2>3. v < at BY <2>1, <2>2
  <2> QED BY <2>3 DEF Seen
<1>3. JoinsRight(reports, at, visit, step) /\ RelocksRight(reports, at, visit, step)
  BY DEF VisitInv
<1>4. JoinsJudged BY <1>2, <1>3 DEF JoinsJudged, JoinsRight, JoinJudged
<1>5. RelocksJudged BY <1>2, <1>3 DEF RelocksJudged, RelocksRight, RelockJudged
<1> QED BY <1>4, <1>5

-----------------------------------------------------------------------------
(***************************************************************************)
(* The account of the locks: what the end of the unit adds for rule 22.17, *)
(* and what rule 22.18 reports inside a function.                          *)
(***************************************************************************)
Lasting(m) == \A n \in Tracked : n > m /\ Same(m, n) => unit[n].op \notin Pairing
LeftoverRight ==
  \A m \in Tracked : unit[m].op \in MatcherLocks /\ unit[m].name # "" =>
    (Report("22.17", m, 0, 0) \in reports <=> ended /\ Lasting(m))

\* Reports that are none of the end of the unit.
Noted(S) == \A r \in S : r.rule # "22.17" \/ r.note # 0

LEMMA NotedUnlock ==
  Noted(UnlockReports(at))
<1>1. \A r \in UnlockReports(at) : r = Report("22.17", at, locks[unit[at].name], 0)
                                   /\ locks[unit[at].name] # 0
  BY DEF UnlockReports
<1>2. Report("22.17", at, locks[unit[at].name], 0).note = locks[unit[at].name]
  BY DEF Report
<1> QED BY <1>1, <1>2 DEF Noted

LEMMA NotedTimed == Noted(TimedReports(at))
<1>1. \A r \in TimedReports(at) : r = Report("21.26 unknown", at, 0, 0)
                                  \/ r = Report("21.26", at, 0, 0)
  BY DEF TimedReports
<1>2. /\ Report("21.26 unknown", at, 0, 0).rule = "21.26 unknown"
      /\ Report("21.26", at, 0, 0).rule = "21.26"
  BY DEF Report
<1> QED BY <1>1, <1>2 DEF Noted

LEMMA NotedVisit ==
  /\ Noted(ThreadReports(step)) /\ Noted({})
  /\ \A n, m, v : Noted({Report("22.18", n, m, v)})
<1>1. \A r \in ThreadReports(step) : r = Report("22.11", step, threads[unit[step].name], visit)
  BY DEF ThreadReports
<1>2. /\ \A n, m, v : Report("22.18", n, m, v).rule = "22.18"
      /\ Report("22.11", step, threads[unit[step].name], visit).rule = "22.11"
  BY DEF Report
<1> QED BY <1>1, <1>2 DEF Noted

LEMMA LeftoverCarry ==
  ASSUME unit' = unit,
         \A m \in Tracked : unit[m].op \in MatcherLocks /\ unit[m].name # "" =>
           (Report("22.17", m, 0, 0) \in reports' <=> ended' /\ Lasting(m))
  PROVE  LeftoverRight'
<1>1. Tracked' = Tracked BY DEF Tracked, Positions, System, Function
<1>2. \A m : Lasting(m)' <=> Lasting(m) BY <1>1 DEF Lasting, Same
<1> QED BY <1>1, <1>2 DEF LeftoverRight, Report

LEMMA LeftoverNoted ==
  ASSUME LeftoverRight, unit' = unit, ended' = ended, NEW S, Noted(S), reports' = reports \cup S
  PROVE  LeftoverRight'
<1>1. \A m : Report("22.17", m, 0, 0) \notin S BY DEF Noted, Report
<1> QED BY <1>1, LeftoverCarry DEF LeftoverRight

LEMMA LeftoverNext ==
  TypeOK /\ UnlockInv /\ LeftoverRight /\ [Next]_vars => LeftoverRight'
<1> SUFFICES ASSUME TypeOK, UnlockInv, LeftoverRight, [Next]_vars PROVE LeftoverRight' OBVIOUS
<1>a. ASSUME unit' = unit, ended' = ended, reports' = reports PROVE LeftoverRight'
  <2>1. reports' = reports \cup {} BY <1>a
  <2> QED BY <1>a, <2>1, LeftoverNoted, NotedVisit
<1>1. CASE EnterFunction BY <1>1, <1>a DEF EnterFunction
<1>2. CASE VisitThreadCall
  <2>1. unit' = unit /\ ended' = ended /\ reports' = reports \cup ThreadReports(step)
    BY <1>2 DEF VisitThreadCall, Visiting
  <2> QED BY <2>1, LeftoverNoted, NotedVisit
<1>3. CASE VisitLock
  <2>1. unit' = unit /\ ended' = ended BY <1>3 DEF VisitLock, Visiting
  <2>2. \/ reports' = reports
        \/ reports' = reports \cup {Report("22.18", step, held[unit[step].name], visit)}
    BY <1>3 DEF VisitLock
  <2> QED BY <1>a, <2>1, <2>2, LeftoverNoted, NotedVisit
<1>4. CASE VisitUnlock BY <1>4, <1>a DEF VisitUnlock, Visiting
<1>5. CASE VisitOther BY <1>5, <1>a DEF VisitOther
<1>6. CASE LeaveFunction BY <1>6, <1>a DEF LeaveFunction
<1>7. CASE MatchLock
  <2>1. unit' = unit /\ ended' = ended /\ reports' = reports \cup TimedReports(at)
    BY <1>7 DEF MatchLock, Matching
  <2> QED BY <2>1, LeftoverNoted, NotedTimed
<1>8. CASE MatchUnlock
  <2>1. unit' = unit /\ ended' = ended /\ reports' = reports \cup UnlockReports(at)
    BY <1>8 DEF MatchUnlock, Matching
  <2> QED BY <2>1, LeftoverNoted, NotedUnlock
<1>9. CASE MatchWait BY <1>9, <1>a DEF MatchWait, Matching
<1>10. CASE MatchInit BY <1>10, <1>a DEF MatchInit, Matching
<1>11. CASE MatchNothing BY <1>11, <1>a DEF MatchNothing, Matching
<1>12. CASE EndUnit
  <2>1. /\ at \notin Positions /\ ~ended /\ unit' = unit /\ ended' = TRUE
        /\ reports' = reports \cup Leftover \cup WaitReports
    BY <1>12 DEF EndUnit
  <2>2. LocksRight(locks, at) BY <2>1 DEF UnlockInv
  <2>3. ASSUME NEW m \in Tracked, unit[m].op \in MatcherLocks, unit[m].name # ""
        PROVE  Report("22.17", m, 0, 0) \in reports' <=> Lasting(m)
    <3>1. Report("22.17", m, 0, 0) \notin reports BY <2>1, <2>3 DEF LeftoverRight
    <3>2. Report("22.17", m, 0, 0) \notin WaitReports
      <4>1. \A r \in WaitReports : r.rule = "22.19" BY DEF WaitReports, Report
      <4>2. Report("22.17", m, 0, 0).rule = "22.17" BY DEF Report
      <4> QED BY <4>1, <4>2
    <3>3. m \in Positions /\ m # 0 /\ unit[m].name \in Names
      BY <2>3, TrackedPlaces, NodeTypes DEF TypeOK
    <3>4. Report("22.17", m, 0, 0) \in Leftover <=> locks[unit[m].name] = m
      <4>1. Report("22.17", m, 0, 0) \in Leftover <=>
              \E h \in Names : locks[h] # 0 /\ locks[h] = m
        BY DEF Leftover, Report
      <4>2. \A h \in Names : locks[h] # 0 /\ locks[h] = m => h = unit[m].name
        BY <2>2 DEF LocksRight
      <4> QED BY <3>3, <4>1, <4>2
    <3>5. locks[unit[m].name] = m <=> OpenLock(m, at) BY <2>2, <3>3 DEF LocksRight
    <3>6. \A n \in Tracked : n < at
      <4> SUFFICES ASSUME NEW n \in Tracked PROVE n < at OBVIOUS
      <4>1. n \in 1..Len(unit) /\ at \in 1..(Len(unit) + 1) /\ Len(unit) \in Nat
        BY TrackedPlaces DEF TypeOK, Positions
      <4>2. at \notin 1..Len(unit) BY <2>1 DEF Positions
      <4> QED BY <4>1, <4>2
    <3>7. OpenLock(m, at) <=> Lasting(m)
      <4>1. \A n \in Tracked : n > m <=> m < n BY TrackedPlaces
      <4> QED BY <2>3, <3>6, <4>1 DEF OpenLock, Lasting, Same
    <3> QED BY <2>1, <3>1, <3>2, <3>4, <3>5, <3>7
  <2> QED BY <2>1, <2>3, LeftoverCarry
<1>13. CASE UNCHANGED vars BY <1>13, <1>a DEF vars
<1> QED
  BY <1>1, <1>2, <1>3, <1>4, <1>5, <1>6, <1>7, <1>8, <1>9, <1>10, <1>11, <1>12, <1>13 DEF Next

\* Where a lock of a function follows another one that is not unlocked yet, rule 22.18
\* reports it, with a note at the first lock that holds the mutex.
LEMMA RelockFollows ==
  ASSUME TypeOK, RelocksJudged, ended, NEW v \in Visited
  PROVE  RelocksReported(v)
<1> SUFFICES ASSUME NEW m \in Body(v), NEW n \in Body(v), unit[m].op \in MatcherLocks,
                    unit[n].op \in MatcherLocks, Precedes(m, n, Body(v), Pairing)
             PROVE  \E k \in Body(v) : Report("22.18", n, k, v) \in reports
  BY DEF RelocksReported
<1>1. n \in Nat BY BodyPlaces
<1>2. Same(m, n) /\ m < n BY DEF Precedes
<1>3. HeldSince(m, v, n) BY <1>2 DEF Precedes, HeldSince, Same, Pairing
<1>4. unit[m].name # "" /\ unit[m].name = unit[n].name BY <1>2 DEF Same
<1>5. PICK k \in Body(v) : unit[k].name = unit[m].name /\ Holder(k, v, n)
  BY <1>1, <1>3, <1>4, FirstHolder
<1>6. HeldFrom(k, n, Body(v)) BY <1>4, <1>5 DEF Holder, HeldSince, HeldFrom, Same
<1>7. Report("22.18", n, k, v) \in reports BY <1>5, <1>6 DEF RelocksJudged, Holder
<1> QED BY <1>7

LEMMA LocksInvImplies == TypeOK /\ VisitInv /\ LeftoverRight => LocksJudged
<1> SUFFICES ASSUME TypeOK, VisitInv, LeftoverRight PROVE LocksJudged OBVIOUS
<1>1. RelocksJudged BY VisitInvImplies
<1>2. ended => LastReported BY DEF LeftoverRight, LastReported, Lasting
<1>3. ended => \A v \in Visited : RelocksReported(v) BY <1>1, RelockFollows
<1> QED BY <1>1, <1>2, <1>3 DEF LocksJudged, LocksAccounted

\* Rule 22.18, for every translation unit: a lock is reported exactly if the mutex is
\* locked already, with a note at the lock that found it free; and together with rule
\* 22.17 no lock is lost: one that nothing follows is reported at the end, and one that
\* another lock of its function follows makes that one a finding.
THEOREM RelocksAndLeftovers == Spec => []LocksJudged
<1>1. Init => TypeOK /\ UnlockInv /\ VisitInv /\ LeftoverRight
  <2>1. Init => LeftoverRight BY DEF Init, LeftoverRight
  <2> QED BY <2>1, InitTypes, UnlockInit, VisitInit
<1>2. TypeOK /\ UnlockInv /\ VisitInv /\ LeftoverRight /\ [Next]_vars
        => (TypeOK /\ UnlockInv /\ VisitInv /\ LeftoverRight)'
  BY NextTypes, UnlockNext, VisitNext, LeftoverNext
<1>3. TypeOK /\ VisitInv /\ LeftoverRight => LocksJudged BY LocksInvImplies
<1> QED BY <1>1, <1>2, <1>3, PTL DEF Spec

-----------------------------------------------------------------------------
(***************************************************************************)
(* Rules 22.19 and 21.26: the tables of waits and of the types of mutexes  *)
(* say what the nodes before `at` do.                                      *)
(***************************************************************************)
WaitsRight(w, p) ==
  \A h \in Names :
    /\ \A i, j \in 1..Len(w[h]) : i < j => w[h][i] < w[h][j]
    /\ \A n \in Positions : (\E i \in 1..Len(w[h]) : w[h][i] = n) <=> n \in Uses(h) /\ n < p

LastInit(m, d, p) == m \in InitOf(d) /\ m < p /\ \A k \in InitOf(d) : k < p => k <= m
NoInit(d, p)      == \A k \in InitOf(d) : ~(k < p)
TypesRight(l, p) ==
  \A d \in Vars : \/ l[d] = -1 /\ NoInit(d, p)
                  \/ \E m \in InitOf(d) : LastInit(m, d, p) /\ l[d] = unit[m].flags

Timed(n) == unit[n].op = "timedlock" /\ unit[n].var # NoVar
Untimed(n) ==
  \E m \in InitOf(unit[n].var) : LastInit(m, unit[n].var, n) /\ ~SupportsTimeout(unit[m].flags)
TimedRight(R, p) ==
  \A n \in Tracked : Timed(n) =>
    /\ Report("21.26 unknown", n, 0, 0) \in R <=> n < p /\ NoInit(unit[n].var, n)
    /\ Report("21.26", n, 0, 0) \in R <=> n < p /\ Untimed(n)

ConditionsOver(R) ==
  \A h \in Names :
    LET found == {r \in R : r.rule = "22.19" /\ unit[r.at].name = h}
    IN  /\ Cardinality(found) = IF Cardinality({unit[n].with : n \in Uses(h)}) > 1 THEN 1 ELSE 0
        /\ \A r \in found : \A n \in Uses(h) : r.note <= n

WaitInv ==
  /\ ~ended => /\ WaitsRight(waits, at) /\ TypesRight(types, at)
               /\ \A r \in reports : r.rule # "22.19"
  /\ ended => ConditionsOver(reports)
  /\ TimedRight(reports, at)

LEMMA WaitCarry ==
  ASSUME unit' = unit,
         ~ended' => /\ WaitsRight(waits', at') /\ TypesRight(types', at')
                    /\ \A r \in reports' : r.rule # "22.19",
         ended' => ConditionsOver(reports'),
         TimedRight(reports', at')
  PROVE  WaitInv'
<1>1. Positions' = Positions /\ Tracked' = Tracked
  BY DEF Tracked, Positions, System, Function
<1>2. \A h : Uses(h)' = Uses(h) BY <1>1 DEF Uses
<1>3. \A d : InitOf(d)' = InitOf(d) BY <1>1 DEF InitOf
<1>4. /\ \A m, d, p : LastInit(m, d, p)' <=> LastInit(m, d, p)
      /\ \A d, p : NoInit(d, p)' <=> NoInit(d, p)
  BY <1>3 DEF LastInit, NoInit
<1>5. \A n : (Timed(n)' <=> Timed(n)) /\ (Untimed(n)' <=> Untimed(n))
  BY <1>3, <1>4 DEF Timed, Untimed, SupportsTimeout
<1>6. ~ended' => WaitsRight(waits, at)' BY <1>1, <1>2 DEF WaitsRight
<1>7. ~ended' => TypesRight(types, at)'
  <2>1. /\ \A m, d : (LastInit(m, d, at))' <=> LastInit(m, d, at')
        /\ \A d : (NoInit(d, at))' <=> NoInit(d, at')
    BY <1>3 DEF LastInit, NoInit
  <2> QED BY <1>3, <2>1 DEF TypesRight
<1>8. TimedRight(reports, at)'
  <2>1. \A n \in Tracked : Timed(n) =>
          /\ Report("21.26 unknown", n, 0, 0) \in reports' <=> n < at' /\ NoInit(unit[n].var, n)
          /\ Report("21.26", n, 0, 0) \in reports' <=> n < at' /\ Untimed(n)
    BY DEF TimedRight
  <2>2. \A n : NoInit(unit[n].var, n)' <=> NoInit(unit[n].var, n) BY <1>3 DEF NoInit
  <2> HIDE DEF NoInit, Timed, Untimed
  <2> QED BY <1>1, <1>5, <2>1, <2>2 DEF TimedRight, Report
<1>9. ended' => ConditionsOver(reports)'
  <2>1. \A h : {unit[n].with : n \in Uses(h)}' = {unit[n].with : n \in Uses(h)} BY <1>2
  <2> QED BY <1>2, <2>1 DEF ConditionsOver
<1> QED BY <1>6, <1>7, <1>8, <1>9 DEF WaitInv

LEMMA UsesPlaces ==
  ASSUME TypeOK, NEW h, NEW n \in Uses(h)
  PROVE  n \in Tracked /\ n \in Positions /\ n \in Nat /\ unit[n].name = h
<1>1. n \in Tracked /\ unit[n].name = h BY DEF Uses
<1>2. n \in Positions BY <1>1 DEF Tracked
<1> QED BY <1>1, <1>2, NextPosition DEF TypeOK

LEMMA InitsPlaces ==
  ASSUME TypeOK, NEW d, NEW n \in InitOf(d)
  PROVE  n \in Tracked /\ n \in Positions /\ n \in Nat /\ unit[n].flags \in Nat
<1>1. n \in Tracked /\ unit[n].flags # -1 BY DEF InitOf
<1>2. n \in Positions BY <1>1 DEF Tracked
<1> QED BY <1>1, <1>2, NextPosition, NodeTypes DEF TypeOK

LEMMA AtPlaces ==
  ASSUME TypeOK, at \in Positions
  PROVE  at \in Nat /\ at # 0 /\ at < at + 1 /\ ~(at < at)
         /\ \A k \in Nat : k < at + 1 <=> k < at \/ k = at
<1>1. at \in Nat /\ at # 0 BY NextPosition DEF TypeOK
<1> QED BY <1>1

\* A wait comes behind the ones that are there.
LEMMA WaitsStep ==
  ASSUME TypeOK, WaitsRight(waits, at), at \in Positions, NEW w,
         \A h \in Names : w[h] = IF at \in Uses(h) THEN Append(waits[h], at) ELSE waits[h]
  PROVE  WaitsRight(w, at + 1)
<1> SUFFICES ASSUME NEW h \in Names
             PROVE  /\ \A i, j \in 1..Len(w[h]) : i < j => w[h][i] < w[h][j]
                    /\ \A n \in Positions :
                         (\E i \in 1..Len(w[h]) : w[h][i] = n) <=> n \in Uses(h) /\ n < at + 1
  BY DEF WaitsRight
<1>1. at \in Nat /\ at < at + 1 /\ \A k \in Nat : k < at + 1 <=> k < at \/ k = at BY AtPlaces
<1>2. \A n \in Positions : n \in Nat BY NextPosition DEF TypeOK
<1>3. /\ \A i, j \in 1..Len(waits[h]) : i < j => waits[h][i] < waits[h][j]
      /\ \A n \in Positions :
           (\E i \in 1..Len(waits[h]) : waits[h][i] = n) <=> n \in Uses(h) /\ n < at
  BY DEF WaitsRight
<1>4. CASE at \notin Uses(h)
  <2>1. w[h] = waits[h] BY <1>4
  <2> QED BY <1>1, <1>2, <1>3, <1>4, <2>1
<1>5. CASE at \in Uses(h)
  <2> DEFINE old == waits[h]
             l   == Len(old)
  <2>1. w[h] = Append(old, at) BY <1>5
  <2>2. old \in Seq(Positions) BY DEF TypeOK, Positions
  <2>3. /\ Len(w[h]) = l + 1 /\ w[h][l + 1] = at /\ \A i \in 1..l : w[h][i] = old[i]
        /\ l \in Nat
    BY <2>1, <2>2, AppendProperties
  <2>4. \A i \in 1..l : old[i] \in Positions /\ old[i] < at
    <3>1. \A i \in 1..l : old[i] \in Positions BY <2>2, ElementOfSeq
    <3> QED BY <1>3, <3>1
  <2> HIDE DEF old
  <2>5. \A i \in 1..(l + 1) : i \in 1..l \/ i = l + 1 BY <2>3
  <2>6. ASSUME NEW i \in 1..(l + 1), NEW j \in 1..(l + 1), i < j PROVE w[h][i] < w[h][j]
    <3>1. i \in 1..l BY <2>3, <2>6
    <3>2. CASE j \in 1..l BY <1>3, <2>3, <2>6, <3>1, <3>2 DEF old
    <3>3. CASE j = l + 1 BY <2>3, <2>4, <3>1, <3>3
    <3> QED BY <2>5, <3>2, <3>3
  <2>7. ASSUME NEW n \in Positions
        PROVE  (\E i \in 1..(l + 1) : w[h][i] = n) <=> n \in Uses(h) /\ n < at + 1
    <3>1. (\E i \in 1..(l + 1) : w[h][i] = n) <=> (\E i \in 1..l : old[i] = n) \/ n = at
      <4>1. l + 1 \in 1..(l + 1) /\ \A i \in 1..l : i \in 1..(l + 1) BY <2>3
      <4> QED BY <2>3, <2>5, <4>1
    <3>2. n < at + 1 <=> n < at \/ n = at BY <1>1, <1>2
    <3>3. (\E i \in 1..l : old[i] = n) <=> n \in Uses(h) /\ n < at BY <1>3 DEF old
    <3> QED BY <1>5, <3>1, <3>2, <3>3
  <2> QED BY <2>3, <2>6, <2>7
<1> QED BY <1>4, <1>5

\* The last mtx_init of a variable.
LEMMA TypesStep ==
  ASSUME TypeOK, TypesRight(types, at), at \in Positions, NEW l,
         \A d \in Vars : l[d] = IF at \in InitOf(d) THEN unit[at].flags ELSE types[d]
  PROVE  TypesRight(l, at + 1)
<1> SUFFICES ASSUME NEW d \in Vars
             PROVE  \/ l[d] = -1 /\ NoInit(d, at + 1)
                    \/ \E m \in InitOf(d) : LastInit(m, d, at + 1) /\ l[d] = unit[m].flags
  BY DEF TypesRight
<1>1. at \in Nat /\ at < at + 1 /\ \A k \in Nat : k < at + 1 <=> k < at \/ k = at BY AtPlaces
<1>2. \A k \in InitOf(d) : k \in Nat BY InitsPlaces
<1>3. CASE at \in InitOf(d)
  <2>1. l[d] = unit[at].flags BY <1>3
  <2>2. LastInit(at, d, at + 1) BY <1>1, <1>2, <1>3 DEF LastInit
  <2> QED BY <1>3, <2>1, <2>2
<1>4. CASE at \notin InitOf(d)
  <2>1. l[d] = types[d] BY <1>4
  <2>2. \A k \in InitOf(d) : k < at + 1 <=> k < at BY <1>1, <1>2, <1>4
  <2>3. NoInit(d, at + 1) <=> NoInit(d, at) BY <2>2 DEF NoInit
  <2>4. \A m \in InitOf(d) : LastInit(m, d, at + 1) <=> LastInit(m, d, at) BY <2>2 DEF LastInit
  <2> QED BY <2>1, <2>3, <2>4 DEF TypesRight
<1> QED BY <1>3, <1>4

LEMMA TimedStep ==
  ASSUME TypeOK, TimedRight(reports, at), at \in Positions, NEW S,
         \A n \in Tracked : Timed(n) =>
           /\ Report("21.26 unknown", n, 0, 0) \in S <=> n = at /\ NoInit(unit[n].var, n)
           /\ Report("21.26", n, 0, 0) \in S <=> n = at /\ Untimed(n)
  PROVE  TimedRight(reports \cup S, at + 1)
<1> SUFFICES ASSUME NEW n \in Tracked, Timed(n)
             PROVE  /\ Report("21.26 unknown", n, 0, 0) \in reports \cup S <=>
                         n < at + 1 /\ NoInit(unit[n].var, n)
                    /\ Report("21.26", n, 0, 0) \in reports \cup S <=> n < at + 1 /\ Untimed(n)
  BY DEF TimedRight
<1>1. n < at + 1 <=> n < at \/ n = at BY TrackedPlaces
<1>2. /\ Report("21.26 unknown", n, 0, 0) \in reports <=> n < at /\ NoInit(unit[n].var, n)
      /\ Report("21.26", n, 0, 0) \in reports <=> n < at /\ Untimed(n)
  BY DEF TimedRight
<1> QED BY <1>1, <1>2

\* What is seen of the timed locks at the node the traversal is at.
LEMMA TimedHere ==
  ASSUME TypeOK, TypesRight(types, at), at \in Tracked, NEW n \in Tracked, Timed(n)
  PROVE  /\ Report("21.26 unknown", n, 0, 0) \in TimedReports(at) <=>
              n = at /\ NoInit(unit[n].var, n)
         /\ Report("21.26", n, 0, 0) \in TimedReports(at) <=> n = at /\ Untimed(n)
<1>1. at \in Positions BY DEF Tracked
<1> DEFINE d == unit[at].var
<1>2. \A r \in TimedReports(at) : r.at = at
  <2>1. \A r \in TimedReports(at) : r = Report("21.26 unknown", at, 0, 0)
                                    \/ r = Report("21.26", at, 0, 0)
    BY DEF TimedReports
  <2>2. Report("21.26 unknown", at, 0, 0).at = at /\ Report("21.26", at, 0, 0).at = at
    BY DEF Report
  <2> QED BY <2>1, <2>2
<1>3. Report("21.26 unknown", n, 0, 0).at = n /\ Report("21.26", n, 0, 0).at = n BY DEF Report
<1>4. CASE n # at BY <1>2, <1>3, <1>4
<1>5. CASE n = at
  <2>1. d \in Vars /\ unit[at].op = "timedlock" /\ d # NoVar
    BY <1>1, <1>5, NodeTypes DEF TypeOK, Timed
  <2>2. Report("21.26 unknown", at, 0, 0) # Report("21.26", at, 0, 0) BY DEF Report
  <2>3. Report("21.26 unknown", at, 0, 0) \in TimedReports(at) <=> types[d] = -1
    BY <2>1, <2>2 DEF TimedReports
  <2>4. Report("21.26", at, 0, 0) \in TimedReports(at) <=>
          types[d] # -1 /\ ~SupportsTimeout(types[d])
    BY <2>1, <2>2 DEF TimedReports
  <2>5. \/ types[d] = -1 /\ NoInit(d, at)
        \/ \E m \in InitOf(d) : LastInit(m, d, at) /\ types[d] = unit[m].flags
    BY <2>1 DEF TypesRight
  <2>6. \A m \in InitOf(d) : m \in Nat /\ unit[m].flags \in Nat BY InitsPlaces
  <2>7. CASE types[d] = -1 /\ NoInit(d, at)
    <3>1. ~Untimed(at) BY <2>7 DEF Untimed, LastInit, NoInit
    <3> QED BY <1>5, <2>3, <2>4, <2>7, <3>1
  <2>8. CASE \E m \in InitOf(d) : LastInit(m, d, at) /\ types[d] = unit[m].flags
    <3>1. PICK m \in InitOf(d) : LastInit(m, d, at) /\ types[d] = unit[m].flags BY <2>8
    <3>2. types[d] # -1 /\ ~NoInit(d, at) BY <2>6, <3>1 DEF LastInit, NoInit
    <3>3. \A k \in InitOf(d) : LastInit(k, d, at) => k = m
      <4>1. \A i, j \in Nat : i <= j /\ j <= i => i = j OBVIOUS
      <4> QED BY <2>6, <3>1, <4>1 DEF LastInit
    <3>4. Untimed(at) <=> ~SupportsTimeout(unit[m].flags) BY <3>1, <3>3 DEF Untimed
    <3> QED BY <1>5, <2>3, <2>4, <3>1, <3>2, <3>4
  <2> QED BY <2>5, <2>7, <2>8
<1> QED BY <1>4, <1>5

\* At the end of the unit: the first use with another mutex than the first one's.
LEMMA ConditionsAtEnd ==
  ASSUME TypeOK, WaitsRight(waits, at), at \notin Positions,
         \A r \in reports : r.rule # "22.19"
  PROVE  ConditionsOver(reports \cup Leftover \cup WaitReports)
<1> DEFINE R == reports \cup Leftover \cup WaitReports
           First(g) == {j \in Strays(waits[g]) : \A k \in Strays(waits[g]) : j <= k}
<1> SUFFICES ASSUME NEW h \in Names
             PROVE  LET found == {r \in R : r.rule = "22.19" /\ unit[r.at].name = h}
                    IN  /\ Cardinality(found) =
                             IF Cardinality({unit[n].with : n \in Uses(h)}) > 1 THEN 1 ELSE 0
                        /\ \A r \in found : \A n \in Uses(h) : r.note <= n
  BY DEF ConditionsOver
<1> DEFINE found == {r \in R : r.rule = "22.19" /\ unit[r.at].name = h}
           w == waits[h]
           U == Uses(h)
           W == {unit[n].with : n \in U}
<1>1. \A g \in Names : /\ waits[g] \in Seq(Positions) /\ Len(waits[g]) \in Nat
                       /\ DOMAIN waits[g] = 1..Len(waits[g])
                       /\ \A i \in 1..Len(waits[g]) : waits[g][i] \in Positions
  <2> SUFFICES ASSUME NEW g \in Names
               PROVE  /\ waits[g] \in Seq(Positions) /\ Len(waits[g]) \in Nat
                      /\ DOMAIN waits[g] = 1..Len(waits[g])
                      /\ \A i \in 1..Len(waits[g]) : waits[g][i] \in Positions
    OBVIOUS
  <2>1. waits[g] \in Seq(Positions) BY DEF TypeOK, Positions
  <2> QED BY <2>1, ElementOfSeq
<1>2. \A n \in Tracked : n < at
  <2> SUFFICES ASSUME NEW n \in Tracked PROVE n < at OBVIOUS
  <2>1. n \in 1..Len(unit) /\ at \in 1..(Len(unit) + 1) /\ Len(unit) \in Nat
    BY TrackedPlaces DEF TypeOK, Positions
  <2>2. at \notin 1..Len(unit) BY DEF Positions
  <2> QED BY <2>1, <2>2
<1>3. \A g \in Names : \A n \in Positions :
        (\E i \in 1..Len(waits[g]) : waits[g][i] = n) <=> n \in Uses(g)
  BY <1>2, UsesPlaces DEF WaitsRight
<1>4. \A g \in Names : \A i \in 1..Len(waits[g]) : waits[g][i] \in Uses(g)
  BY <1>1, <1>3
<1>5. \A n \in U : n \in Nat /\ n \in Positions /\ \E i \in 1..Len(w) : w[i] = n
  BY <1>3, UsesPlaces
<1>6. \A g \in Names : Strays(waits[g]) \subseteq 1..Len(waits[g]) BY <1>1 DEF Strays
<1>7. \A r \in R : r.rule = "22.19" <=> r \in WaitReports
  <2>1. \A r \in WaitReports : r.rule = "22.19" BY DEF WaitReports, Report
  <2>2. \A r \in Leftover : r.rule # "22.19" BY DEF Leftover, Report
  <2> QED BY <2>1, <2>2
<1>8. \A r : r \in WaitReports <=>
        \E g \in Names : \E i \in First(g) : r = Report("22.19", waits[g][i], waits[g][1], 0)
  BY DEF WaitReports
<1>9. \A g \in Names : \A i \in First(g) :
        unit[Report("22.19", waits[g][i], waits[g][1], 0).at].name = g
  BY <1>4, <1>6, UsesPlaces DEF Report
<1> HIDE DEF First
<1>10. \A r : r \in found <=> \E i \in First(h) : r = Report("22.19", w[i], w[1], 0)
  <2>1. \A r : r \in found <=> r \in WaitReports /\ unit[r.at].name = h BY <1>7
  <2> QED BY <1>8, <1>9, <2>1
<1>11. \A r \in found : \A n \in U : r.note <= n
  <2> SUFFICES ASSUME NEW r \in found, NEW n \in U PROVE r.note <= n OBVIOUS
  <2>1. r.note = w[1] BY <1>10 DEF Report
  <2>2. PICK i \in 1..Len(w) : w[i] = n BY <1>5
  <2>3. 1 \in 1..Len(w) /\ (1 < i \/ i = 1) BY <1>1, <2>2
  <2>4. w[1] < w[i] \/ w[1] = w[i] BY <2>3 DEF WaitsRight
  <2>5. w[1] \in Nat /\ n \in Nat BY <1>4, <1>5, <2>3, UsesPlaces
  <2> QED BY <2>1, <2>2, <2>4, <2>5
<1>12. IsFiniteSet(W)
  <2>1. IsFiniteSet(Positions)
    <3>1. Len(unit) \in Int BY DEF TypeOK
    <3> QED BY <3>1, FS_Interval DEF Positions
  <2>2. U \in SUBSET Positions BY <1>5
  <2>3. IsFiniteSet(U) BY <2>1, <2>2, FS_Subset
  <2> DEFINE f == [n \in U |-> unit[n].with]
  <2>4. f \in Surjection(U, W) BY DEF Surjection
  <2> QED BY <2>3, <2>4, FS_Surjection
<1>13. CASE Strays(w) = {}
  <2>1. found = {} BY <1>10, <1>13 DEF First
  <2>2. Cardinality(found) = 0 BY <2>1, FS_EmptySet
  <2>3. \A n \in U : unit[n].with = unit[w[1]].with
    BY <1>1, <1>5, <1>13 DEF Strays
  <2>4. W = {} \/ W = {unit[w[1]].with} BY <2>3
  <2>5. ~(Cardinality(W) > 1)
    <3>1. Cardinality(W) = 0 \/ Cardinality(W) = 1 BY <2>4, FS_EmptySet, FS_Singleton
    <3> QED BY <3>1
  <2> QED BY <1>11, <2>2, <2>5
<1>14. CASE Strays(w) # {}
  <2>1. Strays(w) \in SUBSET Nat BY <1>1, <1>6
  <2>2. PICK i \in Strays(w) : \A j \in Strays(w) : i <= j BY <1>14, <2>1, LeastNat
  <2>3. First(h) = {i} BY <2>1, <2>2 DEF First
  <2>4. found = {Report("22.19", w[i], w[1], 0)} BY <1>10, <2>3
  <2>5. Cardinality(found) = 1 BY <2>4, FS_Singleton
  <2> DEFINE a == unit[w[1]].with
             b == unit[w[i]].with
  <2>6. i \in 1..Len(w) /\ 1 \in 1..Len(w) BY <1>1, <1>6
  <2>7. a \in W /\ b \in W /\ a # b BY <1>4, <2>6 DEF Strays
  <2>8. Cardinality(W) > 1
    <3>1. {a, b} \in SUBSET W BY <2>7
    <3>2. Cardinality({a, b}) <= Cardinality(W) BY <1>12, <3>1, FS_Subset
    <3>3. Cardinality({a} \cup {b}) = Cardinality({a}) + 1
      <4>1. IsFiniteSet({a}) /\ b \notin {a} BY <2>7, FS_Singleton
      <4> QED BY <4>1, FS_AddElement
    <3>4. {a} \cup {b} = {a, b} OBVIOUS
    <3>5. Cardinality({a, b}) = 2
      <4>1. Cardinality({a}) = 1 BY FS_Singleton
      <4>2. Cardinality({a} \cup {b}) = 2 BY <3>3, <4>1
      <4> QED BY <3>4, <4>2
    <3>6. Cardinality(W) \in Nat BY <1>12, FS_CardinalityType
    <3> HIDE DEF W, a, b
    <3> QED BY <3>2, <3>5, <3>6
  <2> QED BY <1>11, <2>5, <2>8
<1> QED BY <1>13, <1>14

\* A step of the traversal to the next node.
LEMMA TraverseStep ==
  ASSUME TypeOK, WaitInv, ~ended, at \in Positions, at' = at + 1, unit' = unit, ended' = ended,
         \A h \in Names : waits'[h] = IF at \in Uses(h) THEN Append(waits[h], at) ELSE waits[h],
         \A d \in Vars : types'[d] = IF at \in InitOf(d) THEN unit[at].flags ELSE types[d],
         NEW S, reports' = reports \cup S, \A r \in S : r.rule # "22.19",
         \A n \in Tracked : Timed(n) =>
           /\ Report("21.26 unknown", n, 0, 0) \in S <=> n = at /\ NoInit(unit[n].var, n)
           /\ Report("21.26", n, 0, 0) \in S <=> n = at /\ Untimed(n)
  PROVE  WaitInv'
<1>1. WaitsRight(waits, at) /\ TypesRight(types, at) /\ TimedRight(reports, at)
      /\ \A r \in reports : r.rule # "22.19"
  BY DEF WaitInv
<1>2. WaitsRight(waits', at + 1) BY <1>1, WaitsStep
<1>3. TypesRight(types', at + 1) BY <1>1, TypesStep
<1>4. TimedRight(reports', at + 1) BY <1>1, TimedStep
<1>5. \A r \in reports' : r.rule # "22.19" BY <1>1
<1> QED BY <1>2, <1>3, <1>4, <1>5, WaitCarry

\* Reports of the rules the matchers here have no part in.
Aside(S) == \A r \in S : r.rule \notin {"22.19", "21.26 unknown", "21.26"}

LEMMA AsideReports ==
  /\ Aside({}) /\ Aside(UnlockReports(at)) /\ Aside(ThreadReports(step))
  /\ \A n, m, v : Aside({Report("22.18", n, m, v)})
<1>1. \A r \in UnlockReports(at) : r = Report("22.17", at, locks[unit[at].name], 0)
  BY DEF UnlockReports
<1>2. \A r \in ThreadReports(step) : r = Report("22.11", step, threads[unit[step].name], visit)
  BY DEF ThreadReports
<1>3. /\ Report("22.17", at, locks[unit[at].name], 0).rule = "22.17"
      /\ Report("22.11", step, threads[unit[step].name], visit).rule = "22.11"
      /\ \A n, m, v : Report("22.18", n, m, v).rule = "22.18"
  BY DEF Report
<1>4. Aside(UnlockReports(at)) BY <1>1, <1>3 DEF Aside
<1>5. Aside(ThreadReports(step)) BY <1>2, <1>3 DEF Aside
<1>6. \A n, m, v : Aside({Report("22.18", n, m, v)}) BY <1>3 DEF Aside
<1>7. Aside({}) BY DEF Aside
<1> QED BY <1>4, <1>5, <1>6, <1>7

LEMMA AsideMisses ==
  ASSUME NEW S, Aside(S)
  PROVE  \A n : Report("21.26 unknown", n, 0, 0) \notin S /\ Report("21.26", n, 0, 0) \notin S
BY DEF Aside, Report

\* The node at `at` is no timed lock that the matcher judges.
LEMMA QuietStep ==
  ASSUME TypeOK, WaitInv, ~ended, at \in Positions, at' = at + 1, unit' = unit, ended' = ended,
         \A h \in Names : waits'[h] = IF at \in Uses(h) THEN Append(waits[h], at) ELSE waits[h],
         \A d \in Vars : types'[d] = IF at \in InitOf(d) THEN unit[at].flags ELSE types[d],
         NEW S, reports' = reports \cup S, Aside(S),
         ~(at \in Tracked /\ Timed(at))
  PROVE  WaitInv'
<1>1. \A r \in S : r.rule # "22.19" BY DEF Aside
<1>2. \A n \in Tracked : Timed(n) =>
        /\ Report("21.26 unknown", n, 0, 0) \in S <=> n = at /\ NoInit(unit[n].var, n)
        /\ Report("21.26", n, 0, 0) \in S <=> n = at /\ Untimed(n)
  BY AsideMisses
<1> QED BY <1>1, <1>2, TraverseStep

\* A step of the visitors.
LEMMA AsideStep ==
  ASSUME WaitInv, UNCHANGED <<unit, at, waits, types, ended>>, ~ended, NEW S, Aside(S),
         reports' = reports \cup S
  PROVE  WaitInv'
<1>1. \A r \in reports' : r.rule # "22.19" BY DEF WaitInv, Aside
<1>2. TimedRight(reports', at)
  <2>1. \A n : /\ Report("21.26 unknown", n, 0, 0) \in reports'
                    <=> Report("21.26 unknown", n, 0, 0) \in reports
               /\ Report("21.26", n, 0, 0) \in reports' <=> Report("21.26", n, 0, 0) \in reports
    BY AsideMisses
  <2> QED BY <2>1 DEF WaitInv, TimedRight
<1> QED BY <1>1, <1>2, WaitCarry DEF WaitInv

LEMMA WaitInit == Init => WaitInv
<1> SUFFICES ASSUME Init PROVE WaitInv OBVIOUS
<1>0. TypeOK BY InitTypes
<1>1. at = 1 /\ reports = {} /\ ended = FALSE /\ waits = [h \in Names |-> <<>>]
      /\ types = [d \in Vars |-> -1]
  BY DEF Init
<1>2. \A n \in Tracked : n \in Nat /\ ~(n < 1)
  <2>1. \A n \in Tracked : n \in Positions BY DEF Tracked
  <2>2. \A n \in Positions : n \in Nat /\ n # 0 BY <1>0, NextPosition DEF TypeOK
  <2> QED BY <2>1, <2>2
<1>3. WaitsRight(waits, at)
  <2>1. \A h : \A n \in Uses(h) : n \in Tracked BY DEF Uses
  <2>2. Len(<<>>) = 0 /\ \A i \in 1..0 : FALSE OBVIOUS
  <2> QED BY <1>1, <1>2, <2>1, <2>2 DEF WaitsRight
<1>4. TypesRight(types, at)
  <2>1. \A d : \A n \in InitOf(d) : n \in Tracked BY DEF InitOf
  <2> QED BY <1>1, <1>2, <2>1 DEF TypesRight, NoInit
<1>5. TimedRight(reports, at) BY <1>1, <1>2 DEF TimedRight
<1> QED BY <1>1, <1>3, <1>4, <1>5 DEF WaitInv

LEMMA WaitNext == TypeOK /\ UnlockInv /\ WaitInv /\ [Next]_vars => WaitInv'
<1> SUFFICES ASSUME TypeOK, UnlockInv, WaitInv, [Next]_vars PROVE WaitInv' OBVIOUS
<1>a. /\ unit \in Seq(Node) /\ waits \in [Names -> Seq(1..Len(unit))]
      /\ types \in [Vars -> Nat \cup {-1}]
  BY DEF TypeOK
<1>b. visit # 0 \/ at \in Positions => ~ended BY DEF UnlockInv
<1>c. ASSUME unit' = unit, at' = at, waits' = waits, types' = types, ended' = ended, ~ended,
             reports' = reports
      PROVE  WaitInv'
  <2>1. reports' = reports \cup {} BY <1>c
  <2> QED BY <1>c, <2>1, AsideStep, AsideReports
<1>d. ASSUME at \in Positions, at' = at + 1, unit' = unit, waits' = waits, types' = types,
             ended' = ended, reports' = reports,
             \A h : at \notin Uses(h), \A d \in Vars : at \notin InitOf(d),
             ~(at \in Tracked /\ Timed(at))
      PROVE  WaitInv'
  <2>1. reports' = reports \cup {} BY <1>d
  <2> QED BY <1>b, <1>d, <2>1, QuietStep, AsideReports
<1>e. unit[at].op = "function" => /\ at \notin Tracked
                                  /\ \A h : at \notin Uses(h)
                                  /\ \A d : at \notin InitOf(d)
  BY DEF Tracked, Uses, InitOf, Calls, Life
<1>1. CASE EnterFunction
  <2>1. /\ at \in Positions /\ unit' = unit /\ waits' = waits /\ types' = types /\ ended' = ended
        /\ reports' = reports /\ unit[at].op = "function" /\ (at' = at + 1 \/ at' = at)
    BY <1>1 DEF EnterFunction
  <2> QED BY <1>b, <1>c, <1>d, <1>e, <2>1
<1>2. CASE VisitThreadCall
  <2>1. /\ visit # 0 /\ UNCHANGED <<unit, at, waits, types, ended>>
        /\ reports' = reports \cup ThreadReports(step)
    BY <1>2 DEF VisitThreadCall, Visiting
  <2> QED BY <1>b, <2>1, AsideStep, AsideReports
<1>3. CASE VisitLock
  <2>1. /\ visit # 0 /\ UNCHANGED <<unit, at, waits, types, ended>>
    BY <1>3 DEF VisitLock, Visiting
  <2>2. \/ reports' = reports
        \/ reports' = reports \cup {Report("22.18", step, held[unit[step].name], visit)}
    BY <1>3 DEF VisitLock
  <2> QED BY <1>b, <1>c, <2>1, <2>2, AsideStep, AsideReports
<1>4. CASE VisitUnlock BY <1>4, <1>b, <1>c DEF VisitUnlock, Visiting
<1>5. CASE VisitOther BY <1>5, <1>b, <1>c DEF VisitOther
<1>6. CASE LeaveFunction
  <2>1. /\ visit # 0 /\ at' = at + 1 /\ at \in Positions /\ unit[at].op = "function"
        /\ UNCHANGED <<unit, waits, types, reports, ended>>
    BY <1>6 DEF LeaveFunction, NextNode, UnlockInv
  <2> QED BY <1>d, <1>e, <2>1
<1>7. CASE MatchLock
  <2>1. /\ at \in Positions /\ at' = at + 1 /\ unit' = unit /\ ended' = ended
        /\ waits' = waits /\ types' = types /\ reports' = reports \cup TimedReports(at)
        /\ unit[at].op \in MatcherLocks /\ ~System(at)
    BY <1>7 DEF MatchLock, Matching
  <2>2. /\ at \in Tracked /\ (\A h : at \notin Uses(h)) /\ \A d : at \notin InitOf(d)
    BY <2>1 DEF Tracked, Uses, InitOf, Calls, MatcherLocks
  <2>3. ~ended /\ TypesRight(types, at) BY <1>b, <2>1 DEF WaitInv
  <2>4. \A r \in TimedReports(at) : r.rule # "22.19"
    <3>1. \A r \in TimedReports(at) : r = Report("21.26 unknown", at, 0, 0)
                                      \/ r = Report("21.26", at, 0, 0)
      BY DEF TimedReports
    <3>2. /\ Report("21.26 unknown", at, 0, 0).rule = "21.26 unknown"
          /\ Report("21.26", at, 0, 0).rule = "21.26"
      BY DEF Report
    <3> QED BY <3>1, <3>2
  <2>5. \A n \in Tracked : Timed(n) =>
          /\ Report("21.26 unknown", n, 0, 0) \in TimedReports(at)
               <=> n = at /\ NoInit(unit[n].var, n)
          /\ Report("21.26", n, 0, 0) \in TimedReports(at) <=> n = at /\ Untimed(n)
    BY <2>2, <2>3, TimedHere
  <2> QED BY <2>1, <2>2, <2>3, <2>4, <2>5, TraverseStep
<1>8. CASE MatchUnlock
  <2>1. /\ at \in Positions /\ at' = at + 1 /\ unit' = unit /\ ended' = ended
        /\ waits' = waits /\ types' = types /\ reports' = reports \cup UnlockReports(at)
        /\ unit[at].op = "unlock"
    BY <1>8 DEF MatchUnlock, Matching
  <2>2. /\ (\A h : at \notin Uses(h)) /\ (\A d : at \notin InitOf(d)) /\ ~Timed(at)
    BY <2>1 DEF Uses, InitOf, Timed
  <2> QED BY <1>b, <2>1, <2>2, QuietStep, AsideReports
<1>9. CASE MatchWait
  <2>1. /\ at \in Positions /\ at' = at + 1 /\ unit' = unit /\ ended' = ended
        /\ waits' = [waits EXCEPT ![unit[at].name] = Append(waits[unit[at].name], at)]
        /\ types' = types /\ reports' = reports \cup {}
        /\ unit[at].op = "wait" /\ unit[at].with # "" /\ ~System(at)
    BY <1>9 DEF MatchWait, Matching
  <2>2. (\A d : at \notin InitOf(d)) /\ ~Timed(at) BY <2>1 DEF InitOf, Timed
  <2>3. \A h : at \in Uses(h) <=> h = unit[at].name BY <2>1 DEF Uses, Tracked, Calls
  <2>4. \A h \in Names :
          waits'[h] = IF at \in Uses(h) THEN Append(waits[h], at) ELSE waits[h]
    <3> DEFINE longer == Append(waits[unit[at].name], at)
    <3>1. waits' = [waits EXCEPT ![unit[at].name] = longer] BY <2>1
    <3> HIDE DEF longer
    <3>2. \A h \in Names : waits'[h] = IF h = unit[at].name THEN longer ELSE waits[h]
      BY <1>a, <3>1
    <3> QED BY <2>3, <3>2 DEF longer
  <2> QED BY <1>b, <2>1, <2>2, <2>4, QuietStep, AsideReports
<1>10. CASE MatchInit
  <2>1. /\ at \in Positions /\ at' = at + 1 /\ unit' = unit /\ ended' = ended
        /\ waits' = waits /\ reports' = reports \cup {}
        /\ types' = [types EXCEPT ![unit[at].var] = unit[at].flags]
        /\ unit[at].op = "init" /\ ~System(at) /\ unit[at].addr /\ unit[at].flags # -1
    BY <1>10 DEF MatchInit, Matching
  <2>2. (\A h : at \notin Uses(h)) /\ ~Timed(at) BY <2>1 DEF Uses, Timed
  <2>3. \A d : at \in InitOf(d) <=> d = unit[at].var BY <2>1 DEF InitOf, Tracked, Calls
  <2>4. \A d \in Vars : types'[d] = IF at \in InitOf(d) THEN unit[at].flags ELSE types[d]
    BY <1>a, <2>1, <2>3
  <2> QED BY <1>b, <2>1, <2>2, <2>4, QuietStep, AsideReports
<1>11. CASE MatchNothing
  <2>1. /\ at \in Positions /\ at' = at + 1 /\ unit' = unit /\ ended' = ended
        /\ waits' = waits /\ types' = types /\ reports' = reports
    BY <1>11 DEF MatchNothing, Matching
  <2>2. \/ System(at) \/ unit[at].op \in Life
        \/ unit[at].op = "unlock" /\ unit[at].name = ""
        \/ unit[at].op = "wait" /\ (unit[at].name = "" \/ unit[at].with = "")
        \/ unit[at].op = "init" /\ (~unit[at].addr \/ unit[at].var = NoVar \/ unit[at].flags = -1)
    BY <1>11 DEF MatchNothing
  <2>3. ~(at \in Tracked /\ Timed(at)) BY <2>2 DEF Tracked, Timed, Life
  <2>4. \A h \in Names : at \notin Uses(h)
    BY <2>2, NamesAssumption DEF Uses, Tracked, Life
  <2>5. \A d \in Vars : at \notin InitOf(d)
    BY <2>2, NamesAssumption DEF InitOf, Tracked, Life
  <2>6. \A h \in Names :
          waits'[h] = IF at \in Uses(h) THEN Append(waits[h], at) ELSE waits[h]
    BY <2>1, <2>4
  <2>7. \A d \in Vars : types'[d] = IF at \in InitOf(d) THEN unit[at].flags ELSE types[d]
    BY <2>1, <2>5
  <2>8. reports' = reports \cup {} BY <2>1
  <2> QED BY <1>b, <2>1, <2>3, <2>6, <2>7, <2>8, QuietStep, AsideReports
<1>12. CASE EndUnit
  <2>1. /\ at \notin Positions /\ ~ended /\ unit' = unit /\ at' = at /\ ended' = TRUE
        /\ reports' = reports \cup Leftover \cup WaitReports
    BY <1>12 DEF EndUnit
  <2>2. ConditionsOver(reports') BY <2>1, ConditionsAtEnd DEF WaitInv
  <2>3. Aside(Leftover)
    <3>1. \A r \in Leftover : r.rule = "22.17" BY DEF Leftover, Report
    <3> QED BY <3>1 DEF Aside
  <2>4. \A r \in WaitReports : r.rule = "22.19" BY DEF WaitReports, Report
  <2>5. \A n : /\ Report("21.26 unknown", n, 0, 0) \notin WaitReports
               /\ Report("21.26", n, 0, 0) \notin WaitReports
    <3>1. \A n : /\ Report("21.26 unknown", n, 0, 0).rule # "22.19"
                 /\ Report("21.26", n, 0, 0).rule # "22.19"
      BY DEF Report
    <3> QED BY <2>4, <3>1
  <2>6. \A n : /\ Report("21.26 unknown", n, 0, 0) \in reports'
                    <=> Report("21.26 unknown", n, 0, 0) \in reports
               /\ Report("21.26", n, 0, 0) \in reports' <=> Report("21.26", n, 0, 0) \in reports
    BY <2>1, <2>3, <2>5, AsideMisses
  <2>7. TimedRight(reports', at) BY <2>6 DEF WaitInv, TimedRight
  <2> QED BY <2>1, <2>2, <2>7, WaitCarry
<1>13. CASE UNCHANGED vars
  <2>1. /\ unit' = unit /\ at' = at /\ waits' = waits /\ types' = types /\ ended' = ended
        /\ reports' = reports
    BY <1>13 DEF vars
  <2> QED BY <2>1, WaitCarry DEF WaitInv
<1> QED
  BY <1>1, <1>2, <1>3, <1>4, <1>5, <1>6, <1>7, <1>8, <1>9, <1>10, <1>11, <1>12, <1>13 DEF Next

\* The bit of mtx_timed.
LEMMA TimeoutBit == \A t \in Nat : t % 8 \notin 4..7 <=> ~SupportsTimeout(t)
BY DEF SupportsTimeout

LEMMA TimedImplies == TypeOK /\ UnlockInv /\ WaitInv => TimedlocksJudged
<1> SUFFICES ASSUME TypeOK, UnlockInv, WaitInv, ended, NEW n \in Tracked, Timed(n)
             PROVE  LET before == {m \in InitOf(unit[n].var) : m < n}
                        last   == {m \in before : \A k \in before : k <= m}
                    IN  /\ (Report("21.26 unknown", n, 0, 0) \in reports <=> before = {})
                        /\ (Report("21.26", n, 0, 0) \in reports
                              <=> \E m \in last : unit[m].flags % 8 \notin 4..7)
  BY DEF TimedlocksJudged, Timed
<1> DEFINE I == InitOf(unit[n].var)
           before == {m \in I : m < n}
           last   == {m \in before : \A k \in before : k <= m}
<1>1. n < at
  <2>1. n \in 1..Len(unit) /\ at \in 1..(Len(unit) + 1) /\ Len(unit) \in Nat
    BY TrackedPlaces DEF TypeOK, Positions
  <2>2. at \notin 1..Len(unit) BY DEF UnlockInv, Positions
  <2> QED BY <2>1, <2>2
<1>2. /\ Report("21.26 unknown", n, 0, 0) \in reports <=> NoInit(unit[n].var, n)
      /\ Report("21.26", n, 0, 0) \in reports <=> Untimed(n)
  BY <1>1 DEF WaitInv, TimedRight
<1>3. NoInit(unit[n].var, n) <=> before = {} BY DEF NoInit
<1>4. \A m : m \in last <=> m \in I /\ LastInit(m, unit[n].var, n) BY DEF LastInit
<1>5. \A m \in I : unit[m].flags % 8 \notin 4..7 <=> ~SupportsTimeout(unit[m].flags)
  BY InitsPlaces, TimeoutBit
<1>6. Untimed(n) <=> \E m \in last : unit[m].flags % 8 \notin 4..7
  BY <1>4, <1>5 DEF Untimed
<1> QED BY <1>2, <1>3, <1>6

\* Rules 22.11, 22.19 and 21.26, for every translation unit: a thread joined or detached
\* twice, a condition variable used with two mutexes, and a timed lock of a mutex that is
\* not initialized for it are reported exactly where they should be.
THEOREM WaitsRightly == Spec => []WaitsJudged
<1>1. Init => TypeOK /\ UnlockInv /\ VisitInv /\ WaitInv
  BY InitTypes, UnlockInit, VisitInit, WaitInit
<1>2. TypeOK /\ UnlockInv /\ VisitInv /\ WaitInv /\ [Next]_vars
        => (TypeOK /\ UnlockInv /\ VisitInv /\ WaitInv)'
  BY NextTypes, UnlockNext, VisitNext, WaitNext
<1>3. TypeOK /\ UnlockInv /\ VisitInv /\ WaitInv => WaitsJudged
  <2>1. TypeOK /\ VisitInv => JoinsJudged BY VisitInvImplies
  <2>2. WaitInv => ConditionsJudged BY DEF WaitInv, ConditionsOver, ConditionsJudged
  <2> QED BY <2>1, <2>2, TimedImplies DEF WaitsJudged
<1> QED BY <1>1, <1>2, <1>3, PTL DEF Spec
=============================================================================
