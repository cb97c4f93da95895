-------------------------- MODULE ConfigCacheProofs --------------------------
(***************************************************************************)
(* Proofs about ConfigCache, for every tree of directories and every number*)
(* of lookups, and about the registry of checks beside it.                 *)
(* The cache is right (CacheRight) because its keys are closed upwards: the*)
(* nearest configuration above a key that inherits is itself a key, so a   *)
(* walk that has met a key finds keys, or nothing, from there on, and what *)
(* a walk reads anew it reads before it meets any key.                     *)
(* The options are right (OptionsAsFresh) because what a walk finds comes  *)
(* from ever farther away, and sources of equal strength are the same one. *)
(* The checks are right (ChecksRight) because the table holds, of the      *)
(* registrations so far, the last of each name.                            *)
(***************************************************************************)
EXTENDS ConfiguredChecks, NaturalsInduction, WellFoundedInduction, TLAPS

\* The nearest configuration of d, if any, has been read.
Known(d) == \A k \in 1..Len(Path[d]) : NearestAt(d, k) => Path[d][k] \in DOMAIN memorized

\* The walk has met neither a key nor a configuration since RootPath was set.
Cold == \A j \in root..(at - 1) : ~HasConfig(Path[dir][j]) /\ Path[dir][j] \notin DOMAIN memorized

\* d was read last, and the walk has not settled yet what lies above it.
Pending(d) == phase = "walk" /\ root > 1 /\ Path[dir][root - 1] = d /\ Cold

KeysKnown    == \A d \in DOMAIN memorized : Known(d)
ParentsKnown == phase # "crashed" =>
  \A d \in DOMAIN memorized : Inherits(d) /\ Len(Path[d]) > 1 => Known(Path[d][2]) \/ Pending(d)
WalkKnown    == phase = "walk" => Cold \/ Known(Here)
ReadIsKey    == \A i \in DOMAIN storage : storage[i] \in DOMAIN memorized

CacheInv == /\ TypeOK /\ NearestMemorized /\ ReadOnce
            /\ KeysKnown /\ ParentsKnown /\ WalkKnown /\ ReadIsKey
-----------------------------------------------------------------------------
LEMMA PathLength == \A d \in Dirs : Path[d] \in Seq(Dirs) /\ Len(Path[d]) \in Nat \ {0}
<1>1. \A d \in Dirs : Path[d] \in Seq(Dirs) /\ Len(Path[d]) >= 1
  BY PathAssumption
<1>2. \A d \in Dirs : Len(Path[d]) \in Nat
  BY <1>1
<1> QED
  BY <1>1, <1>2

\* From a position on, a path is the path of the directory at that position.
LEMMA PathShift ==
  ASSUME NEW d \in Dirs, NEW k \in 1..Len(Path[d])
  PROVE  /\ Path[d][k] \in Dirs
         /\ Len(Path[Path[d][k]]) = Len(Path[d]) - k + 1
         /\ \A i \in 1..Len(Path[Path[d][k]]) : Path[Path[d][k]][i] = Path[d][k + i - 1]
         /\ \A j \in k..Len(Path[d]) : Path[Path[d][k]][j - k + 1] = Path[d][j]
<1>1. Path[d] \in Seq(Dirs) /\ Len(Path[d]) \in Nat
  BY PathAssumption
<1>2. Len(Path[Path[d][k]]) = Len(Path[d]) - k + 1
  BY PathAssumption
<1>3. \A j \in k..Len(Path[d]) : Path[Path[d][k]][j - k + 1] = Path[d][j]
  BY PathAssumption
<1>4. ASSUME NEW i \in 1..Len(Path[Path[d][k]])
      PROVE  Path[Path[d][k]][i] = Path[d][k + i - 1]
  <2>1. k + i - 1 \in k..Len(Path[d]) /\ (k + i - 1) - k + 1 = i
    BY <1>1, <1>2
  <2> QED
    BY <1>3, <2>1
<1> QED
  BY <1>1, <1>2, <1>3, <1>4

\* No directory occurs twice on a path.
LEMMA PathDistinct ==
  ASSUME NEW d \in Dirs, NEW j \in 1..Len(Path[d]), NEW k \in 1..Len(Path[d]),
         Path[d][j] = Path[d][k]
  PROVE  j = k
<1>1. Len(Path[d]) \in Nat
  BY PathAssumption
<1>2. Len(Path[Path[d][j]]) = Len(Path[d]) - j + 1 /\ Len(Path[Path[d][k]]) = Len(Path[d]) - k + 1
  BY PathAssumption
<1> QED
  BY <1>1, <1>2

\* The nearest configuration of a directory on a path, seen from that path.
LEMMA NearestShift ==
  ASSUME NEW d \in Dirs, NEW k \in 1..Len(Path[d]), NEW m \in k..Len(Path[d])
  PROVE  NearestAt(Path[d][k], m - k + 1) <=>
           HasConfig(Path[d][m]) /\ \A j \in k..(m - 1) : ~HasConfig(Path[d][j])
<1>0. Len(Path[d]) \in Nat /\ Len(Path[Path[d][k]]) = Len(Path[d]) - k + 1
  BY PathLength, PathShift
<1>1. Len(Path[d]) \in Nat /\ m - k + 1 \in 1..Len(Path[Path[d][k]])
  BY <1>0
<1>2. Path[Path[d][k]][m - k + 1] = Path[d][m]
  BY PathShift
<1>3. ASSUME \A j \in k..(m - 1) : ~HasConfig(Path[d][j]), NEW i \in 1..(m - k)
      PROVE  ~HasConfig(Path[Path[d][k]][i])
  <2>1. k + i - 1 \in k..(m - 1) /\ i \in 1..Len(Path[Path[d][k]])
    BY <1>1
  <2> QED
    BY <1>3, <2>1, PathShift
<1>4. ASSUME \A i \in 1..(m - k) : ~HasConfig(Path[Path[d][k]][i]), NEW j \in k..(m - 1)
      PROVE  ~HasConfig(Path[d][j])
  <2>1. j - k + 1 \in 1..(m - k) /\ j \in k..Len(Path[d])
    BY <1>1
  <2> QED
    BY <1>4, <2>1, PathShift
<1>5. (m - k + 1) - 1 = m - k
  BY <1>1
<1>6. NearestAt(Path[d][k], m - k + 1) <=>
        /\ HasConfig(Path[Path[d][k]][m - k + 1])
        /\ \A i \in 1..(m - k) : ~HasConfig(Path[Path[d][k]][i])
  BY <1>5, Zenon DEF NearestAt
<1>7. (\A i \in 1..(m - k) : ~HasConfig(Path[Path[d][k]][i]))
        <=> (\A j \in k..(m - 1) : ~HasConfig(Path[d][j]))
  BY <1>3, <1>4, Zenon
<1> QED
  BY <1>2, <1>6, <1>7, Zenon

\* Known, seen from a path.
LEMMA KnownOnPath ==
  ASSUME NEW d \in Dirs, NEW k \in 1..Len(Path[d])
  PROVE  Known(Path[d][k]) <=>
           \A m \in k..Len(Path[d]) :
             HasConfig(Path[d][m]) /\ (\A j \in k..(m - 1) : ~HasConfig(Path[d][j]))
               => Path[d][m] \in DOMAIN memorized
<1>1. Len(Path[d]) \in Nat /\ Len(Path[Path[d][k]]) = Len(Path[d]) - k + 1
  BY PathAssumption, PathShift
<1>2. ASSUME Known(Path[d][k]), NEW m \in k..Len(Path[d]),
             HasConfig(Path[d][m]), \A j \in k..(m - 1) : ~HasConfig(Path[d][j])
      PROVE  Path[d][m] \in DOMAIN memorized
  <2>1. m - k + 1 \in 1..Len(Path[Path[d][k]])
    BY <1>1
  <2>2. NearestAt(Path[d][k], m - k + 1)
    BY <1>2, NearestShift
  <2> QED
    BY <1>2, <2>1, <2>2, PathShift DEF Known
<1>3. ASSUME \A m \in k..Len(Path[d]) :
               HasConfig(Path[d][m]) /\ (\A j \in k..(m - 1) : ~HasConfig(Path[d][j]))
                 => Path[d][m] \in DOMAIN memorized,
             NEW i \in 1..Len(Path[Path[d][k]]), NearestAt(Path[d][k], i)
      PROVE  Path[Path[d][k]][i] \in DOMAIN memorized
  <2> DEFINE m == k + i - 1
  <2>1. m \in k..Len(Path[d]) /\ m - k + 1 = i
    BY <1>1
  <2>2. NearestAt(Path[d][k], m - k + 1)
    BY <1>3, <2>1
  <2>3. Path[Path[d][k]][i] = Path[d][m]
    BY PathShift
  <2> HIDE DEF m
  <2>4. HasConfig(Path[d][m]) /\ \A j \in k..(m - 1) : ~HasConfig(Path[d][j])
    BY <2>1, <2>2, NearestShift
  <2> QED
    BY <1>3, <2>1, <2>3, <2>4
<1> QED
  BY <1>2, <1>3 DEF Known

\* Where no configuration is, the next directory on the path knows as much.
LEMMA KnownNext ==
  ASSUME NEW d \in Dirs, NEW k \in 1..Len(Path[d]), k < Len(Path[d]),
         ~HasConfig(Path[d][k])
  PROVE  Known(Path[d][k]) <=> Known(Path[d][k + 1])
<1>1. Len(Path[d]) \in Nat /\ k + 1 \in 1..Len(Path[d])
  BY PathLength
<1>2. \A m \in k..Len(Path[d]) : HasConfig(Path[d][m]) => m \in (k + 1)..Len(Path[d])
  BY <1>1
<1>3. \A m \in (k + 1)..Len(Path[d]) :
        (\A j \in k..(m - 1) : ~HasConfig(Path[d][j]))
          <=> (\A j \in (k + 1)..(m - 1) : ~HasConfig(Path[d][j]))
  BY <1>1
<1>4. Known(Path[d][k]) <=>
        \A m \in k..Len(Path[d]) :
          HasConfig(Path[d][m]) /\ (\A j \in k..(m - 1) : ~HasConfig(Path[d][j]))
            => Path[d][m] \in DOMAIN memorized
  BY KnownOnPath
<1>5. Known(Path[d][k + 1]) <=>
        \A m \in (k + 1)..Len(Path[d]) :
          HasConfig(Path[d][m]) /\ (\A j \in (k + 1)..(m - 1) : ~HasConfig(Path[d][j]))
            => Path[d][m] \in DOMAIN memorized
  BY <1>1, KnownOnPath
<1>6. (k + 1)..Len(Path[d]) \subseteq k..Len(Path[d])
  BY <1>1
<1> QED
  BY <1>2, <1>3, <1>4, <1>5, <1>6
-----------------------------------------------------------------------------
LEMMA OrderedType == \A cs \in Seq(Sources) : Ordered(cs) \in Seq(Sources)
<1>1. "binary" \in Sources /\ "config" \in Sources /\ "checks" \in Sources
  BY DEF Sources, Commands
<1>2. \A x \in Sources : <<x>> \in Seq(Sources)
  OBVIOUS
<1>3. \A x, y \in Sources : <<x, y>> \in Seq(Sources)
  OBVIOUS
<1>4. FromCommandLine \in Seq(Sources)
  BY <1>1, <1>2, <1>3, Zenon DEF FromCommandLine
<1>5. <<"binary">> \in Seq(Sources)
  BY <1>1, <1>2, Zenon
<1>6. \A cs \in Seq(Sources) : Reverse(cs) \in Seq(Sources)
  BY DEF Reverse
<1> QED
  BY <1>4, <1>5, <1>6 DEF Ordered

\* The types are inductive.
LEMMA TypeStep == TypeOK /\ [Next]_vars => TypeOK'
<1> SUFFICES ASSUME TypeOK, [Next]_vars PROVE TypeOK'
  OBVIOUS
<1> USE DEF TypeOK, Contents
<1>0. Path[dir] \in Seq(Dirs) /\ Len(Path[dir]) \in Nat \ {0}
  BY PathLength
<1>1. ASSUME NEW d \in Dirs, LookUp(d) PROVE TypeOK'
  BY <1>1, PathLength, OptionsAssumption DEF LookUp
<1>2. CASE Hit
  <2>1. Here \in Dirs /\ storage[memorized[Here]] \in Dirs
    BY <1>0, <1>2 DEF Hit, Here
  <2>2. found' \in Seq(Dirs)
    BY <1>2, <2>1 DEF Hit
  <2>3. phase' = Onward(storage[memorized[Here]]) /\ at' = at + 1
    BY <1>2 DEF Hit
  <2>4. phase' \in {"walk", "merge"} /\ (phase' = "walk" => at' <= Len(Path[dir]))
    BY <1>0, <2>3 DEF Onward
  <2> QED
    BY <1>2, <2>2, <2>3, <2>4 DEF Hit
<1>3. CASE Miss
  BY <1>0, <1>3 DEF Miss
<1>4. CASE Read
  <2>1. Here \in Dirs
    BY <1>0, <1>4 DEF Read, Here
  <2>2. found' \in Seq(Dirs) /\ storage' \in Seq(Dirs) /\ Len(storage') = Len(storage) + 1
    BY <1>4, <2>1 DEF Read
  <2>3. phase' \in {"walk", "merge"} /\ (phase' = "walk" => at' <= Len(Path[dir]))
    BY <1>0, <1>4 DEF Read, Onward
  <2>4. DOMAIN memorized' \subseteq Dirs
    BY <1>0, <1>4 DEF Read, Memorize
  <2>5. DOMAIN storage' = 1..(Len(storage) + 1) /\ DOMAIN storage = 1..Len(storage) /\ Len(storage) \in Nat
    BY <2>2
  <2>6. \A d \in DOMAIN memorized' : memorized'[d] \in DOMAIN storage'
    BY <1>4, <2>5 DEF Read, Memorize
  <2> QED
    BY <1>4, <2>2, <2>3, <2>4, <2>6 DEF Read
<1>5. CASE ParseCrash
  BY <1>5 DEF ParseCrash
<1>6. CASE Merge
  <2>1. Ordered(found) \in Seq(Sources)
    BY OrderedType DEF Sources
  <2> QED
    BY <1>6, <2>1 DEF Merge
<1>7. CASE NoPath
  <2>1. <<>> \in Seq(Sources)
    OBVIOUS
  <2>2. Ordered(<<>>) \in Seq(Sources)
    BY <2>1, OrderedType, Zenon
  <2>3. raw' \in Seq(Sources)
    BY <1>7, <2>1, <2>2, Zenon DEF NoPath
  <2>4. lookups' \in 0..MaxLookups
    BY <1>7, OptionsAssumption DEF NoPath
  <2>5. phase' = "idle" /\ UNCHANGED <<tree, memorized, storage, dir, root, at, found>>
    BY <1>7 DEF NoPath
  <2> QED
    BY <2>3, <2>4, <2>5
<1>8. CASE UNCHANGED vars
  BY <1>8 DEF vars
<1> QED
  BY <1>1, <1>2, <1>3, <1>4, <1>5, <1>6, <1>7, <1>8 DEF Next

\* The variables keep their types.
THEOREM TypeCorrect == Spec => []TypeOK
<1>1. Init => TypeOK
  BY TreesAssumption, OptionsAssumption DEF Init, TypeOK
<1> QED
  BY <1>1, TypeStep, PTL DEF Spec
-----------------------------------------------------------------------------
\* The nearest configuration is unique, and a directory with one is its own.
LEMMA NearestUnique ==
  ASSUME NEW d \in Dirs, NEW j \in 1..Len(Path[d]), NEW k \in 1..Len(Path[d]),
         NearestAt(d, j), NearestAt(d, k)
  PROVE  j = k
BY PathLength DEF NearestAt

LEMMA NearestSelf == \A d \in Dirs : HasConfig(d) => 1 \in 1..Len(Path[d]) /\ NearestAt(d, 1)
<1> SUFFICES ASSUME NEW d \in Dirs, HasConfig(d)
             PROVE  1 \in 1..Len(Path[d]) /\ NearestAt(d, 1)
  OBVIOUS
<1>1. Path[d][1] = d
  BY PathAssumption
<1>2. \A j \in 1..(1 - 1) : FALSE
  OBVIOUS
<1>3. 1 \in 1..Len(Path[d])
  BY PathLength
<1> QED
  BY <1>1, <1>2, <1>3 DEF NearestAt

\* What lies above the directory read last is known once a key is met.
LEMMA PendingSettled ==
  ASSUME TypeOK, phase = "walk", NEW d \in Dirs, Pending(d), Known(Here)
  PROVE  Known(Path[d][2])
<1> USE DEF TypeOK
<1>1. Len(Path[dir]) \in Nat /\ root - 1 \in 1..Len(Path[dir]) /\ root \in (root - 1)..Len(Path[dir])
      /\ root \in 1..Len(Path[dir]) /\ at \in 1..Len(Path[dir])
  BY PathLength DEF Pending
<1>2. Path[d][2] = Path[dir][root]
  <2>1. Path[Path[dir][root - 1]][root - (root - 1) + 1] = Path[dir][root]
    BY <1>1, PathShift
  <2>2. root - (root - 1) + 1 = 2
    BY <1>1
  <2> QED
    BY <2>1, <2>2 DEF Pending
<1>3. ASSUME NEW m \in root..Len(Path[dir]), HasConfig(Path[dir][m]),
             \A j \in root..(m - 1) : ~HasConfig(Path[dir][j])
      PROVE  Path[dir][m] \in DOMAIN memorized
  <2>1. m \in at..Len(Path[dir])
    BY <1>1, <1>3 DEF Pending, Cold
  <2>2. \A j \in at..(m - 1) : ~HasConfig(Path[dir][j])
    BY <1>1, <1>3
  <2> QED
    BY <1>1, <1>3, <2>1, <2>2, KnownOnPath DEF Here
<1> QED
  BY <1>1, <1>2, <1>3, KnownOnPath

LEMMA KnownUnchanged ==
  ASSUME UNCHANGED <<tree, memorized>>, NEW d \in Dirs
  PROVE  Known(d)' <=> Known(d)
BY DEF Known, NearestAt, HasConfig

\* The next turn of the loop, for a path that is a key.
LEMMA HitStep == CacheInv /\ Hit => ParentsKnown' /\ WalkKnown'
<1> SUFFICES ASSUME CacheInv, Hit PROVE ParentsKnown' /\ WalkKnown'
  OBVIOUS
<1> USE DEF CacheInv
<1>1. phase = "walk" /\ Here \in DOMAIN memorized /\ Here \in Dirs /\ dir \in Dirs
      /\ at \in 1..Len(Path[dir]) /\ Len(Path[dir]) \in Nat /\ Here = Path[dir][at]
      /\ DOMAIN memorized \subseteq Dirs
  BY PathLength DEF Hit, TypeOK, Here
<1>2. Known(Here)
  BY <1>1 DEF KeysKnown
<1>3. UNCHANGED <<tree, memorized, storage, dir, root>> /\ at' = at + 1
  BY DEF Hit
<1>4. ASSUME NEW d \in DOMAIN memorized, Inherits(d), Len(Path[d]) > 1
      PROVE  Known(Path[d][2])
  BY <1>1, <1>2, <1>4, PendingSettled DEF ParentsKnown
<1>5. ParentsKnown'
  <2>1. ASSUME NEW d \in DOMAIN memorized, Inherits(d), Len(Path[d]) > 1
        PROVE  Known(Path[d][2])'
    <3>1. Path[d][2] \in Dirs
      BY <1>1, <2>1, PathLength
    <3> QED
      BY <1>3, <1>4, <2>1, <3>1, KnownUnchanged
  <2> QED
    BY <1>3, <2>1 DEF ParentsKnown, Inherits
<1>6. ASSUME phase' = "walk" PROVE Known(Path[dir][at + 1])
  <2>1. at < Len(Path[dir]) /\ Inherits(storage[memorized[Here]])
    BY <1>6 DEF Hit, Onward
  <2>2. CASE ~HasConfig(Here)
    BY <1>1, <1>2, <2>1, <2>2, KnownNext
  <2>3. CASE HasConfig(Here)
    <3>1. storage[memorized[Here]] = Here
      <4>1. PICK k \in 1..Len(Path[Here]) :
              NearestAt(Here, k) /\ storage[memorized[Here]] = Path[Here][k]
        BY <1>1 DEF NearestMemorized
      <4>2. k = 1
        BY <1>1, <2>3, <4>1, NearestSelf, NearestUnique
      <4> QED
        BY <1>1, <4>1, <4>2, PathAssumption
    <3>2. Len(Path[Here]) = Len(Path[dir]) - at + 1
      BY <1>1, PathShift
    <3>3. Known(Path[Here][2])
      BY <1>1, <1>4, <2>1, <3>1, <3>2
    <3>4. Path[Here][2] = Path[dir][at + 1]
      <4>1. at + 1 \in at..Len(Path[dir]) /\ (at + 1) - at + 1 = 2
        <5>1. at \in Nat /\ Len(Path[dir]) \in Nat /\ at < Len(Path[dir])
          BY <1>1, <2>1
        <5> QED
          BY <5>1
      <4>2. Path[Path[dir][at]][(at + 1) - at + 1] = Path[dir][at + 1]
        BY <1>1, <4>1, PathShift
      <4> QED
        BY <1>1, <4>1, <4>2
    <3> QED
      BY <3>3, <3>4
  <2> QED
    BY <2>2, <2>3
<1>7. WalkKnown'
  <2>1. SUFFICES ASSUME phase' = "walk", NEW e, e = Path[dir][at + 1] PROVE Known(e)'
    BY <1>3 DEF WalkKnown, Here, Known, NearestAt, HasConfig
  <2>2. e \in Dirs
    <3>1. at + 1 \in 1..Len(Path[dir])
      BY <1>1, <2>1 DEF Hit, Onward
    <3> QED
      BY <1>1, <2>1, <3>1, PathLength
  <2>3. Known(e)
    BY <1>6, <2>1
  <2> QED
    BY <1>3, <2>2, <2>3, KnownUnchanged
<1> QED
  BY <1>5, <1>7

\* For a path that is no key and holds no configuration.
LEMMA MissStep == CacheInv /\ Miss => ParentsKnown' /\ WalkKnown'
<1> SUFFICES ASSUME CacheInv, Miss PROVE ParentsKnown' /\ WalkKnown'
  OBVIOUS
<1> USE DEF CacheInv
<1>1. phase = "walk" /\ Here \notin DOMAIN memorized /\ Here \in Dirs /\ dir \in Dirs
      /\ at \in 1..Len(Path[dir]) /\ Len(Path[dir]) \in Nat /\ Here = Path[dir][at]
      /\ at \in Nat /\ root \in Nat \ {0} /\ root <= at
      /\ DOMAIN memorized \subseteq Dirs /\ ~HasConfig(Here)
  BY PathLength DEF Miss, TypeOK, Here
<1>2. UNCHANGED <<tree, memorized, storage, dir, root>> /\ at' = at + 1
      /\ phase' = IF at < Len(Path[dir]) THEN "walk" ELSE "merge"
  BY DEF Miss
<1>3. ASSUME Cold PROVE Cold'
  <2>1. \A j \in root..((at + 1) - 1) : j = at \/ j \in root..(at - 1)
    BY <1>1
  <2>2. \A j \in root..((at + 1) - 1) : ~HasConfig(Path[dir][j]) /\ Path[dir][j] \notin DOMAIN memorized
    BY <1>1, <1>3, <2>1 DEF Cold
  <2> QED
    BY <1>2, <2>2 DEF Cold, HasConfig
<1>4. ASSUME NEW d \in DOMAIN memorized, Inherits(d), Len(Path[d]) > 1,
             ~Known(Path[d][2])
      PROVE  Pending(d)'
  <2>1. Pending(d)
    BY <1>1, <1>4 DEF ParentsKnown
  <2>2. CASE phase' = "walk"
    BY <1>2, <1>3, <2>1, <2>2 DEF Pending
  <2>3. CASE phase' # "walk"
    <3>1. at = Len(Path[dir])
      BY <1>1, <1>2, <2>3
    <3>2. root - 1 \in 1..Len(Path[dir]) /\ root \in (root - 1)..Len(Path[dir])
          /\ root \in 1..Len(Path[dir]) /\ root - (root - 1) + 1 = 2
      BY <1>1, <2>1 DEF Pending
    <3>3. Path[d][2] = Path[dir][root]
      <4>1. Path[Path[dir][root - 1]][root - (root - 1) + 1] = Path[dir][root]
        BY <1>1, <3>2, PathShift
      <4> QED
        BY <2>1, <3>2, <4>1 DEF Pending
    <3>4. \A m \in root..Len(Path[dir]) : ~HasConfig(Path[dir][m])
      BY <1>1, <2>1, <3>1 DEF Pending, Cold
    <3>5. Known(Path[dir][root])
      BY <1>1, <3>2, <3>4, KnownOnPath
    <3> QED
      BY <1>4, <3>3, <3>5
  <2> QED
    BY <2>2, <2>3
<1>5. ParentsKnown'
  <2>1. ASSUME NEW d \in DOMAIN memorized, Inherits(d), Len(Path[d]) > 1
        PROVE  Known(Path[d][2])' \/ Pending(d)'
    <3>1. Path[d][2] \in Dirs
      BY <1>1, <2>1, PathLength
    <3> QED
      BY <1>2, <1>4, <2>1, <3>1, KnownUnchanged
  <2> QED
    BY <1>2, <2>1 DEF ParentsKnown, Inherits
<1>6. WalkKnown'
  <2>1. SUFFICES ASSUME phase' = "walk", ~Cold, NEW e, e = Path[dir][at + 1] PROVE Known(e)'
    BY <1>2, <1>3 DEF WalkKnown, Here, Known, NearestAt, HasConfig
  <2>2. at < Len(Path[dir]) /\ at + 1 \in 1..Len(Path[dir])
    BY <1>1, <1>2, <2>1
  <2>3. e \in Dirs
    BY <1>1, <2>1, <2>2, PathLength
  <2>4. Known(e)
    BY <1>1, <2>1, <2>2, KnownNext DEF WalkKnown
  <2> QED
    BY <1>2, <2>3, <2>4, KnownUnchanged
<1> QED
  BY <1>5, <1>6

\* What is read anew was met before any key, so no key changes its value, and all
\* new keys have the new configuration as their nearest.
LEMMA ReadStep ==
  CacheInv /\ Read =>
    NearestMemorized' /\ ReadOnce' /\ KeysKnown' /\ ParentsKnown' /\ WalkKnown' /\ ReadIsKey'
<1> SUFFICES ASSUME CacheInv, Read
             PROVE  /\ NearestMemorized' /\ ReadOnce' /\ KeysKnown' /\ ParentsKnown'
                    /\ WalkKnown' /\ ReadIsKey'
  OBVIOUS
<1> USE DEF CacheInv
<1>1. phase = "walk" /\ Here \notin DOMAIN memorized /\ Here \in Dirs /\ dir \in Dirs
      /\ at \in 1..Len(Path[dir]) /\ Len(Path[dir]) \in Nat /\ Here = Path[dir][at]
      /\ at \in Nat /\ root \in Nat \ {0} /\ root <= at
      /\ DOMAIN memorized \subseteq Dirs /\ HasConfig(Here) /\ storage \in Seq(Dirs)
  BY PathLength DEF Read, TypeOK, Here
<1>2. UNCHANGED <<tree, dir>> /\ root' = at + 1 /\ at' = at + 1 /\ phase' = Onward(Here)
      /\ storage' = Append(storage, Here) /\ memorized' = Memorize
  BY DEF Read
<1>3. Cold
  <2>1. ~Known(Here)
    BY <1>1, NearestSelf, PathAssumption DEF Known
  <2> QED
    BY <1>1, <2>1 DEF WalkKnown
<1>4. /\ Len(storage) \in Nat
      /\ DOMAIN storage = 1..Len(storage)
      /\ DOMAIN storage' = 1..(Len(storage) + 1)
      /\ storage'[Len(storage) + 1] = Here
      /\ \A i \in DOMAIN storage : storage'[i] = storage[i]
  BY <1>1, <1>2
<1>5. DOMAIN memorized' = DOMAIN memorized \cup {Path[dir][k] : k \in root..at}
  BY <1>2 DEF Memorize
<1>6. \A k \in root..at : memorized'[Path[dir][k]] = Len(storage) + 1 /\ Path[dir][k] \in Dirs
                          /\ Path[dir][k] \notin DOMAIN memorized /\ k \in 1..Len(Path[dir])
  <2>1. SUFFICES ASSUME NEW k \in root..at
                 PROVE  memorized'[Path[dir][k]] = Len(storage) + 1 /\ Path[dir][k] \in Dirs
                          /\ Path[dir][k] \notin DOMAIN memorized /\ k \in 1..Len(Path[dir])
    OBVIOUS
  <2>2. k \in 1..Len(Path[dir]) /\ (k = at \/ k \in root..(at - 1))
    BY <1>1, <2>1
  <2>3. Path[dir][k] \in Dirs
    BY <1>1, <2>2, PathLength
  <2>4. Path[dir][k] \notin DOMAIN memorized
    BY <1>1, <1>3, <2>2 DEF Cold
  <2>5. memorized'[Path[dir][k]] = Len(storage) + 1
    BY <1>2, <2>1 DEF Memorize
  <2> QED
    BY <2>2, <2>3, <2>4, <2>5
<1>7. \A d \in DOMAIN memorized : memorized'[d] = memorized[d] /\ d \in DOMAIN memorized'
  BY <1>2, <1>5, <1>6 DEF Memorize
<1>8. \A k \in root..at : at - k + 1 \in 1..Len(Path[Path[dir][k]])
        /\ NearestAt(Path[dir][k], at - k + 1) /\ Path[Path[dir][k]][at - k + 1] = Here
  <2>1. SUFFICES ASSUME NEW k \in root..at
                 PROVE  at - k + 1 \in 1..Len(Path[Path[dir][k]])
                        /\ NearestAt(Path[dir][k], at - k + 1) /\ Path[Path[dir][k]][at - k + 1] = Here
    OBVIOUS
  <2>2. k \in 1..Len(Path[dir]) /\ at \in k..Len(Path[dir])
    BY <1>1
  <2>3. at - k + 1 \in 1..(Len(Path[dir]) - k + 1)
    BY <1>1, <2>2
  <2>4. \A j \in k..(at - 1) : ~HasConfig(Path[dir][j])
    BY <1>1, <1>3 DEF Cold
  <2>5. NearestAt(Path[dir][k], at - k + 1)
    BY <1>1, <2>2, <2>4, NearestShift
  <2>6. Path[Path[dir][k]][at - k + 1] = Here /\ Len(Path[Path[dir][k]]) = Len(Path[dir]) - k + 1
    BY <1>1, <2>2, PathShift
  <2> QED
    BY <2>3, <2>5, <2>6
<1>9. ASSUME NEW d \in Dirs, NEW k PROVE NearestAt(d, k)' <=> NearestAt(d, k)
  BY <1>2 DEF NearestAt, HasConfig
<1>10. NearestMemorized'
  <2>1. ASSUME NEW d \in DOMAIN memorized
        PROVE  \E k \in 1..Len(Path[d]) : NearestAt(d, k)' /\ storage'[memorized'[d]] = Path[d][k]
    <3>1. PICK k \in 1..Len(Path[d]) : NearestAt(d, k) /\ storage[memorized[d]] = Path[d][k]
      BY DEF NearestMemorized
    <3>2. memorized[d] \in DOMAIN storage /\ d \in Dirs
      BY DEF TypeOK
    <3> QED
      BY <1>4, <1>7, <1>9, <3>1, <3>2
  <2>2. ASSUME NEW k \in root..at
        PROVE  \E i \in 1..Len(Path[Path[dir][k]]) :
                 NearestAt(Path[dir][k], i) /\ storage'[memorized'[Path[dir][k]]] = Path[Path[dir][k]][i]
    BY <1>4, <1>6, <1>8
  <2>3. ASSUME NEW d \in DOMAIN memorized'
        PROVE  \E k \in 1..Len(Path[d]) : NearestAt(d, k)' /\ storage'[memorized'[d]] = Path[d][k]
    <3>1. CASE d \in DOMAIN memorized
      BY <2>1, <3>1
    <3>2. CASE \E k \in root..at : d = Path[dir][k]
      <4>1. d \in Dirs
        BY <1>6, <3>2
      <4> QED
        BY <1>9, <2>2, <3>2, <4>1
    <3> QED
      BY <1>5, <3>1, <3>2
  <2> QED
    BY <2>3 DEF NearestMemorized
<1>11. KeysKnown'
  <2>1. SUFFICES ASSUME NEW d \in DOMAIN memorized', NEW i \in 1..Len(Path[d]), NearestAt(d, i)'
                 PROVE  Path[d][i] \in DOMAIN memorized'
    BY DEF KeysKnown, Known
  <2>2. d \in Dirs
    BY <1>1, <1>5, <1>6
  <2>3. NearestAt(d, i)
    BY <1>9, <2>1, <2>2
  <2>4. CASE d \in DOMAIN memorized
    BY <1>7, <2>3, <2>4 DEF KeysKnown, Known
  <2>5. CASE \E k \in root..at : d = Path[dir][k]
    <3>1. PICK k \in root..at : d = Path[dir][k]
      BY <2>5
    <3>2. i = at - k + 1
      BY <1>8, <2>2, <2>3, <3>1, NearestUnique
    <3>3. Path[d][i] = Here
      BY <1>8, <3>1, <3>2
    <3>4. at \in root..at
      BY <1>1
    <3> QED
      BY <1>1, <1>5, <3>3, <3>4
  <2> QED
    BY <1>5, <2>4, <2>5
<1>12. ParentsKnown'
  <2>1. SUFFICES ASSUME NEW d \in DOMAIN memorized', Inherits(d), Len(Path[d]) > 1
                 PROVE  Known(Path[d][2])' \/ Pending(d)'
    BY <1>2 DEF ParentsKnown, Inherits
  <2>2. ASSUME NEW e, Known(e), e \in Dirs PROVE Known(e)'
    BY <1>7, <1>9, <2>2 DEF Known
  <2>3. CASE d \in DOMAIN memorized
    <3>1. Path[d][2] \in Dirs
      BY <1>1, <2>1, <2>3, PathLength
    <3>2. CASE Known(Path[d][2])
      BY <2>2, <3>1, <3>2
    <3>3. CASE Pending(d)
      <4>1. root - 1 \in 1..Len(Path[dir]) /\ root \in (root - 1)..Len(Path[dir])
            /\ root - (root - 1) + 1 = 2 /\ root \in root..at
        BY <1>1, <3>3 DEF Pending
      <4>2. Path[Path[dir][root - 1]][root - (root - 1) + 1] = Path[dir][root]
        BY <1>1, <4>1, PathShift
      <4>3. Path[d][2] = Path[dir][root]
        BY <3>3, <4>1, <4>2 DEF Pending
      <4>4. Path[d][2] \in DOMAIN memorized'
        BY <1>5, <4>1, <4>3
      <4> QED
        BY <1>11, <4>4 DEF KeysKnown
    <3> QED
      BY <1>1, <2>1, <2>3, <3>2, <3>3 DEF ParentsKnown
  <2>4. CASE \E k \in root..at : d = Path[dir][k]
    <3>1. d = Here
      <4>1. PICK k \in root..at : d = Path[dir][k]
        BY <2>4
      <4>2. k = at
        BY <1>1, <1>3, <2>1, <4>1 DEF Cold, Inherits, HasConfig
      <4> QED
        BY <1>1, <4>1, <4>2
    <3>2. at < Len(Path[dir])
      BY <1>1, <2>1, <3>1, PathShift
    <3>3. phase' = "walk"
      BY <1>2, <2>1, <3>1, <3>2 DEF Onward
    <3>4. root' > 1 /\ root' - 1 = at
      BY <1>1, <1>2
    <3>5. Cold'
      BY <1>1, <1>2 DEF Cold
    <3> QED
      BY <1>1, <1>2, <3>1, <3>3, <3>4, <3>5 DEF Pending
  <2> QED
    BY <1>5, <2>3, <2>4
<1>13. WalkKnown'
  BY <1>1, <1>2 DEF WalkKnown, Cold
<1>14. ReadIsKey'
  <2>1. at \in root..at
    BY <1>1
  <2> QED
    BY <1>1, <1>4, <1>5, <2>1 DEF ReadIsKey
<1>15. ReadOnce'
  BY <1>1, <1>4 DEF ReadOnce, ReadIsKey
<1> QED
  BY <1>10, <1>11, <1>12, <1>13, <1>14, <1>15

\* The invariant is inductive.
LEMMA CacheStep == CacheInv /\ [Next]_vars => CacheInv'
<1> SUFFICES ASSUME CacheInv, [Next]_vars PROVE CacheInv'
  OBVIOUS
<1>1. TypeOK'
  BY TypeStep DEF CacheInv
<1>2. ASSUME UNCHANGED <<tree, memorized, storage>>
      PROVE  NearestMemorized' /\ ReadOnce' /\ KeysKnown' /\ ReadIsKey'
  BY <1>2 DEF CacheInv, NearestMemorized, ReadOnce, KeysKnown, ReadIsKey, Known, NearestAt, HasConfig
<1>3. ASSUME UNCHANGED <<tree, memorized, storage>>, phase # "walk", phase # "crashed",
             phase' = "walk" => root' = 1 /\ at' = 1
      PROVE  ParentsKnown' /\ WalkKnown'
  <2>1. ASSUME NEW d \in DOMAIN memorized, Inherits(d), Len(Path[d]) > 1
        PROVE  Known(Path[d][2])'
    <3>1. Known(Path[d][2]) /\ Path[d][2] \in Dirs
      BY <1>3, <2>1, PathLength DEF CacheInv, ParentsKnown, Pending, TypeOK
    <3> QED
      BY <1>3, <3>1, KnownUnchanged
  <2>2. ParentsKnown'
    BY <1>3, <2>1 DEF ParentsKnown, Inherits
  <2>3. WalkKnown'
    BY <1>3 DEF WalkKnown, Cold
  <2> QED
    BY <2>2, <2>3
<1>4. ASSUME NEW d \in Dirs, LookUp(d) PROVE CacheInv'
  BY <1>1, <1>2, <1>3, <1>4 DEF LookUp, CacheInv
<1>5. CASE Hit
  BY <1>1, <1>2, <1>5, HitStep DEF Hit, CacheInv
<1>6. CASE Miss
  BY <1>1, <1>2, <1>6, MissStep DEF Miss, CacheInv
<1>7. CASE Read
  BY <1>1, <1>7, ReadStep DEF CacheInv
<1>8. CASE ParseCrash
  <2>1. ParentsKnown' /\ WalkKnown'
    BY <1>8 DEF ParseCrash, ParentsKnown, WalkKnown
  <2> QED
    BY <1>1, <1>2, <1>8, <2>1 DEF ParseCrash, CacheInv
<1>9. CASE Merge
  BY <1>1, <1>2, <1>3, <1>9 DEF Merge, CacheInv
<1>10. CASE NoPath
  BY <1>1, <1>2, <1>3, <1>10 DEF NoPath, CacheInv
<1>11. CASE UNCHANGED vars
  <2>1. ParentsKnown' /\ WalkKnown'
    BY <1>11 DEF CacheInv, vars, ParentsKnown, WalkKnown, Pending, Cold, Known, NearestAt,
                 HasConfig, Inherits, Here
  <2> QED
    BY <1>1, <1>2, <1>11, <2>1 DEF vars, CacheInv
<1> QED
  BY <1>4, <1>5, <1>6, <1>7, <1>8, <1>9, <1>10, <1>11 DEF Next

\* Whatever lookups filled the cache, each of its keys leads to the configuration
\* that a walk from that directory would read first.
THEOREM CacheRight == Spec => []NearestMemorized
<1>1. Init => CacheInv
  BY TreesAssumption, OptionsAssumption
  DEF Init, CacheInv, TypeOK, NearestMemorized, ReadOnce, KeysKnown, ParentsKnown, WalkKnown,
      ReadIsKey
<1>2. CacheInv => NearestMemorized
  BY DEF CacheInv
<1> QED
  BY <1>1, <1>2, CacheStep, PTL DEF Spec

\* No configuration file is parsed twice.
THEOREM ParsedOnce == Spec => []ReadOnce
<1>1. Init => CacheInv
  BY TreesAssumption, OptionsAssumption
  DEF Init, CacheInv, TypeOK, NearestMemorized, ReadOnce, KeysKnown, ParentsKnown, WalkKnown,
      ReadIsKey
<1>2. CacheInv => ReadOnce
  BY DEF CacheInv
<1> QED
  BY <1>1, <1>2, CacheStep, PTL DEF Spec

\* Both: for every tree of configurations and every history of lookups the cache
\* leads to the one copy of the nearest configuration.
THEOREM CacheSoundness == Spec => []CacheSound
<1>1. CacheSound <=> NearestMemorized /\ ReadOnce
  BY DEF CacheSound
<1> QED
  BY <1>1, CacheRight, ParsedOnce, PTL
-----------------------------------------------------------------------------
\* A walk has found the part of the chain below the current path, and perhaps
\* more of the chain; nothing below ends it.
FoundInv == phase = "walk" =>
  /\ \A i \in DOMAIN found : \E k \in Chain(dir) : found[i] = Path[dir][k]
  /\ \A k \in Chain(dir) : k < at => \E i \in DOMAIN found : found[i] = Path[dir][k]
  /\ \A j \in 1..(at - 1) : tree[Path[dir][j]] # "alone"

\* The walk finds the configuration at position p, the first from the current
\* path on, whether in the cache or on disk.
LEMMA FoundStep ==
  ASSUME TypeOK, FoundInv, phase = "walk",
         NEW p \in at..Len(Path[dir]), HasConfig(Path[dir][p]),
         \A j \in at..(p - 1) : ~HasConfig(Path[dir][j]),
         found' = Append(found, Path[dir][p]), phase' = Onward(Path[dir][p]),
         at' = at + 1, UNCHANGED <<tree, dir>>
  PROVE  FoundInv' /\ WholeChain'
<1> DEFINE c == Path[dir][p]
<1>1. at \in Nat \ {0} /\ dir \in Dirs /\ Len(Path[dir]) \in Nat /\ at <= Len(Path[dir])
      /\ p \in 1..Len(Path[dir]) /\ p \in Nat /\ p >= at /\ found \in Seq(Dirs) /\ c \in Dirs
  BY PathLength DEF TypeOK
<1>2. /\ DOMAIN found' = 1..(Len(found) + 1) /\ DOMAIN found = 1..Len(found)
      /\ Len(found) \in Nat
      /\ found'[Len(found) + 1] = c
      /\ \A i \in DOMAIN found : found'[i] = found[i]
  BY <1>1
<1>3. Chain(dir)' = Chain(dir)
  BY DEF Chain, HasConfig
<1>4. p \in Chain(dir)
  <2>1. \A j \in 1..(p - 1) : j \in 1..(at - 1) \/ j \in at..(p - 1)
    BY <1>1
  <2> QED
    BY <1>1, <2>1 DEF FoundInv, Chain, HasConfig
<1>5. \A i \in DOMAIN found' : \E k \in Chain(dir) : found'[i] = Path[dir][k]
  <2>1. \A i \in DOMAIN found : \E k \in Chain(dir) : found[i] = Path[dir][k]
    BY DEF FoundInv
  <2>2. SUFFICES ASSUME NEW i \in 1..(Len(found) + 1)
                 PROVE  \E k \in Chain(dir) : found'[i] = Path[dir][k]
    BY <1>2
  <2>3. i \in DOMAIN found \/ i = Len(found) + 1
    BY <1>2
  <2>4. CASE i \in DOMAIN found
    BY <1>2, <2>1, <2>4
  <2>5. CASE i = Len(found) + 1
    BY <1>2, <1>4, <2>5
  <2> QED
    BY <2>3, <2>4, <2>5
<1>6. \A k \in Chain(dir) : k \in 1..Len(Path[dir]) /\ HasConfig(Path[dir][k])
        /\ \A j \in 1..(k - 1) : tree[Path[dir][j]] # "alone"
  BY DEF Chain
<1>7. \A k \in Chain(dir) : k <= p => \E i \in DOMAIN found' : found'[i] = Path[dir][k]
  <2>1. SUFFICES ASSUME NEW k \in Chain(dir), k <= p
                 PROVE  \E i \in DOMAIN found' : found'[i] = Path[dir][k]
    OBVIOUS
  <2>2. k \in Nat /\ (k < at \/ k \in at..(p - 1) \/ k = p)
    BY <1>1, <1>6, <2>1
  <2>3. CASE k < at
    BY <1>2, <2>3 DEF FoundInv
  <2>4. CASE k = p
    BY <1>2, <2>4
  <2> QED
    BY <1>6, <2>2, <2>3, <2>4
<1>8. \A k \in Chain(dir) : k > p => tree[c] # "alone"
  BY <1>1, <1>6
<1>9. FoundInv'
  <2>1. SUFFICES ASSUME phase' = "walk" PROVE FoundInv'
    BY DEF FoundInv
  <2>2. Inherits(c)
    BY <2>1 DEF Onward
  <2>3. \A k \in Chain(dir) : k < at + 1 => k <= p
    BY <1>1, <1>6
  <2>4. \A j \in 1..((at + 1) - 1) : j \in 1..(at - 1) \/ j = at
    BY <1>1
  <2>5. tree[Path[dir][at]] # "alone"
    <3>1. at = p \/ at \in at..(p - 1)
      BY <1>1
    <3> QED
      BY <2>2, <3>1 DEF Inherits, HasConfig
  <2>6. \A j \in 1..((at + 1) - 1) : tree[Path[dir][j]] # "alone"
    BY <2>4, <2>5 DEF FoundInv
  <2> QED
    BY <1>3, <1>5, <1>7, <2>3, <2>6 DEF FoundInv
<1>10. WholeChain'
  <2>1. SUFFICES ASSUME phase' = "merge"
                 PROVE  {found'[i] : i \in DOMAIN found'} = {Path[dir][k] : k \in Chain(dir)}
    BY <1>3 DEF WholeChain
  <2>2. \A k \in Chain(dir) : k <= p
    <3>1. SUFFICES ASSUME NEW k \in Chain(dir), k > p PROVE FALSE
      BY <1>1, <1>6
    <3>2. Inherits(c)
      BY <1>1, <1>8, <3>1 DEF Inherits, HasConfig, TypeOK, Contents
    <3>3. ~(at < Len(Path[dir]))
      BY <2>1, <3>2 DEF Onward
    <3> QED
      BY <1>1, <1>6, <3>1, <3>3
  <2>3. \A k \in Chain(dir) : Path[dir][k] \in {found'[i] : i \in DOMAIN found'}
    BY <1>7, <2>2
  <2>4. \A i \in DOMAIN found' : found'[i] \in {Path[dir][k] : k \in Chain(dir)}
    BY <1>5
  <2> QED
    BY <2>3, <2>4
<1> QED
  BY <1>9, <1>10

\* What a key leads to is the first configuration from the current path on.
LEMMA HitFinds ==
  ASSUME CacheInv, Hit
  PROVE  \E p \in at..Len(Path[dir]) :
           /\ HasConfig(Path[dir][p]) /\ \A j \in at..(p - 1) : ~HasConfig(Path[dir][j])
           /\ storage[memorized[Here]] = Path[dir][p]
           /\ found' = Append(found, Path[dir][p])
<1>1. TypeOK /\ Len(Path[dir]) \in Nat /\ dir \in Dirs
  BY PathLength DEF CacheInv, TypeOK
<1>2. Here \in DOMAIN memorized /\ Here = Path[dir][at] /\ phase = "walk"
      /\ at \in 1..Len(Path[dir]) /\ at \in Nat
  BY <1>1 DEF Hit, Here, TypeOK
<1>3. PICK i \in 1..Len(Path[Here]) : NearestAt(Here, i) /\ storage[memorized[Here]] = Path[Here][i]
  BY <1>2 DEF CacheInv, NearestMemorized
<1> DEFINE p == at + i - 1
<1>4. Len(Path[Here]) = Len(Path[dir]) - at + 1
  BY <1>1, <1>2, PathShift
<1>5. p \in at..Len(Path[dir]) /\ p - at + 1 = i
  <2>1. i \in Nat /\ 1 <= i /\ i <= Len(Path[dir]) - at + 1
    BY <1>1, <1>2, <1>3, <1>4
  <2> QED
    BY <1>1, <1>2, <2>1
<1>6. NearestAt(Path[dir][at], p - at + 1)
  BY <1>2, <1>3, <1>5
<1>7. storage[memorized[Here]] = Path[dir][p]
  BY <1>1, <1>2, <1>3, PathShift
<1> HIDE DEF p
<1>8. HasConfig(Path[dir][p]) /\ \A j \in at..(p - 1) : ~HasConfig(Path[dir][j])
  BY <1>1, <1>2, <1>5, <1>6, NearestShift
<1>9. found' = Append(found, Path[dir][p])
  BY <1>7 DEF Hit
<1> QED
  BY <1>5, <1>7, <1>8, <1>9

LEMMA ChainStep ==
  CacheInv /\ FoundInv /\ WholeChain /\ [Next]_vars => FoundInv' /\ WholeChain'
<1> SUFFICES ASSUME CacheInv, FoundInv, WholeChain, [Next]_vars PROVE FoundInv' /\ WholeChain'
  OBVIOUS
<1>1. TypeOK /\ Len(Path[dir]) \in Nat /\ dir \in Dirs
  BY PathLength DEF CacheInv, TypeOK
<1>2. ASSUME NEW d \in Dirs, LookUp(d) PROVE FoundInv' /\ WholeChain'
  BY <1>2 DEF LookUp, FoundInv, WholeChain, Chain
<1>3. CASE Hit
  <2>1. phase = "walk" /\ at' = at + 1 /\ UNCHANGED <<tree, dir>> /\ phase' = Onward(storage[memorized[Here]])
    BY <1>3 DEF Hit
  <2>2. PICK p \in at..Len(Path[dir]) :
          /\ HasConfig(Path[dir][p]) /\ \A j \in at..(p - 1) : ~HasConfig(Path[dir][j])
          /\ storage[memorized[Here]] = Path[dir][p]
          /\ found' = Append(found, Path[dir][p])
    BY <1>3, HitFinds
  <2> QED
    BY <1>1, <2>1, <2>2, FoundStep
<1>4. CASE Miss
  <2>1. phase = "walk" /\ at \in Nat \ {0} /\ at <= Len(Path[dir]) /\ ~HasConfig(Path[dir][at])
        /\ UNCHANGED <<tree, dir, found>> /\ at' = at + 1
        /\ phase' = IF at < Len(Path[dir]) THEN "walk" ELSE "merge"
    BY <1>1, <1>4 DEF Miss, Here, TypeOK
  <2>2. Chain(dir)' = Chain(dir)
    BY <2>1 DEF Chain, HasConfig
  <2>3. \A k \in Chain(dir) : k \in 1..Len(Path[dir]) /\ k # at
    BY <2>1 DEF Chain
  <2>4. \A k \in Chain(dir) : k < at + 1 => k < at
    BY <1>1, <2>1, <2>3
  <2>5. \A j \in 1..((at + 1) - 1) : j \in 1..(at - 1) \/ j = at
    BY <2>1
  <2>6. FoundInv'
    BY <2>1, <2>2, <2>4, <2>5 DEF FoundInv, HasConfig
  <2>7. phase' = "merge" => {found[i] : i \in DOMAIN found} = {Path[dir][k] : k \in Chain(dir)}
    <3> SUFFICES ASSUME phase' = "merge"
                 PROVE  {found[i] : i \in DOMAIN found} = {Path[dir][k] : k \in Chain(dir)}
      OBVIOUS
    <3>1. \A k \in Chain(dir) : k < at
      BY <1>1, <2>1, <2>3
    <3> QED
      BY <2>1, <3>1 DEF FoundInv
  <2>8. found' = found /\ dir' = dir
    BY <2>1
  <2>9. WholeChain' <=> (phase' = "merge" /\ CommandLine # "alone" =>
          {found'[i] : i \in DOMAIN found'} = {Path[dir'][k] : k \in Chain(dir)'})
    BY DEF WholeChain
  <2>10. WholeChain'
    BY <2>2, <2>7, <2>8, <2>9
  <2> QED
    BY <2>6, <2>10
<1>5. CASE Read
  <2>1. phase = "walk" /\ at \in at..Len(Path[dir]) /\ HasConfig(Path[dir][at]) /\ at \in Nat
        /\ found' = Append(found, Path[dir][at]) /\ phase' = Onward(Path[dir][at])
        /\ at' = at + 1 /\ UNCHANGED <<tree, dir>>
    BY <1>1, <1>5 DEF Read, Here, TypeOK
  <2>2. \A j \in at..(at - 1) : ~HasConfig(Path[dir][j])
    BY <2>1
  <2> QED
    BY <1>1, <2>1, <2>2, FoundStep
<1>6. CASE ParseCrash
  BY <1>6 DEF ParseCrash, FoundInv, WholeChain
<1>7. CASE Merge
  BY <1>7 DEF Merge, FoundInv, WholeChain
<1>8. CASE NoPath
  BY <1>8 DEF NoPath, FoundInv, WholeChain
<1>9. CASE UNCHANGED vars
  <2>1. Chain(dir)' = Chain(dir)
    BY <1>9 DEF vars, Chain, HasConfig
  <2>2. FoundInv'
    BY <1>9, <2>1 DEF vars, FoundInv
  <2>3. WholeChain'
    BY <1>9, <2>1 DEF vars, WholeChain
  <2> QED
    BY <2>2, <2>3
<1> QED
  BY <1>2, <1>3, <1>4, <1>5, <1>6, <1>7, <1>8, <1>9 DEF Next

\* Every lookup finds exactly the configurations that a lookup without a cache
\* finds.
THEOREM ChainFound == Spec => []WholeChain
<1>1. Init => CacheInv /\ FoundInv /\ WholeChain
  BY TreesAssumption, OptionsAssumption
  DEF Init, CacheInv, TypeOK, NearestMemorized, ReadOnce, KeysKnown, ParentsKnown, WalkKnown,
      ReadIsKey, FoundInv, WholeChain
<1>2. CacheInv /\ FoundInv /\ WholeChain /\ [Next]_vars => (CacheInv /\ FoundInv /\ WholeChain)'
  BY CacheStep, ChainStep
<1> QED
  BY <1>1, <1>2, PTL DEF Spec
-----------------------------------------------------------------------------
\* The sources of a lookup, and how strong they are.

LEMMA LeastNumber ==
  ASSUME NEW S, S \subseteq Nat, S # {}
  PROVE  \E n \in S : \A m \in S : n <= m
<1> DEFINE Rel == OpToRel(<, Nat)
<1>1. IsWellFoundedOn(Rel, Nat)
  BY NatLessThanWellFounded
<1>2. \A i, j \in Nat : <<j, i>> \in Rel <=> j < i
  BY DEF OpToRel
<1> HIDE DEF Rel
<1>3. PICK n \in S : \A m \in S : ~(<<m, n>> \in Rel)
  BY <1>1, WFMin
<1>4. \A m \in S : ~(m < n)
  BY <1>2, <1>3
<1> QED
  BY <1>4

\* A bounded set of numbers has a greatest one.
LEMMA Greatest ==
  ASSUME NEW n \in Nat, NEW S, S \subseteq 0..n, S # {}
  PROVE  Max(S) \in S /\ \A m \in S : m <= Max(S)
<1> DEFINE T == {n - m : m \in S}
<1>1. T \subseteq Nat
  OBVIOUS
<1>5. T # {}
  <2>1. PICK x \in S : TRUE
    OBVIOUS
  <2> QED
    BY <2>1
<1>2. PICK t \in T : \A u \in T : t <= u
  <2> HIDE DEF T
  <2> QED
    BY <1>1, <1>5, LeastNumber
<1>3. PICK x \in S : t = n - x
  OBVIOUS
<1>4. ASSUME NEW y \in S PROVE x >= y
  <2>1. t <= n - y
    BY <1>2
  <2> QED
    BY <1>3, <2>1
<1> QED
  BY <1>4 DEF Max

LEMMA LastOfIs ==
  ASSUME NEW s, NEW n \in Nat, DOMAIN s = 1..n, NEW S
  PROVE  /\ LastOf(s, S) \in 0..n
         /\ LastOf(s, S) # 0 => s[LastOf(s, S)] \in S
         /\ \A i \in 1..n : s[i] \in S => i <= LastOf(s, S)
<1> DEFINE I == {i \in DOMAIN s : s[i] \in S} \cup {0}
<1>1. I \subseteq 0..n /\ I # {}
  OBVIOUS
<1>2. LastOf(s, S) = Max(I)
  BY DEF LastOf
<1>3. Max(I) \in I /\ \A m \in I : m <= Max(I)
  <2> HIDE DEF I
  <2> QED
    BY <1>1, Greatest
<1> HIDE DEF LastOf
<1>4. \A m : m \in I <=> m = 0 \/ (m \in 1..n /\ s[m] \in S)
  OBVIOUS
<1> HIDE DEF I
<1> QED
  BY <1>1, <1>2, <1>3, <1>4

LEMMA StrengthOnPath ==
  ASSUME NEW d \in Dirs, NEW k \in 1..Len(Path[d])
  PROVE  Path[d][k] \notin Commands /\ Strength(d, Path[d][k]) = Len(Path[d]) + 1 - k
<1>1. Path[d][k] \in Dirs
  BY PathShift
<1>2. Path[d][k] \notin Commands
  BY <1>1, OptionsAssumption
<1>3. Path[d][k] # "binary" /\ Path[d][k] # "config" /\ Path[d][k] # "checks"
  BY <1>2 DEF Commands
<1>4. Strength(d, Path[d][k]) = Len(Path[d]) + 1 - CHOOSE j \in 1..Len(Path[d]) : Path[d][j] = Path[d][k]
  BY <1>3 DEF Strength
<1>5. ASSUME NEW j \in 1..Len(Path[d]), Path[d][j] = Path[d][k] PROVE j = k
  BY <1>5, PathDistinct
<1> QED
  BY <1>2, <1>4, <1>5

LEMMA StrengthOfCommands ==
  ASSUME NEW d \in Dirs
  PROVE  /\ Strength(d, "binary") = 0
         /\ Strength(d, "config") = Len(Path[d]) + 1
         /\ Strength(d, "checks") = Len(Path[d]) + 2
BY DEF Strength

\* No two sources of a lookup are equally strong.
LEMMA StrengthDistinct ==
  ASSUME NEW d \in Dirs
  PROVE  /\ \A x \in Applied(d) : Strength(d, x) \in Nat
         /\ \A x, y \in Applied(d) : Strength(d, x) = Strength(d, y) => x = y
<1>1. Len(Path[d]) \in Nat
  BY PathLength
<1>2. \A x \in Applied(d) : \/ x = "binary" \/ x = "config" \/ x = "checks"
                            \/ \E k \in 1..Len(Path[d]) : x = Path[d][k]
  <2>1. \A i \in DOMAIN FromCommandLine : FromCommandLine[i] = "config" \/ FromCommandLine[i] = "checks"
    BY DEF FromCommandLine
  <2>2. \A k \in Chain(d) : k \in 1..Len(Path[d])
    BY DEF Chain
  <2> QED
    BY <2>1, <2>2 DEF Applied
<1>3. \A x \in Applied(d) : \/ x = "binary" /\ Strength(d, x) = 0
                            \/ x = "config" /\ Strength(d, x) = Len(Path[d]) + 1
                            \/ x = "checks" /\ Strength(d, x) = Len(Path[d]) + 2
                            \/ \E k \in 1..Len(Path[d]) : x = Path[d][k] /\ Strength(d, x) = Len(Path[d]) + 1 - k
  BY <1>2, StrengthOnPath, StrengthOfCommands
<1> QED
  BY <1>1, <1>3

LEMMA StrongestIs ==
  ASSUME NEW d \in Dirs, NEW S, NEW x \in S \cap Applied(d),
         \A y \in S \cap Applied(d) : Strength(d, y) <= Strength(d, x)
  PROVE  Strongest(d, S) = x
<1>1. ASSUME NEW z \in S \cap Applied(d), \A y \in S \cap Applied(d) : Strength(d, y) <= Strength(d, z)
      PROVE  z = x
  <2>1. Strength(d, z) \in Nat /\ Strength(d, x) \in Nat /\ Strength(d, z) <= Strength(d, x) /\ Strength(d, x) <= Strength(d, z)
    BY <1>1, StrengthDistinct
  <2> QED
    BY <2>1, StrengthDistinct
<1> QED
  BY <1>1 DEF Strongest

\* The sources of the file in dir, weaker ones first.
Sorted == /\ {raw[i] : i \in DOMAIN raw} = Applied(dir)
          /\ \A i, j \in DOMAIN raw : i < j => Strength(dir, raw[i]) <= Strength(dir, raw[j])

\* Of sources in order, the last that sets something is the strongest that does.
LEMMA LastIsStrongest ==
  ASSUME TypeOK, Sorted, NEW S
  PROVE  /\ LastOf(raw, S) \in 0..Len(raw)
         /\ LastOf(raw, S) # 0 <=> SetBySome(S)
         /\ SetBySome(S) => raw[LastOf(raw, S)] = Strongest(dir, S)
         /\ \A i \in DOMAIN raw : raw[i] \in S => i <= LastOf(raw, S)
<1> DEFINE m == LastOf(raw, S)
<1>1. Len(raw) \in Nat /\ DOMAIN raw = 1..Len(raw) /\ dir \in Dirs
  BY DEF TypeOK
<1>2. m \in 0..Len(raw) /\ (m # 0 => raw[m] \in S) /\ \A i \in 1..Len(raw) : raw[i] \in S => i <= m
  BY <1>1, LastOfIs
<1> HIDE DEF m
<1>3. ASSUME m # 0 PROVE raw[m] \in S \cap Applied(dir) /\ m \in DOMAIN raw
  BY <1>1, <1>2, <1>3 DEF Sorted
<1>4. ASSUME SetBySome(S) PROVE m # 0
  <2>1. PICK x \in S : x \in Applied(dir)
    BY <1>4 DEF SetBySome
  <2>2. PICK i \in DOMAIN raw : raw[i] = x
    BY <2>1 DEF Sorted
  <2> QED
    BY <1>1, <1>2, <2>1, <2>2
<1>5. ASSUME m # 0 PROVE raw[m] = Strongest(dir, S)
  <2>1. ASSUME NEW y \in S \cap Applied(dir) PROVE Strength(dir, y) <= Strength(dir, raw[m])
    <3>1. PICK i \in DOMAIN raw : raw[i] = y
      BY DEF Sorted
    <3>2. i <= m /\ m \in DOMAIN raw /\ i \in Nat /\ m \in Nat
      BY <1>1, <1>2, <1>3, <1>5, <3>1
    <3>3. CASE i = m
      BY <1>1, <3>1, <3>3, StrengthDistinct
    <3>4. CASE i < m
      BY <3>1, <3>2, <3>4 DEF Sorted
    <3> QED
      BY <3>2, <3>3, <3>4
  <2> QED
    BY <1>1, <1>3, <1>5, <2>1, StrongestIs
<1>6. m # 0 <=> SetBySome(S)
  BY <1>3, <1>4 DEF SetBySome
<1> QED
  BY <1>1, <1>2, <1>5, <1>6 DEF m

\* What a source in order makes of the settings is what the strongest sources say.
LEMMA EffectiveIsFresh ==
  ASSUME TypeOK, AppliedInOrder
  PROVE  EffectiveAsFresh
<1>1. Sorted
  BY DEF Sorted, AppliedInOrder
<1>2. EnabledBy(raw) = {n \in AllChecks : SetBySome(Naming[n]) /\ Strongest(dir, Naming[n]) \in Enabling[n]}
  <2>1. ASSUME NEW n \in AllChecks
        PROVE  (LastOf(raw, Naming[n]) # 0 /\ raw[LastOf(raw, Naming[n])] \in Enabling[n])
                 <=> (SetBySome(Naming[n]) /\ Strongest(dir, Naming[n]) \in Enabling[n])
    BY <1>1, LastIsStrongest
  <2> QED
    BY <2>1 DEF EnabledBy
<1>3. ASSUME NEW field PROVE Value(raw, field) = Fresh(field)
  BY <1>1, LastIsStrongest DEF Value, Fresh
<1>4. LastOf(raw, Setting("global")) > LastOf(raw, Setting("local")) <=> GlobalCounts
  <2> DEFINE G == Setting("global")
             L == Setting("local")
             g == LastOf(raw, G)
             l == LastOf(raw, L)
  <2>1. /\ g \in 0..Len(raw) /\ (g # 0 <=> SetBySome(G)) /\ (SetBySome(G) => raw[g] = Strongest(dir, G))
        /\ \A i \in DOMAIN raw : raw[i] \in G => i <= g
    BY <1>1, LastIsStrongest
  <2>2. /\ l \in 0..Len(raw) /\ (l # 0 <=> SetBySome(L)) /\ (SetBySome(L) => raw[l] = Strongest(dir, L))
        /\ \A i \in DOMAIN raw : raw[i] \in L => i <= l
    BY <1>1, LastIsStrongest
  <2>3. Len(raw) \in Nat /\ DOMAIN raw = 1..Len(raw) /\ dir \in Dirs
    BY DEF TypeOK
  <2>4. GlobalCounts <=> g # 0 /\ (l = 0 \/ Strength(dir, Strongest(dir, G)) > Strength(dir, Strongest(dir, L)))
    BY <2>1, <2>2 DEF GlobalCounts
  <2>5. l # 0 => raw[l] \in L
    BY <2>3, LastOfIs
  <2> HIDE DEF G, L, g, l
  <2>6. ASSUME g # 0, l # 0
        PROVE  g > l <=> Strength(dir, raw[g]) > Strength(dir, raw[l])
    <3>1. g \in DOMAIN raw /\ l \in DOMAIN raw /\ g \in Nat /\ l \in Nat
      BY <2>1, <2>2, <2>3, <2>6
    <3>2. Strength(dir, raw[g]) \in Nat /\ Strength(dir, raw[l]) \in Nat
          /\ (Strength(dir, raw[g]) = Strength(dir, raw[l]) => raw[g] = raw[l])
      BY <1>1, <2>3, <3>1, StrengthDistinct DEF Sorted
    <3>3. g > l => Strength(dir, raw[l]) <= Strength(dir, raw[g])
      BY <1>1, <3>1 DEF Sorted
    <3>4. g < l => Strength(dir, raw[g]) <= Strength(dir, raw[l])
      BY <1>1, <3>1 DEF Sorted
    <3>5. g > l => raw[g] # raw[l]
      BY <2>2, <2>5, <2>6, <3>1
    <3>6. g = l => Strength(dir, raw[g]) = Strength(dir, raw[l])
      OBVIOUS
    <3> QED
      BY <3>1, <3>2, <3>3, <3>4, <3>5, <3>6
  <2>7. g > l <=> GlobalCounts
    <3>1. CASE g = 0
      BY <2>2, <2>4, <3>1
    <3>2. CASE g # 0 /\ l = 0
      BY <2>1, <2>4, <3>2
    <3>3. CASE g # 0 /\ l # 0
      BY <2>1, <2>2, <2>4, <2>6, <3>3
    <3> QED
      BY <3>1, <3>2, <3>3
  <2> QED
    BY <2>7 DEF G, L, g, l
<1>5. OptionOf(raw) = Fresh(IF GlobalCounts THEN "global" ELSE "local")
  BY <1>3, <1>4 DEF OptionOf
<1> QED
  BY <1>2, <1>3, <1>5 DEF EffectiveAsFresh
-----------------------------------------------------------------------------
\* How a walk orders what it finds.

\* A configuration was found at a position already passed, or it is the first from there on.
Passed(k) == k < at \/ \A j \in at..(k - 1) : ~HasConfig(Path[dir][j])
FoundPassed == phase = "walk" =>
  \A i \in DOMAIN found : \A k \in 1..Len(Path[dir]) : found[i] = Path[dir][k] => Passed(k)

\* Closer configurations were found earlier.
FoundSorted == phase \in {"walk", "merge"} =>
  \A i, j \in DOMAIN found : \A k, l \in 1..Len(Path[dir]) :
    i < j /\ found[i] = Path[dir][k] /\ found[j] = Path[dir][l] => k <= l

\* The keys of the cache and what was found lie below the current path; each
\* configuration was found once.
FirstWalk ==
  /\ \A d \in DOMAIN memorized : \E k \in 1..(root - 1) : k <= Len(Path[dir]) /\ d = Path[dir][k]
  /\ \A i \in DOMAIN found : \E k \in 1..(root - 1) : k <= Len(Path[dir]) /\ found[i] = Path[dir][k]
FoundOnce == \A i, j \in DOMAIN found : i < j => found[i] # found[j]
First ==
  /\ lookups = 0 => memorized = <<>> /\ phase = "idle"
  /\ lookups = 1 /\ phase = "walk" => FirstWalk
  /\ lookups = 1 /\ phase \in {"walk", "merge"} => FoundOnce

\* Without files there is no walk.
NoFiles == CommandLine = "alone" => phase # "walk" /\ found = <<>>

Answered == phase = "answered" => AppliedInOrder

OrderInv == FoundPassed /\ FoundSorted /\ First /\ NoFiles /\ Answered

\* The walk finds the configuration at position p, the first from the current path on.
LEMMA SortStep ==
  ASSUME TypeOK, FoundPassed, FoundSorted, phase = "walk",
         NEW p \in at..Len(Path[dir]), HasConfig(Path[dir][p]),
         \A j \in at..(p - 1) : ~HasConfig(Path[dir][j]),
         \A i \in DOMAIN found : \E k \in Chain(dir) : found[i] = Path[dir][k],
         found' = Append(found, Path[dir][p]),
         at' = at + 1, UNCHANGED <<tree, dir>>
  PROVE  FoundPassed' /\ FoundSorted'
<1> DEFINE c == Path[dir][p]
<1>1. at \in Nat \ {0} /\ dir \in Dirs /\ Len(Path[dir]) \in Nat /\ at <= Len(Path[dir])
      /\ p \in 1..Len(Path[dir]) /\ p \in Nat /\ p >= at /\ found \in Seq(Dirs) /\ c \in Dirs
  BY PathLength DEF TypeOK
<1>2. /\ DOMAIN found' = 1..(Len(found) + 1) /\ DOMAIN found = 1..Len(found)
      /\ Len(found) \in Nat
      /\ found'[Len(found) + 1] = c
      /\ \A i \in DOMAIN found : found'[i] = found[i]
  BY <1>1
<1>3. ASSUME NEW i \in DOMAIN found, NEW k \in 1..Len(Path[dir]), found[i] = Path[dir][k]
      PROVE  k <= p /\ (k < at \/ k = p)
  <2>1. HasConfig(Path[dir][k])
    BY <1>3 DEF Chain
  <2>2. k < at \/ \A j \in at..(k - 1) : ~HasConfig(Path[dir][j])
    BY <1>3 DEF FoundPassed, Passed
  <2>3. ~(k < at) /\ k < p => k \in at..(p - 1)
    BY <1>1
  <2>4. ~(k < at) /\ k > p => p \in at..(k - 1)
    BY <1>1
  <2> QED
    BY <1>1, <2>1, <2>2, <2>3, <2>4
<1>4. ASSUME NEW k \in 1..Len(Path[dir]), c = Path[dir][k] PROVE k = p
  BY <1>1, <1>4, PathDistinct
<1> HIDE DEF c
<1>5. ASSUME NEW i \in DOMAIN found', NEW k \in 1..Len(Path[dir]), found'[i] = Path[dir][k]
      PROVE  k < at + 1 \/ \A j \in (at + 1)..(k - 1) : ~HasConfig(Path[dir][j])
  <2>1. k < at \/ k = p
    BY <1>2, <1>3, <1>4, <1>5
  <2>2. \A j \in (at + 1)..(p - 1) : j \in at..(p - 1)
    BY <1>1
  <2> QED
    BY <1>1, <2>1, <2>2
<1>6. ASSUME NEW i \in DOMAIN found', NEW j \in DOMAIN found', NEW k \in 1..Len(Path[dir]), NEW l \in 1..Len(Path[dir]),
             i < j, found'[i] = Path[dir][k], found'[j] = Path[dir][l]
      PROVE  k <= l
  <2>1. i \in DOMAIN found /\ found[i] = Path[dir][k]
    BY <1>2, <1>6
  <2>2. CASE j \in DOMAIN found
    BY <1>2, <1>6, <2>1, <2>2 DEF FoundSorted
  <2>3. CASE j = Len(found) + 1
    BY <1>2, <1>3, <1>4, <1>6, <2>1, <2>3
  <2> QED
    BY <1>2, <2>2, <2>3
<1> QED
  BY <1>5, <1>6 DEF FoundPassed, FoundSorted, Passed, HasConfig

IsJoin(S, a, b, c) ==
  /\ c \in Seq(S) /\ Len(c) = Len(a) + Len(b)
  /\ \A i \in 1..Len(a) : c[i] = a[i]
  /\ \A i \in 1..Len(b) : c[Len(a) + i] = b[i]
LEMMA ConcatIs == ASSUME NEW S, NEW a \in Seq(S), NEW b \in Seq(S) PROVE IsJoin(S, a, b, a \o b)
BY DEF IsJoin

\* The sources of a lookup, one by one.
LEMMA OrderedIs ==
  ASSUME NEW cs \in Seq(Sources), NEW s, s = Ordered(cs)
  PROVE  /\ DOMAIN s = 1..(1 + Len(cs) + Len(FromCommandLine))
         /\ s[1] = "binary"
         /\ \A i \in 1..Len(cs) : s[1 + i] = cs[Len(cs) + 1 - i]
         /\ \A j \in 1..Len(FromCommandLine) : s[1 + Len(cs) + j] = FromCommandLine[j]
<1> DEFINE B == <<"binary">>
           V == Reverse(cs)
           F == FromCommandLine
<1>1. "binary" \in Sources /\ "config" \in Sources /\ "checks" \in Sources
  BY DEF Sources, Commands
<1>2. \A x, y \in Sources : <<x>> \in Seq(Sources) /\ <<x, y>> \in Seq(Sources)
  OBVIOUS
<1>3. F \in Seq(Sources) /\ B \in Seq(Sources)
  BY <1>1, <1>2, Zenon DEF FromCommandLine
<1>4. Len(B) = 1 /\ B[1] = "binary"
  OBVIOUS
<1>5. V \in Seq(Sources) /\ Len(V) = Len(cs) /\ \A i \in 1..Len(cs) : V[i] = cs[Len(cs) + 1 - i]
  BY DEF Reverse
<1>6. s = B \o V \o F
  BY DEF Ordered
<1> HIDE DEF B, V, F
<1>7. Len(cs) \in Nat /\ Len(F) \in Nat
  BY <1>3
<1>8. PICK C : C = B \o V
  OBVIOUS
<1>9. IsJoin(Sources, B, V, C)
  BY <1>3, <1>5, <1>8, ConcatIs
<1>10. C \in Seq(Sources) /\ Len(C) = 1 + Len(cs) /\ C[1] = "binary" /\ \A i \in 1..Len(cs) : C[1 + i] = V[i]
  BY <1>4, <1>5, <1>7, <1>9 DEF IsJoin
<1>11. s = C \o F
  BY <1>6, <1>8
<1>12. /\ s \in Seq(Sources) /\ Len(s) = 1 + Len(cs) + Len(F)
       /\ \A i \in 1..(1 + Len(cs)) : s[i] = C[i]
       /\ \A j \in 1..Len(F) : s[1 + Len(cs) + j] = F[j]
  <2>1. IsJoin(Sources, C, F, s)
    BY <1>3, <1>10, <1>11, ConcatIs
  <2> QED
    BY <1>10, <2>1 DEF IsJoin
<1>14. s[1] = "binary" /\ \A i \in 1..Len(cs) : s[1 + i] = V[i]
  BY <1>7, <1>10, <1>12
<1> QED
  BY <1>5, <1>7, <1>12, <1>14 DEF F

LEMMA CommandsAre ==
  \/ Len(FromCommandLine) = 1 /\ FromCommandLine[1] = "checks"
  \/ Len(FromCommandLine) = 2 /\ FromCommandLine[1] = "config" /\ FromCommandLine[2] = "checks"
BY DEF FromCommandLine

\* What a walk has found, merged, is what a lookup without a cache would apply.
LEMMA MergeInOrder ==
  ASSUME TypeOK, phase = "merge", WholeChain, FoundSorted, First, NoFiles,
         NEW s, s = Ordered(found)
  PROVE  /\ {s[i] : i \in DOMAIN s} = Applied(dir)
         /\ \A i, j \in DOMAIN s : i < j => Strength(dir, s[i]) <= Strength(dir, s[j])
         /\ lookups = 1 => \A i, j \in DOMAIN s : i < j => s[i] # s[j]
<1> DEFINE n == Len(found)
           P == Len(Path[dir])
           F == FromCommandLine
<1>1. dir \in Dirs /\ P \in Nat \ {0} /\ n \in Nat /\ found \in Seq(Dirs) /\ DOMAIN found = 1..n
  BY PathLength DEF TypeOK
<1>2. found \in Seq(Sources)
  BY <1>1 DEF Sources
<1>3. \/ Len(F) = 1 /\ F[1] = "checks"
      \/ Len(F) = 2 /\ F[1] = "config" /\ F[2] = "checks"
  BY CommandsAre
<1>4. /\ DOMAIN s = 1..(1 + n + Len(F))
      /\ s[1] = "binary"
      /\ \A i \in 1..n : s[1 + i] = found[n + 1 - i]
      /\ \A j \in 1..Len(F) : s[1 + n + j] = F[j]
  BY <1>2, OrderedIs
<1>5. {found[i] : i \in DOMAIN found} = IF CommandLine = "alone" THEN {} ELSE {Path[dir][k] : k \in Chain(dir)}
  <2>1. CASE CommandLine = "alone"
    <3>1. DOMAIN found = {}
      BY <2>1 DEF NoFiles
    <3> QED
      BY <2>1, <3>1
  <2>2. CASE CommandLine # "alone"
    BY <2>2 DEF WholeChain
  <2> QED
    BY <2>1, <2>2
<1>6. \A i \in DOMAIN found : \E k \in 1..P : found[i] = Path[dir][k]
  BY <1>5 DEF Chain
<1>7. {F[i] : i \in DOMAIN F} = {F[j] : j \in 1..Len(F)}
  BY DEF FromCommandLine
<1>8. Applied(dir) = {"binary"} \cup {F[j] : j \in 1..Len(F)} \cup {found[i] : i \in DOMAIN found}
  BY <1>5, <1>7 DEF Applied
<1>9. Strength(dir, "binary") = 0 /\ Strength(dir, "config") = P + 1 /\ Strength(dir, "checks") = P + 2
  BY <1>1, StrengthOfCommands
<1>10. \A k \in 1..P : Strength(dir, Path[dir][k]) = P + 1 - k
  BY <1>1, StrengthOnPath
<1> HIDE DEF n, P, F
<1>11. \A i \in DOMAIN s : \/ i = 1
                           \/ \E a \in 1..n : i = 1 + a /\ n + 1 - a \in 1..n
                           \/ \E j \in 1..Len(F) : i = 1 + n + j
  <2>1. SUFFICES ASSUME NEW i \in 1..(1 + n + Len(F))
                 PROVE  \/ i = 1
                        \/ \E a \in 1..n : i = 1 + a /\ n + 1 - a \in 1..n
                        \/ \E j \in 1..Len(F) : i = 1 + n + j
    BY <1>4
  <2>2. CASE i > 1 /\ i <= 1 + n
    <3>1. i - 1 \in 1..n /\ i = 1 + (i - 1) /\ n + 1 - (i - 1) \in 1..n
      BY <1>1, <2>2
    <3> QED
      BY <3>1
  <2>3. CASE i > 1 + n
    <3>1. i - 1 - n \in 1..Len(F) /\ i = 1 + n + (i - 1 - n)
      BY <1>1, <1>3, <2>3
    <3> QED
      BY <3>1
  <2> QED
    BY <1>1, <1>3, <2>2, <2>3
<1>12. {s[i] : i \in DOMAIN s} = Applied(dir)
  <2>1. ASSUME NEW i \in DOMAIN s PROVE s[i] \in Applied(dir)
    <3>1. CASE i = 1
      BY <1>4, <1>8, <3>1
    <3>2. CASE \E a \in 1..n : i = 1 + a /\ n + 1 - a \in 1..n
      BY <1>1, <1>4, <1>8, <3>2
    <3>3. CASE \E j \in 1..Len(F) : i = 1 + n + j
      BY <1>4, <1>8, <3>3
    <3> QED
      BY <1>11, <3>1, <3>2, <3>3
  <2>2. 1 \in DOMAIN s
    BY <1>1, <1>3, <1>4
  <2>3. \A j \in 1..Len(F) : 1 + n + j \in DOMAIN s
    BY <1>1, <1>3, <1>4
  <2>4. ASSUME NEW i \in 1..n PROVE \E j \in DOMAIN s : s[j] = found[i]
    <3>1. n + 1 - i \in 1..n /\ n + 1 - (n + 1 - i) = i
      BY <1>1
    <3>2. 1 + (n + 1 - i) \in DOMAIN s
      BY <1>1, <1>3, <1>4, <3>1
    <3> QED
      BY <1>4, <3>1, <3>2
  <2>5. ASSUME NEW x \in Applied(dir) PROVE \E j \in DOMAIN s : s[j] = x
    BY <1>1, <1>4, <1>8, <2>2, <2>3, <2>4
  <2> QED
    BY <2>1, <2>5
<1>13. ASSUME NEW i \in DOMAIN s, NEW j \in DOMAIN s, i < j
       PROVE  \/ Strength(dir, s[i]) < Strength(dir, s[j])
              \/ /\ Strength(dir, s[i]) <= Strength(dir, s[j])
                 /\ \E a, b \in 1..n : a < b /\ s[j] = found[a] /\ s[i] = found[b]
  <2>1. CASE i = 1
    <3>1. Strength(dir, s[i]) = 0
      BY <1>4, <1>9, <2>1
    <3>2. CASE \E b \in 1..n : j = 1 + b /\ n + 1 - b \in 1..n
      <4>0. PICK b \in 1..n : j = 1 + b /\ n + 1 - b \in 1..n
        BY <3>2
      <4>3. s[j] = found[n + 1 - b]
        BY <1>4, <4>0
      <4>1. PICK k \in 1..P : s[j] = Path[dir][k]
        BY <1>1, <1>6, <4>0, <4>3
      <4>2. Strength(dir, s[j]) = P + 1 - k
        BY <1>10, <4>1
      <4> QED
        BY <1>1, <3>1, <4>2
    <3>3. CASE \E b \in 1..Len(F) : j = 1 + n + b
      <4>1. s[j] = "config" \/ s[j] = "checks"
        BY <1>3, <1>4, <3>3
      <4> QED
        BY <1>1, <1>9, <3>1, <4>1
    <3> QED
      BY <1>11, <1>13, <2>1, <3>2, <3>3
  <2>2. CASE \E a \in 1..n : i = 1 + a /\ n + 1 - a \in 1..n
    <3>1. PICK a \in 1..n : i = 1 + a /\ n + 1 - a \in 1..n
      BY <2>2
    <3>2. s[i] = found[n + 1 - a]
      BY <1>4, <3>1
    <3>3. PICK k \in 1..P : found[n + 1 - a] = Path[dir][k]
      BY <1>1, <1>6, <3>1
    <3>4. Strength(dir, s[i]) = P + 1 - k
      BY <1>10, <3>2, <3>3
    <3>5. CASE \E b \in 1..n : j = 1 + b /\ n + 1 - b \in 1..n
      <4>1. PICK b \in 1..n : j = 1 + b /\ n + 1 - b \in 1..n
        BY <3>5
      <4>2. s[j] = found[n + 1 - b]
        BY <1>4, <4>1
      <4>3. PICK l \in 1..P : found[n + 1 - b] = Path[dir][l]
        BY <1>1, <1>6, <4>1
      <4>4. Strength(dir, s[j]) = P + 1 - l
        BY <1>10, <4>2, <4>3
      <4>5. n + 1 - b < n + 1 - a
        BY <1>1, <1>13, <3>1, <4>1
      <4>6. l <= k
        BY <1>1, <3>1, <3>3, <4>1, <4>3, <4>5 DEF FoundSorted, P
      <4> QED
        BY <1>1, <3>1, <3>2, <3>4, <4>1, <4>2, <4>4, <4>5, <4>6
    <3>6. CASE \E b \in 1..Len(F) : j = 1 + n + b
      <4>1. s[j] = "config" \/ s[j] = "checks"
        BY <1>3, <1>4, <3>6
      <4> QED
        BY <1>1, <1>9, <3>4, <4>1
    <3>7. j # 1
      BY <1>1, <1>13, <3>1
    <3> QED
      BY <1>11, <3>5, <3>6, <3>7
  <2>3. CASE \E a \in 1..Len(F) : i = 1 + n + a
    <3>1. PICK a \in 1..Len(F) : i = 1 + n + a
      BY <2>3
    <3>2. ~\E b \in 1..n : j = 1 + b
      BY <1>1, <1>3, <1>13, <3>1
    <3>3. j # 1
      BY <1>1, <1>3, <1>13, <3>1
    <3>4. PICK b \in 1..Len(F) : j = 1 + n + b
      BY <1>11, <3>2, <3>3
    <3>5. a < b
      BY <1>1, <1>3, <1>13, <3>1, <3>4
    <3>6. s[i] = "config" /\ s[j] = "checks"
      BY <1>3, <1>4, <3>1, <3>4, <3>5
    <3> QED
      BY <1>1, <1>9, <3>6
  <2> QED
    BY <1>11, <2>1, <2>2, <2>3
<1>14. ASSUME NEW i \in DOMAIN s, NEW j \in DOMAIN s, i < j
       PROVE  Strength(dir, s[i]) <= Strength(dir, s[j])
  <2>1. Strength(dir, s[i]) \in Nat /\ Strength(dir, s[j]) \in Nat
    BY <1>1, <1>12, StrengthDistinct
  <2> QED
    BY <1>13, <1>14, <2>1
<1>15. ASSUME lookups = 1, NEW i \in DOMAIN s, NEW j \in DOMAIN s, i < j
       PROVE  s[i] # s[j]
  <2>1. Strength(dir, s[i]) \in Nat /\ Strength(dir, s[j]) \in Nat
    BY <1>1, <1>12, StrengthDistinct
  <2>2. CASE Strength(dir, s[i]) < Strength(dir, s[j])
    BY <2>1, <2>2
  <2>3. CASE \E a, b \in 1..n : a < b /\ s[j] = found[a] /\ s[i] = found[b]
    BY <1>1, <1>15, <2>3 DEF First, FoundOnce
  <2> QED
    BY <1>13, <1>15, <2>2, <2>3
<1> QED
  BY <1>12, <1>14, <1>15

\* In a first walk no path is a key, and what is read makes keys below the next path.
LEMMA FirstStep ==
  ASSUME TypeOK, First, [Next]_vars
  PROVE  First'
<1>1. Len(Path[dir]) \in Nat /\ dir \in Dirs /\ lookups \in Nat /\ at \in Nat \ {0} /\ root \in Nat \ {0} /\ root <= at
  BY PathLength, OptionsAssumption DEF TypeOK
<1>2. ASSUME NEW d \in Dirs, LookUp(d) PROVE First'
  <2>1. lookups' = lookups + 1 /\ found' = <<>> /\ memorized' = memorized
    BY <1>2 DEF LookUp
  <2>2. lookups' # 0 /\ (lookups' = 1 => memorized' = <<>>)
    BY <1>1, <2>1 DEF First
  <2> QED
    BY <2>1, <2>2 DEF First, FirstWalk, FoundOnce
<1>3. ASSUME phase = "walk", lookups = 1 PROVE Here \notin DOMAIN memorized /\ at \in 1..Len(Path[dir]) /\ Here = Path[dir][at]
  <2>1. at \in 1..Len(Path[dir])
    BY <1>1, <1>3 DEF TypeOK
  <2>2. ASSUME NEW k \in 1..(root - 1), k <= Len(Path[dir]), Here = Path[dir][k] PROVE FALSE
    <3>1. k \in 1..Len(Path[dir]) /\ k # at
      BY <1>1, <2>2
    <3> QED
      BY <1>1, <2>1, <2>2, <3>1, PathDistinct DEF Here
  <2> QED
    BY <1>3, <2>1, <2>2 DEF First, FirstWalk, Here
<1>4. CASE Hit
  <2>1. lookups # 0 /\ lookups # 1
    BY <1>3, <1>4 DEF Hit, First
  <2> QED
    BY <1>4, <2>1 DEF Hit, First
<1>5. CASE Miss
  <2>1. UNCHANGED <<memorized, dir, root, found, lookups>> /\ phase = "walk" /\ phase' \in {"walk", "merge"}
    BY <1>5 DEF Miss
  <2>2. UNCHANGED <<FirstWalk, FoundOnce>>
    BY <2>1 DEF FirstWalk, FoundOnce
  <2> QED
    BY <2>1, <2>2 DEF First
<1>6. CASE Read
  <2>1. UNCHANGED <<dir, lookups>> /\ phase = "walk" /\ memorized' = Memorize /\ root' = at + 1
        /\ found' = Append(found, Here)
    BY <1>6 DEF Read
  <2>2. lookups # 0
    BY <2>1 DEF First
  <2>3. SUFFICES ASSUME lookups = 1 PROVE FirstWalk' /\ FoundOnce'
    BY <2>1, <2>2 DEF First
  <2>4. FirstWalk /\ FoundOnce
    BY <2>1, <2>3 DEF First
  <2>5. at \in 1..Len(Path[dir]) /\ Here = Path[dir][at]
    BY <1>3, <2>1, <2>3
  <2>6. found \in Seq(Dirs) /\ Here \in Dirs
    BY <1>1, <2>5, PathShift DEF TypeOK
  <2>7. DOMAIN found' = 1..(Len(found) + 1) /\ DOMAIN found = 1..Len(found) /\ Len(found) \in Nat
        /\ found'[Len(found) + 1] = Here /\ \A i \in 1..Len(found) : found'[i] = found[i]
    BY <2>1, <2>6
  <2>8. DOMAIN memorized' = DOMAIN memorized \cup {Path[dir][k] : k \in root..at}
    BY <2>1 DEF Memorize
  <2>9. \A k \in 1..(root - 1) : k \in 1..at
    BY <1>1
  <2>10. \A k \in root..at : k \in 1..at /\ k <= Len(Path[dir])
    BY <1>1, <2>5
  <2>11. root' - 1 = at /\ at \in 1..at /\ at <= Len(Path[dir])
    BY <1>1, <2>1, <2>5
  <2>12. \A d \in DOMAIN memorized' : \E k \in 1..at : k <= Len(Path[dir]) /\ d = Path[dir][k]
    BY <2>4, <2>8, <2>9, <2>10 DEF FirstWalk
  <2>13. \A i \in DOMAIN found' : \E k \in 1..at : k <= Len(Path[dir]) /\ found'[i] = Path[dir][k]
    <3>1. ASSUME NEW i \in DOMAIN found'
          PROVE  \E k \in 1..at : k <= Len(Path[dir]) /\ found'[i] = Path[dir][k]
      <4>1. CASE i \in DOMAIN found
        BY <2>4, <2>7, <2>9, <4>1 DEF FirstWalk
      <4>2. CASE i = Len(found) + 1
        BY <2>5, <2>7, <2>11, <4>2
      <4> QED
        BY <2>7, <4>1, <4>2
    <3> QED
      BY <3>1
  <2>14. FirstWalk'
    BY <2>1, <2>11, <2>12, <2>13 DEF FirstWalk
  <2>15. ASSUME NEW i \in DOMAIN found PROVE found[i] # Here
    <3>1. PICK k \in 1..(root - 1) : k <= Len(Path[dir]) /\ found[i] = Path[dir][k]
      BY <2>4 DEF FirstWalk
    <3>2. k \in 1..Len(Path[dir]) /\ k # at
      BY <1>1, <3>1
    <3> QED
      BY <1>1, <2>5, <3>1, <3>2, PathDistinct
  <2>16. FoundOnce'
    BY <2>4, <2>7, <2>15 DEF FoundOnce
  <2> QED
    BY <2>14, <2>16
<1>7. CASE ParseCrash
  BY <1>7 DEF ParseCrash, First
<1>8. CASE Merge
  BY <1>8 DEF Merge, First
<1>9. CASE NoPath
  BY <1>1, <1>9 DEF NoPath, First
<1>10. CASE UNCHANGED vars
  <2>1. UNCHANGED <<FirstWalk, FoundOnce>>
    BY <1>10 DEF vars, FirstWalk, FoundOnce
  <2> QED
    BY <1>10, <2>1 DEF vars, First
<1> QED
  BY <1>2, <1>4, <1>5, <1>6, <1>7, <1>8, <1>9, <1>10 DEF Next

LEMMA OrderStep ==
  CacheInv /\ FoundInv /\ WholeChain /\ OrderInv /\ [Next]_vars => OrderInv'
<1> SUFFICES ASSUME CacheInv, FoundInv, WholeChain, OrderInv, [Next]_vars PROVE OrderInv'
  OBVIOUS
<1>1. TypeOK /\ Len(Path[dir]) \in Nat /\ dir \in Dirs /\ FoundPassed /\ FoundSorted /\ First /\ NoFiles /\ Answered
  BY PathLength DEF CacheInv, TypeOK, OrderInv
<1>2. First'
  BY <1>1, FirstStep
<1>3. \A i \in DOMAIN found : phase = "walk" => \E k \in Chain(dir) : found[i] = Path[dir][k]
  BY DEF FoundInv
<1>4. ASSUME NEW d \in Dirs, LookUp(d) PROVE OrderInv'
  <2>1. found' = <<>> /\ phase' = IF CommandLine = "alone" THEN "merge" ELSE "walk"
    BY <1>4 DEF LookUp
  <2>2. FoundPassed' /\ FoundSorted'
    BY <2>1 DEF FoundPassed, FoundSorted
  <2>3. NoFiles' /\ Answered'
    BY <2>1 DEF NoFiles, Answered
  <2> QED
    BY <1>2, <2>2, <2>3 DEF OrderInv
<1>5. ASSUME phase = "walk", phase' \in {"walk", "merge", "crashed"} PROVE NoFiles' /\ Answered'
  BY <1>1, <1>5 DEF NoFiles, Answered
<1>6. CASE Hit
  <2>1. phase = "walk" /\ at' = at + 1 /\ UNCHANGED <<tree, dir>> /\ phase' \in {"walk", "merge"}
    BY <1>6 DEF Hit, Onward
  <2>2. PICK p \in at..Len(Path[dir]) :
          /\ HasConfig(Path[dir][p]) /\ \A j \in at..(p - 1) : ~HasConfig(Path[dir][j])
          /\ found' = Append(found, Path[dir][p])
    BY <1>6, HitFinds
  <2>3. FoundPassed' /\ FoundSorted'
    BY <1>1, <1>3, <2>1, <2>2, SortStep
  <2> QED
    BY <1>2, <1>5, <2>1, <2>3 DEF OrderInv
<1>7. CASE Miss
  <2>1. phase = "walk" /\ at' = at + 1 /\ UNCHANGED <<tree, dir, found>> /\ phase' \in {"walk", "merge"}
    BY <1>7 DEF Miss
  <2>2. at \in Nat \ {0}
    BY <1>1 DEF TypeOK
  <2>3. FoundPassed'
    <3>1. ASSUME NEW i \in DOMAIN found, NEW k \in 1..Len(Path[dir]), found[i] = Path[dir][k]
          PROVE  k < at + 1 \/ \A j \in (at + 1)..(k - 1) : ~HasConfig(Path[dir][j])
      <4>1. k < at \/ \A j \in at..(k - 1) : ~HasConfig(Path[dir][j])
        BY <1>1, <2>1, <3>1 DEF FoundPassed, Passed
      <4>2. \A j \in (at + 1)..(k - 1) : j \in at..(k - 1)
        BY <1>1, <2>2
      <4> QED
        BY <1>1, <2>2, <4>1, <4>2
    <3> QED
      BY <2>1, <3>1 DEF FoundPassed, Passed, HasConfig
  <2>4. FoundSorted'
    BY <1>1, <2>1 DEF FoundSorted
  <2> QED
    BY <1>2, <1>5, <2>1, <2>3, <2>4 DEF OrderInv
<1>8. CASE Read
  <2>1. phase = "walk" /\ at' = at + 1 /\ UNCHANGED <<tree, dir>> /\ phase' \in {"walk", "merge"}
        /\ found' = Append(found, Path[dir][at]) /\ HasConfig(Path[dir][at])
    BY <1>8 DEF Read, Onward, Here
  <2>2. at \in at..Len(Path[dir]) /\ \A j \in at..(at - 1) : ~HasConfig(Path[dir][j])
    BY <1>1, <2>1 DEF TypeOK
  <2>3. FoundPassed' /\ FoundSorted'
    BY <1>1, <1>3, <2>1, <2>2, SortStep
  <2> QED
    BY <1>2, <1>5, <2>1, <2>3 DEF OrderInv
<1>9. CASE ParseCrash
  <2>1. phase = "walk" /\ phase' = "crashed"
    BY <1>9 DEF ParseCrash
  <2>2. FoundPassed' /\ FoundSorted'
    BY <2>1 DEF FoundPassed, FoundSorted
  <2> QED
    BY <1>2, <1>5, <2>1, <2>2 DEF OrderInv
<1>10. CASE Merge
  <2>1. phase = "merge" /\ phase' = "answered" /\ raw' = Ordered(found) /\ UNCHANGED <<tree, dir, found, lookups>>
    BY <1>10 DEF Merge
  <2>2. FoundPassed' /\ FoundSorted' /\ NoFiles'
    BY <1>1, <2>1 DEF FoundPassed, FoundSorted, NoFiles
  <2>3. PICK s : s = Ordered(found)
    OBVIOUS
  <2>4. /\ {s[i] : i \in DOMAIN s} = Applied(dir)
        /\ \A i, j \in DOMAIN s : i < j => Strength(dir, s[i]) <= Strength(dir, s[j])
        /\ lookups = 1 => \A i, j \in DOMAIN s : i < j => s[i] # s[j]
    BY <1>1, <2>1, <2>3, MergeInOrder
  <2>5. Applied(dir)' = Applied(dir) /\ raw' = s /\ \A x : Strength(dir, x)' = Strength(dir, x)
    BY <2>1, <2>3 DEF Applied, Strength, Chain, HasConfig
  <2>6. AppliedInOrder'
    BY <2>1, <2>4, <2>5 DEF AppliedInOrder
  <2> QED
    BY <1>2, <2>2, <2>6 DEF OrderInv, Answered
<1>11. CASE NoPath
  <2>1. phase' = "idle" /\ found' = found
    BY <1>11 DEF NoPath
  <2>2. FoundPassed' /\ FoundSorted' /\ NoFiles' /\ Answered'
    BY <1>1, <2>1 DEF FoundPassed, FoundSorted, NoFiles, Answered
  <2> QED
    BY <1>2, <2>2 DEF OrderInv
<1>12. CASE UNCHANGED vars
  <2>1. UNCHANGED <<FoundPassed, FoundSorted>>
    BY <1>12 DEF vars, FoundPassed, FoundSorted, Passed, HasConfig
  <2>2. UNCHANGED <<NoFiles, Answered>>
    BY <1>12 DEF vars, NoFiles, Answered, AppliedInOrder, Applied, Strength, Chain, HasConfig
  <2> QED
    BY <1>1, <1>2, <2>1, <2>2 DEF OrderInv
<1> QED
  BY <1>4, <1>6, <1>7, <1>8, <1>9, <1>10, <1>11, <1>12 DEF Next

\* Whatever the cache holds, the options of a file are those that a lookup without a
\* cache makes of the same sources: the same checks, header filter and check options.
THEOREM OptionsAsFresh == Spec => []EffectiveAsFresh
<1>1. Init => CacheInv /\ FoundInv /\ WholeChain /\ OrderInv
  BY TreesAssumption, OptionsAssumption
  DEF Init, CacheInv, TypeOK, NearestMemorized, ReadOnce, KeysKnown, ParentsKnown, WalkKnown,
      ReadIsKey, FoundInv, WholeChain, OrderInv, FoundPassed, FoundSorted, First, NoFiles, Answered
<1>2. CacheInv /\ FoundInv /\ WholeChain /\ OrderInv /\ [Next]_vars
        => (CacheInv /\ FoundInv /\ WholeChain /\ OrderInv)'
  BY CacheStep, ChainStep, OrderStep
<1>3. CacheInv /\ OrderInv => EffectiveAsFresh
  BY EffectiveIsFresh DEF CacheInv, OrderInv, Answered, EffectiveAsFresh
<1> QED
  BY <1>1, <1>2, <1>3, PTL DEF Spec
-----------------------------------------------------------------------------
\* The registrations: of each component the names that no later registration takes.

Own ==
  <<{"avoid-variable-length-array", "c23-req-18.8", "avoid-partial-array-init"},
    {"c25-req-6.3"},
    {"avoid-comment-within-comment"},
    {"cpp23-adv-19.0.1", "cpp23-adv-9.6.4", "cpp23-req-9.4.1", "cpp23-mand-7.5.3", "cpp23-req-21.2.1",
     "cpp23-req-10.1", "cpp23-req-10.2", "cpp23-req-12.2", "cpp23-req-13.1"},
    {"c23-mand-13.6", "c23-req-14.3"},
    {"c25-mand-17.3"},
    {"avoid-octal-number"},
    {"avoid-comma-operator"},
    {"avoid-pointer-arithmetic"},
    {"avoid-undef", "avoid-multiple-hash-operators"},
    {"avoid-multiple-return-stmt"},
    {"avoid-goto", "missing-else", "c23-req-15.7", "c25-req-15.7"},
    {"avoid-ascii-to-number", "c25-mand-22.18", "c25-req-21.7"},
    {"c25-adv-8.19", "c25-req-22.13"},
    {"avoid-union"},
    {"c23-req-17.2", "c25-adv-17.11"},
    {"x-adv-2.4", "c25-adv-2.4"}>>

\* The registrations s of the k-th component: the names that last are given at the end by no
\* other component, and each class that is not lost has one of them, which s gives once.
Numbered(s) == \E n \in Nat : DOMAIN s = 1..n
Formed(s)   == \A i \in DOMAIN s : s[i] = R(s[i].class, s[i].name)
Apart(k, s) == \A j \in 1..(k - 1) : \A i \in DOMAIN s : s[i].name \notin Own[j]
Kept(k, s)  == \A i \in DOMAIN s :
  \/ s[i].class \in Lost
  \/ \E j \in DOMAIN s : /\ s[j].class = s[i].class /\ s[j].name \in Own[k]
                        /\ \A l \in DOMAIN s : j < l => s[j].name # s[l].name
ComponentFits(k, s) == Numbered(s) /\ Formed(s) /\ Apart(k, s) /\ Kept(k, s)

LEMMA ComponentsFit ==
  Len(Components) = 17 /\ DOMAIN Components = 1..17 /\ \A k \in 1..17 : ComponentFits(k, Components[k])
<1>0. Len(Components) = 17 /\ DOMAIN Components = 1..17
  BY DEF Components
<1>1. ComponentFits(1, Components[1])
  <2> DEFINE s == ArrayComponent
  <2>1. DOMAIN s = 1..4 /\ \A i \in DOMAIN s : s[i] = R(s[i].class, s[i].name)
    BY DEF ArrayComponent, R
  <2>2. \A j \in 1..(1 - 1) : \A i \in DOMAIN s : s[i].name \notin Own[j]
    BY DEF ArrayComponent, R, Own
  <2>3. \A i, l \in DOMAIN s : i < l => s[i].name # s[l].name
    BY DEF ArrayComponent, R
  <2>4. \A i \in DOMAIN s : s[i].class \in Lost \/ \E j \in DOMAIN s : s[j].class = s[i].class /\ s[j].name \in Own[1]
    BY DEF ArrayComponent, R, Own, Lost
  <2>5. Components[1] = s
    BY DEF Components
  <2> HIDE DEF s
  <2>6. Numbered(s) /\ Formed(s)
    BY <2>1 DEF Numbered, Formed
  <2>7. Apart(1, s)
    BY <2>2 DEF Apart
  <2>8. Kept(1, s)
    BY <2>3, <2>4 DEF Kept
  <2> QED
    BY <2>5, <2>6, <2>7, <2>8 DEF ComponentFits
<1>2. ComponentFits(2, Components[2])
  <2> DEFINE s == BitfieldComponent
  <2>1. DOMAIN s = 1..1 /\ \A i \in DOMAIN s : s[i] = R(s[i].class, s[i].name)
    BY DEF BitfieldComponent, R
  <2>2. \A j \in 1..(2 - 1) : \A i \in DOMAIN s : s[i].name \notin Own[j]
    BY DEF BitfieldComponent, R, Own
  <2>3. \A i, l \in DOMAIN s : i < l => s[i].name # s[l].name
    BY DEF BitfieldComponent, R
  <2>4. \A i \in DOMAIN s : s[i].class \in Lost \/ \E j \in DOMAIN s : s[j].class = s[i].class /\ s[j].name \in Own[2]
    BY DEF BitfieldComponent, R, Own, Lost
  <2>5. Components[2] = s
    BY DEF Components
  <2> HIDE DEF s
  <2>6. Numbered(s) /\ Formed(s)
    BY <2>1 DEF Numbered, Formed
  <2>7. Apart(2, s)
    BY <2>2 DEF Apart
  <2>8. Kept(2, s)
    BY <2>3, <2>4 DEF Kept
  <2> QED
    BY <2>5, <2>6, <2>7, <2>8 DEF ComponentFits
<1>3. ComponentFits(3, Components[3])
  <2> DEFINE s == CommentComponent
  <2>1. DOMAIN s = 1..1 /\ \A i \in DOMAIN s : s[i] = R(s[i].class, s[i].name)
    BY DEF CommentComponent, R
  <2>2. \A j \in 1..(3 - 1) : \A i \in DOMAIN s : s[i].name \notin Own[j]
    BY DEF CommentComponent, R, Own
  <2>3. \A i, l \in DOMAIN s : i < l => s[i].name # s[l].name
    BY DEF CommentComponent, R
  <2>4. \A i \in DOMAIN s : s[i].class \in Lost \/ \E j \in DOMAIN s : s[j].class = s[i].class /\ s[j].name \in Own[3]
    BY DEF CommentComponent, R, Own, Lost
  <2>5. Components[3] = s
    BY DEF Components
  <2> HIDE DEF s
  <2>6. Numbered(s) /\ Formed(s)
    BY <2>1 DEF Numbered, Formed
  <2>7. Apart(3, s)
    BY <2>2 DEF Apart
  <2>8. Kept(3, s)
    BY <2>3, <2>4 DEF Kept
  <2> QED
    BY <2>5, <2>6, <2>7, <2>8 DEF ComponentFits
<1>4. ComponentFits(4, Components[4])
  <2> DEFINE s == Cpp23Component
  <2>1. DOMAIN s = 1..13 /\ \A i \in DOMAIN s : s[i] = R(s[i].class, s[i].name)
    BY DEF Cpp23Component, R
  <2>2. \A j \in 1..(4 - 1) : \A i \in DOMAIN s : s[i].name \notin Own[j]
    BY DEF Cpp23Component, R, Own
  <2>3. \A i, l \in DOMAIN s : 4 < i /\ i < l => s[i].name # s[l].name
    BY DEF Cpp23Component, R
  <2>4. \A i \in DOMAIN s : s[i].class \in Lost \/ (4 < i /\ s[i].name \in Own[4])
    <3>1. \A i \in DOMAIN s : i <= 4 => s[i].class \in Lost
      BY DEF Cpp23Component, R, Lost
    <3>2. \A i \in DOMAIN s : i > 4 => s[i].name \in Own[4]
      BY DEF Cpp23Component, R, Own
    <3> HIDE DEF s
    <3> QED
      BY <2>1, <3>1, <3>2
  <2>5. Components[4] = s
    BY DEF Components
  <2> HIDE DEF s
  <2>6. Numbered(s) /\ Formed(s)
    BY <2>1 DEF Numbered, Formed
  <2>7. Apart(4, s)
    BY <2>2 DEF Apart
  <2>8. Kept(4, s)
    BY <2>3, <2>4 DEF Kept
  <2> QED
    BY <2>5, <2>6, <2>7, <2>8 DEF ComponentFits
<1>5. ComponentFits(5, Components[5])
  <2> DEFINE s == ExpressionComponent
  <2>1. DOMAIN s = 1..2 /\ \A i \in DOMAIN s : s[i] = R(s[i].class, s[i].name)
    BY DEF ExpressionComponent, R
  <2>2. \A j \in 1..(5 - 1) : \A i \in DOMAIN s : s[i].name \notin Own[j]
    BY DEF ExpressionComponent, R, Own
  <2>3. \A i, l \in DOMAIN s : i < l => s[i].name # s[l].name
    BY DEF ExpressionComponent, R
  <2>4. \A i \in DOMAIN s : s[i].class \in Lost \/ \E j \in DOMAIN s : s[j].class = s[i].class /\ s[j].name \in Own[5]
    BY DEF ExpressionComponent, R, Own, Lost
  <2>5. Components[5] = s
    BY DEF Components
  <2> HIDE DEF s
  <2>6. Numbered(s) /\ Formed(s)
    BY <2>1 DEF Numbered, Formed
  <2>7. Apart(5, s)
    BY <2>2 DEF Apart
  <2>8. Kept(5, s)
    BY <2>3, <2>4 DEF Kept
  <2> QED
    BY <2>5, <2>6, <2>7, <2>8 DEF ComponentFits
<1>6. ComponentFits(6, Components[6])
  <2> DEFINE s == FunctionComponent
  <2>1. DOMAIN s = 1..1 /\ \A i \in DOMAIN s : s[i] = R(s[i].class, s[i].name)
    BY DEF FunctionComponent, R
  <2>2. \A j \in 1..(6 - 1) : \A i \in DOMAIN s : s[i].name \notin Own[j]
    BY DEF FunctionComponent, R, Own
  <2>3. \A i, l \in DOMAIN s : i < l => s[i].name # s[l].name
    BY DEF FunctionComponent, R
  <2>4. \A i \in DOMAIN s : s[i].class \in Lost \/ \E j \in DOMAIN s : s[j].class = s[i].class /\ s[j].name \in Own[6]
    BY DEF FunctionComponent, R, Own, Lost
  <2>5. Components[6] = s
    BY DEF Components
  <2> HIDE DEF s
  <2>6. Numbered(s) /\ Formed(s)
    BY <2>1 DEF Numbered, Formed
  <2>7. Apart(6, s)
    BY <2>2 DEF Apart
  <2>8. Kept(6, s)
    BY <2>3, <2>4 DEF Kept
  <2> QED
    BY <2>5, <2>6, <2>7, <2>8 DEF ComponentFits
<1>7. ComponentFits(7, Components[7])
  <2> DEFINE s == LiteralComponent
  <2>1. DOMAIN s = 1..1 /\ \A i \in DOMAIN s : s[i] = R(s[i].class, s[i].name)
    BY DEF LiteralComponent, R
  <2>2. \A j \in 1..(7 - 1) : \A i \in DOMAIN s : s[i].name \notin Own[j]
    BY DEF LiteralComponent, R, Own
  <2>3. \A i, l \in DOMAIN s : i < l => s[i].name # s[l].name
    BY DEF LiteralComponent, R
  <2>4. \A i \in DOMAIN s : s[i].class \in Lost \/ \E j \in DOMAIN s : s[j].class = s[i].class /\ s[j].name \in Own[7]
    BY DEF LiteralComponent, R, Own, Lost
  <2>5. Components[7] = s
    BY DEF Components
  <2> HIDE DEF s
  <2>6. Numbered(s) /\ Formed(s)
    BY <2>1 DEF Numbered, Formed
  <2>7. Apart(7, s)
    BY <2>2 DEF Apart
  <2>8. Kept(7, s)
    BY <2>3, <2>4 DEF Kept
  <2> QED
    BY <2>5, <2>6, <2>7, <2>8 DEF ComponentFits
<1>8. ComponentFits(8, Components[8])
  <2> DEFINE s == OperatorComponent
  <2>1. DOMAIN s = 1..1 /\ \A i \in DOMAIN s : s[i] = R(s[i].class, s[i].name)
    BY DEF OperatorComponent, R
  <2>2. \A j \in 1..(8 - 1) : \A i \in DOMAIN s : s[i].name \notin Own[j]
    BY DEF OperatorComponent, R, Own
  <2>3. \A i, l \in DOMAIN s : i < l => s[i].name # s[l].name
    BY DEF OperatorComponent, R
  <2>4. \A i \in DOMAIN s : s[i].class \in Lost \/ \E j \in DOMAIN s : s[j].class = s[i].class /\ s[j].name \in Own[8]
    BY DEF OperatorComponent, R, Own, Lost
  <2>5. Components[8] = s
    BY DEF Components
  <2> HIDE DEF s
  <2>6. Numbered(s) /\ Formed(s)
    BY <2>1 DEF Numbered, Formed
  <2>7. Apart(8, s)
    BY <2>2 DEF Apart
  <2>8. Kept(8, s)
    BY <2>3, <2>4 DEF Kept
  <2> QED
    BY <2>5, <2>6, <2>7, <2>8 DEF ComponentFits
<1>9. ComponentFits(9, Components[9])
  <2> DEFINE s == PointerComponent
  <2>1. DOMAIN s = 1..1 /\ \A i \in DOMAIN s : s[i] = R(s[i].class, s[i].name)
    BY DEF PointerComponent, R
  <2>2. \A j \in 1..(9 - 1) : \A i \in DOMAIN s : s[i].name \notin Own[j]
    BY DEF PointerComponent, R, Own
  <2>3. \A i, l \in DOMAIN s : i < l => s[i].name # s[l].name
    BY DEF PointerComponent, R
  <2>4. \A i \in DOMAIN s : s[i].class \in Lost \/ \E j \in DOMAIN s : s[j].class = s[i].class /\ s[j].name \in Own[9]
    BY DEF PointerComponent, R, Own, Lost
  <2>5. Components[9] = s
    BY DEF Components
  <2> HIDE DEF s
  <2>6. Numbered(s) /\ Formed(s)
    BY <2>1 DEF Numbered, Formed
  <2>7. Apart(9, s)
    BY <2>2 DEF Apart
  <2>8. Kept(9, s)
    BY <2>3, <2>4 DEF Kept
  <2> QED
    BY <2>5, <2>6, <2>7, <2>8 DEF ComponentFits
<1>10. ComponentFits(10, Components[10])
  <2> DEFINE s == PreprocessorComponent
  <2>1. DOMAIN s = 1..2 /\ \A i \in DOMAIN s : s[i] = R(s[i].class, s[i].name)
    BY DEF PreprocessorComponent, R
  <2>2. \A j \in 1..(10 - 1) : \A i \in DOMAIN s : s[i].name \notin Own[j]
    BY DEF PreprocessorComponent, R, Own
  <2>3. \A i, l \in DOMAIN s : i < l => s[i].name # s[l].name
    BY DEF PreprocessorComponent, R
  <2>4. \A i \in DOMAIN s : s[i].class \in Lost \/ \E j \in DOMAIN s : s[j].class = s[i].class /\ s[j].name \in Own[10]
    BY DEF PreprocessorComponent, R, Own, Lost
  <2>5. Components[10] = s
    BY DEF Components
  <2> HIDE DEF s
  <2>6. Numbered(s) /\ Formed(s)
    BY <2>1 DEF Numbered, Formed
  <2>7. Apart(10, s)
    BY <2>2 DEF Apart
  <2>8. Kept(10, s)
    BY <2>3, <2>4 DEF Kept
  <2> QED
    BY <2>5, <2>6, <2>7, <2>8 DEF ComponentFits
<1>11. ComponentFits(11, Components[11])
  <2> DEFINE s == ReturnComponent
  <2>1. DOMAIN s = 1..1 /\ \A i \in DOMAIN s : s[i] = R(s[i].class, s[i].name)
    BY DEF ReturnComponent, R
  <2>2. \A j \in 1..(11 - 1) : \A i \in DOMAIN s : s[i].name \notin Own[j]
    BY DEF ReturnComponent, R, Own
  <2>3. \A i, l \in DOMAIN s : i < l => s[i].name # s[l].name
    BY DEF ReturnComponent, R
  <2>4. \A i \in DOMAIN s : s[i].class \in Lost \/ \E j \in DOMAIN s : s[j].class = s[i].class /\ s[j].name \in Own[11]
    BY DEF ReturnComponent, R, Own, Lost
  <2>5. Components[11] = s
    BY DEF Components
  <2> HIDE DEF s
  <2>6. Numbered(s) /\ Formed(s)
    BY <2>1 DEF Numbered, Formed
  <2>7. Apart(11, s)
    BY <2>2 DEF Apart
  <2>8. Kept(11, s)
    BY <2>3, <2>4 DEF Kept
  <2> QED
    BY <2>5, <2>6, <2>7, <2>8 DEF ComponentFits
<1>12. ComponentFits(12, Components[12])
  <2> DEFINE s == StatementComponent
  <2>1. DOMAIN s = 1..4 /\ \A i \in DOMAIN s : s[i] = R(s[i].class, s[i].name)
    BY DEF StatementComponent, R
  <2>2. \A j \in 1..(12 - 1) : \A i \in DOMAIN s : s[i].name \notin Own[j]
    BY DEF StatementComponent, R, Own
  <2>3. \A i, l \in DOMAIN s : i < l => s[i].name # s[l].name
    BY DEF StatementComponent, R
  <2>4. \A i \in DOMAIN s : s[i].class \in Lost \/ \E j \in DOMAIN s : s[j].class = s[i].class /\ s[j].name \in Own[12]
    BY DEF StatementComponent, R, Own, Lost
  <2>5. Components[12] = s
    BY DEF Components
  <2> HIDE DEF s
  <2>6. Numbered(s) /\ Formed(s)
    BY <2>1 DEF Numbered, Formed
  <2>7. Apart(12, s)
    BY <2>2 DEF Apart
  <2>8. Kept(12, s)
    BY <2>3, <2>4 DEF Kept
  <2> QED
    BY <2>5, <2>6, <2>7, <2>8 DEF ComponentFits
<1>13. ComponentFits(13, Components[13])
  <2> DEFINE s == StdlibComponent
  <2>1. DOMAIN s = 1..4 /\ \A i \in DOMAIN s : s[i] = R(s[i].class, s[i].name)
    BY DEF StdlibComponent, R
  <2>2. \A j \in 1..(13 - 1) : \A i \in DOMAIN s : s[i].name \notin Own[j]
    BY DEF StdlibComponent, R, Own
  <2>3. \A i, l \in DOMAIN s : i < l => s[i].name # s[l].name
    BY DEF StdlibComponent, R
  <2>4. \A i \in DOMAIN s : s[i].class \in Lost \/ \E j \in DOMAIN s : s[j].class = s[i].class /\ s[j].name \in Own[13]
    BY DEF StdlibComponent, R, Own, Lost
  <2>5. Components[13] = s
    BY DEF Components
  <2> HIDE DEF s
  <2>6. Numbered(s) /\ Formed(s)
    BY <2>1 DEF Numbered, Formed
  <2>7. Apart(13, s)
    BY <2>2 DEF Apart
  <2>8. Kept(13, s)
    BY <2>3, <2>4 DEF Kept
  <2> QED
    BY <2>5, <2>6, <2>7, <2>8 DEF ComponentFits
<1>14. ComponentFits(14, Components[14])
  <2> DEFINE s == StorageComponent
  <2>1. DOMAIN s = 1..2 /\ \A i \in DOMAIN s : s[i] = R(s[i].class, s[i].name)
    BY DEF StorageComponent, R
  <2>2. \A j \in 1..(14 - 1) : \A i \in DOMAIN s : s[i].name \notin Own[j]
    BY DEF StorageComponent, R, Own
  <2>3. \A i, l \in DOMAIN s : i < l => s[i].name # s[l].name
    BY DEF StorageComponent, R
  <2>4. \A i \in DOMAIN s : s[i].class \in Lost \/ \E j \in DOMAIN s : s[j].class = s[i].class /\ s[j].name \in Own[14]
    BY DEF StorageComponent, R, Own, Lost
  <2>5. Components[14] = s
    BY DEF Components
  <2> HIDE DEF s
  <2>6. Numbered(s) /\ Formed(s)
    BY <2>1 DEF Numbered, Formed
  <2>7. Apart(14, s)
    BY <2>2 DEF Apart
  <2>8. Kept(14, s)
    BY <2>3, <2>4 DEF Kept
  <2> QED
    BY <2>5, <2>6, <2>7, <2>8 DEF ComponentFits
<1>15. ComponentFits(15, Components[15])
  <2> DEFINE s == TypeComponent
  <2>1. DOMAIN s = 1..1 /\ \A i \in DOMAIN s : s[i] = R(s[i].class, s[i].name)
    BY DEF TypeComponent, R
  <2>2. \A j \in 1..(15 - 1) : \A i \in DOMAIN s : s[i].name \notin Own[j]
    BY DEF TypeComponent, R, Own
  <2>3. \A i, l \in DOMAIN s : i < l => s[i].name # s[l].name
    BY DEF TypeComponent, R
  <2>4. \A i \in DOMAIN s : s[i].class \in Lost \/ \E j \in DOMAIN s : s[j].class = s[i].class /\ s[j].name \in Own[15]
    BY DEF TypeComponent, R, Own, Lost
  <2>5. Components[15] = s
    BY DEF Components
  <2> HIDE DEF s
  <2>6. Numbered(s) /\ Formed(s)
    BY <2>1 DEF Numbered, Formed
  <2>7. Apart(15, s)
    BY <2>2 DEF Apart
  <2>8. Kept(15, s)
    BY <2>3, <2>4 DEF Kept
  <2> QED
    BY <2>5, <2>6, <2>7, <2>8 DEF ComponentFits
<1>16. ComponentFits(16, Components[16])
  <2> DEFINE s == AutomotiveModule
  <2>1. DOMAIN s = 1..2 /\ \A i \in DOMAIN s : s[i] = R(s[i].class, s[i].name)
    BY DEF AutomotiveModule, R
  <2>2. \A j \in 1..(16 - 1) : \A i \in DOMAIN s : s[i].name \notin Own[j]
    BY DEF AutomotiveModule, R, Own
  <2>3. \A i, l \in DOMAIN s : i < l => s[i].name # s[l].name
    BY DEF AutomotiveModule, R
  <2>4. \A i \in DOMAIN s : s[i].class \in Lost \/ \E j \in DOMAIN s : s[j].class = s[i].class /\ s[j].name \in Own[16]
    BY DEF AutomotiveModule, R, Own, Lost
  <2>5. Components[16] = s
    BY DEF Components
  <2> HIDE DEF s
  <2>6. Numbered(s) /\ Formed(s)
    BY <2>1 DEF Numbered, Formed
  <2>7. Apart(16, s)
    BY <2>2 DEF Apart
  <2>8. Kept(16, s)
    BY <2>3, <2>4 DEF Kept
  <2> QED
    BY <2>5, <2>6, <2>7, <2>8 DEF ComponentFits
<1>17. ComponentFits(17, Components[17])
  <2> DEFINE s == UnusedCodeModule
  <2>1. DOMAIN s = 1..2 /\ \A i \in DOMAIN s : s[i] = R(s[i].class, s[i].name)
    BY DEF UnusedCodeModule, R
  <2>2. \A j \in 1..(17 - 1) : \A i \in DOMAIN s : s[i].name \notin Own[j]
    BY DEF UnusedCodeModule, R, Own
  <2>3. \A i, l \in DOMAIN s : i < l => s[i].name # s[l].name
    BY DEF UnusedCodeModule, R
  <2>4. \A i \in DOMAIN s : s[i].class \in Lost \/ \E j \in DOMAIN s : s[j].class = s[i].class /\ s[j].name \in Own[17]
    BY DEF UnusedCodeModule, R, Own, Lost
  <2>5. Components[17] = s
    BY DEF Components
  <2> HIDE DEF s
  <2>6. Numbered(s) /\ Formed(s)
    BY <2>1 DEF Numbered, Formed
  <2>7. Apart(17, s)
    BY <2>2 DEF Apart
  <2>8. Kept(17, s)
    BY <2>3, <2>4 DEF Kept
  <2> QED
    BY <2>5, <2>6, <2>7, <2>8 DEF ComponentFits
<1>18. ASSUME NEW k \in 1..17 PROVE \/ k = 1 \/ k = 2 \/ k = 3 \/ k = 4 \/ k = 5 \/ k = 6 \/ k = 7 \/ k = 8 \/ k = 9 \/ k = 10 \/ k = 11 \/ k = 12 \/ k = 13 \/ k = 14 \/ k = 15 \/ k = 16 \/ k = 17
  OBVIOUS
<1> QED
  BY <1>0, <1>1, <1>2, <1>3, <1>4, <1>5, <1>6, <1>7, <1>8, <1>9, <1>10, <1>11, <1>12, <1>13, <1>14, <1>15, <1>16, <1>17, <1>18

\* Of two places one is later.
LEMMA PlacesOrdered ==
  \A p, q \in Places : p = q \/ IsLater(p, q) \/ IsLater(q, p)
<1>1. \A p \in Places : \E k \in 1..17, i \in Nat : p = <<k, i>>
  <2>1. SUFFICES ASSUME NEW k \in 1..17, NEW i \in DOMAIN Components[k] PROVE i \in Nat
    BY ComponentsFit DEF Places
  <2>2. PICK n \in Nat : DOMAIN Components[k] = 1..n
    BY ComponentsFit DEF ComponentFits, Numbered
  <2> QED
    BY <2>2
<1> QED
  BY <1>1 DEF IsLater

LEMMA PlaceIs ==
  \A p \in Places : /\ p[1] \in 1..17 /\ p[2] \in DOMAIN Components[p[1]] /\ p = <<p[1], p[2]>>
                    /\ Registration(p) = R(Registration(p).class, Registration(p).name)
<1>1. SUFFICES ASSUME NEW k \in 1..17, NEW i \in DOMAIN Components[k]
               PROVE  Components[k][i] = R(Components[k][i].class, Components[k][i].name)
  BY ComponentsFit DEF Places, Registration
<1> QED
  BY ComponentsFit DEF ComponentFits, Formed

\* A class that is not lost lasts under one of its names.
LEMMA ClassLasts ==
  ASSUME NEW c \in Classes \ Lost
  PROVE  \E r \in Lasting : r.class = c
<1>1. PICK p \in Places : Registration(p).class = c
  BY DEF Classes, Registrations
<1>2. p[1] \in 1..17 /\ p[2] \in DOMAIN Components[p[1]]
  BY PlaceIs
<1> DEFINE k == p[1]
           s == Components[k]
<1>3. Kept(k, s)
  BY <1>2, ComponentsFit DEF ComponentFits
<1>4. PICK j \in DOMAIN s : /\ s[j].class = c /\ s[j].name \in Own[k]
                            /\ \A l \in DOMAIN s : j < l => s[j].name # s[l].name
  BY <1>1, <1>2, <1>3 DEF Kept, Registration
<1> DEFINE w == <<k, j>>
<1>5. w \in Places /\ Registration(w) = s[j]
  BY <1>2, <1>4, ComponentsFit DEF Places, Registration
<1>6. ASSUME NEW q \in Places, IsLater(q, w), Registration(q).name = s[j].name PROVE FALSE
  <2>1. q[1] \in 1..17 /\ q[2] \in DOMAIN Components[q[1]]
    BY PlaceIs
  <2>2. CASE q[1] = k
    BY <1>4, <1>6, <2>1, <2>2 DEF IsLater, Registration
  <2>3. CASE q[1] > k
    <3>1. k \in 1..(q[1] - 1)
      BY <1>2, <2>1, <2>3
    <3>2. Apart(q[1], Components[q[1]])
      BY <2>1, ComponentsFit DEF ComponentFits
    <3> QED
      BY <1>4, <1>6, <2>1, <3>1, <3>2 DEF Apart, Registration
  <2> QED
    BY <1>6, <2>2, <2>3 DEF IsLater
<1>7. ~Replaced(w)
  BY <1>5, <1>6 DEF Replaced
<1> QED
  BY <1>4, <1>5, <1>7 DEF Lasting
-----------------------------------------------------------------------------
\* The registrations so far, the last of each name.
Stands(p) == p[1] <= registered /\ \A q \in Places : q[1] <= registered /\ Registration(q).name = Registration(p).name => ~IsLater(q, p)

RegistryInv ==
  /\ registered \in 0..17
  /\ \A n \in DOMAIN factories : \E p \in Places :
       Stands(p) /\ Registration(p).name = n /\ Registration(p).class = factories[n]
  /\ \A p \in Places : p[1] <= registered => Registration(p).name \in DOMAIN factories
  /\ unit # NoUnit => /\ registered = 17
                      /\ unit.checks = ChecksFor(unit.enabled, unit.lang)
                      /\ unit.checkers = CheckersFor(unit.enabled)

\* A component's registrations replace those of the same names.
LEMMA RegisterStep ==
  ASSUME RegistryInv, AddCheckFactories
  PROVE  RegistryInv'
<1>0. PICK k, s : k = registered + 1 /\ s = Components[k]
  OBVIOUS
<1>1. k \in 1..17 /\ registered \in Nat /\ registered' = k /\ factories' = Register(factories, s) /\ unit' = unit
  BY <1>0, ComponentsFit DEF RegistryInv, AddCheckFactories, Complete
<1>2. PICK n \in Nat : DOMAIN s = 1..n
  BY <1>0, <1>1, ComponentsFit DEF ComponentFits, Numbered
<1>3. \A i \in DOMAIN s : <<k, i>> \in Places /\ Registration(<<k, i>>) = s[i]
  BY <1>0, <1>1, ComponentsFit DEF Places, Registration
<1>4. ASSUME NEW p \in Places, p[1] <= k PROVE p[1] <= registered \/ (p[1] = k /\ p = <<k, p[2]>> /\ p[2] \in DOMAIN s)
  BY <1>0, <1>1, <1>4, PlaceIs
<1>5. DOMAIN factories' = DOMAIN factories \cup NamesIn(s)
  BY <1>1 DEF Register
<1>6. ASSUME NEW m \in NamesIn(s)
      PROVE  \E p \in Places : Stands(p)' /\ Registration(p).name = m /\ Registration(p).class = factories'[m]
  <2>0. PICK G, i : G = Giving(s, m) /\ i = Max(G)
    OBVIOUS
  <2>1. G \subseteq 0..n /\ G # {}
    BY <1>2, <1>6, <2>0 DEF Giving, NamesIn
  <2>2. i \in G /\ \A j \in G : j <= i
    BY <2>0, <2>1, Greatest
  <2>3. factories'[m] = s[i].class
    BY <1>1, <1>6, <2>0 DEF Register
  <2>4. i \in DOMAIN s /\ s[i].name = m /\ i \in Nat
    BY <1>2, <2>0, <2>2 DEF Giving
  <2>5. ASSUME NEW q \in Places, q[1] <= k, Registration(q).name = m PROVE ~IsLater(q, <<k, i>>)
    <3>1. CASE q[1] <= registered
      BY <1>0, <1>1, <3>1, PlaceIs DEF IsLater
    <3>2. CASE q[1] = k /\ q = <<k, q[2]>> /\ q[2] \in DOMAIN s
      <4>1. s[q[2]].name = m
        BY <1>3, <2>5, <3>2
      <4>2. q[2] \in G
        BY <2>0, <3>2, <4>1 DEF Giving
      <4>3. q[2] <= i /\ q[2] \in Nat
        BY <1>2, <2>2, <3>2, <4>2
      <4> QED
        BY <1>1, <2>4, <3>2, <4>3 DEF IsLater
    <3> QED
      BY <1>4, <2>5, <3>1, <3>2
  <2>6. <<k, i>> \in Places /\ Registration(<<k, i>>) = s[i]
    BY <1>3, <2>4
  <2>7. Stands(<<k, i>>)'
    BY <1>1, <2>4, <2>5, <2>6 DEF Stands
  <2> QED
    BY <2>3, <2>4, <2>6, <2>7
<1>7. ASSUME NEW m \in DOMAIN factories, m \notin NamesIn(s)
      PROVE  \E p \in Places : Stands(p)' /\ Registration(p).name = m /\ Registration(p).class = factories'[m]
  <2>1. PICK p \in Places : Stands(p) /\ Registration(p).name = m /\ Registration(p).class = factories[m]
    BY DEF RegistryInv
  <2>2. factories'[m] = factories[m]
    BY <1>1, <1>7 DEF Register
  <2>3. ASSUME NEW q \in Places, q[1] <= k, Registration(q).name = m PROVE q[1] <= registered
    <3>1. ASSUME q = <<k, q[2]>>, q[2] \in DOMAIN s PROVE FALSE
      <4>1. s[q[2]].name = m
        BY <1>3, <2>3, <3>1
      <4> QED
        BY <1>7, <3>1, <4>1 DEF NamesIn
    <3> QED
      BY <1>4, <2>3, <3>1
  <2>4. p[1] \in Nat
    BY PlaceIs
  <2>5. Stands(p)'
    BY <1>0, <1>1, <2>1, <2>3, <2>4 DEF Stands
  <2> QED
    BY <2>1, <2>2, <2>5
<1>8. ASSUME NEW p \in Places, p[1] <= k PROVE Registration(p).name \in DOMAIN factories'
  <2>1. CASE p[1] <= registered
    BY <1>5, <2>1 DEF RegistryInv
  <2>2. CASE p = <<k, p[2]>> /\ p[2] \in DOMAIN s
    <3>1. Registration(p) = s[p[2]]
      BY <1>3, <2>2
    <3> QED
      BY <1>5, <2>2, <3>1 DEF NamesIn
  <2> QED
    BY <1>4, <1>8, <2>1, <2>2
<1>9. unit' = NoUnit
  <2>1. registered # 17
    BY <1>0, <1>1
  <2> QED
    BY <1>1, <2>1 DEF RegistryInv
<1>10. \A m \in DOMAIN factories' : \E p \in Places :
         Stands(p)' /\ Registration(p).name = m /\ Registration(p).class = factories'[m]
  BY <1>5, <1>6, <1>7
<1> QED
  BY <1>1, <1>8, <1>9, <1>10 DEF RegistryInv

LEMMA RegistryStep == RegistryInv /\ [ConfiguredNext]_allVars => RegistryInv'
<1> SUFFICES ASSUME RegistryInv, [ConfiguredNext]_allVars PROVE RegistryInv'
  OBVIOUS
<1>1. ASSUME UNCHANGED registryVars PROVE RegistryInv'
  BY <1>1 DEF registryVars, RegistryInv, Stands, ChecksFor
<1>2. CASE AddCheckFactories
  BY <1>2, RegisterStep
<1>3. CASE Configure
  BY <1>1, <1>3 DEF Configure
<1>4. ASSUME NEW enabled, NEW lang, CreateASTConsumer(enabled, lang) PROVE RegistryInv'
  <2>1. UNCHANGED <<registered, factories>> /\ registered = 17
    BY <1>4, ComponentsFit DEF CreateASTConsumer, Complete
  <2>2. /\ unit'.checks = ChecksFor(enabled, lang) /\ unit'.checkers = CheckersFor(enabled)
        /\ unit'.enabled = enabled /\ unit'.lang = lang
    BY <1>4 DEF CreateASTConsumer
  <2>3. \A e, l : ChecksFor(e, l)' = ChecksFor(e, l)
    BY <2>1 DEF ChecksFor
  <2> QED
    BY <2>1, <2>2, <2>3 DEF RegistryInv, Stands
<1>5. CASE EndUnit
  BY <1>5 DEF EndUnit, RegistryInv, Stands
<1>6. CASE UNCHANGED allVars
  BY <1>1, <1>6 DEF allVars
<1> QED
  BY <1>2, <1>3, <1>4, <1>5, <1>6 DEF ConfiguredNext, CreateUnit

\* When all are registered, the table holds those that last.
LEMMA FactoriesLast ==
  ASSUME RegistryInv, registered = 17
  PROVE  /\ \A n \in DOMAIN factories : R(factories[n], n) \in Lasting
         /\ \A r \in Lasting : r.name \in DOMAIN factories /\ factories[r.name] = r.class /\ r = R(r.class, r.name)
<1>1. \A p \in Places : p[1] <= registered
  BY PlaceIs
<1>2. \A p \in Places : Stands(p) <=> ~Replaced(p)
  BY <1>1 DEF Stands, Replaced
<1>3. ASSUME NEW n \in DOMAIN factories PROVE R(factories[n], n) \in Lasting
  <2>1. PICK p \in Places : Stands(p) /\ Registration(p).name = n /\ Registration(p).class = factories[n]
    BY DEF RegistryInv
  <2>2. Registration(p) = R(factories[n], n)
    BY <2>1, PlaceIs
  <2> QED
    BY <1>2, <2>1, <2>2 DEF Lasting
<1>4. ASSUME NEW r \in Lasting
      PROVE  r.name \in DOMAIN factories /\ factories[r.name] = r.class /\ r = R(r.class, r.name)
  <2>1. PICK p \in Places : ~Replaced(p) /\ r = Registration(p)
    BY DEF Lasting
  <2>2. r.name \in DOMAIN factories
    BY <1>1, <2>1 DEF RegistryInv
  <2>3. PICK q \in Places : Stands(q) /\ Registration(q).name = r.name /\ Registration(q).class = factories[r.name]
    BY <2>2 DEF RegistryInv
  <2>4. ~IsLater(q, p) /\ ~IsLater(p, q)
    BY <1>1, <2>1, <2>3 DEF Stands, Replaced
  <2>5. p = q
    BY <2>4, PlacesOrdered
  <2> QED
    BY <2>1, <2>2, <2>3, <2>5, PlaceIs
<1> QED
  BY <1>3, <1>4

LEMMA UnitJudged == RegistryInv => ChecksJudged
<1> SUFFICES ASSUME RegistryInv, unit # NoUnit PROVE ChecksJudged
  BY DEF ChecksJudged
<1> DEFINE E == unit.enabled
           L == unit.lang
<1>1. registered = 17 /\ unit.checks = ChecksFor(E, L) /\ unit.checkers = CheckersFor(E)
  BY DEF RegistryInv
<1>2. /\ \A n \in DOMAIN factories : R(factories[n], n) \in Lasting
      /\ \A r \in Lasting : r.name \in DOMAIN factories /\ factories[r.name] = r.class /\ r = R(r.class, r.name)
  BY <1>1, FactoriesLast
<1>3. \A n, c : R(c, n).name = n /\ R(c, n).class = c /\ R(c, n) = [name |-> n, class |-> c]
  BY DEF R
<1> HIDE DEF E, L
<1>4. unit.checks = {R(factories[n], n) : n \in {m \in DOMAIN factories \cap E : Supports(factories[m], L)}}
  BY <1>1, <1>3 DEF ChecksFor
<1>5. unit.checks = {r \in Lasting : r.name \in E /\ Supports(r.class, L)}
  <2>1. ASSUME NEW r \in unit.checks PROVE r \in Lasting /\ r.name \in E /\ Supports(r.class, L)
    <3>1. PICK n \in DOMAIN factories \cap E : Supports(factories[n], L) /\ r = R(factories[n], n)
      BY <1>4
    <3> QED
      BY <1>2, <1>3, <3>1
  <2>2. ASSUME NEW r \in Lasting, r.name \in E, Supports(r.class, L) PROVE r \in unit.checks
    <3>1. r.name \in DOMAIN factories /\ factories[r.name] = r.class /\ r = R(factories[r.name], r.name)
      BY <1>2
    <3>2. r.name \in {m \in DOMAIN factories \cap E : Supports(factories[m], L)}
      BY <2>2, <3>1
    <3> QED
      BY <1>4, <3>1, <3>2
  <2> QED
    BY <2>1, <2>2
<1>6. ASSUME NEW c \in Classes \ Lost, NamesOf(c) \subseteq E, Supports(c, L)
      PROVE  \E r \in unit.checks : r.class = c
  <2>1. PICK r \in Lasting : r.class = c
    BY ClassLasts
  <2>2. r \in Registrations
    BY DEF Lasting, Registrations
  <2>3. r.name \in NamesOf(c)
    BY <2>1, <2>2 DEF NamesOf
  <2> QED
    BY <1>5, <1>6, <2>1, <2>3
<1>7. unit.checkers = IF Checkers \cap E = {} THEN {} ELSE Core \cup (Checkers \cap E)
  BY <1>1 DEF CheckersFor, E
<1>8. unit.checkers \subseteq Checkers
  BY <1>7, CheckersAssumption
<1>9. \A n \in DOMAIN factories : n \notin Checkers
  <2>1. ASSUME NEW n \in DOMAIN factories PROVE n \notin Checkers
    <3>1. R(factories[n], n) \in Registrations
      BY <1>2 DEF Lasting, Registrations
    <3> QED
      BY <1>3, <3>1, CheckersAssumption
  <2> QED
    BY <2>1
<1>10. CheckNames(E) \ unit.checkers = DOMAIN factories \cap E
  <2>1. CheckNames(E) = (DOMAIN factories \cap E) \cup unit.checkers
    BY <1>1 DEF CheckNames, E
  <2> QED
    BY <1>8, <1>9, <2>1
<1>11. {r.name : r \in unit.checks} = {n \in DOMAIN factories \cap E : Supports(factories[n], L)}
  <2>1. ASSUME NEW n \in DOMAIN factories \cap E, Supports(factories[n], L)
        PROVE  n \in {r.name : r \in unit.checks}
    BY <1>3, <1>4, <2>1
  <2>2. ASSUME NEW r \in unit.checks PROVE r.name \in DOMAIN factories \cap E /\ Supports(factories[r.name], L)
    BY <1>2, <1>5, <2>2
  <2> QED
    BY <2>1, <2>2
<1>12. CheckNames(E) \ unit.checkers =
         {r.name : r \in unit.checks} \cup {n \in DOMAIN factories \cap E : ~Supports(factories[n], L)}
  BY <1>10, <1>11
<1>13. unit.checkers # {} => Core \subseteq unit.checkers /\ unit.checkers \cap E # {}
  BY <1>7
<1> QED
  BY <1>5, <1>6, <1>12, <1>13 DEF ChecksJudged, E, L
-----------------------------------------------------------------------------
\* Together with the registry the lookups do what they do alone.
LEMMA ConfiguredStep == [ConfiguredNext]_allVars => [Next]_vars
BY DEF ConfiguredNext, Configure, CreateUnit, allVars

THEOREM LookupsAsAlone == ConfiguredSpec => Spec
<1>1. ConfiguredInit => Init
  BY DEF ConfiguredInit
<1> QED
  BY <1>1, ConfiguredStep, PTL DEF ConfiguredSpec, Spec

\* The checks of a unit are those registered last under the names that its configuration
\* enables; a class with another name than those it has lost runs.
THEOREM ChecksRight == ConfiguredSpec => []ChecksJudged
<1>1. ConfiguredInit => RegistryInv
  BY PlaceIs DEF ConfiguredInit, RegistryInit, RegistryInv
<1> QED
  BY <1>1, RegistryStep, UnitJudged, PTL DEF ConfiguredSpec
=============================================================================
