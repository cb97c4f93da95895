------------------------ MODULE SymbolDatabaseProofs ------------------------
(***************************************************************************)
(* Theorems about SymbolDatabase, for any number of overlapping, failing   *)
(* and dying runs over any translation units; then about the declarations  *)
(* of one of them (FileDeclarations), however many there are; and about    *)
(* the scopes of one of them (NameScopes), however they are nested.        *)
(***************************************************************************)
EXTENDS SymbolDatabase, FileDeclarations, NameScopes, SequenceTheorems,
        FiniteSetTheorems, WellFoundedInduction, TLAPS

-----------------------------------------------------------------------------
\* A run between StartUnit and NextUnit is at one of its units, and at most one
\* place behind the last declaration of it.
InUnit ==
  \A r \in Runs : pc[r] \in {"match", "write"} =>
    unit[r] <= Len(units[r]) /\ decl[r] <= Len(Unit(r)) + 1

TypeInv == TypeOK /\ InUnit

\* The unit a run is at.
LEMMA CurrentUnit ==
  ASSUME TypeInv, NEW r \in Runs, unit[r] <= Len(units[r])
  PROVE  /\ units[r][unit[r]] \in DOMAIN Decls
         /\ Unit(r) \in Seq(AllDecls)
         /\ Len(Unit(r)) \in Nat
<1>1. units[r] \in Seq(DOMAIN Decls) /\ unit[r] \in Nat \ {0} BY DEF TypeInv, TypeOK
<1>2. units[r][unit[r]] \in DOMAIN Decls BY <1>1, ElementOfSeq
<1>3. Unit(r) \in Seq(AllDecls) BY <1>2, DeclsAssumption DEF Unit
<1> QED BY <1>2, <1>3, LenProperties

\* The declaration a run is at.
LEMMA CurrentDecl ==
  ASSUME TypeInv, NEW r \in Runs, pc[r] = "match", decl[r] <= Len(Unit(r))
  PROVE  Unit(r)[decl[r]] \in AllDecls /\ decl[r] \in 1..Len(Unit(r))
<1>1. unit[r] <= Len(units[r]) BY DEF TypeInv, InUnit
<1>2. Unit(r) \in Seq(AllDecls) /\ Len(Unit(r)) \in Nat BY <1>1, CurrentUnit
<1>3. decl[r] \in 1..Len(Unit(r)) BY <1>2 DEF TypeInv, TypeOK
<1> QED BY <1>2, <1>3, ElementOfSeq

\* Gathering takes symbols only, and none at a place that is taken.
LEMMA Gathering ==
  ASSUME NEW s \in Seq(Symbol), NEW d \in AllDecls
  PROVE  /\ Gather(s, d) \in Seq(Symbol)
         /\ Distinct(s) => Distinct(Gather(s, d))
         /\ Keys(Gather(s, d)) = Keys(s) \cup (IF d.ignored THEN {} ELSE {Key(d)})
<1>1. CASE d.ignored
  BY <1>1 DEF Gather
<1>2. CASE ~d.ignored /\ Key(d) \in Keys(s)
  BY <1>2 DEF Gather
<1>3. CASE ~d.ignored /\ Key(d) \notin Keys(s)
  <2>1. Gather(s, d) = Append(s, d) BY <1>3 DEF Gather
  <2>2. d \in Symbol BY <1>3 DEF Symbol
  <2>3. /\ Append(s, d) \in Seq(Symbol)
        /\ Len(Append(s, d)) = Len(s) + 1
        /\ \A i \in 1..Len(s) : Append(s, d)[i] = s[i]
        /\ Append(s, d)[Len(s) + 1] = d
    BY <2>2, AppendProperties
  <2>4. DOMAIN s = 1..Len(s) /\ Len(s) \in Nat BY LenProperties
  <2>5. DOMAIN Append(s, d) = 1..(Len(s) + 1) BY <2>3, LenProperties
  <2>6. ASSUME Distinct(s) PROVE Distinct(Append(s, d))
    <3> SUFFICES ASSUME NEW i \in 1..(Len(s) + 1), NEW j \in 1..(Len(s) + 1),
                        Key(Append(s, d)[i]) = Key(Append(s, d)[j])
                 PROVE  i = j
      BY <2>5 DEF Distinct
    <3>1. CASE i \in 1..Len(s) /\ j \in 1..Len(s)
      BY <3>1, <2>3, <2>4, <2>6 DEF Distinct
    <3>2. \A m \in 1..Len(s) : Key(Append(s, d)[m]) # Key(d)
      BY <1>3, <2>3, <2>4 DEF Keys
    <3>3. CASE i = Len(s) + 1 \/ j = Len(s) + 1
      BY <3>2, <3>3, <2>3, <2>4
    <3> QED BY <3>1, <3>3, <2>4
  <2>7. Keys(Append(s, d)) = Keys(s) \cup {Key(d)}
    <3>1. Keys(Append(s, d)) = {Key(Append(s, d)[i]) : i \in 1..(Len(s) + 1)}
      BY <2>5 DEF Keys
    <3>2. 1..(Len(s) + 1) = 1..Len(s) \cup {Len(s) + 1} BY <2>4
    <3>3. {Key(Append(s, d)[i]) : i \in 1..Len(s)} = Keys(s) BY <2>3, <2>4 DEF Keys
    <3> QED BY <3>1, <3>2, <3>3, <2>3
  <2> QED BY <1>3, <2>1, <2>3, <2>6, <2>7
<1> QED BY <1>1, <1>2, <1>3

LEMMA Emptiness ==
  <<>> \in Seq(Symbol) /\ Distinct(<<>>) /\ Keys(<<>>) = {}
BY DEF Distinct, Keys

-----------------------------------------------------------------------------
LEMMA TypeInit == Init => TypeInv
<1> SUFFICES ASSUME Init PROVE TypeInv OBVIOUS
<1>1. units \in [Runs -> Seq(DOMAIN Decls)] BY RunsAssumption DEF Init
<1> QED BY <1>1, Emptiness DEF Init, TypeInv, TypeOK, InUnit, Blank

\* Going to the next unit.
LEMMA Advance ==
  ASSUME TypeInv, NEW r \in Runs, NextUnit(r), UNCHANGED <<units, decl>>
  PROVE  /\ pc' \in [Runs -> {"start", "match", "write", "ended"}]
         /\ unit' \in [Runs -> Nat \ {0}]
         /\ InUnit'
<1>1. /\ pc' \in [Runs -> {"start", "match", "write", "ended"}]
      /\ unit' \in [Runs -> Nat \ {0}]
  BY DEF NextUnit, TypeInv, TypeOK
<1>2. ASSUME NEW q \in Runs, pc'[q] \in {"match", "write"}
      PROVE  unit'[q] <= Len(units'[q]) /\ decl'[q] <= Len(Unit(q)') + 1
  <2>1. q # r /\ pc'[q] = pc[q] /\ unit'[q] = unit[q]
    BY <1>2 DEF NextUnit, TypeInv, TypeOK
  <2>2. Unit(q)' = Unit(q) BY <2>1 DEF Unit
  <2> QED BY <1>2, <2>1, <2>2 DEF TypeInv, InUnit
<1> QED BY <1>1, <1>2 DEF InUnit

\* Every step keeps the types, whichever run takes it.
LEMMA TypeNext == TypeInv /\ [Next]_vars => TypeInv'
<1> SUFFICES ASSUME TypeInv, [Next]_vars PROVE TypeInv' OBVIOUS
<1> USE DEF TypeInv, TypeOK
<1>1. ASSUME NEW r \in Runs, StartUnit(r) PROVE TypeInv'
  <2>1. collected' \in [Runs -> Seq(Symbol)]
    BY <1>1, Emptiness DEF StartUnit, Load
  <2>2. Len(Unit(r)) \in Nat BY <1>1, CurrentUnit DEF StartUnit
  <2>3. InUnit' BY <1>1, <2>2 DEF StartUnit, InUnit, Unit
  <2> QED BY <1>1, <2>1, <2>3 DEF StartUnit
<1>2. ASSUME NEW r \in Runs, Match(r) PROVE TypeInv'
  <2> DEFINE d == Unit(r)[decl[r]]
             rules == {k \in Checks[r] \cap Rules : Matches(k, d)}
  <2>1. d \in AllDecls BY <1>2, CurrentDecl DEF Match
  <2>2. collected' \in [Runs -> Seq(Symbol)]
    BY <1>2, <2>1, Gathering DEF Match
  <2>3. ASSUME NEW k \in Rules PROVE Table(r, k) \in Seq(Symbol)
    BY DEF Table, Load
  <2>4. base' \in [Runs -> [Rules -> Seq(Symbol)]]
    BY <1>2, <2>3 DEF Match
  <2>5. ASSUME NEW k \in rules PROVE Report(r, k, d) \subseteq ReportType
    <3>1. SetOf(Table(r, k)) \subseteq Symbol
      BY <2>3, ElementOfSeq, LenProperties DEF SetOf
    <3>2. Elsewhere(Table(r, k), d) \subseteq Symbol BY <3>1 DEF Elsewhere
    <3>3. k \in Rules OBVIOUS
    <3>4. ~d.ignored => d \in Symbol BY <2>1 DEF Symbol
    <3> HIDE DEF d
    <3>5. CASE Report(r, k, d) = {} BY <3>5
    <3>6. CASE Report(r, k, d) # {}
      <4>1. /\ ~d.ignored
            /\ Report(r, k, d) = {[rule |-> k, decl |-> d, run |-> r,
                                   others |-> Elsewhere(Table(r, k), d)]}
        BY <3>6 DEF Report
      <4> QED BY <4>1, <3>2, <3>3, <3>4 DEF ReportType
    <3> QED BY <3>5, <3>6
  <2>6. reports' \subseteq ReportType BY <1>2, <2>5 DEF Match
  <2>7. InUnit' BY SMTT(30), <1>2 DEF Match, InUnit, Unit
  <2>8. loaded' \in [Runs -> SUBSET Rules] BY <1>2 DEF Match
  <2> QED BY <1>2, <2>2, <2>4, <2>6, <2>7, <2>8 DEF Match
<1>3. ASSUME NEW r \in Runs, EndUnit(r) PROVE TypeInv'
  BY <1>3, Advance DEF EndUnit
<1>4. ASSUME NEW r \in Runs, OpenOutput(r) PROVE TypeInv'
  BY <1>4, Emptiness DEF OpenOutput, InUnit, Unit, Blank
<1>5. ASSUME NEW r \in Runs, OpenFails(r) PROVE TypeInv'
  BY <1>5, Advance DEF OpenFails
<1>6. ASSUME NEW r \in Runs, WriteOutput(r) PROVE TypeInv'
  <2>1. disk' \in [state : {"blank", "valid", "garbage"}, syms : Seq(Symbol)]
    <3>1. disk' = Valid(collected[r]) \/ disk' = Garbage BY <1>6 DEF WriteOutput, Written
    <3>2. collected[r] \in Seq(Symbol) OBVIOUS
    <3>3. CASE disk' = Valid(collected[r]) BY <3>2, <3>3 DEF Valid
    <3>4. CASE disk' = Garbage BY <3>4, Emptiness DEF Garbage
    <3> QED BY <3>1, <3>3, <3>4
  <2>2. NextUnit(r) /\ UNCHANGED <<units, decl, collected, base, loaded, reports, failed>>
    BY <1>6 DEF WriteOutput
  <2> QED BY <2>1, <2>2, Advance
<1>7. ASSUME NEW r \in Runs, EndRun(r) PROVE TypeInv'
  BY <1>7 DEF EndRun, InUnit, Unit
<1>8. ASSUME NEW r \in Runs, Die(r) PROVE TypeInv'
  BY <1>8 DEF Die, InUnit, Unit
<1>9. CASE UNCHANGED vars
  BY <1>9 DEF vars, InUnit, Unit
<1> QED BY <1>1, <1>2, <1>3, <1>4, <1>5, <1>6, <1>7, <1>8, <1>9 DEF Next

\* Every variable keeps its type: in particular the tables hold symbols only,
\* never main or what has no name or file.
THEOREM TypeCorrect == Spec => []TypeOK
<1>1. Spec => []TypeInv BY TypeInit, TypeNext, PTL DEF Spec
<1> QED BY <1>1, PTL DEF TypeInv

-----------------------------------------------------------------------------
\* No place twice.

LEMMA DistinctNext ==
  TypeInv /\ NoDuplicateKeys /\ [Next]_vars => NoDuplicateKeys'
<1> SUFFICES ASSUME TypeInv, NoDuplicateKeys, [Next]_vars PROVE NoDuplicateKeys' OBVIOUS
<1> USE DEF TypeInv, TypeOK, NoDuplicateKeys
<1>1. ASSUME NEW r \in Runs, StartUnit(r) PROVE NoDuplicateKeys'
  BY <1>1, Emptiness DEF StartUnit, Load, Distinct
<1>2. ASSUME NEW r \in Runs, Match(r) PROVE NoDuplicateKeys'
  <2>1. Unit(r)[decl[r]] \in AllDecls BY <1>2, CurrentDecl DEF Match
  <2>2. ASSUME NEW q \in Runs PROVE Distinct(collected'[q])
    BY <1>2, <2>1, Gathering DEF Match
  <2>3. Distinct(disk'.syms) BY <1>2 DEF Match
  <2> QED BY <2>2, <2>3 DEF Distinct
<1>3. ASSUME NEW r \in Runs, OpenOutput(r) PROVE NoDuplicateKeys'
  BY <1>3, Emptiness DEF OpenOutput, Blank, Distinct
<1>4. ASSUME NEW r \in Runs, WriteOutput(r) PROVE NoDuplicateKeys'
  BY <1>4, Emptiness DEF WriteOutput, Written, Valid, Garbage, Distinct
<1>5. ASSUME UNCHANGED <<disk, collected>> PROVE NoDuplicateKeys'
  BY <1>5 DEF Distinct
<1> QED
  BY <1>1, <1>2, <1>3, <1>4, <1>5
  DEF Next, vars, EndUnit, OpenFails, EndRun, Die

\* No place of the program is in the file twice, nor in what any run has
\* collected: however runs overlap, die, fail to open the file or overwrite each
\* other, isDuplicate keeps what it promises.
THEOREM NoPlaceTwice == Spec => []NoDuplicateKeys
<1>1. Init => NoDuplicateKeys
  BY Emptiness DEF Init, NoDuplicateKeys, Blank, Distinct
<1> QED BY <1>1, TypeInit, TypeNext, DistinctNext, PTL DEF Spec

-----------------------------------------------------------------------------
\* Lost by whole units.  A collector in the middle of a unit holds some whole
\* units and the part of its own that it has seen.

Taken(r)  == {Key(Unit(r)[n]) : n \in {m \in 1..(decl[r] - 1) : ~Unit(r)[m].ignored}}
Partly(r) == \E T \in SUBSET DOMAIN Decls :
               Keys(collected[r]) = (UNION {KeysOf(t) : t \in T}) \cup Taken(r)

Parts(r) == /\ pc[r] = "match" => IF Collects(r) THEN Partly(r) ELSE collected[r] = <<>>
            /\ pc[r] = "write" => Whole(collected[r])
WholeInv == WholeUnits /\ \A r \in Runs : Parts(r)

LEMMA NothingIsWhole == Whole(<<>>)
<1>1. Keys(<<>>) = UNION {KeysOf(t) : t \in {}} BY Emptiness
<1> QED BY <1>1 DEF Whole

\* What is left alone is as whole as it was.
LEMMA PartsKept ==
  ASSUME NEW r \in Runs, Parts(r), pc'[r] = pc[r],
         decl'[r] = decl[r], collected'[r] = collected[r],
         units' = units, unit'[r] = unit[r]
  PROVE  Parts(r)'
<1>1. Unit(r)' = Unit(r) BY DEF Unit
<1>2. Taken(r)' = Taken(r) BY <1>1 DEF Taken
<1> QED BY <1>2 DEF Parts, Partly, Whole

\* Behind its last declaration, a unit has been taken as a whole.
LEMMA UnitOver ==
  ASSUME TypeInv, NEW r \in Runs, pc[r] = "match", decl[r] > Len(Unit(r))
  PROVE  units[r][unit[r]] \in DOMAIN Decls /\ Taken(r) = KeysOf(units[r][unit[r]])
<1> DEFINE u == units[r][unit[r]]
<1>1. unit[r] <= Len(units[r]) /\ decl[r] <= Len(Unit(r)) + 1 BY DEF TypeInv, InUnit
<1>2. u \in DOMAIN Decls /\ Unit(r) \in Seq(AllDecls) /\ Len(Unit(r)) \in Nat
  BY <1>1, CurrentUnit
<1>3. 1..(decl[r] - 1) = DOMAIN Unit(r)
  BY <1>1, <1>2, LenProperties DEF TypeInv, TypeOK
<1>4. \A m \in DOMAIN Unit(r) : Unit(r)[m] \in AllDecls
  BY <1>2, ElementOfSeq, LenProperties
<1>5. Taken(r) = KeysOf(u)
  <2>1. Unit(r) = Decls[u] BY DEF Unit
  <2> HIDE DEF u
  <2> QED BY <1>3, <1>4, <2>1 DEF Taken, KeysOf, Symbols, Symbol
<1> QED BY <1>2, <1>5

LEMMA UnitTaken ==
  ASSUME TypeInv, NEW r \in Runs, pc[r] = "match", decl[r] > Len(Unit(r)), Parts(r)
  PROVE  Whole(collected[r])
<1>1. CASE ~Collects(r)
  BY <1>1, NothingIsWhole DEF Parts
<1>2. CASE Collects(r)
  <2> DEFINE u == units[r][unit[r]]
  <2>1. u \in DOMAIN Decls /\ Taken(r) = KeysOf(u) BY UnitOver
  <2>2. PICK T \in SUBSET DOMAIN Decls :
          Keys(collected[r]) = (UNION {KeysOf(t) : t \in T}) \cup Taken(r)
    BY <1>2 DEF Parts, Partly
  <2> HIDE DEF u
  <2>3. Keys(collected[r]) = UNION {KeysOf(t) : t \in T \cup {u}} BY <2>1, <2>2
  <2> QED BY <2>1, <2>3 DEF Whole
<1> QED BY <1>1, <1>2

\* The next declaration of a unit.
LEMMA NextTaken ==
  ASSUME TypeInv, NEW r \in Runs, Match(r)
  PROVE  Taken(r)' = Taken(r) \cup (IF Unit(r)[decl[r]].ignored THEN {} ELSE {Key(Unit(r)[decl[r]])})
<1>1. Unit(r)' = Unit(r) BY DEF Match, Unit
<1>2. decl[r] \in Nat \ {0} /\ decl'[r] = decl[r] + 1 BY DEF Match, TypeInv, TypeOK
<1>3. \A n \in Nat \ {0} : 1..((n + 1) - 1) = 1..(n - 1) \cup {n} OBVIOUS
<1>4. 1..(decl'[r] - 1) = 1..(decl[r] - 1) \cup {decl[r]} BY <1>2, <1>3
<1> QED BY <1>1, <1>4 DEF Taken

LEMMA WholeNext == TypeInv /\ WholeInv /\ [Next]_vars => WholeInv'
<1> SUFFICES ASSUME TypeInv, WholeInv, [Next]_vars PROVE WholeInv' OBVIOUS
<1>0. WholeUnits /\ \A q \in Runs : Parts(q) BY DEF WholeInv
<1>t. /\ pc \in [Runs -> {"start", "match", "write", "ended"}]
      /\ unit \in [Runs -> Nat \ {0}] /\ decl \in [Runs -> Nat \ {0}]
      /\ collected \in [Runs -> Seq(Symbol)]
  BY DEF TypeInv, TypeOK
<1>1. ASSUME NEW r \in Runs, StartUnit(r) PROVE WholeInv'
  <2>1. WholeUnits' BY <1>0, <1>1 DEF StartUnit, WholeUnits, Whole
  <2>2. /\ decl'[r] = 1 /\ pc'[r] = "match"
        /\ collected'[r] = IF Collects(r) THEN disk.syms ELSE <<>>
    BY <1>1, <1>t DEF StartUnit, Load
  <2>3. Taken(r)' = {} BY <2>2 DEF Taken
  <2>4. Parts(r)' BY <1>0, <2>2, <2>3 DEF Parts, Partly, WholeUnits, Whole, Collects
  <2>5. ASSUME NEW q \in Runs, q # r PROVE Parts(q)'
    BY <1>0, <1>1, <1>t, <2>5, PartsKept DEF StartUnit
  <2> QED BY <2>1, <2>4, <2>5 DEF WholeInv
<1>2. ASSUME NEW r \in Runs, Match(r) PROVE WholeInv'
  <2> DEFINE d == Unit(r)[decl[r]]
  <2>1. WholeUnits' BY <1>0, <1>2 DEF Match, WholeUnits, Whole
  <2>2. d \in AllDecls BY <1>2, CurrentDecl DEF Match
  <2>3. /\ pc[r] = "match" /\ pc'[r] = "match"
        /\ collected'[r] = IF Collects(r) THEN Gather(collected[r], d) ELSE collected[r]
    <3>1. collected' = [collected EXCEPT ![r] = IF Collects(r) THEN Gather(@, d) ELSE @]
      BY <1>2 DEF Match
    <3> HIDE DEF d
    <3> QED BY <1>2, <1>t, <3>1 DEF Match
  <2>4. Taken(r)' = Taken(r) \cup (IF d.ignored THEN {} ELSE {Key(d)}) BY <1>2, NextTaken
  <2>5. Keys(Gather(collected[r], d)) = Keys(collected[r]) \cup (IF d.ignored THEN {} ELSE {Key(d)})
    BY <1>t, <2>2, Gathering
  <2>6. ASSUME Collects(r) PROVE Parts(r)'
    <3>1. PICK T \in SUBSET DOMAIN Decls :
            Keys(collected[r]) = (UNION {KeysOf(t) : t \in T}) \cup Taken(r)
      BY <1>0, <2>3, <2>6 DEF Parts, Partly
    <3> HIDE DEF d
    <3>2. collected'[r] = Gather(collected[r], d) BY <2>3, <2>6
    <3>3. Keys(collected'[r]) = (UNION {KeysOf(t) : t \in T}) \cup Taken(r)'
      BY <2>4, <2>5, <3>1, <3>2
    <3>4. Partly(r)' BY <3>3 DEF Partly
    <3> QED BY <2>3, <2>6, <3>4 DEF Parts, Collects
  <2>7. ASSUME ~Collects(r) PROVE Parts(r)'
    <3>1. collected'[r] = <<>> BY <1>0, <2>3, <2>7 DEF Parts
    <3> QED BY <2>3, <2>7, <3>1 DEF Parts, Collects
  <2>8. ASSUME NEW q \in Runs, q # r PROVE Parts(q)'
    BY <1>0, <1>2, <1>t, <2>8, PartsKept DEF Match
  <2>9. Parts(r)' BY <2>6, <2>7
  <2> QED BY <2>1, <2>8, <2>9 DEF WholeInv
<1>3. ASSUME NEW r \in Runs, NextUnit(r), UNCHANGED <<units, decl, collected>>, WholeUnits'
      PROVE  WholeInv'
  <2>1. Parts(r)' BY <1>3, <1>t DEF NextUnit, Parts
  <2>2. ASSUME NEW q \in Runs, q # r PROVE Parts(q)'
    BY <1>0, <1>3, <1>t, <2>2, PartsKept DEF NextUnit
  <2> QED BY <1>3, <2>1, <2>2 DEF WholeInv
<1>4. ASSUME NEW r \in Runs, EndUnit(r) \/ OpenFails(r) PROVE WholeInv'
  BY <1>0, <1>3, <1>4 DEF EndUnit, OpenFails, WholeUnits, Whole
<1>5. ASSUME NEW r \in Runs, OpenOutput(r) PROVE WholeInv'
  <2>1. WholeUnits' BY <1>5, NothingIsWhole DEF OpenOutput, Blank, WholeUnits, Whole
  <2>2. Whole(collected[r]) BY <1>0, <1>5, UnitTaken DEF OpenOutput
  <2>3. Parts(r)' BY <1>5, <1>t, <2>2 DEF OpenOutput, Parts, Whole
  <2>4. ASSUME NEW q \in Runs, q # r PROVE Parts(q)'
    BY <1>0, <1>5, <1>t, <2>4, PartsKept DEF OpenOutput
  <2> QED BY <2>1, <2>3, <2>4 DEF WholeInv
<1>6. ASSUME NEW r \in Runs, WriteOutput(r) PROVE WholeInv'
  <2>1. disk' = Valid(collected[r]) \/ disk' = Garbage BY <1>6 DEF WriteOutput, Written
  <2>2. Whole(collected[r]) BY <1>0, <1>6 DEF WriteOutput, Parts
  <2>3. WholeUnits' BY <2>1, <2>2, NothingIsWhole DEF Valid, Garbage, WholeUnits, Whole
  <2>4. NextUnit(r) /\ UNCHANGED <<units, decl, collected>> BY <1>6 DEF WriteOutput
  <2> QED BY <1>3, <2>3, <2>4
<1>7. ASSUME NEW r \in Runs, EndRun(r) \/ Die(r) PROVE WholeInv'
  <2>1. WholeUnits' BY <1>0, <1>7 DEF EndRun, Die, WholeUnits, Whole
  <2>2. Parts(r)' BY <1>7, <1>t DEF EndRun, Die, Parts
  <2>3. ASSUME NEW q \in Runs, q # r PROVE Parts(q)'
    BY <1>0, <1>7, <1>t, <2>3, PartsKept DEF EndRun, Die
  <2> QED BY <2>1, <2>2, <2>3 DEF WholeInv
<1>8. CASE UNCHANGED vars
  <2>1. WholeUnits' BY <1>0, <1>8 DEF vars, WholeUnits, Whole
  <2>2. ASSUME NEW q \in Runs PROVE Parts(q)' BY <1>0, <1>8, PartsKept DEF vars
  <2> QED BY <2>1, <2>2 DEF WholeInv
<1> QED BY <1>1, <1>2, <1>4, <1>5, <1>6, <1>7, <1>8 DEF Next

\* The file always holds the symbols of some whole translation units: overlapping
\* runs, deaths and failures lose units, never a part of one.
THEOREM LostByUnits == Spec => []WholeUnits
<1>1. Init => WholeInv
  <2> SUFFICES ASSUME Init PROVE WholeInv OBVIOUS
  <2>1. WholeUnits BY NothingIsWhole DEF Init, Blank, WholeUnits
  <2>2. ASSUME NEW r \in Runs PROVE Parts(r) BY DEF Init, Parts
  <2> QED BY <2>1, <2>2 DEF WholeInv
<1>2. WholeInv => WholeUnits BY DEF WholeInv
<1> QED BY <1>1, <1>2, TypeInit, TypeNext, WholeNext, PTL DEF Spec

-----------------------------------------------------------------------------
(***************************************************************************)
(* Runs in turn.  A run that was started and has something to do finds all *)
(* runs before it ended: one run at a time reads and writes the file.      *)
(***************************************************************************)
RunStep(r) == \/ StartUnit(r) \/ Match(r) \/ EndUnit(r) \/ OpenOutput(r)
              \/ OpenFails(r) \/ WriteOutput(r) \/ EndRun(r) \/ Die(r)

Fresh(r)       == pc[r] = "start" /\ unit[r] = 1
Idle(r)        == Fresh(r) \/ Len(units[r]) = 0
Ready(r)       == \A q \in 1..(r - 1) : pc[q] = "ended"
Undisturbed(r) == \A q \in Runs : q > r => Idle(q)
Active(r)      == pc[r] \in {"match", "write"}

Turns == InTurn => \A r \in Runs : Idle(r) \/ Ready(r)

\* A step of one run leaves the others alone.
LEMMA OneRun ==
  ASSUME TypeInv, NEW r \in Runs, RunStep(r)
  PROVE  /\ units' = units /\ (InTurn' <=> InTurn)
         /\ \A q \in Runs : q # r =>
              /\ pc'[q] = pc[q] /\ unit'[q] = unit[q] /\ decl'[q] = decl[q]
              /\ collected'[q] = collected[q] /\ base'[q] = base[q] /\ loaded'[q] = loaded[q]
              /\ (q \in failed' <=> q \in failed)
         /\ reports \subseteq reports' /\ failed \subseteq failed'
         /\ pc[r] # "ended"
<1>1. units' = units
  BY DEF RunStep, StartUnit, Match, EndUnit, OpenOutput, OpenFails, WriteOutput, EndRun, Die
<1>2. InTurn' <=> InTurn BY <1>1 DEF InTurn
<1>3. /\ pc \in [Runs -> {"start", "match", "write", "ended"}]
      /\ unit \in [Runs -> Nat \ {0}] /\ decl \in [Runs -> Nat \ {0}]
      /\ collected \in [Runs -> Seq(Symbol)]
      /\ base \in [Runs -> [Rules -> Seq(Symbol)]] /\ loaded \in [Runs -> SUBSET Rules]
  BY DEF TypeInv, TypeOK
<1>4. ASSUME NEW q \in Runs, q # r
      PROVE  pc'[q] = pc[q] /\ unit'[q] = unit[q] /\ decl'[q] = decl[q]
  BY <1>3, <1>4
  DEF RunStep, StartUnit, Match, EndUnit, OpenOutput, OpenFails, WriteOutput, EndRun, Die, NextUnit
<1>5. ASSUME NEW q \in Runs, q # r
      PROVE  collected'[q] = collected[q] /\ base'[q] = base[q] /\ loaded'[q] = loaded[q]
  BY <1>3, <1>5
  DEF RunStep, StartUnit, Match, EndUnit, OpenOutput, OpenFails, WriteOutput, EndRun, Die
<1>6. ASSUME NEW q \in Runs, q # r PROVE q \in failed' <=> q \in failed
  BY <1>6
  DEF RunStep, StartUnit, Match, EndUnit, OpenOutput, OpenFails, WriteOutput, EndRun, Die
<1>7. reports \subseteq reports' /\ failed \subseteq failed'
  BY DEF RunStep, StartUnit, Match, EndUnit, OpenOutput, OpenFails, WriteOutput, EndRun, Die
<1>8. pc[r] # "ended"
  BY DEF RunStep, StartUnit, Match, EndUnit, OpenOutput, OpenFails, WriteOutput, EndRun, Die
<1> QED BY <1>1, <1>2, <1>4, <1>5, <1>6, <1>7, <1>8

LEMMA UnitTypes ==
  ASSUME TypeInv, NEW r \in Runs
  PROVE  /\ units[r] \in Seq(DOMAIN Decls) /\ Len(units[r]) \in Nat
         /\ DOMAIN units[r] = 1..Len(units[r]) /\ unit[r] \in Nat \ {0} /\ decl[r] \in Nat \ {0}
         /\ pc[r] \in {"start", "match", "write", "ended"}
         /\ Active(r) => unit[r] \in DOMAIN units[r]
<1>1. units[r] \in Seq(DOMAIN Decls) BY DEF TypeInv, TypeOK
<1>2. Len(units[r]) \in Nat /\ DOMAIN units[r] = 1..Len(units[r]) BY <1>1, LenProperties
<1>3. unit[r] \in Nat \ {0} /\ decl[r] \in Nat \ {0} /\ pc[r] \in {"start", "match", "write", "ended"}
  BY DEF TypeInv, TypeOK
<1>4. Active(r) => unit[r] <= Len(units[r]) BY DEF Active, TypeInv, InUnit
<1> QED BY <1>1, <1>2, <1>3, <1>4

\* What a run does unless it is new or has nothing to do, it does in its turn.
LEMMA StepInTurn ==
  ASSUME TypeInv, Turns, InTurn, NEW r \in Runs, RunStep(r)
  PROVE  /\ ~EndRun(r) => Ready(r) /\ Undisturbed(r) /\ ~Idle(r)'
         /\ EndRun(r) => Ready(r) \/ Len(units[r]) = 0
         /\ pc'[r] = "ended" <=> EndRun(r) \/ Die(r)
<1>0. r \in 1..NumRuns /\ NumRuns \in Nat BY RunsAssumption DEF Runs
<1>1. /\ Len(units[r]) \in Nat /\ unit[r] \in Nat \ {0}
      /\ Active(r) => unit[r] \in 1..Len(units[r])
      /\ units' = units /\ pc \in [Runs -> {"start", "match", "write", "ended"}]
      /\ unit \in [Runs -> Nat \ {0}]
  BY UnitTypes, OneRun DEF TypeInv, TypeOK
<1>2. Idle(r) \/ Ready(r) BY DEF Turns
<1>3. ASSUME ~EndRun(r) PROVE Ready(r) /\ Len(units[r]) # 0
  <2>1. CASE StartUnit(r) BY <1>1, <2>1 DEF StartUnit, Ready
  <2>2. CASE Active(r) BY <1>1, <1>2, <2>2 DEF Idle, Fresh, Active
  <2>3. StartUnit(r) \/ Active(r)
    BY <1>3 DEF RunStep, Match, EndUnit, OpenOutput, OpenFails, WriteOutput, Die, Active
  <2> QED BY <2>1, <2>2, <2>3
<1>4. ASSUME ~EndRun(r) PROVE ~Idle(r)'
  <2>1. ~Fresh(r)'
    <3>1. CASE StartUnit(r) \/ Match(r) \/ OpenOutput(r) \/ Die(r)
      BY <1>1, <3>1 DEF StartUnit, Match, OpenOutput, Die, Fresh
    <3>2. CASE EndUnit(r) \/ OpenFails(r) \/ WriteOutput(r)
      BY <1>1, <3>2 DEF EndUnit, OpenFails, WriteOutput, NextUnit, Fresh
    <3> QED BY <1>4, <3>1, <3>2 DEF RunStep
  <2> QED BY <1>1, <1>3, <1>4, <2>1 DEF Idle
<1>5. ASSUME NEW q \in Runs, q > r PROVE Idle(q)
  <2>1. r \in 1..(q - 1) BY <1>0, <1>5 DEF Runs
  <2>2. pc[r] # "ended" BY OneRun
  <2> QED BY <2>1, <2>2 DEF Turns, Ready
<1>6. EndRun(r) => Ready(r) \/ Len(units[r]) = 0
  BY <1>1, <1>2 DEF EndRun, Idle, Fresh
<1>7. pc'[r] = "ended" <=> EndRun(r) \/ Die(r)
  BY <1>1
  DEF RunStep, StartUnit, Match, EndUnit, OpenOutput, OpenFails, WriteOutput, EndRun, Die, NextUnit
<1> QED BY <1>3, <1>4, <1>5, <1>6, <1>7 DEF Undisturbed

LEMMA TurnsNext == TypeInv /\ Turns /\ [Next]_vars => Turns'
<1> SUFFICES ASSUME TypeInv, Turns, [Next]_vars PROVE Turns' OBVIOUS
<1>1. ASSUME NEW r \in Runs, RunStep(r) PROVE Turns'
  <2> SUFFICES ASSUME InTurn', NEW q \in Runs PROVE Idle(q)' \/ Ready(q)' BY DEF Turns
  <2>1. InTurn /\ units' = units BY <1>1, OneRun
  <2>2. ASSUME Ready(q) PROVE Ready(q)'
    <3> SUFFICES ASSUME NEW s \in 1..(q - 1) PROVE pc'[s] = "ended" BY DEF Ready
    <3>1. s \in Runs BY RunsAssumption DEF Runs
    <3>2. pc[s] = "ended" BY <2>2 DEF Ready
    <3> QED BY <1>1, <3>1, <3>2, OneRun
  <2>3. CASE q # r
    <3>1. Idle(q)' <=> Idle(q) BY <1>1, <2>1, <2>3, OneRun DEF Idle, Fresh
    <3> QED BY <2>1, <2>2, <3>1 DEF Turns
  <2>4. CASE q = r
    <3>1. CASE EndRun(r)
      <4>1. Ready(r) \/ Len(units[r]) = 0 BY <1>1, <2>1, <3>1, StepInTurn
      <4> QED BY <2>1, <2>2, <2>4, <4>1 DEF Idle
    <3>2. CASE ~EndRun(r)
      <4>1. Ready(r) BY <1>1, <2>1, <3>2, StepInTurn
      <4> QED BY <2>2, <2>4, <4>1
    <3> QED BY <3>1, <3>2
  <2> QED BY <2>3, <2>4
<1>2. ASSUME UNCHANGED vars PROVE Turns'
  BY <1>2 DEF vars, Turns, InTurn, Idle, Fresh, Ready
<1> QED BY <1>1, <1>2 DEF Next, RunStep

\* While a run is at a unit, all that another one can do is to end without one.
LEMMA OneAtATime ==
  ASSUME TypeInv, Turns, InTurn, NEW r \in Runs, Active(r), NEW q \in Runs, q # r
  PROVE  /\ ~Active(q)
         /\ RunStep(q) => EndRun(q) /\ disk' = disk
<1>1. ASSUME NEW s \in Runs, Active(s) PROVE Ready(s) /\ ~Idle(s) /\ pc[s] # "ended"
  <2>1. ~Idle(s) BY <1>1, UnitTypes DEF Active, Idle, Fresh
  <2> QED BY <1>1, <2>1 DEF Turns, Active
<1>2. /\ r \in 1..(q - 1) \/ q \in 1..(r - 1)
      /\ r \in 1..(q - 1) \/ r > q
  BY RunsAssumption DEF Runs
<1>3. ~Active(q) BY <1>1, <1>2 DEF Ready
<1>4. ASSUME RunStep(q) PROVE EndRun(q)
  <2> SUFFICES ASSUME ~EndRun(q) PROVE FALSE OBVIOUS
  <2>1. Ready(q) /\ Undisturbed(q) BY <1>4, StepInTurn
  <2>2. pc[r] # "ended" /\ ~Idle(r) BY <1>1
  <2>3. r \notin 1..(q - 1) BY <2>1, <2>2 DEF Ready
  <2>4. r > q BY <1>2, <2>3, RunsAssumption DEF Runs
  <2> QED BY <2>1, <2>2, <2>4 DEF Undisturbed
<1>5. EndRun(q) => disk' = disk BY DEF EndRun
<1> QED BY <1>3, <1>4, <1>5

\* What a run in its turn has collected is the file and the part of its unit that it has
\* seen; while it writes, the file is empty.
Exact(r) ==
  /\ pc[r] = "match" => IF Collects(r) THEN Keys(collected[r]) = Keys(disk.syms) \cup Taken(r)
                        ELSE collected[r] = <<>>
  /\ pc[r] = "write" => disk = Blank
ExactInv == InTurn => \A r \in Runs : Exact(r)

LEMMA ExactKept ==
  ASSUME NEW r \in Runs, Exact(r), pc'[r] = pc[r], decl'[r] = decl[r],
         collected'[r] = collected[r], units' = units, unit'[r] = unit[r],
         Active(r) => disk' = disk
  PROVE  Exact(r)'
<1>1. Unit(r)' = Unit(r) BY DEF Unit
<1>2. Taken(r)' = Taken(r) BY <1>1 DEF Taken
<1> QED BY <1>2 DEF Exact, Active, Collects

LEMMA ExactNext == TypeInv /\ Turns /\ ExactInv /\ [Next]_vars => ExactInv'
<1> SUFFICES ASSUME TypeInv, Turns, ExactInv, [Next]_vars, InTurn', NEW q \in Runs
             PROVE  Exact(q)'
  BY DEF ExactInv
<1>0. /\ pc \in [Runs -> {"start", "match", "write", "ended"}]
      /\ unit \in [Runs -> Nat \ {0}] /\ decl \in [Runs -> Nat \ {0}]
      /\ collected \in [Runs -> Seq(Symbol)]
  BY DEF TypeInv, TypeOK
<1>1. ASSUME NEW r \in Runs, RunStep(r) PROVE Exact(q)'
  <2>0. InTurn BY <1>1, OneRun
  <2>1. Exact(q) /\ Exact(r) BY <2>0 DEF ExactInv
  <2>2. CASE q # r
    <3>1. Active(q) => disk' = disk BY <1>1, <2>0, <2>2, OneAtATime
    <3> QED BY <1>1, <2>1, <2>2, <3>1, OneRun, ExactKept
  <2>3. CASE q = r
    <3>1. CASE StartUnit(r)
      <4>1. /\ decl'[r] = 1 /\ pc'[r] = "match" /\ disk' = disk
            /\ collected'[r] = IF Collects(r) THEN disk.syms ELSE <<>>
        BY <1>0, <3>1 DEF StartUnit, Load
      <4>2. Taken(r)' = {} BY <4>1 DEF Taken
      <4> QED BY <2>3, <4>1, <4>2 DEF Exact, Collects
    <3>2. CASE Match(r)
      <4> DEFINE d == Unit(r)[decl[r]]
      <4>1. d \in AllDecls BY <3>2, CurrentDecl DEF Match
      <4>2. /\ pc[r] = "match" /\ pc'[r] = "match" /\ disk' = disk
            /\ collected'[r] = IF Collects(r) THEN Gather(collected[r], d) ELSE collected[r]
        <5>1. collected' = [collected EXCEPT ![r] = IF Collects(r) THEN Gather(@, d) ELSE @]
          BY <3>2 DEF Match
        <5> HIDE DEF d
        <5> QED BY <1>0, <3>2, <5>1 DEF Match
      <4>3. Taken(r)' = Taken(r) \cup (IF d.ignored THEN {} ELSE {Key(d)}) BY <3>2, NextTaken
      <4>4. Keys(Gather(collected[r], d))
              = Keys(collected[r]) \cup (IF d.ignored THEN {} ELSE {Key(d)})
        BY <1>0, <4>1, Gathering
      <4> HIDE DEF d
      <4>5. CASE Collects(r)
        <5>1. Keys(collected'[r]) = Keys(disk'.syms) \cup Taken(r)'
          BY <2>1, <4>2, <4>3, <4>4, <4>5 DEF Exact
        <5> QED BY <2>3, <4>2, <4>5, <5>1 DEF Exact, Collects
      <4>6. CASE ~Collects(r) BY <2>1, <2>3, <4>2, <4>6 DEF Exact, Collects
      <4> QED BY <4>5, <4>6
    <3>3. CASE OpenOutput(r) BY <1>0, <2>3, <3>3 DEF OpenOutput, Exact
    <3>4. CASE EndUnit(r) \/ OpenFails(r) \/ WriteOutput(r)
      BY <1>0, <2>3, <3>4 DEF EndUnit, OpenFails, WriteOutput, NextUnit, Exact
    <3>5. CASE EndRun(r) \/ Die(r) BY <1>0, <2>3, <3>5 DEF EndRun, Die, Exact
    <3> QED BY <1>1, <3>1, <3>2, <3>3, <3>4, <3>5 DEF RunStep
  <2> QED BY <2>2, <2>3
<1>2. ASSUME UNCHANGED vars PROVE Exact(q)'
  <2>1. InTurn BY <1>2 DEF vars, InTurn
  <2>2. Exact(q) BY <2>1 DEF ExactInv
  <2> QED BY <1>2, <2>2, ExactKept DEF vars
<1> QED BY <1>1, <1>2 DEF Next, RunStep

TurnInv == TypeInv /\ Turns /\ ExactInv /\ WholeInv

LEMMA TurnInit == Init => TurnInv
<1> SUFFICES ASSUME Init PROVE TurnInv OBVIOUS
<1>1. \A r \in Runs : pc[r] = "start" /\ unit[r] = 1 BY DEF Init
<1>2. Turns BY <1>1 DEF Turns, Idle, Fresh
<1>3. ExactInv BY <1>1 DEF ExactInv, Exact
<1>4. WholeInv
  <2>1. WholeUnits BY NothingIsWhole DEF Init, Blank, WholeUnits
  <2>2. ASSUME NEW r \in Runs PROVE Parts(r) BY <1>1 DEF Parts
  <2> QED BY <2>1, <2>2 DEF WholeInv
<1> QED BY <1>2, <1>3, <1>4, TypeInit DEF TurnInv

LEMMA TurnNext == TurnInv /\ [Next]_vars => TurnInv'
BY TypeNext, TurnsNext, ExactNext, WholeNext DEF TurnInv

-----------------------------------------------------------------------------
(***************************************************************************)
(* Runs in turn implement SymbolCollection.                                *)
(***************************************************************************)
Known == IF ~InTurn THEN {}
         ELSE IF Writers = {} THEN Keys(disk.syms)
         ELSE Keys(collected[CHOOSE r \in Writers : TRUE])

\* Who else is not writing changes nothing.
LEMMA KnownKept ==
  ASSUME TurnInv, InTurn, InTurn', NEW r \in Runs, RunStep(r), pc[r] # "write", pc'[r] # "write",
         disk' = disk
  PROVE  Known' = Known
<1>1. TypeInv BY DEF TurnInv
<1>2. \A q \in Runs : q # r => pc'[q] = pc[q] /\ collected'[q] = collected[q] BY <1>1, OneRun
<1>3. Writers' = Writers BY <1>2 DEF Writers
<1>4. CASE Writers = {} BY <1>3, <1>4 DEF Known
<1>5. CASE Writers # {}
  <2> DEFINE w == CHOOSE s \in Writers : TRUE
  <2>1. w \in Writers BY <1>5
  <2>2. w \in Runs /\ w # r BY <2>1 DEF Writers
  <2>3. collected'[w] = collected[w] BY <1>2, <2>2
  <2>4. Known = Keys(collected[w]) BY <1>5 DEF Known
  <2>5. Known' = Keys(collected'[w]) BY <1>3, <1>5 DEF Known
  <2> QED BY <2>3, <2>4, <2>5
<1> QED BY <1>4, <1>5

LEMMA StepCollects ==
  ASSUME TurnInv, InTurn, InTurn', NEW r \in Runs, RunStep(r)
  PROVE  \/ Known' = Known \/ Known' = {}
         \/ \E t \in DOMAIN Decls : Known' = Known \cup KeysOf(t)
<1>0. /\ TypeInv /\ Turns /\ Exact(r) /\ Parts(r)
      /\ pc \in [Runs -> {"start", "match", "write", "ended"}]
  BY DEF TurnInv, TypeInv, TypeOK, ExactInv, WholeInv
<1>w. ASSUME Active(r) PROVE Writers \subseteq {r} /\ Writers' \subseteq {r}
  <2>1. \A q \in Runs : q # r => ~Active(q) BY <1>0, <1>w, OneAtATime
  <2>2. \A q \in Runs : q # r => pc'[q] = pc[q] BY <1>0, OneRun
  <2> QED BY <2>1, <2>2 DEF Writers, Active
<1>1. CASE StartUnit(r) \/ Match(r) \/ EndRun(r) \/ EndUnit(r) \/ OpenFails(r)
  <2>1. pc[r] # "write" /\ pc'[r] # "write" /\ disk' = disk
    BY <1>0, <1>1 DEF StartUnit, Match, EndRun, EndUnit, OpenFails, NextUnit
  <2> QED BY <2>1, KnownKept
<1>2. CASE OpenOutput(r)
  <2>1. pc[r] = "match" /\ pc'[r] = "write" /\ collected' = collected /\ decl[r] > Len(Unit(r))
    BY <1>0, <1>2 DEF OpenOutput
  <2>2. Writers = {} /\ Writers' = {r} BY <1>w, <2>1 DEF Writers, Active
  <2>3. Known = Keys(disk.syms) BY <2>2 DEF Known
  <2>4. Known' = Keys(collected[r])
    <3>1. (CHOOSE s \in {r} : TRUE) = r OBVIOUS
    <3> QED BY <2>1, <2>2, <3>1 DEF Known
  <2>5. Collects(r) BY <1>0, <1>2, <2>1 DEF Parts, OpenOutput
  <2>6. Keys(collected[r]) = Keys(disk.syms) \cup Taken(r) BY <1>0, <2>1, <2>5 DEF Exact
  <2>7. \E t \in DOMAIN Decls : Taken(r) = KeysOf(t)
    BY <1>0, <2>1, UnitOver
  <2> QED BY <2>3, <2>4, <2>6, <2>7
<1>3. CASE WriteOutput(r)
  <2>1. pc[r] = "write" /\ pc'[r] # "write" /\ disk' \in Written(r)
    BY <1>0, <1>3 DEF WriteOutput, NextUnit
  <2>2. disk = Blank BY <1>0, <2>1 DEF Exact
  <2>3. disk'.syms = collected[r] BY <2>1, <2>2 DEF Written, Blank, Valid
  <2>4. Writers = {r} /\ Writers' = {} BY <1>w, <2>1 DEF Writers, Active
  <2>5. Known = Keys(collected[r])
    <3>1. (CHOOSE s \in {r} : TRUE) = r OBVIOUS
    <3> QED BY <2>4, <3>1 DEF Known
  <2>6. Known' = Keys(collected[r]) BY <2>3, <2>4 DEF Known
  <2> QED BY <2>5, <2>6
<1>4. CASE Die(r)
  <2>1. pc[r] \in {"match", "write"} /\ pc'[r] = "ended" /\ disk' = disk BY <1>0, <1>4 DEF Die
  <2>2. CASE pc[r] # "write" BY <2>1, <2>2, KnownKept
  <2>3. CASE pc[r] = "write"
    <3>1. disk = Blank BY <1>0, <2>3 DEF Exact
    <3>2. Writers' = {} BY <1>w, <2>1 DEF Writers, Active
    <3>3. Known' = {} BY <2>1, <3>1, <3>2, Emptiness DEF Known, Blank
    <3> QED BY <3>3
  <2> QED BY <2>2, <2>3
<1> QED BY <1>1, <1>2, <1>3, <1>4 DEF RunStep

\* The refinement, step by step: opening the file collects a whole unit, dying while it
\* is written loses everything, and nothing else that a run does is seen outside.
THEOREM DatabaseCollects == Spec => ImplementsCollection
<1>1. Init => Collection!Init
  <2> SUFFICES ASSUME Init PROVE Known = {} BY DEF Collection!Init, Known
  <2>1. Writers = {} BY DEF Init, Writers
  <2>2. Keys(disk.syms) = {} BY Emptiness DEF Init, Blank
  <2> QED BY <2>1, <2>2 DEF Known
<1>2. TurnInv /\ [Next]_vars => [Collection!Next]_Known
  <2> SUFFICES ASSUME TurnInv, [Next]_vars
               PROVE  \/ Known' = Known \/ Known' = {}
                      \/ \E t \in DOMAIN Decls : Known' = Known \cup KeysOf(t)
    BY DEF Collection!Next, Collection!Lose, Collection!Collect, Known
  <2>1. ASSUME NEW r \in Runs, RunStep(r)
        PROVE  \/ Known' = Known \/ Known' = {}
               \/ \E t \in DOMAIN Decls : Known' = Known \cup KeysOf(t)
    <3>1. InTurn' <=> InTurn BY <2>1, OneRun DEF TurnInv
    <3>2. CASE InTurn BY <2>1, <3>1, <3>2, StepCollects
    <3>3. CASE ~InTurn BY <3>1, <3>3 DEF Known
    <3> QED BY <3>2, <3>3
  <2>2. ASSUME UNCHANGED vars PROVE Known' = Known
    BY <2>2 DEF vars, Known, InTurn, Writers
  <2> QED BY <2>1, <2>2 DEF Next, RunStep
<1> QED BY <1>1, <1>2, TurnInit, TurnNext, PTL DEF Spec, ImplementsCollection, Collection!Spec, Known

-----------------------------------------------------------------------------
(***************************************************************************)
(* The two passes.  Owed are the places that the file must hold for a run  *)
(* that is ready: those of the first passes before it that went well, and  *)
(* those of the units that it has collected itself.                        *)
(***************************************************************************)
Behind(r) == {units[r][n] : n \in {m \in DOMAIN units[r] : m < unit[r]}}
Owed(r) ==
  {Key(e) : e \in Gathered(r)} \cup
  (IF Collects(r) THEN UNION {KeysOf(t) : t \in Behind(r)} ELSE {})

\* While it goes well, that is in the file, and in the tables loaded from it.
GoesWell(r) == /\ Ready(r) /\ Undisturbed(r) /\ r \notin failed
               /\ pc[r] = "ended" => unit[r] > Len(units[r])
HoldsOwed(r) ==
  /\ pc[r] # "write" => Owed(r) \subseteq Keys(disk.syms)
  /\ pc[r] = "match" => \A k \in loaded[r] : Owed(r) \subseteq Keys(base[r][k])
  /\ pc[r] = "write" => Owed(r) \cup KeysOf(units[r][unit[r]]) \subseteq Keys(collected[r])
OwedInv == InTurn => \A r \in Runs : GoesWell(r) => HoldsOwed(r)

\* The runs before it decide what earlier passes owe a run.
LEMMA EarlierKept ==
  ASSUME NEW r \in Runs, units' = units,
         \A q \in 1..(r - 1) : pc'[q] = pc[q] /\ unit'[q] = unit[q] /\ (q \in failed' <=> q \in failed)
  PROVE  Earlier(r)' = Earlier(r) /\ Gathered(r)' = Gathered(r) /\ (Ready(r)' <=> Ready(r))
<1>1. \A p : \A q \in p..(r - 1) : p \in 1..(r - 1) => q \in 1..(r - 1)
  BY RunsAssumption DEF Runs
<1>2. \A q \in 1..(r - 1) : Completed(q)' <=> Completed(q) BY DEF Completed
<1>3. \A p : Collects(p)' <=> Collects(p) BY DEF Collects
<1>4. Earlier(r)' = Earlier(r) BY <1>1, <1>2, <1>3 DEF Earlier
<1>5. Gathered(r)' = Gathered(r) BY <1>4 DEF Gathered, UnitsOf
<1> QED BY <1>4, <1>5 DEF Ready

\* A run that goes on is as well off as its disk.
LEMMA OwnStep ==
  ASSUME TurnInv, InTurn, NEW r \in Runs, RunStep(r), GoesWell(r)', GoesWell(r) => HoldsOwed(r)
  PROVE  HoldsOwed(r)'
<1>0. /\ TypeInv /\ Turns /\ Exact(r) /\ Parts(r)
      /\ pc \in [Runs -> {"start", "match", "write", "ended"}]
      /\ unit \in [Runs -> Nat \ {0}] /\ decl \in [Runs -> Nat \ {0}]
      /\ collected \in [Runs -> Seq(Symbol)]
      /\ base \in [Runs -> [Rules -> Seq(Symbol)]] /\ loaded \in [Runs -> SUBSET Rules]
  BY DEF TurnInv, TypeInv, TypeOK, ExactInv, WholeInv
<1>1. /\ units' = units /\ pc[r] # "ended" /\ failed \subseteq failed'
      /\ \A q \in Runs : q # r => /\ pc'[q] = pc[q] /\ unit'[q] = unit[q]
                                  /\ (q \in failed' <=> q \in failed)
  BY <1>0, OneRun
<1>2. \A q \in 1..(r - 1) : q \in Runs /\ q # r BY RunsAssumption DEF Runs
<1>3. Gathered(r)' = Gathered(r) /\ (Ready(r)' <=> Ready(r)) BY <1>1, <1>2, EarlierKept
<1>4. Undisturbed(r)
  <2>1. \A q \in Runs : q > r => q # r BY RunsAssumption DEF Runs
  <2> QED BY <1>1, <2>1 DEF GoesWell, Undisturbed, Idle, Fresh
<1>5. HoldsOwed(r) BY <1>1, <1>3, <1>4 DEF GoesWell
<1>6. /\ Len(units[r]) \in Nat /\ DOMAIN units[r] = 1..Len(units[r]) /\ unit[r] \in Nat \ {0}
      /\ Active(r) => unit[r] \in DOMAIN units[r]
  BY <1>0, UnitTypes
<1>7. unit'[r] = unit[r] => Owed(r)' = Owed(r)
  BY <1>1, <1>3 DEF Owed, Behind, Collects
<1>8. ASSUME Active(r), unit'[r] = unit[r] + 1
      PROVE  Owed(r)' \subseteq Owed(r) \cup KeysOf(units[r][unit[r]])
  <2>1. Behind(r)' \subseteq Behind(r) \cup {units[r][unit[r]]}
    <3>1. \A m \in DOMAIN units[r] : m < unit[r] + 1 => m < unit[r] \/ m = unit[r]
      BY <1>6
    <3> QED BY <1>1, <1>8, <3>1 DEF Behind
  <2> QED BY <1>1, <1>3, <2>1 DEF Owed, Collects
<1>9. CASE StartUnit(r)
  <2>1. /\ pc[r] = "start" /\ pc'[r] = "match" /\ unit'[r] = unit[r] /\ disk' = disk
        /\ loaded'[r] = {}
    BY <1>0, <1>9 DEF StartUnit
  <2> QED BY <1>5, <1>7, <2>1 DEF HoldsOwed
<1>10. CASE Match(r)
  <2>1. /\ pc[r] = "match" /\ pc'[r] = "match" /\ unit'[r] = unit[r] /\ disk' = disk
    BY <1>10 DEF Match
  <2>2. ASSUME NEW k \in loaded'[r] PROVE Owed(r) \subseteq Keys(base'[r][k])
    <3> DEFINE rules == {l \in Checks[r] \cap Rules : Matches(l, Unit(r)[decl[r]])}
    <3>1. /\ loaded' = [loaded EXCEPT ![r] = @ \cup rules]
          /\ base' = [base EXCEPT ![r] = [l \in Rules |-> IF l \in rules THEN Table(r, l) ELSE @[l]]]
      BY <1>10 DEF Match
    <3> HIDE DEF rules
    <3>2. loaded'[r] = loaded[r] \cup rules
          /\ base'[r] = [l \in Rules |-> IF l \in rules THEN Table(r, l) ELSE base[r][l]]
      BY <1>0, <3>1
    <3>3. k \in Rules BY <1>0, <3>2 DEF rules
    <3>4. base'[r][k] = IF k \in rules THEN Table(r, k) ELSE base[r][k] BY <3>2, <3>3
    <3>5. \A l \in loaded[r] : Owed(r) \subseteq Keys(base[r][l]) BY <1>5, <2>1 DEF HoldsOwed
    <3>6. Owed(r) \subseteq Keys(Table(r, k))
      BY <1>5, <2>1, <3>5 DEF HoldsOwed, Table, Load
    <3> QED BY <2>2, <3>2, <3>4, <3>5, <3>6
  <2> QED BY <1>5, <1>7, <2>1, <2>2 DEF HoldsOwed
<1>11. CASE EndUnit(r)
  <2>1. /\ pc[r] = "match" /\ decl[r] > Len(Unit(r)) /\ collected[r] = <<>>
        /\ pc'[r] = "start" /\ unit'[r] = unit[r] + 1 /\ disk' = disk
    BY <1>0, <1>11 DEF EndUnit, NextUnit
  <2>2. Collects(r) => KeysOf(units[r][unit[r]]) = {}
    <3>1. Taken(r) = KeysOf(units[r][unit[r]]) BY <1>0, <2>1, UnitOver
    <3> QED BY <1>0, <2>1, <3>1, Emptiness DEF Exact
  <2>3. Owed(r)' \subseteq Owed(r)
    <3>1. CASE Collects(r) BY <1>8, <2>1, <2>2, <3>1 DEF Active
    <3>2. CASE ~Collects(r) BY <1>1, <1>3, <3>2 DEF Owed, Collects
    <3> QED BY <3>1, <3>2
  <2> QED BY <1>5, <2>1, <2>3 DEF HoldsOwed
<1>12. CASE OpenOutput(r)
  <2>1. /\ pc[r] = "match" /\ decl[r] > Len(Unit(r)) /\ collected[r] # <<>>
        /\ pc'[r] = "write" /\ unit'[r] = unit[r] /\ collected' = collected
    BY <1>0, <1>12 DEF OpenOutput
  <2>2. Taken(r) = KeysOf(units[r][unit[r]]) BY <1>0, <2>1, UnitOver
  <2>3. Keys(collected[r]) = Keys(disk.syms) \cup Taken(r) BY <1>0, <2>1 DEF Exact, Parts
  <2>4. Owed(r) \cup KeysOf(units[r][unit[r]]) \subseteq Keys(collected[r])
    BY <1>5, <2>1, <2>2, <2>3 DEF HoldsOwed
  <2>5. KeysOf(units[r][unit[r]])' = KeysOf(units[r][unit[r]])
    BY <1>1, <2>1 DEF KeysOf, Symbols
  <2> QED BY <1>7, <2>1, <2>4, <2>5 DEF HoldsOwed
<1>13. CASE OpenFails(r) BY <1>13 DEF OpenFails, GoesWell
<1>14. CASE WriteOutput(r)
  <2>1. /\ pc[r] = "write" /\ pc'[r] = "start" /\ unit'[r] = unit[r] + 1 /\ disk' \in Written(r)
    BY <1>0, <1>14 DEF WriteOutput, NextUnit
  <2>2. disk = Blank BY <1>0, <2>1 DEF Exact
  <2>3. disk'.syms = collected[r] BY <2>1, <2>2 DEF Written, Blank, Valid
  <2>4. Owed(r)' \subseteq Keys(collected[r])
    BY <1>5, <1>8, <2>1 DEF HoldsOwed, Active
  <2> QED BY <2>1, <2>3, <2>4 DEF HoldsOwed
<1>15. CASE EndRun(r)
  <2>1. pc[r] = "start" /\ pc'[r] = "ended" /\ unit'[r] = unit[r] /\ disk' = disk
    BY <1>0, <1>15 DEF EndRun
  <2> QED BY <1>5, <1>7, <2>1 DEF HoldsOwed
<1>16. CASE Die(r)
  <2>1. pc'[r] = "ended" /\ unit'[r] = unit[r] /\ Active(r) BY <1>0, <1>16 DEF Die, Active
  <2>2. unit'[r] <= Len(units'[r]) BY <1>1, <1>6, <2>1
  <2> QED BY <1>1, <1>6, <2>1, <2>2 DEF GoesWell
<1> QED BY <1>9, <1>10, <1>11, <1>12, <1>13, <1>14, <1>15, <1>16 DEF RunStep

\* A later run can only end without a unit of its own.
LEMMA LaterStep ==
  ASSUME TurnInv, InTurn, NEW r \in Runs, NEW q \in Runs, q > r, RunStep(q), GoesWell(r)',
         GoesWell(r) => HoldsOwed(r)
  PROVE  HoldsOwed(r)'
<1>0. TypeInv /\ Turns BY DEF TurnInv
<1>1. /\ units' = units
      /\ \A s \in Runs : s # q =>
              /\ pc'[s] = pc[s] /\ unit'[s] = unit[s]
              /\ collected'[s] = collected[s] /\ base'[s] = base[s] /\ loaded'[s] = loaded[s]
              /\ (s \in failed' <=> s \in failed)
  BY <1>0, OneRun
<1>2. r # q /\ \A s \in 1..(r - 1) : s \in Runs /\ s # q BY RunsAssumption DEF Runs
<1>3. Gathered(r)' = Gathered(r) /\ (Ready(r)' <=> Ready(r)) BY <1>1, <1>2, EarlierKept
<1>4. Idle(q)' BY DEF GoesWell, Undisturbed
<1>5. EndRun(q) BY <1>0, <1>4, StepInTurn
<1>6. disk' = disk /\ pc'[q] = "ended" BY <1>0, <1>5 DEF EndRun, TypeInv, TypeOK
<1>7. Idle(q) BY <1>1, <1>4, <1>6 DEF Idle, Fresh
<1>8. Undisturbed(r)
  <2> SUFFICES ASSUME NEW s \in Runs, s > r, s # q PROVE Idle(s) BY <1>7 DEF Undisturbed
  <2>1. Idle(s)' BY DEF GoesWell, Undisturbed
  <2> QED BY <1>1, <2>1 DEF Idle, Fresh
<1>9. HoldsOwed(r) BY <1>1, <1>2, <1>3, <1>8 DEF GoesWell
<1>10. Owed(r)' = Owed(r) BY <1>1, <1>2, <1>3 DEF Owed, Behind, Collects
<1>11. KeysOf(units[r][unit[r]])' = KeysOf(units[r][unit[r]])
  BY <1>1, <1>2 DEF KeysOf, Symbols
<1> QED BY <1>1, <1>2, <1>6, <1>9, <1>10, <1>11 DEF HoldsOwed

\* The last of the runs before it that ends hands the file over.
LEMMA EarlierStep ==
  ASSUME TurnInv, InTurn, NEW r \in Runs, NEW q \in Runs, q < r, RunStep(q), GoesWell(r)',
         GoesWell(q) => HoldsOwed(q)
  PROVE  HoldsOwed(r)'
<1>0. TypeInv /\ Turns BY DEF TurnInv
<1>1. /\ units' = units /\ pc[q] # "ended"
      /\ \A s \in Runs : s # q =>
              /\ pc'[s] = pc[s] /\ unit'[s] = unit[s]
              /\ (s \in failed' <=> s \in failed)
      /\ failed \subseteq failed'
  BY <1>0, OneRun
<1>2. q \in 1..(r - 1) /\ q # r BY RunsAssumption DEF Runs
<1>3. pc'[q] = "ended" BY <1>2 DEF GoesWell, Ready
<1>4. EndRun(q) \/ Die(q) BY <1>0, <1>3, StepInTurn
<1>5. disk' = disk /\ unit' = unit BY <1>4 DEF EndRun, Die
<1>6. \A s \in Runs : s > q => Idle(s)
  <2>1. \A s \in Runs : s > q => q \in 1..(s - 1) BY RunsAssumption DEF Runs
  <2> QED BY <1>0, <1>1, <2>1 DEF Turns, Ready
<1>7. Idle(r) BY <1>2, <1>6, RunsAssumption DEF Runs
<1>8. pc[r] \in {"start", "ended"} /\ Behind(r)' = {}
  <2>1. /\ Len(units[r]) \in Nat /\ DOMAIN units[r] = 1..Len(units[r]) /\ unit[r] \in Nat \ {0}
        /\ Active(r) => unit[r] \in DOMAIN units[r]
        /\ pc[r] \in {"start", "match", "write", "ended"}
    BY <1>0, UnitTypes
  <2>2. CASE Fresh(r)
    <3>1. \A m \in DOMAIN units[r] : ~(m < unit[r]) BY <2>1, <2>2 DEF Fresh
    <3> QED BY <1>1, <1>5, <2>2, <3>1 DEF Fresh, Behind
  <2>3. CASE Len(units[r]) = 0
    <3>1. DOMAIN units[r] = {} BY <2>1, <2>3
    <3> QED BY <1>1, <2>1, <3>1 DEF Active, Behind
  <2> QED BY <1>7, <2>2, <2>3 DEF Idle
<1>9. ASSUME NEW e \in Gathered(r)' PROVE Key(e) \in Keys(disk.syms)
  <2>1. PICK p \in Earlier(r)' : \E t \in UnitsOf(p)' : e \in Symbols(t)
    BY DEF Gathered, Symbols
  <2>2. PICK t \in UnitsOf(p)' : e \in Symbols(t) BY <2>1
  <2>3. /\ p \in 1..(r - 1) /\ Collects(p)
        /\ \A s \in p..(r - 1) : Completed(s)'
    BY DEF Earlier, Collects
  <2>4. PICK n \in DOMAIN units[p] : t = units[p][n] BY <1>1 DEF UnitsOf
  <2>5. p \in Runs /\ p \in p..(r - 1) BY <2>3, RunsAssumption DEF Runs
  <2>6. /\ Len(units[p]) \in Nat /\ DOMAIN units[p] = 1..Len(units[p]) BY <1>0, <2>5, UnitTypes
  <2>7. Len(units[p]) # 0 BY <2>4, <2>6
  <2>8. ~(p > q)
    <3> SUFFICES ASSUME p > q PROVE FALSE OBVIOUS
    <3>1. Fresh(p) BY <1>6, <2>5, <2>7 DEF Idle
    <3>2. pc'[p] = "ended" /\ p # q BY <2>3, <2>5, RunsAssumption DEF Completed, Runs
    <3> QED BY <1>1, <2>5, <3>1, <3>2 DEF Fresh
  <2>9. q \in p..(r - 1) BY <1>2, <2>3, <2>5, <2>8, RunsAssumption DEF Runs
  <2>10. q \notin failed /\ unit[q] > Len(units[q])
    BY <1>1, <1>5, <2>3, <2>9 DEF Completed
  <2>11. GoesWell(q)
    <3>1. ASSUME NEW s \in 1..(q - 1) PROVE pc[s] = "ended"
      <4>1. s \in 1..(r - 1) /\ s \in Runs /\ s # q BY <1>2, RunsAssumption DEF Runs
      <4> QED BY <1>1, <4>1 DEF GoesWell, Ready
    <3> QED BY <1>6, <2>10, <3>1 DEF GoesWell, Ready, Undisturbed
  <2>12. pc[q] # "write"
    <3>1. Active(q) => unit[q] \in 1..Len(units[q]) /\ Len(units[q]) \in Nat BY <1>0, UnitTypes
    <3> QED BY <2>10, <3>1 DEF Active
  <2>13. Owed(q) \subseteq Keys(disk.syms) BY <2>11, <2>12 DEF HoldsOwed
  <2>14. CASE p = q
    <3>1. n < unit[q] BY <2>4, <2>6, <2>10, <2>14, UnitTypes, <1>0
    <3>2. t \in Behind(q) BY <2>4, <2>14, <3>1 DEF Behind
    <3>3. Key(e) \in KeysOf(t) BY <2>2 DEF KeysOf
    <3> QED BY <2>3, <2>13, <2>14, <3>2, <3>3 DEF Owed
  <2>15. CASE p # q
    <3>1. p \in 1..(q - 1) BY <2>3, <2>8, <2>15, RunsAssumption DEF Runs
    <3>2. ASSUME NEW s \in p..(q - 1) PROVE Completed(s)
      <4>1. s \in p..(r - 1) /\ s \in Runs /\ s # q
        BY <1>2, <2>3, RunsAssumption DEF Runs
      <4>2. Completed(s)' BY <2>3, <4>1
      <4> QED BY <1>1, <4>1, <4>2 DEF Completed
    <3>3. p \in Earlier(q) BY <2>3, <3>1, <3>2 DEF Earlier
    <3>4. t \in UnitsOf(p) BY <2>4 DEF UnitsOf
    <3>5. e \in Gathered(q) BY <2>2, <3>3, <3>4 DEF Gathered
    <3> QED BY <2>13, <3>5 DEF Owed
  <2> QED BY <2>14, <2>15
<1>10. Owed(r)' \subseteq Keys(disk'.syms)
  <2>1. \A t \in Behind(r)' : FALSE BY <1>8
  <2>2. Owed(r)' = {Key(e) : e \in Gathered(r)'} BY <2>1 DEF Owed
  <2> QED BY <1>5, <1>9, <2>2
<1> QED BY <1>1, <1>2, <1>8, <1>10 DEF HoldsOwed

LEMMA OwedInit == Init => OwedInv
<1> SUFFICES ASSUME Init, NEW r \in Runs PROVE HoldsOwed(r) BY DEF OwedInv
<1>1. pc[r] = "start" /\ unit[r] = 1 /\ \A q \in Runs : pc[q] = "start" BY DEF Init
<1>2. Earlier(r) = {}
  <2> SUFFICES ASSUME NEW p \in Earlier(r) PROVE FALSE OBVIOUS
  <2>1. p \in 1..(r - 1) /\ Completed(p)
    <3>1. p \in 1..(r - 1) /\ \A q \in p..(r - 1) : Completed(q) BY DEF Earlier
    <3>2. p \in p..(r - 1) BY <3>1, RunsAssumption DEF Runs
    <3> QED BY <3>1, <3>2
  <2>2. p \in Runs BY <2>1, RunsAssumption DEF Runs
  <2> QED BY <1>1, <2>1, <2>2 DEF Completed
<1>3. Behind(r) = {}
  <2>1. TypeInv BY TypeInit
  <2>2. \A m \in DOMAIN units[r] : ~(m < 1) BY <2>1, UnitTypes
  <2> QED BY <1>1, <2>2 DEF Behind
<1>4. Owed(r) = {} BY <1>2, <1>3 DEF Owed, Gathered
<1> QED BY <1>1, <1>4 DEF HoldsOwed

LEMMA OwedNext == TurnInv /\ OwedInv /\ [Next]_vars => OwedInv'
<1> SUFFICES ASSUME TurnInv, OwedInv, [Next]_vars, InTurn', NEW r \in Runs, GoesWell(r)'
             PROVE  HoldsOwed(r)'
  BY DEF OwedInv
<1>1. ASSUME NEW q \in Runs, RunStep(q) PROVE HoldsOwed(r)'
  <2>1. InTurn BY <1>1, OneRun DEF TurnInv
  <2>2. q = r \/ q > r \/ q < r BY RunsAssumption DEF Runs
  <2>3. \A s \in Runs : GoesWell(s) => HoldsOwed(s) BY <2>1 DEF OwedInv
  <2> QED BY <1>1, <2>1, <2>2, <2>3, OwnStep, LaterStep, EarlierStep
<1>2. ASSUME UNCHANGED vars PROVE HoldsOwed(r)'
  <2>1. InTurn BY <1>2 DEF vars, InTurn
  <2>2. GoesWell(r) BY <1>2 DEF vars, GoesWell, Ready, Undisturbed, Idle, Fresh
  <2>3. HoldsOwed(r) BY <2>1, <2>2 DEF OwedInv
  <2>4. \A q \in 1..(r - 1) : pc'[q] = pc[q] /\ unit'[q] = unit[q] /\ (q \in failed' <=> q \in failed)
    BY <1>2 DEF vars
  <2>5. Gathered(r)' = Gathered(r) BY <1>2, <2>4, EarlierKept DEF vars
  <2>6. Owed(r)' = Owed(r) BY <1>2, <2>5 DEF vars, Owed, Behind, Collects
  <2>7. KeysOf(units[r][unit[r]])' = KeysOf(units[r][unit[r]]) BY <1>2 DEF vars, KeysOf, Symbols
  <2> QED BY <1>2, <2>3, <2>6, <2>7 DEF vars, HoldsOwed
<1> QED BY <1>1, <1>2 DEF Next, RunStep

\* What a run has looked at of its units.
Looked(r) ==
  {d \in Symbol : \/ \E t \in Behind(r) : d \in Symbols(t)
                  \/ pc[r] = "match" /\ \E n \in 1..(decl[r] - 1) : d = Unit(r)[n]
                  \/ pc[r] = "write" /\ d \in Symbols(units[r][unit[r]])}

\* Every clash with what earlier first passes have gathered is reported by then.
Judged(r, d) ==
  \A k \in Checks[r] \cap Rules : \A e \in Gathered(r) :
    Clash(d, e) /\ OneMeaning(e) =>
      \E x \in reports : x.run = r /\ x.rule = k /\ x.decl = d /\ e \in x.others
ClashInv ==
  InTurn => \A r \in Runs : Ready(r) /\ r \notin failed => \A d \in Looked(r) : Judged(r, d)

\* The declaration at hand is judged when its turn comes.
LEMMA MatchJudges ==
  ASSUME TurnInv, OwedInv, InTurn, NEW r \in Runs, Match(r), r \notin failed,
         NEW d \in Symbol, d = Unit(r)[decl[r]], Gathered(r)' = Gathered(r)
  PROVE  Judged(r, d)'
<1> SUFFICES ASSUME NEW k \in Checks[r] \cap Rules, NEW e \in Gathered(r),
                    Clash(d, e), OneMeaning(e)
             PROVE  \E x \in reports' : x.run = r /\ x.rule = k /\ x.decl = d /\ e \in x.others
  BY DEF Judged, Clash, OneMeaning
<1>1. TypeInv /\ Turns BY DEF TurnInv
<1>2. pc[r] = "match" BY DEF Match
<1>3. GoesWell(r)
  <2>1. RunStep(r) /\ ~EndRun(r) BY <1>2 DEF RunStep, EndRun
  <2> QED BY <1>1, <1>2, <2>1, StepInTurn DEF GoesWell
<1>4. HoldsOwed(r) BY <1>3 DEF OwedInv
<1>5. ~d.ignored /\ d.def /\ e.def /\ d.name = e.name /\ d.file # e.file BY DEF Clash, Symbol
<1> DEFINE table == Table(r, k)
<1>6. Owed(r) \subseteq Keys(table) /\ table \in Seq(Symbol)
  <2>1. Owed(r) \subseteq Keys(table) BY <1>2, <1>4 DEF HoldsOwed, Table, Load
  <2>2. table \in Seq(Symbol) BY <1>1 DEF Table, Load, TypeInv, TypeOK
  <2> QED BY <2>1, <2>2
<1> HIDE DEF table
<1>7. e \in SetOf(table)
  <2>1. Key(e) \in Keys(table) BY <1>6 DEF Owed
  <2>2. PICK i \in DOMAIN table : Key(table[i]) = Key(e) BY <2>1 DEF Keys
  <2>3. table[i] \in Symbol BY <1>6, <2>2, ElementOfSeq, LenProperties
  <2>4. table[i].file = e.file /\ table[i].pos = e.pos BY <2>2 DEF Key
  <2>5. table[i] = e BY <2>3, <2>4 DEF OneMeaning
  <2> QED BY <2>2, <2>5 DEF SetOf
<1> DEFINE others == Elsewhere(table, d)
           x == [rule |-> k, decl |-> d, run |-> r, others |-> others]
           rules == {l \in Checks[r] \cap Rules : Matches(l, d)}
<1>8. e \in others BY <1>5, <1>7 DEF Elsewhere
<1>9. Report(r, k, d) = {x} BY <1>5, <1>8 DEF Report, table
<1>10. k \in rules BY <1>5 DEF Matches
<1>11. reports' = reports \cup UNION {Report(r, l, d) : l \in rules}
  <2>1. reports' = reports \cup UNION {Report(r, l, Unit(r)[decl[r]]) :
                                         l \in {m \in Checks[r] \cap Rules : Matches(m, Unit(r)[decl[r]])}}
    BY DEF Match
  <2> QED BY <2>1
<1> HIDE DEF rules, others
<1>12. x \in reports' BY <1>9, <1>10, <1>11
<1>13. x.run = r /\ x.rule = k /\ x.decl = d /\ x.others = others OBVIOUS
<1> HIDE DEF x
<1> QED BY <1>8, <1>12, <1>13

LEMMA Upto ==
  \A m \in Nat \ {0} : \A n \in 1..((m + 1) - 1) : n \in 1..(m - 1) \/ n = m
OBVIOUS

\* Behind the last declaration of its unit a run has looked at all of it.
LEMMA AllLooked ==
  ASSUME TypeInv, NEW r \in Runs, pc[r] = "match", decl[r] > Len(Unit(r))
  PROVE  Symbols(units[r][unit[r]]) \subseteq Looked(r)
<1> SUFFICES ASSUME NEW s \in Symbols(units[r][unit[r]]) PROVE s \in Looked(r) OBVIOUS
<1>1. unit[r] <= Len(units[r]) BY DEF TypeInv, InUnit
<1>2. Unit(r) \in Seq(AllDecls) /\ Len(Unit(r)) \in Nat BY <1>1, CurrentUnit
<1>3. PICK n \in DOMAIN Unit(r) : s = Unit(r)[n] BY DEF Symbols, Unit
<1>4. DOMAIN Unit(r) = 1..Len(Unit(r)) BY <1>2, LenProperties
<1>5. decl[r] \in Nat BY DEF TypeInv, TypeOK
<1>6. n \in 1..(decl[r] - 1)
  <2> DEFINE l == Len(Unit(r))
  <2>1. l \in Nat /\ n \in 1..l /\ decl[r] > l BY <1>2, <1>3, <1>4
  <2> HIDE DEF l
  <2> QED BY <1>5, <2>1
<1>7. s \in Symbol BY DEF Symbols
<1> QED BY <1>3, <1>6, <1>7 DEF Looked

\* A step of the run itself.
LEMMA ClashOwn ==
  ASSUME TurnInv, OwedInv, InTurn, NEW r \in Runs, RunStep(r), Ready(r)', r \notin failed',
         \A d \in Looked(r) : Judged(r, d), NEW d \in Looked(r)', Gathered(r)' = Gathered(r)
  PROVE  Judged(r, d)'
<1>0. /\ TypeInv /\ Turns
      /\ pc \in [Runs -> {"start", "match", "write", "ended"}]
      /\ unit \in [Runs -> Nat \ {0}] /\ decl \in [Runs -> Nat \ {0}]
  BY DEF TurnInv, TypeInv, TypeOK
<1>1. units' = units /\ reports \subseteq reports' /\ failed \subseteq failed' BY <1>0, OneRun
<1>2. ASSUME d \in Looked(r) PROVE Judged(r, d)'
  <2>1. Judged(r, d) BY <1>2
  <2> QED BY <1>1, <2>1 DEF Judged, Clash, OneMeaning
<1>3. /\ Len(units[r]) \in Nat /\ DOMAIN units[r] = 1..Len(units[r]) /\ unit[r] \in Nat \ {0}
      /\ decl[r] \in Nat \ {0}
      /\ Active(r) => unit[r] \in DOMAIN units[r]
  BY <1>0, UnitTypes
<1> DEFINE u == units[r][unit[r]]
<1>4. unit'[r] = unit[r] => Behind(r)' = Behind(r) BY <1>1 DEF Behind
<1>5. ASSUME Active(r), unit'[r] = unit[r] + 1 PROVE Behind(r)' \subseteq Behind(r) \cup {u}
  <2>1. \A m \in DOMAIN units[r] : m < unit[r] + 1 => m < unit[r] \/ m = unit[r]
    BY <1>3
  <2> QED BY <1>1, <1>5, <2>1 DEF Behind
<1>6. pc[r] = "match" /\ decl[r] > Len(Unit(r)) => Symbols(u) \subseteq Looked(r)
  BY <1>0, AllLooked
<1>7. unit'[r] = unit[r] => Unit(r)' = Unit(r) /\ Symbols(units[r][unit[r]])' = Symbols(u)
  BY <1>1 DEF Unit, Symbols
<1> HIDE DEF u
<1>8. CASE StartUnit(r)
  <2>1. pc[r] = "start" /\ pc'[r] = "match" /\ unit'[r] = unit[r] /\ decl'[r] = 1
    BY <1>0, <1>8 DEF StartUnit
  <2>2. d \in Symbol /\ \E t \in Behind(r)' : d \in Symbols(t)
    <3>1. 1..(1 - 1) = {} OBVIOUS
    <3> QED BY <2>1, <3>1 DEF Looked, Symbols
  <2>3. d \in Looked(r) BY <1>4, <2>1, <2>2 DEF Looked
  <2> QED BY <1>2, <2>3
<1>9. CASE Match(r)
  <2>1. pc[r] = "match" /\ pc'[r] = "match" /\ unit'[r] = unit[r] /\ decl'[r] = decl[r] + 1
    BY <1>0, <1>9 DEF Match
  <2>2. CASE d \in Looked(r) BY <1>2, <2>2
  <2>3. CASE d \notin Looked(r)
    <3>1. Unit(r)' = Unit(r) /\ Behind(r)' = Behind(r) BY <1>4, <1>7, <2>1
    <3>2. /\ d \in Symbol
          /\ \/ \E t \in Behind(r) : d \in Symbols(t)
             \/ \E n \in 1..(decl'[r] - 1) : d = Unit(r)[n]
      BY <2>1, <3>1 DEF Looked, Symbols
    <3>4. \A n \in 1..(decl'[r] - 1) : n \in 1..(decl[r] - 1) \/ n = decl[r]
      <4>1. decl[r] \in Nat \ {0} BY <1>3
      <4> QED BY <2>1, <4>1, Upto
    <3>5. d \in Symbol /\ d = Unit(r)[decl[r]] BY <2>1, <2>3, <3>2, <3>4 DEF Looked
    <3>6. r \notin failed BY <1>1
    <3> QED BY <1>9, <3>5, <3>6, MatchJudges
  <2> QED BY <2>2, <2>3
<1>10. CASE EndUnit(r) \/ WriteOutput(r)
  <2>1. /\ pc'[r] = "start" /\ unit'[r] = unit[r] + 1 /\ Active(r)
        /\ pc[r] # "write" => pc[r] = "match" /\ decl[r] > Len(Unit(r))
    <3>1. CASE EndUnit(r) BY <1>0, <3>1 DEF EndUnit, NextUnit, Active
    <3>2. CASE WriteOutput(r)
      <4>1. pc[r] = "write" /\ NextUnit(r) BY <3>2 DEF WriteOutput
      <4> QED BY <1>0, <4>1 DEF NextUnit, Active
    <3> QED BY <1>10, <3>1, <3>2
  <2>2. Symbols(u) \subseteq Looked(r)
    <3>1. CASE pc[r] = "write"
      <4>1. Symbols(u) = Symbols(units[r][unit[r]]) BY DEF u
      <4> QED BY <3>1, <4>1 DEF Looked, Symbols
    <3> QED BY <1>6, <2>1, <3>1
  <2>3. d \in Symbol /\ \E t \in Behind(r)' : d \in Symbols(t) BY <2>1 DEF Looked, Symbols
  <2>4. d \in Looked(r) BY <1>5, <2>1, <2>2, <2>3 DEF Looked
  <2> QED BY <1>2, <2>4
<1>11. CASE OpenOutput(r)
  <2>1. /\ pc[r] = "match" /\ decl[r] > Len(Unit(r)) /\ pc'[r] = "write" /\ unit'[r] = unit[r]
    BY <1>0, <1>11 DEF OpenOutput
  <2>2. Symbols(u) \subseteq Looked(r) BY <1>6, <2>1
  <2>3. d \in Symbol /\ ((\E t \in Behind(r)' : d \in Symbols(t)) \/ d \in Symbols(u))
    BY <1>7, <2>1 DEF Looked, Symbols
  <2>4. d \in Looked(r) BY <1>4, <2>1, <2>2, <2>3 DEF Looked
  <2> QED BY <1>2, <2>4
<1>12. CASE OpenFails(r) BY <1>12 DEF OpenFails
<1>13. CASE EndRun(r) \/ Die(r)
  <2>1. pc'[r] = "ended" /\ unit'[r] = unit[r] BY <1>0, <1>13 DEF EndRun, Die
  <2>2. d \in Symbol /\ \E t \in Behind(r)' : d \in Symbols(t) BY <2>1 DEF Looked, Symbols
  <2>3. d \in Looked(r) BY <1>4, <2>1, <2>2 DEF Looked
  <2> QED BY <1>2, <2>3
<1> QED BY <1>8, <1>9, <1>10, <1>11, <1>12, <1>13 DEF RunStep

LEMMA ClashNext == TurnInv /\ OwedInv /\ ClashInv /\ [Next]_vars => ClashInv'
<1> SUFFICES ASSUME TurnInv, OwedInv, ClashInv, [Next]_vars, InTurn', NEW r \in Runs,
                    Ready(r)', r \notin failed', NEW d \in Looked(r)'
             PROVE  Judged(r, d)'
  BY DEF ClashInv
<1>1. ASSUME NEW q \in Runs, RunStep(q) PROVE Judged(r, d)'
  <2>0. TypeInv /\ Turns /\ InTurn BY <1>1, OneRun DEF TurnInv
  <2>1. /\ units' = units /\ pc[q] # "ended" /\ reports \subseteq reports' /\ failed \subseteq failed'
        /\ \A s \in Runs : s # q =>
              /\ pc'[s] = pc[s] /\ unit'[s] = unit[s] /\ decl'[s] = decl[s]
              /\ (s \in failed' <=> s \in failed)
    BY <1>1, <2>0, OneRun
  <2>2. \A s \in 1..(r - 1) : s \in Runs /\ s # r BY RunsAssumption DEF Runs
  <2>3. CASE q = r
    <3>1. Gathered(r)' = Gathered(r) /\ (Ready(r)' <=> Ready(r))
      BY <2>1, <2>2, <2>3, EarlierKept
    <3>2. \A s \in Looked(r) : Judged(r, s) BY <2>0, <2>1, <3>1 DEF ClashInv
    <3> QED BY <1>1, <2>0, <2>3, <3>1, <3>2, ClashOwn
  <2>4. CASE q # r /\ q \notin 1..(r - 1)
    <3>1. Gathered(r)' = Gathered(r) /\ (Ready(r)' <=> Ready(r))
      BY <2>1, <2>2, <2>4, EarlierKept
    <3>2. \A s \in Looked(r) : Judged(r, s) BY <2>0, <2>1, <3>1 DEF ClashInv
    <3>3. Looked(r)' = Looked(r) BY <2>1, <2>4 DEF Looked, Behind, Unit, Symbols
    <3>4. Judged(r, d) BY <3>2, <3>3
    <3> QED BY <2>1, <3>1, <3>4 DEF Judged, Clash, OneMeaning
  <2>5. CASE q \in 1..(r - 1)
    <3>1. Idle(r) /\ r # q BY <2>0, <2>1, <2>2, <2>5 DEF Turns, Ready
    <3>2. /\ Len(units[r]) \in Nat /\ DOMAIN units[r] = 1..Len(units[r]) /\ unit[r] \in Nat \ {0}
          /\ pc[r] \in {"start", "match", "write", "ended"}
      BY <2>0, UnitTypes
    <3>3. ~Active(r)
      <4>1. Active(r) => unit[r] \in DOMAIN units[r] BY <2>0, UnitTypes
      <4> QED BY <3>1, <3>2, <4>1 DEF Idle, Fresh, Active
    <3>4. \A m \in DOMAIN units[r] : ~(m < unit[r]) BY <3>1, <3>2 DEF Idle, Fresh
    <3>5. Behind(r)' = {} BY <2>1, <3>1, <3>4 DEF Behind
    <3>6. d \in Symbol /\ \E t \in Behind(r)' : d \in Symbols(t)
      BY <2>1, <3>1, <3>3 DEF Looked, Active, Symbols
    <3> QED BY <3>5, <3>6
  <2> QED BY <2>3, <2>4, <2>5
<1>2. ASSUME UNCHANGED vars PROVE Judged(r, d)'
  <2>1. InTurn /\ Ready(r) /\ r \notin failed BY <1>2 DEF vars, InTurn, Ready
  <2>2. Looked(r)' = Looked(r) BY <1>2 DEF vars, Looked, Behind, Unit, Symbols
  <2>3. Judged(r, d) BY <2>1, <2>2 DEF ClashInv
  <2>4. \A q \in 1..(r - 1) : pc'[q] = pc[q] /\ unit'[q] = unit[q] /\ (q \in failed' <=> q \in failed)
    BY <1>2 DEF vars
  <2>5. Gathered(r)' = Gathered(r) BY <1>2, <2>4, EarlierKept DEF vars
  <2> QED BY <1>2, <2>3, <2>5 DEF vars, Judged, Clash, OneMeaning
<1> QED BY <1>1, <1>2 DEF Next, RunStep

LEMMA ClashInit == Init => ClashInv
<1> SUFFICES ASSUME Init, NEW r \in Runs PROVE Looked(r) = {} BY DEF ClashInv
<1>1. pc[r] = "start" /\ unit[r] = 1 BY DEF Init
<1>2. TypeInv BY TypeInit
<1>3. \A m \in DOMAIN units[r] : ~(m < 1) BY <1>2, UnitTypes
<1>4. Behind(r) = {} BY <1>1, <1>3 DEF Behind
<1> QED BY <1>1, <1>4 DEF Looked

PassInv == TurnInv /\ OwedInv /\ ClashInv

LEMMA PassesHold == PassInv => PassesComplete
<1> SUFFICES ASSUME PassInv PROVE PassesComplete OBVIOUS
<1>0. TypeInv /\ Turns BY DEF PassInv, TurnInv
<1>1. ASSUME NEW r \in Runs, InTurn, Completed(r), NEW t \in UnitsOf(r)
      PROVE  Ready(r) /\ t \in Behind(r)
  <2>1. PICK n \in DOMAIN units[r] : t = units[r][n] BY DEF UnitsOf
  <2>2. /\ Len(units[r]) \in Nat /\ DOMAIN units[r] = 1..Len(units[r]) /\ unit[r] \in Nat \ {0}
    BY <1>0, UnitTypes
  <2>3. n < unit[r] /\ Len(units[r]) # 0 BY <1>1, <2>1, <2>2 DEF Completed
  <2>4. ~Idle(r) BY <1>1, <2>3 DEF Idle, Fresh, Completed
  <2> QED BY <1>0, <1>1, <2>1, <2>3, <2>4 DEF Turns, Behind
<1>2. PassCollects
  <2> SUFFICES ASSUME NEW r \in Runs, InTurn, Collects(r), Completed(r), Latest(r),
                      NEW t \in UnitsOf(r)
               PROVE  KeysOf(t) \subseteq Keys(disk.syms)
    BY DEF PassCollects
  <2>1. Ready(r) /\ t \in Behind(r) BY <1>1
  <2>2. Undisturbed(r) BY DEF Latest, Undisturbed, Idle, Fresh
  <2>3. GoesWell(r) /\ pc[r] = "ended" BY <2>1, <2>2 DEF GoesWell, Completed
  <2>4. Owed(r) \subseteq Keys(disk.syms) BY <2>3 DEF PassInv, OwedInv, HoldsOwed
  <2> QED BY <2>1, <2>4 DEF Owed
<1>3. ClashesReported
  <2> SUFFICES ASSUME NEW r \in Runs, InTurn, Completed(r), NEW t \in UnitsOf(r),
                      NEW d \in Symbols(t)
               PROVE  Judged(r, d)
    BY DEF ClashesReported, Judged
  <2>1. Ready(r) /\ t \in Behind(r) BY <1>1
  <2>2. d \in Looked(r) BY <2>1 DEF Looked, Symbols
  <2> QED BY <2>1, <2>2 DEF PassInv, ClashInv, Completed
<1> QED BY <1>2, <1>3 DEF PassesComplete

\* Runs in turn, any number of them over any units: a first pass that went well leaves
\* all its symbols in the file, and a second pass finds every clash with what the first
\* passes before it have seen, whatever went wrong before those.
THEOREM PassesDoTheirWork == Spec => []PassesComplete
<1>1. Init => PassInv BY TurnInit, OwedInit, ClashInit DEF PassInv
<1>2. PassInv /\ [Next]_vars => PassInv' BY TurnNext, OwedNext, ClashNext DEF PassInv
<1> QED BY <1>1, <1>2, PassesHold, PTL DEF Spec
-----------------------------------------------------------------------------
(***************************************************************************)
(* The declarations of one file.  What makes a declaration or a use fit is *)
(* a matter of what stands before it, so it remains true of all of them;   *)
(* FileInv says that.                                                      *)
(***************************************************************************)

FileSpec == FileInit /\ [][FileNext]_fileVars

NameUses == [do : {"use"}, by : {"f", "g", "file"}, how : {"value", "sizeof", "call_0", "call_1"}]

ItemsTyped == items \in Seq(Declarations \cup NameUses)

StaticsInternal == \A i \in Redecls : Static(i) => Internal
ObjectsFit ==
  \A i \in Redecls : IsObject =>
    /\ items[i].file # "block" /\ items[i].storage \in {"plain", "static", "extern"}
    /\ DeclsBefore(i) # {} /\ Internal => items[i].storage # "plain"
OneBody == \A i, j \in Redecls : items[i].def /\ items[j].def => i = j
EmptyBody == \A i, j \in Redecls : items[i].def /\ items[i].params = "none" => items[j].params = "none" \/ IsObject
Sees(i) == {j \in DeclsBefore(i) : Visible(j, i)}
UsesFit ==
  \A i \in DOMAIN items \ Redecls :
    /\ Sees(i) # {}
    /\ items[i].how \in IF IsObject THEN {"value", "sizeof"} ELSE {"call_0", "call_1"}
    /\ ~IsObject => CallFits(Found(i), items[i].how)

FileInv == ItemsTyped /\ StaticsInternal /\ ObjectsFit /\ OneBody /\ EmptyBody /\ UsesFit

-----------------------------------------------------------------------------
\* Sets of places have a first and a last one.
LEMMA LeastPlace ==
  ASSUME NEW S \in SUBSET Nat, S # {}
  PROVE  \E i \in S : \A j \in S : i <= j
<1> DEFINE R == OpToRel(<, Nat)
<1>1. IsWellFoundedOn(R, Nat) BY NatLessThanWellFounded
<1>2. \A i, j \in S : <<j, i>> \in R <=> j < i BY DEF OpToRel
<1> HIDE DEF R
<1>3. PICK i \in S : \A j \in S : ~ (<<j, i>> \in R) BY <1>1, WFMin
<1>4. \A j \in S : ~ (j < i) BY <1>2, <1>3
<1>5. \A j \in S : i <= j BY <1>4
<1> QED BY <1>5

LEMMA NearestIs ==
  ASSUME NEW n \in Nat, NEW S \in SUBSET (1 .. n), S # {}
  PROVE  Nearest(S) \in S /\ \A k \in S : k <= Nearest(S)
<1> DEFINE Back == {n - i : i \in S}
<1>1. Back \in SUBSET Nat /\ Back # {}
  <2>1. \A i \in S : n - i \in Nat OBVIOUS
  <2>2. \A k \in Back : k \in Nat BY <2>1
  <2>3. Back # {} OBVIOUS
  <2> QED BY <2>2, <2>3
<1>2. PICK k \in Back : \A j \in Back : k <= j
  <2> HIDE DEF Back
  <2> QED BY <1>1, LeastPlace
<1>3. PICK m \in S : k = n - m OBVIOUS
<1>4. ASSUME NEW i \in S PROVE i <= m
  <2>1. k <= n - i BY <1>2
  <2> QED BY <1>3, <2>1
<1> QED BY <1>4 DEF Nearest

\* What ItemsTyped says of the places.
PlacesRight ==
  /\ Len(items) \in Nat /\ DOMAIN items = 1 .. Len(items)
  /\ \A i \in DOMAIN items : items[i] \in Declarations \cup NameUses
  /\ \A i \in DOMAIN items : Declares(i) => items[i] \in Declarations
  /\ \A i \in DOMAIN items : ~Declares(i) => items[i] \in NameUses
  /\ \A i \in 1 .. Len(items) + 1 : DeclsBefore(i) = {j \in Redecls : j < i}
  /\ Redecls \subseteq 1 .. Len(items)
LEMMA Places == ItemsTyped => PlacesRight
<1> SUFFICES ASSUME ItemsTyped PROVE PlacesRight OBVIOUS
<1>1. Len(items) \in Nat /\ DOMAIN items = 1 .. Len(items) BY LenProperties DEF ItemsTyped
<1>2. \A i \in DOMAIN items : items[i] \in Declarations \cup NameUses BY <1>1, ElementOfSeq DEF ItemsTyped
<1>3. \A d \in Declarations : d.do = "declare" BY DEF Declarations
<1>4. \A d \in NameUses : d.do = "use" BY DEF NameUses
<1>5. \A i \in 1 .. Len(items) + 1 : DeclsBefore(i) = {j \in Redecls : j < i}
  BY <1>1 DEF DeclsBefore, Redecls
<1>6. Redecls \subseteq 1 .. Len(items) BY <1>1 DEF Redecls
<1> QED BY <1>1, <1>2, <1>3, <1>4, <1>5, <1>6 DEF Declares, PlacesRight

FirstRight ==
  Redecls # {} =>
    /\ First \in Redecls /\ DeclsBefore(First) = {}
    /\ \A i \in Redecls : First <= i /\ (DeclsBefore(i) = {} <=> i = First)
LEMMA FirstIs == ItemsTyped => FirstRight
<1> SUFFICES ASSUME ItemsTyped, Redecls # {} PROVE FirstRight BY DEF FirstRight
<1>1. Redecls \in SUBSET Nat BY Places DEF PlacesRight
<1>2. PICK m \in Redecls : \A j \in Redecls : m <= j BY <1>1, LeastPlace
<1>3. \A i \in Redecls : i \in 1 .. Len(items) + 1 /\ i \in Nat BY Places DEF PlacesRight
<1>4. \A i \in Redecls : DeclsBefore(i) = {j \in Redecls : j < i} BY <1>3, Places DEF PlacesRight
<1>5. DeclsBefore(m) = {} BY <1>2, <1>3, <1>4
<1>6. \A i \in Redecls : DeclsBefore(i) = {} => i = m BY <1>2, <1>3, <1>4
<1>7. First = m BY <1>5, <1>6 DEF First, Redecls
<1> QED BY <1>2, <1>5, <1>6, <1>7 DEF FirstRight

-----------------------------------------------------------------------------
\* What stands before a place does not change when the file goes on.
Goes(x) ==
  /\ x \in Declarations \cup NameUses
  /\ items' = Append(items, x) /\ UNCHANGED entity

LEMMA GoesOn ==
  ASSUME ItemsTyped, NEW x, Goes(x)
  PROVE  /\ ItemsTyped' /\ Len(items)' = Len(items) + 1
         /\ PlacesRight /\ PlacesRight'
         /\ \A i \in 1 .. Len(items) : items'[i] = items[i] /\ Declares(i)' = Declares(i)
         /\ items'[Len(items) + 1] = x
         /\ \A i \in 1 .. Len(items) + 1 : DeclsBefore(i)' = DeclsBefore(i)
         /\ Redecls' = Redecls \cup (IF x.do = "declare" THEN {Len(items) + 1} ELSE {})
<1>1. /\ items' \in Seq(Declarations \cup NameUses) /\ Len(items)' = Len(items) + 1
      /\ \A i \in 1 .. Len(items) : items'[i] = items[i]
      /\ items'[Len(items) + 1] = x
  BY AppendProperties DEF ItemsTyped, Goes
<1>2. ItemsTyped' BY <1>1 DEF ItemsTyped
<1>3. PlacesRight BY Places
<1>4. ItemsTyped' => PlacesRight' BY Places, PTL
<1>5. \A i \in 1 .. Len(items) : Declares(i)' = Declares(i) BY <1>1 DEF Declares
<1>6. Redecls' = Redecls \cup (IF x.do = "declare" THEN {Len(items) + 1} ELSE {})
  BY <1>1, <1>2, <1>3, <1>4, <1>5 DEF Redecls, PlacesRight, Declares
<1>7. \A i \in 1 .. Len(items) + 1 : DeclsBefore(i)' = DeclsBefore(i)
  BY <1>1, <1>3, <1>5 DEF DeclsBefore, PlacesRight
<1> QED BY <1>1, <1>2, <1>3, <1>4, <1>5, <1>6, <1>7

\* Nor does what is said of a declaration, or of the one that a use finds.
LEMMA SameBehind ==
  ASSUME ItemsTyped, NEW x, Goes(x)
  PROVE  /\ Redecls # {} => First' = First /\ (Internal' <=> Internal) /\ First \in Redecls
         /\ \A i \in Redecls : HasPrototype(i)' = HasPrototype(i) /\ Default(i)' = Default(i)
         /\ \A i \in DOMAIN items : Sees(i)' = Sees(i) /\ Found(i)' = Found(i)
<1>1. /\ PlacesRight /\ PlacesRight' /\ Len(items)' = Len(items) + 1
      /\ \A i \in 1 .. Len(items) : items'[i] = items[i] /\ Declares(i)' = Declares(i)
      /\ \A i \in 1 .. Len(items) + 1 : DeclsBefore(i)' = DeclsBefore(i)
      /\ Redecls' = Redecls \cup (IF x.do = "declare" THEN {Len(items) + 1} ELSE {})
  BY GoesOn
<1>2. entity' = entity BY DEF Goes
<1>3. Len(items) \in Nat /\ Redecls \subseteq 1 .. Len(items) /\ DOMAIN items = 1 .. Len(items)
  BY <1>1 DEF PlacesRight
<1>4. ASSUME Redecls # {} PROVE First' = First /\ (Internal' <=> Internal) /\ First \in Redecls
  <2>1. FirstRight /\ FirstRight'
    <3>1. ItemsTyped' BY GoesOn
    <3>2. FirstRight BY FirstIs
    <3>3. ItemsTyped' => FirstRight' BY FirstIs, PTL
    <3> QED BY <3>1, <3>2, <3>3
  <2>2. First \in Redecls /\ First' \in Redecls' /\ First' <= First
    BY <1>1, <1>4, <2>1 DEF FirstRight
  <2>3. First' \in Redecls BY <1>1, <1>3, <2>2
  <2>4. First <= First' BY <1>4, <2>1, <2>3 DEF FirstRight
  <2>5. First' = First BY <1>3, <2>2, <2>3, <2>4
  <2>6. items'[First] = items[First] BY <1>1, <1>3, <2>2
  <2> QED BY <1>2, <2>2, <2>5, <2>6 DEF Internal, Static, IsObject, Cxx
<1>5. ASSUME NEW i \in Redecls
      PROVE  HasPrototype(i)' = HasPrototype(i) /\ Default(i)' = Default(i)
  <2>1. i \in 1 .. Len(items) /\ DeclsBefore(i)' = DeclsBefore(i) /\ DeclsBefore(i) \subseteq 1 .. Len(items)
    BY <1>1, <1>3 DEF PlacesRight
  <2>2. \A j \in DeclsBefore(i) \cup {i} : items'[j] = items[j] /\ j \in 1 .. Len(items) BY <1>1, <2>1
  <2>3. HasPrototype(i)' = HasPrototype(i)
    BY <1>2, <2>1, <2>2 DEF HasPrototype, WrittenPrototype, Cxx
  <2> DEFINE Given == {j \in DeclsBefore(i) \cup {i} :
                          /\ items[j].params \in {"a=1", "a=2"}
                          /\ items[i].file = "block" => j = i
                          /\ j # i => items[j].file # "block"}
  <2>5. Given' = Given
    <3>1. items'[i] = items[i] BY <2>2
    <3> QED BY <2>1, <2>2, <3>1
  <2>6. Given # {} => Nearest(Given) \in Given
    <3>1. Given \subseteq 1 .. Len(items) BY <2>1
    <3> HIDE DEF Given
    <3> QED BY <1>3, <3>1, NearestIs
  <2>7. Default(i) = IF Given = {} THEN "no_value" ELSE items[Nearest(Given)].params BY DEF Default
  <2>8. Default(i)' = IF Given' = {} THEN "no_value" ELSE items'[Nearest(Given)'].params BY DEF Default
  <2>9. Nearest(Given)' = Nearest(Given) BY <2>5 DEF Nearest
  <2>10. Given # {} => items'[Nearest(Given)] = items[Nearest(Given)] BY <2>2, <2>6
  <2> HIDE DEF Given
  <2> QED BY <2>3, <2>5, <2>7, <2>8, <2>9, <2>10
<1>6. ASSUME NEW i \in DOMAIN items PROVE Sees(i)' = Sees(i) /\ Found(i)' = Found(i)
  <2>1. i \in 1 .. Len(items) /\ DeclsBefore(i)' = DeclsBefore(i) /\ DeclsBefore(i) \subseteq 1 .. Len(items)
    BY <1>1, <1>3 DEF PlacesRight
  <2>2. ASSUME NEW j \in DeclsBefore(i) PROVE Visible(j, i)' = Visible(j, i)
    <3>1. \A k \in j + 1 .. i : k \in 1 .. Len(items) BY <1>3, <2>1
    <3>2. \A k \in j + 1 .. i : items'[k] = items[k] /\ Declares(k)' = Declares(k) BY <1>1, <3>1
    <3>3. items'[j] = items[j] BY <1>1, <2>1
    <3> QED BY <3>2, <3>3 DEF Visible
  <2>3. Sees(i)' = Sees(i) BY <2>1, <2>2 DEF Sees
  <2>4. Found(i) = Nearest(Sees(i)) /\ Found(i)' = Nearest(Sees(i)') BY DEF Found, Sees, Nearest
  <2> QED BY <2>3, <2>4
<1> QED BY <1>4, <1>5, <1>6

\* What a use finds is one of the declarations.
LEMMA FoundIs ==
  ItemsTyped => \A i \in DOMAIN items :
    Sees(i) # {} => Found(i) \in Sees(i) /\ Found(i) \in Redecls /\ Found(i) < i
<1> SUFFICES ASSUME ItemsTyped, NEW i \in DOMAIN items, Sees(i) # {}
             PROVE  Found(i) \in Sees(i) /\ Found(i) \in Redecls /\ Found(i) < i
  OBVIOUS
<1>1. PlacesRight BY Places
<1>2. Len(items) \in Nat /\ i \in 1 .. Len(items) + 1 BY <1>1 DEF PlacesRight
<1>3. DeclsBefore(i) = {j \in Redecls : j < i} /\ Redecls \subseteq 1 .. Len(items)
  BY <1>1, <1>2 DEF PlacesRight
<1>4. Sees(i) \subseteq DeclsBefore(i) BY DEF Sees
<1>5. Sees(i) \in SUBSET (1 .. Len(items)) BY <1>3, <1>4
<1>6. Nearest(Sees(i)) \in Sees(i) BY <1>2, <1>5, NearestIs
<1>7. Found(i) = Nearest(Sees(i)) BY DEF Found, Sees
<1> QED BY <1>3, <1>4, <1>6, <1>7

\* A declaration does not change what the earlier items have fitted to.
LEMMA UsesStillFit ==
  ASSUME FileInv, NEW x, Goes(x), NEW i \in DOMAIN items \ Redecls
  PROVE  /\ Sees(i)' # {}
         /\ items'[i].how \in IF IsObject' THEN {"value", "sizeof"} ELSE {"call_0", "call_1"}
         /\ ~IsObject' => CallFits(Found(i), items[i].how)'
<1>1. ItemsTyped /\ UsesFit BY DEF FileInv
<1>2. items'[i] = items[i]
  <2>1. DOMAIN items = 1 .. Len(items) BY <1>1, Places DEF PlacesRight
  <2> QED BY <1>1, <2>1, GoesOn
<1>3. IsObject' <=> IsObject BY DEF Goes, IsObject
<1>4. Sees(i)' = Sees(i) /\ Found(i)' = Found(i) BY <1>1, SameBehind
<1>5. Sees(i) # {} BY <1>1 DEF UsesFit
<1>6. Found(i) \in Redecls BY <1>1, <1>5, FoundIs
<1>7. HasPrototype(Found(i))' = HasPrototype(Found(i)) /\ Default(Found(i))' = Default(Found(i))
  <2> DEFINE f == Found(i)
  <2>1. \A k \in Redecls : HasPrototype(k)' = HasPrototype(k) /\ Default(k)' = Default(k)
    BY <1>1, SameBehind
  <2> QED BY <1>4, <1>6, <2>1
<1>8. CallFits(Found(i), items[i].how)' <=> CallFits(Found(i), items[i].how)
  BY <1>2, <1>4, <1>7 DEF CallFits
<1> QED BY <1>1, <1>2, <1>3, <1>4, <1>5, <1>8 DEF UsesFit

LEMMA DeclareFits ==
  ASSUME FileInv, NEW d \in Declarations, Declare(d)
  PROVE  FileInv'
<1>0. PICK n : n = Len(items) + 1 OBVIOUS
<1>1. ItemsTyped /\ Goes(d) BY DEF FileInv, Declare, Goes
<1>2. /\ ItemsTyped' /\ PlacesRight /\ PlacesRight' /\ Len(items)' = n /\ Len(items) \in Nat
      /\ \A i \in 1 .. Len(items) : items'[i] = items[i] /\ Declares(i)' = Declares(i)
      /\ items'[n] = d /\ Redecls' = Redecls \cup {n} /\ n \notin Redecls
      /\ DeclsBefore(n)' = Redecls
      /\ \A i \in Redecls : DeclsBefore(i)' = DeclsBefore(i) /\ items'[i] = items[i] /\ i \in 1 .. Len(items)
      /\ DOMAIN items = 1 .. Len(items) /\ DOMAIN items' = 1 .. n
  <2>1. /\ ItemsTyped' /\ PlacesRight /\ PlacesRight' /\ Len(items)' = n
        /\ \A i \in 1 .. Len(items) : items'[i] = items[i] /\ Declares(i)' = Declares(i)
        /\ items'[n] = d
        /\ \A i \in 1 .. n : DeclsBefore(i)' = DeclsBefore(i)
    BY <1>0, <1>1, GoesOn
  <2>2. Redecls' = Redecls \cup {n}
    <3>1. d.do = "declare" BY DEF Declarations
    <3> QED BY <1>0, <1>1, <3>1, GoesOn
  <2>3. Len(items) \in Nat /\ Redecls \subseteq 1 .. Len(items) /\ DOMAIN items = 1 .. Len(items)
        /\ DeclsBefore(n) = {j \in Redecls : j < n}
    BY <1>0, <2>1 DEF PlacesRight
  <2>4. DOMAIN items' = 1 .. n BY <2>1 DEF PlacesRight
  <2>5. DeclsBefore(n) = Redecls
    <3>1. \A j \in Redecls : j < n BY <1>0, <2>3
    <3> QED BY <2>3, <3>1
  <2>6. DeclsBefore(n)' = Redecls BY <1>0, <2>1, <2>3, <2>5
  <2> QED BY <1>0, <2>1, <2>2, <2>3, <2>4, <2>6
<1>3. entity' = entity /\ (IsObject' <=> IsObject) BY <1>1 DEF Goes, IsObject
<1>4. Redecls # {} => (Internal' <=> Internal) BY <1>1, SameBehind
<1>5. Redecls = {} => First' = n
  <2>1. ItemsTyped' => FirstRight' BY FirstIs, PTL
  <2> QED BY <1>2, <2>1 DEF FirstRight
<1>6. IF IsObject THEN ObjectFits(d) ELSE FunctionFits(d) BY DEF Declare
<1>7. StaticsInternal'
  <2> SUFFICES ASSUME NEW i \in Redecls', Static(i)' PROVE Internal' BY DEF StaticsInternal
  <2>1. CASE i \in Redecls
    <3>1. Static(i) BY <1>2, <2>1 DEF Static
    <3> QED BY <1>4, <2>1, <3>1 DEF FileInv, StaticsInternal
  <2>2. CASE i = n /\ Redecls = {} BY <1>5, <2>2 DEF Internal
  <2>3. CASE i = n /\ Redecls # {}
    <3>1. d.storage \in {"static", "static_inline"} BY <1>2, <2>3 DEF Static
    <3>2. Internal BY <1>6, <2>3, <3>1 DEF ObjectFits, FunctionFits
    <3> QED BY <1>4, <2>3, <3>2
  <2> QED BY <1>2, <2>1, <2>2, <2>3
<1>8. ObjectsFit'
  <2> SUFFICES ASSUME NEW i \in Redecls', IsObject'
               PROVE  /\ items'[i].file # "block" /\ items'[i].storage \in {"plain", "static", "extern"}
                      /\ DeclsBefore(i)' # {} /\ Internal' => items'[i].storage # "plain"
    BY DEF ObjectsFit
  <2>1. CASE i \in Redecls BY <1>2, <1>3, <1>4, <2>1 DEF FileInv, ObjectsFit
  <2>2. CASE i = n
    <3>1. ObjectFits(d) BY <1>3, <1>6
    <3> QED BY <1>2, <1>4, <2>2, <3>1 DEF ObjectFits
  <2> QED BY <1>2, <2>1, <2>2
<1>9. OneBody'
  <2>1. d.def => ~\E j \in Redecls : items[j].def BY <1>6 DEF ObjectFits, FunctionFits
  <2> QED BY <1>2, <2>1 DEF FileInv, OneBody
<1>10. EmptyBody'
  <2> SUFFICES ASSUME ~IsObject PROVE EmptyBody' BY <1>3 DEF EmptyBody
  <2>1. FunctionFits(d) BY <1>6
  <2>2. d.params = "none" /\ d.def => \A j \in Redecls : items[j].params = "none" BY <2>1 DEF FunctionFits
  <2>3. d.params # "none" => ~\E j \in Redecls : items[j].def /\ items[j].params = "none"
    BY <2>1 DEF FunctionFits
  <2> QED BY <1>2, <2>2, <2>3 DEF FileInv, EmptyBody
<1>11. UsesFit'
  <2> SUFFICES ASSUME NEW i \in DOMAIN items' \ Redecls'
               PROVE  /\ Sees(i)' # {}
                      /\ items'[i].how \in IF IsObject' THEN {"value", "sizeof"} ELSE {"call_0", "call_1"}
                      /\ ~IsObject' => CallFits(Found(i), items[i].how)'
    BY DEF UsesFit
  <2>1. i \in DOMAIN items \ Redecls BY <1>0, <1>2
  <2> QED BY <1>1, <2>1, UsesStillFit
<1> QED BY <1>2, <1>7, <1>8, <1>9, <1>10, <1>11 DEF FileInv

LEMMA UseFits ==
  ASSUME FileInv, NEW by \in {"f", "g", "file"}, NEW how \in {"value", "sizeof", "call_0", "call_1"},
         Use(by, how)
  PROVE  FileInv'
<1>0. PICK n : n = Len(items) + 1 OBVIOUS
<1> DEFINE u == [do |-> "use", by |-> by, how |-> how]
           seen == {j \in Redecls : items[j].file = "block" =>
                      /\ by = "f"
                      /\ \A k \in j + 1 .. Len(items) : ~Declares(k) /\ items[k].by = "f"}
<1>1. u \in NameUses BY DEF NameUses
<1>2. ItemsTyped /\ Goes(u) BY <1>1 DEF FileInv, Use, Goes
<1>3. /\ ItemsTyped' /\ PlacesRight /\ PlacesRight' /\ Len(items)' = n /\ Len(items) \in Nat
      /\ \A i \in 1 .. Len(items) : items'[i] = items[i] /\ Declares(i)' = Declares(i)
      /\ items'[n] = u /\ Redecls' = Redecls
      /\ DeclsBefore(n)' = Redecls
      /\ \A i \in Redecls : DeclsBefore(i)' = DeclsBefore(i) /\ items'[i] = items[i] /\ i \in 1 .. Len(items)
      /\ DOMAIN items = 1 .. Len(items) /\ DOMAIN items' = 1 .. n
  <2>1. /\ ItemsTyped' /\ PlacesRight /\ PlacesRight' /\ Len(items)' = n
        /\ \A i \in 1 .. Len(items) : items'[i] = items[i] /\ Declares(i)' = Declares(i)
        /\ items'[n] = u
        /\ \A i \in 1 .. n : DeclsBefore(i)' = DeclsBefore(i)
        /\ Redecls' = Redecls
    <3>1. u.do = "use" OBVIOUS
    <3> HIDE DEF u
    <3> QED BY <1>0, <1>2, <3>1, GoesOn
  <2>2. Len(items) \in Nat /\ Redecls \subseteq 1 .. Len(items) /\ DOMAIN items = 1 .. Len(items)
        /\ DeclsBefore(n) = {j \in Redecls : j < n}
    BY <1>0, <2>1 DEF PlacesRight
  <2>3. DOMAIN items' = 1 .. n BY <2>1 DEF PlacesRight
  <2>4. DeclsBefore(n) = Redecls
    <3>1. \A j \in Redecls : j < n BY <1>0, <2>2
    <3> QED BY <2>2, <3>1
  <2>5. DeclsBefore(n)' = Redecls BY <1>0, <2>1, <2>2, <2>4
  <2> QED BY <1>0, <2>1, <2>2, <2>3, <2>5
<1>4. entity' = entity /\ (IsObject' <=> IsObject) BY <1>2 DEF Goes, IsObject
<1>5. Redecls # {} => (Internal' <=> Internal) BY <1>2, SameBehind
<1>6. /\ seen # {}
      /\ how \in IF IsObject THEN {"value", "sizeof"} ELSE {"call_0", "call_1"}
      /\ ~IsObject => CallFits(Nearest(seen), how)
  BY DEF Use
<1>7. Sees(n)' = seen
  <2> SUFFICES ASSUME NEW j \in Redecls
               PROVE  Visible(j, n)' <=>
                        (items[j].file = "block" =>
                           by = "f" /\ \A k \in j + 1 .. Len(items) : ~Declares(k) /\ items[k].by = "f")
    BY <1>3 DEF Sees
  <2>1. j + 1 .. n = (j + 1 .. Len(items)) \cup {n} BY <1>0, <1>3
  <2>2. \A k \in j + 1 .. Len(items) : items'[k] = items[k] /\ Declares(k)' = Declares(k)
    <3>1. \A k \in j + 1 .. Len(items) : k \in 1 .. Len(items) BY <1>3
    <3> QED BY <1>3, <3>1
  <2>3. ~Declares(n)' /\ items'[n].by = by BY <1>3 DEF Declares
  <2>4. items'[j] = items[j] BY <1>3
  <2> HIDE DEF u, seen
  <2> QED BY <2>1, <2>2, <2>3, <2>4 DEF Visible
<1>8. Found(n)' = Nearest(seen) /\ Nearest(seen) \in Redecls
  <2>1. Found(n)' = Nearest(Sees(n)') BY DEF Found, Sees, Nearest
  <2>2. seen \in SUBSET (1 .. Len(items)) /\ seen \subseteq Redecls BY <1>3
  <2> HIDE DEF seen
  <2>3. Nearest(seen) \in seen BY <1>3, <1>6, <2>2, NearestIs
  <2> QED BY <1>7, <2>1, <2>2, <2>3
<1> HIDE DEF seen
<1>9. CallFits(Found(n), items[n].how)' <=> CallFits(Nearest(seen), how)
  <2>1. \A k \in Redecls : HasPrototype(k)' = HasPrototype(k) /\ Default(k)' = Default(k)
    BY <1>2, SameBehind
  <2>2. items'[n].how = how BY <1>3
  <2>3. CallFits(Found(n), items[n].how)' <=>
          IF HasPrototype(Nearest(seen)) THEN how = "call_1" \/ (how = "call_0" /\ Default(Nearest(seen)) # "no_value")
          ELSE TRUE
    BY <1>3, <1>8, <2>1, <2>2 DEF CallFits
  <2> QED BY <2>3 DEF CallFits
<1>10. StaticsInternal'
  <2>1. \A i \in Redecls : Static(i)' <=> Static(i) BY <1>3 DEF Static
  <2> QED BY <1>3, <1>5, <2>1 DEF FileInv, StaticsInternal
<1>11. ObjectsFit' BY <1>3, <1>4, <1>5 DEF FileInv, ObjectsFit
<1>12. OneBody' /\ EmptyBody' BY <1>3, <1>4 DEF FileInv, OneBody, EmptyBody
<1>13. UsesFit'
  <2> SUFFICES ASSUME NEW i \in DOMAIN items' \ Redecls'
               PROVE  /\ Sees(i)' # {}
                      /\ items'[i].how \in IF IsObject' THEN {"value", "sizeof"} ELSE {"call_0", "call_1"}
                      /\ ~IsObject' => CallFits(Found(i), items[i].how)'
    BY DEF UsesFit
  <2>1. CASE i = n BY <1>3, <1>4, <1>6, <1>7, <1>9, <2>1
  <2>2. CASE i # n
    <3>1. i \in DOMAIN items \ Redecls BY <1>0, <1>3, <2>2
    <3> QED BY <1>2, <3>1, UsesStillFit
  <2> QED BY <2>1, <2>2
<1> QED BY <1>3, <1>10, <1>11, <1>12, <1>13 DEF FileInv

LEMMA FileInvariant == FileSpec => []FileInv
<1>1. FileInit => FileInv
  <2> SUFFICES ASSUME FileInit PROVE FileInv OBVIOUS
  <2>1. items = <<>> BY DEF FileInit
  <2>2. ItemsTyped BY <2>1, EmptySeq DEF ItemsTyped
  <2>3. DOMAIN items = {} BY <2>1
  <2>4. Redecls = {} BY <2>3 DEF Redecls
  <2> QED BY <2>2, <2>3, <2>4 DEF FileInv, StaticsInternal, ObjectsFit, OneBody, EmptyBody, UsesFit
<1>2. FileInv /\ [FileNext]_fileVars => FileInv'
  <2> SUFFICES ASSUME FileInv, [FileNext]_fileVars PROVE FileInv' OBVIOUS
  <2>1. CASE \E d \in Declarations : Declare(d) BY <2>1, DeclareFits
  <2>2. CASE \E by \in {"f", "g", "file"}, how \in {"value", "sizeof", "call_0", "call_1"} : Use(by, how)
    BY <2>2, UseFits
  <2>3. CASE UNCHANGED fileVars
    <3>1. items' = items /\ entity' = entity BY <2>3 DEF fileVars
    <3>2. /\ \A i : Declares(i)' <=> Declares(i)
          /\ \A i : DeclsBefore(i)' = DeclsBefore(i)
          /\ Redecls' = Redecls /\ (IsObject' <=> IsObject) /\ (Cxx' <=> Cxx)
      BY <3>1 DEF Declares, DeclsBefore, Redecls, IsObject, Cxx
    <3>3. First' = First BY <3>1, <3>2 DEF First
    <3>4. (Internal' <=> Internal) /\ \A i : Static(i)' <=> Static(i)
      BY <3>1, <3>2, <3>3 DEF Internal, Static
    <3>5. \A i : Sees(i)' = Sees(i) /\ Found(i)' = Found(i)
      <4>1. \A i, j : Visible(j, i)' <=> Visible(j, i) BY <3>1, <3>2 DEF Visible
      <4>2. \A i : Sees(i)' = Sees(i) BY <3>2, <4>1 DEF Sees
      <4>3. \A i : Found(i) = Nearest(Sees(i)) /\ Found(i)' = Nearest(Sees(i)') BY DEF Found, Sees, Nearest
      <4> QED BY <4>2, <4>3
    <3>6. \A i : HasPrototype(i)' = HasPrototype(i) BY <3>1, <3>2 DEF HasPrototype, WrittenPrototype, Cxx
    <3>7. \A i : Default(i)' = Default(i)
      <4> SUFFICES ASSUME NEW i PROVE Default(i)' = Default(i) OBVIOUS
      <4> DEFINE Given == {j \in DeclsBefore(i) \cup {i} :
                            /\ items[j].params \in {"a=1", "a=2"}
                            /\ items[i].file = "block" => j = i
                            /\ j # i => items[j].file # "block"}
      <4>1. Given' = Given BY <3>1, <3>2
      <4>2. Default(i) = IF Given = {} THEN "no_value" ELSE items[Nearest(Given)].params BY DEF Default
      <4>3. Default(i)' = IF Given' = {} THEN "no_value" ELSE items'[Nearest(Given)'].params BY DEF Default
      <4>4. Nearest(Given)' = Nearest(Given) BY <4>1 DEF Nearest
      <4> HIDE DEF Given
      <4> QED BY <3>1, <4>1, <4>2, <4>3, <4>4
    <3>8. \A i : CallFits(Found(i), items[i].how)' <=> CallFits(Found(i), items[i].how)
      BY <3>1, <3>5, <3>6, <3>7 DEF CallFits
    <3>9. ItemsTyped' /\ StaticsInternal' /\ ObjectsFit'
      BY <3>1, <3>2, <3>4 DEF FileInv, ItemsTyped, StaticsInternal, ObjectsFit
    <3>10. OneBody' /\ EmptyBody' BY <3>1, <3>2 DEF FileInv, OneBody, EmptyBody
    <3>11. UsesFit' BY <3>1, <3>2, <3>5, <3>8 DEF FileInv, UsesFit
    <3> QED BY <3>9, <3>10, <3>11 DEF FileInv
  <2> QED BY <2>1, <2>2, <2>3 DEF FileNext
<1> QED BY <1>1, <1>2, PTL DEF FileSpec

-----------------------------------------------------------------------------
(***************************************************************************)
(* What FileInv says of the reports.                                       *)
(***************************************************************************)

LEMMA HeadersJudged ==
  ASSUME FileInv
  PROVE  HeadersDefineNothing
<1> SUFFICES ASSUME Redecls # {}, Emitted(InHeader),
                    \A i \in Redecls : items[i].def => i = First,
                    MissingPriorDeclaration = {}, TentativeDefinitionInHeader = {}
             PROVE  FALSE
  BY DEF HeadersDefineNothing
<1>1. ~Internal BY DEF Emitted
<1>2. PICK i \in InHeader : IsDefinition(i) BY DEF Emitted
<1>3. i \in Redecls /\ items[i].file = "header" BY DEF InHeader
<1>4. ASSUME NEW j \in Redecls, items[j].def PROVE FALSE
  <2>1. <<"MissingPriorDeclaration", j>> \in MissingPriorDeclaration
    BY <1>1, <1>4 DEF MissingPriorDeclaration, Of, IsDefinition
  <2> QED BY <2>1
<1>5. IsObject /\ items[i].storage # "extern" BY <1>2, <1>3, <1>4 DEF IsDefinition
<1>6. ~Static(i) BY <1>1, <1>3 DEF FileInv, StaticsInternal
<1>7. items[i].storage = "plain" BY <1>3, <1>5, <1>6 DEF FileInv, ObjectsFit, Static
<1>8. <<"TentativeDefinitionInHeader", i>> \in TentativeDefinitionInHeader
  BY <1>3, <1>4, <1>5, <1>7 DEF TentativeDefinitionInHeader, Of
<1> QED BY <1>8

LEMMA ExternalsJudged ==
  ASSUME FileInv
  PROVE  ExternalsInHeader
<1>1. ItemsTyped /\ PlacesRight BY Places DEF FileInv
<1>2. ASSUME Redecls # {}, Emitted(Redecls), InHeader = {}, items[First].file # "block"
      PROVE  MissingPriorDeclaration # {} \/ ExternInSourceFile # {}
  <2>1. First \in Redecls BY <1>1, <1>2, FirstIs DEF FirstRight
  <2>2. items[First] \in Declarations BY <1>1, <2>1 DEF PlacesRight, Redecls
  <2>3. items[First].file = "source" BY <1>2, <2>1, <2>2 DEF InHeader, Declarations
  <2>4. ~Internal BY <1>2 DEF Emitted
  <2>5. ~Static(First) BY <2>4 DEF Internal
  <2>6. CASE IsDefinition(First)
    <3>1. <<"MissingPriorDeclaration", First>> \in MissingPriorDeclaration
      BY <2>1, <2>4, <2>6 DEF MissingPriorDeclaration, Of
    <3> QED BY <3>1
  <2>7. CASE ~IsDefinition(First)
    <3>1. ~items[First].def /\ (IsObject => items[First].storage = "extern") BY <2>7 DEF IsDefinition
    <3>2. <<"ExternInSourceFile", First>> \in ExternInSourceFile
      BY <2>1, <2>3, <2>4, <2>5, <3>1 DEF ExternInSourceFile, Of
    <3> QED BY <3>2
  <2> QED BY <2>6, <2>7
<1>3. ASSUME MissingStaticForInternal # {}, ~(Cxx /\ entity.const)
      PROVE  MissingPriorDeclaration # {}
  <2>1. PICK i \in Redecls : /\ i = First /\ ~Static(i)
                             /\ IF IsObject THEN items[i].storage # "extern" ELSE items[i].def /\ ~Inlined(i)
    BY <1>3 DEF MissingStaticForInternal, Of
  <2>2. ~Internal BY <1>3, <2>1 DEF Internal
  <2>3. IsDefinition(i) BY <2>1 DEF IsDefinition
  <2>4. <<"MissingPriorDeclaration", i>> \in MissingPriorDeclaration
    BY <2>1, <2>2, <2>3 DEF MissingPriorDeclaration, Of
  <2> QED BY <2>4
<1> QED BY <1>2, <1>3 DEF ExternalsInHeader

LEMMA InternalsJudged == ASSUME FileInv PROVE InternalsSaySo
<1> SUFFICES ASSUME Internal, NEW i \in Redecls, items[i].file # "block", ~(IsObject /\ items[i].storage = "extern")
             PROVE  \/ IF Cxx THEN <<"UseUnnamedNamespace", i>> \in UseUnnamedNamespace ELSE Static(i)
                    \/ <<"StaticStorageClass", i>> \in StaticStorageClass
  BY DEF InternalsSaySo
<1> QED BY DEF UseUnnamedNamespace, StaticStorageClass, Of

LEMMA NamesJudged ==
  ASSUME FileInv
  PROVE  NamesAgree
<1> SUFFICES ASSUME ~IsObject, NEW i \in Redecls, items[i].def, NEW h \in InHeader, h < i,
                    \A k \in InHeader : k <= h \/ k = i, NameOf(h) # NameOf(i),
                    \A k \in h + 1 .. i - 1 : Declares(k) => items[k].file # "block" /\ ~Static(k)
             PROVE  FunctionDeclarationMismatch # {} \/ ExternInSourceFile # {}
  BY DEF NamesAgree
<1>1. ItemsTyped /\ PlacesRight BY Places DEF FileInv
<1>2. /\ h \in Redecls /\ Redecls \subseteq 1 .. Len(items) /\ Len(items) \in Nat
      /\ DeclsBefore(i) = {j \in Redecls : j < i}
  BY <1>1 DEF InHeader, PlacesRight
<1> DEFINE p == Nearest(DeclsBefore(i))
<1>3. /\ p \in Redecls /\ p < i /\ \A k \in Redecls : k < i => k <= p
  <2>1. DeclsBefore(i) \in SUBSET (1 .. Len(items)) /\ DeclsBefore(i) # {} BY <1>2
  <2>2. p \in DeclsBefore(i) /\ \A k \in DeclsBefore(i) : k <= p BY <1>2, <2>1, NearestIs
  <2> HIDE DEF p
  <2> QED BY <1>2, <2>2
<1>4. Previous(i) = p /\ p # 0
  <2>1. DeclsBefore(i) # {} BY <1>2
  <2> HIDE DEF p
  <2>2. p # 0 BY <1>2, <1>3
  <2> QED BY <2>1, <2>2 DEF Previous, p
<1> HIDE DEF p
<1>5. CASE p = h
  <2> SUFFICES ASSUME HasPrototype(i) = HasPrototype(p)
               PROVE  Arity(i) = Arity(p) /\ Arity(i) = 1
    <3>1. ASSUME \/ HasPrototype(i) # HasPrototype(p)
                 \/ Arity(i) = Arity(p) /\ Arity(i) = 1 /\ NameOf(i) # NameOf(p)
          PROVE  <<"FunctionDeclarationMismatch", i>> \in FunctionDeclarationMismatch
      BY <1>4, <3>1 DEF FunctionDeclarationMismatch, Of
    <3> QED BY <1>5, <3>1
  <2>1. \A k \in Redecls : ~HasPrototype(k) => items[k].params = "none"
    BY DEF HasPrototype, WrittenPrototype
  <2>2. \A k \in Redecls : items[k].params = "none" => NameOf(k) = "unnamed" BY DEF NameOf
  <2> QED BY <1>2, <1>3, <1>5, <2>1, <2>2 DEF Arity
<1>6. CASE p # h
  <2>1. h < p BY <1>2, <1>3, <1>6
  <2>2. p \in h + 1 .. i - 1 BY <1>2, <1>3, <2>1
  <2>3. items[p] \in Declarations /\ Declares(p) BY <1>1, <1>3 DEF PlacesRight, Redecls
  <2>4. p \notin InHeader BY <1>2, <1>3, <2>1
  <2>5. items[p].file = "source" /\ ~Static(p) BY <1>3, <2>2, <2>3, <2>4 DEF InHeader, Declarations
  <2>6. ~items[p].def BY <1>2, <1>3 DEF FileInv, OneBody
  <2>7. <<"ExternInSourceFile", p>> \in ExternInSourceFile BY <1>3, <2>5, <2>6 DEF ExternInSourceFile, Of
  <2> QED BY <2>7
<1> QED BY <1>5, <1>6

\* A use finds a declaration.
LEMMA UseFinds ==
  ASSUME FileInv, NEW c \in DOMAIN items \ Redecls
  PROVE  /\ Found(c) \in Sees(c) /\ Found(c) \in Redecls
         /\ c \in 1 .. Len(items) /\ Found(c) \in 1 .. Len(items) /\ Found(c) < c
<1>1. ItemsTyped /\ PlacesRight BY Places DEF FileInv
<1>2. Found(c) \in Sees(c) /\ Found(c) \in Redecls /\ Found(c) < c BY <1>1, FoundIs DEF FileInv, UsesFit
<1> QED BY <1>1, <1>2 DEF PlacesRight

LEMMA PlaceOf ==
  ASSUME NEW n \in Nat, NEW S, S \subseteq 1 .. n, NEW k \in S
  PROVE  k \in 1 .. n + 1 /\ k \in Nat
OBVIOUS

LEMMA CallsJudged ==
  ASSUME FileInv
  PROVE  CallsAgree
<1> DEFINE Calls == {i \in DOMAIN items : IsCall(i)}
           Short == {i \in Calls : items[i].how = "call_0"}
<1>1. ItemsTyped /\ PlacesRight BY Places DEF FileInv
<1>2. ASSUME NEW c \in Calls
      PROVE  /\ c \in DOMAIN items \ Redecls /\ ~IsObject /\ Found(c) \in Redecls
             /\ CallFits(Found(c), items[c].how) /\ items[c].how \in {"call_0", "call_1"}
  <2>1. c \in DOMAIN items \ Redecls BY DEF IsCall, Redecls
  <2>2. ~IsObject BY <2>1 DEF IsCall, FileInv, UsesFit
  <2>3. CallFits(Found(c), items[c].how) BY <2>1, <2>2 DEF FileInv, UsesFit
  <2>4. Found(c) \in Redecls BY <2>1, UseFinds
  <2> QED BY <2>1, <2>2, <2>3, <2>4 DEF IsCall
<1>3. ASSUME NEW c \in Calls, NEW i \in {i \in Redecls : items[i].def},
             Arity(i) # (IF items[c].how = "call_0" THEN 0 ELSE 1), Default(Found(c)) = "no_value"
      PROVE  /\ <<"ImplicitFunctionDecl", c>> \in ImplicitFunctionDecl
             /\ UncompleteFunctionPrototype # {}
  <2>1. ASSUME HasPrototype(Found(c)) PROVE FALSE
    <3>1. items[c].how = "call_1" BY <1>2, <1>3, <2>1 DEF CallFits
    <3>2. items[i].params = "none" /\ ~HasPrototype(i) BY <1>3, <3>1 DEF Arity
    <3>3. ~Cxx BY <3>2 DEF HasPrototype, WrittenPrototype
    <3>4. PICK j \in DeclsBefore(Found(c)) \cup {Found(c)} : items[j].params # "none"
      BY <2>1, <3>3 DEF HasPrototype, WrittenPrototype
    <3>5. j \in Redecls
      <4>1. Found(c) \in 1 .. Len(items) + 1
        <5>1. Found(c) \in Redecls BY <1>2
        <5>2. Redecls \subseteq 1 .. Len(items) /\ Len(items) \in Nat BY <1>1 DEF PlacesRight
        <5> QED BY <5>1, <5>2, PlaceOf
      <4>2. DeclsBefore(Found(c)) \subseteq Redecls BY <1>1, <4>1 DEF PlacesRight
      <4> QED BY <1>2, <3>4, <4>2
    <3> QED BY <1>2, <3>2, <3>4, <3>5 DEF FileInv, EmptyBody
  <2>2. <<"ImplicitFunctionDecl", c>> \in ImplicitFunctionDecl
    BY <2>1 DEF ImplicitFunctionDecl, Of
  <2>3. <<"UncompleteFunctionPrototype", Found(c)>> \in UncompleteFunctionPrototype
    BY <1>2, <2>1 DEF UncompleteFunctionPrototype, Of
  <2> QED BY <2>2, <2>3
<1>4. ASSUME NEW c1 \in Short, NEW c2 \in Short, Cxx, Found(c1) < Found(c2),
             Default(Found(c1)) # Default(Found(c2)),
             \A i \in Redecls : Found(c1) < i /\ i <= Found(c2) => ~items[i].def /\ Default(i) # "no_value"
      PROVE  DefaultArgumentOrder # {}
  <2> DEFINE from == Found(c1)
             to == Found(c2)
             Others == {i \in Redecls : from < i /\ i <= to /\ Default(i) # Default(from)}
  <2>1. from \in Redecls /\ to \in Redecls BY <1>2
  <2>2. Redecls \subseteq 1 .. Len(items) /\ Len(items) \in Nat BY <1>1 DEF PlacesRight
  <2>3. Others \in SUBSET Nat
    <3>1. \A k \in Others : k \in Nat BY <2>2
    <3> QED BY <3>1
  <2>4. to \in Others
    <3>1. Default(to) # Default(from) /\ from < to BY <1>4
    <3> HIDE DEF from, to
    <3>2. to \in Nat BY <2>1, <2>2, PlaceOf
    <3> QED BY <2>1, <3>1, <3>2
  <2>5. PICK i \in Others : \A j \in Others : i <= j
    <3> HIDE DEF Others
    <3> QED BY <2>3, <2>4, LeastPlace
  <2> DEFINE p == Nearest(DeclsBefore(i))
  <2>6. DeclsBefore(i) = {j \in Redecls : j < i} BY <1>1, <2>2 DEF PlacesRight
  <2>7. p \in DeclsBefore(i) /\ \A k \in DeclsBefore(i) : k <= p
    <3>1. DeclsBefore(i) \in SUBSET (1 .. Len(items)) BY <2>2, <2>6
    <3>2. from \in DeclsBefore(i) BY <2>1, <2>6
    <3> QED BY <2>2, <3>1, <3>2, NearestIs
  <2>8. p \in Redecls /\ p < i /\ from <= p /\ p # 0 /\ Previous(i) = p
    <3>1. from \in DeclsBefore(i) BY <2>1, <2>6
    <3>2. Previous(i) = p BY <3>1 DEF Previous
    <3> HIDE DEF p, from
    <3>3. p \in Redecls /\ p < i /\ from <= p BY <2>6, <2>7, <3>1
    <3>4. p # 0 BY <2>2, <3>3
    <3> QED BY <3>2, <3>3, <3>4
  <2> HIDE DEF p
  <2>9. Default(p) = Default(from)
    <3>1. i \in 1 .. Len(items) /\ p \in 1 .. Len(items) /\ from \in 1 .. Len(items) /\ to \in 1 .. Len(items)
          /\ i <= to
      BY <2>1, <2>2, <2>8
    <3>2. p \in Others => i <= p BY <2>5
    <3>3. p \in Others <=> p \in Redecls /\ from < p /\ p <= to /\ Default(p) # Default(from) OBVIOUS
    <3> HIDE DEF from, to, Others
    <3>4. p \notin Others BY <2>2, <2>8, <3>1, <3>2
    <3>5. p <= to BY <2>2, <2>8, <3>1
    <3>6. from < p \/ from = p BY <2>2, <2>8, <3>1
    <3> QED BY <2>8, <3>3, <3>4, <3>5, <3>6
  <2>10. ~items[i].def /\ Default(i) # "no_value" /\ Default(i) # Default(p) BY <1>4, <2>9
  <2>11. Default(from) # "no_value"
    <3>1. CallFits(from, items[c1].how) /\ items[c1].how = "call_0" BY <1>2
    <3>2. HasPrototype(from) BY <1>4 DEF HasPrototype, WrittenPrototype
    <3> QED BY <3>1, <3>2 DEF CallFits
  <2>12. ~IsObject BY <1>2
  <2>13. <<"DefaultArgumentOrder", i>> \in DefaultArgumentOrder
    <3>1. i \in Redecls OBVIOUS
    <3> HIDE DEF from, to, Others
    <3> QED BY <1>4, <2>8, <2>9, <2>10, <2>11, <2>12, <3>1 DEF DefaultArgumentOrder, Of
  <2> QED BY <2>13
<1> QED BY <1>3, <1>4 DEF CallsAgree

\* A set with two elements has not one.
LEMMA TwoElements ==
  ASSUME NEW S, IsFiniteSet(S), NEW a \in S, NEW b \in S, a # b
  PROVE  Cardinality(S) > 1
<1>1. Cardinality({a, b}) = 2 /\ Cardinality(S) \in Nat
  <2>1. IsFiniteSet({a}) /\ Cardinality({a}) = 1 BY FS_Singleton
  <2>2. Cardinality({a} \cup {b}) = 2 BY <2>1, FS_AddElement
  <2>3. {a} \cup {b} = {a, b} OBVIOUS
  <2> QED BY <2>2, <2>3, FS_CardinalityType
<1>2. Cardinality({a, b}) <= Cardinality(S)
  <2>1. {a, b} \subseteq S OBVIOUS
  <2> QED BY <2>1, FS_Subset
<1> QED BY <1>1, <1>2

LEMMA UsersJudged ==
  ASSUME FileInv
  PROVE  UsersCounted
<1>1. ItemsTyped /\ PlacesRight BY Places DEF FileInv
<1>2. Len(items) \in Nat /\ DOMAIN items = 1 .. Len(items) /\ Redecls \subseteq 1 .. Len(items)
  BY <1>1 DEF PlacesRight
<1> DEFINE At == DOMAIN items \ Redecls
<1>3. ASSUME NEW k \in At PROVE Found(k) \in Redecls BY UseFinds
<1>4. \A d : UsersOf(d) = {items[k].by : k \in {k \in At : Found(k) = d}} \ {"file"} BY DEF UsersOf
<1>5. ASSUME GlobalObject # {}, "file" \notin Users,
             \A i \in Redecls : items[i].storage # "extern",
             ~(Cardinality({i \in Redecls : Static(i)}) > 1)
      PROVE  Cardinality(Users) = 1
  <2>1. PICK i \in Redecls : IsObject /\ Static(i) /\ ~entity.const /\ Cardinality(UsersOf(i)) = 1
    BY <1>5 DEF GlobalObject, Of
  <2>2. Internal BY <2>1 DEF FileInv, StaticsInternal
  <2>3. First \in Redecls /\ \A j \in Redecls : DeclsBefore(j) = {} <=> j = First
    BY <1>1, <2>1, FirstIs DEF FirstRight
  <2>4. Static(First) BY <2>1, <2>2 DEF Internal
  <2>5. \A j \in Redecls : Static(j)
    BY <1>5, <2>1, <2>2, <2>3, <2>4 DEF FileInv, ObjectsFit, Static
  <2>6. \A j \in Redecls : j = i
    <3>1. IsFiniteSet({j \in Redecls : Static(j)})
      <4>1. IsFiniteSet(1 .. Len(items)) BY <1>2, FS_Interval
      <4>2. {j \in Redecls : Static(j)} \subseteq 1 .. Len(items) BY <1>2
      <4> QED BY <4>1, <4>2, FS_Subset
    <3>2. ASSUME NEW j \in Redecls, j # i PROVE FALSE
      <4>1. i \in {k \in Redecls : Static(k)} /\ j \in {k \in Redecls : Static(k)} BY <2>5
      <4>2. Cardinality({k \in Redecls : Static(k)}) > 1 BY <3>1, <3>2, <4>1, TwoElements
      <4> QED BY <1>5, <4>2
    <3> QED BY <3>2
  <2>7. \A k \in At : Found(k) = i BY <1>3, <2>6
  <2>8. UsersOf(i) = Users
    <3>1. {k \in At : Found(k) = i} = At BY <2>7
    <3>2. UsersOf(i) = {items[k].by : k \in At} \ {"file"} BY <1>4, <3>1
    <3> QED BY <1>5, <3>2 DEF Users
  <2> QED BY <2>1, <2>8
<1>6. ASSUME IsObject, ~entity.const, Redecls # {}, Internal, Cardinality(Users \ {"file"}) = 1,
             \A i \in Redecls : items[i].storage # "extern"
      PROVE  GlobalObject # {}
  <2>1. First \in Redecls /\ \A j \in Redecls : DeclsBefore(j) = {} <=> j = First
    BY <1>1, <1>6, FirstIs DEF FirstRight
  <2>2. Static(First) BY <1>6 DEF Internal
  <2>3. \A j \in Redecls : Static(j)
    BY <1>6, <2>1, <2>2 DEF FileInv, ObjectsFit, Static
  <2>4. IsFiniteSet(Users \ {"file"})
    <3>1. \A k \in At : items[k].by \in {"f", "g", "file"}
      <4>1. \A k \in At : items[k] \in NameUses BY <1>1 DEF PlacesRight, Redecls
      <4> QED BY <4>1 DEF NameUses
    <3>2. Users \ {"file"} \subseteq {"f"} \cup {"g"} BY <3>1 DEF Users
    <3>3. IsFiniteSet({"f"} \cup {"g"}) BY FS_Singleton, FS_AddElement
    <3> QED BY <3>2, <3>3, FS_Subset
  <2>5. PICK u : Users \ {"file"} = {u} BY <1>6, <2>4, FS_Singleton
  <2>6. PICK k \in At : items[k].by = u /\ u # "file" BY <2>5 DEF Users
  <2>7. Found(k) \in Redecls BY <1>3
  <2>8. UsersOf(Found(k)) = {u}
    <3>1. UsersOf(Found(k)) \subseteq Users \ {"file"} BY <1>4 DEF Users
    <3>2. u \in UsersOf(Found(k)) BY <1>4, <2>6
    <3> QED BY <2>5, <3>1, <3>2
  <2>9. Cardinality(UsersOf(Found(k))) = 1 BY <2>8, FS_Singleton
  <2>10. <<"GlobalObject", Found(k)>> \in GlobalObject BY <1>6, <2>3, <2>7, <2>9 DEF GlobalObject, Of
  <2> QED BY <2>10
<1>7. ASSUME UnusedObjectDefinition # {}, ~(Cxx /\ entity.const), NEW k \in At
      PROVE  items[k].how = "sizeof"
  <2>1. IsObject /\ ~MarkedUsed BY <1>7 DEF UnusedObjectDefinition, Of
  <2>2. items[k].how \in {"value", "sizeof"} BY <2>1 DEF FileInv, UsesFit
  <2>3. items[k].how # "value" BY <1>7, <2>1 DEF MarkedUsed, Redecls
  <2> QED BY <2>2, <2>3
<1> QED BY <1>5, <1>6, <1>7 DEF UsersCounted

\* What the checks say of the declarations of a file agrees with linkage, uses and calls,
\* for any number of them (MissingPriorDeclarationCheck.cpp and the others of storage and
\* functions that look at more than one declaration).
THEOREM DeclarationsRight == FileSpec => []FileJudged
<1>1. FileInv => FileJudged
  BY HeadersJudged, ExternalsJudged, InternalsJudged, NamesJudged, CallsJudged, UsersJudged DEF FileJudged
<1> QED BY <1>1, FileInvariant, PTL
-----------------------------------------------------------------------------
(***************************************************************************)
(* Names in nested scopes, structs, and variables declared too far out     *)
(* (NameScopes).                                                           *)
(***************************************************************************)

\* Of a set of places one is the last.
LEMMA LastPlace ==
  ASSUME NEW n \in Nat, NEW S \in SUBSET (0 .. n), S # {}
  PROVE  Max(S) \in S /\ \A k \in S : k <= Max(S)
<1> DEFINE Back == {n - i : i \in S}
<1>1. Back \in SUBSET Nat /\ Back # {} OBVIOUS
<1>2. PICK b \in Back : \A c \in Back : b <= c
  <2> HIDE DEF Back
  <2> QED BY <1>1, LeastPlace
<1>3. n - b \in S /\ \A k \in S : n - b >= k
  <2>1. PICK i \in S : b = n - i BY <1>2
  <2>2. \A k \in S : n - k \in Back OBVIOUS
  <2>3. \A k \in S : b <= n - k BY <1>2, <2>2
  <2> QED BY <2>1, <2>3
<1>4. \E x \in S : \A y \in S : x >= y BY <1>3
<1>5. Max(S) \in S /\ \A y \in S : Max(S) >= y BY <1>4, Zenon DEF Max
<1> QED BY <1>5

LEMMA PrefixIs ==
  ASSUME NEW S, NEW p \in Seq(S), NEW T, NEW q \in Seq(T)
  PROVE  IsPrefix(p, q) <=> Len(p) <= Len(q) /\ \A k \in 1 .. Len(p) : p[k] = q[k]
<1>1. Len(p) \in Nat /\ Len(q) \in Nat OBVIOUS
<1>2. Len(p) <= Len(q) => Len(SubSeq(p, 1, Len(p))) = Len(p) /\ Len(SubSeq(q, 1, Len(p))) = Len(p) OBVIOUS
<1>3. Len(p) <= Len(q) => \A k \in 1 .. Len(p) : SubSeq(p, 1, Len(p))[k] = p[k] /\ SubSeq(q, 1, Len(p))[k] = q[k] OBVIOUS
<1>4. ASSUME Len(p) <= Len(q), \A k \in 1 .. Len(p) : p[k] = q[k]
      PROVE  SubSeq(p, 1, Len(p)) = SubSeq(q, 1, Len(p))
  <2>1. SubSeq(p, 1, Len(p)) = [k \in 1 .. Len(p) |-> p[k]] OBVIOUS
  <2>2. SubSeq(q, 1, Len(p)) = [k \in 1 .. Len(p) |-> q[k]] BY <1>4
  <2> QED BY <2>1, <2>2, <1>4
<1> QED BY <1>1, <1>3, <1>4 DEF IsPrefix

(***************************************************************************)
(* A path starts with the unit, each scope in it fits into the one before, *)
(* and a scope is at one place.                                            *)
(***************************************************************************)
ScopeKinds == {"unit", "namespace", "class", "function", "lambda", "block"}
NameKinds == {"var", "function", "typedef", "enumerator", "tag", "field", "param", "static"}
PathRight(p) ==
  /\ p \in Seq([id : Nat, kind : ScopeKinds]) /\ Len(p) >= 1 /\ p[1] = UnitScope
  /\ \A k \in DOMAIN p : k > 1 => p[k].kind \in Inside(p[k - 1].kind)
  /\ \A k \in DOMAIN p : p[k].id <= scopes
OnePlace(p, q) == \A k \in DOMAIN p, l \in DOMAIN q : p[k] = q[l] => k = l /\ \A m \in 1 .. k : p[m] = q[m]
Paths == {open} \cup {names[i].path : i \in DOMAIN names}
NamesInv ==
  /\ scopes \in Nat
  /\ names \in Seq([what : NameKinds, path : Seq([id : Nat, kind : ScopeKinds])])
  /\ \A p \in Paths : PathRight(p)
  /\ \A p, q \in Paths : OnePlace(p, q)
  /\ \A i \in DOMAIN names : names[i].what \in Declarable(Context(names[i].path).kind)
  /\ \A i, j \in DOMAIN names : i # j /\ names[i].path = names[j].path => ~SameSpace(names[i].what, names[j].what)

LEMMA KindsInside ==
  ASSUME NEW kind \in ScopeKinds, NEW inner \in Inside(kind)
  PROVE  /\ inner \in ScopeKinds
         /\ inner = "block" => kind \in {"function", "lambda", "block"}
BY DEF ScopeKinds, Inside

LEMMA KindsDeclared ==
  ASSUME NEW kind \in ScopeKinds, NEW what \in Declarable(kind)
  PROVE  /\ what \in NameKinds
         /\ what = "param" => kind \in {"function", "lambda"}
         /\ what = "static" => kind \in {"function", "lambda", "block"}
         /\ what = "field" => kind = "class"
         /\ what \in {"function", "enumerator"} => kind \in {"unit", "namespace"}
         /\ what = "var" => kind # "class"
BY DEF ScopeKinds, NameKinds, Declarable

\* The context of what is declared in a path is the last scope that is no block; if there
\* are blocks behind it, it is a function.
LEMMA ContextIs ==
  ASSUME NEW p, PathRight(p)
  PROVE  \E n \in DOMAIN p :
           /\ DeclContext(p) = p[n] /\ p[n].kind # "block" /\ p[n].kind \in ScopeKinds
           /\ \A k \in DOMAIN p : k > n => p[k].kind = "block"
           /\ n < Len(p) => p[n].kind \in {"function", "lambda"}
<1> DEFINE S == {k \in DOMAIN p : p[k].kind # "block"}
           n == Max(S)
<1>1. DOMAIN p = 1 .. Len(p) /\ Len(p) \in Nat BY DEF PathRight
<1>2. 1 \in S BY <1>1 DEF PathRight, UnitScope
<1>3. n \in S /\ \A k \in S : k <= n
  <2>1. S \in SUBSET (0 .. Len(p)) BY <1>1
  <2> HIDE DEF S
  <2> QED BY <1>1, <1>2, <2>1, LastPlace
<1>4. DeclContext(p) = p[n] BY DEF DeclContext
<1> HIDE DEF n
<1>5. \A k \in DOMAIN p : k > n => p[k].kind = "block" BY <1>1, <1>3
<1>6. p[n].kind \in ScopeKinds
  <2>1. p[n] \in [id : Nat, kind : ScopeKinds] BY <1>1, <1>3, ElementOfSeq DEF PathRight
  <2> QED BY <2>1
<1>7. n < Len(p) => p[n].kind \in {"function", "lambda"}
  <2> SUFFICES ASSUME n < Len(p) PROVE p[n].kind \in {"function", "lambda"} OBVIOUS
  <2>1. n \in 1 .. Len(p) /\ n + 1 \in DOMAIN p /\ n + 1 > 1 /\ (n + 1) - 1 = n BY <1>1, <1>3
  <2>2. p[n + 1].kind \in Inside(p[n].kind) BY <2>1 DEF PathRight
  <2>3. p[n + 1].kind = "block" /\ p[n].kind # "block" BY <1>1, <1>3, <1>5, <2>1
  <2>4. p[n].kind \in ScopeKinds BY <1>6
  <2> QED BY <2>2, <2>3, <2>4, KindsInside
<1> QED BY <1>3, <1>4, <1>5, <1>6, <1>7

LEMMA PathsGrow ==
  ASSUME NamesInv, NEW kind \in ScopeKinds, OpenScope(kind)
  PROVE  NamesInv'
<1> DEFINE new == [id |-> scopes + 1, kind |-> kind]
           Path == Seq([id : Nat, kind : ScopeKinds])
           old == {names[i].path : i \in DOMAIN names}
<1>1. /\ scopes \in Nat /\ scopes' = scopes + 1 /\ names' = names /\ about' = about
      /\ open' = Append(open, new) /\ kind \in Inside(Context(open).kind)
  BY DEF OpenScope, NamesInv
<1>2. open \in Path /\ Len(open) \in Nat /\ Len(open) >= 1 /\ open[1] = UnitScope
  <2>1. open \in Paths BY DEF Paths
  <2>2. PathRight(open) BY <2>1 DEF NamesInv
  <2> QED BY <2>2 DEF PathRight
<1>3. /\ open' \in Path /\ Len(open') = Len(open) + 1
      /\ \A k \in 1 .. Len(open) : open'[k] = open[k]
      /\ open'[Len(open) + 1] = new
  BY <1>1, <1>2
<1>4. \A p \in Paths : p \in Path /\ \A k \in DOMAIN p : p[k].id \in Nat /\ p[k].id <= scopes /\ p[k].id # scopes + 1
  <2> SUFFICES ASSUME NEW p \in Paths, NEW k \in DOMAIN p
               PROVE  p[k].id \in Nat /\ p[k].id <= scopes /\ p[k].id # scopes + 1
    BY DEF NamesInv, PathRight
  <2>1. p \in Path /\ p[k].id <= scopes BY DEF NamesInv, PathRight
  <2>2. k \in 1 .. Len(p) BY <2>1
  <2>3. p[k] \in [id : Nat, kind : ScopeKinds] BY <2>1, <2>2, ElementOfSeq
  <2> QED BY <1>1, <2>1, <2>3
<1>5. Paths' = {open'} \cup old /\ Paths = {open} \cup old BY <1>1 DEF Paths
<1> HIDE DEF old
<1>6. ASSUME NEW p \in old PROVE PathRight(p)'
  <2>1. PathRight(p) BY <1>5 DEF NamesInv
  <2>2. p \in Paths BY <1>5
  <2>3. \A x : Inside(x)' = Inside(x) BY <1>1 DEF Inside, InCxx
  <2>4. \A k \in DOMAIN p : p[k].id <= scopes' BY <1>1, <1>4, <2>2
  <2> QED BY <2>1, <2>3, <2>4 DEF PathRight
<1>7. PathRight(open)'
  <2> USE DEF PathRight
  <2>1. \A x : Inside(x)' = Inside(x) BY <1>1 DEF Inside, InCxx
  <2>2. \A k \in DOMAIN open' : k \in 1 .. Len(open) \/ k = Len(open) + 1 BY <1>3
  <2>3. PathRight(open) BY <1>5 DEF NamesInv
  <2>4. ASSUME NEW k \in DOMAIN open' PROVE open'[k].id <= scopes' /\ (k > 1 => open'[k].kind \in Inside(open'[k - 1].kind))
    <3>1. CASE k \in 1 .. Len(open)
      <4>1. k \in DOMAIN open /\ open'[k] = open[k] /\ open[k].id <= scopes' BY <1>1, <1>2, <1>3, <1>4, <1>5, <3>1
      <4>2. k > 1 => k - 1 \in 1 .. Len(open) BY <1>2, <3>1
      <4>3. k > 1 => open'[k - 1] = open[k - 1] BY <1>3, <4>2
      <4> QED BY <4>1, <4>3, <2>3
    <3>2. CASE k = Len(open) + 1
      <4>1. open'[k] = new /\ k - 1 = Len(open) /\ open'[k - 1] = Context(open) BY <1>2, <1>3, <3>2 DEF Context
      <4> QED BY <1>1, <4>1
    <3> QED BY <2>2, <3>1, <3>2
  <2>5. open'[1] = UnitScope /\ Len(open') >= 1 BY <1>2, <1>3
  <2> QED BY <1>3, <2>1, <2>4, <2>5
<1>8. ASSUME NEW p \in old PROVE OnePlace(open', p) /\ OnePlace(p, open')
  <2>1. OnePlace(open, p) /\ OnePlace(p, open) BY <1>5 DEF NamesInv
  <2>2. \A k \in DOMAIN open', l \in DOMAIN p : open'[k] = p[l] => k \in 1 .. Len(open) /\ k \in DOMAIN open /\ open[k] = p[l]
    <3> SUFFICES ASSUME NEW k \in DOMAIN open', NEW l \in DOMAIN p, open'[k] = p[l]
                 PROVE  k \in 1 .. Len(open) /\ k \in DOMAIN open /\ open[k] = p[l]
      OBVIOUS
    <3>1. p[l].id # scopes + 1 BY <1>4, <1>5
    <3>2. k # Len(open) + 1 BY <1>3, <3>1
    <3> QED BY <1>2, <1>3, <3>2
  <2>3. ASSUME NEW k \in DOMAIN open', NEW l \in DOMAIN p, open'[k] = p[l]
        PROVE  k = l /\ \A m \in 1 .. k : open'[m] = p[m]
    <3>1. k \in 1 .. Len(open) /\ k \in DOMAIN open /\ open[k] = p[l] BY <2>2, <2>3
    <3>2. k = l /\ \A m \in 1 .. k : open[m] = p[m] BY <2>1, <3>1 DEF OnePlace
    <3> QED BY <1>2, <1>3, <3>1, <3>2
  <2>4. ASSUME NEW l \in DOMAIN p, NEW k \in DOMAIN open', p[l] = open'[k]
        PROVE  l = k /\ \A m \in 1 .. l : p[m] = open'[m]
    BY <2>3, <2>4
  <2> QED BY <2>3, <2>4 DEF OnePlace
<1>9. OnePlace(open', open')
  <2>1. OnePlace(open, open) BY <1>5 DEF NamesInv
  <2>2. \A k \in DOMAIN open' : k \in 1 .. Len(open) \/ k = Len(open) + 1 BY <1>3
  <2>3. \A k \in 1 .. Len(open) : k \in DOMAIN open /\ open'[k] = open[k] /\ open[k].id # scopes + 1 BY <1>2, <1>3, <1>4, <1>5
  <2>4. \A k \in 1 .. Len(open) : open'[k] # open'[Len(open) + 1] BY <1>3, <2>3
  <2>5. \A k, l \in DOMAIN open' : open'[k] = open'[l] => k = l
    <3> SUFFICES ASSUME NEW k \in DOMAIN open', NEW l \in DOMAIN open', open'[k] = open'[l] PROVE k = l OBVIOUS
    <3>1. CASE k \in 1 .. Len(open) /\ l \in 1 .. Len(open) BY <2>1, <2>3, <3>1 DEF OnePlace
    <3> QED BY <2>2, <2>4, <3>1
  <2> QED BY <2>5 DEF OnePlace
<1>10. \A p, q \in Paths' : OnePlace(p, q)
  <2>1. \A p, q \in old : OnePlace(p, q) BY <1>5 DEF NamesInv
  <2> QED BY <1>5, <1>8, <1>9, <2>1
<1>11. \A p \in Paths' : PathRight(p)' BY <1>5, <1>6, <1>7
<1>12. \A x : Declarable(x)' = Declarable(x) BY <1>1 DEF Declarable
<1>13. \A x, y : SameSpace(x, y)' <=> SameSpace(x, y) BY <1>1 DEF SameSpace, InCxx
<1>14. (\A i \in DOMAIN names : names[i].what \in Declarable(Context(names[i].path).kind))'
  BY <1>1, <1>12 DEF NamesInv, Context
<1>15. (\A i, j \in DOMAIN names : i # j /\ names[i].path = names[j].path => ~SameSpace(names[i].what, names[j].what))'
  BY <1>1, <1>13 DEF NamesInv
<1>16. names' \in Seq([what : NameKinds, path : Path]) /\ scopes' \in Nat BY <1>1 DEF NamesInv
<1>17. (\A p, q \in Paths : OnePlace(p, q))' BY <1>10 DEF OnePlace
<1> QED BY <1>11, <1>14, <1>15, <1>16, <1>17 DEF NamesInv

LEMMA PathsShrink == ASSUME NamesInv, CloseScope PROVE NamesInv'
<1> DEFINE Path == Seq([id : Nat, kind : ScopeKinds])
           old == {names[i].path : i \in DOMAIN names}
<1>1. scopes' = scopes /\ names' = names /\ about' = about /\ open' = Front(open) /\ Len(open) > 1
  BY DEF CloseScope
<1>2. PathRight(open) /\ OnePlace(open, open)
  <2>1. open \in Paths BY DEF Paths
  <2> QED BY <2>1 DEF NamesInv
<1>3. open \in Path /\ Len(open) \in Nat BY <1>2 DEF PathRight
<1>4. open' \in Path /\ Len(open') = Len(open) - 1 /\ \A k \in 1 .. Len(open') : k \in DOMAIN open /\ open'[k] = open[k]
  <2>1. open' = SubSeq(open, 1, Len(open) - 1) BY <1>1 DEF Front
  <2>2. Len(open) - 1 \in 0 .. Len(open) BY <1>1, <1>3
  <2>3. Len(open') = Len(open) - 1 /\ open' \in Path
    <3> DEFINE Scopes == [id : Nat, kind : ScopeKinds]
    <3>1. 1 \in Int /\ Len(open) - 1 \in Int /\ Len(open) - 1 >= 1 BY <1>1, <1>3
    <3>2. \A k \in 1 .. Len(open) - 1 : open[k] \in Scopes
      <4>1. \A k \in 1 .. Len(open) - 1 : k \in 1 .. Len(open) BY <1>3
      <4> QED BY <1>3, <4>1, ElementOfSeq
    <3> HIDE DEF Scopes
    <3>3. /\ SubSeq(open, 1, Len(open) - 1) \in Seq(Scopes)
          /\ Len(SubSeq(open, 1, Len(open) - 1)) = IF 1 <= Len(open) - 1 THEN (Len(open) - 1) - 1 + 1 ELSE 0
      BY <3>1, <3>2, SubSeqProperties
    <3>4. Len(open') = Len(open) - 1 BY <1>3, <2>1, <3>1, <3>3
    <3>5. open' \in Path BY <2>1, <3>3 DEF Scopes
    <3> QED BY <3>4, <3>5
  <2>4. \A k \in 1 .. Len(open) - 1 : k \in DOMAIN open /\ open'[k] = open[k] BY <1>3, <2>1, <2>2
  <2> QED BY <2>3, <2>4
<1>5. Paths' = {open'} \cup old /\ Paths = {open} \cup old BY <1>1 DEF Paths
<1> HIDE DEF old
<1>6. \A x : Inside(x)' = Inside(x) BY <1>1 DEF Inside, InCxx
<1>7. \A p \in old : PathRight(p)' BY <1>1, <1>5, <1>6 DEF NamesInv, PathRight
<1>8. PathRight(open)'
  <2>1. ASSUME NEW k \in DOMAIN open'
        PROVE  open'[k].id <= scopes' /\ (k > 1 => open'[k].kind \in Inside(open'[k - 1].kind))
    <3>1. k \in 1 .. Len(open') /\ k \in DOMAIN open /\ open'[k] = open[k] BY <1>4
    <3>2. k > 1 => k - 1 \in 1 .. Len(open') BY <1>4, <3>1
    <3>3. k > 1 => open'[k - 1] = open[k - 1] BY <1>4, <3>2
    <3> QED BY <1>1, <1>2, <3>1, <3>3 DEF PathRight
  <2>2. Len(open') >= 1 /\ open'[1] = open[1] BY <1>1, <1>3, <1>4
  <2>3. open'[1] = UnitScope BY <1>2, <2>2 DEF PathRight
  <2> QED BY <1>4, <1>6, <2>1, <2>2, <2>3 DEF PathRight
<1>9. ASSUME NEW p \in Paths, NEW q \in Paths' PROVE OnePlace(p, q) /\ OnePlace(q, p)
  <2>1. CASE q \in old BY <1>5, <2>1 DEF NamesInv
  <2>2. CASE q = open'
    <3>1. OnePlace(p, open) /\ OnePlace(open, p) BY <1>5 DEF NamesInv
    <3>2. \A k \in DOMAIN open' : k \in 1 .. Len(open') BY <1>4
    <3>3. \A k \in 1 .. Len(open') : \A m \in 1 .. k : m \in 1 .. Len(open') BY <1>4
    <3>4. \A k \in 1 .. Len(open') : \A m \in 1 .. k : open'[m] = open[m] BY <1>4, <3>3
    <3>5. OnePlace(p, open')
      <4> SUFFICES ASSUME NEW k \in DOMAIN p, NEW l \in DOMAIN open', p[k] = open'[l]
                   PROVE  k = l /\ \A m \in 1 .. k : p[m] = open'[m]
        BY DEF OnePlace
      <4>1. l \in 1 .. Len(open') /\ l \in DOMAIN open /\ p[k] = open[l] BY <1>4, <3>2
      <4>2. k = l /\ \A m \in 1 .. k : p[m] = open[m] BY <3>1, <4>1 DEF OnePlace
      <4> QED BY <3>4, <4>1, <4>2
    <3>6. OnePlace(open', p)
      <4> SUFFICES ASSUME NEW k \in DOMAIN open', NEW l \in DOMAIN p, open'[k] = p[l]
                   PROVE  k = l /\ \A m \in 1 .. k : open'[m] = p[m]
        BY DEF OnePlace
      <4>1. k \in 1 .. Len(open') /\ k \in DOMAIN open /\ open[k] = p[l] BY <1>4, <3>2
      <4>2. k = l /\ \A m \in 1 .. k : open[m] = p[m] BY <3>1, <4>1 DEF OnePlace
      <4> QED BY <3>4, <4>1, <4>2
    <3> QED BY <2>2, <3>5, <3>6
  <2> QED BY <1>5, <2>1, <2>2
<1>10. OnePlace(open', open')
  <2>1. \A k \in DOMAIN open' : k \in 1 .. Len(open') BY <1>4
  <2> QED BY <1>2, <1>4, <2>1 DEF OnePlace
<1>11. \A p, q \in Paths' : OnePlace(p, q) BY <1>5, <1>9, <1>10
<1>12. \A x : Declarable(x)' = Declarable(x) BY DEF Declarable
<1>13. \A x, y : SameSpace(x, y)' <=> SameSpace(x, y) BY <1>1 DEF SameSpace, InCxx
<1>14. (\A i \in DOMAIN names : names[i].what \in Declarable(Context(names[i].path).kind))'
  BY <1>1, <1>12 DEF NamesInv, Context
<1>15. (\A i, j \in DOMAIN names : i # j /\ names[i].path = names[j].path => ~SameSpace(names[i].what, names[j].what))'
  BY <1>1, <1>13 DEF NamesInv
<1>16. names' \in Seq([what : NameKinds, path : Path]) /\ scopes' \in Nat BY <1>1 DEF NamesInv
<1>17. (\A p, q \in Paths : OnePlace(p, q))' BY <1>11 DEF OnePlace
<1>18. (\A p \in Paths : PathRight(p))' BY <1>5, <1>7, <1>8
<1> QED BY <1>14, <1>15, <1>16, <1>17, <1>18 DEF NamesInv

LEMMA NameAdded ==
  ASSUME NamesInv, NEW what \in NameKinds, DeclareName(what)
  PROVE  NamesInv'
<1> DEFINE Path == Seq([id : Nat, kind : ScopeKinds])
           new == [what |-> what, path |-> open]
           n == Len(names) + 1
<1>1. /\ scopes' = scopes /\ about' = about /\ open' = open /\ names' = Append(names, new)
      /\ what \in Declarable(Context(open).kind)
      /\ \A i \in DOMAIN names : names[i].path = open => ~SameSpace(what, names[i].what)
  BY DEF DeclareName
<1>2. PathRight(open)
  <2>1. open \in Paths BY DEF Paths
  <2> QED BY <2>1 DEF NamesInv
<1>3. open \in Path /\ names \in Seq([what : NameKinds, path : Path]) /\ Len(names) \in Nat
  BY <1>2 DEF PathRight, NamesInv
<1>4. new \in [what : NameKinds, path : Path] BY <1>3
<1>5. /\ names' \in Seq([what : NameKinds, path : Path])
      /\ DOMAIN names' = 1 .. n /\ DOMAIN names = 1 .. Len(names)
      /\ \A i \in 1 .. Len(names) : names'[i] = names[i]
      /\ names'[n] = new
  BY <1>1, <1>3, <1>4, AppendProperties
<1>6. \A i \in 1 .. n : i \in 1 .. Len(names) \/ i = n BY <1>3
<1>7. Paths' = Paths
  <2>1. \A i \in DOMAIN names' : names'[i].path = open \/ \E j \in DOMAIN names : names'[i].path = names[j].path
    <3> SUFFICES ASSUME NEW i \in 1 .. n
                 PROVE  names'[i].path = open \/ \E j \in DOMAIN names : names'[i].path = names[j].path
      BY <1>5
    <3>1. CASE i = n BY <1>5, <3>1
    <3>2. CASE i \in 1 .. Len(names)
      <4>1. i \in DOMAIN names /\ names'[i] = names[i] BY <1>5, <3>2
      <4> QED BY <4>1
    <3> QED BY <1>6, <3>1, <3>2
  <2>2. \A i \in DOMAIN names : i \in DOMAIN names' /\ names'[i].path = names[i].path BY <1>3, <1>5
  <2> QED BY <1>1, <2>1, <2>2 DEF Paths
<1>8. \A x : Inside(x)' = Inside(x) BY <1>1 DEF Inside, InCxx
<1>9. (\A p \in Paths : PathRight(p))' BY <1>1, <1>7, <1>8 DEF NamesInv, PathRight
<1>10. (\A p, q \in Paths : OnePlace(p, q))' BY <1>7 DEF NamesInv, OnePlace
<1>11. \A x : Declarable(x)' = Declarable(x) BY DEF Declarable
<1>12. (\A i \in DOMAIN names : names[i].what \in Declarable(Context(names[i].path).kind))'
  BY <1>1, <1>5, <1>6, <1>11 DEF NamesInv, Context
<1>13. \A x, y : SameSpace(x, y)' <=> SameSpace(x, y) BY <1>1 DEF SameSpace, InCxx
<1>14. \A x, y : SameSpace(x, y) <=> SameSpace(y, x) BY DEF SameSpace
<1>15. (\A i, j \in DOMAIN names : i # j /\ names[i].path = names[j].path => ~SameSpace(names[i].what, names[j].what))'
  <2> SUFFICES ASSUME NEW i \in 1 .. n, NEW j \in 1 .. n, i # j, names'[i].path = names'[j].path
               PROVE  ~SameSpace(names'[i].what, names'[j].what)
    BY <1>5, <1>13
  <2>1. CASE i \in 1 .. Len(names) /\ j \in 1 .. Len(names) BY <1>5, <2>1 DEF NamesInv
  <2>2. CASE i = n /\ j \in 1 .. Len(names) BY <1>1, <1>5, <2>2
  <2>3. CASE i \in 1 .. Len(names) /\ j = n
    <3>1. names'[j].path = open /\ names'[i] = names[i] /\ i \in DOMAIN names BY <1>5, <2>3
    <3>2. ~SameSpace(what, names[i].what) BY <1>1, <3>1
    <3> QED BY <1>5, <1>14, <2>3, <3>1, <3>2
  <2> QED BY <1>6, <2>1, <2>2, <2>3
<1>16. scopes' \in Nat BY <1>1 DEF NamesInv
<1> QED BY <1>5, <1>9, <1>10, <1>12, <1>15, <1>16 DEF NamesInv

(***************************************************************************)
(* What stands in a path inside of another one.                            *)
(***************************************************************************)
LEMMA NamePath ==
  ASSUME NamesInv, NEW i \in DOMAIN names
  PROVE  /\ PathRight(names[i].path) /\ names[i].path \in Paths
         /\ names[i].path \in Seq([id : Nat, kind : ScopeKinds]) /\ Len(names[i].path) \in Nat
         /\ Len(names[i].path) \in DOMAIN names[i].path
         /\ Context(names[i].path) = names[i].path[Len(names[i].path)]
         /\ Context(names[i].path).kind \in ScopeKinds
<1> DEFINE p == names[i].path
<1>1. p \in Paths BY DEF Paths
<1>2. PathRight(p) BY <1>1 DEF NamesInv
<1>3. p \in Seq([id : Nat, kind : ScopeKinds]) /\ Len(p) \in Nat /\ Len(p) \in 1 .. Len(p) BY <1>2 DEF PathRight
<1>4. p[Len(p)] \in [id : Nat, kind : ScopeKinds] BY <1>3, ElementOfSeq
<1> QED BY <1>1, <1>2, <1>3, <1>4 DEF Context

LEMMA NestedIs ==
  ASSUME NamesInv, NEW i \in DOMAIN names, NEW j \in DOMAIN names
  PROVE  Nested(names[i].path, names[j].path) <=>
           /\ Len(names[j].path) < Len(names[i].path)
           /\ \A k \in 1 .. Len(names[j].path) : names[j].path[k] = names[i].path[k]
<1> DEFINE p == names[i].path
           q == names[j].path
           Links == [id : Nat, kind : ScopeKinds]
<1>1. p \in Seq(Links) /\ q \in Seq(Links) /\ Len(p) \in Nat /\ Len(q) \in Nat BY NamePath
<1> HIDE DEF p, q, Links
<1>2. IsPrefix(q, p) <=> Len(q) <= Len(p) /\ \A k \in 1 .. Len(q) : q[k] = p[k] BY <1>1, PrefixIs
<1>3. ASSUME Len(q) = Len(p), \A k \in 1 .. Len(q) : q[k] = p[k] PROVE p = q
  <2>1. \A k \in 1 .. Len(p) : p[k] = q[k] BY <1>3
  <2> QED BY <1>1, <1>3, <2>1, SeqEqual
<1>4. p = q => Len(p) = Len(q) OBVIOUS
<1>5. IsStrictPrefix(q, p) <=> Len(q) < Len(p) /\ \A k \in 1 .. Len(q) : q[k] = p[k]
  BY <1>1, <1>2, <1>3, <1>4 DEF IsStrictPrefix
<1> QED BY <1>5 DEF Nested, p, q

\* A scope around a declaration is its context, a parent, or a block.
LEMMA Around ==
  ASSUME NamesInv, NEW i \in DOMAIN names, NEW k \in DOMAIN names[i].path
  PROVE  LET c == names[i].path[k]
         IN  c.kind # "block" => c = DeclContext(names[i].path) \/ c \in Parents(i)
BY DEF Parents, Range

\* A scope that is a parent of a declaration and the context of another one's path.
LEMMA ParentHolds ==
  ASSUME NamesInv, NEW i \in DOMAIN names, NEW j \in DOMAIN names, Context(names[j].path) \in Parents(i)
  PROVE  Nested(names[i].path, names[j].path)
<1> DEFINE p == names[i].path
           q == names[j].path
<1>1. /\ PathRight(p) /\ p \in Paths /\ q \in Paths /\ Len(q) \in DOMAIN q /\ Context(q) = q[Len(q)]
      /\ DOMAIN p = 1 .. Len(p) /\ Len(p) \in Nat /\ Len(q) \in Nat
  BY NamePath
<1>2. PICK k \in DOMAIN p : p[k] = Context(q) /\ p[k].kind # "block" /\ p[k] # DeclContext(p)
  BY DEF Parents, Range
<1>3. PICK n \in DOMAIN p : DeclContext(p) = p[n] /\ \A l \in DOMAIN p : l > n => p[l].kind = "block"
  BY <1>1, ContextIs
<1>4. k < n BY <1>1, <1>2, <1>3
<1>5. OnePlace(q, p) BY <1>1 DEF NamesInv
<1>6. Len(q) = k /\ \A m \in 1 .. Len(q) : q[m] = p[m] BY <1>1, <1>2, <1>5 DEF OnePlace
<1> QED BY <1>1, <1>4, <1>6, NestedIs

\* What a name hides is in its own context, in a parent, or in a block.
LEMMA HiddenFrom ==
  ASSUME NamesInv, NEW i \in DOMAIN names, NEW j \in DOMAIN names, Nested(names[i].path, names[j].path)
  PROVE  LET c == Context(names[j].path)
         IN  /\ c.kind \in ScopeKinds
             /\ c.kind = "block" => InFunction(j)
             /\ c.kind # "block" => DeclContext(names[j].path) = c
             /\ c.kind \in {"unit", "namespace", "class"} => c \in Parents(i)
             /\ c.kind \in {"function", "lambda"} => c \in Parents(i) \/ c = DeclContext(names[i].path)
<1> DEFINE p == names[i].path
           q == names[j].path
           c == Context(q)
<1>1. /\ PathRight(p) /\ PathRight(q) /\ Len(q) \in DOMAIN q /\ c = q[Len(q)]
      /\ DOMAIN p = 1 .. Len(p) /\ Len(p) \in Nat /\ Len(q) \in Nat /\ DOMAIN q = 1 .. Len(q)
      /\ c.kind \in ScopeKinds
  BY NamePath
<1>2. Len(q) < Len(p) /\ p[Len(q)] = c /\ Len(q) \in DOMAIN p BY <1>1, NestedIs
<1>3. PICK n \in DOMAIN q : /\ DeclContext(q) = q[n] /\ q[n].kind # "block"
                            /\ \A k \in DOMAIN q : k > n => q[k].kind = "block"
                            /\ n < Len(q) => q[n].kind \in {"function", "lambda"}
  BY <1>1, ContextIs
<1>4. c.kind = "block" => n < Len(q) BY <1>1, <1>3
<1>5. c.kind # "block" => n = Len(q) BY <1>1, <1>3
<1>6. c.kind = "block" => InFunction(j) BY <1>3, <1>4 DEF InFunction
<1>7. c.kind # "block" => c = DeclContext(p) \/ c \in Parents(i) BY <1>2, Around
<1>8. PICK m \in DOMAIN p : /\ DeclContext(p) = p[m]
                            /\ \A k \in DOMAIN p : k > m => p[k].kind = "block"
                            /\ m < Len(p) => p[m].kind \in {"function", "lambda"}
  BY <1>1, ContextIs
<1>9. ASSUME c.kind \in {"unit", "namespace", "class"} PROVE c # DeclContext(p)
  <2> SUFFICES ASSUME c = DeclContext(p) PROVE FALSE OBVIOUS
  <2>1. p \in Paths BY NamePath
  <2>2. OnePlace(p, p) BY <2>1 DEF NamesInv
  <2>3. m = Len(q) BY <1>2, <1>8, <2>2 DEF OnePlace
  <2> QED BY <1>2, <1>8, <1>9, <2>3
<1> QED BY <1>1, <1>3, <1>5, <1>6, <1>7, <1>9

LEMMA HidingFound == ASSUME NamesInv PROVE HidingReported
<1> SUFFICES ASSUME NEW i \in DOMAIN names, NEW j \in Hidden(i)
             PROVE  /\ names[i].what = "var" /\ InFunction(i) /\ names[j].what \in {"var", "field", "param", "static"} =>
                         IdentifierShadowing(i) \/ SameFunction(i, j) \/ LocalVar(j)
                    /\ names[i].what = "tag" =>
                         \/ TagNameHiding(i) \/ DuplicateTagName(i)
                         \/ InFunction(j) /\ names[j].what # "param"
                         \/ Context(names[j].path).kind = "class"
                    /\ {names[i].what, names[j].what} = {"typedef"} => DuplicateTypedefName(i)
  BY DEF HidingReported
<1> DEFINE c == Context(names[j].path)
<1>1. j \in DOMAIN names /\ Nested(names[i].path, names[j].path) /\ (j < i \/ names[j].what = "field") BY DEF Hidden
<1>2. i \in Nat /\ j \in Nat /\ DOMAIN names = 1 .. Len(names) /\ Len(names) \in Nat BY <1>1 DEF NamesInv
<1>3. /\ c.kind \in ScopeKinds
      /\ c.kind = "block" => InFunction(j)
      /\ c.kind # "block" => DeclContext(names[j].path) = c
      /\ c.kind \in {"unit", "namespace", "class"} => c \in Parents(i)
      /\ c.kind \in {"function", "lambda"} => c \in Parents(i) \/ c = DeclContext(names[i].path)
  BY <1>1, HiddenFrom
<1>4. names[j].what \in Declarable(c.kind) BY <1>1 DEF NamesInv
<1>5. /\ names[j].what \in NameKinds
      /\ names[j].what = "param" => c.kind \in {"function", "lambda"}
      /\ names[j].what = "static" => c.kind \in {"function", "lambda", "block"}
      /\ names[j].what = "field" => c.kind = "class"
      /\ names[j].what \in {"function", "enumerator"} => c.kind \in {"unit", "namespace"}
      /\ names[j].what = "var" => c.kind # "class"
  BY <1>3, <1>4, KindsDeclared
<1>6. \A whats : names[j].what \in whats => Has(c, whats) BY <1>1 DEF Has
<1> HIDE DEF c
<1>7. c.kind \in {"function", "lambda"} => InFunction(j) BY <1>3 DEF InFunction
<1>8. ASSUME names[i].what = "var", InFunction(i), names[j].what \in {"var", "field", "param", "static"}
      PROVE  IdentifierShadowing(i) \/ SameFunction(i, j) \/ LocalVar(j)
  <2>1. CASE names[j].what = "static" BY <1>3, <1>5, <1>7, <2>1 DEF LocalVar
  <2>2. CASE names[j].what = "var"
    <3>1. c.kind \in {"function", "lambda", "block"} => LocalVar(j) BY <1>3, <1>7, <2>2 DEF LocalVar
    <3>2. c.kind \in {"unit", "namespace"} => c \in Parents(i) /\ Has(c, {"var"}) BY <1>3, <1>6, <2>2
    <3>3. c.kind \in {"unit", "namespace"} => IdentifierShadowing(i) BY <1>8, <3>2 DEF IdentifierShadowing
    <3> QED BY <1>3, <1>5, <2>2, <3>1, <3>3 DEF ScopeKinds
  <2>3. CASE names[j].what = "field"
    <3>1. c.kind = "class" /\ c \in Parents(i) /\ Has(c, {"field"}) BY <1>3, <1>5, <1>6, <2>3
    <3> QED BY <1>8, <3>1 DEF IdentifierShadowing
  <2>4. CASE names[j].what = "param"
    <3>1. c.kind \in {"function", "lambda"} /\ Has(c, {"param"}) BY <1>5, <1>6, <2>4
    <3>2. CASE c \in Parents(i) BY <1>8, <3>1, <3>2 DEF IdentifierShadowing
    <3>3. CASE c = DeclContext(names[i].path) BY <1>3, <3>1, <3>3 DEF SameFunction
    <3> QED BY <1>3, <3>1, <3>2, <3>3
  <2> QED BY <1>8, <2>1, <2>2, <2>3, <2>4
<1>9. ASSUME names[i].what = "tag"
      PROVE  \/ TagNameHiding(i) \/ DuplicateTagName(i)
             \/ InFunction(j) /\ names[j].what # "param"
             \/ c.kind = "class"
  <2>1. CASE c.kind \in {"unit", "namespace"}
    <3>1. names[j].what \in {"var", "function", "typedef", "enumerator", "tag"} BY <1>4, <2>1 DEF Declarable
    <3>2. CASE names[j].what = "tag"
      <4>1. j \in 1 .. i - 1 BY <1>1, <1>2, <3>2
      <4> QED BY <1>9, <3>2, <4>1 DEF DuplicateTagName, Repeated
    <3>3. CASE names[j].what # "tag"
      <4>1. Has(c, {"var", "function", "typedef", "enumerator"}) BY <1>6, <3>1, <3>3
      <4> QED BY <1>3, <1>9, <2>1, <4>1 DEF TagNameHiding
    <3> QED BY <3>2, <3>3
  <2>2. CASE c.kind \in {"function", "lambda"} /\ names[j].what = "param"
    <3>1. Has(c, {"param"}) BY <1>6, <2>2
    <3>2. CASE c \in Parents(i) BY <1>9, <2>2, <3>1, <3>2 DEF TagNameHiding
    <3>3. CASE c = DeclContext(names[i].path) BY <1>9, <2>2, <3>1, <3>3 DEF TagNameHiding, InFunction
    <3> QED BY <1>3, <2>2, <3>2, <3>3
  <2>3. CASE c.kind \in {"function", "lambda"} /\ names[j].what # "param" BY <1>7, <2>3
  <2>4. CASE c.kind = "block" BY <1>3, <1>5, <2>4
  <2> QED BY <1>3, <2>1, <2>2, <2>3, <2>4 DEF ScopeKinds
<1>10. ASSUME {names[i].what, names[j].what} = {"typedef"} PROVE DuplicateTypedefName(i)
  <2>1. names[i].what = "typedef" /\ names[j].what = "typedef" BY <1>10
  <2>2. j \in 1 .. i - 1 BY <1>1, <1>2, <2>1
  <2> QED BY <2>1, <2>2 DEF DuplicateTypedefName, Repeated
<1> QED BY <1>8, <1>9, <1>10 DEF c

LEMMA ReportsFound == ASSUME NamesInv PROVE ReportedHides
<1> SUFFICES ASSUME NEW i \in DOMAIN names, IdentifierShadowing(i) \/ TagNameHiding(i),
                    InCxx \/ names[i].what # "tag",
                    ~\E j \in i + 1 .. Len(names) : Nested(names[i].path, names[j].path)
             PROVE  Hidden(i) # {}
  BY DEF ReportedHides
<1>1. DOMAIN names = 1 .. Len(names) /\ Len(names) \in Nat BY DEF NamesInv
<1>2. SUFFICES \E j \in DOMAIN names : /\ Nested(names[i].path, names[j].path)
                                       /\ InCxx \/ names[j].what # "tag"
  <2>1. PICK j \in DOMAIN names : Nested(names[i].path, names[j].path) /\ (InCxx \/ names[j].what # "tag") BY <1>2
  <2>2. Len(names[j].path) < Len(names[i].path) BY <2>1, NestedIs
  <2>3. Len(names[j].path) \in Nat BY <2>1, NamePath
  <2>4. j # i BY <2>2, <2>3
  <2>5. j < i BY <1>1, <2>1, <2>4
  <2>6. SameSpace(names[i].what, names[j].what) BY <2>1 DEF SameSpace
  <2>7. j \in Hidden(i) BY <2>1, <2>5, <2>6 DEF Hidden
  <2> QED BY <2>7
<1>3. ASSUME NEW c \in Parents(i), NEW whats, Has(c, whats), "tag" \notin whats
      PROVE  \E j \in DOMAIN names : Nested(names[i].path, names[j].path) /\ (InCxx \/ names[j].what # "tag")
  <2>1. PICK j \in DOMAIN names : Context(names[j].path) = c /\ names[j].what \in whats BY <1>3 DEF Has
  <2> QED BY <1>3, <2>1, ParentHolds
<1>4. CASE IdentifierShadowing(i)
  <2>1. PICK c \in Parents(i) : Has(c, CASE c.kind \in {"function", "lambda"} -> {"param"}
                                         [] c.kind = "class" -> {"field"}
                                         [] OTHER -> {"var"})
    BY <1>4 DEF IdentifierShadowing
  <2>2. Has(c, {"param"}) \/ Has(c, {"field"}) \/ Has(c, {"var"}) BY <2>1
  <2> QED BY <1>3, <2>2
<1>5. CASE TagNameHiding(i)
  <2>1. CASE InFunction(i) /\ Has(DeclContext(names[i].path), {"param"}) /\ names[i].what = "tag"
    <3> DEFINE p == names[i].path
    <3>1. PICK j \in DOMAIN names : Context(names[j].path) = DeclContext(p) /\ names[j].what = "param" BY <2>1 DEF Has
    <3> DEFINE q == names[j].path
    <3>2. /\ PathRight(p) /\ p \in Paths /\ q \in Paths /\ Len(q) \in DOMAIN q /\ Context(q) = q[Len(q)]
          /\ DOMAIN p = 1 .. Len(p) /\ Len(p) \in Nat /\ Len(q) \in Nat
          /\ p \in Seq([id : Nat, kind : ScopeKinds]) /\ q \in Seq([id : Nat, kind : ScopeKinds])
      <4>1. /\ PathRight(p) /\ p \in Paths /\ p \in Seq([id : Nat, kind : ScopeKinds]) /\ Len(p) \in Nat
        BY NamePath
      <4>2. /\ q \in Paths /\ q \in Seq([id : Nat, kind : ScopeKinds]) /\ Len(q) \in Nat
            /\ Len(q) \in DOMAIN q /\ Context(q) = q[Len(q)]
        BY NamePath
      <4>3. DOMAIN p = 1 .. Len(p) BY <4>1, LenProperties
      <4> QED BY <4>1, <4>2, <4>3
    <3>3. PICK n \in DOMAIN p : DeclContext(p) = p[n] BY <3>2, ContextIs
    <3>4. OnePlace(q, p) BY <3>2 DEF NamesInv
    <3>5. Len(q) = n /\ \A m \in 1 .. Len(q) : q[m] = p[m] BY <3>1, <3>2, <3>3, <3>4 DEF OnePlace
    <3>6. Len(q) # Len(p)
      <4> SUFFICES ASSUME Len(q) = Len(p) PROVE FALSE OBVIOUS
      <4>1. p = q BY <3>2, <3>5, SeqEqual
      <4>2. i # j BY <2>1, <3>1
      <4>3. ~SameSpace(names[i].what, names[j].what) BY <4>1, <4>2 DEF NamesInv
      <4> QED BY <2>1, <4>3 DEF SameSpace
    <3>7. Len(q) < Len(p) BY <3>2, <3>3, <3>5, <3>6
    <3>8. Nested(p, q) BY <3>5, <3>7, NestedIs
    <3> QED BY <3>1, <3>8
  <2>2. CASE \E c \in Parents(i) : Has(c, CASE c.kind \in {"function", "lambda"} -> {"param"}
                                            [] c.kind = "class" -> {"field"}
                                            [] OTHER -> {"var", "function", "typedef", "enumerator"})
    <3>1. PICK c \in Parents(i) : Has(c, CASE c.kind \in {"function", "lambda"} -> {"param"}
                                           [] c.kind = "class" -> {"field"}
                                           [] OTHER -> {"var", "function", "typedef", "enumerator"})
      BY <2>2
    <3>2. Has(c, {"param"}) \/ Has(c, {"field"}) \/ Has(c, {"var", "function", "typedef", "enumerator"}) BY <3>1
    <3> QED BY <1>3, <3>2
  <2> QED BY <1>5, <2>1, <2>2 DEF TagNameHiding
<1> QED BY <1>4, <1>5

(***************************************************************************)
(* A struct is used by its tag, if it has one, or by the name of a typedef *)
(* that defines it.                                                        *)
(***************************************************************************)
StructPlaces == {"none", "alone", "var", "field", "typedef", "alias"}
StructUses == [in : {"var", "field", "param", "return"}, via : {"tag", "name"}]
StructInv ==
  /\ struct \in [tag : BOOLEAN, at : StructPlaces, uses : Seq(StructUses)]
  /\ struct.at = "none" => struct.tag /\ struct.uses = <<>>
  /\ \A i \in DOMAIN struct.uses :
       IF struct.uses[i].via = "tag" THEN struct.tag ELSE struct.at \in {"typedef", "alias"}

LEMMA StructNext ==
  ASSUME StructInv,
         \/ UNCHANGED typeVars
         \/ \E tag \in BOOLEAN, in \in StructPlaces \ {"none"} : DefineStruct(tag, in)
         \/ \E in \in {"var", "field", "param", "return"}, via \in {"tag", "name"} : UseStruct(in, via)
  PROVE  StructInv'
<1>1. CASE UNCHANGED typeVars BY <1>1 DEF StructInv, typeVars
<1>2. ASSUME NEW tag \in BOOLEAN, NEW in \in StructPlaces \ {"none"}, DefineStruct(tag, in) PROVE StructInv'
  <2>1. struct.at = "none" /\ struct' = [struct EXCEPT !.tag = tag, !.at = in] BY <1>2 DEF DefineStruct
  <2>2. struct.uses = <<>> BY <2>1 DEF StructInv
  <2>3. struct' = [tag |-> tag, at |-> in, uses |-> <<>>] BY <2>1, <2>2 DEF StructInv
  <2>4. in \in StructPlaces /\ in # "none" /\ <<>> \in Seq(StructUses) OBVIOUS
  <2>5. struct' \in [tag : BOOLEAN, at : StructPlaces, uses : Seq(StructUses)] BY <2>3, <2>4, Zenon
  <2>6. struct'.at # "none" /\ struct'.uses = <<>> BY <2>3, <2>4
  <2>7. DOMAIN struct'.uses = {} BY <2>6
  <2> QED BY <2>5, <2>6, <2>7, Zenon DEF StructInv
<1>3. ASSUME NEW in \in {"var", "field", "param", "return"}, NEW via \in {"tag", "name"}, UseStruct(in, via)
      PROVE  StructInv'
  <2> DEFINE new == [in |-> in, via |-> via]
             old == struct.uses
  <2>1. /\ struct.at # "none"
        /\ IF via = "tag" THEN struct.tag ELSE struct.at \in {"typedef", "alias"}
        /\ struct' = [struct EXCEPT !.uses = Append(struct.uses, new)]
    BY <1>3 DEF UseStruct
  <2>2. old \in Seq(StructUses) /\ new \in StructUses BY DEF StructInv, StructUses
  <2>3. struct'.tag = struct.tag /\ struct'.at = struct.at /\ struct'.uses = Append(old, new) BY <2>1 DEF StructInv
  <2>4. Append(old, new) \in Seq(StructUses) BY <2>2, AppendProperties
  <2>5. struct' \in [tag : BOOLEAN, at : StructPlaces, uses : Seq(StructUses)] BY <2>1, <2>4 DEF StructInv
  <2>6. ASSUME NEW i \in DOMAIN Append(old, new)
        PROVE  Append(old, new)[i] = new \/ (i \in DOMAIN old /\ Append(old, new)[i] = old[i])
    BY <2>2, AppendProperties
  <2>7. ASSUME NEW i \in DOMAIN struct'.uses
        PROVE  IF struct'.uses[i].via = "tag" THEN struct'.tag ELSE struct'.at \in {"typedef", "alias"}
    <3>1. CASE struct'.uses[i] = new
      <4>1. struct'.uses[i].via = via BY <3>1
      <4> QED BY <2>1, <2>3, <4>1, Zenon
    <3>2. CASE i \in DOMAIN old /\ struct'.uses[i] = old[i] BY <2>3, <3>2, Zenon DEF StructInv
    <3> QED BY <2>3, <2>6, <2>7, <3>1, <3>2
  <2>8. struct'.at # "none" BY <2>1, <2>3
  <2> QED BY <2>5, <2>7, <2>8, Zenon DEF StructInv
<1> QED BY <1>1, <1>2, <1>3

LEMMA InlineFound == ASSUME StructInv PROVE DefinedInline
<1>1. struct.tag \/ {struct.at} \cup {struct.uses[i].in : i \in DOMAIN struct.uses} \subseteq InlineTypeDefinition
  BY Zenon DEF StructInv, InlineTypeDefinition, InlineTag
<1>2. ASSUME NEW in \in InlineTypeDefinition
      PROVE  in = struct.at \/ (~struct.tag /\ struct.at \in {"typedef", "alias"} /\ ~UnusedType)
  <2>1. struct.at # "none" /\ ~struct.tag /\ in \in {struct.at} \cup {struct.uses[i].in : i \in DOMAIN struct.uses}
    BY <1>2 DEF InlineTypeDefinition, InlineTag
  <2> SUFFICES ASSUME in # struct.at PROVE struct.at \in {"typedef", "alias"} /\ ~UnusedType BY <2>1
  <2>2. PICK i \in DOMAIN struct.uses : in = struct.uses[i].in BY <2>1
  <2>3. struct.uses[i].via # "tag" /\ struct.at \in {"typedef", "alias"} BY <2>1, <2>2, Zenon DEF StructInv
  <2>4. struct.uses[i].via \in {"tag", "name"}
    <3>1. struct.uses \in Seq(StructUses) BY DEF StructInv
    <3>2. struct.uses[i] \in StructUses BY <2>2, <3>1, ElementOfSeq
    <3> QED BY <3>2 DEF StructUses
  <2> QED BY <2>2, <2>3, <2>4 DEF UnusedType
<1> QED BY <1>1, <1>2, Zenon DEF DefinedInline

(***************************************************************************)
(* The scope that is reported for a variable: the way to it goes through   *)
(* all references, so all references are in it.                            *)
(***************************************************************************)
Blocks == Seq(Nat)
WideSteps == [path : Blocks, place : {"expr", "init"}, do : {"read", "set", "++", "y"}]
WideRight ==
  /\ wide.init \in {"none", "0", "y", "f()"} /\ wide.scope \in Blocks /\ wide.steps \in Seq(WideSteps)
  /\ InText([n \in DOMAIN wide.steps |-> wide.steps[n].path])

LEMMA StepIs ==
  ASSUME WideRight
  PROVE  /\ Len(wide.steps) \in Nat /\ DOMAIN wide.steps = 1 .. Len(wide.steps)
         /\ \A n \in DOMAIN wide.steps :
              /\ wide.steps[n].path \in Blocks /\ Len(wide.steps[n].path) \in Nat
              /\ DOMAIN wide.steps[n].path = 1 .. Len(wide.steps[n].path)
              /\ wide.steps[n].do \in {"read", "set", "++", "y"}
              /\ Ancestors(wide.steps[n]) \in Blocks
              /\ IsPrefix(Ancestors(wide.steps[n]), wide.steps[n].path)
<1>1. wide.steps \in Seq(WideSteps) BY DEF WideRight
<1>2. Len(wide.steps) \in Nat /\ DOMAIN wide.steps = 1 .. Len(wide.steps) BY <1>1, LenProperties
<1>3. ASSUME NEW n \in DOMAIN wide.steps
      PROVE  /\ wide.steps[n].path \in Blocks /\ Len(wide.steps[n].path) \in Nat
             /\ DOMAIN wide.steps[n].path = 1 .. Len(wide.steps[n].path)
             /\ wide.steps[n].do \in {"read", "set", "++", "y"}
             /\ Ancestors(wide.steps[n]) \in Blocks
             /\ IsPrefix(Ancestors(wide.steps[n]), wide.steps[n].path)
  <2>1. wide.steps[n] \in WideSteps BY <1>1, <1>2, ElementOfSeq
  <2>2. wide.steps[n].path \in Blocks /\ wide.steps[n].do \in {"read", "set", "++", "y"} BY <2>1 DEF WideSteps
  <2>3. Len(wide.steps[n].path) \in Nat /\ DOMAIN wide.steps[n].path = 1 .. Len(wide.steps[n].path)
    BY <2>2, LenProperties DEF Blocks
  <2>4. NoScope \in Blocks /\ Len(NoScope) = 0 BY DEF NoScope, Blocks
  <2>5. Ancestors(wide.steps[n]) \in Blocks BY <2>2, <2>4 DEF Ancestors
  <2>6. /\ Len(Ancestors(wide.steps[n])) <= Len(wide.steps[n].path)
        /\ \A k \in 1 .. Len(Ancestors(wide.steps[n])) : Ancestors(wide.steps[n])[k] = wide.steps[n].path[k]
    BY <2>3, <2>4 DEF Ancestors
  <2>7. IsPrefix(Ancestors(wide.steps[n]), wide.steps[n].path) BY <2>2, <2>5, <2>6, PrefixIs DEF Blocks
  <2> QED BY <2>2, <2>3, <2>5, <2>7
<1> QED BY <1>2, <1>3

LEMMA PrefixesCompose ==
  ASSUME NEW p \in Blocks, NEW q \in Blocks, NEW r \in Blocks, IsPrefix(p, q), IsPrefix(q, r)
  PROVE  IsPrefix(p, r)
<1> USE DEF Blocks
<1>1. Len(p) \in Nat /\ Len(q) \in Nat /\ Len(r) \in Nat OBVIOUS
<1>2. Len(p) <= Len(q) /\ \A k \in 1 .. Len(p) : p[k] = q[k] BY PrefixIs
<1>3. Len(q) <= Len(r) /\ \A k \in 1 .. Len(q) : q[k] = r[k] BY PrefixIs
<1>4. Len(p) <= Len(r) /\ \A k \in 1 .. Len(p) : p[k] = r[k] BY <1>1, <1>2, <1>3
<1> QED BY <1>4, PrefixIs

LEMMA FrontIs ==
  ASSUME NEW p \in Blocks, p # NoScope
  PROVE  Front(p) \in Blocks /\ IsPrefix(Front(p), p)
<1> USE DEF Blocks
<1>1. Len(p) \in Nat /\ Len(p) > 0 BY EmptySeq DEF NoScope
<1> DEFINE f == SubSeq(p, 1, Len(p) - 1)
<1>2. /\ f \in Seq(Nat) /\ Len(f) = IF 1 <= Len(p) - 1 THEN (Len(p) - 1) - 1 + 1 ELSE 0
      /\ \A k \in 1 .. (Len(p) - 1) - 1 + 1 : f[k] = p[1 + k - 1]
  <2>1. \A k \in 1 .. Len(p) - 1 : p[k] \in Nat BY <1>1
  <2> QED BY <1>1, <2>1, SubSeqProperties
<1>3. Front(p) = f BY DEF Front
<1> HIDE DEF f
<1>4. Len(f) = Len(p) - 1
  <2>1. Len(p) = 1 => Len(f) = 0 BY <1>2
  <2>2. Len(p) > 1 => Len(f) = Len(p) - 1 BY <1>1, <1>2
  <2>3. Len(p) = 1 \/ Len(p) > 1
    <3>1. \A k \in Nat : k > 0 => k = 1 \/ k > 1 OBVIOUS
    <3> QED BY <1>1, <3>1
  <2> QED BY <2>1, <2>2, <2>3
<1>5. \A k \in 1 .. Len(f) : f[k] = p[k] BY <1>1, <1>2, <1>4
<1>6. Len(f) <= Len(p) BY <1>1, <1>4
<1> QED BY <1>2, <1>3, <1>5, <1>6, PrefixIs

LEMMA CommonPrefixIs ==
  ASSUME NEW p \in Blocks, NEW q \in Blocks
  PROVE  CommonPrefix(p, q) \in Blocks /\ IsPrefix(CommonPrefix(p, q), p) /\ IsPrefix(CommonPrefix(p, q), q)
<1> USE DEF Blocks
<1> DEFINE S == CommonPrefixes({p, q})
           L == {Len(x) : x \in S}
<1>1. Len(p) \in Nat /\ Len(q) \in Nat OBVIOUS
<1>2. \A x \in S : x \in Blocks /\ IsPrefix(x, p) /\ IsPrefix(x, q)
  <2> SUFFICES ASSUME NEW x \in S PROVE x \in Blocks /\ IsPrefix(x, p) /\ IsPrefix(x, q) OBVIOUS
  <2>1. IsPrefix(x, p) /\ IsPrefix(x, q) BY Zenon DEF CommonPrefixes
  <2>2. PICK s \in {p, q} : x \in Prefixes(s) BY Zenon DEF CommonPrefixes
  <2>3. PICK l \in 0 .. Len(s) : x = SubSeq(s, 1, l) BY <2>2 DEF Prefixes
  <2>4. s \in Seq(Nat) /\ l \in Int /\ \A k \in 1 .. l : s[k] \in Nat BY <1>1, <2>2, <2>3
  <2>5. x \in Seq(Nat) BY <2>3, <2>4, SubSeqProperties
  <2> QED BY <2>1, <2>5
<1>3. <<>> \in S
  <2>1. <<>> \in Seq(Nat) /\ Len(<<>>) = 0 OBVIOUS
  <2>2. IsPrefix(<<>>, p) /\ IsPrefix(<<>>, q)
    <3>1. PICK e \in Seq(Nat) : e = <<>> /\ Len(e) = 0 BY <2>1
    <3>2. \A k \in 1 .. Len(e) : FALSE BY <3>1
    <3>3. Len(e) <= Len(p) /\ Len(e) <= Len(q) BY <1>1, <3>1
    <3>4. IsPrefix(e, p) /\ IsPrefix(e, q) BY <3>2, <3>3, PrefixIs
    <3> QED BY <3>1, <3>4
  <2>3. SubSeq(p, 1, 0) = <<>> BY SubSeqEmpty
  <2>4. <<>> \in Prefixes(p) BY <1>1, <2>3 DEF Prefixes
  <2> QED BY <2>2, <2>4, Zenon DEF CommonPrefixes
<1> HIDE DEF S
<1>4. L \in SUBSET (0 .. Len(p)) /\ L # {}
  <2>1. ASSUME NEW x \in S PROVE Len(x) \in 0 .. Len(p) BY <1>1, <1>2, PrefixIs
  <2> QED BY <1>3, <2>1
<1>5. \E x \in S : \A y \in S : Len(y) <= Len(x)
  <2>1. Max(L) \in L /\ \A k \in L : k <= Max(L)
    <3> HIDE DEF L
    <3> QED BY <1>1, <1>4, LastPlace
  <2>2. PICK x \in S : Len(x) = Max(L) BY <2>1
  <2>3. \A y \in S : Len(y) \in L OBVIOUS
  <2> QED BY <2>1, <2>2, <2>3
<1>6. CommonPrefix(p, q) \in S BY <1>5, Zenon DEF CommonPrefix, LongestCommonPrefix, S
<1> QED BY <1>2, <1>6

LEMMA CommonScopeIs ==
  ASSUME NEW scope \in Blocks, NEW ref, Ancestors(ref) \in Blocks
  PROVE  /\ CommonScope(scope, ref) \in Blocks
         /\ IsPrefix(CommonScope(scope, ref), scope) /\ IsPrefix(CommonScope(scope, ref), Ancestors(ref))
<1>1. CASE scope = NoScope
  <2>1. CommonScope(scope, ref) = scope /\ Len(scope) = 0 BY <1>1 DEF CommonScope, NoScope
  <2>2. Len(Ancestors(ref)) \in Nat BY DEF Blocks
  <2>3. \A k \in 1 .. Len(scope) : FALSE BY <2>1
  <2>4. Len(scope) <= Len(scope) /\ Len(scope) <= Len(Ancestors(ref)) BY <2>1, <2>2
  <2>5. scope \in Seq(Nat) /\ Ancestors(ref) \in Seq(Nat) BY DEF Blocks
  <2>6. IsPrefix(scope, scope) BY <2>3, <2>4, <2>5, PrefixIs
  <2>7. IsPrefix(scope, Ancestors(ref)) BY <2>3, <2>4, <2>5, PrefixIs
  <2> QED BY <2>1, <2>6, <2>7
<1>2. CASE scope # NoScope
  <2> DEFINE c == CommonPrefix(Front(scope), Ancestors(ref))
  <2>1. Front(scope) \in Blocks /\ IsPrefix(Front(scope), scope) BY <1>2, FrontIs
  <2>2. c \in Blocks /\ IsPrefix(c, Front(scope)) /\ IsPrefix(c, Ancestors(ref)) BY <2>1, CommonPrefixIs
  <2>3. IsPrefix(c, scope) BY <2>1, <2>2, PrefixesCompose
  <2>4. CommonScope(scope, ref) = c BY <1>2 DEF CommonScope
  <2> QED BY <2>2, <2>3, <2>4
<1> QED BY <1>1, <1>2

UpToOf(g, n) == IF n = 0 THEN NoScope ELSE Joined(g[n - 1], n)

\* The four cases of the recursion.
LEMMA UpToCases ==
  ASSUME WideRight, NEW n \in 0 .. Len(wide.steps), NEW g
  PROVE  /\ n = 0 => UpToOf(g, n) = NoScope
         /\ n > 0 /\ n \notin Refs => UpToOf(g, n) = g[n - 1]
         /\ n > 0 /\ n \in Refs /\ Refs \cap 1 .. n - 1 = {} => UpToOf(g, n) = Ancestors(wide.steps[n])
         /\ n > 0 /\ n \in Refs /\ Refs \cap 1 .. n - 1 # {} => UpToOf(g, n) = CommonScope(g[n - 1], wide.steps[n])
<1>1. n \in Nat BY StepIs
<1> QED BY <1>1 DEF UpToOf, Joined

LEMMA UpToIs ==
  ASSUME WideRight
  PROVE  \A n \in 0 .. Len(wide.steps) : ScopeUpTo[n] = UpToOf(ScopeUpTo, n)
<1> DEFINE N == Len(wide.steps)
           Solves(g, m) == \A n \in 0 .. m : g[n] = UpToOf(g, n)
           Bad == {m \in 0 .. N : ~\E g \in [0 .. N -> Blocks] : Solves(g, m)}
<1>1. N \in Nat BY StepIs
<1>2. NoScope \in Blocks BY DEF NoScope, Blocks
<1>3. Bad = {}
  <2> SUFFICES ASSUME Bad # {} PROVE FALSE OBVIOUS
  <2>1. PICK m \in Bad : \A k \in Bad : m <= k
    <3>1. Bad \in SUBSET Nat BY <1>1
    <3> HIDE DEF Bad
    <3> QED BY <3>1, LeastPlace
  <2>2. m \in 0 .. N /\ ~\E g \in [0 .. N -> Blocks] : Solves(g, m) OBVIOUS
  <2>3. m # 0
    <3> SUFFICES ASSUME m = 0 PROVE FALSE OBVIOUS
    <3>1. [n \in 0 .. N |-> NoScope] \in [0 .. N -> Blocks] BY <1>2
    <3>2. UpToOf([n \in 0 .. N |-> NoScope], 0) = NoScope BY <1>1, UpToCases
    <3>3. Solves([n \in 0 .. N |-> NoScope], 0) BY <1>1, <3>2
    <3> QED BY <2>2, <3>1, <3>3
  <2>4. m - 1 \in 0 .. N /\ m - 1 \notin Bad
    <3>1. m - 1 \in 0 .. N /\ m - 1 < m BY <1>1, <2>2, <2>3
    <3> HIDE DEF Bad
    <3> QED BY <1>1, <2>1, <2>2, <3>1
  <2>5. PICK g \in [0 .. N -> Blocks] : Solves(g, m - 1) BY <2>4
  <2> DEFINE f == [n \in 0 .. N |-> IF n = m THEN UpToOf(g, m) ELSE g[n]]
  <2>6. UpToOf(g, m) \in Blocks
    <3>1. g[m - 1] \in Blocks BY <2>4
    <3>2. m \in 1 .. N BY <1>1, <2>2, <2>3
    <3>3. Ancestors(wide.steps[m]) \in Blocks BY <3>2, StepIs
    <3>4. CommonScope(g[m - 1], wide.steps[m]) \in Blocks BY <3>1, <3>3, CommonScopeIs
    <3> QED BY <2>2, <3>1, <3>2, <3>3, <3>4, UpToCases
  <2>7. f \in [0 .. N -> Blocks] BY <2>6
  <2>8. ASSUME NEW n \in 0 .. m PROVE f[n] = UpToOf(f, n)
    <3>1. n \in 0 .. N /\ m \in 0 .. N BY <1>1, <2>2
    <3>2. n > 0 => f[n - 1] = g[n - 1] BY <1>1, <3>1
    <3>3. UpToOf(f, n) = UpToOf(g, n)
      <4> HIDE DEF f
      <4>1. CASE n = 0 BY <3>1, <4>1, UpToCases
      <4>2. CASE n > 0 BY <3>1, <3>2, <4>2, UpToCases
      <4> QED BY <4>1, <4>2
    <3>4. CASE n = m BY <3>1, <3>3, <3>4
    <3>5. CASE n # m
      <4>1. n \in 0 .. m - 1 BY <1>1, <2>2, <3>5
      <4>2. g[n] = UpToOf(g, n) BY <2>5, <4>1
      <4> QED BY <3>1, <3>3, <3>5, <4>2
    <3> QED BY <3>4, <3>5
  <2>9. Solves(f, m) BY <2>8
  <2> HIDE DEF f
  <2> QED BY <2>2, <2>7, <2>9
<1>4. PICK g \in [0 .. N -> Blocks] : Solves(g, N)
  <2>1. N \in 0 .. N /\ N \notin Bad BY <1>1, <1>3
  <2> QED BY <2>1
<1>5. g = [n \in 0 .. N |-> UpToOf(g, n)] BY <1>4
<1>6. ScopeUpTo = CHOOSE h : h = [n \in 0 .. N |-> UpToOf(h, n)] BY DEF ScopeUpTo, UpToOf
<1>7. ScopeUpTo = [n \in 0 .. N |-> UpToOf(ScopeUpTo, n)]
  <2> DEFINE P(h) == h = [n \in 0 .. N |-> UpToOf(h, n)]
  <2>1. P(g) BY <1>5
  <2>2. ScopeUpTo = CHOOSE h : P(h) BY <1>6
  <2> HIDE DEF P
  <2>3. P(ScopeUpTo) BY <2>1, <2>2, Zenon
  <2> QED BY <2>3 DEF P
<1> QED BY <1>7

LEMMA ScopeHolds ==
  ASSUME WideRight
  PROVE  /\ CommonScopeForAll \in Blocks
         /\ \A k \in Refs : IsPrefix(CommonScopeForAll, wide.steps[k].path)
         /\ \A k \in Refs : Refs = {k} => CommonScopeForAll = Ancestors(wide.steps[k])
<1> DEFINE N == Len(wide.steps)
           S(n) == ScopeUpTo[n]
           A(k) == Ancestors(wide.steps[k])
           Right(n) == /\ S(n) \in Blocks
                       /\ \A k \in Refs : k <= n => IsPrefix(S(n), A(k))
                       /\ \A k \in Refs : Refs = {k} /\ k <= n => S(n) = A(k)
           Bad == {n \in 0 .. N : ~Right(n)}
<1>1. N \in Nat /\ Refs \subseteq 1 .. N BY StepIs DEF Refs
<1>2. \A n \in 0 .. N : S(n) = UpToOf(ScopeUpTo, n) BY UpToIs
<1>3. NoScope \in Blocks BY DEF NoScope, Blocks
<1>4. \A k \in Refs : A(k) \in Blocks BY <1>1, StepIs
<1>5. ASSUME NEW n \in 0 .. N, n > 0 => Right(n - 1) PROVE Right(n)
  <2>1. CASE n = 0
    <3>1. S(n) = NoScope BY <1>2, <2>1, UpToCases
    <3> QED BY <1>1, <1>3, <2>1, <3>1
  <2>2. CASE n > 0 /\ n \notin Refs
    <3>1. S(n) = S(n - 1) BY <1>2, <2>2, UpToCases
    <3>2. \A k \in Refs : k <= n => k <= n - 1 BY <1>1, <2>2
    <3> HIDE DEF S, A
    <3> QED BY <1>5, <2>2, <3>1, <3>2
  <2>3. CASE n > 0 /\ n \in Refs /\ Refs \cap 1 .. n - 1 = {}
    <3>1. S(n) = A(n) BY <1>2, <2>3, UpToCases
    <3>2. \A k \in Refs : k <= n => k = n BY <1>1, <2>3
    <3>3. IsPrefix(A(n), A(n)) BY <1>4, <2>3, PrefixIs DEF Blocks
    <3> HIDE DEF S, A
    <3> QED BY <1>4, <2>3, <3>1, <3>2, <3>3
  <2>4. CASE n > 0 /\ n \in Refs /\ Refs \cap 1 .. n - 1 # {}
    <3>1. S(n) = CommonScope(S(n - 1), wide.steps[n]) BY <1>2, <2>4, UpToCases
    <3>2. S(n - 1) \in Blocks /\ \A k \in Refs : k <= n - 1 => IsPrefix(S(n - 1), A(k)) BY <1>5, <2>4
    <3>3. S(n) \in Blocks /\ IsPrefix(S(n), S(n - 1)) /\ IsPrefix(S(n), A(n))
      BY <1>4, <2>4, <3>1, <3>2, CommonScopeIs
    <3>4. ASSUME NEW k \in Refs, k <= n PROVE IsPrefix(S(n), A(k))
      <4>1. CASE k = n BY <3>3, <4>1
      <4>2. CASE k # n
        <5>1. k <= n - 1 BY <1>1, <3>4, <4>2
        <5>2. IsPrefix(S(n - 1), A(k)) /\ A(k) \in Blocks BY <1>4, <3>2, <5>1
        <5> HIDE DEF S, A
        <5> QED BY <3>2, <3>3, <5>2, PrefixesCompose
      <4> QED BY <4>1, <4>2
    <3>5. \A k \in Refs : Refs # {k}
      <4>1. PICK j \in Refs : j \in 1 .. n - 1 BY <2>4
      <4> QED BY <1>1, <2>4, <4>1
    <3> QED BY <3>3, <3>4, <3>5
  <2> QED BY <1>1, <2>1, <2>2, <2>3, <2>4
<1>6. Bad = {}
  <2> SUFFICES ASSUME Bad # {} PROVE FALSE OBVIOUS
  <2> HIDE DEF Right
  <2>1. PICK m \in Bad : \A k \in Bad : m <= k
    <3>1. Bad \in SUBSET Nat BY <1>1
    <3> HIDE DEF Bad
    <3> QED BY <3>1, LeastPlace
  <2>2. m \in 0 .. N /\ ~Right(m) OBVIOUS
  <2>3. m > 0 => m - 1 \in 0 .. N /\ m - 1 \notin Bad BY <1>1, <2>1, <2>2
  <2>4. m > 0 => Right(m - 1) BY <2>3
  <2> QED BY <1>5, <2>2, <2>4
<1>7. Right(N)
  <2> HIDE DEF Right
  <2> QED BY <1>1, <1>6
<1>8. CommonScopeForAll = S(N) BY DEF CommonScopeForAll
<1>9. ASSUME NEW k \in Refs PROVE IsPrefix(CommonScopeForAll, wide.steps[k].path)
  <2>1. IsPrefix(S(N), A(k)) BY <1>1, <1>7
  <2>2. IsPrefix(A(k), wide.steps[k].path) /\ wide.steps[k].path \in Blocks BY <1>1, StepIs
  <2> QED BY <1>4, <1>7, <1>8, <2>1, <2>2, PrefixesCompose
<1>10. CommonScopeForAll \in Blocks BY <1>7, <1>8
<1>11. ASSUME NEW k \in Refs, Refs = {k} PROVE CommonScopeForAll = A(k)
  <2>1. k <= N BY <1>1
  <2> QED BY <1>7, <1>8, <1>11, <2>1
<1> HIDE DEF S, Right, Bad
<1> QED BY <1>9, <1>10, <1>11

(***************************************************************************)
(* The function with the variable declared at either place.  The text of   *)
(* the scope that is reported is one piece, as is that of each loop.       *)
(***************************************************************************)
InScope == {n \in DOMAIN wide.steps : IsPrefix(CommonScopeForAll, wide.steps[n].path)}

LEMMA BlockIs ==
  ASSUME WideRight, NEW i \in DOMAIN wide.steps, NEW j \in DOMAIN wide.steps,
         NEW k \in DOMAIN wide.steps[i].path, NEW l \in DOMAIN wide.steps[j].path,
         wide.steps[i].path[k] = wide.steps[j].path[l]
  PROVE  k = l /\ \A m \in 1 .. k : wide.steps[i].path[m] = wide.steps[j].path[m]
<1> DEFINE paths == [n \in DOMAIN wide.steps |-> wide.steps[n].path]
           p == wide.steps[i].path
           q == wide.steps[j].path
<1>1. InText(paths) BY DEF WideRight
<1>2. \A a, b \in DOMAIN paths : \A c \in DOMAIN paths[a], d \in DOMAIN paths[b] :
        paths[a][c] = paths[b][d] => c = d /\ SubSeq(paths[a], 1, c) = SubSeq(paths[b], 1, c)
  <2> HIDE DEF paths
  <2> QED BY <1>1, Zenon DEF InText
<1>3. k = l /\ SubSeq(p, 1, k) = SubSeq(q, 1, k)
  <2>1. i \in DOMAIN paths /\ j \in DOMAIN paths /\ paths[i] = p /\ paths[j] = q OBVIOUS
  <2>2. k \in DOMAIN p /\ l \in DOMAIN q /\ p[k] = q[l] OBVIOUS
  <2> HIDE DEF paths, p, q
  <2>3. \A c \in DOMAIN p, d \in DOMAIN q : p[c] = q[d] => c = d /\ SubSeq(p, 1, c) = SubSeq(q, 1, c)
    <3>1. \A c \in DOMAIN paths[i], d \in DOMAIN paths[j] :
            paths[i][c] = paths[j][d] => c = d /\ SubSeq(paths[i], 1, c) = SubSeq(paths[j], 1, c)
      BY <1>2, <2>1, Zenon
    <3> QED BY <2>1, <3>1
  <2> QED BY <2>2, <2>3, Zenon
<1>4. p \in Seq(Nat) /\ q \in Seq(Nat) /\ k \in 1 .. Len(p) /\ k \in 1 .. Len(q) /\ Len(p) \in Nat /\ Len(q) \in Nat
  BY <1>3, StepIs DEF Blocks
<1>5. \A m \in 1 .. k : SubSeq(p, 1, k)[m] = p[m] BY <1>4
<1>6. \A m \in 1 .. k : SubSeq(q, 1, k)[m] = q[m] BY <1>4
<1> QED BY <1>3, <1>5, <1>6

LEMMA BlockGoesOn ==
  ASSUME WideRight, NEW i \in DOMAIN wide.steps, NEW j \in DOMAIN wide.steps, NEW k \in DOMAIN wide.steps,
         i < j, j < k, NEW b, b \in Range(wide.steps[i].path), b \in Range(wide.steps[k].path)
  PROVE  b \in Range(wide.steps[j].path)
<1> DEFINE paths == [n \in DOMAIN wide.steps |-> wide.steps[n].path]
<1>1. InText(paths) BY DEF WideRight
<1>2. /\ DOMAIN paths = DOMAIN wide.steps /\ paths[i] = wide.steps[i].path
      /\ paths[j] = wide.steps[j].path /\ paths[k] = wide.steps[k].path
  OBVIOUS
<1> HIDE DEF paths
<1> QED BY <1>1, <1>2 DEF InText

LEMMA InScopeIs ==
  ASSUME WideRight, NEW n \in DOMAIN wide.steps
  PROVE  n \in InScope <=> /\ Len(CommonScopeForAll) <= Len(wide.steps[n].path)
                           /\ \A k \in 1 .. Len(CommonScopeForAll) : CommonScopeForAll[k] = wide.steps[n].path[k]
<1> DEFINE C == CommonScopeForAll
           p == wide.steps[n].path
<1>1. C \in Blocks /\ p \in Blocks BY ScopeHolds, StepIs
<1>2. n \in InScope <=> IsPrefix(C, p) BY DEF InScope
<1>3. IsPrefix(C, p) <=> Len(C) <= Len(p) /\ \A k \in 1 .. Len(C) : C[k] = p[k]
  <2> HIDE DEF C, p
  <2> QED BY <1>1, PrefixIs DEF Blocks
<1> QED BY <1>2, <1>3

\* A block that is not around the scope lies in it as a whole, or outside.
LEMMA InOrOut ==
  ASSUME WideRight, NEW i \in InScope, NEW j \in DOMAIN wide.steps,
         NEW l, l \in Range(wide.steps[i].path), l \in Range(wide.steps[j].path), l \notin Range(CommonScopeForAll)
  PROVE  j \in InScope
<1> DEFINE C == CommonScopeForAll
           p == wide.steps[i].path
           q == wide.steps[j].path
<1>1. i \in DOMAIN wide.steps BY DEF InScope
<1>2. /\ C \in Seq(Nat) /\ Len(C) \in Nat /\ DOMAIN C = 1 .. Len(C)
      /\ Len(p) \in Nat /\ Len(q) \in Nat /\ DOMAIN p = 1 .. Len(p) /\ DOMAIN q = 1 .. Len(q)
  <2>1. C \in Seq(Nat) BY ScopeHolds DEF Blocks
  <2>2. Len(C) \in Nat /\ DOMAIN C = 1 .. Len(C) BY <2>1, LenProperties
  <2> QED BY <1>1, <2>1, <2>2, StepIs
<1>3. Len(C) <= Len(p) /\ \A k \in 1 .. Len(C) : C[k] = p[k] BY <1>1, InScopeIs
<1>4. PICK m \in DOMAIN p : p[m] = l BY DEF Range
<1>5. PICK n \in DOMAIN q : q[n] = l BY DEF Range
<1>6. m = n /\ \A k \in 1 .. m : p[k] = q[k] BY <1>1, <1>4, <1>5, BlockIs
<1>7. \A k \in 1 .. Len(C) : C[k] # l BY <1>2 DEF Range
<1>8. Len(C) < m BY <1>2, <1>3, <1>4, <1>7
<1>9. Len(C) <= Len(q) /\ \A k \in 1 .. Len(C) : C[k] = q[k]
  <2>1. m \in Nat /\ m <= Len(q) BY <1>2, <1>5, <1>6
  <2>2. \A k \in 1 .. Len(C) : k \in 1 .. m BY <1>2, <1>8, <2>1
  <2>3. Len(C) <= Len(q) BY <1>2, <1>8, <2>1
  <2> QED BY <1>3, <1>6, <2>2, <2>3
<1> QED BY <1>9, InScopeIs

LEMMA ScopeGoesOn ==
  ASSUME WideRight, CommonScopeForAll # NoScope,
         NEW i \in InScope, NEW j \in DOMAIN wide.steps, NEW k \in InScope, i < j, j < k
  PROVE  j \in InScope
<1> DEFINE C == CommonScopeForAll
           p == wide.steps[i].path
           q == wide.steps[j].path
           r == wide.steps[k].path
           n == Len(C)
<1>1. i \in DOMAIN wide.steps /\ k \in DOMAIN wide.steps BY DEF InScope
<1>2. C \in Seq(Nat) BY ScopeHolds DEF Blocks
<1>3. n \in Nat /\ n > 0 BY <1>2, EmptySeq DEF NoScope
<1>4. /\ Len(p) \in Nat /\ DOMAIN p = 1 .. Len(p) /\ Len(q) \in Nat /\ DOMAIN q = 1 .. Len(q)
      /\ Len(r) \in Nat /\ DOMAIN r = 1 .. Len(r)
  BY <1>1, StepIs
<1>5. n <= Len(p) /\ \A m \in 1 .. n : C[m] = p[m] BY <1>1, InScopeIs
<1>6. n <= Len(r) /\ \A m \in 1 .. n : C[m] = r[m] BY <1>1, InScopeIs
<1>7. n \in DOMAIN p /\ n \in DOMAIN r /\ n \in 1 .. n /\ p[n] = C[n] /\ r[n] = C[n] BY <1>3, <1>4, <1>5, <1>6
<1>8. C[n] \in Range(p) /\ C[n] \in Range(r) BY <1>7 DEF Range
<1>9. C[n] \in Range(q) BY <1>1, <1>8, BlockGoesOn
<1>10. PICK m \in DOMAIN q : q[m] = C[n] BY <1>9 DEF Range
<1>11. n = m /\ \A l \in 1 .. n : p[l] = q[l] BY <1>1, <1>7, <1>10, BlockIs
<1>12. n <= Len(q) /\ \A l \in 1 .. n : C[l] = q[l] BY <1>4, <1>5, <1>10, <1>11
<1> QED BY <1>12, InScopeIs

LEMMA LoopStarts ==
  ASSUME WideRight, NEW i \in DOMAIN wide.steps, NEW l \in Range(wide.steps[i].path)
  PROVE  StartOf(l) \in DOMAIN wide.steps /\ l \in Range(wide.steps[StartOf(l)].path)
<1> DEFINE S == {n \in DOMAIN wide.steps : l \in Range(wide.steps[n].path)}
<1>1. DOMAIN wide.steps = 1 .. Len(wide.steps) /\ Len(wide.steps) \in Nat BY StepIs
<1>2. S \in SUBSET Nat /\ S # {} BY <1>1
<1>3. PICK n \in S : \A m \in S : n <= m
  <2> HIDE DEF S
  <2> QED BY <1>2, LeastPlace
<1>4. n \in DOMAIN wide.steps /\ l \in Range(wide.steps[n].path) /\ (n > 1 => l \notin Range(wide.steps[n - 1].path))
  <2>1. n \in 1 .. Len(wide.steps) BY <1>1
  <2>2. n > 1 => n - 1 \in DOMAIN wide.steps /\ ~(n <= n - 1) BY <1>1, <2>1
  <2>3. n > 1 => n - 1 \notin S
    <3> HIDE DEF S
    <3> QED BY <1>3, <2>2
  <2> QED BY <2>2, <2>3
<1> QED BY <1>4, Zenon DEF StartOf

(***************************************************************************)
(* Outside of the reported scope nothing happens to the variable.  So on   *)
(* the way there it has its first value, and inside it has the value that  *)
(* it would have there.                                                    *)
(***************************************************************************)
Moving ==
  /\ WideVariableScope
  /\ \A l \in wide.loops : l \notin Range(CommonScopeForAll) \ Range(wide.scope)
  /\ wide.init = "y" => \A n \in DOMAIN wide.steps : wide.steps[n].do # "y"
FirstValue == IF wide.init = "none" THEN Undefined ELSE 0
SideBySide ==
  /\ at \in Nat /\ inside \subseteq {wide.scope, CommonScopeForAll} /\ differs = FALSE
  /\ wide.init = "y" => value.y = 0
  /\ CommonScopeForAll \in inside =>
       /\ wide.scope \in inside /\ value.x = moved
       /\ at \in InScope \/ at - 1 \in InScope
  /\ wide.scope \in inside /\ CommonScopeForAll \notin inside /\ (\E n \in InScope : n >= at) => value.x = FirstValue
WideInv == WideRight /\ (Moving => SideBySide)

\* The scope of the declaration is around the one that is reported.
LEMMA OuterScope ==
  ASSUME WideRight, WideVariableScope
  PROVE  /\ wide.scope \in Blocks /\ CommonScopeForAll \in Blocks /\ CommonScopeForAll # NoScope
         /\ wide.scope # CommonScopeForAll /\ wide.init \in {"none", "0", "y"}
         /\ Range(wide.scope) \subseteq Range(CommonScopeForAll)
         /\ \A n \in InScope : IsPrefix(wide.scope, wide.steps[n].path)
<1> DEFINE W == wide.scope
           C == CommonScopeForAll
<1>1. W \in Blocks /\ C \in Blocks BY ScopeHolds DEF WideRight
<1>2. IsPrefix(W, C) /\ W # C /\ C # NoScope BY DEF WideVariableScope, Nested, IsStrictPrefix
<1>3. wide.init \in {"none", "0", "y"} BY DEF WideRight, WideVariableScope
<1>4. \A n \in InScope : IsPrefix(W, wide.steps[n].path)
  <2> SUFFICES ASSUME NEW n \in InScope PROVE IsPrefix(W, wide.steps[n].path) OBVIOUS
  <2>1. n \in DOMAIN wide.steps /\ IsPrefix(C, wide.steps[n].path) BY DEF InScope
  <2>2. wide.steps[n].path \in Blocks BY <2>1, StepIs
  <2> QED BY <1>1, <1>2, <2>1, <2>2, PrefixesCompose
<1>5. Range(W) \subseteq Range(C)
  <2>1. W \in Seq(Nat) /\ C \in Seq(Nat) BY <1>1 DEF Blocks
  <2>2. Len(W) \in Nat /\ Len(C) \in Nat /\ DOMAIN W = 1 .. Len(W) /\ DOMAIN C = 1 .. Len(C) BY <2>1, LenProperties
  <2>3. Len(W) <= Len(C) /\ \A k \in 1 .. Len(W) : W[k] = C[k] BY <1>2, <2>1, PrefixIs
  <2>4. \A k \in DOMAIN W : k \in DOMAIN C /\ W[k] = C[k] BY <2>2, <2>3
  <2> QED BY <2>4 DEF Range
<1> QED BY <1>1, <1>2, <1>3, <1>4, <1>5

\* What a step starts with.
LEMMA StepStarts ==
  ASSUME WideRight, Moving, SideBySide, at \in DOMAIN wide.steps,
         NEW x, NEW m, NEW here,
         here = {scope \in {wide.scope, CommonScopeForAll} : Within(wide.steps[at].path, scope)},
         x = IF wide.scope \in here \ inside THEN Start(value.y) ELSE value.x,
         m = IF CommonScopeForAll \in here \ inside THEN Start(value.y) ELSE moved
  PROVE  /\ CommonScopeForAll \in here <=> at \in InScope
         /\ at \in InScope => wide.scope \in here /\ x = m
         /\ wide.scope \in here /\ at \notin InScope /\ (\E n \in InScope : n >= at) => x = FirstValue
         /\ at \notin InScope => wide.steps[at].do = "y" /\ \A n \in InScope : CommonScopeForAll \in inside => n < at
<1> DEFINE W == wide.scope
           C == CommonScopeForAll
<1>1. /\ W # C /\ C # NoScope /\ wide.init \in {"none", "0", "y"}
      /\ \A n \in InScope : IsPrefix(W, wide.steps[n].path)
  BY OuterScope DEF Moving
<1>2. Start(value.y) = FirstValue BY <1>1 DEF Start, FirstValue, SideBySide
<1>3. C \in here <=> at \in InScope BY DEF InScope, Within
<1>4. at \in InScope => W \in here BY <1>1 DEF Within
<1>5. DOMAIN wide.steps = 1 .. Len(wide.steps) /\ Len(wide.steps) \in Nat /\ at \in Nat /\ InScope \subseteq DOMAIN wide.steps
  BY StepIs DEF SideBySide, InScope
<1>6. ASSUME at \in InScope PROVE x = m
  <2>1. CASE C \in inside
    <3>1. W \in inside /\ value.x = moved BY <2>1 DEF SideBySide
    <3> QED BY <2>1, <3>1
  <2>2. CASE C \notin inside
    <3>1. m = FirstValue BY <1>2, <1>3, <1>6, <2>2
    <3>2. W \in inside => value.x = FirstValue BY <1>5, <1>6, <2>2 DEF SideBySide
    <3> QED BY <1>2, <1>4, <1>6, <3>1, <3>2
  <2> QED BY <2>1, <2>2
<1>7. ASSUME at \notin InScope PROVE wide.steps[at].do = "y" /\ \A n \in InScope : C \in inside => n < at
  <2>1. wide.steps[at].do = "y"
    <3> SUFFICES ASSUME wide.steps[at].do # "y" PROVE FALSE OBVIOUS
    <3>1. at \in Refs BY DEF Refs
    <3>2. IsPrefix(C, wide.steps[at].path) BY <3>1, ScopeHolds
    <3> QED BY <1>7, <3>2 DEF InScope
  <2>2. ASSUME NEW n \in InScope, C \in inside PROVE n < at
    <3> SUFFICES ASSUME n > at PROVE FALSE BY <1>5, <1>7
    <3>1. at - 1 \in InScope BY <1>7, <2>2 DEF SideBySide
    <3>2. at \in InScope BY <1>1, <1>5, <3>1, ScopeGoesOn
    <3> QED BY <1>7, <3>2
  <2> QED BY <2>1, <2>2
<1>8. ASSUME W \in here, at \notin InScope, NEW n \in InScope, n >= at PROVE x = FirstValue
  <2>1. C \notin inside BY <1>5, <1>7, <1>8
  <2>2. W \in inside => value.x = FirstValue BY <1>8, <2>1 DEF SideBySide
  <2> QED BY <1>2, <1>8, <2>2
<1> QED BY <1>3, <1>4, <1>6, <1>7, <1>8

LEMMA WideStep == ASSUME WideInv, Step PROVE WideInv'
<1> DEFINE W == wide.scope
           C == CommonScopeForAll
           s == wide.steps[at]
           here == {scope \in {wide.scope, CommonScopeForAll} : Within(s.path, scope)}
           From(scope, old) == IF scope \in here \ inside THEN Start(value.y) ELSE old
           x == From(wide.scope, value.x)
           m == From(CommonScopeForAll, moved)
           round == {k \in DOMAIN s.path : s.path[k] \in GoRound(at)}
           l == s.path[Max(round)]
<1>1. /\ at \in DOMAIN wide.steps /\ wide' = wide
      /\ value' = [x |-> Done(x, s.do), y |-> IF s.do = "y" THEN (value.y + 1) % 3 ELSE value.y]
      /\ moved' = Done(m, s.do)
      /\ differs' = (differs \/ (s.do \in {"read", "++"} /\ x # Undefined /\ x # m))
      /\ IF round = {} THEN at' = at + 1 /\ inside' = here
         ELSE at' = StartOf(l) /\ inside' = {scope \in here : l \notin Range(scope)}
  BY Zenon DEF Step
<1>2. WideRight' /\ (Moving' <=> Moving) /\ wide' = wide /\ C' = C /\ W' = W /\ InScope' = InScope /\ FirstValue' = FirstValue
  <2>1. wide' = wide BY <1>1
  <2>2. Refs' = Refs BY <2>1 DEF Refs
  <2>3. \A scope, n : Joined(scope, n)' = Joined(scope, n) BY <2>1, <2>2 DEF Joined, CommonScope, Ancestors
  <2>4. ScopeUpTo' = ScopeUpTo BY <2>1, <2>2 DEF ScopeUpTo, Joined, CommonScope, Ancestors
  <2>5. C' = C BY <2>1, <2>4 DEF CommonScopeForAll
  <2>6. InScope' = InScope BY <2>1, <2>5 DEF InScope
  <2>7. Moving' <=> Moving BY <2>1, <2>5 DEF Moving, WideVariableScope
  <2>8. WideRight' <=> WideRight BY <2>1 DEF WideRight
  <2> QED BY <2>1, <2>5, <2>6, <2>7, <2>8 DEF WideInv, FirstValue
<1> SUFFICES ASSUME Moving PROVE SideBySide' BY <1>2 DEF WideInv
<1>3. WideRight /\ SideBySide BY DEF WideInv
<1>4. /\ C \in here <=> at \in InScope
      /\ at \in InScope => W \in here /\ x = m
      /\ W \in here /\ at \notin InScope /\ (\E n \in InScope : n >= at) => x = FirstValue
      /\ at \notin InScope => s.do = "y" /\ \A n \in InScope : C \in inside => n < at
  <2>1. /\ here = {scope \in {wide.scope, CommonScopeForAll} : Within(wide.steps[at].path, scope)}
        /\ x = IF wide.scope \in here \ inside THEN Start(value.y) ELSE value.x
        /\ m = IF CommonScopeForAll \in here \ inside THEN Start(value.y) ELSE moved
    OBVIOUS
  <2> HIDE DEF here, x, m, From
  <2> QED BY <1>1, <1>3, <2>1, StepStarts
<1>5. /\ W # C /\ wide.init \in {"none", "0", "y"} /\ Range(W) \subseteq Range(C)
      /\ \A n \in InScope : IsPrefix(W, wide.steps[n].path)
  BY <1>3, OuterScope DEF Moving
<1>6. DOMAIN wide.steps = 1 .. Len(wide.steps) /\ Len(wide.steps) \in Nat /\ at \in Nat
  BY <1>3, StepIs DEF SideBySide
<1>7. InScope \subseteq DOMAIN wide.steps BY DEF InScope
<1>8. s.path \in Seq(Nat) /\ Len(s.path) \in Nat /\ DOMAIN s.path = 1 .. Len(s.path) BY <1>1, <1>3, StepIs DEF Blocks
<1>9. ASSUME round # {}
      PROVE  /\ l \in Range(s.path) /\ l \in wide.loops
             /\ StartOf(l) \in DOMAIN wide.steps /\ l \in Range(wide.steps[StartOf(l)].path)
  <2>1. round \in SUBSET (0 .. Len(s.path)) BY <1>8
  <2>2. Max(round) \in round
    <3> HIDE DEF round
    <3> QED BY <1>8, <1>9, <2>1, LastPlace
  <2>3. Max(round) \in DOMAIN s.path /\ l \in GoRound(at) BY <2>2
  <2>4. l \in Range(s.path) /\ l \in wide.loops BY <2>3 DEF Range, GoRound
  <2> QED BY <1>1, <1>3, <2>4, LoopStarts
<1>10. wide.init = "y" => value'.y = 0
  <2>1. wide.init = "y" => s.do # "y" /\ value.y = 0 BY <1>1, <1>3 DEF Moving, SideBySide
  <2>2. value'.y = IF s.do = "y" THEN (value.y + 1) % 3 ELSE value.y BY <1>1
  <2> QED BY <2>1, <2>2
<1>11. value'.x = Done(x, s.do) /\ (at \notin InScope => value'.x = x) /\ (at \in InScope => value'.x = moved')
  <2>1. value'.x = Done(x, s.do) /\ moved' = Done(m, s.do) BY <1>1
  <2>2. s.do = "y" => Done(x, s.do) = x BY DEF Done
  <2> HIDE DEF x, m, s
  <2> QED BY <1>4, <2>1, <2>2
<1>12. differs' = FALSE
  <2>1. differs = FALSE BY <1>3 DEF SideBySide
  <2>2. ~(s.do \in {"read", "++"} /\ x # Undefined /\ x # m)
    <3> HIDE DEF x, m, s
    <3> QED BY <1>4
  <2> QED BY <1>1, <2>1, <2>2, Zenon
<1> HIDE DEF x, m, From
<1>13. CASE round = {}
  <2>1. at' = at + 1 /\ inside' = here BY <1>1, <1>13
  <2>2. at' \in Nat /\ at' - 1 = at BY <1>6, <2>1
  <2>3. C \in inside' => W \in inside' /\ value'.x = moved' /\ at' - 1 \in InScope
    <3> HIDE DEF here, s
    <3> QED BY <1>4, <1>11, <2>1, <2>2
  <2>4. ASSUME W \in inside', C \notin inside', NEW n \in InScope, n >= at' PROVE value'.x = FirstValue
    <3>1. n >= at /\ at \notin InScope /\ W \in here BY <1>4, <1>6, <1>7, <2>1, <2>4
    <3> QED BY <1>4, <1>11, <3>1
  <2>5. inside' \subseteq {W, C} BY <2>1
  <2> HIDE DEF here, s, round, l
  <2>6. at' \in InScope' \/ at' - 1 \in InScope' \/ C' \notin inside' BY <1>2, <2>3
  <2> QED BY <1>2, <1>10, <1>12, <2>2, <2>3, <2>4, <2>5, <2>6 DEF SideBySide
<1>14. CASE round # {}
  <2>1. at' = StartOf(l) /\ inside' = {scope \in here : l \notin Range(scope)} BY <1>1, <1>14
  <2>2. l \in Range(s.path) /\ l \in wide.loops /\ at' \in DOMAIN wide.steps /\ l \in Range(wide.steps[at'].path)
    BY <1>9, <1>14, <2>1
  <2> HIDE DEF l, round
  <2>3. inside' \subseteq {W, C} /\ at' \in Nat
    <3>1. at' \in Nat BY <1>6, <2>2
    <3>2. inside' \subseteq here /\ here \subseteq {W, C} BY <2>1
    <3> QED BY <3>1, <3>2
  <2>4. l \notin Range(W) => l \notin Range(C) BY <2>2 DEF Moving
  <2>5. ASSUME C \in inside' PROVE W \in inside' /\ value'.x = moved' /\ at' \in InScope
    <3>1. at \in InScope /\ l \notin Range(C) BY <1>4, <2>1, <2>5
    <3>2. W \in here /\ l \notin Range(W) BY <1>4, <1>5, <3>1
    <3>3. at' \in InScope BY <1>3, <2>2, <3>1, InOrOut
    <3> QED BY <1>11, <2>1, <3>1, <3>2, <3>3
  <2>6. ASSUME W \in inside', C \notin inside', NEW n \in InScope, n >= at' PROVE value'.x = FirstValue
    <3>1. W \in here /\ l \notin Range(W) /\ l \notin Range(C) BY <2>1, <2>4, <2>6
    <3>2. at \notin InScope BY <1>4, <2>1, <2>6, <3>1
    <3>3. n >= at
      <4> SUFFICES ASSUME n < at PROVE FALSE BY <1>6, <1>7
      <4>1. l \in Range(wide.steps[n].path)
        <5>1. CASE n = at' BY <2>2, <5>1
        <5>2. CASE n # at'
          <6>1. at' < n BY <1>6, <1>7, <2>2, <2>6, <5>2
          <6> QED BY <1>1, <1>3, <1>7, <2>2, <6>1, BlockGoesOn
        <5> QED BY <5>1, <5>2
      <4>2. at \in InScope BY <1>1, <1>3, <2>2, <3>1, <4>1, InOrOut
      <4> QED BY <3>2, <4>2
    <3> QED BY <1>4, <1>11, <3>1, <3>2, <3>3
  <2> HIDE DEF here, s
  <2> QED BY <1>2, <1>10, <1>12, <2>3, <2>5, <2>6 DEF SideBySide
<1> QED BY <1>13, <1>14

\* The scope that is reported holds all references, the values stay the same, and one
\* reference is enough.
LEMMA WidthFound == ASSUME WideInv PROVE WidthReported
<1>1. WideRight BY DEF WideInv
<1>2. ASSUME WideVariableScope PROVE \A n \in Refs : Within(wide.steps[n].path, CommonScopeForAll)
  BY <1>1, ScopeHolds DEF Within
<1>3. ASSUME WideVariableScope, differs
      PROVE  \/ \E l \in wide.loops : l \in Range(CommonScopeForAll) \ Range(wide.scope)
             \/ wide.init = "y" /\ \E n \in DOMAIN wide.steps : wide.steps[n].do = "y"
  <2>1. ~Moving BY <1>3, Zenon DEF WideInv, SideBySide
  <2> QED BY <1>3, <2>1 DEF Moving
<1>4. ASSUME NEW n \in Refs, Refs = {n}, wide.init # "f()", Nested(wide.steps[n].path, wide.scope),
             wide.steps[n].place # "init"
      PROVE  WideVariableScope
  <2>1. CommonScopeForAll = Ancestors(wide.steps[n]) BY <1>1, <1>4, ScopeHolds
  <2>2. CommonScopeForAll = wide.steps[n].path BY <1>4, <2>1 DEF Ancestors
  <2>3. wide.scope \in Seq(Nat) /\ wide.steps[n].path \in Seq(Nat)
    <3>1. n \in DOMAIN wide.steps BY DEF Refs
    <3> QED BY <1>1, <3>1, StepIs DEF WideRight, Blocks
  <2>4. wide.steps[n].path # NoScope
    <3> SUFFICES ASSUME wide.steps[n].path = NoScope PROVE FALSE OBVIOUS
    <3>1. IsPrefix(wide.scope, wide.steps[n].path) /\ wide.scope # wide.steps[n].path
      BY <1>4 DEF Nested, IsStrictPrefix
    <3>2. Len(wide.scope) <= Len(wide.steps[n].path) BY <2>3, <3>1, PrefixIs
    <3>3. Len(wide.steps[n].path) = 0 BY DEF NoScope
    <3>4. Len(wide.scope) = 0 BY <2>3, <3>2, <3>3
    <3>5. wide.scope = <<>> BY <2>3, <3>4, EmptySeq
    <3> QED BY <3>1, <3>5 DEF NoScope
  <2> QED BY <1>4, <2>2, <2>4 DEF WideVariableScope
<1> QED BY <1>2, <1>3, <1>4, Zenon DEF WidthReported

ScopesInv ==
  /\ about.topic = "names" => NamesInv
  /\ StructInv
  /\ WideInv
  /\ about.topic = "width" \/ wide = NoVariable
  /\ about.topic = "names" \/ names = <<>>

LEMMA ScopesStart == ScopeInit => ScopesInv
<1> SUFFICES ASSUME ScopeInit PROVE ScopesInv OBVIOUS
<1>1. /\ open = <<UnitScope>> /\ scopes = 0 /\ names = <<>> /\ struct = NoStruct
      /\ at = 1 /\ value = [x |-> Undefined, y |-> 0] /\ inside = {} /\ differs = FALSE
      /\ wide \in IF about.topic = "width" THEN WideVariables ELSE {NoVariable}
  BY Zenon DEF ScopeInit
<1>2. NamesInv
  <2>1. UnitScope \in [id : Nat, kind : ScopeKinds] BY DEF UnitScope, ScopeKinds
  <2>2. open \in Seq([id : Nat, kind : ScopeKinds]) /\ Len(open) = 1 /\ open[1] = UnitScope BY <1>1, <2>1
  <2>3. DOMAIN open = {1} BY <2>2
  <2>4. PathRight(open) BY <1>1, <2>2, <2>3 DEF PathRight, UnitScope
  <2>5. OnePlace(open, open) BY <2>2, <2>3 DEF OnePlace
  <2>6. DOMAIN names = {} /\ names \in Seq([what : NameKinds, path : Seq([id : Nat, kind : ScopeKinds])]) BY <1>1
  <2>7. Paths = {open} BY <2>6 DEF Paths
  <2> QED BY <1>1, <2>4, <2>5, <2>6, <2>7 DEF NamesInv
<1>3. StructInv
  <2>1. struct = [tag |-> TRUE, at |-> "none", uses |-> <<>>] BY <1>1 DEF NoStruct
  <2>2. <<>> \in Seq(StructUses) /\ DOMAIN <<>> = {} /\ "none" \in StructPlaces BY DEF StructPlaces
  <2>3. struct \in [tag : BOOLEAN, at : StructPlaces, uses : Seq(StructUses)] BY <2>1, <2>2, Zenon
  <2>4. struct.tag /\ struct.uses = <<>> BY <2>1, Zenon
  <2> QED BY <2>2, <2>3, <2>4, Zenon DEF StructInv
<1>4. WideRight
  <2>1. CASE about.topic = "width"
    <3>1. wide \in WideVariables BY <1>1, <2>1
    <3> QED BY <3>1, WideAssumption DEF WideRight, WideSteps, Blocks
  <2>2. CASE about.topic # "width"
    <3>1. wide = NoVariable BY <1>1, <2>2
    <3>2. wide.init = "none" /\ wide.scope = <<>> /\ wide.steps = <<>> BY <3>1 DEF NoVariable
    <3>3. <<>> \in Seq(Nat) /\ <<>> \in Seq(WideSteps) /\ DOMAIN <<>> = {} OBVIOUS
    <3>4. DOMAIN [n \in DOMAIN wide.steps |-> wide.steps[n].path] = {} BY <3>2, <3>3
    <3>5. InText([n \in DOMAIN wide.steps |-> wide.steps[n].path]) BY <3>4, Zenon DEF InText
    <3> QED BY <3>2, <3>3, <3>5 DEF WideRight, Blocks
  <2> QED BY <2>1, <2>2
<1>5. SideBySide BY <1>1 DEF SideBySide
<1> QED BY <1>1, <1>2, <1>3, <1>4, <1>5 DEF ScopesInv, WideInv

LEMMA NamesStay == NamesInv /\ UNCHANGED nameVars => NamesInv'
<1> SUFFICES ASSUME NamesInv, UNCHANGED nameVars PROVE NamesInv' OBVIOUS
<1>1. about' = about /\ open' = open /\ scopes' = scopes /\ names' = names BY DEF nameVars
<1>2. \A x : Inside(x)' = Inside(x) BY <1>1 DEF Inside, InCxx
<1>3. \A x : Declarable(x)' = Declarable(x) BY DEF Declarable
<1>4. \A x, y : SameSpace(x, y)' <=> SameSpace(x, y) BY <1>1 DEF SameSpace, InCxx
<1>5. Paths' = Paths BY <1>1 DEF Paths
<1>6. (\A p \in Paths : PathRight(p))' BY <1>1, <1>2, <1>5 DEF NamesInv, PathRight
<1>7. (\A p, q \in Paths : OnePlace(p, q))' BY <1>5 DEF NamesInv, OnePlace
<1>8. (\A i \in DOMAIN names : names[i].what \in Declarable(Context(names[i].path).kind))'
  BY <1>1, <1>3 DEF NamesInv, Context
<1>9. (\A i, j \in DOMAIN names : i # j /\ names[i].path = names[j].path => ~SameSpace(names[i].what, names[j].what))'
  BY <1>1, <1>4 DEF NamesInv
<1> QED BY <1>1, <1>6, <1>7, <1>8, <1>9 DEF NamesInv

LEMMA WideStays == WideInv /\ UNCHANGED wideVars => WideInv'
<1> SUFFICES ASSUME WideInv, UNCHANGED wideVars PROVE WideInv' OBVIOUS
<1>1. /\ wide' = wide /\ at' = at /\ value' = value /\ moved' = moved /\ inside' = inside /\ differs' = differs
  BY DEF wideVars
<1>2. Refs' = Refs BY <1>1 DEF Refs
<1>3. ScopeUpTo' = ScopeUpTo BY <1>1, <1>2 DEF ScopeUpTo, Joined, CommonScope, Ancestors
<1>4. CommonScopeForAll' = CommonScopeForAll BY <1>1, <1>3 DEF CommonScopeForAll
<1>5. InScope' = InScope BY <1>1, <1>4 DEF InScope
<1>6. Moving' <=> Moving BY <1>1, <1>4 DEF Moving, WideVariableScope
<1>7. WideRight' <=> WideRight BY <1>1 DEF WideRight
<1>8. SideBySide' <=> SideBySide BY <1>1, <1>4, <1>5 DEF SideBySide, FirstValue
<1> QED BY <1>6, <1>7, <1>8, Zenon DEF WideInv

LEMMA ScopesStep == ScopesInv /\ [ScopeNext]_scopeVars => ScopesInv'
<1> SUFFICES ASSUME ScopesInv, [ScopeNext]_scopeVars PROVE ScopesInv' OBVIOUS
<1>1. /\ StructInv /\ WideInv /\ (about.topic = "names" => NamesInv)
      /\ about.topic = "names" \/ names = <<>>
  BY DEF ScopesInv
<1>2. CASE UNCHANGED scopeVars
  <2>1. UNCHANGED nameVars /\ UNCHANGED typeVars /\ UNCHANGED wideVars BY <1>2 DEF scopeVars
  <2>2. about' = about /\ names' = names /\ wide' = wide BY <2>1 DEF nameVars, wideVars
  <2> QED BY <1>1, <2>1, <2>2, NamesStay, StructNext, WideStays DEF ScopesInv
<1>3. ASSUME about.topic = "names", about' = about, UNCHANGED typeVars, UNCHANGED wideVars, NamesInv'
      PROVE  ScopesInv'
  <2>1. wide' = wide BY <1>3 DEF wideVars
  <2>2. StructInv' /\ WideInv' BY <1>1, <1>3, StructNext, WideStays
  <2> QED BY <1>3, <2>1, <2>2 DEF ScopesInv
<1>4. ASSUME NEW kind \in {"namespace", "class", "function", "block", "lambda"}, OpenScope(kind) PROVE ScopesInv'
  <2>1. about.topic = "names" /\ about' = about /\ UNCHANGED typeVars /\ UNCHANGED wideVars BY <1>4 DEF OpenScope
  <2>2. kind \in ScopeKinds BY DEF ScopeKinds
  <2> QED BY <1>1, <1>3, <1>4, <2>1, <2>2, PathsGrow
<1>5. CASE CloseScope
  <2>1. about.topic = "names" /\ about' = about /\ UNCHANGED typeVars /\ UNCHANGED wideVars BY <1>5 DEF CloseScope
  <2> QED BY <1>1, <1>3, <1>5, <2>1, PathsShrink
<1>6. ASSUME NEW what \in NameKinds, DeclareName(what) PROVE ScopesInv'
  <2>1. about.topic = "names" /\ about' = about /\ UNCHANGED typeVars /\ UNCHANGED wideVars BY <1>6 DEF DeclareName
  <2> QED BY <1>1, <1>3, <1>6, <2>1, NameAdded
<1>7. ASSUME about.topic = "types", UNCHANGED nameVars, UNCHANGED wideVars, StructInv' PROVE ScopesInv'
  <2>1. about' = about /\ names' = names /\ wide' = wide BY <1>7 DEF nameVars, wideVars
  <2>2. WideInv' BY <1>1, <1>7, WideStays
  <2> QED BY <1>1, <1>7, <2>1, <2>2 DEF ScopesInv
<1>8. ASSUME NEW tag \in BOOLEAN, NEW in \in {"alone", "var", "field", "typedef", "alias"}, DefineStruct(tag, in)
      PROVE  ScopesInv'
  <2>1. about.topic = "types" /\ UNCHANGED nameVars /\ UNCHANGED wideVars BY <1>8 DEF DefineStruct
  <2>2. in \in StructPlaces \ {"none"} BY DEF StructPlaces
  <2>3. StructInv' BY <1>1, <1>8, <2>2, StructNext
  <2> QED BY <1>7, <2>1, <2>3
<1>9. ASSUME NEW in \in {"var", "field", "param", "return"}, NEW via \in {"tag", "name"}, UseStruct(in, via)
      PROVE  ScopesInv'
  <2>1. about.topic = "types" /\ UNCHANGED nameVars /\ UNCHANGED wideVars BY <1>9 DEF UseStruct
  <2>2. StructInv' BY <1>1, <1>9, StructNext
  <2> QED BY <1>7, <2>1, <2>2
<1>10. CASE Step
  <2>1. about.topic = "width" /\ UNCHANGED nameVars /\ UNCHANGED typeVars BY <1>10 DEF Step
  <2>2. about' = about /\ names' = names BY <2>1 DEF nameVars
  <2>3. StructInv' /\ WideInv' BY <1>1, <1>10, <2>1, StructNext, WideStep
  <2> QED BY <1>1, <2>1, <2>2, <2>3 DEF ScopesInv
<1>11. \A what \in {"var", "function", "typedef", "enumerator", "tag", "field", "param", "static"} : what \in NameKinds
  BY DEF NameKinds
<1> QED BY <1>2, <1>4, <1>5, <1>6, <1>8, <1>9, <1>10, <1>11 DEF ScopeNext

\* What is said of names that hide others, of types defined inside other declarations, and of
\* variables declared too far out agrees with the scopes of the text and with its runs: for
\* any scopes and names, and any function and variable (AvoidIdentifierShadowingCheck.cpp,
\* AvoidTagNameHidingCheck.cpp, AvoidInlineTypeDefinitionCheck.cpp, AvoidWideVariableScopeCheck.cpp).
THEOREM ScopesRight == ScopeSpec => []ScopesJudged
<1>1. ScopesInv => ScopesJudged
  <2> SUFFICES ASSUME ScopesInv PROVE ScopesJudged OBVIOUS
  <2>1. DefinedInline /\ WidthReported BY InlineFound, WidthFound DEF ScopesInv
  <2>2. CASE about.topic = "names" BY <2>1, <2>2, HidingFound, ReportsFound DEF ScopesInv, ScopesJudged
  <2>3. CASE names = <<>>
    <3>1. DOMAIN names = {} BY <2>3
    <3>2. HidingReported /\ ReportedHides BY <3>1, Zenon DEF HidingReported, ReportedHides
    <3> QED BY <2>1, <3>2 DEF ScopesJudged
  <2> QED BY <2>2, <2>3 DEF ScopesInv
<1> QED BY <1>1, ScopesStart, ScopesStep, PTL DEF ScopeSpec
=============================================================================
