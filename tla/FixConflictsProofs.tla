------------------------- MODULE FixConflictsProofs -------------------------
(***************************************************************************)
(* Theorems about FixConflicts: the sweep over the ends of the intervals   *)
(* keeps exactly the fixes it announces to keep, and what is applied does  *)
(* not overlap; a fix is applied as a whole, and only if every alias check *)
(* suggests it.                                                            *)
(***************************************************************************)
EXTENDS FixConflicts, SequenceTheorems, FiniteSetTheorems, TLAPS
-----------------------------------------------------------------------------
(***************************************************************************)
(* The order of the events.                                                *)
(***************************************************************************)
Kinds     == {"begin", "insert", "end"}
Pos(e)    == IF e.type = "end" THEN e.rep.to ELSE e.rep.from
Kind(e)   == IF e.type = "begin" THEN 1 ELSE IF e.type = "insert" THEN 0 ELSE -1
Far(e)    == IF e.type = "end" THEN -e.rep.from ELSE -e.rep.to
Weight(e) == IF e.type = "begin" THEN -e.size ELSE e.size

LEMMA Lexicographic ==
  ASSUME NEW e, NEW f, e.type \in Kinds, f.type \in Kinds
  PROVE  Before(e, f) <=>
           \/ Pos(e) < Pos(f)
           \/ Pos(e) = Pos(f) /\ Kind(e) < Kind(f)
           \/ Pos(e) = Pos(f) /\ Kind(e) = Kind(f) /\ Far(e) < Far(f)
           \/ Pos(e) = Pos(f) /\ Kind(e) = Kind(f) /\ Far(e) = Far(f) /\ Weight(e) < Weight(f)
           \/ /\ Pos(e) = Pos(f) /\ Kind(e) = Kind(f) /\ Far(e) = Far(f) /\ Weight(e) = Weight(f)
              /\ e.err < f.err
<1>1. Priority(e) = <<Pos(e), Kind(e), Far(e), Weight(e), e.err>>
  BY DEF Kinds, Priority, Pos, Kind, Far, Weight
<1>2. Priority(f) = <<Pos(f), Kind(f), Far(f), Weight(f), f.err>>
  BY DEF Kinds, Priority, Pos, Kind, Far, Weight
<1> DEFINE p == Priority(e)
           q == Priority(f)
<1>3. Before(e, f) <=> \E k \in DOMAIN p : p[k] < q[k] /\ \A j \in 1..(k - 1) : p[j] = q[j]
  BY DEF Before
<1>4. DOMAIN p = 1..5 BY <1>1
<1>5. /\ p[1] = Pos(e) /\ p[2] = Kind(e) /\ p[3] = Far(e) /\ p[4] = Weight(e) /\ p[5] = e.err
      /\ q[1] = Pos(f) /\ q[2] = Kind(f) /\ q[3] = Far(f) /\ q[4] = Weight(f) /\ q[5] = f.err
  BY <1>1, <1>2
<1> HIDE DEF p, q
<1>6. Before(e, f) <=>
        \/ p[1] < q[1]
        \/ p[2] < q[2] /\ p[1] = q[1]
        \/ p[3] < q[3] /\ p[1] = q[1] /\ p[2] = q[2]
        \/ p[4] < q[4] /\ p[1] = q[1] /\ p[2] = q[2] /\ p[3] = q[3]
        \/ p[5] < q[5] /\ p[1] = q[1] /\ p[2] = q[2] /\ p[3] = q[3] /\ p[4] = q[4]
  <2>1. /\ 1..0 = {} /\ 1..1 = {1} /\ 1..2 = {1, 2} /\ 1..3 = {1, 2, 3} /\ 1..4 = {1, 2, 3, 4}
        /\ 1..5 = {1, 2, 3, 4, 5}
    OBVIOUS
  <2>2. /\ 1 - 1 = 0 /\ 2 - 1 = 1 /\ 3 - 1 = 2 /\ 4 - 1 = 3 /\ 5 - 1 = 4 OBVIOUS
  <2> DEFINE D(k) == p[k] < q[k] /\ \A j \in 1..(k - 1) : p[j] = q[j]
  <2>3. Before(e, f) <=> D(1) \/ D(2) \/ D(3) \/ D(4) \/ D(5) BY <1>3, <1>4, <2>1
  <2>4. D(1) <=> p[1] < q[1] BY <2>1, <2>2
  <2>5. D(2) <=> p[2] < q[2] /\ p[1] = q[1] BY <2>1, <2>2
  <2>6. D(3) <=> p[3] < q[3] /\ p[1] = q[1] /\ p[2] = q[2] BY <2>1, <2>2
  <2>7. D(4) <=> p[4] < q[4] /\ p[1] = q[1] /\ p[2] = q[2] /\ p[3] = q[3] BY <2>1, <2>2
  <2>8. D(5) <=> p[5] < q[5] /\ p[1] = q[1] /\ p[2] = q[2] /\ p[3] = q[3] /\ p[4] = q[4]
    BY <2>1, <2>2
  <2> HIDE DEF D
  <2> QED BY <2>3, <2>4, <2>5, <2>6, <2>7, <2>8
<1> QED BY <1>5, <1>6

\* What an event is.
Events == [err : Nat, rep : Replacements, type : Kinds, size : Nat]

LEMMA KeysTypes ==
  ASSUME NEW e \in Events
  PROVE  /\ e.type \in Kinds /\ e.rep.from \in Nat /\ e.rep.to \in Nat /\ e.rep.from <= e.rep.to
         /\ Pos(e) \in Int /\ Kind(e) \in Int /\ Far(e) \in Int /\ Weight(e) \in Int /\ e.err \in Int
<1>1. e.type \in Kinds /\ e.rep \in Replacements /\ e.size \in Nat /\ e.err \in Nat BY DEF Events
<1>2. e.rep.from \in Nat /\ e.rep.to \in Nat /\ e.rep.from <= e.rep.to
  BY <1>1, ReplacementsAssumption
<1> QED BY <1>1, <1>2 DEF Pos, Kind, Far, Weight

LEMMA BeforeAsymmetric ==
  ASSUME NEW e \in Events, NEW f \in Events, Before(e, f)
  PROVE  ~Before(f, e)
<1>1. /\ Pos(e) \in Int /\ Kind(e) \in Int /\ Far(e) \in Int /\ Weight(e) \in Int /\ e.err \in Int
      /\ Pos(f) \in Int /\ Kind(f) \in Int /\ Far(f) \in Int /\ Weight(f) \in Int /\ f.err \in Int
  BY KeysTypes
<1>2. e.type \in Kinds /\ f.type \in Kinds BY KeysTypes
<1> QED BY <1>1, <1>2, Lexicographic

-----------------------------------------------------------------------------
(***************************************************************************)
(* The list of errors, and their events.                                   *)
(***************************************************************************)
Entry == [place : Places, name : Checks, fix : SUBSET Replacements, note : SUBSET Replacements,
          aliases : SUBSET Checks, dropped : BOOLEAN]
ErrorsOK == /\ errors \in Seq(Entry)
            /\ \A i \in DOMAIN errors : Apart(errors[i].fix) /\ Apart(errors[i].note)

LEMMA FixTypes ==
  ASSUME ErrorsOK, NEW i \in DOMAIN errors
  PROVE  /\ i \in Nat /\ errors[i] \in Entry
         /\ GetFixIt(errors[i]) \subseteq Replacements /\ Apart(GetFixIt(errors[i]))
         /\ Size(i) \in Nat
<1>1. errors \in Seq(Entry) /\ i \in 1..Len(errors) /\ Len(errors) \in Nat BY DEF ErrorsOK
<1>2. errors[i] \in Entry BY <1>1, ElementOfSeq
<1>3. errors[i].fix \subseteq Replacements /\ errors[i].note \subseteq Replacements
  BY <1>2 DEF Entry
<1>4. GetFixIt(errors[i]) \subseteq Replacements BY <1>3 DEF GetFixIt
<1>5. Apart(GetFixIt(errors[i])) BY DEF GetFixIt, ErrorsOK
<1>6. Size(i) \in Nat
  <2> DEFINE F     == GetFixIt(errors[i])
             S(r)  == {r} \X (r.from..(r.to - 1))
             T     == {S(r) : r \in F}
  <2>1. IsFiniteSet(F) BY <1>4, FS_Subset, ReplacementsAssumption
  <2>2. IsFiniteSet(T)
    <3> DEFINE f == [r \in F |-> S(r)]
    <3>1. f \in Surjection(F, T) BY DEF Surjection
    <3> QED BY <2>1, <3>1, FS_Surjection
  <2>3. ASSUME NEW r \in F PROVE IsFiniteSet(S(r))
    <3>1. r.from \in Int /\ r.to - 1 \in Int
      <4>1. r.from \in Nat /\ r.to \in Nat BY <1>4, ReplacementsAssumption
      <4> QED BY <4>1
    <3>2. IsFiniteSet(r.from..(r.to - 1)) BY <3>1, FS_Interval
    <3>3. IsFiniteSet({r}) BY FS_Singleton
    <3> QED BY <3>2, <3>3, FS_Product
  <2>4. \A A \in T : IsFiniteSet(A) BY <2>3
  <2>5. IsFiniteSet(UNION T) BY <2>2, <2>4, FS_UNION
  <2>6. Size(i) = Cardinality(UNION T) BY DEF Size
  <2> QED BY <2>5, <2>6, FS_CardinalityType
<1> QED BY <1>1, <1>2, <1>4, <1>5, <1>6

BeginOf(j, q) == Event(j, q, "begin")
EndOf(j, q)   == Event(j, q, "end")
\* The event e comes while the interval of q is open.
Covers(j, q, e) == ~IsInsertion(q) /\ Before(BeginOf(j, q), e) /\ Before(e, EndOf(j, q))

LEMMA EventTypes ==
  ASSUME ErrorsOK, NEW i \in DOMAIN errors, NEW r \in GetFixIt(errors[i]), NEW t \in Kinds
  PROVE  /\ Event(i, r, t) \in Events
         /\ Event(i, r, t).err = i /\ Event(i, r, t).rep = r /\ Event(i, r, t).type = t
         /\ Event(i, r, t).size = Size(i)
BY FixTypes DEF Event, Events

LEMMA EventForms ==
  ASSUME ErrorsOK, NEW i \in DOMAIN errors, NEW r \in GetFixIt(errors[i]), NEW e \in EventsOf(i, r)
  PROVE  /\ e \in Events /\ e.err = i /\ e.rep = r /\ e.size = Size(i)
         /\ \/ e.type = "insert" /\ IsInsertion(r) /\ e = Event(i, r, "insert")
            \/ e.type = "begin" /\ ~IsInsertion(r) /\ e = BeginOf(i, r)
            \/ e.type = "end" /\ ~IsInsertion(r) /\ e = EndOf(i, r)
<1>1. \/ IsInsertion(r) /\ e = Event(i, r, "insert")
      \/ ~IsInsertion(r) /\ e = Event(i, r, "begin")
      \/ ~IsInsertion(r) /\ e = Event(i, r, "end")
  BY DEF EventsOf
<1>2. "insert" \in Kinds /\ "begin" \in Kinds /\ "end" \in Kinds BY DEF Kinds
<1> QED BY <1>1, <1>2, EventTypes DEF BeginOf, EndOf

LEMMA AllEventsForms ==
  ASSUME ErrorsOK, NEW e \in AllEvents
  PROVE  /\ e \in Events /\ e.err \in DOMAIN errors /\ e.rep \in GetFixIt(errors[e.err])
         /\ e \in EventsOf(e.err, e.rep)
<1>1. PICK i \in DOMAIN errors : \E r \in GetFixIt(errors[i]) : e \in EventsOf(i, r)
  BY DEF AllEvents
<1>2. PICK r \in GetFixIt(errors[i]) : e \in EventsOf(i, r) BY <1>1
<1>3. e \in Events /\ e.err = i /\ e.rep = r BY <1>2, EventForms
<1> QED BY <1>2, <1>3

LEMMA InAllEvents ==
  ASSUME NEW i \in DOMAIN errors, NEW r \in GetFixIt(errors[i])
  PROVE  /\ EventsOf(i, r) \subseteq AllEvents
         /\ ~IsInsertion(r) => BeginOf(i, r) \in AllEvents /\ EndOf(i, r) \in AllEvents
<1>1. EventsOf(i, r) \subseteq AllEvents BY DEF AllEvents
<1> QED BY <1>1 DEF EventsOf, BeginOf, EndOf

\* The offsets that the order looks at.
LEMMA Offsets ==
  ASSUME ErrorsOK, NEW i \in DOMAIN errors, NEW r \in GetFixIt(errors[i])
  PROVE  /\ r.from \in Nat /\ r.to \in Nat /\ r.from <= r.to
         /\ i \in Nat /\ Size(i) \in Nat
<1>1. r \in Replacements BY FixTypes
<1> QED BY <1>1, FixTypes, ReplacementsAssumption

LEMMA CoveredOverlaps ==
  ASSUME ErrorsOK, NEW i \in DOMAIN errors, NEW r \in GetFixIt(errors[i]),
         NEW j \in DOMAIN errors, NEW q \in GetFixIt(errors[j]), r.file = q.file,
         NEW e \in EventsOf(i, r), Covers(j, q, e)
  PROVE  Overlap(r, q) /\ ~Contains(r, i, q, j)
<1> DEFINE b == BeginOf(j, q)
           d == EndOf(j, q)
<1>1. /\ r.from \in Nat /\ r.to \in Nat /\ r.from <= r.to /\ i \in Nat /\ Size(i) \in Nat
      /\ q.from \in Nat /\ q.to \in Nat /\ q.from <= q.to /\ j \in Nat /\ Size(j) \in Nat
  BY Offsets
<1>2. /\ b.rep = q /\ b.err = j /\ b.size = Size(j) /\ b.type = "begin"
      /\ d.rep = q /\ d.err = j /\ d.size = Size(j) /\ d.type = "end"
  BY DEF BeginOf, EndOf, Event
<1>3. Before(b, e) /\ Before(e, d) /\ q.from # q.to BY DEF Covers, IsInsertion
<1>4. e.rep = r /\ e.err = i /\ e.size = Size(i) /\ e.type \in Kinds BY EventForms DEF Kinds
<1>5. b.type \in Kinds /\ d.type \in Kinds BY <1>2 DEF Kinds
<1>6. /\ Pos(b) = q.from /\ Kind(b) = 1 /\ Far(b) = -q.to /\ Weight(b) = -Size(j)
      /\ Pos(d) = q.to /\ Kind(d) = -1 /\ Far(d) = -q.from /\ Weight(d) = Size(j)
  BY <1>2 DEF Pos, Kind, Far, Weight
<1> HIDE DEF b, d
<1>7. CASE e.type = "insert"
  <2>1. Pos(e) = r.from /\ Kind(e) = 0 /\ r.from = r.to
    BY <1>4, <1>7, EventForms DEF Pos, Kind, IsInsertion
  <2>2. q.from < r.from BY <1>1, <1>3, <1>4, <1>5, <1>6, <2>1, Lexicographic
  <2>3. r.from < q.to BY <1>1, <1>3, <1>4, <1>5, <1>6, <2>1, Lexicographic
  <2> QED BY <1>1, <2>1, <2>2, <2>3 DEF Overlap, Contains
<1>8. CASE e.type = "begin"
  <2>1. Pos(e) = r.from /\ Kind(e) = 1 /\ Far(e) = -r.to /\ Weight(e) = -Size(i) /\ r.from # r.to
    BY <1>4, <1>8, EventForms DEF Pos, Kind, Far, Weight, IsInsertion
  <2>2. \/ q.from < r.from
        \/ q.from = r.from /\ r.to < q.to
        \/ q.from = r.from /\ r.to = q.to /\ Size(i) <= Size(j)
    <3>1. \/ q.from < r.from
          \/ q.from = r.from /\ -q.to < -r.to
          \/ q.from = r.from /\ -q.to = -r.to /\ -Size(j) < -Size(i)
          \/ q.from = r.from /\ -q.to = -r.to /\ -Size(j) = -Size(i)
      BY <1>2, <1>3, <1>4, <1>5, <1>6, <2>1, Lexicographic
    <3> QED BY <1>1, <3>1
  <2>3. r.from < q.to BY <1>1, <1>3, <1>4, <1>5, <1>6, <2>1, Lexicographic
  <2> QED BY <1>1, <2>1, <2>2, <2>3 DEF Overlap, Contains
<1>9. CASE e.type = "end"
  <2>1. Pos(e) = r.to /\ Kind(e) = -1 /\ Far(e) = -r.from /\ Weight(e) = Size(i) /\ r.from # r.to
    BY <1>4, <1>9, EventForms DEF Pos, Kind, Far, Weight, IsInsertion
  <2>2. \/ r.to < q.to
        \/ r.to = q.to /\ q.from < r.from
        \/ r.to = q.to /\ q.from = r.from /\ Size(i) <= Size(j)
    <3>1. \/ r.to < q.to
          \/ r.to = q.to /\ -r.from < -q.from
          \/ r.to = q.to /\ -r.from = -q.from /\ Size(i) < Size(j)
          \/ r.to = q.to /\ -r.from = -q.from /\ Size(i) = Size(j)
      BY <1>2, <1>3, <1>4, <1>5, <1>6, <2>1, Lexicographic
    <3> QED BY <1>1, <3>1
  <2>3. q.from < r.to BY <1>1, <1>3, <1>4, <1>5, <1>6, <2>1, Lexicographic
  <2> QED BY <1>1, <2>1, <2>2, <2>3 DEF Overlap, Contains
<1> QED BY <1>4, <1>7, <1>8, <1>9 DEF Kinds

LEMMA OverlapsCovered ==
  ASSUME ErrorsOK, NEW i \in DOMAIN errors, NEW r \in GetFixIt(errors[i]),
         NEW j \in DOMAIN errors, NEW q \in GetFixIt(errors[j]), i # j,
         Overlap(r, q), ~Contains(r, i, q, j)
  PROVE  \E e \in EventsOf(i, r) : Covers(j, q, e)
<1> DEFINE b == BeginOf(j, q)
           d == EndOf(j, q)
<1>1. /\ r.from \in Nat /\ r.to \in Nat /\ r.from <= r.to /\ i \in Nat /\ Size(i) \in Nat
      /\ q.from \in Nat /\ q.to \in Nat /\ q.from <= q.to /\ j \in Nat /\ Size(j) \in Nat
  BY Offsets
<1>2. /\ b.rep = q /\ b.err = j /\ b.size = Size(j) /\ b.type = "begin"
      /\ d.rep = q /\ d.err = j /\ d.size = Size(j) /\ d.type = "end"
  BY DEF BeginOf, EndOf, Event
<1>3. b.type \in Kinds /\ d.type \in Kinds BY <1>2 DEF Kinds
<1>4. /\ Pos(b) = q.from /\ Kind(b) = 1 /\ Far(b) = -q.to /\ Weight(b) = -Size(j)
      /\ Pos(d) = q.to /\ Kind(d) = -1 /\ Far(d) = -q.from /\ Weight(d) = Size(j)
  BY <1>2 DEF Pos, Kind, Far, Weight
<1>5. r.to > q.from /\ r.from < q.to BY DEF Overlap
<1>6. \/ q.from < r.from
      \/ r.from <= q.from /\ r.to < q.to
      \/ r.from = q.from /\ r.to = q.to /\ Size(i) <= Size(j)
  <2>1. ~(r.from <= q.from /\ q.to <= r.to
          /\ (r.from = q.from /\ r.to = q.to => Size(i) > Size(j)))
    BY DEF Contains
  <2> QED BY <1>1, <2>1
<1>7. q.from # q.to BY <1>1, <1>5, <1>6
<1> DEFINE e1 == Event(i, r, "begin")
           e2 == Event(i, r, "end")
           e0 == Event(i, r, "insert")
<1>8. /\ e1.rep = r /\ e1.err = i /\ e1.size = Size(i) /\ e1.type = "begin"
      /\ e2.rep = r /\ e2.err = i /\ e2.size = Size(i) /\ e2.type = "end"
      /\ e0.rep = r /\ e0.err = i /\ e0.size = Size(i) /\ e0.type = "insert"
  BY DEF Event
<1>9. e1.type \in Kinds /\ e2.type \in Kinds /\ e0.type \in Kinds BY <1>8 DEF Kinds
<1>10. /\ Pos(e1) = r.from /\ Kind(e1) = 1 /\ Far(e1) = -r.to /\ Weight(e1) = -Size(i)
       /\ Pos(e2) = r.to /\ Kind(e2) = -1 /\ Far(e2) = -r.from /\ Weight(e2) = Size(i)
       /\ Pos(e0) = r.from /\ Kind(e0) = 0
  BY <1>8 DEF Pos, Kind, Far, Weight
<1>11. /\ IsInsertion(r) => e0 \in EventsOf(i, r)
       /\ ~IsInsertion(r) => e1 \in EventsOf(i, r) /\ e2 \in EventsOf(i, r)
  BY DEF EventsOf
<1>12. \A e : Covers(j, q, e) <=> Before(b, e) /\ Before(e, d) BY <1>7 DEF Covers, IsInsertion
<1> HIDE DEF b, d, e0, e1, e2
<1>13. CASE IsInsertion(r)
  <2>1. q.from < r.from /\ r.from < q.to BY <1>1, <1>5, <1>13 DEF IsInsertion
  <2>2. Before(b, e0) BY <1>3, <1>4, <1>9, <1>10, <2>1, Lexicographic
  <2>3. Before(e0, d) BY <1>3, <1>4, <1>9, <1>10, <2>1, Lexicographic
  <2> QED BY <1>11, <1>12, <1>13, <2>2, <2>3
<1>14. CASE ~IsInsertion(r)
  <2>1. Before(e1, d) BY <1>3, <1>4, <1>5, <1>9, <1>10, Lexicographic
  <2>2. Before(b, e2)
    <3>1. q.from < r.to BY <1>1, <1>5
    <3> QED BY <1>3, <1>4, <1>9, <1>10, <3>1, Lexicographic
  <2>3. Before(b, e1) \/ Before(e2, d)
    <3>1. CASE q.from < r.from
      <4>1. Before(b, e1) BY <1>3, <1>4, <1>9, <1>10, <3>1, Lexicographic
      <4> QED BY <4>1
    <3>2. CASE r.to < q.to
      <4>1. Before(e2, d) BY <1>3, <1>4, <1>9, <1>10, <3>2, Lexicographic
      <4> QED BY <4>1
    <3>3. CASE r.from = q.from /\ r.to = q.to /\ Size(i) < Size(j)
      <4>1. -Size(j) < -Size(i) BY <1>1, <3>3
      <4>2. Before(b, e1) BY <1>3, <1>4, <1>9, <1>10, <3>3, <4>1, Lexicographic
      <4> QED BY <4>2
    <3>4. CASE r.from = q.from /\ r.to = q.to /\ Size(i) = Size(j) /\ j < i
      <4>1. Before(b, e1) BY <1>2, <1>3, <1>4, <1>8, <1>9, <1>10, <3>4, Lexicographic
      <4> QED BY <4>1
    <3>5. CASE r.from = q.from /\ r.to = q.to /\ Size(i) = Size(j) /\ i < j
      <4>1. Before(e2, d) BY <1>2, <1>3, <1>4, <1>8, <1>9, <1>10, <3>5, Lexicographic
      <4> QED BY <4>1
    <3>6. i < j \/ j < i BY <1>1
    <3>7. Size(i) <= Size(j) => Size(i) < Size(j) \/ Size(i) = Size(j) BY <1>1
    <3> QED BY <1>6, <3>1, <3>2, <3>3, <3>4, <3>5, <3>6, <3>7
  <2> QED BY <1>11, <1>12, <1>14, <2>1, <2>2, <2>3
<1> QED BY <1>13, <1>14

-----------------------------------------------------------------------------
(***************************************************************************)
(* The sweep.  With E the events still to come, the counter of a file      *)
(* counts the intervals that are open, the events that are over come       *)
(* before those to come, and an error is still to be applied exactly if    *)
(* none of its events so far came while another interval was open.         *)
(***************************************************************************)
OpenIn(E, f) ==
  {d \in E : d.type = "end" /\ d.rep.file = f /\ BeginOf(d.err, d.rep) \notin E}

Covered(e) ==
  \E j \in DOMAIN errors : \E q \in GetFixIt(errors[j]) : q.file = e.rep.file /\ Covers(j, q, e)

SweepRight(E, o, a) ==
  /\ E \subseteq AllEvents
  /\ \A e \in E, d \in AllEvents \ E : d.rep.file = e.rep.file => Before(d, e)
  /\ \A f \in TargetFiles : o[f] = Cardinality(OpenIn(E, f))
  /\ a = {i \in DOMAIN errors : \A e \in AllEvents \ E : e.err = i => ~Covered(e)}

LEMMA EventsFinite ==
  ASSUME ErrorsOK
  PROVE  IsFiniteSet(AllEvents)
<1> DEFINE Of(i)  == UNION {EventsOf(i, r) : r \in GetFixIt(errors[i])}
           D      == DOMAIN errors
<1>1. IsFiniteSet(D)
  <2>1. errors \in Seq(Entry) BY DEF ErrorsOK
  <2>2. D = 1..Len(errors) /\ 1 \in Int /\ Len(errors) \in Int BY <2>1
  <2> QED BY <2>2, FS_Interval
<1>2. ASSUME NEW i \in D PROVE IsFiniteSet(Of(i))
  <2> DEFINE F == GetFixIt(errors[i])
             T == {EventsOf(i, r) : r \in F}
             f == [r \in F |-> EventsOf(i, r)]
  <2>1. IsFiniteSet(F) BY FixTypes, FS_Subset, ReplacementsAssumption
  <2>2. f \in Surjection(F, T) BY DEF Surjection
  <2>3. IsFiniteSet(T) BY <2>1, <2>2, FS_Surjection
  <2>4. ASSUME NEW r \in F PROVE IsFiniteSet(EventsOf(i, r))
    <3>1. IsFiniteSet({Event(i, r, "insert")}) BY FS_Singleton
    <3>2. IsFiniteSet({Event(i, r, "begin")} \cup {Event(i, r, "end")})
      BY FS_Singleton, FS_AddElement
    <3>3. {Event(i, r, "begin")} \cup {Event(i, r, "end")}
            = {Event(i, r, "begin"), Event(i, r, "end")}
      OBVIOUS
    <3> QED BY <3>1, <3>2, <3>3 DEF EventsOf
  <2>5. \A A \in T : IsFiniteSet(A) BY <2>4
  <2> QED BY <2>3, <2>5, FS_UNION
<1> DEFINE U == {Of(i) : i \in D}
           h == [i \in D |-> Of(i)]
<1>3. h \in Surjection(D, U) BY DEF Surjection
<1>4. IsFiniteSet(U) BY <1>1, <1>3, FS_Surjection
<1>5. \A A \in U : IsFiniteSet(A) BY <1>2
<1>6. AllEvents = UNION U BY DEF AllEvents
<1> QED BY <1>4, <1>5, <1>6, FS_UNION

LEMMA OpenFinite ==
  ASSUME ErrorsOK, NEW E \in SUBSET AllEvents, NEW f
  PROVE  IsFiniteSet(OpenIn(E, f)) /\ Cardinality(OpenIn(E, f)) \in Nat
<1>1. OpenIn(E, f) \in SUBSET AllEvents BY DEF OpenIn
<1> QED BY <1>1, EventsFinite, FS_Subset, FS_CardinalityType

LEMMA BeginBeforeEnd ==
  ASSUME ErrorsOK, NEW i \in DOMAIN errors, NEW r \in GetFixIt(errors[i]), ~IsInsertion(r)
  PROVE  Before(BeginOf(i, r), EndOf(i, r)) /\ BeginOf(i, r) # EndOf(i, r)
<1> DEFINE b == BeginOf(i, r)
           d == EndOf(i, r)
<1>1. r.from \in Nat /\ r.to \in Nat /\ r.from < r.to BY Offsets DEF IsInsertion
<1>2. b.rep = r /\ b.type = "begin" /\ d.rep = r /\ d.type = "end" BY DEF BeginOf, EndOf, Event
<1>3. b.type \in Kinds /\ d.type \in Kinds /\ Pos(b) = r.from /\ Pos(d) = r.to
  BY <1>2 DEF Kinds, Pos
<1> HIDE DEF b, d
<1>4. Before(b, d) BY <1>1, <1>3, Lexicographic
<1> QED BY <1>2, <1>4 DEF b, d

\* What the next event finds open, besides its own interval, is what covers it.
LEMMA OpenCovers ==
  ASSUME ErrorsOK, NEW E, NEW o, NEW a, SweepRight(E, o, a), NEW e \in E,
         \A f \in E \ {e} : f.rep.file = e.rep.file => Before(e, f)
  PROVE  /\ Covered(e) <=> OpenIn(E, e.rep.file) \ {EndOf(e.err, e.rep)} # {}
         /\ EndOf(e.err, e.rep) \in OpenIn(E, e.rep.file) <=> e.type = "end"
<1> DEFINE i == e.err
           r == e.rep
           O == OpenIn(E, r.file)
<1>1. e \in AllEvents /\ E \subseteq AllEvents BY DEF SweepRight
<1>2. e \in Events /\ i \in DOMAIN errors /\ r \in GetFixIt(errors[i]) /\ e \in EventsOf(i, r)
  BY <1>1, AllEventsForms
<1>3. \A d \in AllEvents \ E : d.rep.file = r.file => Before(d, e) BY DEF SweepRight
<1>4. ~Before(e, e) BY <1>2, BeforeAsymmetric
<1>5. ASSUME NEW j \in DOMAIN errors, NEW q \in GetFixIt(errors[j]), ~IsInsertion(q)
      PROVE  /\ BeginOf(j, q) \in AllEvents /\ EndOf(j, q) \in AllEvents
             /\ BeginOf(j, q) \in Events /\ EndOf(j, q) \in Events
             /\ BeginOf(j, q).rep = q /\ EndOf(j, q).rep = q
             /\ BeginOf(j, q).err = j /\ EndOf(j, q).err = j /\ EndOf(j, q).type = "end"
  <2>1. BeginOf(j, q) \in AllEvents /\ EndOf(j, q) \in AllEvents BY <1>5, InAllEvents
  <2>2. BeginOf(j, q) \in Events /\ EndOf(j, q) \in Events BY <2>1, AllEventsForms
  <2> QED BY <2>1, <2>2 DEF BeginOf, EndOf, Event
<1>6. ASSUME NEW j \in DOMAIN errors, NEW q \in GetFixIt(errors[j]), q.file = r.file,
             Covers(j, q, e)
      PROVE  EndOf(j, q) \in O /\ EndOf(j, q) # EndOf(i, r)
  <2>0. ~IsInsertion(q) BY <1>6 DEF Covers
  <2>1. /\ BeginOf(j, q) \in AllEvents /\ EndOf(j, q) \in AllEvents
        /\ BeginOf(j, q) \in Events /\ EndOf(j, q) \in Events
        /\ BeginOf(j, q).rep = q /\ EndOf(j, q).rep = q /\ EndOf(j, q).err = j
        /\ EndOf(j, q).type = "end"
    BY <1>5, <2>0
  <2>2. Before(BeginOf(j, q), e) /\ Before(e, EndOf(j, q)) BY <1>6 DEF Covers
  <2>3. BeginOf(j, q) # e /\ EndOf(j, q) # e BY <1>4, <2>2
  <2>4. BeginOf(j, q) \notin E
    <3>1. ~Before(e, BeginOf(j, q)) BY <1>2, <2>1, <2>2, BeforeAsymmetric
    <3> QED BY <1>6, <2>1, <2>3, <3>1
  <2>5. EndOf(j, q) \in E
    <3>1. ~Before(EndOf(j, q), e) BY <1>2, <2>1, <2>2, BeforeAsymmetric
    <3> QED BY <1>3, <1>6, <2>1, <3>1
  <2>6. EndOf(j, q) \in O BY <1>6, <2>1, <2>4, <2>5 DEF OpenIn
  <2>7. ASSUME EndOf(j, q) = EndOf(i, r) PROVE FALSE
    <3>1. j = i /\ q = r BY <2>1, <2>7 DEF EndOf, Event
    <3>2. e = BeginOf(i, r) \/ e = EndOf(i, r) BY <1>2, <2>0, <3>1, EventForms
    <3> QED BY <2>3, <3>1, <3>2
  <2> QED BY <2>6, <2>7
<1>7. ASSUME NEW d \in O, d # EndOf(i, r)
      PROVE  /\ d.err \in DOMAIN errors /\ d.rep \in GetFixIt(errors[d.err])
             /\ d.rep.file = r.file /\ Covers(d.err, d.rep, e)
  <2>1. d \in E /\ d.type = "end" /\ d.rep.file = r.file /\ BeginOf(d.err, d.rep) \notin E
    BY DEF OpenIn
  <2>2. d \in AllEvents BY <1>1, <2>1
  <2>3. d.err \in DOMAIN errors /\ d.rep \in GetFixIt(errors[d.err]) /\ d \in EventsOf(d.err, d.rep)
    BY <2>2, AllEventsForms
  <2>4. ~IsInsertion(d.rep) /\ d = EndOf(d.err, d.rep) BY <2>1, <2>3, EventForms
  <2>5. BeginOf(d.err, d.rep) \in AllEvents /\ BeginOf(d.err, d.rep).rep = d.rep
    BY <1>5, <2>3, <2>4
  <2>6. Before(BeginOf(d.err, d.rep), e) BY <1>3, <2>1, <2>5
  <2>7. d # e BY <1>7, <2>4
  <2>8. Before(e, d) BY <2>1, <2>7
  <2> QED BY <2>1, <2>3, <2>4, <2>6, <2>8 DEF Covers
<1>8. Covered(e) <=> O \ {EndOf(i, r)} # {}
  <2>1. ASSUME Covered(e) PROVE O \ {EndOf(i, r)} # {}
    <3>1. PICK j \in DOMAIN errors : \E q \in GetFixIt(errors[j]) : q.file = r.file /\ Covers(j, q, e)
      BY <2>1 DEF Covered
    <3>2. PICK q \in GetFixIt(errors[j]) : q.file = r.file /\ Covers(j, q, e) BY <3>1
    <3>3. EndOf(j, q) \in O /\ EndOf(j, q) # EndOf(i, r) BY <1>6, <3>2
    <3> QED BY <3>3
  <2>2. ASSUME NEW d \in O \ {EndOf(i, r)} PROVE Covered(e) BY <1>7 DEF Covered
  <2> QED BY <2>1, <2>2
<1>9. EndOf(i, r) \in O <=> e.type = "end"
  <2>1. \/ e.type = "insert" /\ IsInsertion(r)
        \/ e.type = "begin" /\ ~IsInsertion(r) /\ e = BeginOf(i, r)
        \/ e.type = "end" /\ ~IsInsertion(r) /\ e = EndOf(i, r)
    BY <1>2, EventForms
  <2>0. EndOf(i, r).err = i /\ EndOf(i, r).rep = r /\ EndOf(i, r).type = "end" BY DEF EndOf, Event
  <2>2. CASE e.type = "insert" /\ IsInsertion(r)
    <3> SUFFICES ASSUME EndOf(i, r) \in AllEvents PROVE FALSE BY <1>1, <2>2 DEF OpenIn
    <3>1. EndOf(i, r) \in EventsOf(i, r) BY <2>0, AllEventsForms
    <3> QED BY <1>2, <2>0, <2>2, <3>1, EventForms
  <2>3. CASE e.type = "begin" /\ ~IsInsertion(r) /\ e = BeginOf(i, r)
    BY <2>0, <2>3 DEF OpenIn
  <2>4. CASE e.type = "end" /\ ~IsInsertion(r) /\ e = EndOf(i, r)
    <3>1. Before(BeginOf(i, r), e) /\ BeginOf(i, r) # e BY <1>2, <2>4, BeginBeforeEnd
    <3>2. BeginOf(i, r) \in Events /\ BeginOf(i, r).rep = r BY <1>2, <1>5, <2>4
    <3>3. ~Before(e, BeginOf(i, r)) BY <1>2, <3>1, <3>2, BeforeAsymmetric
    <3>4. BeginOf(i, r) \notin E BY <3>1, <3>2, <3>3
    <3> QED BY <2>4, <3>4 DEF OpenIn
  <2> QED BY <2>1, <2>2, <2>3, <2>4
<1> QED BY <1>8, <1>9

\* How an event changes what is open.
LEMMA OpenStep ==
  ASSUME ErrorsOK, NEW E, NEW o, NEW a, SweepRight(E, o, a), NEW e \in E,
         \A f \in E \ {e} : f.rep.file = e.rep.file => Before(e, f)
  PROVE  /\ \A f : f # e.rep.file => OpenIn(E \ {e}, f) = OpenIn(E, f)
         /\ e.type = "insert" => OpenIn(E \ {e}, e.rep.file) = OpenIn(E, e.rep.file)
         /\ e.type = "begin" =>
              OpenIn(E \ {e}, e.rep.file) = OpenIn(E, e.rep.file) \cup {EndOf(e.err, e.rep)}
         /\ e.type = "end" =>
              OpenIn(E \ {e}, e.rep.file) = OpenIn(E, e.rep.file) \ {EndOf(e.err, e.rep)}
<1> DEFINE i == e.err
           r == e.rep
           g == e.rep.file
           End(d) == d.type = "end" /\ BeginOf(d.err, d.rep) \notin E
<1>1. e \in AllEvents /\ E \subseteq AllEvents BY DEF SweepRight
<1>2. e \in Events /\ i \in DOMAIN errors /\ r \in GetFixIt(errors[i]) /\ e \in EventsOf(i, r)
  BY <1>1, AllEventsForms
<1>3. \A D, f : \A d : d \in OpenIn(D, f) <=>
        d \in D /\ d.type = "end" /\ d.rep.file = f /\ BeginOf(d.err, d.rep) \notin D
  BY DEF OpenIn
<1>4. \A d : e = BeginOf(d.err, d.rep) => d.err = i /\ d.rep = r /\ e.type = "begin"
  BY DEF BeginOf, Event
<1>5. ASSUME NEW d \in E, d.type = "end" PROVE d = EndOf(d.err, d.rep)
  <2>1. d \in AllEvents BY <1>1
  <2>2. d.err \in DOMAIN errors /\ d.rep \in GetFixIt(errors[d.err]) /\ d \in EventsOf(d.err, d.rep)
    BY <2>1, AllEventsForms
  <2> QED BY <1>5, <2>2, EventForms
<1>6. \/ e.type = "insert" /\ IsInsertion(r)
      \/ e.type = "begin" /\ ~IsInsertion(r) /\ e = BeginOf(i, r)
      \/ e.type = "end" /\ ~IsInsertion(r) /\ e = EndOf(i, r)
  BY <1>2, EventForms
<1>7. ASSUME NEW f, f # g PROVE OpenIn(E \ {e}, f) = OpenIn(E, f)
  <2>1. \A d : d \in OpenIn(E \ {e}, f) <=> d \in OpenIn(E, f)
    <3>1. \A d : d.rep.file = f => d # e /\ e # BeginOf(d.err, d.rep) BY <1>4, <1>7
    <3> QED BY <1>3, <3>1
  <2> QED BY <2>1, <1>3
<1>8. ASSUME e.type = "insert" PROVE OpenIn(E \ {e}, g) = OpenIn(E, g)
  <2>1. \A d : d \in OpenIn(E \ {e}, g) <=> d \in OpenIn(E, g)
    <3>1. \A d : d.type = "end" => d # e /\ e # BeginOf(d.err, d.rep) BY <1>4, <1>8
    <3> QED BY <1>3, <3>1
  <2> QED BY <2>1, <1>3
<1>9. ASSUME e.type = "begin"
      PROVE  OpenIn(E \ {e}, g) = OpenIn(E, g) \cup {EndOf(i, r)}
  <2>1. ~IsInsertion(r) /\ e = BeginOf(i, r) BY <1>6, <1>9
  <2>0. EndOf(i, r).err = i /\ EndOf(i, r).rep = r /\ EndOf(i, r).type = "end" BY DEF EndOf, Event
  <2>2. EndOf(i, r) \in E /\ EndOf(i, r) # e
    <3>1. Before(e, EndOf(i, r)) /\ EndOf(i, r) # e BY <1>2, <2>1, BeginBeforeEnd
    <3>2. EndOf(i, r) \in AllEvents BY <1>2, <2>1, InAllEvents
    <3>3. EndOf(i, r) \in Events BY <3>2, AllEventsForms
    <3>4. ~Before(EndOf(i, r), e) BY <1>2, <3>1, <3>3, BeforeAsymmetric
    <3>5. EndOf(i, r) \in AllEvents \ E => Before(EndOf(i, r), e) BY <2>0 DEF SweepRight
    <3> QED BY <3>1, <3>2, <3>4, <3>5
  <2>3. EndOf(i, r) \in OpenIn(E \ {e}, g) BY <1>3, <2>0, <2>1, <2>2
  <2>4. ASSUME NEW d, d # EndOf(i, r)
        PROVE  d \in OpenIn(E \ {e}, g) <=> d \in OpenIn(E, g)
    <3>1. d \in E /\ d.type = "end" => d # e /\ e # BeginOf(d.err, d.rep)
      BY <1>4, <1>5, <1>9, <2>4
    <3> QED BY <1>3, <3>1
  <2> QED BY <2>3, <2>4
<1>10. ASSUME e.type = "end"
       PROVE  OpenIn(E \ {e}, g) = OpenIn(E, g) \ {EndOf(i, r)}
  <2>1. e = EndOf(i, r) BY <1>6, <1>10
  <2>2. EndOf(i, r) \notin OpenIn(E \ {e}, g) BY <1>3, <2>1
  <2>3. ASSUME NEW d, d # EndOf(i, r)
        PROVE  d \in OpenIn(E \ {e}, g) <=> d \in OpenIn(E, g)
    <3>1. e # BeginOf(d.err, d.rep) /\ d # e BY <1>4, <1>10, <2>1, <2>3
    <3> QED BY <1>3, <3>1
  <2> QED BY <2>2, <2>3
<1> QED BY <1>7, <1>8, <1>9, <1>10

LEMMA SweepStep ==
  ASSUME ErrorsOK, NEW E, NEW o \in [TargetFiles -> Int], NEW a, SweepRight(E, o, a), NEW e \in E,
         \A f \in E \ {e} : f.rep.file = e.rep.file => Before(e, f)
  PROVE  /\ [o EXCEPT ![e.rep.file] = Opened(e, @)] \in [TargetFiles -> Int]
         /\ SweepRight(E \ {e}, [o EXCEPT ![e.rep.file] = Opened(e, @)],
                       IF Conflicts(e, o[e.rep.file]) THEN a \ {e.err} ELSE a)
<1> DEFINE g  == e.rep.file
           x  == EndOf(e.err, e.rep)
           O  == OpenIn(E, g)
           n  == o[g]
           o2 == [o EXCEPT ![g] = Opened(e, @)]
           a2 == IF Conflicts(e, n) THEN a \ {e.err} ELSE a
<1>1. e \in AllEvents BY DEF SweepRight
<1>2. e \in Events /\ e.type \in Kinds /\ e.rep \in Replacements /\ e.err \in DOMAIN errors
  BY <1>1, AllEventsForms DEF Events
<1>3. g \in TargetFiles BY <1>2 DEF TargetFiles
<1>4. n = Cardinality(O) /\ n \in Nat /\ IsFiniteSet(O)
  <2>1. E \in SUBSET AllEvents BY DEF SweepRight
  <2> QED BY <1>3, <2>1, OpenFinite DEF SweepRight
<1>5. /\ Covered(e) <=> O \ {x} # {}
      /\ x \in O <=> e.type = "end"
  BY OpenCovers
<1>6. /\ \A f : f # g => OpenIn(E \ {e}, f) = OpenIn(E, f)
      /\ e.type = "insert" => OpenIn(E \ {e}, g) = O
      /\ e.type = "begin" => OpenIn(E \ {e}, g) = O \cup {x}
      /\ e.type = "end" => OpenIn(E \ {e}, g) = O \ {x}
  BY OpenStep
<1>c. /\ Cardinality(O \cup {x}) = IF x \in O THEN n ELSE n + 1
      /\ Cardinality(O \ {x}) = IF x \in O THEN n - 1 ELSE n
      /\ IsFiniteSet(O \ {x})
  <2> HIDE DEF O, x, n
  <2> QED BY <1>4, FS_AddElement, FS_RemoveElement
<1>7. Cardinality(OpenIn(E \ {e}, g)) = Opened(e, n) /\ Opened(e, n) \in Int
  <2> HIDE DEF O, x, n
  <2>1. CASE e.type = "insert" BY <1>4, <1>6, <2>1 DEF Opened
  <2>2. CASE e.type = "begin"
    <3>1. Cardinality(O \cup {x}) = n + 1 /\ n + 1 \in Int BY <1>4, <1>5, <1>c, <2>2
    <3> QED BY <1>6, <2>2, <3>1 DEF Opened
  <2>3. CASE e.type = "end"
    <3>1. Cardinality(O \ {x}) = n - 1 /\ n - 1 \in Int BY <1>4, <1>5, <1>c, <2>3
    <3> QED BY <1>6, <2>3, <3>1 DEF Opened
  <2> QED BY <1>2, <2>1, <2>2, <2>3 DEF Kinds
<1>8. Conflicts(e, n) <=> Covered(e)
  <2> HIDE DEF O, x, n
  <2>1. CASE e.type = "end"
    <3>1. Cardinality(O \ {x}) = n - 1 BY <1>5, <1>c, <2>1
    <3>2. Cardinality(O \ {x}) = 0 <=> O \ {x} = {} BY <1>c, FS_EmptySet
    <3> QED BY <1>5, <2>1, <3>1, <3>2 DEF Conflicts
  <2>2. CASE e.type # "end"
    <3>1. O \ {x} = O BY <1>5, <2>2
    <3>2. n = 0 <=> O = {} BY <1>4, FS_EmptySet
    <3> QED BY <1>5, <2>2, <3>1, <3>2 DEF Conflicts
  <2> QED BY <2>1, <2>2
<1>9. o2 \in [TargetFiles -> Int] /\ o2[g] = Opened(e, n) /\ \A f \in TargetFiles : f # g => o2[f] = o[f]
  BY <1>3, <1>7
<1>10. \A f \in TargetFiles : o2[f] = Cardinality(OpenIn(E \ {e}, f))
  BY <1>6, <1>7, <1>9 DEF SweepRight
<1>11. \A c \in E \ {e}, d \in AllEvents \ (E \ {e}) : d.rep.file = c.rep.file => Before(d, c)
  BY DEF SweepRight
<1>12. a2 = {i \in DOMAIN errors : \A c \in AllEvents \ (E \ {e}) : c.err = i => ~Covered(c)}
  <2>1. a = {i \in DOMAIN errors : \A c \in AllEvents \ E : c.err = i => ~Covered(c)}
    BY DEF SweepRight
  <2>2. \A c : c \in AllEvents \ (E \ {e}) <=> c \in AllEvents \ E \/ c = e BY <1>1
  <2>3. a2 = IF Covered(e) THEN a \ {e.err} ELSE a BY <1>8
  <2> HIDE DEF a2
  <2> QED BY <2>1, <2>2, <2>3
<1>13. E \ {e} \subseteq AllEvents BY DEF SweepRight
<1> HIDE DEF o2, a2
<1>14. SweepRight(E \ {e}, o2, a2) BY <1>10, <1>11, <1>12, <1>13 DEF SweepRight
<1> QED BY <1>9, <1>14 DEF o2, a2

\* Nothing of this changes while the errors stay as they are.
LEMMA Carry ==
  ASSUME errors' = errors
  PROVE  /\ ErrorsOK' <=> ErrorsOK
         /\ AllEvents' = AllEvents
         /\ \A i : Size(i)' = Size(i)
         /\ \A j, q : BeginOf(j, q)' = BeginOf(j, q) /\ EndOf(j, q)' = EndOf(j, q)
         /\ \A i : Stays(i)' <=> Stays(i)
<1>1. ErrorsOK' <=> ErrorsOK BY DEF ErrorsOK
<1>2. \A i : Size(i)' = Size(i) BY DEF Size
<1>3. \A i, r, t : Event(i, r, t)' = Event(i, r, t) BY <1>2 DEF Event
<1>4. \A i, r : EventsOf(i, r)' = EventsOf(i, r) BY <1>3 DEF EventsOf
<1>5. AllEvents' = AllEvents BY <1>4 DEF AllEvents
<1>6. \A j, q : BeginOf(j, q)' = BeginOf(j, q) /\ EndOf(j, q)' = EndOf(j, q)
  BY <1>3 DEF BeginOf, EndOf
<1>7. \A r, i, q, j : Contains(r, i, q, j)' <=> Contains(r, i, q, j) BY <1>2 DEF Contains
<1>8. \A i : Stays(i)' <=> Stays(i) BY <1>7 DEF Stays
<1> QED BY <1>1, <1>2, <1>5, <1>6, <1>8

LEMMA CarrySweep ==
  ASSUME errors' = errors, NEW E, NEW o, NEW a
  PROVE  SweepRight(E, o, a)' <=> SweepRight(E, o, a)
<1>1. /\ AllEvents' = AllEvents
      /\ \A j, q : BeginOf(j, q)' = BeginOf(j, q) /\ EndOf(j, q)' = EndOf(j, q)
  BY Carry
<1>2. \A j, q, e : Covers(j, q, e)' <=> Covers(j, q, e) BY <1>1 DEF Covers
<1>3. \A e : Covered(e)' <=> Covered(e) BY <1>2 DEF Covered
<1>4. \A f : OpenIn(E, f)' = OpenIn(E, f) BY <1>1 DEF OpenIn
<1> QED BY <1>1, <1>3, <1>4 DEF SweepRight

-----------------------------------------------------------------------------
(***************************************************************************)
(* The end of the sweep.                                                   *)
(***************************************************************************)
\* Apply is what the comment announces once all events are over.
LEMMA EndOfSweep ==
  ASSUME ErrorsOK, NEW o, NEW a, SweepRight({}, o, a), NEW i \in DOMAIN errors
  PROVE  i \in a <=> Stays(i)
<1>1. i \in a <=> \A e \in AllEvents : e.err = i => ~Covered(e) BY DEF SweepRight
<1>2. ASSUME NEW e \in AllEvents, e.err = i, Covered(e) PROVE ~Stays(i)
  <2> DEFINE r == e.rep
  <2>1. e \in Events /\ r \in GetFixIt(errors[i]) /\ e \in EventsOf(i, r)
    BY <1>2, AllEventsForms
  <2>2. PICK j \in DOMAIN errors : \E q \in GetFixIt(errors[j]) : q.file = r.file /\ Covers(j, q, e)
    BY <1>2 DEF Covered
  <2>3. PICK q \in GetFixIt(errors[j]) : q.file = r.file /\ Covers(j, q, e) BY <2>2
  <2>4. Overlap(r, q) /\ ~Contains(r, i, q, j)
    <3> HIDE DEF r
    <3> QED BY <2>1, <2>3, CoveredOverlaps
  <2>5. CASE j # i BY <2>1, <2>4, <2>5 DEF Stays
  <2>6. CASE j = i
    <3>1. Apart(GetFixIt(errors[i])) BY FixTypes
    <3>2. q = r BY <2>1, <2>3, <2>4, <2>6, <3>1 DEF Apart
    <3>3. e = BeginOf(i, r) \/ e = EndOf(i, r)
      <4>1. ~IsInsertion(r) BY <2>3, <3>2 DEF Covers
      <4> QED BY <2>1, <4>1, EventForms
    <3>4. Before(e, e) BY <2>3, <2>6, <3>2, <3>3 DEF Covers
    <3> QED BY <2>1, <3>4, BeforeAsymmetric
  <2> QED BY <2>5, <2>6
<1>3. ASSUME ~Stays(i) PROVE \E e \in AllEvents : e.err = i /\ Covered(e)
  <2>1. PICK j \in DOMAIN errors \ {i} : \E r \in GetFixIt(errors[i]), q \in GetFixIt(errors[j]) :
          Overlap(r, q) /\ ~Contains(r, i, q, j)
    BY <1>3 DEF Stays
  <2>2. PICK r \in GetFixIt(errors[i]), q \in GetFixIt(errors[j]) :
          Overlap(r, q) /\ ~Contains(r, i, q, j)
    BY <2>1
  <2>3. PICK e \in EventsOf(i, r) : Covers(j, q, e) BY <2>1, <2>2, OverlapsCovered
  <2>4. e \in AllEvents /\ e.err = i /\ e.rep = r BY <2>3, InAllEvents, EventForms
  <2>5. q.file = r.file BY <2>2 DEF Overlap
  <2> QED BY <2>2, <2>3, <2>4, <2>5 DEF Covered
<1> QED BY <1>1, <1>2, <1>3

\* Two fixes that both stay do not overlap.
LEMMA StaysApart ==
  ASSUME ErrorsOK, NEW i \in DOMAIN errors, NEW j \in DOMAIN errors, i # j, Stays(i), Stays(j),
         NEW r \in GetFixIt(errors[i]), NEW q \in GetFixIt(errors[j])
  PROVE  ~Overlap(r, q)
<1> SUFFICES ASSUME Overlap(r, q) PROVE FALSE OBVIOUS
<1>1. /\ r.from \in Nat /\ r.to \in Nat /\ Size(i) \in Nat
      /\ q.from \in Nat /\ q.to \in Nat /\ Size(j) \in Nat
  BY Offsets
<1>2. Overlap(q, r) BY <1>1 DEF Overlap
<1>3. Contains(r, i, q, j) BY DEF Stays
<1>4. Contains(q, j, r, i) BY <1>2 DEF Stays
<1> QED BY <1>1, <1>3, <1>4 DEF Contains

LEMMA NothingOpen ==
  ASSUME NEW E, NEW f, \A e \in E : e.rep.file # f
  PROVE  Cardinality(OpenIn(E, f)) = 0
<1>1. OpenIn(E, f) = {} BY DEF OpenIn
<1> QED BY <1>1, FS_EmptySet

\* Nothing is over when the sweep starts.
LEMMA StartRight ==
  ASSUME NEW o, \A f \in TargetFiles : o[f] = 0
  PROVE  SweepRight(AllEvents, o, DOMAIN errors)
<1>1. ASSUME NEW f PROVE OpenIn(AllEvents, f) = {}
  <2> SUFFICES ASSUME NEW d \in OpenIn(AllEvents, f) PROVE FALSE OBVIOUS
  <2>1. d \in AllEvents /\ d.type = "end" /\ BeginOf(d.err, d.rep) \notin AllEvents BY DEF OpenIn
  <2>2. PICK i \in DOMAIN errors : \E r \in GetFixIt(errors[i]) : d \in EventsOf(i, r)
    BY <2>1 DEF AllEvents
  <2>3. PICK r \in GetFixIt(errors[i]) : d \in EventsOf(i, r) BY <2>2
  <2>4. ~IsInsertion(r) /\ d.err = i /\ d.rep = r BY <2>1, <2>3 DEF EventsOf, Event
  <2> QED BY <2>1, <2>4, InAllEvents
<1>2. \A f : Cardinality(OpenIn(AllEvents, f)) = 0 BY <1>1, FS_EmptySet
<1> QED BY <1>2 DEF SweepRight

-----------------------------------------------------------------------------
(***************************************************************************)
(* The invariant: types, and what is known of the sweep.                   *)
(***************************************************************************)
Phases == {"alias", "sweep", "report", "write", "done"}

TypeInv == /\ input \in Reported
           /\ phase \in Phases
           /\ next \in Nat \ {0}
           /\ open \in [TargetFiles -> Int]
           /\ ErrorsOK

SweepInv == /\ phase = "sweep" => SweepRight(events, open, apply)
            /\ phase # "sweep" => events = {} /\ \A f \in TargetFiles : open[f] = 0

LEMMA InputTypes ==
  ASSUME input \in Reported
  PROVE  /\ input \in Seq(Diagnostic) /\ Len(input) \in Nat /\ DOMAIN input = 1..Len(input)
         /\ \A i \in DOMAIN input :
              input[i] \in Diagnostic /\ Apart(input[i].fix) /\ Apart(input[i].note)
<1>1. input \in Seq(Diagnostic) BY ReportedAssumption
<1>2. Len(input) \in Nat /\ DOMAIN input = 1..Len(input) BY <1>1
<1>3. \A i \in 1..Len(input) : input[i] \in Diagnostic BY <1>1, ElementOfSeq
<1> QED BY <1>1, <1>2, <1>3, ReportedAssumption

LEMMA InitInv == Init => TypeInv /\ SweepInv
<1> SUFFICES ASSUME Init PROVE TypeInv /\ SweepInv OBVIOUS
<1>1. /\ input \in Reported /\ phase = "alias" /\ next = 1 /\ events = {}
      /\ open = [f \in TargetFiles |-> 0]
      /\ errors = [i \in DOMAIN input |->
                     [place |-> input[i].place, name |-> input[i].name, fix |-> input[i].fix,
                      note |-> input[i].note, aliases |-> {}, dropped |-> FALSE]]
  BY DEF Init
<1>2. /\ Len(input) \in Nat /\ DOMAIN input = 1..Len(input)
      /\ \A i \in DOMAIN input :
           input[i] \in Diagnostic /\ Apart(input[i].fix) /\ Apart(input[i].note)
  BY <1>1, InputTypes
<1>3. ErrorsOK
  <2>1. \A i \in DOMAIN input : errors[i] \in Entry BY <1>1, <1>2 DEF Entry, Diagnostic
  <2>2. errors \in Seq(Entry) BY <1>1, <1>2, <2>1, IsASeq
  <2>3. \A i \in DOMAIN errors : Apart(errors[i].fix) /\ Apart(errors[i].note) BY <1>1, <1>2
  <2> QED BY <2>2, <2>3 DEF ErrorsOK
<1>4. TypeInv BY <1>1, <1>3 DEF TypeInv, Phases
<1>5. SweepInv BY <1>1 DEF SweepInv
<1> QED BY <1>4, <1>5

LEMMA ErrorsTypes ==
  ASSUME ErrorsOK
  PROVE  /\ Len(errors) \in Nat /\ DOMAIN errors = 1..Len(errors)
         /\ \A i \in DOMAIN errors :
              errors[i] \in Entry /\ Apart(errors[i].fix) /\ Apart(errors[i].note)
<1>1. errors \in Seq(Entry) BY DEF ErrorsOK
<1>2. \A i \in 1..Len(errors) : errors[i] \in Entry BY <1>1, ElementOfSeq
<1>3. Len(errors) \in Nat /\ DOMAIN errors = 1..Len(errors) BY <1>1
<1> QED BY <1>2, <1>3 DEF ErrorsOK

\* What a merge and a conflict leave of an entry.
LEMMA ChangedEntry ==
  ASSUME NEW e \in Entry, Apart(e.fix), Apart(e.note)
  PROVE  /\ \A d \in Entry : LET m == AsAlias(e, d) IN
              /\ m \in Entry /\ Apart(m.fix) /\ Apart(m.note)
              /\ m.place = e.place /\ m.name = e.name /\ m.aliases = e.aliases \cup {d.name}
              /\ m.fix = IF d.fix = e.fix THEN e.fix ELSE {}
              /\ m.dropped = (e.dropped \/ d.fix # e.fix)
         /\ LET c == Cleared(e) IN
              /\ c \in Entry /\ Apart(c.fix) /\ Apart(c.note)
              /\ c.dropped /\ (~AnyFix => c.fix = {})
<1>1. Apart({}) BY DEF Apart
<1>2. ASSUME NEW d \in Entry
      PROVE  LET m == AsAlias(e, d) IN
              /\ m \in Entry /\ Apart(m.fix) /\ Apart(m.note)
              /\ m.place = e.place /\ m.name = e.name /\ m.aliases = e.aliases \cup {d.name}
              /\ m.fix = IF d.fix = e.fix THEN e.fix ELSE {}
              /\ m.dropped = (e.dropped \/ d.fix # e.fix)
  BY <1>1 DEF AsAlias, Entry
<1>3. LET c == Cleared(e) IN
        /\ c \in Entry /\ Apart(c.fix) /\ Apart(c.note)
        /\ c.dropped /\ (~AnyFix => c.fix = {})
  BY <1>1 DEF Cleared, Entry
<1> QED BY <1>2, <1>3

LEMMA MergedErrors ==
  ASSUME ErrorsOK, next \in Nat \ {0}, MergeAlias
  PROVE  /\ ErrorsOK'
         /\ next \in DOMAIN errors
         /\ \E i \in 1..(next - 1) :
              /\ i \in DOMAIN errors /\ errors[i].place = errors[next].place
              /\ DOMAIN errors' = 1..(Len(errors) - 1) /\ Len(errors') = Len(errors) - 1
              /\ \A k \in 1..(Len(errors) - 1) :
                   errors'[k] = IF k = i THEN AsAlias(errors[i], errors[next])
                                ELSE IF k < next THEN errors[k] ELSE errors[k + 1]
<1> DEFINE n == Len(errors)
<1>1. /\ n \in Nat /\ DOMAIN errors = 1..n
      /\ \A i \in DOMAIN errors :
           errors[i] \in Entry /\ Apart(errors[i].fix) /\ Apart(errors[i].note)
  BY ErrorsTypes
<1>2. next <= n BY DEF MergeAlias
<1>3. next \in 1..n BY <1>1, <1>2
<1>4. PICK i \in 1..(next - 1) :
        /\ errors[i].place = errors[next].place
        /\ errors' = [k \in 1..(n - 1) |->
                       IF k = i THEN AsAlias(errors[i], errors[next])
                       ELSE IF k < next THEN errors[k] ELSE errors[k + 1]]
  BY DEF MergeAlias
<1>5. i \in 1..n /\ n - 1 \in Nat BY <1>1, <1>2, <1>4
<1>6. ASSUME NEW k \in 1..(n - 1)
      PROVE  errors'[k] \in Entry /\ Apart(errors'[k].fix) /\ Apart(errors'[k].note)
  <2>1. errors'[k] = IF k = i THEN AsAlias(errors[i], errors[next])
                     ELSE IF k < next THEN errors[k] ELSE errors[k + 1]
    BY <1>4
  <2>2. k \in 1..n /\ k + 1 \in 1..n BY <1>1, <1>6
  <2>3. errors[i] \in Entry /\ Apart(errors[i].fix) /\ Apart(errors[i].note) /\ errors[next] \in Entry
    BY <1>1, <1>3, <1>5
  <2>4. CASE k = i BY <2>1, <2>3, <2>4, ChangedEntry
  <2>5. CASE k # i /\ k < next BY <1>1, <2>1, <2>2, <2>5
  <2>6. CASE k # i /\ ~(k < next) BY <1>1, <2>1, <2>2, <2>6
  <2> QED BY <2>4, <2>5, <2>6
<1>7. errors' \in Seq(Entry) /\ DOMAIN errors' = 1..(n - 1)
  <2>1. DOMAIN errors' = 1..(n - 1) BY <1>4
  <2>2. errors' = [k \in 1..(n - 1) |-> errors'[k]] BY <1>4
  <2>3. \A k \in 1..(n - 1) : errors'[k] \in Entry BY <1>6
  <2> HIDE DEF n
  <2>4. [k \in 1..(n - 1) |-> errors'[k]] \in Seq(Entry) BY <1>5, <2>3, IsASeq
  <2> QED BY <2>1, <2>2, <2>4
<1>8. Len(errors') = n - 1 BY <1>5, <1>7, LenProperties
<1>9. ErrorsOK' BY <1>6, <1>7 DEF ErrorsOK
<1> QED BY <1>1, <1>3, <1>4, <1>5, <1>7, <1>8, <1>9

LEMMA ClearedErrors ==
  ASSUME ErrorsOK, ClearConflicts
  PROVE  /\ ErrorsOK' /\ DOMAIN errors' = DOMAIN errors /\ Len(errors') = Len(errors)
         /\ \A i \in DOMAIN errors :
              errors'[i] = IF i \in apply THEN errors[i] ELSE Cleared(errors[i])
<1> DEFINE n == Len(errors)
<1>1. /\ n \in Nat /\ DOMAIN errors = 1..n
      /\ \A i \in DOMAIN errors :
           errors[i] \in Entry /\ Apart(errors[i].fix) /\ Apart(errors[i].note)
  BY ErrorsTypes
<1>2. errors' = [i \in 1..n |-> IF i \in apply THEN errors[i] ELSE Cleared(errors[i])]
  BY <1>1 DEF ClearConflicts
<1>3. \A i \in 1..n : errors'[i] = IF i \in apply THEN errors[i] ELSE Cleared(errors[i]) BY <1>2
<1>4. \A i \in 1..n : errors'[i] \in Entry /\ Apart(errors'[i].fix) /\ Apart(errors'[i].note)
  BY <1>1, <1>3, ChangedEntry
<1>5. DOMAIN errors' = 1..n /\ errors' = [i \in 1..n |-> errors'[i]] BY <1>2
<1>6. errors' \in Seq(Entry)
  <2> HIDE DEF n
  <2>1. [i \in 1..n |-> errors'[i]] \in Seq(Entry) BY <1>1, <1>4, IsASeq
  <2> QED BY <1>5, <2>1
<1>7. Len(errors') = n BY <1>1, <1>5, <1>6, LenProperties
<1>8. ErrorsOK' BY <1>4, <1>5, <1>6 DEF ErrorsOK
<1> QED BY <1>1, <1>3, <1>5, <1>7, <1>8

LEMMA NextInv == TypeInv /\ SweepInv /\ [Next]_vars => TypeInv' /\ SweepInv'
<1> SUFFICES ASSUME TypeInv, SweepInv, [Next]_vars PROVE TypeInv' /\ SweepInv' OBVIOUS
<1>1. /\ input \in Reported /\ phase \in Phases /\ next \in Nat \ {0}
      /\ open \in [TargetFiles -> Int] /\ ErrorsOK
  BY DEF TypeInv
<1>2. next + 1 \in Nat \ {0} BY <1>1
<1>3. "report" \in Phases /\ "sweep" \in Phases /\ "write" \in Phases /\ "done" \in Phases /\ 1 \in Nat \ {0}
  BY DEF Phases
<1>4. ASSUME errors' = errors, events' = events, open' = open, phase' = phase, apply' = apply,
             input' = input, next' \in Nat \ {0}
      PROVE  TypeInv' /\ SweepInv'
  <2>1. ErrorsOK' <=> ErrorsOK BY <1>4, Carry
  <2>2. SweepRight(events, open, apply)' <=> SweepRight(events', open', apply')
    BY <1>4, CarrySweep
  <2>3. TypeInv' BY <1>1, <1>4, <2>1 DEF TypeInv
  <2>4. SweepInv' BY <1>4, <2>2 DEF SweepInv
  <2> QED BY <2>3, <2>4
<1>5. ASSUME errors' = errors, events' = events, open' = open, phase # "sweep", phase' \in Phases,
             phase' # "sweep", input' = input, next' \in Nat \ {0}
      PROVE  TypeInv' /\ SweepInv'
  <2>1. ErrorsOK' <=> ErrorsOK BY <1>5, Carry
  <2>2. TypeInv' BY <1>1, <1>5, <2>1 DEF TypeInv
  <2>3. SweepInv' BY <1>5 DEF SweepInv
  <2> QED BY <2>2, <2>3
<1>6. CASE KeepUnique BY <1>2, <1>4, <1>6 DEF KeepUnique
<1>7. CASE MergeAlias
  <2>1. ErrorsOK' BY <1>1, <1>7, MergedErrors
  <2>2. /\ input' = input /\ phase' = phase /\ next' = next /\ open' = open /\ events' = events
        /\ phase = "alias"
    BY <1>7 DEF MergeAlias
  <2>3. TypeInv' BY <1>1, <2>1, <2>2 DEF TypeInv
  <2>4. SweepInv' BY <2>2 DEF SweepInv
  <2> QED BY <2>3, <2>4
<1>8. CASE StartSweep
  <2>1. /\ phase = "alias" /\ phase' = "sweep" /\ events' = AllEvents /\ apply' = DOMAIN errors
        /\ input' = input /\ next' = next /\ errors' = errors /\ open' = open
    BY <1>8 DEF StartSweep
  <2>2. SweepRight(events', open', apply')
    <3>1. \A f \in TargetFiles : open[f] = 0 BY <2>1 DEF SweepInv
    <3> QED BY <2>1, <3>1, StartRight
  <2>3. SweepRight(events, open, apply)' <=> SweepRight(events', open', apply')
    BY <2>1, CarrySweep
  <2>4. ErrorsOK' BY <1>1, <2>1, Carry
  <2>5. TypeInv' BY <1>1, <1>3, <2>1, <2>4 DEF TypeInv
  <2>6. SweepInv' BY <2>1, <2>2, <2>3 DEF SweepInv
  <2> QED BY <2>5, <2>6
<1>9. CASE Sweep
  <2>1. PICK e \in events :
          /\ \A f \in events \ {e} : f.rep.file = e.rep.file => Before(e, f)
          /\ events' = events \ {e}
          /\ open' = [open EXCEPT ![e.rep.file] = Opened(e, @)]
          /\ apply' = IF Conflicts(e, open[e.rep.file]) THEN apply \ {e.err} ELSE apply
    BY <1>9 DEF Sweep
  <2>2. phase = "sweep" /\ input' = input /\ phase' = phase /\ next' = next /\ errors' = errors
    BY <1>9 DEF Sweep
  <2>3. SweepRight(events, open, apply) BY <2>2 DEF SweepInv
  <2>4. open' \in [TargetFiles -> Int] /\ SweepRight(events', open', apply')
    BY <1>1, <2>1, <2>3, SweepStep
  <2>5. SweepRight(events, open, apply)' <=> SweepRight(events', open', apply')
    BY <2>2, CarrySweep
  <2>6. ErrorsOK' BY <1>1, <2>2, Carry
  <2>7. TypeInv' BY <1>1, <2>2, <2>4, <2>6 DEF TypeInv
  <2>8. SweepInv' BY <2>2, <2>4, <2>5 DEF SweepInv
  <2> QED BY <2>7, <2>8
<1>10. CASE ClearConflicts
  <2>1. /\ phase = "sweep" /\ events = {} /\ phase' = "report" /\ next' = 1
        /\ input' = input /\ events' = events /\ open' = open
    BY <1>10 DEF ClearConflicts
  <2>2. ErrorsOK' BY <1>1, <1>10, ClearedErrors
  <2>3. \A f \in TargetFiles : open[f] = 0
    <3>1. SweepRight(events, open, apply) BY <2>1 DEF SweepInv
    <3>2. \A f \in TargetFiles : open[f] = Cardinality(OpenIn({}, f)) BY <2>1, <3>1 DEF SweepRight
    <3> QED BY <3>2, NothingOpen
  <2>4. TypeInv' BY <1>1, <1>3, <2>1, <2>2 DEF TypeInv
  <2>5. SweepInv' BY <2>1, <2>3 DEF SweepInv
  <2> QED BY <2>4, <2>5
<1>11. CASE Report BY <1>2, <1>4, <1>11 DEF Report
<1>12. CASE StartWriting BY <1>1, <1>3, <1>5, <1>12 DEF StartWriting
<1>13. CASE SkipFile
  <2>1. phase = "write" BY <1>13 DEF SkipFile
  <2> QED BY <1>1, <1>5, <1>13, <2>1 DEF SkipFile
<1>14. CASE WriteFile BY <1>1, <1>3, <1>5, <1>14 DEF WriteFile
<1>15. CASE SumUp BY <1>1, <1>3, <1>5, <1>15 DEF SumUp
<1>16. CASE UNCHANGED vars BY <1>1, <1>4, <1>16 DEF vars
<1> QED BY <1>6, <1>7, <1>8, <1>9, <1>10, <1>11, <1>12, <1>13, <1>14, <1>15, <1>16 DEF Next

\* At every moment the counter of a file counts the intervals that are open, and an
\* error is struck from Apply exactly when one of its ends came inside an interval.
THEOREM SweepCounts == Spec => [](TypeInv /\ SweepInv)
<1>1. Init => TypeInv /\ SweepInv BY InitInv
<1>2. TypeInv /\ SweepInv /\ [Next]_vars => TypeInv' /\ SweepInv' BY NextInv
<1> QED BY <1>1, <1>2, PTL DEF Spec

LEMMA SweepAnnounced == TypeInv /\ SweepInv => SweepBalanced /\ KeepsAnnounced
<1> SUFFICES ASSUME TypeInv, SweepInv PROVE SweepBalanced /\ KeepsAnnounced OBVIOUS
<1>1. SweepBalanced
  <2> SUFFICES ASSUME NEW f \in TargetFiles, \A e \in events : e.rep.file # f PROVE open[f] = 0
    BY DEF SweepBalanced
  <2>1. phase # "sweep" => open[f] = 0 BY DEF SweepInv
  <2>2. phase = "sweep" => open[f] = Cardinality(OpenIn(events, f)) BY DEF SweepInv, SweepRight
  <2> QED BY <2>1, <2>2, NothingOpen
<1>2. KeepsAnnounced BY EndOfSweep DEF KeepsAnnounced, SweepInv, TypeInv
<1> QED BY <1>1, <1>2

\* Whatever the checks propose, with the fixes of notes or without: the counters end
\* at zero and the sweep keeps exactly the fixes that its comment announces.
THEOREM SweepKeepsAnnounced == Spec => [](SweepBalanced /\ KeepsAnnounced)
<1>1. TypeInv /\ SweepInv => SweepBalanced /\ KeepsAnnounced BY SweepAnnounced
<1> QED BY <1>1, SweepCounts, PTL

-----------------------------------------------------------------------------
(***************************************************************************)
(* What is applied.  With --fix-notes a cleared message falls back to the  *)
(* fix of its note, which the sweep did not look at: the rest is about     *)
(* runs without it.                                                        *)
(***************************************************************************)
Reporting  == {"report", "write", "done"}
Applied(n) == UNION {{[err |-> i, rep |-> r] : r \in Applicable(errors[i].fix)} : i \in 1..n}
FixesApart ==
  \A i, j \in DOMAIN errors : i # j => \A r \in errors[i].fix, q \in errors[j].fix : ~Overlap(r, q)

AppliedInv ==
  /\ \A i \in DOMAIN errors : errors[i].dropped => errors[i].fix = {}
  /\ phase \in {"alias", "sweep"} => applied = {}
  /\ phase \in Reporting => next - 1 <= Len(errors) /\ applied = Applied(next - 1) /\ FixesApart
  /\ phase = "write" => next = Len(errors) + 1

LEMMA InApplied ==
  ASSUME NEW n \in Nat, NEW a
  PROVE  a \in Applied(n) <=>
           \E i \in 1..n : \E r \in Applicable(errors[i].fix) : a = [err |-> i, rep |-> r]
BY DEF Applied

LEMMA ReportedWhole ==
  ASSUME ~AnyFix, TypeInv, AppliedInv, Report
  PROVE  next <= Len(errors) /\ applied' = Applied(next)
<1>1. next \in Nat \ {0} /\ ErrorsOK BY DEF TypeInv
<1>2. Len(errors) \in Nat /\ DOMAIN errors = 1..Len(errors) BY <1>1, ErrorsTypes
<1>3. phase = "report" /\ next <= Len(errors) BY DEF Report
<1>4. applied = Applied(next - 1) /\ FixesApart /\ next - 1 \in Nat
  BY <1>1, <1>3 DEF AppliedInv, Reporting
<1> DEFINE fix == Applicable(errors[next].fix)
<1>5. Applicable(GetFixIt(errors[next])) = fix BY DEF GetFixIt
<1>6. PICK lost \in SUBSET {r \in fix : Refused(r) /\ ~IsInsertion(r)} :
        applied' = applied \cup {[err |-> next, rep |-> r] : r \in fix \ lost}
  BY <1>5 DEF Report
<1>7. ASSUME NEW r \in fix, Refused(r), ~IsInsertion(r) PROVE FALSE
  <2>1. PICK a \in applied : Overlap(r, a.rep) BY <1>7 DEF Refused, SameInsertion
  <2>2. PICK i \in 1..(next - 1) : \E q \in Applicable(errors[i].fix) : a = [err |-> i, rep |-> q]
    BY <1>4, <2>1, InApplied
  <2>3. PICK q \in Applicable(errors[i].fix) : a = [err |-> i, rep |-> q] BY <2>2
  <2>4. i \in DOMAIN errors /\ next \in DOMAIN errors /\ i # next BY <1>1, <1>2, <1>3
  <2> QED BY <1>4, <2>1, <2>3, <2>4 DEF FixesApart, Applicable
<1>8. applied' = applied \cup {[err |-> next, rep |-> r] : r \in fix} BY <1>6, <1>7
<1>9. ASSUME NEW a PROVE a \in applied' <=> a \in Applied(next)
  <2>1. a \in Applied(next) <=> \E i \in 1..next : \E r \in Applicable(errors[i].fix) : a = [err |-> i, rep |-> r]
    BY <1>1, InApplied
  <2>2. a \in applied <=> \E i \in 1..(next - 1) : \E r \in Applicable(errors[i].fix) : a = [err |-> i, rep |-> r]
    BY <1>4, InApplied
  <2>3. \A i : i \in 1..next <=> i \in 1..(next - 1) \/ i = next BY <1>1
  <2> QED BY <1>8, <2>1, <2>2, <2>3
<1> HIDE DEF Applied
<1>10. applied' = Applied(next) BY <1>9, <1>8 DEF Applied
<1> QED BY <1>3, <1>10

LEMMA NextApplied ==
  ASSUME ~AnyFix, TypeInv, SweepInv, AppliedInv, [Next]_vars
  PROVE  AppliedInv'
<1>1. phase \in Phases /\ next \in Nat \ {0} /\ ErrorsOK BY DEF TypeInv
<1>2. /\ Len(errors) \in Nat /\ DOMAIN errors = 1..Len(errors)
      /\ \A i \in DOMAIN errors :
           errors[i] \in Entry /\ Apart(errors[i].fix) /\ Apart(errors[i].note)
  BY <1>1, ErrorsTypes
<1>3. ASSUME errors' = errors
      PROVE  (\A n : Applied(n)' = Applied(n)) /\ (FixesApart' <=> FixesApart)
  BY <1>3 DEF Applied, FixesApart
<1>4. ASSUME errors' = errors, applied' = applied, phase \in {"alias", "sweep"},
             phase' \in {"alias", "sweep"}
      PROVE  AppliedInv'
  BY <1>4 DEF AppliedInv, Reporting
<1>5. ASSUME errors' = errors, applied' = applied, next' = next, phase \in Reporting,
             phase' \in Reporting, phase' = "write" => phase = "write" \/ next > Len(errors)
      PROVE  AppliedInv'
  <2>1. next - 1 <= Len(errors) /\ applied = Applied(next - 1) /\ FixesApart
    BY <1>5 DEF AppliedInv
  <2>2. Applied(next - 1)' = Applied(next - 1)
    <3> DEFINE n == next - 1
    <3>1. n' = n BY <1>5
    <3>2. \A m : Applied(m)' = Applied(m) BY <1>3, <1>5
    <3> HIDE DEF n
    <3>3. Applied(n)' = Applied(n) BY <3>1, <3>2
    <3> QED BY <3>3 DEF n
  <2>3. (applied = Applied(next - 1))' /\ FixesApart' BY <1>3, <1>5, <2>1, <2>2
  <2>4. phase' = "write" => next = Len(errors) + 1 BY <1>1, <1>2, <1>5, <2>1 DEF AppliedInv
  <2>5. phase' \notin {"alias", "sweep"} BY <1>5 DEF Reporting
  <2> QED BY <1>5, <2>1, <2>3, <2>4, <2>5 DEF AppliedInv
<1>6. CASE KeepUnique BY <1>4, <1>6 DEF KeepUnique
<1>7. CASE MergeAlias
  <2>1. phase = "alias" /\ phase' = phase /\ applied' = applied BY <1>7 DEF MergeAlias
  <2>2. PICK i \in 1..(next - 1) :
              /\ i \in DOMAIN errors
              /\ DOMAIN errors' = 1..(Len(errors) - 1)
              /\ \A k \in 1..(Len(errors) - 1) :
                   errors'[k] = IF k = i THEN AsAlias(errors[i], errors[next])
                                ELSE IF k < next THEN errors[k] ELSE errors[k + 1]
    BY <1>1, <1>7, MergedErrors
  <2>3. next \in DOMAIN errors BY <1>1, <1>7, MergedErrors
  <2>4. \A k \in DOMAIN errors : errors[k].dropped => errors[k].fix = {} BY DEF AppliedInv
  <2>5. ASSUME NEW k \in 1..(Len(errors) - 1), errors'[k].dropped PROVE errors'[k].fix = {}
    <3>1. errors'[k] = IF k = i THEN AsAlias(errors[i], errors[next])
                       ELSE IF k < next THEN errors[k] ELSE errors[k + 1]
      BY <2>2
    <3>2. k \in DOMAIN errors /\ k + 1 \in DOMAIN errors BY <1>2
    <3>3. CASE k = i
      <4>1. LET m == AsAlias(errors[i], errors[next]) IN
              /\ m.fix = IF errors[next].fix = errors[i].fix THEN errors[i].fix ELSE {}
              /\ m.dropped = (errors[i].dropped \/ errors[next].fix # errors[i].fix)
        BY <1>2, <2>2, <2>3, ChangedEntry
      <4> QED BY <2>2, <2>4, <2>5, <3>1, <3>3, <4>1
    <3>4. CASE k # i BY <2>4, <2>5, <3>1, <3>2, <3>4
    <3> QED BY <3>3, <3>4
  <2> QED BY <2>1, <2>2, <2>5 DEF AppliedInv, Reporting
<1>8. CASE StartSweep BY <1>4, <1>8 DEF StartSweep
<1>9. CASE Sweep BY <1>4, <1>9 DEF Sweep
<1>10. CASE ClearConflicts
  <2>1. /\ phase = "sweep" /\ events = {} /\ phase' = "report" /\ next' = 1 /\ applied' = applied
    BY <1>10 DEF ClearConflicts
  <2>2. /\ DOMAIN errors' = DOMAIN errors /\ Len(errors') = Len(errors)
        /\ \A i \in DOMAIN errors :
             errors'[i] = IF i \in apply THEN errors[i] ELSE Cleared(errors[i])
    BY <1>1, <1>10, ClearedErrors
  <2>3. \A i \in DOMAIN errors : i \in apply <=> Stays(i)
    BY <2>1, SweepAnnounced DEF KeepsAnnounced
  <2>4. ASSUME NEW i \in DOMAIN errors, i \notin apply PROVE errors'[i].fix = {}
    BY <1>2, <2>2, <2>4, ChangedEntry
  <2>5. \A i \in DOMAIN errors' : errors'[i].dropped => errors'[i].fix = {}
    BY <2>2, <2>4 DEF AppliedInv
  <2>6. FixesApart'
    <3> SUFFICES ASSUME NEW i \in DOMAIN errors, NEW j \in DOMAIN errors, i # j,
                        NEW r \in errors'[i].fix, NEW q \in errors'[j].fix
                 PROVE  ~Overlap(r, q)
      BY <2>2 DEF FixesApart
    <3>1. i \in apply /\ j \in apply BY <2>4
    <3>2. Stays(i) /\ Stays(j) BY <2>3, <3>1
    <3>3. r \in GetFixIt(errors[i]) /\ q \in GetFixIt(errors[j]) BY <2>2, <3>1 DEF GetFixIt
    <3> QED BY <1>1, <3>2, <3>3, StaysApart
  <2>7. applied' = {} BY <2>1 DEF AppliedInv
  <2>8. Applied(0)' = {}
    <3>1. 1..0 = {} OBVIOUS
    <3> QED BY <3>1 DEF Applied
  <2>9. next' - 1 = 0 /\ 0 <= Len(errors') BY <1>2, <2>1, <2>2
  <2> QED BY <2>1, <2>5, <2>6, <2>7, <2>8, <2>9 DEF AppliedInv, Reporting
<1>11. CASE Report
  <2>1. next <= Len(errors) /\ applied' = Applied(next) BY <1>11, ReportedWhole
  <2>2. phase = "report" /\ phase' = phase /\ errors' = errors /\ next' = next + 1
    BY <1>11 DEF Report
  <2>3. next' - 1 = next BY <1>1, <2>2
  <2>4. (applied = Applied(next - 1))'
    <3> DEFINE n == next - 1
    <3>1. n' = next BY <2>3
    <3>2. \A m : Applied(m)' = Applied(m) BY <1>3, <2>2
    <3> HIDE DEF n
    <3>3. Applied(n)' = Applied(next) BY <3>1, <3>2
    <3>4. (applied = Applied(n))' BY <2>1, <3>3
    <3> QED BY <3>4 DEF n
  <2>5. FixesApart' BY <1>3, <2>2 DEF AppliedInv, Reporting
  <2> QED BY <2>1, <2>2, <2>3, <2>4, <2>5 DEF AppliedInv, Reporting
<1>12. CASE StartWriting BY <1>5, <1>12 DEF StartWriting, Reporting
<1>13. CASE SkipFile BY <1>5, <1>13 DEF SkipFile, Reporting
<1>14. CASE WriteFile BY <1>5, <1>14 DEF WriteFile, Reporting
<1>15. CASE SumUp BY <1>5, <1>15 DEF SumUp, Reporting
<1>16. CASE UNCHANGED vars
  <2>1. errors' = errors /\ applied' = applied /\ next' = next /\ phase' = phase BY <1>16 DEF vars
  <2>2. phase \in {"alias", "sweep"} \/ phase \in Reporting BY <1>1 DEF Phases, Reporting
  <2> QED BY <1>4, <1>5, <2>1, <2>2
<1> QED BY <1>6, <1>7, <1>8, <1>9, <1>10, <1>11, <1>12, <1>13, <1>14, <1>15, <1>16 DEF Next

LEMMA InitApplied == Init => AppliedInv
<1> SUFFICES ASSUME Init PROVE AppliedInv OBVIOUS
<1>1. \A i \in DOMAIN errors : ~errors[i].dropped BY DEF Init
<1>2. phase = "alias" /\ applied = {} BY DEF Init
<1> QED BY <1>1, <1>2 DEF AppliedInv, Reporting

LEMMA AppliedInvariant ==
  ASSUME ~AnyFix
  PROVE  Spec => []AppliedInv
<1>1. Init => AppliedInv BY InitApplied
<1>2. TypeInv /\ SweepInv /\ AppliedInv /\ [Next]_vars => AppliedInv' BY NextApplied
<1>3. TypeInv /\ SweepInv /\ [Next]_vars => TypeInv' /\ SweepInv' BY NextInv
<1> QED BY <1>1, <1>2, <1>3, SweepCounts, PTL DEF Spec

LEMMA AppliedApart ==
  ASSUME ~AnyFix, TypeInv, AppliedInv
  PROVE  NoOverlap /\ WholeFixes
<1>1. phase \in Phases /\ next \in Nat \ {0} /\ next - 1 \in Nat /\ ErrorsOK BY DEF TypeInv
<1>2. Len(errors) \in Nat /\ DOMAIN errors = 1..Len(errors) BY <1>1, ErrorsTypes
<1>3. ASSUME NEW a \in applied
      PROVE  /\ a.err \in DOMAIN errors /\ a.rep \in errors[a.err].fix /\ a.rep \in Applicable(errors[a.err].fix)
             /\ a = [err |-> a.err, rep |-> a.rep] /\ FixesApart
  <2>1. phase \in Reporting BY <1>1 DEF AppliedInv, Phases, Reporting
  <2>2. next - 1 <= Len(errors) /\ applied = Applied(next - 1) /\ FixesApart
    BY <2>1 DEF AppliedInv
  <2>3. PICK i \in 1..(next - 1) : \E r \in Applicable(errors[i].fix) : a = [err |-> i, rep |-> r]
    BY <1>1, <2>2, InApplied
  <2>4. i \in DOMAIN errors BY <1>1, <1>2, <2>2
  <2>5. PICK r \in Applicable(errors[i].fix) : a = [err |-> i, rep |-> r] BY <2>3
  <2>6. a.err = i /\ a.rep = r BY <2>5
  <2> QED BY <2>2, <2>4, <2>5, <2>6 DEF Applicable
<1>4. NoOverlap BY <1>3 DEF NoOverlap, FixesApart
<1>5. ASSUME phase = "write", NEW i \in DOMAIN errors
      PROVE  {a.rep : a \in {b \in applied : b.err = i}} = Applicable(GetFixIt(errors[i]))
  <2>1. applied = Applied(Len(errors))
    <3>1. applied = Applied(next - 1) /\ next = Len(errors) + 1 BY <1>5 DEF AppliedInv, Reporting
    <3>2. next - 1 = Len(errors) BY <1>2, <3>1
    <3> QED BY <3>1, <3>2
  <2>2. GetFixIt(errors[i]) = errors[i].fix BY DEF GetFixIt
  <2>3. \A r \in Applicable(errors[i].fix) : [err |-> i, rep |-> r] \in applied BY <1>2, <2>1, InApplied
  <2>4. \A a \in applied : a.err = i => a.rep \in Applicable(errors[i].fix) BY <1>3
  <2>5. ASSUME NEW r \in Applicable(errors[i].fix) PROVE \E b \in {b \in applied : b.err = i} : b.rep = r
    <3> DEFINE b == [err |-> i, rep |-> r]
    <3>1. b \in applied /\ b.err = i /\ b.rep = r BY <2>3
    <3> QED BY <3>1
  <2> QED BY <2>2, <2>4, <2>5
<1>6. \A a \in applied : ~errors[a.err].dropped BY <1>3 DEF AppliedInv
<1>7. WholeFixes BY <1>5, <1>6 DEF WholeFixes
<1> QED BY <1>4, <1>7

\* Without --fix-notes the sweep is exact: what it keeps is what its comment announces,
\* and what is applied in the end does not overlap.
THEOREM SweepIsExact ==
  ASSUME ~AnyFix
  PROVE  Spec => []SweepExact
<1>1. TypeInv /\ SweepInv /\ AppliedInv => SweepExact
  BY SweepAnnounced, AppliedApart DEF SweepExact
<1> QED BY <1>1, SweepCounts, AppliedInvariant, PTL

-----------------------------------------------------------------------------
(***************************************************************************)
(* The alias loop.  Lost is how many diagnostics it erased so far, Read    *)
(* how many of the input it has looked at.                                 *)
(***************************************************************************)
Lost == Len(input) - Len(errors)
Read == next - 1 + Lost

\* The part of the list not looked at is the end of the input.
RestIsInput ==
  /\ Lost \in Nat /\ next - 1 <= Len(errors)
  /\ \A k \in DOMAIN errors : k >= next =>
       /\ errors[k].place = input[k + Lost].place /\ errors[k].name = input[k + Lost].name
       /\ errors[k].fix = input[k + Lost].fix
\* The kept entries are at different places, and each diagnostic looked at is with one.
OnePerPlace ==
  \A k, l \in 1..(next - 1) : k # l => errors[k].place # errors[l].place
NoneLost(n, m) ==
  \A i \in 1..n : \E k \in 1..m :
    /\ errors[k].place = input[i].place
    /\ input[i].name \in {errors[k].name} \cup errors[k].aliases
\* A kept entry has the fix that all at its place have, or they differ and it has none.
FixOfAll(k, n) ==
  /\ \E i \in 1..n : input[i].place = errors[k].place
  /\ \/ \A i \in 1..n : input[i].place = errors[k].place => input[i].fix = errors[k].fix
     \/ /\ errors[k].fix = {}
        /\ \E i, j \in 1..n : /\ input[i].place = errors[k].place
                              /\ input[j].place = errors[k].place
                              /\ input[i].fix # input[j].fix

AliasInv ==
  /\ phase = "alias" => /\ RestIsInput /\ OnePerPlace /\ NoneLost(Read, next - 1)
                        /\ \A k \in 1..(next - 1) : FixOfAll(k, Read)
  /\ phase = "sweep" => /\ NoneLost(Len(input), Len(errors))
                        /\ \A k \in DOMAIN errors : FixOfAll(k, Len(input))

LEMMA InitAlias == Init => AliasInv
<1> SUFFICES ASSUME Init PROVE AliasInv OBVIOUS
<1>1. /\ input \in Reported /\ phase = "alias" /\ next = 1
      /\ errors = [i \in DOMAIN input |->
                     [place |-> input[i].place, name |-> input[i].name, fix |-> input[i].fix,
                      note |-> input[i].note, aliases |-> {}, dropped |-> FALSE]]
  BY DEF Init
<1>2. Len(input) \in Nat /\ DOMAIN input = 1..Len(input) BY <1>1, InputTypes
<1>3. ErrorsOK BY InitInv DEF TypeInv
<1>4. Len(errors) \in Nat /\ DOMAIN errors = 1..Len(errors) BY <1>3, ErrorsTypes
<1>5. DOMAIN errors = DOMAIN input BY <1>1
<1>6. Len(errors) = Len(input)
  <2> DEFINE n == Len(input)
  <2>1. n \in Nat /\ DOMAIN errors = 1..n BY <1>2, <1>5
  <2>2. errors \in Seq(Entry) BY <1>3 DEF ErrorsOK
  <2> HIDE DEF n
  <2>3. Len(errors) = n BY <2>1, <2>2, LenProperties
  <2> QED BY <2>3 DEF n
<1>7. Lost = 0 /\ Read = 0 /\ next - 1 = 0 BY <1>1, <1>2, <1>6 DEF Lost, Read
<1>8. 1..0 = {} OBVIOUS
<1>9. RestIsInput
  <2>1. \A k \in DOMAIN errors : k + 0 = k BY <1>4
  <2>2. \A k \in DOMAIN errors : /\ errors[k].place = input[k].place
                                 /\ errors[k].name = input[k].name /\ errors[k].fix = input[k].fix
    BY <1>1
  <2> QED BY <1>4, <1>7, <2>1, <2>2 DEF RestIsInput
<1>10. OnePerPlace /\ NoneLost(Read, next - 1) /\ \A k \in 1..(next - 1) : FixOfAll(k, Read)
  BY <1>7, <1>8 DEF OnePerPlace, NoneLost
<1> QED BY <1>1, <1>9, <1>10 DEF AliasInv

\* The next diagnostic is that of the input.
LEMMA NextOfInput ==
  ASSUME TypeInv, AliasInv, phase = "alias", next <= Len(errors)
  PROVE  /\ next \in DOMAIN errors /\ next - 1 \in Nat /\ next \in Nat
         /\ Lost \in Nat /\ Read \in Nat /\ Read + 1 = next + Lost /\ Read + 1 \in Nat
         /\ errors[next].place = input[Read + 1].place /\ errors[next].name = input[Read + 1].name
         /\ errors[next].fix = input[Read + 1].fix
<1>1. next \in Nat \ {0} /\ ErrorsOK BY DEF TypeInv
<1>2. Len(errors) \in Nat /\ DOMAIN errors = 1..Len(errors) BY <1>1, ErrorsTypes
<1>3. RestIsInput BY DEF AliasInv
<1>4. Lost \in Nat BY <1>3 DEF RestIsInput
<1>5. Read + 1 = next + Lost /\ Read \in Nat BY <1>1, <1>4 DEF Read
<1>6. next \in DOMAIN errors /\ next >= next BY <1>1, <1>2
<1> QED BY <1>1, <1>3, <1>4, <1>5, <1>6 DEF RestIsInput

LEMMA CarryAlias ==
  ASSUME errors' = errors, input' = input
  PROVE  /\ Lost' = Lost
         /\ \A n, m : NoneLost(n, m)' <=> NoneLost(n, m)
         /\ \A k, n : FixOfAll(k, n)' <=> FixOfAll(k, n)
BY DEF Lost, NoneLost, FixOfAll

LEMMA KeptAlias ==
  ASSUME TypeInv, AliasInv, KeepUnique
  PROVE  AliasInv'
<1> DEFINE N == Read + 1
<1>1. phase = "alias" /\ phase' = phase /\ next <= Len(errors) BY DEF KeepUnique
<1>2. errors' = errors /\ input' = input /\ next' = next + 1 BY DEF KeepUnique
<1>3. \A i \in 1..(next - 1) : errors[i].place # errors[next].place BY DEF KeepUnique
<1>4. /\ next \in DOMAIN errors /\ next - 1 \in Nat /\ next \in Nat
      /\ Lost \in Nat /\ Read \in Nat /\ N = next + Lost /\ N \in Nat
      /\ errors[next].place = input[N].place /\ errors[next].name = input[N].name
      /\ errors[next].fix = input[N].fix
  BY <1>1, NextOfInput
<1>5. RestIsInput /\ OnePerPlace /\ NoneLost(Read, next - 1)
      /\ \A k \in 1..(next - 1) : FixOfAll(k, Read)
  BY <1>1 DEF AliasInv
<1>6. Lost' = Lost /\ next' - 1 = next /\ Read' = N
  <2>1. Lost' = Lost /\ next' - 1 = next BY <1>2, <1>4, CarryAlias
  <2> QED BY <1>4, <2>1 DEF Read
<1> HIDE DEF N
<1>7. \A i : i \in 1..N <=> i \in 1..Read \/ i = N BY <1>4 DEF N
<1>8. \A k : k \in 1..next <=> k \in 1..(next - 1) \/ k = next BY <1>4
<1>9. next \in 1..next /\ N \in 1..N
  <2>1. next >= 1 /\ N >= 1 BY <1>4 DEF N
  <2> QED BY <1>4, <2>1
<1>10. RestIsInput'
  <2>1. \A k \in DOMAIN errors : k >= next + 1 => k >= next BY <1>4, ErrorsTypes DEF TypeInv
  <2> QED BY <1>1, <1>2, <1>4, <1>5, <1>6, <2>1 DEF RestIsInput
<1>11. OnePerPlace'
  <2>1. \A k, l \in 1..next : k # l => errors[k].place # errors[l].place
    BY <1>3, <1>5, <1>8 DEF OnePerPlace
  <2> QED BY <1>2, <1>6, <2>1 DEF OnePerPlace
<1>12. NoneLost(N, next)
  <2> SUFFICES ASSUME NEW i \in 1..N
               PROVE  \E k \in 1..next :
                        /\ errors[k].place = input[i].place
                        /\ input[i].name \in {errors[k].name} \cup errors[k].aliases
    BY DEF NoneLost
  <2>1. CASE i \in 1..Read BY <1>5, <1>8, <2>1 DEF NoneLost
  <2>2. CASE i = N BY <1>4, <1>9, <2>2
  <2> QED BY <1>7, <2>1, <2>2
<1>13. ASSUME NEW k \in 1..next PROVE FixOfAll(k, N)
  <2>1. CASE k \in 1..(next - 1)
    <3>1. FixOfAll(k, Read) /\ errors[k].place # input[N].place BY <1>3, <1>4, <1>5, <2>1
    <3> QED BY <1>7, <3>1 DEF FixOfAll
  <2>2. CASE k = next
    <3>1. ASSUME NEW i \in 1..Read PROVE input[i].place # errors[next].place
      <4>1. PICK l \in 1..(next - 1) : errors[l].place = input[i].place BY <1>5 DEF NoneLost
      <4> QED BY <1>3, <4>1
    <3>2. \A i \in 1..N : input[i].place = errors[next].place => i = N BY <1>7, <3>1
    <3> QED BY <1>4, <1>9, <2>2, <3>2 DEF FixOfAll
  <2> QED BY <1>8, <2>1, <2>2
<1>14. NoneLost(Read, next - 1)' /\ (\A k \in 1..(next - 1) : FixOfAll(k, Read))'
  BY <1>2, <1>6, <1>12, <1>13 DEF NoneLost, FixOfAll
<1> QED BY <1>1, <1>10, <1>11, <1>14 DEF AliasInv

LEMMA MergedAlias ==
  ASSUME TypeInv, AliasInv, MergeAlias
  PROVE  AliasInv'
<1> DEFINE N == Read + 1
           L == Len(errors)
<1>1. phase = "alias" /\ phase' = phase /\ next <= L /\ input' = input /\ next' = next
  BY DEF MergeAlias
<1>2. /\ next \in DOMAIN errors /\ next - 1 \in Nat /\ next \in Nat
      /\ Lost \in Nat /\ Read \in Nat /\ N = next + Lost /\ N \in Nat
      /\ errors[next].place = input[N].place /\ errors[next].name = input[N].name
      /\ errors[next].fix = input[N].fix
  BY <1>1, NextOfInput
<1>3. RestIsInput /\ OnePerPlace /\ NoneLost(Read, next - 1)
      /\ \A k \in 1..(next - 1) : FixOfAll(k, Read)
  BY <1>1 DEF AliasInv
<1>4. ErrorsOK /\ next \in Nat \ {0} BY DEF TypeInv
<1>5. PICK i0 \in 1..(next - 1) :
        /\ i0 \in DOMAIN errors /\ errors[i0].place = errors[next].place
        /\ DOMAIN errors' = 1..(L - 1) /\ Len(errors') = L - 1
        /\ \A k \in 1..(L - 1) :
             errors'[k] = IF k = i0 THEN AsAlias(errors[i0], errors[next])
                          ELSE IF k < next THEN errors[k] ELSE errors[k + 1]
  BY <1>4, MergedErrors
<1>6. /\ L \in Nat /\ DOMAIN errors = 1..L
      /\ \A k \in DOMAIN errors :
           errors[k] \in Entry /\ Apart(errors[k].fix) /\ Apart(errors[k].note)
  BY <1>4, ErrorsTypes
<1>7. LET m == AsAlias(errors[i0], errors[next]) IN
        /\ m.place = errors[i0].place /\ m.name = errors[i0].name
        /\ m.aliases = errors[i0].aliases \cup {errors[next].name}
        /\ m.fix = IF errors[next].fix = errors[i0].fix THEN errors[i0].fix ELSE {}
  BY <1>2, <1>5, <1>6, ChangedEntry
<1>8. Lost' = Lost + 1 /\ Read' = N
  <2>1. Len(input) \in Nat BY InputTypes DEF TypeInv
  <2>2. Lost' = Len(input) - (L - 1) BY <1>1, <1>5 DEF Lost
  <2>3. Lost' = Lost + 1 BY <1>6, <2>1, <2>2 DEF Lost
  <2> QED BY <1>1, <1>2, <2>3 DEF Read
<1>9. /\ \A i : i \in 1..N <=> i \in 1..Read \/ i = N
      /\ N \in 1..N
  BY <1>2
<1>10. \A k \in 1..(next - 1) : k \in 1..(L - 1) /\ k < next /\ k \in DOMAIN errors
  BY <1>1, <1>2, <1>6
<1> HIDE DEF N, L
\* What becomes of the entries kept so far.
<1>11. ASSUME NEW k \in 1..(next - 1)
       PROVE  /\ errors'[k].place = errors[k].place /\ errors'[k].name = errors[k].name
              /\ k # i0 => errors'[k] = errors[k]
              /\ k = i0 => /\ errors'[k].aliases = errors[k].aliases \cup {errors[next].name}
                           /\ errors'[k].fix = IF errors[next].fix = errors[k].fix
                                               THEN errors[k].fix ELSE {}
  BY <1>5, <1>7, <1>10
<1>12. RestIsInput'
  <2>1. ASSUME NEW k \in 1..(L - 1), k >= next
        PROVE  /\ errors'[k].place = input[k + Lost'].place
               /\ errors'[k].name = input[k + Lost'].name /\ errors'[k].fix = input[k + Lost'].fix
    <3>1. errors'[k] = errors[k + 1]
      <4>1. k # i0 /\ ~(k < next) BY <1>2, <2>1
      <4> QED BY <1>5, <4>1
    <3>2. k + 1 \in DOMAIN errors /\ k + 1 >= next /\ (k + 1) + Lost = k + (Lost + 1)
      BY <1>2, <1>6, <2>1
    <3> QED BY <1>3, <1>8, <3>1, <3>2 DEF RestIsInput
  <2>2. next - 1 <= L - 1 /\ Lost + 1 \in Nat BY <1>1, <1>2, <1>6
  <2> QED BY <1>1, <1>5, <1>8, <2>1, <2>2 DEF RestIsInput
<1>13. OnePerPlace'
  <2>1. \A k, l \in 1..(next - 1) : k # l => errors'[k].place # errors'[l].place
    BY <1>3, <1>11 DEF OnePerPlace
  <2> QED BY <1>1, <2>1 DEF OnePerPlace
<1>14. ASSUME NEW i \in 1..N
       PROVE  \E k \in 1..(next - 1) :
                /\ errors'[k].place = input[i].place
                /\ input[i].name \in {errors'[k].name} \cup errors'[k].aliases
  <2>1. CASE i \in 1..Read
    <3>1. PICK k \in 1..(next - 1) :
            /\ errors[k].place = input[i].place
            /\ input[i].name \in {errors[k].name} \cup errors[k].aliases
      BY <1>3, <2>1 DEF NoneLost
    <3> QED BY <1>11, <3>1
  <2>2. CASE i = N BY <1>2, <1>5, <1>11, <2>2
  <2> QED BY <1>9, <2>1, <2>2
<1>15. ASSUME NEW k \in 1..(next - 1)
       PROVE  /\ \E i \in 1..N : input[i].place = errors'[k].place
              /\ \/ \A i \in 1..N : input[i].place = errors'[k].place => input[i].fix = errors'[k].fix
                 \/ /\ errors'[k].fix = {}
                    /\ \E i, j \in 1..N : /\ input[i].place = errors'[k].place
                                          /\ input[j].place = errors'[k].place
                                          /\ input[i].fix # input[j].fix
  <2>1. FixOfAll(k, Read) BY <1>3
  <2>2. CASE k # i0
    <3>1. errors[k].place # input[N].place BY <1>2, <1>3, <1>5, <2>2 DEF OnePerPlace
    <3>2. errors'[k] = errors[k] BY <1>11, <2>2
    <3> QED BY <1>9, <2>1, <3>1, <3>2 DEF FixOfAll
  <2>3. CASE k = i0
    <3>1. errors'[k].place = errors[k].place /\ errors[k].place = input[N].place
      BY <1>2, <1>5, <1>11, <2>3
    <3>2. errors'[k].fix = IF input[N].fix = errors[k].fix THEN errors[k].fix ELSE {}
      BY <1>2, <1>11, <2>3
    <3>3. PICK i \in 1..Read : input[i].place = errors[k].place BY <2>1 DEF FixOfAll
    <3>4. CASE \A j \in 1..Read : input[j].place = errors[k].place => input[j].fix = errors[k].fix
      <4>1. CASE input[N].fix = errors[k].fix BY <1>9, <3>1, <3>2, <3>4, <4>1
      <4>2. CASE input[N].fix # errors[k].fix
        <5>1. input[i].fix # input[N].fix BY <3>3, <3>4, <4>2
        <5> QED BY <1>9, <3>1, <3>2, <3>3, <4>2, <5>1
      <4> QED BY <4>1, <4>2
    <3>5. CASE /\ errors[k].fix = {}
               /\ \E j, l \in 1..Read : /\ input[j].place = errors[k].place
                                        /\ input[l].place = errors[k].place
                                        /\ input[j].fix # input[l].fix
      BY <1>9, <3>1, <3>2, <3>3, <3>5
    <3> QED BY <2>1, <3>4, <3>5 DEF FixOfAll
  <2> QED BY <2>2, <2>3
<1>16. NoneLost(Read, next - 1)' BY <1>1, <1>8, <1>14 DEF NoneLost
<1>17. (\A k \in 1..(next - 1) : FixOfAll(k, Read))' BY <1>1, <1>8, <1>15 DEF FixOfAll
<1> QED BY <1>1, <1>12, <1>13, <1>16, <1>17 DEF AliasInv

LEMMA NextAlias ==
  ASSUME TypeInv, AliasInv, [Next]_vars
  PROVE  AliasInv'
<1>1. next \in Nat \ {0} /\ ErrorsOK /\ input \in Reported BY DEF TypeInv
<1>2. Len(errors) \in Nat /\ DOMAIN errors = 1..Len(errors) BY <1>1, ErrorsTypes
<1>3. Len(input) \in Nat BY <1>1, InputTypes
<1>4. ASSUME phase' \notin {"alias", "sweep"} PROVE AliasInv' BY <1>4 DEF AliasInv
<1>5. ASSUME phase' = "sweep", errors' = errors, input' = input,
             NoneLost(Len(input), Len(errors)), \A k \in DOMAIN errors : FixOfAll(k, Len(input))
      PROVE  AliasInv'
  <2>1. NoneLost(Len(input), Len(errors))' BY <1>5 DEF NoneLost
  <2>2. (\A k \in DOMAIN errors : FixOfAll(k, Len(input)))' BY <1>5 DEF FixOfAll
  <2> QED BY <1>5, <2>1, <2>2 DEF AliasInv
<1>6. CASE StartSweep
  <2>1. /\ phase = "alias" /\ next > Len(errors) /\ phase' = "sweep" /\ errors' = errors
        /\ input' = input
    BY <1>6 DEF StartSweep
  <2>2. /\ RestIsInput /\ NoneLost(Read, next - 1)
        /\ \A k \in 1..(next - 1) : FixOfAll(k, Read)
    BY <2>1 DEF AliasInv
  <2>3. next - 1 = Len(errors) BY <1>1, <1>2, <2>1, <2>2 DEF RestIsInput
  <2>4. Read = Len(input) BY <1>2, <1>3, <2>3 DEF Read, Lost
  <2> QED BY <1>2, <1>5, <2>1, <2>2, <2>3, <2>4
<1>7. CASE Sweep
  <2>1. phase = "sweep" /\ phase' = phase /\ errors' = errors /\ input' = input
    BY <1>7 DEF Sweep
  <2> QED BY <1>5, <2>1 DEF AliasInv
<1>8. CASE KeepUnique BY <1>8, KeptAlias
<1>9. CASE MergeAlias BY <1>9, MergedAlias
<1>10. CASE ClearConflicts BY <1>4, <1>10 DEF ClearConflicts
<1>11. CASE Report BY <1>4, <1>11 DEF Report
<1>12. CASE StartWriting BY <1>4, <1>12 DEF StartWriting
<1>13. CASE SkipFile BY <1>4, <1>13 DEF SkipFile
<1>14. CASE WriteFile BY <1>4, <1>14 DEF WriteFile
<1>15. CASE SumUp BY <1>4, <1>15 DEF SumUp
<1>16. CASE UNCHANGED vars
  <2>1. phase' = phase /\ next' = next /\ errors' = errors /\ input' = input BY <1>16 DEF vars
  <2>2. CASE phase = "sweep" BY <1>5, <2>1, <2>2 DEF AliasInv
  <2>3. CASE phase = "alias"
    <3>1. RestIsInput /\ OnePerPlace /\ NoneLost(Read, next - 1)
          /\ \A k \in 1..(next - 1) : FixOfAll(k, Read)
      BY <2>3 DEF AliasInv
    <3>2. Lost' = Lost /\ Read' = Read BY <2>1 DEF Lost, Read
    <3>3. RestIsInput' /\ OnePerPlace' BY <2>1, <3>1, <3>2 DEF RestIsInput, OnePerPlace
    <3>4. NoneLost(Read, next - 1)' /\ (\A k \in 1..(next - 1) : FixOfAll(k, Read))'
      BY <2>1, <3>1, <3>2 DEF NoneLost, FixOfAll
    <3> QED BY <2>1, <2>3, <3>3, <3>4 DEF AliasInv
  <2> QED BY <1>4, <2>1, <2>2, <2>3
<1> QED BY <1>6, <1>7, <1>8, <1>9, <1>10, <1>11, <1>12, <1>13, <1>14, <1>15, <1>16 DEF Next

LEMMA MergeAgrees == TypeInv /\ AliasInv => AliasesAgree
<1> SUFFICES ASSUME TypeInv, AliasInv, phase = "sweep", NEW i \in DOMAIN input
             PROVE  \E k \in DOMAIN errors :
                      /\ errors[k].place = input[i].place
                      /\ input[i].name \in {errors[k].name} \cup errors[k].aliases
                      /\ errors[k].fix = IF Cardinality(Suggested(input[i].place)) = 1
                                         THEN input[i].fix ELSE {}
  BY DEF AliasesAgree
<1>1. DOMAIN input = 1..Len(input) BY InputTypes DEF TypeInv
<1>2. DOMAIN errors = 1..Len(errors) BY ErrorsTypes DEF TypeInv
<1>3. PICK k \in DOMAIN errors :
        /\ errors[k].place = input[i].place
        /\ input[i].name \in {errors[k].name} \cup errors[k].aliases
  BY <1>1, <1>2 DEF AliasInv, NoneLost
<1>4. FixOfAll(k, Len(input)) BY DEF AliasInv
<1> DEFINE S == Suggested(input[i].place)
<1>5. S = {input[j].fix : j \in {l \in 1..Len(input) : input[l].place = errors[k].place}}
  BY <1>1, <1>3 DEF Suggested, At
<1>6. CASE \A j \in 1..Len(input) : input[j].place = errors[k].place => input[j].fix = errors[k].fix
  <2>1. input[i].fix = errors[k].fix BY <1>1, <1>3, <1>6
  <2>2. S = {errors[k].fix}
    <3>1. \A x \in S : x = errors[k].fix BY <1>5, <1>6
    <3>2. input[i].fix \in S BY <1>1, <1>3, <1>5
    <3> QED BY <2>1, <3>1, <3>2
  <2>3. Cardinality(S) = 1 BY <2>2, FS_Singleton
  <2> QED BY <1>3, <2>1, <2>3
<1>7. CASE /\ errors[k].fix = {}
           /\ \E j, l \in 1..Len(input) : /\ input[j].place = errors[k].place
                                          /\ input[l].place = errors[k].place
                                          /\ input[j].fix # input[l].fix
  <2>1. PICK j \in 1..Len(input), l \in 1..Len(input) :
          /\ input[j].place = errors[k].place /\ input[l].place = errors[k].place
          /\ input[j].fix # input[l].fix
    BY <1>7
  <2>2. input[j].fix \in S /\ input[l].fix \in S BY <1>5, <2>1
  <2>3. Cardinality(S) # 1
    <3>1. ASSUME Cardinality(S) = 1 PROVE \E x : S = {x}
      <4>1. IsFiniteSet(S)
        <5>1. IsFiniteSet({m \in 1..Len(input) : input[m].place = errors[k].place})
          <6>1. Len(input) \in Int /\ 1 \in Int BY InputTypes DEF TypeInv
          <6>2. IsFiniteSet(1..Len(input)) BY <6>1, FS_Interval
          <6> QED BY <6>2, FS_Subset
        <5> DEFINE M == {m \in 1..Len(input) : input[m].place = errors[k].place}
                   g == [m \in M |-> input[m].fix]
        <5>2. g \in Surjection(M, S) BY <1>5 DEF Surjection
        <5> QED BY <5>1, <5>2, FS_Surjection
      <4> HIDE DEF S
      <4> QED BY <3>1, <4>1, FS_Singleton
    <3> QED BY <2>1, <2>2, <3>1
  <2> QED BY <1>3, <1>7, <2>3
<1> QED BY <1>4, <1>6, <1>7 DEF FixOfAll

\* The merge loses no diagnostic, and a fix survives it only if every check at its
\* place suggests that very fix; with the fixes of notes or without.
THEOREM AliasesMerged == Spec => []AliasesAgree
<1>1. Init => AliasInv BY InitAlias
<1>2. TypeInv /\ AliasInv /\ [Next]_vars => AliasInv' BY NextAlias
<1>3. TypeInv /\ AliasInv => AliasesAgree BY MergeAgrees
<1> QED BY <1>1, <1>2, <1>3, SweepCounts, PTL DEF Spec

\* Without --fix-notes a fix that is applied is the whole of what every check at its
\* place suggests, and no diagnostic that says otherwise changes a file.
THEOREM FixesAreWhole ==
  ASSUME ~AnyFix
  PROVE  Spec => []FixesAgree
<1>1. TypeInv /\ AppliedInv => WholeFixes BY AppliedApart
<1>2. WholeFixes /\ AliasesAgree => FixesAgree BY DEF FixesAgree
<1> QED BY <1>1, <1>2, SweepCounts, AppliedInvariant, AliasesMerged, PTL
=============================================================================
