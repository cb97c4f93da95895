------------------------------ MODULE MemoryProofs ------------------------------
(***************************************************************************)
(* Theorems about the pointers and the unions of one function, for all     *)
(* objects, types and functions: what goes wrong when the function runs    *)
(* was reported, or is one of the gaps that MemoryJudged lists.            *)
(***************************************************************************)
EXTENDS PointerChecks, SequenceTheorems, TLAPS

-----------------------------------------------------------------------------
(***************************************************************************)
(* Unions.  A run in the order of the text goes through the same members   *)
(* written last as the check does when it reads the text; History is what  *)
(* both have seen, h[i] being the state behind access i.                   *)
(***************************************************************************)

Members == DOMAIN MemberTypes \cup {NoMember}

History(h) ==
  /\ h[0] = [v \in UnionObjects |-> NoMember]
  /\ \A i \in 0 .. Len(body) : h[i] \in [UnionObjects -> Members]
  /\ \A i \in 1 .. Len(body) : h[i] = Written(h[i - 1], body[i])
  /\ lastWritten = h[Len(body)]
  /\ \A i \in 1 .. Len(body) : i \in punsSaid <=> ReadMatched(h[i], body[i])
  /\ punsSaid \subseteq 1 .. Len(body)
  /\ inOrder => /\ active = h[pc - 1]
                /\ puns \subseteq 1 .. pc - 1
                /\ \A i \in 1 .. pc - 1 : i \in puns <=> Puns(h[i - 1], body[i])

UnionInv ==
  /\ body \in Seq(Accesses) /\ Len(body) <= MaxAccesses
  /\ pc \in 1 .. MaxAccesses + 1
  /\ Len(body) < MaxAccesses => pc = 1
  /\ \E h : DOMAIN h = 0 .. Len(body) /\ History(h)

LEMMA WrittenMembers ==
  ASSUME NEW a \in Accesses, NEW last \in [UnionObjects -> Members]
  PROVE  Written(last, a) \in [UnionObjects -> Members]
BY UnionAssumption DEF Written, Assigns, Members

\* A read compares with the state behind it, which is the one before it but for a
\* copy within one union.
LEMMA PunsAreSaid ==
  ASSUME NEW a \in Accesses, NEW last \in [UnionObjects -> Members], Puns(last, a)
  PROVE  ReadMatched(Written(last, a), a) \/ a.op = "add" \/ Overwrites(a)
<1> DEFINE now == Written(last, a)
<1>1. /\ a.op \in {"read", "copy", "add"}
      /\ a.to.var \in UnionObjects /\ a.from.var \in UnionObjects
      /\ a.to.member \in DOMAIN MemberTypes /\ a.from.member \in DOMAIN MemberTypes
      /\ NoMember \notin DOMAIN MemberTypes
  BY UnionAssumption DEF Puns, Reads
<1>2. ASSUME a.op # "add", now[a.from.var] = last[a.from.var]
      PROVE  ReadMatched(now, a)
  <2>1. /\ last[a.from.var] # NoMember
        /\ "char" \notin {MemberTypes[last[a.from.var]], MemberTypes[a.from.member]}
        /\ MemberTypes[last[a.from.var]] # MemberTypes[a.from.member]
    BY <1>2 DEF Puns, Source
  <2> QED BY <1>1, <1>2, <2>1 DEF ReadMatched, Compatible
<1>3. CASE a.op = "read"
  BY <1>2, <1>3 DEF Written, Assigns
<1>4. CASE a.op = "copy"
  <2>1. CASE a.to.var # a.from.var
    BY <1>1, <1>2, <1>4, <2>1 DEF Written, Assigns
  <2>2. CASE a.to.var = a.from.var
    <3>1. now[a.from.var] = a.to.member
      BY <1>1, <1>4, <2>2 DEF Written, Assigns
    <3> QED BY <1>1, <1>4, <2>2, <3>1 DEF ReadMatched, Compatible, Overwrites
  <2> QED BY <2>1, <2>2
<1> QED BY <1>1, <1>3, <1>4

LEMMA SaidReadsPun ==
  ASSUME NEW a \in Accesses, NEW last \in [UnionObjects -> Members], a.op = "read",
         ReadMatched(Written(last, a), a)
  PROVE  Puns(last, a)
<1>1. Written(last, a) = last
  BY DEF Written, Assigns
<1>2. /\ last[a.from.var] # NoMember
      /\ MemberTypes[last[a.from.var]] # MemberTypes[a.from.member]
      /\ "char" \notin {MemberTypes[last[a.from.var]], MemberTypes[a.from.member]}
  BY <1>1 DEF ReadMatched, Compatible
<1> QED BY <1>2 DEF Puns, Reads, Source

LEMMA UnionInvJudges == ASSUME UnionInv PROVE UnionsJudged
<1> SUFFICES ASSUME inOrder
             PROVE  /\ \A i \in puns : i \in punsSaid \/ body[i].op = "add" \/ Overwrites(body[i])
                    /\ \A i \in punsSaid : i < pc /\ body[i].op = "read" => i \in puns
  BY DEF UnionsJudged
<1>1. PICK h : DOMAIN h = 0 .. Len(body) /\ History(h)
  BY DEF UnionInv
<1>2. Len(body) \in Nat /\ pc \in Nat /\ pc - 1 <= Len(body)
  BY UnionAssumption DEF UnionInv
<1>3. \A i \in 1 .. Len(body) : /\ body[i] \in Accesses
                                /\ h[i - 1] \in [UnionObjects -> Members]
                                /\ h[i] = Written(h[i - 1], body[i])
  <2> TAKE i \in 1 .. Len(body)
  <2>1. i - 1 \in 0 .. Len(body)
    BY <1>2
  <2>2. body[i] \in Accesses
    BY ElementOfSeq DEF UnionInv
  <2> QED BY <1>1, <2>1, <2>2 DEF History
<1>4. ASSUME NEW i \in puns PROVE i \in punsSaid \/ body[i].op = "add" \/ Overwrites(body[i])
  <2>1. i \in 1 .. pc - 1 /\ Puns(h[i - 1], body[i])
    BY <1>1 DEF History
  <2>2. i \in 1 .. Len(body)
    BY <1>2, <2>1
  <2>3. i \in punsSaid <=> ReadMatched(h[i], body[i])
    BY <1>1, <2>2 DEF History
  <2> QED BY <1>3, <2>1, <2>2, <2>3, PunsAreSaid
<1>5. ASSUME NEW i \in punsSaid, i < pc, body[i].op = "read" PROVE i \in puns
  <2>1. i \in 1 .. Len(body) /\ ReadMatched(h[i], body[i])
    BY <1>1 DEF History
  <2>2. i \in 1 .. pc - 1
    BY <1>2, <1>5, <2>1
  <2>3. Puns(h[i - 1], body[i])
    BY <1>3, <1>5, <2>1, SaidReadsPun
  <2> QED BY <1>1, <2>2, <2>3 DEF History
<1> QED BY <1>4, <1>5

LEMMA UnionStep == ASSUME UnionInv, [UnionNext]_unionVars PROVE UnionInv'
<1> DEFINE n == Len(body)
<1>1. PICK h : DOMAIN h = 0 .. n /\ History(h)
  BY DEF UnionInv
<1>2. n \in Nat /\ pc \in Nat /\ MaxAccesses \in Nat /\ body \in Seq(Accesses)
  BY UnionAssumption DEF UnionInv
<1>3. ASSUME NEW a \in Accesses, Visit(a) PROVE UnionInv'
  <2> DEFINE now == Written(h[n], a)
  <2>1. body' \in Seq(Accesses) /\ Len(body') = n + 1 /\ body'[n + 1] = a
        /\ \A i \in 1 .. n : body'[i] = body[i]
    BY <1>2, <1>3, AppendProperties DEF Visit
  <2>2. pc = 1 /\ pc' = 1 /\ n + 1 <= MaxAccesses
    BY <1>2, <1>3 DEF Visit, UnionInv
  <2>3. n \in 0 .. n /\ h[n] \in [UnionObjects -> Members] /\ lastWritten = h[n]
    BY <1>1, <1>2 DEF History
  <2>4. now \in [UnionObjects -> Members] /\ lastWritten' = now
    BY <1>3, <2>3, WrittenMembers DEF Visit, WriteMatched
  <2> DEFINE longer == [i \in 0 .. n + 1 |-> IF i = n + 1 THEN now ELSE h[i]]
  <2>a. PICK k : k = longer
    OBVIOUS
  <2>5. DOMAIN k = 0 .. n + 1 /\ k[n + 1] = now /\ \A i \in 0 .. n : k[i] = h[i]
    BY <1>2, <2>a
  <2> HIDE DEF now, longer
  <2>6. k[0] = [v \in UnionObjects |-> NoMember]
    BY <1>1, <1>2, <2>5 DEF History
  <2>7. \A i \in 0 .. n + 1 : k[i] \in [UnionObjects -> Members]
    BY <1>1, <1>2, <2>4, <2>5 DEF History
  <2>8. \A i \in 1 .. n + 1 : k[i] = Written(k[i - 1], body'[i])
    <3> TAKE i \in 1 .. n + 1
    <3>1. CASE i = n + 1
      <4>1. i - 1 = n BY <1>2, <3>1
      <4>2. k[i - 1] = h[n] BY <2>3, <2>5, <4>1
      <4> QED BY <2>1, <2>5, <3>1, <4>2 DEF now
    <3>2. CASE i # n + 1
      <4>1. i \in 1 .. n /\ i - 1 \in 0 .. n /\ i \in 0 .. n BY <1>2, <3>2
      <4> QED BY <1>1, <2>1, <2>5, <4>1 DEF History
    <3> QED BY <3>1, <3>2
  <2>9. punsSaid' = punsSaid \cup (IF ReadMatched(now, a) THEN {n + 1} ELSE {})
    BY <1>3, <2>1, <2>4 DEF Visit
  <2>10. /\ punsSaid' \subseteq 1 .. n + 1
         /\ \A i \in 1 .. n + 1 : i \in punsSaid' <=> ReadMatched(k[i], body'[i])
    <3>1. punsSaid \subseteq 1 .. n
      BY <1>1 DEF History
    <3>2. punsSaid' \subseteq 1 .. n + 1
      <4>1. 1 .. n \subseteq 1 .. n + 1 /\ n + 1 \in 1 .. n + 1 BY <1>2
      <4>2. punsSaid' \subseteq punsSaid \cup {n + 1} BY <2>9
      <4> QED BY <3>1, <4>1, <4>2
    <3>3. ASSUME NEW i \in 1 .. n + 1 PROVE i \in punsSaid' <=> ReadMatched(k[i], body'[i])
      <4>1. CASE i = n + 1
        <5>1. i \notin punsSaid BY <1>2, <3>1, <4>1
        <5> QED BY <2>1, <2>5, <2>9, <4>1, <5>1
      <4>2. CASE i # n + 1
        <5>1. i \in 1 .. n /\ i \in 0 .. n BY <1>2, <4>2
        <5>2. i \in punsSaid' <=> i \in punsSaid BY <2>9, <4>2
        <5> QED BY <1>1, <2>1, <2>5, <5>1, <5>2 DEF History
      <4> QED BY <4>1, <4>2
    <3> QED BY <3>2, <3>3
  <2>11. inOrder' => /\ active' = k[pc' - 1]
                     /\ puns' \subseteq 1 .. pc' - 1
                     /\ \A i \in 1 .. pc' - 1 : i \in puns' <=> Puns(k[i - 1], body'[i])
    <3>1. pc' - 1 = 0 /\ pc - 1 = 0 /\ 1 .. 0 = {} BY <2>2
    <3>2. inOrder' = inOrder /\ active' = active /\ puns' = puns BY <1>3 DEF Visit
    <3>3. k[0] = h[0] BY <1>2, <2>5
    <3> QED BY <1>1, <3>1, <3>2, <3>3 DEF History
  <2>12. History(k)'
    BY <2>1, <2>4, <2>5, <2>6, <2>7, <2>8, <2>10, <2>11 DEF History
  <2>13. DOMAIN k = 0 .. Len(body')
    BY <2>1, <2>5
  <2> QED BY <1>2, <2>1, <2>2, <2>12, <2>13 DEF UnionInv
<1>4. ASSUME Perform PROVE UnionInv'
  <2>1. n = MaxAccesses /\ pc \in 1 .. n /\ pc' = pc + 1 /\ body' = body
    BY <1>2, <1>4 DEF Perform, Runs, UnionInv
  <2>2. UNCHANGED <<body, lastWritten, punsSaid, pass, inOrder>>
    BY <1>4 DEF Perform
  <2>3. inOrder => /\ active' = h[pc]
                   /\ puns' \subseteq 1 .. pc
                   /\ \A i \in 1 .. pc : i \in puns' <=> Puns(h[i - 1], body[i])
    <3> SUFFICES ASSUME inOrder PROVE /\ active' = h[pc]
                                      /\ puns' \subseteq 1 .. pc
                                      /\ \A i \in 1 .. pc : i \in puns' <=> Puns(h[i - 1], body[i])
      OBVIOUS
    <3>1. active = h[pc - 1] /\ puns \subseteq 1 .. pc - 1
          /\ \A i \in 1 .. pc - 1 : i \in puns <=> Puns(h[i - 1], body[i])
      BY <1>1 DEF History
    <3>2. active' = h[pc]
      BY <1>1, <1>4, <2>1, <3>1 DEF History, Perform
    <3>3. puns' = IF Puns(h[pc - 1], body[pc]) THEN puns \cup {pc} ELSE puns
      BY <1>4, <3>1 DEF Perform
    <3>4. puns' \subseteq 1 .. pc
      <4>1. 1 .. pc - 1 \subseteq 1 .. pc /\ pc \in 1 .. pc BY <1>2, <2>1
      <4>2. puns' \subseteq puns \cup {pc} BY <3>3
      <4> QED BY <3>1, <4>1, <4>2
    <3>5. ASSUME NEW i \in 1 .. pc PROVE i \in puns' <=> Puns(h[i - 1], body[i])
      <4>1. CASE i = pc
        <5>1. i \notin puns BY <1>2, <3>1, <4>1
        <5> QED BY <3>3, <4>1, <5>1
      <4>2. CASE i # pc
        <5>1. i \in 1 .. pc - 1 BY <1>2, <4>2
        <5> QED BY <3>1, <3>3, <4>2, <5>1
      <4> QED BY <4>1, <4>2
    <3> QED BY <3>2, <3>4, <3>5
  <2>4. pc' - 1 = pc /\ pc' \in 1 .. MaxAccesses + 1
    BY <1>2, <2>1
  <2>5. History(h)'
    BY <1>1, <2>2, <2>3, <2>4 DEF History
  <2> QED BY <1>1, <2>1, <2>2, <2>4, <2>5 DEF UnionInv
<1>5. ASSUME Skip PROVE UnionInv'
  <2>1. n = MaxAccesses /\ pc' \in 1 .. MaxAccesses + 1 /\ ~inOrder'
        /\ UNCHANGED <<body, lastWritten, punsSaid>>
    BY <1>2, <1>5 DEF Skip, Runs, UnionInv
  <2>2. History(h)'
    BY <1>1, <2>1 DEF History
  <2> QED BY <1>1, <2>1, <2>2 DEF UnionInv
<1>6. ASSUME Again PROVE UnionInv'
  <2>1. pc' = 1 /\ ~inOrder' /\ UNCHANGED <<body, lastWritten, punsSaid>>
    BY <1>6 DEF Again
  <2>2. History(h)'
    BY <1>1, <2>1 DEF History
  <2>3. 1 \in 1 .. MaxAccesses + 1
    BY <1>2
  <2> QED BY <1>1, <2>1, <2>2, <2>3 DEF UnionInv
<1>7. ASSUME UNCHANGED unionVars PROVE UnionInv'
  <2>1. UNCHANGED <<body, lastWritten, punsSaid, pass, pc, active, inOrder, puns>>
    BY <1>7 DEF unionVars
  <2>2. History(h)'
    BY <1>1, <2>1 DEF History
  <2> QED BY <1>1, <2>1, <2>2 DEF UnionInv
<1> QED BY <1>3, <1>4, <1>5, <1>6, <1>7 DEF UnionNext, AllRun

LEMMA UnionsRight == UnionSpec => []UnionsJudged
<1>1. ASSUME UnionInit PROVE UnionInv
  <2>1. body \in Seq(Accesses) /\ Len(body) = 0
    BY <1>1, EmptySeq DEF UnionInit
  <2> DEFINE h == [i \in {0} |-> lastWritten]
  <2>2. DOMAIN h = 0 .. Len(body) /\ h[0] = lastWritten
    BY <2>1
  <2>3. lastWritten \in [UnionObjects -> Members] /\ lastWritten = [v \in UnionObjects |-> NoMember]
    BY <1>1 DEF UnionInit, Members
  <2>4. pc - 1 = 0 /\ 1 .. 0 = {} /\ 0 .. 0 = {0} /\ pc = 1
    BY <1>1 DEF UnionInit
  <2>5. active = lastWritten /\ puns = {} /\ punsSaid = {}
    BY <1>1 DEF UnionInit
  <2> HIDE DEF h
  <2>6. History(h)
    BY <2>1, <2>2, <2>3, <2>4, <2>5 DEF History
  <2> QED BY <2>1, <2>2, <2>4, <2>6, UnionAssumption DEF UnionInv
<1> QED BY <1>1, UnionStep, UnionInvJudges, PTL DEF UnionSpec

-----------------------------------------------------------------------------
(***************************************************************************)
(* Pointers.  Of the text of an expression only the leaf and the last step *)
(* matter: D are the pointer variables declared so far, H what they hold.  *)
(***************************************************************************)

Fields == {"text", "type", "const", "object", "at", "said", "slips"}
StepOps == {"elem", "plus", "minus"} \cup ExplicitCasts

Leaf(l, D) ==
  \/ l.op = "name" /\ l.arg \in DOMAIN Objects /\ IsArray(l.arg)
  \/ l.op = "name" /\ l.arg \in D
  \/ l.op = "addr" /\ l.arg \in DOMAIN Objects /\ ~IsArray(l.arg)
  \/ l.op = "new" /\ l.arg \in DOMAIN Heap /\ l = S("new", l.arg)
  \/ l.op = "word"

GoodText(t, D) ==
  /\ \E T : t \in Seq(T)
  /\ Len(t) >= 1
  /\ Leaf(t[1], D)
  /\ \A i \in 2 .. Len(t) : t[i].op \in StepOps

\* The object an expression points to is that of its leaf.
ObjectOf(t, H) ==
  IF t[1].op = "word" THEN "word"
  ELSE IF t[1].op = "name" /\ t[1].arg \in DOMAIN H THEN H[t[1].arg].object ELSE t[1].arg

Known(o) == Located(o) \/ o \in {"word", "null", "unknown"}
ArrayName(t) == Len(t) = 1 /\ t[1].op = "name" /\ IsArray(t[1].arg)

\* What has been said of an expression that could go wrong when it is used.
BoundsSaid(e) ==
  Located(e.object) /\ e.at \notin 0 .. ElementsOf(e.object) - 1 =>
    \/ e.said \cap {"OutOfBoundsAccess", "WrongPointerArithmetic", "PointerArithmetic"} # {}
    \/ "element_of_element" \in e.slips
TypeSaid(e) ==
  Located(e.object) /\ e.type \notin {"void", TypeOf(e.object)} =>
    \/ e.said \cap {"TypePunning", "IncompatiblePointerCast", "VoidPointerCast", "PointerIntegerCast"} # {}
    \/ "by_char" \in e.slips
ConstSaid(e) ==
  IsObject(e.object) /\ Objects[e.object].const /\ ~e.const =>
    e.said \cap {"ConstQualifierRemoval", "PointerIntegerCast"} # {}
WordSaid(e) == e.object = "word" /\ e.type # "word" => "PointerIntegerCast" \in e.said
UnknownSaid(e) == e.object = "unknown" => "UninitializedRead" \in e.said \/ "with_itself" \in e.slips
ArraySaid(e) ==
  IsArray(e.object) /\ Automatic(e.object) /\ ~Objects[e.object].init => "UninitializedRead" \in e.said
CastsSaid(e) == TypeSaid(e) /\ ConstSaid(e) /\ WordSaid(e)

ExprInv(e, D, H) ==
  /\ DOMAIN e = Fields /\ GoodText(e.text, D)
  /\ e.object = ObjectOf(e.text, H) /\ Known(e.object)
  /\ e.at \in Int /\ e.const \in BOOLEAN
  /\ ArrayName(e.text) => e.at = 0
  /\ BoundsSaid(e) /\ CastsSaid(e) /\ UnknownSaid(e) /\ ArraySaid(e)

\* What a pointer variable holds, and what is known of its initializer as long as
\* nothing has been assigned to it or to the variable the initializer names.
LeafUsed(t, U) == t[1].op = "name" /\ t[1].arg \in U
HoldInv(v, d, h, D, H, U) ==
  /\ DOMAIN h = Fields /\ Known(h.object) /\ h.at \in Int
  /\ d.type # "word" /\ d.const \in BOOLEAN
  /\ h.object \notin {"null", "unknown"} => h.type = d.type /\ h.const \in BOOLEAN /\ (h.const => d.const)
  /\ BoundsSaid(h) /\ CastsSaid(h) /\ ArraySaid(h)
  /\ UnknownSaid(h) \/ (d.init = <<>> /\ Automatic(v))
  /\ d.init # <<>> => /\ GoodText(d.init, D)
                      /\ v \in U \/ LeafUsed(d.init, U) \/ h.object = ObjectOf(d.init, H)

VariablesInv ==
  /\ DOMAIN holds = DOMAIN declared
  /\ DOMAIN declared \subseteq DOMAIN Pointers
  /\ used \subseteq DOMAIN Pointers \cup DOMAIN Heap
  /\ \A v \in DOMAIN declared : HoldInv(v, declared[v], holds[v], DOMAIN declared, holds, used)

ReadingInv ==
  /\ expr # NoExpr => ExprInv(expr, DOMAIN declared, holds)
  /\ left # NoExpr => ExprInv(left, DOMAIN declared, holds)

CellsInv ==
  \A v \in DOMAIN Objects : Objects[v].init \/ Objects[v].static =>
    \A i \in 0 .. ElementsOf(v) - 1 : <<v, i>> \in cells

\* The two texts of a search lead to one object exactly if the pointers did.
SearchInv ==
  Searching =>
    /\ DOMAIN search = {"ends", "via", "same"} /\ DOMAIN search.ends = 1 .. 2
    /\ \A i \in 1 .. 2 : GoodText(search.ends[i], DOMAIN declared)
    /\ \/ search.via \cap used # {}
       \/ \E i \in 1 .. 2 : LeafUsed(search.ends[i], used)
       \/ search.same <=> ObjectOf(search.ends[1], holds) = ObjectOf(search.ends[2], holds)

PointerInv ==
  /\ fragment \in Fragments
  /\ VariablesInv /\ ReadingInv /\ CellsInv /\ SearchInv
  /\ EventsAnnounced /\ SubtractionsExact

LEMMA NamesApart ==
  /\ \A v \in DOMAIN Objects : v \notin DOMAIN Pointers /\ v \notin DOMAIN Heap
                               /\ v \notin {"none", "word", "null", "unknown"}
  /\ \A v \in DOMAIN Pointers : v \notin DOMAIN Heap /\ v \notin {"none", "word", "null", "unknown"}
  /\ \A o \in DOMAIN Heap : o \notin {"none", "word", "null", "unknown"}
BY ObjectsAssumption DEF Heap

\* The length of an object, and what it is to be located.
LEMMA Lengths ==
  ASSUME NEW o, Located(o)
  PROVE  ElementsOf(o) \in Nat \ {0} /\ (IsArray(o) => ElementsOf(o) = Objects[o].length)
BY ObjectsAssumption, NamesApart DEF Located, ElementsOf, IsArray, IsObject, Heap

LEMMA TextLength ==
  ASSUME NEW D, NEW t, GoodText(t, D)
  PROVE  Len(t) \in Nat \ {0} /\ DOMAIN t = 1 .. Len(t) /\ t # <<>>
BY LenProperties DEF GoodText

\* One more step leaves the leaf alone.
LEMMA MoreText ==
  ASSUME NEW D, NEW H, NEW t, GoodText(t, D), NEW s, s.op \in StepOps
  PROVE  /\ GoodText(Append(t, s), D)
         /\ ObjectOf(Append(t, s), H) = ObjectOf(t, H)
         /\ Len(Append(t, s)) > 1
<1>1. PICK T : t \in Seq(T)
  BY DEF GoodText
<1> DEFINE n == Len(t)
           u == Append(t, s)
<1>2. n \in Nat /\ n >= 1 /\ t \in Seq(T \cup {s}) /\ s \in T \cup {s}
  BY <1>1, LenProperties DEF GoodText
<1>3. u \in Seq(T \cup {s}) /\ Len(u) = n + 1 /\ u[n + 1] = s /\ \A i \in 1 .. n : u[i] = t[i]
  BY <1>2, AppendProperties
<1> HIDE DEF u
<1>4. u[1] = t[1]
  BY <1>2, <1>3
<1>5. ASSUME NEW i \in 2 .. n + 1 PROVE u[i].op \in StepOps
  <2>1. CASE i = n + 1
    BY <1>3, <2>1
  <2>2. CASE i # n + 1
    BY <1>2, <1>3, <2>2 DEF GoodText
  <2> QED BY <2>1, <2>2
<1>6. GoodText(u, D)
  BY <1>2, <1>3, <1>4, <1>5 DEF GoodText
<1>7. ObjectOf(u, H) = ObjectOf(t, H) /\ Len(u) > 1
  BY <1>2, <1>3, <1>4 DEF ObjectOf
<1> QED BY <1>6, <1>7 DEF u

\* One step less as well, if there is one.
LEMMA LessText ==
  ASSUME NEW D, NEW H, NEW t, GoodText(t, D), Len(t) > 1
  PROVE  GoodText(Front(t), D) /\ Front(t)[1] = t[1] /\ ObjectOf(Front(t), H) = ObjectOf(t, H)
<1>1. PICK T : t \in Seq(T)
  BY DEF GoodText
<1> DEFINE m == Len(t) - 1
<1>2. Len(t) \in Nat /\ m \in Nat /\ m >= 1
  BY <1>1, LenProperties
<1>3. \A i \in 1 .. m : t[i] \in T
  <2>1. \A i \in 1 .. Len(t) : t[i] \in T BY <1>1, ElementOfSeq
  <2> QED BY <1>2, <2>1
<1>4. /\ SubSeq(t, 1, m) \in Seq(T) /\ Len(SubSeq(t, 1, m)) = m
      /\ \A i \in 1 .. m : SubSeq(t, 1, m)[i] = t[i]
  BY <1>2, <1>3, SubSeqProperties
<1> DEFINE u == Front(t)
<1>5. u = SubSeq(t, 1, m)
  BY DEF Front
<1> HIDE DEF u
<1>6. u[1] = t[1] /\ \A i \in 2 .. m : u[i] = t[i]
  BY <1>2, <1>4, <1>5
<1>7. \A i \in 2 .. m : u[i].op \in StepOps
  BY <1>2, <1>6 DEF GoodText
<1>8. GoodText(u, D)
  BY <1>2, <1>4, <1>5, <1>6, <1>7 DEF GoodText
<1> QED BY <1>6, <1>8 DEF u, ObjectOf
-----------------------------------------------------------------------------
\* What a step says of where it leads.

\* An element outside of the object is announced, or &X[i] is subscripted.
LEMMA SubscriptSaid ==
  ASSUME NEW D, NEW H, DOMAIN H \subseteq DOMAIN Pointers, NEW e, ExprInv(e, D, H), NEW i \in Nat,
         Located(e.object), e.at + i \notin 0 .. ElementsOf(e.object) - 1
  PROVE  \/ (e.said \cup Subscripted(e.text, i))
              \cap {"OutOfBoundsAccess", "WrongPointerArithmetic", "PointerArithmetic"} # {}
         \/ "element_of_element" \in
              e.slips \cup Say("element_of_element", Subscripted(e.text, i) = {} /\ Len(e.text) > 1)
<1> DEFINE t == e.text
           n == ElementsOf(e.object)
           bounds == {"OutOfBoundsAccess", "WrongPointerArithmetic", "PointerArithmetic"}
<1> SUFFICES ASSUME Subscripted(t, i) \cap bounds = {}, Subscripted(t, i) = {} => ~(Len(t) > 1)
             PROVE  e.said \cap bounds # {} \/ "element_of_element" \in e.slips
  BY DEF Say
<1>1. GoodText(t, D) /\ Len(t) \in Nat \ {0} /\ DOMAIN t = 1 .. Len(t)
  BY TextLength DEF ExprInv
<1>2. WrongPointerArithmetic(t) = {} /\ OutOfBoundsAccess(t, i) = {}
  BY DEF Subscripted, WrongPointerArithmetic, OutOfBoundsAccess, Say
<1>3. PICK j \in DOMAIN t : /\ \A k \in j + 1 .. Len(t) : t[k].op \in {"plus", "minus"}
                            /\ t[j].op = "elem" \/ (t[j].op = "name" /\ IsArray(t[j].arg))
  BY <1>2 DEF WrongPointerArithmetic, Say, IsArrayElementPointer
<1>4. t[Len(t)].op \notin {"c", "reinterpret"}
  <2>1. CASE j = Len(t)
    BY <1>3, <2>1
  <2>2. CASE j # Len(t)
    <3>1. Len(t) \in j + 1 .. Len(t) BY <1>1, <2>2
    <3> QED BY <1>3, <3>1
  <2> QED BY <2>1, <2>2
<1>5. TypePunning(t) = {}
  BY <1>4 DEF TypePunning, Say, Ends, Last
<1>6. Subscripted(t, i) = {} /\ Len(t) = 1
  <2>1. Subscripted(t, i) = {}
    BY <1>2, <1>5 DEF Subscripted
  <2>2. ~(Len(t) > 1)
    BY <2>1
  <2> HIDE DEF t
  <2>3. Len(t) = 1
    BY <1>1, <2>2
  <2> QED BY <2>1, <2>3
<1>7. j = 1 /\ t # <<>>
  BY <1>1, <1>3, <1>6, TextLength
<1>8. t[1].op = "name" /\ IsArray(t[1].arg)
  BY <1>1, <1>3, <1>7 DEF GoodText, Leaf
<1>9. t[1].arg \in DOMAIN Objects /\ e.object = ObjectOf(t, H) /\ e.at = 0
  BY <1>6, <1>8 DEF ExprInv, ArrayName, IsArray, IsObject
<1>10. i \in 0 .. Objects[t[1].arg].length - 1
  BY <1>2, <1>6, <1>7, <1>8 DEF OutOfBoundsAccess, Say, Ends, Last
<1>11. CASE e.object = t[1].arg
  <2>1. n = Objects[t[1].arg].length
    BY <1>8, <1>11, Lengths
  <2> QED BY <1>9, <1>10, <2>1
<1>12. CASE e.object # t[1].arg
  BY <1>8, <1>9, <1>12, NamesApart DEF ObjectOf
<1> QED BY <1>11, <1>12

\* A cast away from the type of the object, or from const, is announced.
LEMMA CastSaid ==
  ASSUME NEW e, CastsSaid(e), Known(e.object), e.const \in BOOLEAN,
         NEW how, NEW t, NEW d \in BOOLEAN, Allowed(how, e.type, e.const, t, d), how \in ExplicitCasts,
         NEW f, f.object = e.object, f.type = t, f.const = d,
         f.said = e.said \cup JudgeCast(how, e.type, e.const, t, d),
         f.slips = e.slips \cup Say("by_char", "char" \in {e.type, t} /\ e.type # t)
  PROVE  CastsSaid(f)
<1> DEFINE s == e.type
<1>1. JudgeCast(how, s, e.const, t, d) \subseteq f.said /\ e.said \subseteq f.said /\ e.slips \subseteq f.slips
  OBVIOUS
<1>2. (s = "word") # (t = "word") => "PointerIntegerCast" \in f.said
  BY <1>1 DEF JudgeCast, PointerIntegerCast, Say
<1>3. "word" \notin {s, t} /\ e.const /\ ~d => "ConstQualifierRemoval" \in f.said
  BY <1>1 DEF JudgeCast, ConstQualifierRemoval, Say
<1>4. s = "void" /\ t \notin {"void", "word"} => "VoidPointerCast" \in f.said
  BY <1>1 DEF JudgeCast, VoidPointerCast, Say
<1>5. "word" \notin {s, t} /\ ~Transparent(s, t) => "IncompatiblePointerCast" \in f.said
  BY <1>1 DEF JudgeCast, IncompatiblePointerCast, Say
<1>6. "char" \in {s, t} /\ s # t => "by_char" \in f.slips
  BY DEF Say
<1>7. ~(s = "word" /\ t = "word")
  BY DEF Allowed, ExplicitCasts
<1>8. TypeSaid(f)
  <2> SUFFICES ASSUME Located(e.object), t \notin {"void", TypeOf(e.object)}
               PROVE  \/ f.said \cap {"TypePunning", "IncompatiblePointerCast", "VoidPointerCast", "PointerIntegerCast"} # {}
                      \/ "by_char" \in f.slips
    BY DEF TypeSaid
  <2>1. CASE s \notin {"void", TypeOf(e.object)}
    BY <1>1, <2>1 DEF CastsSaid, TypeSaid
  <2>2. CASE s = "void"
    BY <1>2, <1>4, <2>2
  <2>3. CASE s = TypeOf(e.object) /\ s # "void"
    BY <1>2, <1>5, <1>6, <1>7, <2>3 DEF Transparent
  <2> QED BY <2>1, <2>2, <2>3
<1>9. ConstSaid(f)
  BY <1>1, <1>2, <1>3, <1>7 DEF CastsSaid, ConstSaid
<1>10. WordSaid(f)
  BY <1>1, <1>2 DEF CastsSaid, WordSaid
<1> QED BY <1>8, <1>9, <1>10 DEF CastsSaid
-----------------------------------------------------------------------------
\* The expressions that are read.

LEMMA HeldDomain == ASSUME VariablesInv PROVE DOMAIN holds \subseteq DOMAIN Pointers
BY DEF VariablesInv

\* A leaf is an expression of one step.
LEMMA LeafText ==
  ASSUME NEW D, NEW H, NEW l, Leaf(l, D)
  PROVE  GoodText(<<l>>, D) /\ Len(<<l>>) = 1 /\ <<l>>[1] = l
<1>1. <<l>> \in Seq({l}) /\ Len(<<l>>) = 1 /\ <<l>>[1] = l /\ 2 .. 1 = {}
  OBVIOUS
<1>2. \E T : <<l>> \in Seq(T)
  BY <1>1
<1>3. \A i \in 2 .. Len(<<l>>) : <<l>>[i].op \in StepOps
  BY <1>1
<1> QED BY <1>1, <1>2, <1>3 DEF GoodText

LEMMA NoExprFields ==
  /\ DOMAIN NoExpr = Fields /\ NoExpr.said = {} /\ NoExpr.slips = {} /\ NoExpr.at = 0
  /\ NoExpr.const = FALSE /\ NoExpr.type = "none" /\ NoExpr.object = "none" /\ NoExpr.text = <<>>
BY DEF NoExpr, Fields

LEMMA NameRead ==
  ASSUME PointerInv, NEW v \in DOMAIN Objects \cup DOMAIN Pointers, Name(v)
  PROVE  /\ ExprInv(expr', DOMAIN declared, holds)
         /\ AnnouncedEvent(event')
<1> DEFINE D == DOMAIN declared
           e == expr'
           l == S("name", v)
<1>1. l.op = "name" /\ l.arg = v
  BY DEF S
<1>2. D \subseteq DOMAIN Pointers /\ DOMAIN holds = D
  BY DEF PointerInv, VariablesInv
<1>3. ASSUME IsArray(v),
             e = [NoExpr EXCEPT !.text = <<l>>, !.type = Objects[v].type, !.const = Objects[v].const,
                                !.object = v, !.said = UninitializedRead(v, Objects[v].init)],
             event' = event
      PROVE  ExprInv(e, D, holds) /\ AnnouncedEvent(event')
  <2>1. v \in DOMAIN Objects /\ v \notin DOMAIN holds
    BY <1>2, <1>3, NamesApart DEF IsArray, IsObject
  <2>2. Leaf(l, D)
    BY <1>1, <1>3, <2>1 DEF Leaf
  <2>3. /\ DOMAIN e = Fields /\ e.text = <<l>> /\ e.type = Objects[v].type /\ e.const = Objects[v].const
        /\ e.object = v /\ e.at = 0 /\ e.said = UninitializedRead(v, Objects[v].init) /\ e.slips = {}
    BY <1>3, NoExprFields DEF Fields
  <2> HIDE DEF e
  <2>4. GoodText(e.text, D) /\ ObjectOf(e.text, holds) = v
    BY <1>1, <2>1, <2>2, <2>3, LeafText DEF ObjectOf
  <2>5. Located(v) /\ Known(v) /\ Objects[v].const \in BOOLEAN /\ TypeOf(v) = Objects[v].type
    BY <2>1, ObjectsAssumption DEF Located, IsObject, Known, TypeOf
  <2>6. BoundsSaid(e)
    BY <2>3, <2>5, Lengths DEF BoundsSaid
  <2>7. CastsSaid(e)
    BY <2>1, <2>3, <2>5, NamesApart DEF CastsSaid, TypeSaid, ConstSaid, WordSaid
  <2>8. UnknownSaid(e) /\ ArraySaid(e)
    BY <2>1, <2>3, NamesApart DEF UnknownSaid, ArraySaid, UninitializedRead, Say
  <2> QED BY <1>3, <2>3, <2>4, <2>5, <2>6, <2>7, <2>8 DEF ExprInv, PointerInv, EventsAnnounced
<1>4. ASSUME v \in D,
             e = [NoExpr EXCEPT !.text = <<l>>, !.type = declared[v].type, !.const = declared[v].const,
                                !.object = holds[v].object, !.at = holds[v].at, !.slips = holds[v].slips,
                                !.said = holds[v].said \cup UninitializedRead(v, declared[v].init # <<>>)],
             Happens(IF holds[v].object = "unknown" THEN "wild" ELSE "none", e, NoExpr)
      PROVE  ExprInv(e, D, holds) /\ AnnouncedEvent(event')
  <2> DEFINE h == holds[v]
  <2>1. HoldInv(v, declared[v], h, D, holds, used)
    BY <1>4 DEF PointerInv, VariablesInv
  <2>2. Leaf(l, D)
    BY <1>1, <1>4 DEF Leaf
  <2>3. /\ DOMAIN e = Fields /\ e.text = <<l>> /\ e.type = declared[v].type /\ e.const = declared[v].const
        /\ e.object = h.object /\ e.at = h.at /\ e.slips = h.slips
        /\ e.said = h.said \cup UninitializedRead(v, declared[v].init # <<>>)
    BY <1>4, NoExprFields DEF Fields
  <2> HIDE DEF e, h
  <2>4. GoodText(e.text, D) /\ ObjectOf(e.text, holds) = h.object
    BY <1>1, <1>2, <1>4, <2>2, <2>3, LeafText DEF ObjectOf, h
  <2>5. ~ArrayName(e.text)
    <3>1. ~IsArray(v) BY <1>2, <1>4, NamesApart DEF IsArray, IsObject
    <3> QED BY <1>1, <2>2, <2>3, <3>1, LeafText DEF ArrayName
  <2>6. BoundsSaid(e) /\ ArraySaid(e)
    BY <2>1, <2>3 DEF HoldInv, BoundsSaid, ArraySaid
  <2>7. CastsSaid(e)
    <3>1. CASE h.object \in {"null", "unknown"}
      BY <2>3, <3>1, NamesApart DEF CastsSaid, TypeSaid, ConstSaid, WordSaid, Located, IsObject
    <3>2. CASE h.object \notin {"null", "unknown"}
      BY <2>1, <2>3, <3>2 DEF HoldInv, CastsSaid, TypeSaid, ConstSaid, WordSaid
    <3> QED BY <3>1, <3>2
  <2>8. UnknownSaid(e)
    BY <2>1, <2>3 DEF HoldInv, UnknownSaid, UninitializedRead, Say
  <2>9. ExprInv(e, D, holds)
    BY <2>1, <2>3, <2>4, <2>5, <2>6, <2>7, <2>8 DEF ExprInv, HoldInv
  <2>10. AnnouncedEvent(event')
    <3>1. CASE event' = event
      BY <3>1 DEF PointerInv, EventsAnnounced
    <3>2. CASE event' # event
      <4>1. event' = [kind |-> "wild", to |-> e, from |-> NoExpr] /\ h.object = "unknown"
        BY <1>4, <3>2 DEF Happens, h
      <4>2. UnknownSaid(e) /\ e.object = "unknown" BY <2>3, <2>8, <4>1
      <4> QED BY <4>1, <4>2 DEF AnnouncedEvent, UnknownSaid
    <3> QED BY <3>1, <3>2
  <2> QED BY <2>9, <2>10
<1> QED BY <1>3, <1>4 DEF Name
LEMMA AddressRead ==
  ASSUME PointerInv, NEW v \in DOMAIN Objects \cup DOMAIN Pointers, AddressOf(v)
  PROVE  ExprInv(expr', DOMAIN declared, holds)
<1> DEFINE e == expr'
           l == S("addr", v)
<1>1. l.op = "addr" /\ l.arg = v
  BY DEF S
<1>2. v \in DOMAIN Objects /\ ~IsArray(v) /\ v \notin DOMAIN holds
  BY HeldDomain, NamesApart DEF AddressOf, IsObject, PointerInv
<1>3. e = [NoExpr EXCEPT !.text = <<l>>, !.type = Objects[v].type, !.const = Objects[v].const, !.object = v]
  BY DEF AddressOf
<1>4. /\ DOMAIN e = Fields /\ e.text = <<l>> /\ e.type = Objects[v].type /\ e.const = Objects[v].const
      /\ e.object = v /\ e.at = 0 /\ e.said = {} /\ e.slips = {}
  BY <1>3, NoExprFields DEF Fields
<1> HIDE DEF e
<1>5. GoodText(e.text, DOMAIN declared) /\ ObjectOf(e.text, holds) = v /\ ~ArrayName(e.text)
  BY <1>1, <1>2, <1>4, LeafText DEF ObjectOf, Leaf, ArrayName
<1>6. Located(v) /\ Known(v) /\ Objects[v].const \in BOOLEAN /\ TypeOf(v) = Objects[v].type
  BY <1>2, ObjectsAssumption DEF Located, IsObject, Known, TypeOf
<1>7. BoundsSaid(e)
  BY <1>4, <1>6, Lengths DEF BoundsSaid
<1>8. CastsSaid(e)
  BY <1>2, <1>4, <1>6, NamesApart DEF CastsSaid, TypeSaid, ConstSaid, WordSaid
<1>9. UnknownSaid(e) /\ ArraySaid(e)
  BY <1>2, <1>4, NamesApart DEF UnknownSaid, ArraySaid
<1> QED BY <1>4, <1>5, <1>6, <1>7, <1>8, <1>9 DEF ExprInv, e

LEMMA NewRead ==
  ASSUME PointerInv, NEW o \in DOMAIN Heap, New(o)
  PROVE  ExprInv(expr', DOMAIN declared, holds)
<1> DEFINE e == expr'
           l == S("new", o)
<1>1. l.op = "new" /\ l.arg = o
  BY DEF S
<1>2. o \notin DOMAIN Objects /\ ~IsArray(o) /\ o \notin DOMAIN holds
  BY HeldDomain, NamesApart DEF IsArray, IsObject, PointerInv
<1>3. e = [NoExpr EXCEPT !.text = <<l>>, !.type = "int", !.object = o]
  BY DEF New
<1>4. /\ DOMAIN e = Fields /\ e.text = <<l>> /\ e.type = "int" /\ e.const = FALSE
      /\ e.object = o /\ e.at = 0 /\ e.said = {} /\ e.slips = {}
  BY <1>3, NoExprFields DEF Fields
<1> HIDE DEF e
<1>5. GoodText(e.text, DOMAIN declared) /\ ObjectOf(e.text, holds) = o /\ ~ArrayName(e.text)
  <2>1. Leaf(l, DOMAIN declared) BY <1>1 DEF Leaf
  <2> HIDE DEF l
  <2> QED BY <1>1, <1>2, <1>4, <2>1, LeafText DEF ObjectOf, ArrayName
<1>6. Located(o) /\ Known(o) /\ TypeOf(o) = "int" /\ ~IsObject(o)
  BY <1>2 DEF Located, IsObject, Known, TypeOf
<1>7. BoundsSaid(e)
  BY <1>4, <1>6, Lengths DEF BoundsSaid
<1>8. CastsSaid(e)
  BY <1>4, <1>6, NamesApart DEF CastsSaid, TypeSaid, ConstSaid, WordSaid
<1>9. UnknownSaid(e) /\ ArraySaid(e)
  BY <1>2, <1>4, NamesApart DEF UnknownSaid, ArraySaid
<1>10. e.const \in BOOLEAN /\ e.at \in Int
  <2>1. e.const = FALSE /\ e.at = 0
    BY <1>4
  <2>2. e.const \in BOOLEAN
    BY <2>1, Zenon
  <2>3. e.at \in Int
    BY <2>1
  <2> QED BY <2>2, <2>3
<1> QED BY <1>4, <1>5, <1>6, <1>7, <1>8, <1>9, <1>10 DEF ExprInv, e

LEMMA NumberRead ==
  ASSUME PointerInv, Number
  PROVE  ExprInv(expr', DOMAIN declared, holds)
<1> DEFINE e == expr'
           l == S("word", 0)
<1>1. l.op = "word"
  BY DEF S
<1>2. e = [NoExpr EXCEPT !.text = <<l>>, !.type = "word", !.object = "word"]
  BY DEF Number
<1>3. /\ DOMAIN e = Fields /\ e.text = <<l>> /\ e.type = "word" /\ e.const = FALSE
      /\ e.object = "word" /\ e.at = 0 /\ e.said = {} /\ e.slips = {}
  BY <1>2, NoExprFields DEF Fields
<1> HIDE DEF e
<1>4. GoodText(e.text, DOMAIN declared) /\ ObjectOf(e.text, holds) = "word" /\ ~ArrayName(e.text)
  BY <1>1, <1>3, LeafText DEF ObjectOf, Leaf, ArrayName
<1>5. ~Located("word") /\ Known("word") /\ ~IsObject("word") /\ ~IsArray("word")
  BY NamesApart DEF Located, IsObject, IsArray, Known
<1>6. BoundsSaid(e) /\ CastsSaid(e) /\ UnknownSaid(e) /\ ArraySaid(e)
  BY <1>3, <1>5 DEF BoundsSaid, CastsSaid, TypeSaid, ConstSaid, WordSaid, UnknownSaid, ArraySaid
<1>7. e.const \in BOOLEAN /\ e.at \in Int
  <2>1. e.const = FALSE /\ e.at = 0
    BY <1>3
  <2>2. e.const \in BOOLEAN
    BY <2>1, Zenon
  <2>3. e.at \in Int
    BY <2>1
  <2> QED BY <2>2, <2>3
<1> QED BY <1>3, <1>4, <1>5, <1>6, <1>7 DEF ExprInv, e

\* What has been said is kept.
LEMMA SaidMore ==
  ASSUME NEW e, NEW f, f.object = e.object, e.said \subseteq f.said, e.slips \subseteq f.slips
  PROVE  /\ UnknownSaid(e) => UnknownSaid(f)
         /\ ArraySaid(e) => ArraySaid(f)
         /\ f.at = e.at /\ BoundsSaid(e) => BoundsSaid(f)
         /\ f.type = e.type /\ f.const = e.const /\ CastsSaid(e) => CastsSaid(f)
<1>1. UnknownSaid(e) => UnknownSaid(f) BY DEF UnknownSaid
<1>2. ArraySaid(e) => ArraySaid(f) BY DEF ArraySaid
<1>3. f.at = e.at /\ BoundsSaid(e) => BoundsSaid(f) BY DEF BoundsSaid
<1>4. f.type = e.type /\ f.const = e.const /\ CastsSaid(e) => CastsSaid(f)
  BY DEF CastsSaid, TypeSaid, ConstSaid, WordSaid
<1> QED BY <1>1, <1>2, <1>3, <1>4

LEMMA ElementRead ==
  ASSUME PointerInv, NEW i \in Counts, Element(i)
  PROVE  ExprInv(expr', DOMAIN declared, holds) /\ AnnouncedEvent(event')
<1> DEFINE D == DOMAIN declared
           e == expr'
           s == S("elem", i)
<1>1. i \in Nat /\ s.op \in StepOps
  BY DEF Counts, S, StepOps
<1>2. ExprInv(expr, D, holds)
  BY DEF PointerInv, ReadingInv, Element, Steps
<1>3. /\ DOMAIN e = Fields /\ e.text = Append(expr.text, s) /\ e.type = expr.type /\ e.const = expr.const
      /\ e.object = expr.object /\ e.at = expr.at + i /\ e.said = expr.said \cup Subscripted(expr.text, i)
      /\ e.slips = expr.slips \cup Say("element_of_element", Subscripted(expr.text, i) = {} /\ Len(expr.text) > 1)
  BY <1>2 DEF Element, ExprInv, Fields
<1>4. Happens(IF Outside(expr, i) THEN "bounds" ELSE "none", e, NoExpr)
  BY DEF Element
<1> HIDE DEF e, s
<1>5. GoodText(e.text, D) /\ e.object = ObjectOf(e.text, holds) /\ Known(e.object) /\ ~ArrayName(e.text)
  <2>1. GoodText(expr.text, D) /\ expr.object = ObjectOf(expr.text, holds) /\ Known(expr.object)
    BY <1>2 DEF ExprInv
  <2>2. /\ GoodText(Append(expr.text, s), D) /\ Len(Append(expr.text, s)) > 1
        /\ ObjectOf(Append(expr.text, s), holds) = ObjectOf(expr.text, holds)
    BY <1>1, <2>1, MoreText
  <2>3. Len(Append(expr.text, s)) # 1
    BY <2>2
  <2> QED BY <1>3, <2>1, <2>2, <2>3 DEF ArrayName
<1>6. BoundsSaid(e)
  BY <1>1, <1>2, <1>3, HeldDomain, SubscriptSaid DEF BoundsSaid, PointerInv
<1>7. CastsSaid(e) /\ UnknownSaid(e) /\ ArraySaid(e)
  BY <1>2, <1>3, SaidMore DEF ExprInv
<1>8. e.at \in Int /\ e.const \in BOOLEAN
  BY <1>1, <1>2, <1>3 DEF ExprInv
<1>9. ExprInv(e, D, holds)
  BY <1>3, <1>5, <1>6, <1>7, <1>8 DEF ExprInv
<1>10. CASE event' = event
  BY <1>9, <1>10 DEF PointerInv, EventsAnnounced, e
<1>11. CASE event' # event
  <2>1. event' = [kind |-> "bounds", to |-> e, from |-> NoExpr] /\ Outside(expr, i)
    BY <1>4, <1>11 DEF Happens
  <2>2. Located(e.object) /\ e.at \notin 0 .. ElementsOf(e.object)
    BY <1>3, <2>1 DEF Outside
  <2>3. e.at \notin 0 .. ElementsOf(e.object) - 1
    BY <1>8, <2>2, Lengths
  <2> QED BY <1>6, <1>9, <2>1, <2>2, <2>3 DEF AnnouncedEvent, BoundsSaid, e
<1> QED BY <1>10, <1>11

LEMMA PlusRead ==
  ASSUME PointerInv, NEW n \in Counts, NEW op \in {"plus", "minus"}, Plus(op, n)
  PROVE  ExprInv(expr', DOMAIN declared, holds) /\ AnnouncedEvent(event')
<1> DEFINE D == DOMAIN declared
           e == expr'
           s == S(op, n)
           d == IF op = "plus" THEN n ELSE -n
<1>1. d \in Int /\ s.op \in StepOps
  BY DEF Counts, S, StepOps
<1>2. ExprInv(expr, D, holds)
  BY DEF PointerInv, ReadingInv, Plus, Steps
<1>3. /\ DOMAIN e = Fields /\ e.text = Append(expr.text, s) /\ e.type = expr.type /\ e.const = expr.const
      /\ e.object = expr.object /\ e.at = expr.at + d /\ e.said = expr.said \cup Added(expr.text)
      /\ e.slips = expr.slips
  BY <1>2 DEF Plus, ExprInv, Fields
<1>4. Happens(IF Outside(expr, d) THEN "bounds" ELSE "none", e, NoExpr)
  BY DEF Plus
<1> HIDE DEF e, s, d
<1>5. GoodText(e.text, D) /\ e.object = ObjectOf(e.text, holds) /\ Known(e.object) /\ ~ArrayName(e.text)
  <2>1. GoodText(expr.text, D) /\ expr.object = ObjectOf(expr.text, holds) /\ Known(expr.object)
    BY <1>2 DEF ExprInv
  <2>2. /\ GoodText(Append(expr.text, s), D) /\ Len(Append(expr.text, s)) > 1
        /\ ObjectOf(Append(expr.text, s), holds) = ObjectOf(expr.text, holds)
    BY <1>1, <2>1, MoreText
  <2>3. Len(Append(expr.text, s)) # 1
    BY <2>2
  <2> QED BY <1>3, <2>1, <2>2, <2>3 DEF ArrayName
<1>6. "PointerArithmetic" \in e.said
  BY <1>3 DEF Added, PointerArithmetic
<1>7. BoundsSaid(e) /\ CastsSaid(e) /\ UnknownSaid(e) /\ ArraySaid(e)
  BY <1>2, <1>3, <1>6, SaidMore DEF ExprInv, BoundsSaid
<1>8. e.at \in Int /\ e.const \in BOOLEAN
  BY <1>1, <1>2, <1>3 DEF ExprInv
<1>9. ExprInv(e, D, holds)
  BY <1>3, <1>5, <1>7, <1>8 DEF ExprInv
<1>10. CASE event' = event
  BY <1>9, <1>10 DEF PointerInv, EventsAnnounced, e
<1>11. CASE event' # event
  <2>1. event' = [kind |-> "bounds", to |-> e, from |-> NoExpr]
    BY <1>4, <1>11 DEF Happens
  <2> QED BY <1>6, <1>9, <2>1 DEF AnnouncedEvent, e
<1> QED BY <1>10, <1>11

LEMMA CastRead ==
  ASSUME PointerInv, NEW m \in fragment.moves, m.op \in ExplicitCasts, Cast(m.op, m.to, m.const)
  PROVE  ExprInv(expr', DOMAIN declared, holds)
<1> DEFINE D == DOMAIN declared
           e == expr'
           s == CastStep(m.op, expr.type, m.to)
<1>1. m.const \in BOOLEAN /\ s.op \in StepOps
  BY FragmentsAssumption DEF PointerInv, CastStep, StepOps
<1>2. ExprInv(expr, D, holds)
  BY DEF PointerInv, ReadingInv, Cast, Steps
<1>3. /\ DOMAIN e = Fields /\ e.text = Append(expr.text, s) /\ e.type = m.to /\ e.const = m.const
      /\ e.object = expr.object /\ e.at = expr.at
      /\ e.said = expr.said \cup JudgeCast(m.op, expr.type, expr.const, m.to, m.const)
      /\ e.slips = expr.slips \cup Say("by_char", "char" \in {expr.type, m.to} /\ expr.type # m.to)
  BY <1>2 DEF Cast, ExprInv, Fields
<1>4. Allowed(m.op, expr.type, expr.const, m.to, m.const)
  BY DEF Cast
<1> HIDE DEF e, s
<1>5. GoodText(e.text, D) /\ e.object = ObjectOf(e.text, holds) /\ Known(e.object) /\ ~ArrayName(e.text)
  <2>1. GoodText(expr.text, D) /\ expr.object = ObjectOf(expr.text, holds) /\ Known(expr.object)
    BY <1>2 DEF ExprInv
  <2>2. /\ GoodText(Append(expr.text, s), D) /\ Len(Append(expr.text, s)) > 1
        /\ ObjectOf(Append(expr.text, s), holds) = ObjectOf(expr.text, holds)
    BY <1>1, <2>1, MoreText
  <2>3. Len(Append(expr.text, s)) # 1
    BY <2>2
  <2> QED BY <1>3, <2>1, <2>2, <2>3 DEF ArrayName
<1>6. CastsSaid(e)
  BY <1>1, <1>2, <1>3, <1>4, CastSaid DEF ExprInv
<1>7. BoundsSaid(e) /\ UnknownSaid(e) /\ ArraySaid(e)
  BY <1>2, <1>3, SaidMore DEF ExprInv
<1> QED BY <1>1, <1>2, <1>3, <1>5, <1>6, <1>7 DEF ExprInv, e
-----------------------------------------------------------------------------
\* What a step leaves alone.

LEMMA UsedMore ==
  ASSUME NEW v, NEW d, NEW h, NEW D, NEW H, NEW U, NEW W, U \subseteq W, HoldInv(v, d, h, D, H, U)
  PROVE  HoldInv(v, d, h, D, H, W)
<1>1. d.init # <<>> => v \in W \/ LeafUsed(d.init, W) \/ h.object = ObjectOf(d.init, H)
  BY DEF HoldInv, LeafUsed
<1> QED BY <1>1 DEF HoldInv

LEMMA SameVariables ==
  ASSUME VariablesInv, UNCHANGED <<declared, holds>>, used \subseteq used',
         used' \subseteq DOMAIN Pointers \cup DOMAIN Heap
  PROVE  VariablesInv'
<1>1. ASSUME NEW v \in DOMAIN declared
      PROVE  HoldInv(v, declared[v], holds[v], DOMAIN declared, holds, used')
  BY UsedMore DEF VariablesInv
<1> QED BY <1>1 DEF VariablesInv

LEMMA SameCells == ASSUME CellsInv, cells \subseteq cells' PROVE CellsInv'
BY DEF CellsInv, ElementsOf, IsObject, IsArray

LEMMA NotSearching == ASSUME ~Searching, search' = search PROVE SearchInv'
BY DEF SearchInv, Searching

LEMMA NothingJudged == ASSUME verdict' = NoVerdict PROVE SubtractionsExact'
BY DEF SubtractionsExact, NoVerdict

LEMMA SameVerdict == ASSUME SubtractionsExact, verdict' = verdict PROVE SubtractionsExact'
BY DEF SubtractionsExact

LEMMA SameEvent == ASSUME EventsAnnounced, event' = event PROVE EventsAnnounced'
BY DEF EventsAnnounced

LEMMA NextEvent ==
  ASSUME EventsAnnounced, NEW kind, NEW e, NEW f, Happens(kind, e, f),
         kind # "none" => AnnouncedEvent([kind |-> kind, to |-> e, from |-> f])
  PROVE  EventsAnnounced'
<1>1. CASE event' = event
  BY <1>1 DEF EventsAnnounced
<1>2. CASE event' # event
  <2>1. kind # "none" /\ event' = [kind |-> kind, to |-> e, from |-> f]
    BY <1>2 DEF Happens
  <2> QED BY <2>1 DEF EventsAnnounced
<1> QED BY <1>1, <1>2

\* A step of an expression.
LEMMA ReadingKeeps ==
  ASSUME PointerInv, Reading, Ready, ExprInv(expr', DOMAIN declared, holds), EventsAnnounced',
         used' = used \/ \E o \in DOMAIN Heap : used' = used \cup {o}, cells' = cells
  PROVE  PointerInv'
<1>1. /\ UNCHANGED <<fragment, left, declared, holds, search, statements>> /\ verdict' = NoVerdict
      /\ ~Searching
  BY DEF Reading, Ready
<1>2. VariablesInv'
  <2>1. used \subseteq used' /\ used' \subseteq DOMAIN Pointers \cup DOMAIN Heap
    BY DEF PointerInv, VariablesInv
  <2> QED BY <1>1, <2>1, SameVariables DEF PointerInv
<1>3. ReadingInv'
  BY <1>1 DEF PointerInv, ReadingInv
<1> QED
  BY <1>1, <1>2, <1>3, SameCells, NotSearching, NothingJudged DEF PointerInv

LEMMA ReadingSteps ==
  ASSUME PointerInv
  PROVE  /\ \A v \in DOMAIN Objects \cup DOMAIN Pointers : Name(v) \/ AddressOf(v) => PointerInv'
         /\ \A o \in DOMAIN Heap : New(o) => PointerInv'
         /\ Number => PointerInv'
         /\ \A n \in Counts : Element(n) \/ (\E op \in {"plus", "minus"} : Plus(op, n)) => PointerInv'
         /\ \A m \in fragment.moves : m.op \in ExplicitCasts /\ Cast(m.op, m.to, m.const) => PointerInv'
<1>1. ASSUME NEW v \in DOMAIN Objects \cup DOMAIN Pointers, Name(v) PROVE PointerInv'
  <2>1. Reading /\ Ready /\ used' = used /\ cells' = cells
    BY <1>1 DEF Name, Begins
  <2> QED BY <1>1, <2>1, NameRead, ReadingKeeps DEF EventsAnnounced
<1>2. ASSUME NEW v \in DOMAIN Objects \cup DOMAIN Pointers, AddressOf(v) PROVE PointerInv'
  <2>1. Reading /\ Ready /\ used' = used /\ cells' = cells /\ event' = event
    BY <1>2 DEF AddressOf, Begins
  <2> QED BY <1>2, <2>1, AddressRead, ReadingKeeps, SameEvent DEF PointerInv
<1>3. ASSUME NEW o \in DOMAIN Heap, New(o) PROVE PointerInv'
  <2>1. Reading /\ Ready /\ used' = used \cup {o} /\ cells' = cells /\ event' = event
    BY <1>3 DEF New, Begins
  <2> QED BY <1>3, <2>1, NewRead, ReadingKeeps, SameEvent DEF PointerInv
<1>4. ASSUME Number PROVE PointerInv'
  <2>1. Reading /\ Ready /\ used' = used /\ cells' = cells /\ event' = event
    BY <1>4 DEF Number, Begins
  <2> QED BY <1>4, <2>1, NumberRead, ReadingKeeps, SameEvent DEF PointerInv
<1>5. ASSUME NEW n \in Counts, Element(n) PROVE PointerInv'
  <2>1. Reading /\ Ready /\ used' = used /\ cells' = cells
    BY <1>5 DEF Element, Steps
  <2> QED BY <1>5, <2>1, ElementRead, ReadingKeeps DEF EventsAnnounced
<1>6. ASSUME NEW n \in Counts, NEW op \in {"plus", "minus"}, Plus(op, n) PROVE PointerInv'
  <2>1. Reading /\ Ready /\ used' = used /\ cells' = cells
    BY <1>6 DEF Plus, Steps
  <2> QED BY <1>6, <2>1, PlusRead, ReadingKeeps DEF EventsAnnounced
<1>7. ASSUME NEW m \in fragment.moves, m.op \in ExplicitCasts, Cast(m.op, m.to, m.const) PROVE PointerInv'
  <2>1. Reading /\ Ready /\ used' = used /\ cells' = cells /\ event' = event
    BY <1>7 DEF Cast, Steps
  <2> QED BY <1>7, <2>1, CastRead, ReadingKeeps, SameEvent DEF PointerInv
<1> QED BY <1>1, <1>2, <1>3, <1>4, <1>5, <1>6, <1>7

LEMMA FirstOperandStep == ASSUME PointerInv, FirstOperand PROVE PointerInv'
<1>1. /\ expr # NoExpr /\ left' = expr /\ expr' = NoExpr /\ ~Searching
      /\ UNCHANGED <<fragment, declared, holds, used, cells, search, verdict, event>>
  BY DEF FirstOperand, Ready
<1>2. ReadingInv'
  BY <1>1 DEF PointerInv, ReadingInv
<1>3. VariablesInv'
  BY <1>1, SameVariables DEF PointerInv, VariablesInv
<1> QED BY <1>1, <1>2, <1>3, SameCells, NotSearching, SameVerdict, SameEvent DEF PointerInv

-----------------------------------------------------------------------------
\* The statements that leave the variables alone.

LEMMA EndKeeps ==
  ASSUME PointerInv, ~Searching, expr' = NoExpr, left' = NoExpr,
         UNCHANGED <<fragment, declared, holds, used, verdict>>, cells \subseteq cells',
         SearchInv', EventsAnnounced'
  PROVE  PointerInv'
<1>1. VariablesInv'
  BY SameVariables DEF PointerInv, VariablesInv
<1>2. ReadingInv'
  BY DEF ReadingInv
<1> QED BY <1>1, <1>2, SameCells, SameVerdict DEF PointerInv

\* Index 0 without a subscript: a pointer that was never moved is where it points.
LEMMA AccessStep ==
  ASSUME PointerInv, NEW i \in Counts, NEW subscript \in BOOLEAN, NEW writes \in BOOLEAN,
         subscript \/ i = 0, Access(i, subscript, writes)
  PROVE  PointerInv'
<1> DEFINE t == expr.text
           o == expr.object
           e == [expr EXCEPT
                  !.said = @ \cup (IF subscript THEN Subscripted(t, i) ELSE TypePunning(t)),
                  !.slips = @ \cup Say("element_of_element",
                                       subscript /\ Subscripted(t, i) = {} /\ Len(t) > 1)]
           kind == AccessError(expr, i, writes)
<1>1. /\ expr # NoExpr /\ ~Searching /\ expr.type \notin {"word", "void"} /\ ~(writes /\ expr.const)
      /\ Happens(kind, e, NoExpr) /\ cells \subseteq cells' /\ Ended
      /\ UNCHANGED <<declared, holds, used, search, verdict, moves>>
  BY DEF Access, Uses, Ready
<1>2. ExprInv(expr, DOMAIN declared, holds)
  BY <1>1 DEF PointerInv, ReadingInv
<1>3. /\ e.object = o /\ e.at = expr.at /\ e.type = expr.type /\ e.const = expr.const
      /\ e.said = expr.said \cup (IF subscript THEN Subscripted(t, i) ELSE TypePunning(t))
      /\ e.slips = expr.slips \cup Say("element_of_element",
                                       subscript /\ Subscripted(t, i) = {} /\ Len(t) > 1)
  BY <1>2 DEF ExprInv, Fields
<1> HIDE DEF e
<1>4. CastsSaid(e) /\ UnknownSaid(e) /\ ArraySaid(e)
  BY <1>2, <1>3, SaidMore DEF ExprInv
<1>5. i \in Nat /\ expr.at \in Int
  BY <1>2 DEF Counts, ExprInv
<1>6. ASSUME kind = "bounds" PROVE AnnouncedEvent([kind |-> kind, to |-> e, from |-> NoExpr])
  <2>1. Located(o) /\ expr.at + i \notin 0 .. ElementsOf(o) - 1
    BY <1>6 DEF AccessError
  <2>2. CASE subscript
    BY <1>2, <1>3, <1>5, <1>6, <2>1, <2>2, HeldDomain, SubscriptSaid DEF AnnouncedEvent, PointerInv
  <2>3. CASE ~subscript
    <3>1. expr.at \notin 0 .. ElementsOf(o) - 1
      BY <1>5, <2>1, <2>3
    <3>2. BoundsSaid(expr)
      BY <1>2 DEF ExprInv
    <3> QED BY <1>3, <1>6, <2>1, <3>1, <3>2 DEF AnnouncedEvent, BoundsSaid
  <2> QED BY <2>2, <2>3
<1>7. ASSUME kind = "type" PROVE AnnouncedEvent([kind |-> kind, to |-> e, from |-> NoExpr])
  <2>1. Located(o) /\ expr.type \notin {"void", TypeOf(o)}
    BY <1>1, <1>7 DEF AccessError
  <2> QED BY <1>3, <1>4, <1>7, <2>1 DEF AnnouncedEvent, CastsSaid, TypeSaid
<1>8. ASSUME kind = "const" PROVE AnnouncedEvent([kind |-> kind, to |-> e, from |-> NoExpr])
  <2>1. IsObject(o) /\ Objects[o].const /\ ~expr.const
    BY <1>1, <1>8 DEF AccessError
  <2> QED BY <1>3, <1>4, <1>8, <2>1 DEF AnnouncedEvent, CastsSaid, ConstSaid
<1>9. ASSUME kind = "wild" PROVE AnnouncedEvent([kind |-> kind, to |-> e, from |-> NoExpr])
  <2>1. ~Located(o)
    BY <1>9 DEF AccessError
  <2>2. o \in {"word", "null", "unknown"}
    BY <1>2, <2>1 DEF ExprInv, Known
  <2> QED BY <1>1, <1>3, <1>4, <1>9, <2>2 DEF AnnouncedEvent, CastsSaid, WordSaid, UnknownSaid
<1>10. ASSUME kind = "no_value" PROVE AnnouncedEvent([kind |-> kind, to |-> e, from |-> NoExpr])
  <2> SUFFICES ASSUME IsObject(o)
               PROVE  IF IsArray(o) THEN "UninitializedRead" \in e.said
                      ELSE "UninitializedAutoVar" \in DeclarationOf(o, Objects[o].init)
    BY <1>3, <1>10 DEF AnnouncedEvent
  <2>1. /\ expr.at + i \in 0 .. ElementsOf(o) - 1 /\ <<o, expr.at + i>> \notin cells
    BY <1>10 DEF AccessError
  <2>2. ~(Objects[o].init \/ Objects[o].static)
    BY <2>1 DEF PointerInv, CellsInv, IsObject
  <2>3. Automatic(o) /\ ~Objects[o].init
    BY <2>2 DEF Automatic
  <2>4. CASE IsArray(o)
    BY <1>3, <1>4, <2>3, <2>4 DEF ArraySaid
  <2>5. CASE ~IsArray(o)
    BY <2>3, <2>5 DEF DeclarationOf, UninitializedAutoVar, Say
  <2> QED BY <2>4, <2>5
<1>11. kind \in {"none", "wild", "bounds", "type", "const", "no_value"}
  BY DEF AccessError
<1> HIDE DEF kind
<1>12. EventsAnnounced'
  BY <1>1, <1>6, <1>7, <1>8, <1>9, <1>10, <1>11, NextEvent DEF PointerInv
<1>13. SearchInv'
  BY <1>1, NotSearching
<1> QED BY <1>1, <1>12, <1>13, EndKeeps DEF Ended
\* A report that is always made.
LEMMA CompareStep == ASSUME PointerInv, Compare PROVE PointerInv'
<1> DEFINE e == [left EXCEPT !.said = @ \cup PointerArithmeticBounds]
           kind == IF left.object # expr.object THEN "unrelated" ELSE "none"
<1>1. /\ ~Searching /\ left # NoExpr /\ Happens(kind, e, expr) /\ Ended
      /\ UNCHANGED <<declared, holds, used, cells, search, verdict, moves>>
  BY DEF Compare, Uses, Ready, Alone
<1>2. DOMAIN left = Fields
  BY <1>1 DEF PointerInv, ReadingInv, ExprInv
<1>3. "PointerArithmeticBounds" \in e.said
  BY <1>2 DEF Fields, PointerArithmeticBounds
<1> HIDE DEF e
<1>4. kind # "none" => AnnouncedEvent([kind |-> kind, to |-> e, from |-> expr])
  BY <1>3 DEF AnnouncedEvent
<1> HIDE DEF kind
<1> QED BY <1>1, <1>4, NextEvent, NotSearching, EndKeeps DEF Ended, PointerInv

LEMMA SubtractStep == ASSUME PointerInv, Subtract PROVE PointerInv'
<1> DEFINE said == PointerArithmeticBounds \cup PointerArithmeticC25 \cup WrongPointerArithmetic(left.text)
           e == [left EXCEPT !.said = @ \cup said]
           kind == IF left.object # expr.object THEN "unrelated" ELSE "none"
<1>1. /\ ~Searching /\ left # NoExpr /\ expr # NoExpr /\ Happens(kind, e, expr) /\ Ended
      /\ search' = [ends |-> <<left.text, expr.text>>, via |-> {}, same |-> left.object = expr.object]
      /\ UNCHANGED <<declared, holds, used, cells, verdict, moves>>
  BY DEF Subtract, Uses, Ready, Alone
<1>2. ExprInv(left, DOMAIN declared, holds) /\ ExprInv(expr, DOMAIN declared, holds)
  BY <1>1 DEF PointerInv, ReadingInv
<1>3. "PointerArithmeticBounds" \in e.said
  BY <1>2 DEF ExprInv, Fields, PointerArithmeticBounds
<1> HIDE DEF e
<1>4. kind # "none" => AnnouncedEvent([kind |-> kind, to |-> e, from |-> expr])
  BY <1>3 DEF AnnouncedEvent
<1> HIDE DEF kind
<1>5. EventsAnnounced'
  BY <1>1, <1>4, NextEvent DEF PointerInv
<1>6. /\ DOMAIN search' = {"ends", "via", "same"} /\ DOMAIN search'.ends = 1 .. 2
      /\ search'.ends[1] = left.text /\ search'.ends[2] = expr.text
      /\ search'.same <=> left.object = expr.object
  <2> DEFINE one == (left.object = expr.object)
             pair == <<left.text, expr.text>>
  <2>1. DOMAIN pair = 1 .. 2 /\ pair[1] = left.text /\ pair[2] = expr.text
    OBVIOUS
  <2>2. search' = [ends |-> pair, via |-> {}, same |-> one]
    BY <1>1
  <2> HIDE DEF one, pair
  <2>3. DOMAIN search' = {"ends", "via", "same"} /\ search'.ends = pair
    BY <2>2
  <2>4. search'.same = one
    BY <2>2
  <2> QED BY <2>1, <2>3, <2>4 DEF one
<1>7. /\ GoodText(left.text, DOMAIN declared) /\ left.object = ObjectOf(left.text, holds)
      /\ GoodText(expr.text, DOMAIN declared) /\ expr.object = ObjectOf(expr.text, holds)
  BY <1>2 DEF ExprInv
<1>8. \A i \in 1 .. 2 : GoodText(search'.ends[i], DOMAIN declared)
  BY <1>6, <1>7
<1>9. search'.same <=> ObjectOf(search'.ends[1], holds) = ObjectOf(search'.ends[2], holds)
  BY <1>6, <1>7
<1>10. SearchInv'
  BY <1>1, <1>6, <1>8, <1>9 DEF SearchInv
<1> QED BY <1>1, <1>5, <1>10, EndKeeps DEF Ended

\* Two texts of one variable, with or without an offset.
LEMMA OffsetsOverlap ==
  ASSUME NEW D, NEW s, NEW t, GoodText(s, D), GoodText(t, D), Offset(s), Offset(t), s[1] = t[1]
  PROVE  "OverlappingCopy" \in JudgeCopy(s, t)
<1>1. ASSUME NEW u, GoodText(u, D), Offset(u)
      PROVE  CopyBase(u) = <<u[1]>> /\ ~Ends(u, {"minus"}) /\ u[1].op = "name"
  <2>1. Len(u) \in Nat \ {0} /\ u # <<>> /\ Len(u) <= 2 /\ u[1].op = "name" /\ (Len(u) = 2 => u[2].op = "plus")
    BY <1>1, TextLength DEF Offset
  <2>2. PICK T : u \in Seq(T)
    BY <1>1 DEF GoodText
  <2>3. CASE Len(u) = 1
    <3>1. ~Ends(u, {"plus"}) /\ ~Ends(u, {"minus"})
      BY <2>1, <2>3 DEF Ends, Last
    <3>2. u = <<u[1]>>
      BY <2>2, <2>3
    <3> QED BY <2>1, <3>1, <3>2 DEF CopyBase
  <2>4. CASE Len(u) = 2
    <3>1. Ends(u, {"plus"}) /\ ~Ends(u, {"minus"})
      BY <2>1, <2>4 DEF Ends, Last
    <3>2. /\ SubSeq(u, 1, 1) \in Seq(T) /\ Len(SubSeq(u, 1, 1)) = 1
          /\ SubSeq(u, 1, 1)[1] = u[1]
      <4>1. \A i \in 1 .. 1 : u[i] \in T
        BY <2>2, <2>4, ElementOfSeq
      <4> QED BY <4>1, SubSeqProperties
    <3>3. Front(u) = SubSeq(u, 1, 1)
      BY <2>4 DEF Front
    <3> HIDE DEF Front
    <3>4. ASSUME NEW w, w \in Seq(T), Len(w) = 1, w[1] = u[1] PROVE w = <<u[1]>>
      BY <3>4
    <3>5. Front(u) = <<u[1]>>
      BY <3>2, <3>3, <3>4
    <3> QED BY <2>1, <3>1, <3>5 DEF CopyBase
  <2>5. Len(u) = 1 \/ Len(u) = 2
    <3>1. Len(u) \in Nat \ {0} /\ Len(u) <= 2
      BY <2>1
    <3>2. ASSUME NEW n \in Nat \ {0}, n <= 2 PROVE n = 1 \/ n = 2
      BY <3>2
    <3> QED BY <3>1, <3>2
  <2> QED BY <2>3, <2>4, <2>5
<1> DEFINE b == <<s[1]>>
<1>2. CopyBase(s) = b /\ CopyBase(t) = b /\ ~Ends(s, {"minus"}) /\ ~Ends(t, {"minus"}) /\ s[1].op = "name"
  BY <1>1
<1>3. DOMAIN b = {1} /\ b[1].op = "name"
  BY <1>2
<1> HIDE DEF b
<1>4. SameObject(b, b)
  BY <1>3 DEF SameObject
<1>5. SameObject(CopyBase(s), CopyBase(t))
  BY <1>2, <1>4
<1>6. OverlappingCopy(s, t) = {"OverlappingCopy"}
  BY <1>2, <1>5 DEF OverlappingCopy, Say
<1> QED BY <1>6 DEF JudgeCopy

LEMMA CopyStep == ASSUME PointerInv, NEW n \in 1 .. 2, Copy(n) PROVE PointerInv'
<1> DEFINE e == [left EXCEPT !.said = @ \cup JudgeCopy(left.text, expr.text)]
           kind == IF left.object = expr.object /\ left.at - expr.at \in -n + 1 .. n - 1 THEN "overlap" ELSE "none"
<1>1. /\ ~Searching /\ left # NoExpr /\ expr # NoExpr /\ Happens(kind, e, expr) /\ Ended
      /\ cells \subseteq cells' /\ UNCHANGED <<declared, holds, used, search, verdict, moves>>
  BY DEF Copy, Uses, Ready, Alone
<1>2. ExprInv(left, DOMAIN declared, holds) /\ ExprInv(expr, DOMAIN declared, holds)
  BY <1>1 DEF PointerInv, ReadingInv
<1>3. /\ GoodText(left.text, DOMAIN declared) /\ GoodText(expr.text, DOMAIN declared)
      /\ DOMAIN left = Fields
  BY <1>2 DEF ExprInv
<1>4. e.said = left.said \cup JudgeCopy(left.text, expr.text) /\ e.text = left.text
  BY <1>3 DEF Fields
<1> HIDE DEF e
<1>5. kind # "none" => AnnouncedEvent([kind |-> kind, to |-> e, from |-> expr])
  <2>1. Offset(left.text) /\ Offset(expr.text) /\ left.text[1] = expr.text[1] =>
          "OverlappingCopy" \in e.said
    BY <1>3, <1>4, OffsetsOverlap
  <2> QED BY <1>4, <2>1 DEF AnnouncedEvent
<1> HIDE DEF kind
<1> QED BY <1>1, <1>5, NextEvent, NotSearching, EndKeeps DEF Ended, PointerInv

LEMMA LeaveStep == ASSUME PointerInv, NEW how \in {"return", "throw"}, Leave(how) PROVE PointerInv'
<1>1. PICK cast \in (IF how = "return" /\ ~expr.const THEN BOOLEAN ELSE {FALSE}) :
        LET said == IF how = "return" THEN JudgeReturn(expr.text, cast) ELSE ReturnLocalAddress(expr.text, cast)
        IN  Happens(IF OnStack(expr) THEN how ELSE "none", [expr EXCEPT !.said = said], NoExpr)
  BY DEF Leave
<1> DEFINE said == IF how = "return" THEN JudgeReturn(expr.text, cast) ELSE ReturnLocalAddress(expr.text, cast)
           e == [expr EXCEPT !.said = said]
           kind == IF OnStack(expr) THEN how ELSE "none"
<1>2. /\ ~Searching /\ expr # NoExpr /\ expr' = NoExpr /\ left' = NoExpr /\ Happens(kind, e, NoExpr)
      /\ UNCHANGED <<fragment, left, declared, holds, used, cells, search, verdict, moves>>
  BY <1>1 DEF Leave, Uses, Ready, Alone
<1>3. ExprInv(expr, DOMAIN declared, holds)
  BY <1>2 DEF PointerInv, ReadingInv
<1>4. e.said = said /\ e.text = expr.text
  BY <1>3 DEF ExprInv, Fields
<1> HIDE DEF e
<1>5. how = "throw" => cast = FALSE
  BY <1>1
<1>6. how = "throw" /\ AddressOfLocal(e.text) => "ReturnLocalAddress" \in e.said
  BY <1>4, <1>5 DEF ReturnLocalAddress, Say
<1>7. how = "return" /\ Direct(e.text) /\ Automatic(e.text[1].arg) => "DanglingReference" \in e.said
  BY <1>4 DEF JudgeReturn, DanglingReference, ReferencedLocalVar, Direct, Say
<1>8. kind # "none" => AnnouncedEvent([kind |-> kind, to |-> e, from |-> NoExpr])
  BY <1>6, <1>7 DEF AnnouncedEvent
<1> HIDE DEF kind
<1> QED BY <1>2, <1>8, NextEvent, NotSearching, EndKeeps DEF PointerInv

LEMMA DiscardStep == ASSUME PointerInv, Discard PROVE PointerInv'
<1>1. /\ ~Searching /\ Ended
      /\ UNCHANGED <<declared, holds, used, cells, search, verdict, event, moves>>
  BY DEF Discard, Ready
<1> QED BY <1>1, SameEvent, NotSearching, EndKeeps DEF Ended, PointerInv
-----------------------------------------------------------------------------
\* The statements that change a variable.

\* A new variable does not change what a text leads to, nor what is held otherwise.
LEMMA TextOfMore ==
  ASSUME NEW D, NEW H, NEW t, GoodText(t, D), DOMAIN H = D, D \subseteq DOMAIN Pointers, NEW v,
         v \notin D, v \in DOMAIN Pointers, NEW K, DOMAIN K = D \cup {v}, \A u \in D : K[u] = H[u]
  PROVE  GoodText(t, D \cup {v}) /\ ObjectOf(t, K) = ObjectOf(t, H)
<1>1. GoodText(t, D \cup {v})
  BY DEF GoodText, Leaf
<1>2. t[1].op = "name" => t[1].arg # v
  BY NamesApart DEF GoodText, Leaf, IsArray, IsObject
<1>3. t[1].op = "name" /\ t[1].arg \in DOMAIN K => t[1].arg \in DOMAIN H /\ K[t[1].arg] = H[t[1].arg]
  BY <1>2
<1>4. t[1].op = "name" /\ t[1].arg \in DOMAIN H => t[1].arg \in DOMAIN K
  OBVIOUS
<1> QED BY <1>1, <1>3, <1>4 DEF ObjectOf

LEMMA HoldOfMore ==
  ASSUME NEW D, NEW H, DOMAIN H = D, D \subseteq DOMAIN Pointers, NEW v, v \notin D, v \in DOMAIN Pointers,
         NEW K, DOMAIN K = D \cup {v}, \A u \in D : K[u] = H[u],
         NEW u, NEW d, NEW h, NEW U, HoldInv(u, d, h, D, H, U)
  PROVE  HoldInv(u, d, h, D \cup {v}, K, U)
<1>1. d.init # <<>> => /\ GoodText(d.init, D \cup {v})
                       /\ u \in U \/ LeafUsed(d.init, U) \/ h.object = ObjectOf(d.init, K)
  BY TextOfMore DEF HoldInv
<1> QED BY <1>1 DEF HoldInv

\* A pointer is declared that holds h.
LEMMA DeclareKeeps ==
  ASSUME PointerInv, NEW v \in DOMAIN Pointers, v \notin DOMAIN declared, NEW d, NEW h,
         declared' = [u \in DOMAIN declared \cup {v} |-> IF u = v THEN d ELSE declared[u]],
         holds' = [u \in DOMAIN declared \cup {v} |-> IF u = v THEN h ELSE holds[u]],
         HoldInv(v, d, h, DOMAIN declared', holds', used),
         ~Searching, Ended, UNCHANGED <<used, cells, search, verdict, moves>>, EventsAnnounced'
  PROVE  PointerInv'
<1>1. /\ DOMAIN holds = DOMAIN declared /\ DOMAIN declared \subseteq DOMAIN Pointers
      /\ DOMAIN declared' = DOMAIN declared \cup {v} /\ DOMAIN holds' = DOMAIN declared \cup {v}
      /\ declared'[v] = d /\ holds'[v] = h
      /\ \A u \in DOMAIN declared : declared'[u] = declared[u] /\ holds'[u] = holds[u]
  BY DEF PointerInv, VariablesInv
<1>2. ASSUME NEW u \in DOMAIN declared'
      PROVE  HoldInv(u, declared'[u], holds'[u], DOMAIN declared', holds', used)
  <2>1. CASE u = v
    BY <1>1, <2>1
  <2>2. CASE u # v
    <3>1. u \in DOMAIN declared /\ HoldInv(u, declared[u], holds[u], DOMAIN declared, holds, used)
      BY <1>1, <2>2 DEF PointerInv, VariablesInv
    <3>2. HoldInv(u, declared[u], holds[u], DOMAIN declared \cup {v}, holds', used)
      BY <1>1, <3>1, HoldOfMore
    <3> QED BY <1>1, <3>1, <3>2
  <2> QED BY <2>1, <2>2
<1>3. VariablesInv'
  BY <1>1, <1>2 DEF VariablesInv, PointerInv
<1>4. ReadingInv'
  BY DEF ReadingInv, Ended
<1> QED BY <1>3, <1>4, NotSearching, SameCells, SameVerdict DEF PointerInv, Ended

\* What a pointer that has been read leaves in a variable of its type.
LEMMA HeldExpr ==
  ASSUME NEW D, NEW H, NEW e, ExprInv(e, D, H), e.type # "word",
         NEW h, DOMAIN h = Fields, h.type = e.type, h.const = e.const, h.object = e.object, h.at = e.at,
         e.said \subseteq h.said, h.slips = e.slips
  PROVE  /\ Known(h.object) /\ h.at \in Int /\ h.const \in BOOLEAN
         /\ BoundsSaid(h) /\ CastsSaid(h) /\ UnknownSaid(h) /\ ArraySaid(h)
BY SaidMore DEF ExprInv

\* An automatic object in a static pointer.
LEMMA KeptSaid ==
  ASSUME NEW v, NEW e, Pointers[v] => AutoAddressEscape(e.text) \subseteq e.said
  PROVE  LET kind == IF Pointers[v] /\ OnStack(e) THEN "kept" ELSE "none"
         IN  kind # "none" => AnnouncedEvent([kind |-> kind, to |-> e, from |-> NoExpr])
<1>1. Pointers[v] /\ AddressOfLocal(e.text) => "AutoAddressEscape" \in e.said
  BY DEF AutoAddressEscape, Say
<1> QED BY <1>1 DEF AnnouncedEvent

LEMMA DeclareStep == ASSUME PointerInv, NEW v \in DOMAIN Pointers, Declare(v) PROVE PointerInv'
<1> DEFINE D == DOMAIN declared
           d == [init |-> expr.text, type |-> expr.type, const |-> expr.const]
           e == [expr EXCEPT !.said = @ \cup (IF Pointers[v] THEN AutoAddressEscape(expr.text) ELSE {})]
           kind == IF Pointers[v] /\ OnStack(e) THEN "kept" ELSE "none"
<1>1. /\ ~Searching /\ expr # NoExpr /\ v \notin D /\ expr.type # "word" /\ Ended
      /\ declared' = [u \in D \cup {v} |-> IF u = v THEN d ELSE declared[u]]
      /\ holds' = [u \in DOMAIN declared' |-> IF u = v THEN e ELSE holds[u]]
      /\ Happens(kind, e, NoExpr)
      /\ UNCHANGED <<used, cells, search, verdict, moves>>
  BY DEF Declare, Uses, Ready
<1>2. DOMAIN declared' = D \cup {v} /\ holds' = [u \in D \cup {v} |-> IF u = v THEN e ELSE holds[u]]
  BY <1>1
<1>3. /\ ExprInv(expr, D, holds) /\ DOMAIN holds = D /\ D \subseteq DOMAIN Pointers
  BY <1>1 DEF PointerInv, ReadingInv, VariablesInv
<1>4. /\ DOMAIN e = Fields /\ e.text = expr.text /\ e.type = expr.type /\ e.const = expr.const
      /\ e.object = expr.object /\ e.at = expr.at /\ e.slips = expr.slips
      /\ e.said = expr.said \cup (IF Pointers[v] THEN AutoAddressEscape(expr.text) ELSE {})
  BY <1>3 DEF ExprInv, Fields
<1>5. d.init = expr.text /\ d.type = expr.type /\ d.const = expr.const
  OBVIOUS
<1> HIDE DEF d, e
<1>6. EventsAnnounced'
  BY <1>1, <1>4, KeptSaid, NextEvent DEF PointerInv
<1>7. /\ Known(e.object) /\ e.at \in Int /\ e.const \in BOOLEAN
      /\ BoundsSaid(e) /\ CastsSaid(e) /\ UnknownSaid(e) /\ ArraySaid(e)
  BY <1>1, <1>3, <1>4, HeldExpr
<1>8. /\ DOMAIN holds' = D \cup {v} /\ \A u \in D : holds'[u] = holds[u]
  BY <1>1, <1>2
<1>9. GoodText(expr.text, D) /\ expr.object = ObjectOf(expr.text, holds)
  BY <1>3 DEF ExprInv
<1>10. GoodText(expr.text, D \cup {v}) /\ expr.object = ObjectOf(expr.text, holds')
  BY <1>1, <1>3, <1>8, <1>9, TextOfMore
<1>11. HoldInv(v, d, e, D \cup {v}, holds', used)
  BY <1>1, <1>4, <1>5, <1>7, <1>10 DEF HoldInv
<1> HIDE DEF kind
<1> QED BY <1>1, <1>2, <1>6, <1>11, DeclareKeeps

LEMMA DeclareEmptyStep ==
  ASSUME PointerInv, NEW v \in DOMAIN Pointers, NEW init \in {<<>>, <<S("name", v)>>}, DeclareEmpty(v, init)
  PROVE  PointerInv'
<1> DEFINE D == DOMAIN declared
           d == [init |-> init, type |-> "int", const |-> FALSE]
           e == [NoExpr EXCEPT !.object = IF Pointers[v] THEN "null" ELSE "unknown", !.said = DeclarationOf(v, init # <<>>),
                               !.slips = Say("with_itself", init # <<>>)]
           kind == IF init = <<>> THEN "none" ELSE "wild"
<1>1. /\ ~Searching /\ v \notin D /\ (Pointers[v] => init = <<>>) /\ Ended
      /\ declared' = [u \in D \cup {v} |-> IF u = v THEN d ELSE declared[u]]
      /\ holds' = [u \in DOMAIN declared' |-> IF u = v THEN e ELSE holds[u]]
      /\ Happens(kind, e, NoExpr)
      /\ UNCHANGED <<used, cells, search, verdict, moves>>
  BY DEF DeclareEmpty, Begins, Ready
<1>2. DOMAIN declared' = D \cup {v} /\ holds' = [u \in D \cup {v} |-> IF u = v THEN e ELSE holds[u]]
  BY <1>1
<1>3. DOMAIN holds = D /\ D \subseteq DOMAIN Pointers
  BY DEF PointerInv, VariablesInv
<1>4. /\ DOMAIN e = Fields /\ e.object = (IF Pointers[v] THEN "null" ELSE "unknown") /\ e.at = 0
      /\ e.slips = Say("with_itself", init # <<>>)
  BY NoExprFields DEF Fields
<1>5. d.init = init /\ d.type = "int" /\ d.const = FALSE
  OBVIOUS
<1>6. d.const \in BOOLEAN
  BY <1>5, Zenon
<1> HIDE DEF d, e
<1>7. init # <<>> => "with_itself" \in e.slips
  BY <1>4 DEF Say
<1>8. EventsAnnounced'
  <2>1. kind # "none" => AnnouncedEvent([kind |-> kind, to |-> e, from |-> NoExpr])
    BY <1>7 DEF AnnouncedEvent
  <2> HIDE DEF kind
  <2> QED BY <1>1, <2>1, NextEvent DEF PointerInv
<1>9. e.object \in {"null", "unknown"} /\ Known(e.object) /\ e.at \in Int
      /\ ~Located(e.object) /\ ~IsObject(e.object) /\ ~IsArray(e.object)
  BY <1>4, NamesApart DEF Known, Located, IsArray, IsObject
<1>10. BoundsSaid(e) /\ CastsSaid(e) /\ ArraySaid(e)
  BY <1>9 DEF BoundsSaid, CastsSaid, TypeSaid, ConstSaid, WordSaid, ArraySaid
<1>11. UnknownSaid(e) \/ (d.init = <<>> /\ Automatic(v))
  <2>1. CASE Pointers[v]
    BY <1>4, <2>1 DEF UnknownSaid
  <2>2. CASE ~Pointers[v] /\ init = <<>>
    BY <1>5, <2>2, NamesApart DEF Automatic, IsObject
  <2>3. CASE init # <<>>
    BY <1>7, <2>3 DEF UnknownSaid
  <2> QED BY <2>1, <2>2, <2>3
<1>12. init # <<>> => GoodText(init, D \cup {v}) /\ e.object = ObjectOf(init, holds')
  <2> DEFINE l == S("name", v)
  <2>1. l.op = "name" /\ l.arg = v
    BY DEF S
  <2>2. Leaf(l, D \cup {v})
    BY <2>1 DEF Leaf
  <2>3. init # <<>> => init = <<l>>
    OBVIOUS
  <2> HIDE DEF l
  <2>4. GoodText(<<l>>, D \cup {v}) /\ <<l>>[1] = l
    BY <2>2, LeafText
  <2>5. v \in DOMAIN holds' /\ holds'[v] = e
    BY <1>2
  <2> QED BY <2>1, <2>3, <2>4, <2>5 DEF ObjectOf
<1>13. HoldInv(v, d, e, D \cup {v}, holds', used)
  BY <1>4, <1>5, <1>6, <1>9, <1>10, <1>11, <1>12 DEF HoldInv
<1> HIDE DEF kind
<1> QED BY <1>1, <1>2, <1>8, <1>13, DeclareKeeps

LEMMA AssignStep == ASSUME PointerInv, NEW v \in DOMAIN Pointers, Assign(v) PROVE PointerInv'
<1> DEFINE D == DOMAIN declared
           name == <<S("name", v)>>
           e == [expr EXCEPT !.said = @ \cup OverlappingAssignment(name, expr.text)
                                        \cup Say("OverlappingCopy", SameObject(name, expr.text))
                                        \cup (IF Pointers[v] THEN AutoAddressEscape(expr.text) ELSE {})]
           kind == IF Pointers[v] /\ OnStack(e) THEN "kept" ELSE "none"
<1>1. /\ ~Searching /\ expr # NoExpr /\ v \in D /\ Ended
      /\ expr.type = declared[v].type /\ (expr.const => declared[v].const)
      /\ holds' = [holds EXCEPT ![v] = e] /\ used' = used \cup {v}
      /\ Happens(kind, e, NoExpr)
      /\ UNCHANGED <<declared, cells, search, verdict, moves>>
  BY DEF Assign, Uses, Ready
<1>2. ExprInv(expr, D, holds) /\ DOMAIN holds = D
  BY <1>1 DEF PointerInv, ReadingInv, VariablesInv
<1>3. /\ DOMAIN e = Fields /\ e.text = expr.text /\ e.type = expr.type /\ e.const = expr.const
      /\ e.object = expr.object /\ e.at = expr.at /\ e.slips = expr.slips
      /\ e.said = expr.said \cup OverlappingAssignment(name, expr.text)
                            \cup Say("OverlappingCopy", SameObject(name, expr.text))
                            \cup (IF Pointers[v] THEN AutoAddressEscape(expr.text) ELSE {})
  BY <1>2 DEF ExprInv, Fields
<1> HIDE DEF e, name
<1>4. EventsAnnounced'
  BY <1>1, <1>3, KeptSaid, NextEvent DEF PointerInv
<1>5. DOMAIN holds' = D /\ holds'[v] = e /\ \A u \in D : u # v => holds'[u] = holds[u]
  BY <1>1, <1>2
<1>6. ASSUME NEW u \in D
      PROVE  HoldInv(u, declared[u], holds'[u], D, holds', used')
  <2>1. HoldInv(u, declared[u], holds[u], D, holds, used)
    BY DEF PointerInv, VariablesInv
  <2>2. CASE u = v
    <3>1. declared[v].type # "word" /\ declared[v].const \in BOOLEAN
          /\ (declared[v].init # <<>> => GoodText(declared[v].init, D))
      BY <2>1, <2>2 DEF HoldInv
    <3>2. /\ Known(e.object) /\ e.at \in Int /\ e.const \in BOOLEAN
          /\ BoundsSaid(e) /\ CastsSaid(e) /\ UnknownSaid(e) /\ ArraySaid(e)
      BY <1>1, <1>2, <1>3, <3>1, HeldExpr
    <3>3. v \in used'
      BY <1>1
    <3> QED BY <1>1, <1>3, <1>5, <2>2, <3>1, <3>2, <3>3 DEF HoldInv
  <2>3. CASE u # v
    <3>1. holds'[u] = holds[u]
      BY <1>5, <2>3
    <3>2. declared[u].init # <<>> =>
            u \in used' \/ LeafUsed(declared[u].init, used') \/ holds[u].object = ObjectOf(declared[u].init, holds')
      <4> DEFINE t == declared[u].init
      <4>1. CASE t[1].op = "name" /\ t[1].arg = v
        BY <1>1, <4>1 DEF LeafUsed
      <4>2. CASE ~(t[1].op = "name" /\ t[1].arg = v)
        <5>1. ObjectOf(t, holds') = ObjectOf(t, holds)
          BY <1>2, <1>5, <4>2 DEF ObjectOf
        <5> QED BY <1>1, <2>1, <5>1 DEF HoldInv, LeafUsed
      <4> QED BY <4>1, <4>2
    <3> QED BY <2>1, <3>1, <3>2 DEF HoldInv
  <2> QED BY <2>2, <2>3
<1>7. VariablesInv'
  <2>1. used' \subseteq DOMAIN Pointers \cup DOMAIN Heap
    BY <1>1 DEF PointerInv, VariablesInv
  <2> QED BY <1>1, <1>5, <1>6, <2>1 DEF PointerInv, VariablesInv
<1>8. ReadingInv'
  BY <1>1 DEF ReadingInv, Ended
<1> QED BY <1>1, <1>4, <1>7, <1>8, NotSearching, SameCells, SameVerdict DEF PointerInv, Ended
-----------------------------------------------------------------------------
\* The search for the origins of a subtraction.

\* One turn leads to the same object, or by way of a variable that was assigned to.
LEMMA TurnKeeps ==
  ASSUME PointerInv, NEW t, GoodText(t, DOMAIN declared), Turns(t)
  PROVE  /\ GoodText(Turned(t), DOMAIN declared)
         /\ \/ Initialized(t) /\ (t[1].arg \in used \/ LeafUsed(Turned(t), used))
            \/ /\ ObjectOf(Turned(t), holds) = ObjectOf(t, holds)
               /\ LeafUsed(t, used) => LeafUsed(Turned(t), used) \/ (Initialized(t) /\ t[1].arg \in used)
<1> DEFINE D == DOMAIN declared
<1>1. CASE Initialized(t)
  <2> DEFINE v == t[1].arg
             s == declared[v].init
  <2>1. v \in D /\ s # <<>> /\ Len(t) = 1 /\ Turned(t) = s
    BY <1>1 DEF Initialized, Turned
  <2>2. t[1].op = "name"
    BY <1>1, <2>1 DEF Initialized, Ends, Last
  <2>3. HoldInv(v, declared[v], holds[v], D, holds, used) /\ DOMAIN holds = D
    BY <2>1 DEF PointerInv, VariablesInv
  <2>4. GoodText(s, D) /\ (v \in used \/ LeafUsed(s, used) \/ holds[v].object = ObjectOf(s, holds))
    BY <2>1, <2>3 DEF HoldInv
  <2>5. ObjectOf(t, holds) = holds[v].object
    BY <2>1, <2>2, <2>3 DEF ObjectOf
  <2> HIDE DEF s
  <2>6. LeafUsed(t, used) => v \in used
    BY DEF LeafUsed
  <2> QED BY <1>1, <2>1, <2>4, <2>5, <2>6
<1>2. CASE ~Initialized(t)
  <2>1. Ends(t, {"static", "c"}) /\ Turned(t) = Front(t)
    BY <1>2 DEF Turns, Turned
  <2>2. Len(t) \in Nat \ {0} /\ t[Len(t)].op \in {"static", "c"}
    BY <2>1, TextLength DEF Ends, Last
  <2>3. t[1].op \notin {"static", "c"}
    BY DEF GoodText, Leaf
  <2>4. Len(t) > 1
    <3>1. Len(t) # 1 BY <2>2, <2>3
    <3>2. ASSUME NEW n \in Nat \ {0}, n # 1 PROVE n > 1 BY <3>2
    <3>3. Len(t) \in Nat \ {0} BY <2>2
    <3> QED BY <3>1, <3>2, <3>3
  <2>5. GoodText(Front(t), D) /\ Front(t)[1] = t[1] /\ ObjectOf(Front(t), holds) = ObjectOf(t, holds)
    BY <2>4, LessText
  <2> QED BY <2>1, <2>5 DEF LeafUsed
<1> QED BY <1>1, <1>2

LEMMA FollowStep == ASSUME PointerInv, NEW i \in 1 .. 2, Follow(i) PROVE PointerInv'
<1> DEFINE D == DOMAIN declared
           j == 3 - i
           t == search.ends[i]
           u == search.ends[j]
           more == IF Initialized(t) THEN {t[1].arg} ELSE {}
<1>a. (i = 1 /\ j = 2) \/ (i = 2 /\ j = 1)
  OBVIOUS
<1>1. /\ Searching /\ Turns(t)
      /\ search' = [search EXCEPT !.ends[i] = Turned(@), !.via = @ \cup more]
      /\ UNCHANGED <<fragment, expr, left, declared, holds, used, cells, verdict, event, moves, statements>>
  BY DEF Follow
<1>2. /\ DOMAIN search = {"ends", "via", "same"} /\ DOMAIN search.ends = 1 .. 2
      /\ GoodText(t, D) /\ GoodText(u, D) /\ j \in 1 .. 2 /\ i # j
  BY <1>1 DEF PointerInv, SearchInv
<1>3. /\ DOMAIN search' = {"ends", "via", "same"} /\ DOMAIN search'.ends = 1 .. 2
      /\ search'.ends[i] = Turned(t) /\ search'.ends[j] = u
      /\ search'.via = search.via \cup more /\ search'.same = search.same
  BY <1>1, <1>2
<1> HIDE DEF t, u, j
<1>4. /\ GoodText(Turned(t), D)
      /\ \/ Initialized(t) /\ (t[1].arg \in used \/ LeafUsed(Turned(t), used))
         \/ /\ ObjectOf(Turned(t), holds) = ObjectOf(t, holds)
            /\ LeafUsed(t, used) => LeafUsed(Turned(t), used) \/ (Initialized(t) /\ t[1].arg \in used)
  BY <1>1, <1>2, TurnKeeps
<1>5. \/ search.via \cap used # {}
      \/ LeafUsed(t, used) \/ LeafUsed(u, used)
      \/ search.same <=> ObjectOf(t, holds) = ObjectOf(u, holds)
  <2>2. search.ends[i] = t /\ search.ends[j] = u
    BY DEF t, u
  <2>3. (i = 1 /\ j = 2) \/ (i = 2 /\ j = 1)
    BY <1>a
  <2> QED BY <1>1, <2>2, <2>3 DEF PointerInv, SearchInv
<1>6. \/ search'.via \cap used # {}
      \/ LeafUsed(Turned(t), used) \/ LeafUsed(u, used)
      \/ search'.same <=> ObjectOf(Turned(t), holds) = ObjectOf(u, holds)
  <2>1. Initialized(t) /\ t[1].arg \in used => search'.via \cap used # {}
    BY <1>3
  <2>2. search.via \cap used # {} => search'.via \cap used # {}
    BY <1>3
  <2> QED BY <1>3, <1>4, <1>5, <2>1, <2>2
<1>7. SearchInv'
  <2>1. \A k \in 1 .. 2 : k = i \/ k = j
    BY <1>2 DEF j
  <2>2. \A k \in 1 .. 2 : GoodText(search'.ends[k], D)
    BY <1>2, <1>3, <1>4, <2>1
  <2>3. (i = 1 /\ j = 2) \/ (i = 2 /\ j = 1)
    BY <1>a
  <2>4. \/ search'.via \cap used # {}
        \/ \E k \in 1 .. 2 : LeafUsed(search'.ends[k], used)
        \/ search'.same <=> ObjectOf(search'.ends[1], holds) = ObjectOf(search'.ends[2], holds)
    <3>1. CASE search'.via \cap used # {}
      BY <3>1
    <3>2. CASE LeafUsed(Turned(t), used) \/ LeafUsed(u, used)
      BY <1>2, <1>3, <3>2
    <3>3. CASE search'.same <=> ObjectOf(Turned(t), holds) = ObjectOf(u, holds)
      BY <1>3, <2>3, <3>3
    <3> QED BY <1>6, <3>1, <3>2, <3>3
  <2> QED BY <1>1, <1>3, <2>2, <2>4 DEF SearchInv
<1>8. VariablesInv'
  BY <1>1, SameVariables DEF PointerInv, VariablesInv
<1>9. ReadingInv'
  BY <1>1 DEF PointerInv, ReadingInv
<1> QED BY <1>1, <1>7, <1>8, <1>9, SameCells, SameVerdict, SameEvent DEF PointerInv

\* An origin that is an object of its own is that object.
LEMMA PlainOrigin ==
  ASSUME NEW D, NEW H, NEW t, GoodText(t, D), D \subseteq DOMAIN Pointers, DOMAIN H = D, Plain(t)
  PROVE  /\ ObjectOf(t, H) = t[1].arg
         /\ t[1].op = "name" => t[1].arg \in DOMAIN Objects
         /\ AddressOrigin(t) => BaseDecl(t) = t[1].arg /\ t[1].arg \in DOMAIN Objects
         /\ ~AddressOrigin(t) => t = <<S("new", t[1].arg)>> /\ t[1].arg \in DOMAIN Heap
<1>1. Len(t) \in Nat \ {0} /\ t # <<>>
  BY TextLength
<1>2. CASE AddressOrigin(t)
  <2>1. BaseDecl(t) \in DOMAIN Objects /\ BaseDecl(t) # "none"
    BY <1>2, NamesApart DEF Plain, IsObject
  <2>2. BaseDecl(t) = t[1].arg /\ (Len(t) = 1 \/ t[1].op = "name")
    BY <2>1 DEF BaseDecl
  <2>3. t[1].arg \notin D
    BY <2>1, <2>2, NamesApart
  <2>4. t[1].op # "word"
    <3>1. CASE Len(t) = 1
      BY <1>2, <3>1 DEF AddressOrigin, Ends, Last
    <3>2. CASE Len(t) # 1
      BY <2>2, <3>2
    <3> QED BY <3>1, <3>2
  <2> QED BY <1>2, <2>1, <2>2, <2>3, <2>4 DEF ObjectOf
<1>3. CASE ~AddressOrigin(t)
  <2>1. t[Len(t)].op = "new"
    BY <1>3 DEF Plain, DistinctOrigin, Ends, Last
  <2>2. Len(t) = 1
    <3>1. CASE Len(t) \in 2 .. Len(t)
      BY <2>1, <3>1 DEF GoodText, StepOps, ExplicitCasts
    <3>2. CASE Len(t) \notin 2 .. Len(t)
      <4>1. ASSUME NEW n \in Nat \ {0}, n \notin 2 .. n PROVE n = 1 BY <4>1
      <4>2. Len(t) \in Nat \ {0} BY <1>1
      <4> QED BY <3>2, <4>1, <4>2
    <3> QED BY <3>1, <3>2
  <2>3. t[1].op = "new" /\ t[1].arg \in DOMAIN Heap /\ t[1] = S("new", t[1].arg)
    BY <2>1, <2>2 DEF GoodText, Leaf
  <2>4. t = <<t[1]>>
    <3>1. PICK T : t \in Seq(T) BY DEF GoodText
    <3> QED BY <2>2, <3>1
  <2>5. t = <<S("new", t[1].arg)>>
    BY <2>3, <2>4
  <2> QED BY <1>3, <2>3, <2>5 DEF ObjectOf
<1> QED BY <1>2, <1>3

LEMMA JudgeStep == ASSUME PointerInv, JudgeSubtraction PROVE PointerInv'
<1> DEFINE s == search.ends[1]
           t == search.ends[2]
           D == DOMAIN declared
<1>1. /\ Searching /\ search' = NoSearch
      /\ verdict' = [reported |-> UnrelatedPointers(s, t), same |-> search.same,
                     plain |-> Plain(s) /\ Plain(t) /\ search.via \cap used = {}]
      /\ UNCHANGED <<fragment, expr, left, declared, holds, used, cells, event, moves, statements>>
  BY DEF JudgeSubtraction
<1>2. ASSUME Plain(s), Plain(t), search.via \cap used = {} PROVE UnrelatedPointers(s, t) <=> ~search.same
  <2>1. /\ GoodText(s, D) /\ GoodText(t, D) /\ D \subseteq DOMAIN Pointers /\ DOMAIN holds = D
        /\ used \subseteq DOMAIN Pointers \cup DOMAIN Heap
    BY <1>1 DEF PointerInv, SearchInv, VariablesInv
  <2>2. \/ LeafUsed(s, used) \/ LeafUsed(t, used)
        \/ search.same <=> ObjectOf(s, holds) = ObjectOf(t, holds)
    <3>1. \A i \in 1 .. 2 : search.ends[i] = s \/ search.ends[i] = t
      OBVIOUS
    <3> QED BY <1>1, <1>2, <3>1 DEF PointerInv, SearchInv
  <2> HIDE DEF s, t
  <2>3. /\ ObjectOf(s, holds) = s[1].arg
        /\ s[1].op = "name" => s[1].arg \in DOMAIN Objects
        /\ AddressOrigin(s) => BaseDecl(s) = s[1].arg /\ s[1].arg \in DOMAIN Objects
        /\ ~AddressOrigin(s) => s = <<S("new", s[1].arg)>> /\ s[1].arg \in DOMAIN Heap
    BY <1>2, <2>1, PlainOrigin
  <2>4. /\ ObjectOf(t, holds) = t[1].arg
        /\ t[1].op = "name" => t[1].arg \in DOMAIN Objects
        /\ AddressOrigin(t) => BaseDecl(t) = t[1].arg /\ t[1].arg \in DOMAIN Objects
        /\ ~AddressOrigin(t) => t = <<S("new", t[1].arg)>> /\ t[1].arg \in DOMAIN Heap
    BY <1>2, <2>1, PlainOrigin
  <2>5. ~LeafUsed(s, used) /\ ~LeafUsed(t, used)
    BY <2>1, <2>3, <2>4, NamesApart DEF LeafUsed
  <2>6. search.same <=> s[1].arg = t[1].arg
    BY <2>2, <2>3, <2>4, <2>5
  <2>7. DistinctOrigin(s) /\ DistinctOrigin(t)
    BY <1>2 DEF Plain
  <2>8. CASE AddressOrigin(s) /\ AddressOrigin(t)
    BY <2>3, <2>4, <2>6, <2>7, <2>8, NamesApart DEF UnrelatedPointers
  <2>9. CASE ~(AddressOrigin(s) /\ AddressOrigin(t))
    <3>1. UnrelatedPointers(s, t) <=> s # t
      BY <2>7, <2>9 DEF UnrelatedPointers
    <3>2. s = t => s[1].arg = t[1].arg
      OBVIOUS
    <3>3. s[1].arg = t[1].arg => s = t
      BY <2>3, <2>4, <2>9, NamesApart
    <3> QED BY <2>6, <3>1, <3>2, <3>3
  <2> QED BY <2>8, <2>9
<1>3. SubtractionsExact'
  <2> DEFINE a == UnrelatedPointers(s, t)
             b == search.same
             c == Plain(s) /\ Plain(t) /\ search.via \cap used = {}
  <2>1. verdict' = [reported |-> a, same |-> b, plain |-> c]
    BY <1>1
  <2>2. c => (a <=> ~b)
    BY <1>2
  <2> HIDE DEF a, b, c
  <2>3. verdict'.reported = a /\ verdict'.same = b /\ verdict'.plain = c
    BY <2>1
  <2> QED BY <2>2, <2>3 DEF SubtractionsExact
<1>4. SearchInv'
  BY <1>1 DEF SearchInv, Searching
<1>5. VariablesInv'
  BY <1>1, SameVariables DEF PointerInv, VariablesInv
<1>6. ReadingInv'
  BY <1>1 DEF PointerInv, ReadingInv
<1> QED BY <1>1, <1>3, <1>4, <1>5, <1>6, SameCells, SameEvent DEF PointerInv

-----------------------------------------------------------------------------
\* All steps.

LEMMA PointersStart == ASSUME Init PROVE PointerInv
<1>1. VariablesInv
  BY DEF Init, VariablesInv
<1>2. ReadingInv
  BY DEF Init, ReadingInv
<1>3. CellsInv
  <2> SUFFICES ASSUME NEW v \in DOMAIN Objects, Objects[v].init \/ Objects[v].static,
                      NEW i \in 0 .. ElementsOf(v) - 1
               PROVE  <<v, i>> \in cells
    BY DEF CellsInv
  <2>1. v \in {w \in DOMAIN Objects : Objects[w].init \/ Objects[w].static}
    OBVIOUS
  <2> QED BY <2>1 DEF Init
<1>4. SearchInv
  BY DEF Init, SearchInv, Searching
<1>5. EventsAnnounced
  BY DEF Init, EventsAnnounced, AnnouncedEvent, NoEvent
<1>6. SubtractionsExact
  BY DEF Init, SubtractionsExact, NoVerdict
<1> QED BY <1>1, <1>2, <1>3, <1>4, <1>5, <1>6 DEF Init, PointerInv

LEMMA PointersStep == ASSUME PointerInv, [Next]_vars PROVE PointerInv'
<1>1. CASE \E v \in DOMAIN Objects \cup DOMAIN Pointers : Name(v) \/ AddressOf(v)
  BY <1>1, ReadingSteps
<1>2. CASE \E o \in DOMAIN Heap : New(o)
  BY <1>2, ReadingSteps
<1>3. CASE Number
  BY <1>3, ReadingSteps
<1>4. CASE \E n \in Counts : Element(n) \/ \E op \in {"plus", "minus"} : Plus(op, n)
  BY <1>4, ReadingSteps
<1>5. CASE \E m \in {m \in fragment.moves : m.op \in ExplicitCasts} : Cast(m.op, m.to, m.const)
  BY <1>5, ReadingSteps
<1>6. CASE FirstOperand
  BY <1>6, FirstOperandStep
<1>7. CASE \E v \in DOMAIN Pointers : Declare(v) \/ Assign(v) \/ \E init \in {<<>>, <<S("name", v)>>} : DeclareEmpty(v, init)
  BY <1>7, DeclareStep, AssignStep, DeclareEmptyStep
<1>8. CASE \E writes \in BOOLEAN : Access(0, FALSE, writes) \/ \E i \in Counts : Access(i, TRUE, writes)
  <2>1. 0 \in Counts BY DEF Counts
  <2>2. ASSUME NEW writes \in BOOLEAN, Access(0, FALSE, writes) PROVE PointerInv'
    BY <2>1, <2>2, AccessStep
  <2>3. ASSUME NEW writes \in BOOLEAN, NEW i \in Counts, Access(i, TRUE, writes) PROVE PointerInv'
    BY <2>3, AccessStep
  <2> QED BY <1>8, <2>2, <2>3
<1>9. CASE Subtract
  BY <1>9, SubtractStep
<1>10. CASE Compare
  BY <1>10, CompareStep
<1>11. CASE \E n \in 1 .. 2 : Copy(n)
  BY <1>11, CopyStep
<1>12. CASE \E how \in {"return", "throw"} : Leave(how)
  BY <1>12, LeaveStep
<1>13. CASE Discard
  BY <1>13, DiscardStep
<1>14. CASE \E i \in 1 .. 2 : Follow(i)
  BY <1>14, FollowStep
<1>15. CASE JudgeSubtraction
  BY <1>15, JudgeStep
<1>16. ASSUME UNCHANGED vars PROVE PointerInv'
  <2>1. UNCHANGED <<fragment, expr, left, declared, holds, used, cells, search, verdict, event>>
    BY <1>16 DEF vars
  <2>2. VariablesInv'
    BY <2>1, SameVariables DEF PointerInv, VariablesInv
  <2>3. ReadingInv' /\ SearchInv'
    BY <2>1 DEF PointerInv, ReadingInv, SearchInv, Searching
  <2> QED BY <2>1, <2>2, <2>3, SameCells, SameVerdict, SameEvent DEF PointerInv
<1>17. CASE Done
  BY <1>16, <1>17 DEF Done
<1> QED BY <1>1, <1>2, <1>3, <1>4, <1>5, <1>6, <1>7, <1>8, <1>9, <1>10, <1>11, <1>12,
           <1>13, <1>14, <1>15, <1>16, <1>17 DEF Next

\* What is said of the pointers of a function, through any number of variables, casts,
\* moves and subtractions, and of the members of unions, agrees with the run; for all
\* objects and variables, all types and texts of any length.
THEOREM MemoryRight == Spec /\ UnionSpec => []MemoryJudged
<1>1. Spec => []PointersJudged
  <2>1. PointerInv => PointersJudged
    BY DEF PointerInv, PointersJudged
  <2> QED BY <2>1, PointersStart, PointersStep, PTL DEF Spec
<1>2. PointersJudged /\ UnionsJudged => MemoryJudged
  BY DEF MemoryJudged
<1> QED BY <1>1, <1>2, UnionsRight, PTL
=============================================================================
