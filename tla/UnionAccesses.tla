----------------------------- MODULE UnionAccesses -----------------------------
(* AvoidUnionTypePunningCheck, which remembers for every union variable what    *)
(* member was written last in the text it has read, and the body of a loop that *)
(* accesses members in the order in which it runs.                              *)
EXTENDS Integers, Sequences

CONSTANTS MemberTypes,  \* the members of the union and their types
          Accesses,     \* [op, to, from, guarded], to and from: [var, member]
          MaxAccesses

NoMember == "none"
UnionObjects == {a.to.var : a \in Accesses}

ASSUME UnionAssumption ==
  /\ MaxAccesses \in Nat /\ NoMember \notin DOMAIN MemberTypes
  /\ \A a \in Accesses :
       /\ a.op \in {"write", "read", "copy", "add"} /\ a.guarded \in BOOLEAN
       /\ {a.to.var, a.from.var} \subseteq UnionObjects /\ {a.to.member, a.from.member} \subseteq DOMAIN MemberTypes

VARIABLES body,         \* the accesses that have been read
          lastWritten,  \* LastWrittenMember
          punsSaid,     \* the accesses that were reported
          pass, pc,     \* where the run is in the body, and for the which time
          active,       \* the members that were written last in the run
          inOrder,      \* the run has left out nothing and not come back
          puns          \* accesses that have read a member of another type

unionVars == <<body, lastWritten, punsSaid, pass, pc, active, inOrder, puns>>

\* areTypesCompatibleForUnion(): its cases for the unsigned variant of a type
\* compare the two types, which differ, and never hold.
AnyTwo(s, t) == s = t \/ {s, t} \subseteq {"char", "int", "uint", "float"}      \* mutant: all compatible
Compatible(s, t) == s = t \/ "char" \in {s, t}

Assigns(a) == a.op \in {"write", "copy", "add"}
Reads(a) == a.op \in {"read", "copy", "add"}
Source(a) == IF a.op = "add" THEN a.to ELSE a.from

Written(last, a) == IF Assigns(a) THEN [last EXCEPT ![a.to.var] = a.to.member] ELSE last
NotConditional(last, a) ==                                \* mutant: guarded writes left out
  IF Assigns(a) /\ ~a.guarded THEN [last EXCEPT ![a.to.var] = a.to.member] ELSE last
WriteMatched(last, a) == Written(last, a)

\* A member that is read and not the left side of an assignment, after the
\* assignment around it has been matched.
ReadMatched(last, a) ==
  /\ a.op \in {"read", "copy"}
  /\ last[a.from.var] \notin {NoMember, a.from.member}
  /\ ~Compatible(MemberTypes[last[a.from.var]], MemberTypes[a.from.member])

UnionInit ==
  /\ body = <<>> /\ punsSaid = {} /\ puns = {} /\ pass = 1 /\ pc = 1 /\ inOrder = TRUE
  /\ lastWritten = [v \in UnionObjects |-> NoMember] /\ active = lastWritten

Visit(a) ==
  /\ Len(body) < MaxAccesses
  /\ body' = Append(body, a)
  /\ lastWritten' = WriteMatched(lastWritten, a)
  /\ punsSaid' = punsSaid \cup (IF ReadMatched(lastWritten', a) THEN {Len(body')} ELSE {})
  /\ UNCHANGED <<pass, pc, active, inOrder, puns>>

\* The run: an access, one that its condition leaves out, and the next turn.
Puns(last, a) ==
  /\ Reads(a) /\ last[Source(a).var] # NoMember
  /\ LET types == {MemberTypes[last[Source(a).var]], MemberTypes[Source(a).member]}
     IN  "char" \notin types /\ \E s, t \in types : s # t
Runs == Len(body) = MaxAccesses /\ pc <= MaxAccesses
Perform ==
  /\ Runs
  /\ puns' = IF Puns(active, body[pc]) THEN puns \cup {pc} ELSE puns
  /\ active' = Written(active, body[pc])
  /\ pc' = pc + 1
  /\ UNCHANGED <<body, lastWritten, punsSaid, pass, inOrder>>
Skip ==
  /\ Runs /\ body[pc].guarded
  /\ pc' = pc + 1 /\ inOrder' = FALSE
  /\ UNCHANGED <<body, lastWritten, punsSaid, pass, active, puns>>
Again ==
  /\ pc > MaxAccesses /\ pass < 2
  /\ pass' = pass + 1 /\ pc' = 1 /\ inOrder' = FALSE
  /\ UNCHANGED <<body, lastWritten, punsSaid, active, puns>>
AllRun == pc > MaxAccesses /\ UNCHANGED unionVars

UnionNext == (\E a \in Accesses : Visit(a)) \/ Perform \/ Skip \/ Again \/ AllRun

UnionSpec == UnionInit /\ [][UnionNext]_unionVars

\* A copy within a union sets the member that its read is compared with.
Overwrites(a) ==
  a.op = "copy" /\ a.to.var = a.from.var /\ Compatible(MemberTypes[a.to.member], MemberTypes[a.from.member])

\* In a run that follows the text, a member that is read in another type than the
\* one written last is reported, where it is not the left side of "op=" and not
\* copied to a member of the same union with a compatible type; and a member that is
\* read and not copied is reported for no other reason.  A loop or a condition may
\* bring a read before a write that the check has seen only after it: then it is silent.
UnionsJudged ==
  inOrder =>
    /\ \A i \in puns : i \in punsSaid \/ body[i].op = "add" \/ Overwrites(body[i])
    /\ \A i \in punsSaid : i < pc /\ body[i].op = "read" => i \in puns
================================================================================
