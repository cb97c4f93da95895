------------------------------ MODULE ClassObjects -----------------------------
(* Checks of C++ classes and of the objects that a function makes of them.  The *)
(* reports on a class are a matter of its definition and of the classes beside  *)
(* it; the reports on a statement of its text.  The function holds one pointer  *)
(* and one pointer to a member, which it converts and uses; what happens when   *)
(* it runs, with the object that is there, is kept for the property only.       *)
(*                                                                              *)
(* Classes have one base at most, one method m and one resource.                *)
EXTENDS Integers, Sequences, FiniteSets, Reports

CONSTANTS Hierarchies,   \* functions from class names to classes
          MaxObjectSteps
\* A class: base (or NoBase), key, top (defined at the top level of the unit),
\* dtor (access of its destructor, "implicit" if not declared), dtorVirtual, method
\* ("none", "plain", "virtual" or "override"), default (default argument of m, 0 for
\* none), call (how its constructor calls m), five (special members it declares),
\* owns (a resource is freed by its destructor), and shallow (copying is as by default).

NoBase == "no_base"
Null == "null"
SpecialMembers == {"dtor", "copy", "copy=", "move", "move="}

\* No class is above itself.
ASSUME HierarchiesAssumption ==
  \A h \in Hierarchies :
    /\ {NoBase, Null} \cap DOMAIN h = {}
    /\ \A S \in SUBSET DOMAIN h : S # {} => \E c \in S : h[c].base \notin S
    /\ \A c \in DOMAIN h :
        /\ h[c].base \in DOMAIN h \cup {NoBase}
        /\ h[c].five \subseteq SpecialMembers
        /\ (h[c].dtor = "implicit") = ("dtor" \notin h[c].five)
        /\ h[c].dtorVirtual \/ h[c].owns => h[c].dtor # "implicit"

VARIABLES classes,   \* the classes of the unit
          pointer,   \* static and dynamic type of what the pointer points to, and the
                     \* conversion that made them part
          member,    \* the same for the pointer to member, and the class of the member
          objectSaid,    \* the checks that have reported on a statement
          wrong,    \* the first thing that went wrong, and the class it is about
          objectSteps

objectVars == <<classes, pointer, member, objectSaid, wrong, objectSteps>>

--------------------------------------------------------------------------------
(* Classes. *)

\* c and the classes above it: what is in every set that has c and the bases of its members.
HasBases(S) == \A d \in S : classes[d].base # NoBase => classes[d].base \in S
Line(c) == {d \in DOMAIN classes : \A S \in SUBSET DOMAIN classes : c \in S /\ HasBases(S) => d \in S}
DerivedFrom(d, b) == d # b /\ b \in Line(d)
IsA(d, b) == b \in Line(d)
Related(c, d) == IsA(c, d) \/ IsA(d, c)

VirtualM(c) == \E b \in Line(c) : classes[b].method = "virtual"
VirtualDtor(c) == \E b \in Line(c) : classes[b].dtorVirtual
Implicit(c) == classes[c].dtor = "implicit"
\* The nearest class from c upwards that declares m.
Declares(c) == CHOOSE b \in Line(c) : /\ classes[b].method # "none"
                                      /\ \A e \in Line(c) : classes[e].method # "none" => IsA(b, e)
HasM(c) == \E b \in Line(c) : classes[b].method # "none"

\* isPolymorphic() and isUsedAsBaseClass(), which sees the top level of the unit only.
IsPolymorphic(c) == VirtualM(c) \/ VirtualDtor(c)
NoBases(c) == FALSE                                       \* mutant: polymorphic classes only
UsedAsBase(c) == \E d \in DOMAIN classes : classes[d].base = c /\ classes[d].top

RequireVirtualDestructor(c) ==
  Say("RequireVirtualDestructor",
      /\ IsPolymorphic(c) \/ UsedAsBase(c)
      /\ Implicit(c) \/ classes[c].dtor = "private" \/ (classes[c].dtor = "public") # VirtualDtor(c))

\* hasMethod(isVirtual()), of the class itself, and hasVirtualDestructorInBase().
OwnVirtual(c) == (classes[c].method # "none" /\ VirtualM(c)) \/ (~Implicit(c) /\ VirtualDtor(c))
VirtualDestructor(c) ==
  Say("VirtualDestructor", classes[c].key = "class" /\ OwnVirtual(c) /\ ~VirtualDtor(c))

\* The number of special members declared, 1 to 4.
NoDestructor(c) == Say("RuleOfFive", Cardinality(classes[c].five \ {"dtor"}) \in 1 .. 3)  \* mutant: the Rule of Four
RuleOfFive(c) == Say("RuleOfFive", Cardinality(classes[c].five) \in 1 .. 4)

Overriding(c) == classes[c].method # "none" /\ \E b \in Line(c) \ {c} : classes[b].method = "virtual"
UseOverride(c) == Say("UseOverride", Overriding(c) /\ classes[c].method # "override")
OnlyVirtualKeyword(c) ==                                  \* mutant: the keyword, not the function
  Say("VirtualFunctionDefaultArg", classes[c].method = "virtual" /\ classes[c].default # 0)
VirtualFunctionDefaultArg(c) ==
  Say("VirtualFunctionDefaultArg", classes[c].method # "none" /\ VirtualM(c) /\ classes[c].default # 0)

\* A call in the text of a constructor, on "this" or inside of a lambda, qualified or not.
VirtualCallInCtorDtor(c) ==
  Say("VirtualCallInCtorDtor", classes[c].call \in {"direct", "lambda", "qualified"} /\ VirtualM(c))

SaidOf(c) == UNION {RequireVirtualDestructor(c), VirtualDestructor(c), RuleOfFive(c), UseOverride(c),
                    VirtualFunctionDefaultArg(c), VirtualCallInCtorDtor(c)}

--------------------------------------------------------------------------------
(* Statements. *)

\* An implicit conversion to a base, not directly below a named cast.
ImplicitUpcast(how, s, t) == Say("ImplicitUpcast", how = "implicit" /\ DerivedFrom(s, t))
UnrelatedPointerConversion(how, s, t) ==
  Say("UnrelatedPointerConversion", how \in {"static", "reinterpret"} /\ ~Related(s, t))
ReinterpretCast(how) == Say("ReinterpretCast", how = "reinterpret")
DynamicCast(how) == Say("DynamicCast", how = "dynamic")
JudgeConversion(how, s, t) ==
  UNION {ImplicitUpcast(how, s, t), UnrelatedPointerConversion(how, s, t), ReinterpretCast(how), DynamicCast(how)}

\* isValidMemberPointerConversion() takes a conversion from derived to base for the valid one.
MemberPointerConversion(how, s, t) == Say("MemberPointerConversion", how = "reinterpret" \/ ~IsA(s, t))

\* A copy of a d to a b: the copy constructor with an argument of class d, also that
\* of a variable and of a return value, and the copy assignment.  Nothing is said of
\* the move operations, but a class may have none.
Copies == {"init", "argument", "return"}
Movable(b) == "move" \in classes[b].five \/ classes[b].five = {}
Taken(way, b) == IF way = "move" /\ ~Movable(b) THEN "init" ELSE way
OnlyVariables(way, d, b) == Say("ObjectSlicing", way = "init" /\ DerivedFrom(d, b))  \* mutant: varDecl() only
ObjectSlicing(way, d, b) == Say("ObjectSlicing", way \in Copies \cup {"assign"} /\ DerivedFrom(d, b))
Slicing(way, d, b) == Say("Slicing", way \in Copies /\ DerivedFrom(d, b))
JudgeCopy(way, d, b) == ObjectSlicing(way, d, b) \cup Slicing(way, d, b) \cup ImplicitUpcast("implicit", d, b)

\* isDereferenceOfPointer() of a polymorphic class.
TypeidOnDereferencedPointer(form, c) ==
  Say("TypeidOnDereferencedPointer", form \in {"deref", "arrow", "element"} /\ IsPolymorphic(c))

--------------------------------------------------------------------------------
(* The function. *)

Ptr(s, d, how) == [static |-> s, dynamic |-> d, how |-> how]
NoPointer == Ptr(Null, Null, "made")
AllWell == [kind |-> "nothing", of |-> Null, way |-> "any"]
Went(kind, c, way) == [kind |-> kind, of |-> c, way |-> way]
First(m) == IF wrong # AllWell THEN wrong ELSE m

ObjectInit ==
  /\ classes \in Hierarchies
  /\ pointer = NoPointer /\ member = NoPointer /\ objectSaid = {} /\ wrong = AllWell /\ objectSteps = 0

ObjectStep == objectSteps < MaxObjectSteps /\ objectSteps' = objectSteps + 1 /\ UNCHANGED classes
Points == pointer # NoPointer
Alive == Points /\ pointer.dynamic # Null
Typed == Alive => IsA(pointer.dynamic, pointer.static)

\* new T: its constructors run from the base down, and each reaches the m of its own class.
Missed(d, c) == classes[c].call \in {"direct", "lambda", "helper"} /\ VirtualM(c) /\ Declares(d) # Declares(c)
New(d) ==
  /\ ObjectStep /\ ~Points
  /\ pointer' = Ptr(d, d, "made")
  /\ wrong' = IF \E c \in Line(d) : Missed(d, c)
               THEN First(Went("override_missed", CHOOSE c \in Line(d) : Missed(d, c), "any")) ELSE wrong
  /\ UNCHANGED <<member, objectSaid>>

NullPointer(c) ==
  /\ ObjectStep /\ ~Points /\ pointer' = Ptr(c, Null, "made") /\ UNCHANGED <<member, objectSaid, wrong>>

Convertible(how, s, t) ==
  CASE how = "implicit" -> DerivedFrom(s, t)
    [] how = "static" -> Related(s, t) /\ s # t
    [] how = "dynamic" -> DerivedFrom(s, t) \/ (IsPolymorphic(s) /\ s # t)
    [] how = "reinterpret" -> s # t
ConvertPointer(how, t) ==
  /\ ObjectStep /\ Points /\ Convertible(how, pointer.static, t)
  /\ objectSaid' = objectSaid \cup JudgeConversion(how, pointer.static, t)
  /\ pointer' = IF how = "dynamic" /\ Alive /\ ~IsA(pointer.dynamic, t) THEN Ptr(t, Null, pointer.how)
                ELSE Ptr(t, pointer.dynamic, IF Alive /\ Typed /\ ~IsA(pointer.dynamic, t) THEN how ELSE pointer.how)
  /\ UNCHANGED <<member, wrong>>

\* The class that hides the m of f from a d: the first below f that has its own.
Hiding(d, f) == CHOOSE c \in Line(d) : classes[c].method # "none" /\ classes[c].base # NoBase /\ Declares(classes[c].base) = f

\* p->m(): found in the class of the pointer, run in the class of the object if virtual.
CallM ==
  /\ ObjectStep /\ Alive /\ HasM(pointer.static)
  /\ LET f == Declares(pointer.static)
         body == IF VirtualM(f) THEN Declares(pointer.dynamic) ELSE f
     IN  wrong' = IF ~Typed THEN First(Went("wrong_type", pointer.static, pointer.how))
                   ELSE IF body # Declares(pointer.dynamic) THEN First(Went("hidden", Hiding(pointer.dynamic, f), f))
                   ELSE IF 0 \notin {classes[f].default, classes[body].default} /\ classes[f].default # classes[body].default
                   THEN First(Went("other_default", body, f)) ELSE wrong
  /\ UNCHANGED <<pointer, member, objectSaid>>

\* delete p, with a destructor that can be named here.
Delete ==
  /\ ObjectStep /\ Alive /\ classes[pointer.static].dtor \in {"implicit", "public"}
  /\ wrong' = IF ~Typed THEN First(Went("wrong_type", pointer.static, pointer.how))
               ELSE IF pointer.static # pointer.dynamic /\ ~VirtualDtor(pointer.static)
               THEN First(Went("partly_destroyed", pointer.static, "any")) ELSE wrong
  /\ pointer' = NoPointer
  /\ UNCHANGED <<member, objectSaid>>

\* A b made from, or assigned from, the object *p; both are destroyed in the end.
CopyTo(way, b) ==
  /\ ObjectStep /\ Alive /\ Typed /\ IsA(pointer.static, b)
  /\ objectSaid' = objectSaid \cup JudgeCopy(Taken(way, b), pointer.static, b)
  /\ wrong' = IF \E c \in Line(b) : classes[c].owns /\ classes[c].shallow
               THEN First(Went("two_owners", CHOOSE c \in Line(b) : classes[c].owns /\ classes[c].shallow, way))
               ELSE IF pointer.dynamic # b THEN First(Went("sliced", b, IF pointer.static = b THEN "base" ELSE Taken(way, b))) ELSE wrong
  /\ UNCHANGED <<pointer, member>>

\* typeid of an expression or of a type: a null pointer throws if the class is polymorphic.
TypeId(form) ==
  /\ ObjectStep /\ Points /\ Typed
  /\ objectSaid' = objectSaid \cup TypeidOnDereferencedPointer(form, pointer.static)
  /\ wrong' = IF form = "deref" /\ ~Alive /\ IsPolymorphic(pointer.static)
               THEN First(Went("null_typeid", pointer.static, form)) ELSE wrong
  /\ UNCHANGED <<pointer, member>>

\* &c::x, its conversions, and (*p).*mp with an object of the class or of a derived one.
TakeMember(c) ==
  /\ ObjectStep /\ member = NoPointer /\ member' = Ptr(c, c, "made")
  /\ UNCHANGED <<pointer, objectSaid, wrong>>
ConvertMember(how, t) ==
  /\ ObjectStep /\ member # NoPointer /\ t # member.static
  /\ how = "static" => Related(member.static, t)
  /\ objectSaid' = objectSaid \cup MemberPointerConversion(how, member.static, t)
  /\ member' = Ptr(t, member.dynamic,
                   IF IsA(member.static, member.dynamic) /\ ~IsA(t, member.dynamic) THEN how ELSE member.how)
  /\ UNCHANGED <<pointer, wrong>>
UseMember ==
  /\ ObjectStep /\ Alive /\ Typed /\ member # NoPointer /\ IsA(pointer.static, member.static)
  /\ wrong' = IF IsA(pointer.dynamic, member.dynamic) THEN wrong ELSE First(Went("no_member", member.dynamic, member.how))
  /\ UNCHANGED <<pointer, member, objectSaid>>

ObjectDone == objectSteps = MaxObjectSteps /\ UNCHANGED objectVars

ObjectNext ==
  \/ \E c \in DOMAIN classes : New(c) \/ NullPointer(c) \/ TakeMember(c)
  \/ \E c \in DOMAIN classes, how \in {"implicit", "static", "dynamic", "reinterpret"} : ConvertPointer(how, c)
  \/ \E c \in DOMAIN classes, way \in Copies \cup {"assign", "move"} : CopyTo(way, c)
  \/ \E c \in DOMAIN classes, how \in {"static", "reinterpret"} : ConvertMember(how, c)
  \/ \E form \in {"deref", "reference", "type"} : TypeId(form)
  \/ CallM \/ Delete \/ UseMember \/ ObjectDone

--------------------------------------------------------------------------------
\* What goes wrong first has been announced, on the class or on a statement, unless it
\* is among the listed gaps: a destructor of a class whose derived classes are all in
\* namespaces; an m called through a helper of the constructor; a function that hides
\* another; a default copy that is declared as such; a copy through a pointer to the
\* base; a moved object; an object taken for one of a derived class by static_cast, or
\* one without the member after the conversion of a pointer to member to the base.
Announced ==
  /\ wrong.kind = "partly_destroyed" =>
       \/ "RequireVirtualDestructor" \in SaidOf(wrong.of)
       \/ \A d \in DOMAIN classes : classes[d].base = wrong.of => ~classes[d].top
  /\ wrong.kind = "override_missed" =>
       "VirtualCallInCtorDtor" \in SaidOf(wrong.of) \/ classes[wrong.of].call = "helper"
  /\ wrong.kind = "hidden" => {"UseOverride", "VirtualDestructor"} \cap SaidOf(wrong.way) = {} /\ UseOverride(wrong.of) = {}
  /\ wrong.kind = "other_default" => \A c \in {wrong.of, wrong.way} : "VirtualFunctionDefaultArg" \in SaidOf(c)
  /\ wrong.kind = "two_owners" => "RuleOfFive" \in SaidOf(wrong.of) \/ Cardinality(classes[wrong.of].five) = 5
  /\ wrong.kind = "sliced" => "ObjectSlicing" \in objectSaid \/ wrong.way \in {"base", "move"}
  /\ wrong.kind = "null_typeid" => "TypeidOnDereferencedPointer" \in objectSaid
  /\ wrong.kind = "wrong_type" => "ReinterpretCast" \in objectSaid \/ wrong.way = "static"
  /\ wrong.kind = "no_member" => "MemberPointerConversion" \in objectSaid \/ wrong.way = "static"

\* No protected destructor of a polymorphic class suits both checks of destructors.
DestructorsSuitOne ==
  \A c \in DOMAIN classes : classes[c].key = "class" /\ classes[c].dtor = "protected" /\ OwnVirtual(c) =>
    {"RequireVirtualDestructor", "VirtualDestructor"} \cap SaidOf(c) # {}

\* What the checks say of classes agrees with what happens to their objects.
ClassesJudged == Announced /\ DestructorsSuitOne
================================================================================
