----------------------------- MODULE CheckRegistry -----------------------------
(* Which checks run on a unit.  When the factory of AST consumers is made, the  *)
(* components of the module register their checks, class by class, under names; *)
(* for every unit the checks whose names are enabled are then made anew, if     *)
(* they know its language.  The names are strings in sixteen files, and nothing *)
(* keeps two files, or two rules of one file, from taking the same one.         *)
(*                                                                              *)
(* Of the registrations those are listed that share their name, or a class of   *)
(* another component, and one other for each component; names are without       *)
(* "automotive-", classes without "Avoid" and "Check".  Checks of the Clang     *)
(* static analyzer are "core" ones and others.                                  *)
EXTENDS Integers, Sequences, FiniteSets, FiniteSetsExt

CONSTANTS Checkers,      \* checkers of the static analyzer
          Core           \* the core ones

VARIABLES registered,  \* components that have registered their checks
          factories,   \* the class behind each name
          unit         \* the unit being read: [lang, enabled, checks, checkers], or NoUnit

registryVars == <<registered, factories, unit>>

--------------------------------------------------------------------------------
(* The registrations, in the order of the components. *)

R(class, name) == [class |-> class, name |-> name]

ArrayComponent == <<R("VariableLengthArray", "avoid-variable-length-array"), R("VariableLengthArray", "c23-req-18.8"),
                    R("VariableLengthArray", "c25-adv-8.19"), R("PartialArrayInit", "avoid-partial-array-init")>>
BitfieldComponent == <<R("BitfieldInUnion", "c25-req-6.3")>>
CommentComponent == <<R("CommentWithinComment", "avoid-comment-within-comment")>>
Cpp23Component ==
  <<R("OverlappingCopy", "cpp23-req-13.1"), R("UnrelatedPointerConversion", "cpp23-req-10.1"),
    R("UnrelatedPointerSubtraction", "cpp23-req-12.2"), R("VoidPointerCast", "cpp23-req-10.2"),
    R("Undef", "cpp23-adv-19.0.1"), R("Goto", "cpp23-adv-9.6.4"), R("MissingElse", "cpp23-req-9.4.1"),
    R("SideEffectInSizeof", "cpp23-mand-7.5.3"), R("AtoX", "cpp23-req-21.2.1"),
    R("StaticInitAllocation", "cpp23-req-10.1"), R("AtExitHandlerReturn", "cpp23-req-10.2"),
    R("BitFieldTypeRestriction", "cpp23-req-12.2"), R("OutOfBoundsAccess", "cpp23-req-13.1")>>
ExpressionComponent == <<R("SideEffectInSizeof", "c23-mand-13.6"), R("InvariantControl", "c23-req-14.3")>>
FunctionComponent == <<R("ImplicitFunctionDecl", "c25-mand-17.3")>>
LiteralComponent == <<R("OctalNumber", "avoid-octal-number")>>
OperatorComponent == <<R("CommaOperator", "avoid-comma-operator")>>
PointerComponent == <<R("PointerArithmetic", "avoid-pointer-arithmetic")>>
PreprocessorComponent == <<R("Undef", "avoid-undef"), R("MultipleHashOperators", "avoid-multiple-hash-operators")>>
ReturnComponent == <<R("MultipleReturnStmt", "avoid-multiple-return-stmt")>>
StatementComponent == <<R("Goto", "avoid-goto"), R("MissingElse", "missing-else"), R("MissingElse", "c23-req-15.7"),
                        R("MissingElse", "c25-req-15.7")>>
StdlibComponent == <<R("AtoX", "avoid-ascii-to-number"), R("RecursiveMutexLock", "c25-req-22.13"),
                     R("RecursiveMutexLock", "c25-mand-22.18"), R("AtoX", "c25-req-21.7")>>
StorageComponent == <<R("ExternInSourceFile", "c25-adv-8.19"), R("ThreadObjectStorage", "c25-req-22.13")>>
TypeComponent == <<R("Union", "avoid-union")>>
AutomotiveModule == <<R("NoRecursion", "c23-req-17.2"), R("NoRecursion", "c25-adv-17.11")>>
UnusedCodeModule == <<R("UnusedTag", "x-adv-2.4"), R("UnusedTag", "c25-adv-2.4")>>

\* mutant: a component moved to the end
ArrayLast ==
  <<BitfieldComponent, Cpp23Component, StatementComponent, StdlibComponent, StorageComponent, ArrayComponent>>
Components ==
  <<ArrayComponent, BitfieldComponent, CommentComponent, Cpp23Component, ExpressionComponent, FunctionComponent,
    LiteralComponent, OperatorComponent, PointerComponent, PreprocessorComponent, ReturnComponent,
    StatementComponent, StdlibComponent, StorageComponent, TypeComponent, AutomotiveModule, UnusedCodeModule>>

\* isLanguageVersionSupported of the classes above.
CxxOnly == {"OverlappingCopy", "UnrelatedPointerConversion", "UnrelatedPointerSubtraction", "VoidPointerCast",
            "StaticInitAllocation", "AtExitHandlerReturn", "BitFieldTypeRestriction", "OutOfBoundsAccess"}
Supports(class, lang) ==
  /\ class \in CxxOnly => lang = "c++"
  /\ class = "ImplicitFunctionDecl" => lang = "c90"

--------------------------------------------------------------------------------
\* External (registerCheckFactory): the later of two registrations of a name counts.
Giving(component, n) == {i \in DOMAIN component : component[i].name = n}
NamesIn(component) == {component[i].name : i \in DOMAIN component}
FirstCounts(fs, component) ==                                \* mutant: the earlier
  [n \in DOMAIN fs \cup NamesIn(component) |->
     IF n \in DOMAIN fs THEN fs[n] ELSE component[Min(Giving(component, n))].class]
Register(fs, component) ==
  [n \in DOMAIN fs \cup NamesIn(component) |->
     IF n \in NamesIn(component) THEN component[Max(Giving(component, n))].class ELSE fs[n]]

NoUnit == [lang |-> "", enabled |-> {}, checks |-> {}, checkers |-> {}]
RegistryInit == registered = 0 /\ factories = <<>> /\ unit = NoUnit

\* ClangTidyASTConsumerFactory() has the module register its checks.
Complete == registered = Len(Components)
AddCheckFactories ==
  /\ ~Complete
  /\ registered' = registered + 1
  /\ factories' = Register(factories, Components[registered + 1])
  /\ UNCHANGED unit

\* getAnalyzerCheckersAndPackages(): the core checkers with any other.
OnlyEnabled(enabled) == Checkers \cap enabled                \* mutant: no core checkers
CheckersFor(enabled) == IF Checkers \cap enabled = {} THEN {} ELSE Core \cup (Checkers \cap enabled)

\* External (createChecksForLanguage).
ChecksFor(enabled, lang) ==
  {[name |-> n, class |-> factories[n]] : n \in {m \in DOMAIN factories \cap enabled : Supports(factories[m], lang)}}

CreateASTConsumer(enabled, lang) ==
  /\ Complete /\ unit = NoUnit
  /\ unit' = [lang |-> lang, enabled |-> enabled, checks |-> ChecksFor(enabled, lang), checkers |-> CheckersFor(enabled)]
  /\ UNCHANGED <<registered, factories>>

\* The consumer goes, and its checks with it.
EndUnit == unit # NoUnit /\ unit' = NoUnit /\ UNCHANGED <<registered, factories>>

\* getCheckNames(), whatever the language.
CheckNames(enabled) == (DOMAIN factories \cap enabled) \cup CheckersFor(enabled)

--------------------------------------------------------------------------------
(* Properties. *)

\* The registrations in their order, by component and place in it.
Places == UNION {{<<c, i>> : i \in DOMAIN Components[c]} : c \in DOMAIN Components}
Registration(p) == Components[p[1]][p[2]]
Registrations == {Registration(p) : p \in Places}
IsLater(q, p) == q[1] > p[1] \/ (q[1] = p[1] /\ q[2] > p[2])
Replaced(p) == \E q \in Places : IsLater(q, p) /\ Registration(q).name = Registration(p).name
Lasting == {Registration(p) : p \in {q \in Places : ~Replaced(q)}}

Classes == {r.class : r \in Registrations}
NamesOf(c) == {r.name : r \in {x \in Registrations : x.class = c}}

\* The names of the static analyzer's checkers begin with "clang-analyzer-", no others do.
ASSUME CheckersAssumption == Core \subseteq Checkers /\ \A r \in Registrations : r.name \notin Checkers

\* Four classes of C++:2023 checks lose the only name they have.
Lost == {"OverlappingCopy", "UnrelatedPointerConversion", "UnrelatedPointerSubtraction", "VoidPointerCast"}

\* A class runs once under each enabled name that no later registration has taken, on
\* units of its languages; but for the four above a class with all of its names enabled
\* runs.  The names that are listed are those of the checks that run and of those of
\* other languages, and a core checker, enabled or not, runs beside any other.
ChecksJudged ==
  unit # NoUnit =>
    /\ unit.checks = {r \in Lasting : r.name \in unit.enabled /\ Supports(r.class, unit.lang)}
    /\ \A c \in Classes \ Lost : NamesOf(c) \subseteq unit.enabled /\ Supports(c, unit.lang) =>
          \E r \in unit.checks : r.class = c
    /\ CheckNames(unit.enabled) \ unit.checkers =
         {r.name : r \in unit.checks} \cup {n \in DOMAIN factories \cap unit.enabled : ~Supports(factories[n], unit.lang)}
    /\ unit.checkers # {} => Core \subseteq unit.checkers /\ unit.checkers \cap unit.enabled # {}

\* Cpp23Component.cpp:454, at a registration: "MISRA C++:2023 Rule 10.2 - Conversions from
\* void* to typed pointer".  The class of a registration runs under the name it was given.
RegisteredChecksRun ==
  unit # NoUnit =>
    \A r \in Registrations : r.name \in unit.enabled /\ Supports(r.class, unit.lang) => r \in unit.checks
================================================================================
