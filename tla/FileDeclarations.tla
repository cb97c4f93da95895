--------------------------- MODULE FileDeclarations ----------------------------
(* Declarations of one object or one function in a header and in the source     *)
(* file that includes it, in the order the compiler reads them, with uses of    *)
(* the name.  Checks of linkage, storage classes, prototypes and names of       *)
(* parameters judge single declarations, most with the one before; the linker   *)
(* and the callers depend on all of them.                                       *)
EXTENDS Integers, Sequences, FiniteSets, Reports

CONSTANTS Kinds,       \* "object", "function" and "defaults", functions with default values
          Langs,       \* "c" and "c++"
          MaxItems     \* bound: declarations and uses, for each kind

ASSUME DeclarationAssumption == MaxItems \in [Kinds -> Nat]

VARIABLES entity,      \* what is declared: [kind, lang, const]
          items        \* declarations and uses so far
\* A declaration: [do |-> "declare", file, storage, params, def]; file is "header", "source" or
\* (functions only) "block", inside some function of the source; storage is "plain",
\* "static", "extern", "inline" or "static_inline"; params is "no_list" for an object, for a function its
\* parameter list: one parameter, named "a" or "b", "unnamed", "const_a", with a default
\* value "a=1" or "a=2", or "none" for an empty list; def: with initializer or body.
\* A use: [do |-> "use", by, how]: by one of the functions "f" and "g", or "file", the
\* initializer of another object; how "value" or "sizeof" for an object, "call_0" and
\* "call_1" with so many arguments for a function.

fileVars == <<entity, items>>

Cxx == entity.lang = "c++"
IsObject == entity.kind = "object"
Declares(i) == items[i].do = "declare"
DeclsBefore(i) == {j \in 1 .. i - 1 : j <= Len(items) /\ Declares(j)}
Nearest(I) == CHOOSE j \in I : \A k \in I : k <= j
Previous(i) == LET I == DeclsBefore(i) IN IF I = {} THEN 0 ELSE Nearest(I)
First == CHOOSE i \in DOMAIN items : Declares(i) /\ DeclsBefore(i) = {}
Redecls == {i \in DOMAIN items : Declares(i)}
Static(i) == items[i].storage \in {"static", "static_inline"}
Internal == Static(First) \/ (IsObject /\ Cxx /\ entity.const /\ items[First].storage = "plain")

\* VarDecl: an object without extern is a definition, a tentative one in C.
IsDefinition(i) == items[i].def \/ (IsObject /\ items[i].storage # "extern")
\* FunctionDecl: an empty list in C says nothing of parameters, unless an earlier
\* declaration did; inline stays.
Inlined(i) == \E j \in DeclsBefore(i) \cup {i} : items[j].storage \in {"inline", "static_inline"}
WrittenPrototype(i) == Cxx \/ items[i].params # "none"
HasPrototype(i) == \E j \in DeclsBefore(i) \cup {i} : WrittenPrototype(j)
\* A default value holds for the later declarations in its scope, file or block.
Default(i) ==
  LET Given == {j \in DeclsBefore(i) \cup {i} : items[j].params \in {"a=1", "a=2"}
                        /\ (items[i].file = "block" => j = i) /\ (j # i => items[j].file # "block")}
  IN  IF Given = {} THEN "no_value" ELSE items[Nearest(Given)].params

--------------------------------------------------------------------------------
(* Reports on objects and functions, for the declarations and uses so far. *)

Of(check, I) == {<<check, i>> : i \in I}

Initialized ==                                               \* mutant: no tentative definitions
  Of("MissingPriorDeclaration", {i \in Redecls : items[i].def /\ ~Internal /\ i = First})
MissingPriorDeclaration ==
  Of("MissingPriorDeclaration", {i \in Redecls : IsDefinition(i) /\ ~Internal /\ i = First})

MissingStaticForInternal ==
  Of("MissingStaticForInternal",
     {i \in Redecls : /\ i = First /\ ~Static(i)
                    /\ IF IsObject THEN items[i].storage # "extern" ELSE items[i].def /\ ~Inlined(i)})

OwnStatic ==                                                 \* mutant: definitions only
  Of("StaticStorageClass", {i \in Redecls : /\ Internal /\ ~Static(i) /\ items[i].def
                                          /\ (IsObject => items[i].storage # "extern")})
StaticStorageClass ==
  Of("StaticStorageClass", {i \in Redecls : /\ Internal /\ ~Static(i) /\ items[i].file # "block"
                                          /\ IsObject => items[i].storage # "extern"})

ExternInSourceFile ==
  Of("ExternInSourceFile",
     {i \in Redecls : /\ items[i].file = "source"
                    /\ IF IsObject THEN ~Internal /\ items[i].storage = "extern" ELSE ~items[i].def /\ ~Static(i)})

\* hasInitializer() asks all declarations of the object.
TentativeDefinitionInHeader ==
  Of("TentativeDefinitionInHeader",
     {i \in Redecls : /\ IsObject /\ items[i].file = "header" /\ items[i].storage = "plain"
                    /\ ~\E j \in Redecls : items[j].def})

\* Uses are counted for the declaration they find.
\* What is declared in a block holds for the uses that follow it in its function, "f".
Visible(j, i) == items[j].file = "block" => \A k \in j + 1 .. i : ~Declares(k) /\ items[k].by = "f"
Found(i) == Nearest({j \in DeclsBefore(i) : Visible(j, i)})
Evaluating(d) ==                                             \* mutant: evaluated uses only
  {items[i].by : i \in {i \in DOMAIN items \ Redecls : Found(i) = d /\ items[i].how = "value"}} \ {"file"}
UsersOf(d) == {items[i].by : i \in {i \in DOMAIN items \ Redecls : Found(i) = d}} \ {"file"}
GlobalObject ==
  Of("GlobalObject", {i \in Redecls : IsObject /\ Static(i) /\ ~entity.const /\ Cardinality(UsersOf(i)) = 1})

UseUnnamedNamespace == Of("UseUnnamedNamespace", {i \in Redecls : Cxx /\ Static(i)})

\* isUsed() leaves out unevaluated operands and, in C++, the values of constants.
MarkedUsed == \E i \in DOMAIN items : ~Declares(i) /\ items[i].how = "value" /\ ~(Cxx /\ entity.const)
UnusedObjectDefinition ==
  Of("UnusedObjectDefinition", {i \in Redecls : IsObject /\ Static(i) /\ ~MarkedUsed})

--------------------------------------------------------------------------------
(* Reports on functions only. *)

NameOf(i) == CASE items[i].params \in {"a", "const_a", "a=1", "a=2"} -> "a"
               [] items[i].params = "b" -> "b"
               [] OTHER -> "unnamed"
\* The parameters of a list that is empty and has a prototype before it are unnamed.
Arity(i) == IF items[i].params = "none" /\ ~HasPrototype(i) THEN 0 ELSE 1
WithFirst ==                                                 \* mutant: the first declaration
  Of("FunctionDeclarationMismatch",
     {i \in Redecls : ~IsObject /\ items[i].def /\ i # First /\ NameOf(i) # NameOf(First) /\ Arity(i) = Arity(First)})
FunctionDeclarationMismatch ==
  Of("FunctionDeclarationMismatch",
     {i \in Redecls : LET p == Previous(i) IN
        /\ ~IsObject /\ items[i].def /\ p # 0
        /\ \/ HasPrototype(i) # HasPrototype(p)
           \/ Arity(i) = Arity(p) /\ Arity(i) = 1 /\ NameOf(i) # NameOf(p)
           \/ Arity(i) = Arity(p) /\ (items[i].params = "const_a") # (items[p].params = "const_a")})

IsCall(i) == ~Declares(i) /\ items[i].how \in {"call_0", "call_1"}
ImplicitFunctionDecl ==
  Of("ImplicitFunctionDecl", {i \in DOMAIN items : IsCall(i) /\ ~HasPrototype(Found(i))})

UncompleteFunctionPrototype ==
  Of("UncompleteFunctionPrototype",
     {i \in Redecls : ~IsObject /\ (~HasPrototype(i) \/ items[i].params = "unnamed")})

StaticInline == Of("StaticInline", {i \in Redecls : ~IsObject /\ Inlined(i) /\ ~Static(i)})

WrittenDefaults ==                                           \* mutant: inherited values not seen
  Of("DefaultArgumentOrder",
     {i \in Redecls : /\ Cxx /\ ~IsObject /\ ~items[i].def /\ Previous(i) # 0
                    /\ {items[i].params, items[Previous(i)].params} = {"a=1", "a=2"}})
DefaultArgumentOrder ==
  Of("DefaultArgumentOrder",
     {i \in Redecls : LET p == Previous(i) IN
        /\ Cxx /\ ~IsObject /\ ~items[i].def /\ p # 0
        /\ Default(i) # "no_value" /\ Default(p) # "no_value" /\ Default(i) # Default(p)})

--------------------------------------------------------------------------------
(* The compiler reads a declaration or a use that the language allows. *)

Latter(f) == IF f = "header" THEN {"header", "source", "block"} ELSE {"source", "block"}
InOrder(file) == items # <<>> => file \in Latter(IF Declares(Len(items)) THEN items[Len(items)].file ELSE "source")

\* Static only from the first declaration on, one initializer or body; an object is
\* static again, or extern; in C++ it is defined once, a constant with a value, and a
\* default value is given once for the file.
ObjectFits(d) ==
  /\ d.params = "no_list" /\ d.file # "block" /\ d.storage \in {"plain", "static", "extern"}
  /\ Redecls # {} => IF Internal THEN d.storage \in {"static", "extern"} ELSE d.storage # "static"
  /\ d.def => ~\E j \in Redecls : items[j].def
  /\ Cxx => /\ (d.def \/ d.storage # "extern") => ~\E j \in Redecls : IsDefinition(j)
            /\ entity.const /\ d.storage # "extern" => d.def
FunctionFits(d) ==
  LET Lists == {items[j].params : j \in Redecls}
  IN  /\ d.params \in IF entity.kind = "defaults" THEN {"a", "a=1", "a=2"}
                      ELSE {"a", "b", "unnamed", "const_a"} \cup (IF Cxx THEN {} ELSE {"none"})
      /\ d.storage # "plain" => d.params = "a" /\ entity.kind = "function"
      /\ d.storage \in {"static", "static_inline"} /\ Redecls # {} => Internal
      /\ d.def => ~\E j \in Redecls : items[j].def
      /\ d.params = "none" /\ d.def => Lists \subseteq {"none"}
      /\ d.params # "none" => ~\E j \in Redecls : items[j].def /\ items[j].params = "none"
      /\ d.file = "block" => Cxx /\ ~d.def /\ d.storage = "plain" /\ d.params \in {"a", "a=1", "a=2"}
      /\ d.params \in {"a=1", "a=2"} /\ d.file # "block" =>
           ~\E j \in Redecls : items[j].file # "block" /\ items[j].params \in {"a=1", "a=2"}

Declare(d) ==
  /\ Len(items) < MaxItems[entity.kind] /\ InOrder(d.file)
  /\ IF IsObject THEN ObjectFits(d) ELSE FunctionFits(d)
  /\ items' = Append(items, d)
  /\ UNCHANGED entity

CallFits(found, how) ==
  IF HasPrototype(found) THEN how = "call_1" \/ (how = "call_0" /\ Default(found) # "no_value") ELSE TRUE
Use(by, how) ==
  LET seen == {j \in Redecls : items[j].file = "block" =>
                               /\ by = "f"
                               /\ \A k \in j + 1 .. Len(items) : ~Declares(k) /\ items[k].by = "f"}
  IN  /\ Len(items) < MaxItems[entity.kind] /\ seen # {}
      /\ how \in IF IsObject THEN {"value", "sizeof"} ELSE {"call_0", "call_1"}
      /\ by = "file" => IsObject
      /\ ~IsObject => CallFits(Nearest(seen), how)
      /\ items' = Append(items, [do |-> "use", by |-> by, how |-> how])
      /\ UNCHANGED entity

FileInit ==
  /\ entity \in {e \in [kind : Kinds, lang : Langs, const : BOOLEAN] :
                   (e.kind # "object" => ~e.const) /\ (e.kind = "defaults" => e.lang = "c++")}
  /\ items = <<>>
Declarations ==
  [do : {"declare"}, file : {"header", "source", "block"}, def : BOOLEAN,
   storage : {"plain", "static", "extern", "inline", "static_inline"},
   params : {"no_list", "a", "b", "unnamed", "const_a", "a=1", "a=2", "none"}]
FileNext ==
  \/ \E d \in Declarations : Declare(d)
  \/ \E by \in {"f", "g", "file"}, how \in {"value", "sizeof", "call_0", "call_1"} : Use(by, how)

--------------------------------------------------------------------------------
(* Properties. *)

InHeader == {i \in Redecls : items[i].file = "header"}
Users == {items[i].by : i \in DOMAIN items \ Redecls}
Emitted(I) ==
  /\ ~Internal /\ \E i \in I : IsDefinition(i)
  /\ ~IsObject /\ (\E i \in I : Inlined(i)) => ~Cxx /\ \E i \in I : items[i].storage \in {"plain", "extern"}

\* A header that defines the name for every file that includes it is reported, unless it
\* declares the name before the definition and gives it a value or a body; a value given
\* in the source file hides the definition of the header.
HeadersDefineNothing ==
  Redecls # {} /\ Emitted(InHeader) =>
    \/ MissingPriorDeclaration # {} \/ TentativeDefinitionInHeader # {} \/ StaticInline # {}
    \/ \E i \in Redecls : items[i].def /\ i # First

\* A definition that other files can see is declared in the header, or it or its
\* declaration in the source file is reported, unless that is in a block; what is to become
\* static is also said to lack a declaration, but for constants in C++.
ExternalsInHeader ==
  /\ Redecls # {} /\ Emitted(Redecls) /\ InHeader = {} =>
       MissingPriorDeclaration # {} \/ ExternInSourceFile # {} \/ items[First].file = "block"
  /\ MissingStaticForInternal # {} => MissingPriorDeclaration # {} \/ (Cxx /\ entity.const)

\* A name that other files cannot see says so where it is declared: all of its
\* declarations are static, or those that are not are reported, and in C++ those that are
\* as well; but for extern objects and declarations in a block.
InternalsSaySo ==
  Redecls # {} /\ Internal =>
    \A i \in Redecls : \/ IF Cxx THEN <<"UseUnnamedNamespace", i>> \in UseUnnamedNamespace ELSE Static(i)
                     \/ <<"StaticStorageClass", i>> \in StaticStorageClass
                     \/ items[i].file = "block" \/ (IsObject /\ items[i].storage = "extern")

\* An object that is to move into the one function that uses it is used by that function
\* only, unless it is declared twice or used by an initializer; objects like it are found.
\* An object that is to be removed is not used, but for sizeof and constants in C++.
UsersCounted ==
  /\ GlobalObject # {} =>
       \/ Cardinality(Users) = 1 /\ "file" \notin Users
       \/ Cardinality({i \in Redecls : Static(i)}) > 1 \/ "file" \in Users
       \/ \E i \in Redecls : items[i].storage = "extern"
  /\ IsObject /\ ~entity.const /\ Redecls # {} /\ Internal /\ Cardinality(Users \ {"file"}) = 1 =>
       GlobalObject # {} \/ \E i \in Redecls : items[i].storage = "extern"
  /\ UnusedObjectDefinition # {} =>
       Users = {} \/ (Cxx /\ entity.const) \/ \A i \in DOMAIN items \ Redecls : items[i].how = "sizeof"

\* A call with too few or too many arguments for the definition is reported, with the
\* declaration that allows it, and calls that leave out their argument get the same value;
\* of two values one is reported, unless the later one is behind the definition, or comes
\* with it, or there is a declaration without a value between them.
CallsAgree ==
  LET Calls == {i \in DOMAIN items : IsCall(i)}
      Short == {i \in Calls : items[i].how = "call_0"}
  IN  /\ \A c \in Calls, i \in {i \in Redecls : items[i].def} :
           Arity(i) # (IF items[c].how = "call_0" THEN 0 ELSE 1) =>
             \/ <<"ImplicitFunctionDecl", c>> \in ImplicitFunctionDecl /\ UncompleteFunctionPrototype # {}
             \/ Default(Found(c)) # "no_value"
      /\ \A c1, c2 \in Short : Cxx /\ Found(c1) < Found(c2) /\ Default(Found(c1)) # Default(Found(c2)) =>
           \/ DefaultArgumentOrder # {}
           \/ \E i \in Redecls : /\ items[i].def \/ Default(i) = "no_value"
                               /\ Found(c1) < i /\ i <= Found(c2)

\* A definition names its parameter as the header does, or this is reported, or a declaration
\* of the source file that comes between them, unless it is static or in a block.
NamesAgree ==
  ~IsObject =>
    \A i \in {i \in Redecls : items[i].def}, h \in InHeader :
      h < i /\ (\A k \in InHeader : k <= h \/ k = i) /\ NameOf(h) # NameOf(i) =>
        \/ FunctionDeclarationMismatch # {} \/ ExternInSourceFile # {}
        \/ \E k \in h + 1 .. i - 1 : Declares(k) /\ (items[k].file = "block" \/ Static(k))

\* What the checks say of the declarations of a file agrees with linkage, uses and calls.
FileJudged ==
  /\ HeadersDefineNothing /\ ExternalsInHeader /\ InternalsSaySo
  /\ UsersCounted /\ CallsAgree /\ NamesAgree
================================================================================
