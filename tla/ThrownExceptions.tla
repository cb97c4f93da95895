---------------------------- MODULE ThrownExceptions ----------------------------
(* Checks of exceptions.  They look at a throw and at the functions around its  *)
(* text, or at a declaration; none looks at a call.  The program runs beside    *)
(* them: calls, handlers, the destructors of locals, and what becomes of an     *)
(* exception, which is kept for the property only.                              *)
EXTENDS Integers, Sequences, FiniteSets, Reports

CONSTANT Programs   \* functions from function names to functions, of which "main" is one
\* A function: kind ("function", "lambda", "dtor" or "move"), spec ("none", "noexcept",
\* "noexcept(false)", "throw()" or "throw(int)"), linkage ("C", "exported", "external",
\* "inline" or "static"), named (like a callback), system (in a system header), inside
\* (the function around a lambda), body: what it does in order.  A statement: op
\* ("throw", "call", "callback" for a call from C, "grow" for a container whose elements
\* a move constructor moves, "local" for an object with a destructor), what it is about,
\* the handlers of a try block around it, and whether they rethrow.

StatementFits(p, s) ==
  /\ s.rethrow \in BOOLEAN
  /\ IF s.op = "throw" THEN s.what \in STRING \ {""}
     ELSE s.op \in {"call", "callback", "grow", "local"} /\ s.what \in DOMAIN p
  /\ s.op = "grow" => p[s.what].kind = "move"
  /\ s.op = "local" => p[s.what].kind = "dtor"
ASSUME ProgramsAssumption ==
  \A p \in Programs :
    /\ "main" \in DOMAIN p /\ DOMAIN p \subseteq STRING
    /\ \A f \in DOMAIN p :
         /\ p[f].kind \in {"function", "lambda", "dtor", "move"}
         /\ p[f].spec \in {"none", "noexcept", "noexcept(false)", "throw()", "throw(int)"}
         /\ p[f].linkage \in {"C", "exported", "external", "inline", "static"}
         /\ Len(p[f].body) \in Nat /\ DOMAIN p[f].body = 1 .. Len(p[f].body)
         /\ \A i \in 1 .. Len(p[f].body) : StatementFits(p, p[f].body[i])

VARIABLES program,
          frames,     \* calls that have not ended, the innermost last
          flying,     \* the exception that looks for a handler
          fate        \* what became of an exception first, where, and the throw it came from

throwVars == <<program, frames, flying, fate>>

--------------------------------------------------------------------------------
(* Exceptions and functions. *)

\* "Std" derives from std::exception, "Std*" points to it; "Other" is another class.
StdOnly(t) == t \in {"Std", "Std*", "int"}                \* mutant: built-in types taken for derived
IsDerivedFromStdException(t) == t \in {"Std", "Std*"}
Catches(h, t) == h = "..." \/ h = t \/ (h = "const std::exception &" /\ t = "Std")

\* The specification a destructor has without being given one.
SpecOf(f) == IF program[f].kind = "dtor" /\ program[f].spec = "none" THEN "noexcept" ELSE program[f].spec
KeywordOnly(f) == program[f].spec = "noexcept"            \* mutant: neither throw() nor destructors
IsNoThrow(f) == SpecOf(f) \in {"noexcept", "throw()"}
Escapes(f, t) == SpecOf(f) \in {"none", "noexcept(false)"} \/ (SpecOf(f) = "throw(int)" /\ t = "int")
\* The functions around the text of f.
Ancestors(f) == {f} \cup (IF program[f].kind = "lambda" THEN {program[f].inside} ELSE {})

--------------------------------------------------------------------------------
(* Reports on a throw in the text of f, and on f. *)

ThrowInNoexcept(f) ==
  Say("ThrowInNoexcept", ~program[f].system /\ \E a \in Ancestors(f) : IsNoThrow(a))

ExceptionBaseClass(f, t) ==
  Say("ExceptionBaseClass", ~program[f].system /\ ~IsDerivedFromStdException(t))

AvoidException(f) == Say("Exception", ~program[f].system)

\* Looks at the nearest function only; the names of lambdas and of special members are empty.
MightBeCCallback(f) == program[f].named /\ program[f].kind = "function"
UnspecifiedOnly(f) ==                                     \* mutant: callbacks and exports left out
  Say("ExceptionAcrossBoundary", ~program[f].system /\ SpecOf(f) = "none" /\ program[f].linkage \in {"C", "external"})
ExceptionAcrossBoundary(f) ==
  Say("ExceptionAcrossBoundary",
      /\ ~program[f].system /\ ~IsNoThrow(f)
      /\ \/ program[f].linkage \in {"C", "exported"}
         \/ MightBeCCallback(f)
         \/ program[f].linkage = "external" /\ program[f].spec = "none")

\* A throw in a destructor, and a destructor with a specification that lets exceptions out.
ThrowInDestructor(f) ==
  Say("ThrowingDestructor", ~program[f].system /\ \E a \in Ancestors(f) : program[a].kind = "dtor")
NeverSpecified(f) == {}                                   \* mutant: no report on the declaration
ThrowingDestructor(f) ==
  Say("ThrowingDestructor",
      ~program[f].system /\ program[f].kind = "dtor" /\ ~IsNoThrow(f) /\ program[f].spec # "none")

NoexceptMove(f) == Say("NoexceptMove", ~program[f].system /\ program[f].kind = "move" /\ program[f].spec # "noexcept")

DynamicExceptionSpec(f) == Say("DynamicExceptionSpec", program[f].spec = "throw(int)")

SaidOfThrow(f, t) == UNION {ThrowInNoexcept(f), ExceptionBaseClass(f, t), AvoidException(f),
                            ExceptionAcrossBoundary(f), ThrowInDestructor(f)}
SaidOfFunction(f) == UNION {ThrowingDestructor(f), NoexceptMove(f), DynamicExceptionSpec(f)}

--------------------------------------------------------------------------------
(* The run. *)

Calm == [type |-> "", at |-> ""]
NoFate == [kind |-> "none", where |-> "", thrown |-> Calm]
Frame(f, by) == [f |-> f, at |-> 1, locals |-> <<>>, by |-> by, leaving |-> FALSE, pending |-> Calm]
Top == frames[Len(frames)]
Below == SubSeq(frames, 1, Len(frames) - 1)
Statements == program[Top.f].body
Now == Statements[Top.at]
Running == frames # <<>> /\ fate.kind \in {"none", "missed"}
Going == Running /\ flying = Calm /\ ~Top.leaving
AtEnd == Top.at > Len(Statements)
WithTop(t) == Append(Below, t)
EndsAs(kind) == fate' = IF fate.kind = "none" THEN [kind |-> kind, where |-> Top.f, thrown |-> flying] ELSE fate

ThrowInit ==
  /\ program \in Programs
  /\ frames = <<Frame("main", "start")>> /\ flying = Calm /\ fate = NoFate

\* A throw, or a way around it.
Throw ==
  /\ Going /\ ~AtEnd /\ Now.op = "throw"
  /\ flying' = [type |-> Now.what, at |-> Top.f]
  /\ UNCHANGED <<program, frames, fate>>
PassThrow ==
  /\ Going /\ ~AtEnd /\ Now.op = "throw"
  /\ frames' = WithTop([Top EXCEPT !.at = @ + 1])
  /\ UNCHANGED <<program, flying, fate>>

Enter ==
  /\ Going /\ ~AtEnd /\ Now.op \in {"call", "callback", "grow"}
  /\ frames' = Append(frames, Frame(Now.what, Now.op))
  /\ UNCHANGED <<program, flying, fate>>

Declare ==
  /\ Going /\ ~AtEnd /\ Now.op = "local"
  /\ frames' = WithTop([Top EXCEPT !.at = @ + 1, !.locals = Append(@, Now.what)])
  /\ UNCHANGED <<program, flying, fate>>

\* Locals are destroyed at the end of a call, be it regular or by an exception.
Destroy ==
  /\ Running
  /\ IF flying = Calm THEN ~Top.leaving /\ AtEnd ELSE Top.leaving
  /\ Top.locals # <<>>
  /\ LET n == Len(Top.locals)
     IN  frames' = Append(WithTop([Top EXCEPT !.locals = SubSeq(@, 1, n - 1), !.pending = flying]),
                          Frame(Top.locals[n], IF flying = Calm THEN "end" ELSE "unwind"))
  /\ flying' = Calm
  /\ UNCHANGED <<program, fate>>

\* A call that has been made goes on behind the statement that made it; destructors
\* leave the place alone.
Resumed(s, by) ==
  IF s = <<>> \/ by \in {"end", "unwind"} THEN s
  ELSE [s EXCEPT ![Len(s)].at = @ + 1]
Return ==
  /\ Going /\ AtEnd /\ Top.locals = <<>>
  /\ frames' = Resumed(Below, Top.by)
  /\ flying' = IF Top.by = "unwind" THEN Below[Len(Below)].pending ELSE Calm
  /\ UNCHANGED <<program, fate>>

\* Handlers of the statement an exception comes from.
Handle ==
  /\ Running /\ flying # Calm /\ ~Top.leaving /\ ~AtEnd
  /\ \E h \in Now.handlers : Catches(h, flying.type)
  /\ frames' = WithTop([Top EXCEPT !.at = @ + 1, !.leaving = Now.rethrow])
  /\ flying' = IF Now.rethrow THEN flying ELSE Calm
  /\ UNCHANGED <<program, fate>>
NoHandler ==
  /\ Running /\ flying # Calm /\ ~Top.leaving
  /\ ~AtEnd => \A h \in Now.handlers : ~Catches(h, flying.type)
  /\ frames' = WithTop([Top EXCEPT !.leaving = TRUE])
  /\ IF ~AtEnd /\ "const std::exception &" \in Now.handlers THEN EndsAs("missed") ELSE UNCHANGED fate
  /\ UNCHANGED <<program, flying>>

\* The exception leaves a function.
LeavesFunction == Running /\ flying # Calm /\ Top.leaving /\ Top.locals = <<>>
Terminate ==
  /\ LeavesFunction /\ ~Escapes(Top.f, flying.type)
  /\ EndsAs(IF SpecOf(Top.f) = "throw(int)" THEN "unexpected" ELSE "noexcept")
  /\ frames' = <<>>
  /\ UNCHANGED <<program, flying>>
Propagate ==
  /\ LeavesFunction /\ Escapes(Top.f, flying.type) /\ Top.by \in {"call", "end"}
  \* at the end of the caller's body there is no statement left to handle it
  /\ frames' = Below
  /\ UNCHANGED <<program, flying, fate>>
Leave ==
  /\ LeavesFunction /\ Escapes(Top.f, flying.type) /\ Top.by \in {"callback", "grow", "unwind", "start"}
  /\ EndsAs(CASE Top.by = "callback" -> "crossed" [] Top.by = "grow" -> "lost"
            [] Top.by = "unwind" -> "two" [] Top.by = "start" -> "uncaught")
  /\ frames' = <<>>
  /\ UNCHANGED <<program, flying>>

ThrowDone == ~Running /\ UNCHANGED throwVars

ThrowNext == Throw \/ PassThrow \/ Enter \/ Declare \/ Destroy \/ Return \/ Handle \/ NoHandler
             \/ Terminate \/ Propagate \/ Leave \/ ThrowDone
ThrowSpec == ThrowInit /\ [][ThrowNext]_throwVars

--------------------------------------------------------------------------------
\* A program that is ended by an exception, one whose exception passes a handler of
\* std::exception, and one that loses the elements of a container half moved, has been
\* reported, on the throw or on the function, unless the throw is in a system header or
\* in a function that is called (the checks do not follow calls).  Further gaps: a
\* destructor and a move constructor in a system header; a
\* pointer to an exception taken for one; a boundary crossed out of a lambda, of a
\* function that is static or inline, or of one declared noexcept(false).
ExceptionsJudged ==
  LET t == fate.thrown
      said == SaidOfThrow(t.at, t.type) \cup SaidOfFunction(fate.where)
      here == fate.where \in Ancestors(t.at)
  IN  fate.kind \notin {"none", "uncaught"} =>
        IF program[t.at].system
        THEN {"ThrowInNoexcept", "ExceptionBaseClass"} \cap SaidOfThrow(t.at, t.type) = {}
        ELSE /\ fate.kind = "missed" => "ExceptionBaseClass" \in said \/ t.type = "Std*"
             /\ fate.kind = "noexcept" /\ here => "ThrowInNoexcept" \in said
             /\ fate.kind = "unexpected" => "DynamicExceptionSpec" \in said
             /\ fate.kind = "two" =>
                  "ThrowingDestructor" \in SaidOfFunction(fate.where) \/ program[fate.where].system
             /\ fate.kind = "lost" => "NoexceptMove" \in said \/ program[fate.where].system
             /\ fate.kind = "crossed" =>
                  \/ "ExceptionAcrossBoundary" \in said
                  \/ fate.where # t.at
                  \/ program[t.at].kind # "function"
                  \/ program[t.at].linkage \in {"static", "inline"}
                  \/ program[t.at].spec \in {"noexcept(false)", "throw(int)"}
================================================================================
