----------------------------- MODULE LibraryObjects -----------------------------
(* Checks of what a program does with objects of the standard library: FILE      *)
(* pointers, streams, strings the library owns, thread-specific storage, waits   *)
(* for a condition, and handlers for the end of the program.  The code is read   *)
(* and run one statement after the other; each check says what it makes of the   *)
(* statement, and what is said is kept with the object until something goes      *)
(* wrong with it.                                                                *)
EXTENDS Integers, Sequences, FiniteSets, SequencesExt, ErrnoTests, Reports

CONSTANTS Topics,         \* which objects a program deals with
          FileVars, Streams, StringVars,
          Listed,         \* streams of a type that isStreamType() knows by name
          ConstStrings,   \* string variables that point to const
          MaxLibrarySteps, MaxHandlers

VARIABLES topic,
          files,      \* the files that were opened: [state, said, byName: was it closed by its name]
          fileVars,   \* FILE pointers: the file, 0 for null, NoValue, or Undeclared
          above,      \* the statement above, as far as the check of streams looks at it
          unchecked,  \* streams: the reports on an operation whose outcome was not looked at
          strings,    \* pointers to char: [library, said, cast]
          key,        \* the thread-specific storage: [destructor, type, value, said]
          waiting,    \* the loop around a wait that is under way
          handlers,   \* registered for the end of the program
          mishap,     \* the first thing that went wrong: [kind, said, unseen]
          steps       \* bounded by MaxLibrarySteps; handlers by MaxHandlers

libraryVars == <<topic, files, fileVars, above, unchecked, strings, key, waiting, handlers, mishap, steps>>

NoMishap == [kind |-> "none", said |-> {}, unseen |-> FALSE]
\* unseen: the text is one of those that the checks make nothing of.
Mishap(kind, said, unseen) ==
  mishap' = IF mishap = NoMishap /\ kind # "none" THEN [kind |-> kind, said |-> said, unseen |-> unseen] ELSE mishap
NoValue == -1
Undeclared == -2
NoneOpen == [state |-> "none", said |-> {}, byName |-> TRUE]
NotRead == [op |-> "none", stream |-> "none"]

Turn(t) == topic = t /\ steps < MaxLibrarySteps /\ steps' = steps + 1 /\ topic' = topic
--------------------------------------------------------------------------------
(* FILE pointers: CheckFilePointerValidityCheck, in C++. *)

UninitFile(how) == Say("UninitFile", how = "none")
\* The call itself as a condition is under an implicit cast, like a branch of "?:".
OnlyStatements(how) == Say("FopenCall", how = "statement")    \* mutant: arguments left out
FopenCall(how) == Say("FopenCall", how \notin {"initializer", "assigned", "ternary"})
FcloseCall(how) == Say("FcloseCall", how = "name")

FilesOnly == UNCHANGED <<above, unchecked, strings, key, waiting, handlers>>
FileAt(v) == IF fileVars[v].file > 0 THEN files[fileVars[v].file] ELSE NoneOpen
Declared(v) == fileVars[v].file # Undeclared
\* FILE *v; FILE *v = fopen(..); v = fopen(..); v = 0; v = w;
SetFile(v, how, w) ==
  /\ Turn("files")
  /\ how \in {"none", "initializer"} => ~Declared(v)
  /\ how \in {"assigned", "null", "copied"} => Declared(v)
  /\ how = "copied" => Declared(w)
  /\ how \in {"none", "null", "copied"} => files' = files
  /\ how \in {"initializer", "assigned"} =>
       \E state \in {"open", "null"} : files' = Append(files, [state |-> state, said |-> FopenCall(how), byName |-> TRUE])
  /\ fileVars' = [fileVars EXCEPT ![v] =
       CASE how = "none" -> [file |-> NoValue, said |-> UninitFile(how)]
         [] how = "null" -> [file |-> 0, said |-> {}]
         [] how = "copied" -> fileVars[w]
         [] OTHER -> [file |-> Len(files'), said |-> {}]]
  /\ FilesOnly /\ UNCHANGED mishap

FileError(v) ==
  CASE fileVars[v].file = NoValue -> "no file" [] FileAt(v).state = "closed" -> "closed file" [] FileAt(v).state = "open" -> "none"
    [] OTHER -> "null file"
FileMishap(v) ==
  Mishap(FileError(v), fileVars[v].said \cup FileAt(v).said, FileError(v) = "null file" \/ ~FileAt(v).byName)
UseFile(v) ==
  /\ Turn("files") /\ Declared(v) /\ FileMishap(v)
  /\ FilesOnly /\ UNCHANGED <<files, fileVars>>
\* fclose(v), or of an expression that has the same value
CloseFile(v, how) ==
  /\ Turn("files") /\ Declared(v) /\ FileMishap(v)
  /\ files' = IF FileAt(v).state = "open"
              THEN [files EXCEPT ![fileVars[v].file] = [state |-> "closed", said |-> @.said \cup FcloseCall(how), byName |-> how = "name"]] ELSE files
  /\ FilesOnly /\ UNCHANGED fileVars
\* fread(.., fopen(..)), and others that do not keep the file
OpenUnkept(how) ==
  /\ Turn("files")
  /\ \E state \in {"open", "null"} :
       Mishap(IF how = "argument" /\ state = "null" THEN "null file" ELSE "none", FopenCall(how), FALSE)
  /\ FilesOnly /\ UNCHANGED <<files, fileVars>>

--------------------------------------------------------------------------------
(* Streams: CheckStreamStateCheck. *)

\* hasStreamStateCheck() takes any if; a next statement that is an operation on the
\* same stream is reported.
SameStatement(s) == above.op \in {"read", "check"} /\ above.stream = s      \* mutant: a check is an operation
FollowsRead(s) == above = [op |-> "read", stream |-> s]
StreamOp(s) == Say("StreamOp", s \in Listed /\ FollowsRead(s))
ChainedOp == {"ChainedOp"}
Getline(how) == Say("Getline", how = "statement")

StreamsOnly == UNCHANGED <<files, fileVars, strings, key, waiting, handlers>>
\* What is still unchecked when s is operated on.
Unnoticed(s, said, unseen) ==
  Mishap(IF unchecked[s].open THEN "unchecked stream" ELSE "none", said \cup unchecked[s].said, unseen \/ ~unchecked[s].near)
Operate(s, said, seen, open) ==
  /\ unchecked' = [u \in Streams |-> IF u = s THEN [open |-> open, said |-> said, near |-> TRUE]
                                     ELSE [unchecked[u] EXCEPT !.near = FALSE]]
  /\ above' = IF seen THEN [op |-> "read", stream |-> s] ELSE NotRead
  /\ StreamsOnly

\* s >> x;
Extract(s) == Turn("streams") /\ Unnoticed(s, StreamOp(s), s \notin Listed) /\ Operate(s, StreamOp(s), TRUE, TRUE)
\* s >> x >> y;
Chain(s) == Turn("streams") /\ Mishap("unchecked stream", ChainedOp, FALSE) /\ Operate(s, ChainedOp, FALSE, TRUE)
\* getline(s, x); and as the condition of an if or a while
GetLine(s, how) ==
  /\ Turn("streams") /\ Unnoticed(s, Getline(how), how = "condition")
  /\ Operate(s, Getline(how), FALSE, how = "statement")
\* if (s), s.good() and so on
CheckStream(s) ==
  /\ Turn("streams") /\ above' = [op |-> "check", stream |-> s]
  /\ unchecked' = [u \in Streams |-> [unchecked[u] EXCEPT !.near = FALSE, !.open = @ /\ u # s]]
  /\ StreamsOnly /\ UNCHANGED mishap
OtherStatement ==
  /\ Turn("streams") /\ above' = NotRead
  /\ unchecked' = [u \in Streams |-> [unchecked[u] EXCEPT !.near = FALSE]]
  /\ StreamsOnly /\ UNCHANGED mishap

--------------------------------------------------------------------------------
(* Strings that getenv() and others own: LocaleConstPointerCheck. *)

LocaleVar(v) == Say("LocaleConstPointer", v \notin ConstStrings)
LocaleCast(how) == Say("LocaleConstPointer", how = "cast")

StringsOnly == UNCHANGED <<files, fileVars, above, unchecked, key, waiting, handlers>>
\* v = getenv(..), v = (char *)getenv(..)
TakeString(v, how) ==
  /\ Turn("strings")
  /\ how = "cast" => v \notin ConstStrings
  /\ strings' = [strings EXCEPT ![v] = [library |-> TRUE, cast |-> FALSE,
                                        said |-> IF how = "cast" THEN LocaleCast(how) ELSE LocaleVar(v)]]
  /\ StringsOnly /\ UNCHANGED mishap
\* v = w, with a cast if that takes const away
CopyString(v, w) ==
  /\ Turn("strings") /\ v # w
  /\ strings' = [strings EXCEPT ![v] = [strings[w] EXCEPT !.cast = @ \/ (w \in ConstStrings /\ v \notin ConstStrings)]]
  /\ StringsOnly /\ UNCHANGED mishap
WriteString(v) ==
  /\ Turn("strings") /\ v \notin ConstStrings
  /\ Mishap(IF strings[v].library THEN "library string" ELSE "none", strings[v].said, strings[v].cast)
  /\ StringsOnly /\ UNCHANGED strings

--------------------------------------------------------------------------------
(* Thread-specific storage: TssUsageCheck. *)

\* In C the macro NULL is an explicit cast, which is not looked through.
TssCreate(destructor) == Say("TssCreate", destructor = "0")
OnlyPointers(value) == Say("TssSet", value = "pointer")     \* mutant: arrays have a cast around
TssSet(value) == Say("TssSet", value \in {"local array", "pointer"})
\* A key of tss_t by another name is reported wherever it is used, for its type alone;
\* what goes wrong with a value must have been announced by another report.
TssKey(type) == Say("TssKey", type = "typedef")
OfValue == key.said \ {"TssKey"}

KeyOnly == UNCHANGED <<files, fileVars, above, unchecked, strings, waiting, handlers>>
CreateKey(destructor, type) ==
  /\ Turn("storage") /\ key' = [destructor |-> destructor, type |-> type, value |-> "none", said |-> TssCreate(destructor)]
  /\ KeyOnly /\ UNCHANGED mishap
\* "pointer": a local variable that points to memory of its own
SetKey(value) ==
  /\ Turn("storage") /\ key.destructor # "none"
  /\ key' = [key EXCEPT !.value = value, !.said = @ \cup TssKey(key.type) \cup TssSet(value)]
  /\ KeyOnly /\ UNCHANGED mishap
\* The function returns; tss_get() in another one.
GetKey ==
  /\ Turn("storage") /\ key.value # "none"
  /\ Mishap(IF key.value \in {"local array", "local address"} THEN "dead storage" ELSE "none", OfValue, key.value = "local address")
  /\ key' = [key EXCEPT !.said = @ \cup TssKey(key.type)]
  /\ KeyOnly
ThreadEnds ==
  /\ Turn("storage") /\ key.value # "none"
  /\ Mishap(IF key.value = "pointer" /\ key.destructor \in {"0", "NULL"} THEN "lost storage" ELSE "none", OfValue, key.destructor = "NULL")
  /\ key' = [key EXCEPT !.value = "none"]
  /\ KeyOnly

--------------------------------------------------------------------------------
(* Waits: SpuriousWakeupCheck.  The loops around: those that test the predicate, *)
(* those that test nothing, and a loop about something else.                     *)

Loops == {"none", "while", "do", "for", "while 1", "for ever", "other while"}
Untested == {"none", "while 1", "for ever", "other while"}
SpuriousWakeup(loop) == Say("SpuriousWakeup", loop \in {"none", "while 1"})

WaitsOnly == UNCHANGED <<files, fileVars, above, unchecked, strings, key, handlers>>
WaitFor(loop) == Turn("waits") /\ waiting = "no wait" /\ waiting' = loop /\ WaitsOnly /\ UNCHANGED mishap
\* The wait returns, with what it waits for or without; a loop may wait again.
Wake(holds) ==
  /\ Turn("waits") /\ waiting # "no wait"
  /\ waiting' = IF holds \/ waiting \in Untested THEN "no wait" ELSE waiting
  /\ Mishap(IF waiting' = "no wait" /\ ~holds THEN "spurious wakeup" ELSE "none", SpuriousWakeup(waiting),
            waiting \in {"for ever", "other while"})
  /\ WaitsOnly

--------------------------------------------------------------------------------
(* The end of the program: AtExitHandlerReturnCheck, ExitCheck. *)

\* The handler is found behind its name, which & may precede; its text is searched.
FoundHandler(form) == form \in {"name", "address"}
AtExitHandlerReturn(form, body) ==
  Say("AtExitHandlerReturn", FoundHandler(form) /\ body \in {"exit", "longjmp", "throw", "throw_caught"})
ExitCall(body) == Say("Exit", body \in {"exit", "calls_exit"})

HandlersOnly == UNCHANGED <<files, fileVars, above, unchecked, strings, key, waiting>>
RegisterHandler(form, body) ==
  /\ Turn("handlers") /\ Len(handlers) < MaxHandlers
  /\ handlers' = Append(handlers, [body |-> body, said |-> AtExitHandlerReturn(form, body) \cup ExitCall(body), found |-> FoundHandler(form)])
  /\ HandlersOnly /\ UNCHANGED mishap
\* exit() runs them, the last one first.
RunHandler ==
  /\ Turn("handlers") /\ handlers # <<>>
  /\ LET h == Last(handlers)
     IN  Mishap(IF h.body \in {"returns", "throw_caught"} THEN "none" ELSE "handler", h.said,
                ~h.found \/ h.body = "calls_longjmp")
  /\ handlers' = Front(handlers)
  /\ HandlersOnly

--------------------------------------------------------------------------------
LibraryInit ==
  /\ topic \in Topics /\ steps = 0 /\ mishap = NoMishap
  /\ files = <<>> /\ fileVars = [v \in FileVars |-> [file |-> Undeclared, said |-> {}]]
  /\ above = NotRead /\ unchecked = [s \in Streams |-> [open |-> FALSE, said |-> {}, near |-> FALSE]]
  /\ strings = [v \in StringVars |-> [library |-> FALSE, said |-> {}, cast |-> FALSE]]
  /\ key = [destructor |-> "none", type |-> "tss_t", value |-> "none", said |-> {}] /\ waiting = "no wait" /\ handlers = <<>>

ProgramEnd == steps = MaxLibrarySteps /\ UNCHANGED libraryVars

LibraryNext ==
  \/ \E v, w \in FileVars, how \in {"none", "null", "initializer", "assigned", "copied"} : SetFile(v, how, w)
  \/ \E v \in FileVars : UseFile(v) \/ \E how \in {"name", "element"} : CloseFile(v, how)
  \/ \E how \in {"argument", "statement", "condition", "ternary"} : OpenUnkept(how)
  \/ \E s \in Streams : Extract(s) \/ Chain(s) \/ CheckStream(s) \/ \E how \in {"statement", "condition"} : GetLine(s, how)
  \/ OtherStatement
  \/ \E v \in StringVars : WriteString(v) \/ (\E how \in {"plain", "cast"} : TakeString(v, how)) \/ \E w \in StringVars : CopyString(v, w)
  \/ \E destructor \in {"0", "NULL", "function"}, type \in {"tss_t", "typedef"} : CreateKey(destructor, type)
  \/ \E value \in {"local array", "local address", "pointer", "static"} : SetKey(value)
  \/ GetKey \/ ThreadEnds
  \/ \E loop \in Loops : WaitFor(loop)
  \/ \E holds \in BOOLEAN : Wake(holds)
  \/ \E form \in {"name", "address", "variable"}, body \in {"returns", "exit", "longjmp", "throw", "throw_caught", "calls_exit", "calls_longjmp"} :
       RegisterHandler(form, body)
  \/ RunHandler
  \/ ProgramEnd
LibrarySpec == LibraryInit /\ [][LibraryNext]_libraryVars

--------------------------------------------------------------------------------
\* The first thing that goes wrong with an object of the library was announced by a
\* report on something that was done to that object, through whatever variables it
\* went, but for: a null FILE pointer that was kept in a variable, or a file that was
\* closed through an expression that is not its name; an operation on a stream that does not follow directly on the unchecked one, is the condition of an
\* if, or has a type of another name; a const pointer that is cast later; the address
\* of a local variable as thread-specific, or storage without a destructor by the
\* macro NULL; a wait in a loop about something else; a handler that is not given by
\* its name or jumps in a function it calls.  And of two operations on a stream in a
\* row the second is reported only where the outcome of the first was not looked at.
LibraryJudged ==
  /\ mishap # NoMishap => mishap.said # {} \/ mishap.unseen
  /\ \A s \in Streams : StreamOp(s) # {} => unchecked[s].open

\* What is said of errno and of the objects of the library agrees with what the library
\* does when the program runs.
LibraryUseJudged == ErrnoTestsJudged /\ LibraryJudged
================================================================================
