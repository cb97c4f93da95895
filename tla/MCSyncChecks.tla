---------------------------- MODULE MCSyncChecks ----------------------------
(***************************************************************************)
(* Translation units with two functions, side by side or one in a local    *)
(* class of the other, of one name or of a system header, and up to five   *)
(* calls; functions that call the library and test errno; programs that    *)
(* deal with one kind of object of the library, with the objects of their  *)
(* classes, or with exceptions; expressions with effects; loops and calls;  *)
(* two threads with what they share.                                       *)
(***************************************************************************)
EXTENDS SyncChecks, ErrnoTests, LibraryObjects, MCClassObjects, MCSideEffects, MCSharedAccesses

Fn(fns) == [op |-> "function", fns |-> fns, name |-> "", var |-> NoVar, addr |-> FALSE,
            with |-> "", flags |-> -1, inDecl |-> FALSE]
Call(op, name, var) == [Fn(<<>>) EXCEPT !.op = op, !.name = name, !.var = var, !.addr = TRUE]
In(fns, s) == [i \in DOMAIN s |-> [s[i] EXCEPT !.fns = fns]]
UpTo(S, n) == UNION {[1..k -> S] : k \in 0..n}

\* Threads: g inside f.
ThreadCalls == {Call(op, "a", "a1") : op \in Life} \cup {Call("join", "b", "b1")}
ThreadUnits ==
  {<<Fn(<<"f">>)>> \o In(<<"f">>, s) \o <<Fn(<<"f", "g">>)>> \o In(<<"f", "g">>, t) \o In(<<"f">>, u) :
     s \in UpTo(ThreadCalls, 2), t \in UpTo(ThreadCalls, 2), u \in UpTo(ThreadCalls, 1)}

\* Mutexes: a second function after the first, which may be in a system header or
\* have the same name; both know an a, which is not the same variable.
MutexCalls(d) == {Call("lock", "a", d), Call("timedlock", "a", d), Call("unlock", "a", d),
                  [Call("lock", "a", d) EXCEPT !.inDecl = TRUE]}
MutexUnits(f, g, k) ==
  {<<Fn(<<f>>)>> \o In(<<f>>, s) \o <<Fn(<<g>>)>> \o In(<<g>>, t) :
     s \in UpTo(MutexCalls("a1"), k), t \in UpTo(MutexCalls("a2") \cup {Call("lock", "", NoVar)}, 2)}

\* Condition variables a and b with mutexes a, b or something unnamed.
Wait(h, m) == [Call("wait", h, NoVar) EXCEPT !.with = m]
WaitUnits == {<<Fn(<<"f">>)>> \o In(<<"f">>, s) :
                s \in UpTo({Wait("a", "a"), Wait("a", "b"), Wait("b", "b"), Wait("a", "")}, 4)}

\* Initialization with the flags of MtxTimedlockTypeCheck: plain, timed, recursive and
\* timed, not constant; through a pointer.
InitOne(f) == [Call("init", "a", "a1") EXCEPT !.flags = f]
TimedCalls == {InitOne(n) : n \in {1, 2, 4, 6, -1}}
                \cup {[InitOne(4) EXCEPT !.addr = FALSE],
                      Call("timedlock", "a", "a1"), Call("timedlock", "b", NoVar)}
TimedUnits == {<<Fn(<<"f">>)>> \o In(<<"f">>, s) : s \in UpTo(TimedCalls, 3)}

MCUnits == {<<>>} \cup ThreadUnits \cup WaitUnits \cup TimedUnits
             \cup MutexUnits("f", "g", 3) \cup MutexUnits("sys", "g", 2) \cup MutexUnits("f", "f2", 1)

MCNameOf == ("f" :> "f") @@ ("f2" :> "f") @@ ("g" :> "g") @@ ("sys" :> "sys")

\* Functions in both lists of errno, in one of them, in none, and by a pointer.
E(t, u, d) == [testing |-> t, usage |-> u, direct |-> d]
MCErrnoFunctions == "strtol" :> E(TRUE, TRUE, TRUE) @@ "atanh" :> E(TRUE, FALSE, TRUE) @@ "fmod" :> E(FALSE, TRUE, TRUE)
                    @@ "user" :> E(FALSE, FALSE, TRUE) @@ "pointer" :> E(FALSE, FALSE, FALSE)

\* What one program is about: threads and mutexes (a unit of Units), errno, one kind
\* of object of the library, classes, exceptions, an expression, a loop or a parameter, two threads.
MCInit ==
  /\ Init /\ ErrnoInit /\ LibraryInit /\ (topic # "sync" => unit = <<>>)
  /\ IF topic = "classes" THEN ObjectInit
     ELSE classes = <<>> /\ pointer = NoPointer /\ member = NoPointer /\ objectSaid = {} /\ wrong = AllWell /\ objectSteps = 0
  /\ IF topic = "exceptions" THEN ThrowInit
     ELSE program = <<>> /\ frames = <<>> /\ flying = Calm /\ fate = NoFate
  /\ IF topic = "effects" THEN EffectInit ELSE effectStmt = NoStatement /\ store = <<>> /\ outcome = NotRun
  /\ IF topic = "changes" THEN LocalInit
     ELSE local = Nothing /\ position = 0 /\ counter = 0 /\ rounds = 0 /\ cut = FALSE /\ changed = {}
  /\ IF topic = "accesses" THEN SharedInit ELSE shared = NothingShared /\ ThreadsReady
MCNext ==
  \/ topic = "sync" /\ Next /\ UNCHANGED <<errnoVars, libraryVars, objectVars, throwVars, effectVars, localVars, sharedVars>>
  \/ topic = "errno" /\ ErrnoNext /\ UNCHANGED <<vars, libraryVars, objectVars, throwVars, effectVars, localVars, sharedVars>>
  \/ topic = "classes" /\ ObjectNext /\ UNCHANGED <<vars, errnoVars, libraryVars, throwVars, effectVars, localVars, sharedVars>>
  \/ topic = "exceptions" /\ ThrowNext /\ UNCHANGED <<vars, errnoVars, libraryVars, objectVars, effectVars, localVars, sharedVars>>
  \/ topic = "effects" /\ EffectNext /\ UNCHANGED <<vars, errnoVars, libraryVars, objectVars, throwVars, localVars, sharedVars>>
  \/ topic = "changes" /\ LocalNext /\ UNCHANGED <<vars, errnoVars, libraryVars, objectVars, throwVars, effectVars, sharedVars>>
  \/ topic = "accesses" /\ SharedNext /\ UNCHANGED <<vars, errnoVars, libraryVars, objectVars, throwVars, effectVars, localVars>>
  \/ LibraryNext /\ UNCHANGED <<vars, errnoVars, objectVars, throwVars, effectVars, localVars, sharedVars>>
MCSpec == MCInit /\ [][MCNext]_<<vars, errnoVars, libraryVars, objectVars, throwVars, effectVars, localVars, sharedVars>>
=============================================================================
