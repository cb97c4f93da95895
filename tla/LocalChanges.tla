------------------------------ MODULE LocalChanges ------------------------------
(* Checks of what is changed behind the back of a loop, or of a caller: the     *)
(* counter of a "for" in its body, and parameters in a function.  They look for *)
(* assignments to a name; the loop and the call run beside them.                *)
EXTENDS Integers, Sequences, FiniteSets, Reports

CONSTANTS ForLoops,    \* for loops
          Callees,     \* functions with parameters
          Limit,       \* the loops count up to it
          MaxRounds    \* bound: rounds of a loop that are looked at
\* A loop: init ("none", "uninit", "declare", "declare two", "assign", "float" or "float
\* assign"), cond ("none", "counter", "second" or "other"), inc ("none", "step" or "other"),
\* body: statements ("set", "++", "(set)": of the counter; "nested": in a loop inside;
\* "pointer": through a pointer to it; "other", "break", "continue", "if break").
\* A function takes "v" by value, "r" by reference, and pointers "p" and "q"; const: those
\* of them to const; body: pairs of a parameter and what is done with it ("=", "++",
\* "(=)", "via &"; for pointers "*=", "[]=", "(*=)", "copy*=", "+1*=", "&*", "pass" to a
\* function that writes, "show" to one that takes a pointer to const).

LoopFits(l) ==
  /\ l.init \in {"none", "uninit", "declare", "declare two", "assign", "float", "float assign"}
  /\ l.cond \in {"none", "counter", "second", "other"} /\ l.inc \in {"none", "step", "other"}
  /\ Len(l.body) \in Nat /\ DOMAIN l.body = 1 .. Len(l.body)
  /\ \A i \in 1 .. Len(l.body) :
       l.body[i] \in {"set", "++", "(set)", "nested", "pointer", "other", "break", "continue", "if break"}
FunctionFits(f) ==
  /\ "init" \notin DOMAIN f
  /\ Len(f.body) \in Nat /\ DOMAIN f.body = 1 .. Len(f.body)
  /\ \A i \in 1 .. Len(f.body) :
       /\ f.body[i][1] \in {"v", "r", "p", "q"}
       /\ f.body[i][2] \in {"=", "++", "(=)", "via &", "*=", "[]=", "(*=)", "copy*=", "+1*=", "&*", "pass", "show"}
ASSUME LocalAssumption ==
  /\ Limit \in Nat /\ MaxRounds \in Nat
  /\ \A l \in ForLoops : "init" \in DOMAIN l /\ LoopFits(l)
  /\ \A f \in Callees : FunctionFits(f)

VARIABLES local,      \* the loop or the function
          position,   \* the next statement of the body, 0 for the head of a loop
          counter,    \* value of the counter of a loop
          rounds,     \* how often its increment was evaluated
          cut,        \* a jump has left statements of the body behind
          changed     \* what has been changed: parameters, and objects by the pointer used

localVars == <<local, position, counter, rounds, cut, changed>>

IsLoop == "init" \in DOMAIN local
BodyOps == {local.body[i] : i \in DOMAIN local.body}

--------------------------------------------------------------------------------
(* Reports on a loop. *)

\* InitVarCollector
InitVars == CASE local.init \in {"declare", "assign", "float", "float assign"} -> {"counter"}
              [] local.init = "declare two" -> {"counter", "second"}
              [] local.init \in {"none", "uninit"} -> {}
\* ModificationChecker, which does not enter loops.
ModifiedAnywhere == BodyOps \cap {"set", "++", "nested"} # {}        \* mutant: the other check's search
ModifiedInBody == BodyOps \cap {"set", "++", "(set)"} # {}
CondRefers == local.cond \in InitVars
HeadOnly ==                                                          \* mutant: without the body
  Say("WellFormedForLoop", InitVars = {} \/ ~CondRefers \/ local.inc # "step")
WellFormedForLoop ==
  Say("WellFormedForLoop", InitVars = {} \/ ~CondRefers \/ local.inc # "step" \/ ModifiedInBody)

\* Of a loop that declares one variable; all of the body, no parentheses.
ForLoopVarModification ==
  Say("ForLoopVarModification", local.init \in {"declare", "float", "uninit"} /\ BodyOps \cap {"set", "++", "nested"} # {})

IsFloat == local.init \in {"float", "float assign"}
FloatStep == Say("FloatingPointLoopCounter", local.init = "float")   \* mutant: declarations only
FloatingPointLoopCounter == Say("FloatingPointLoopCounter", IsFloat)

Jump == {"break", "continue"}
SuboptimalBreakContinue ==
  Say("SuboptimalBreakContinue", \E i \in DOMAIN local.body : local.body[i] \in Jump /\ i # Len(local.body))

LoopSaid == UNION {WellFormedForLoop, ForLoopVarModification, FloatingPointLoopCounter, SuboptimalBreakContinue}

--------------------------------------------------------------------------------
(* Reports on a function. *)

Does(params, hows) == \E i \in DOMAIN local.body : local.body[i][1] \in params /\ local.body[i][2] \in hows
ModifyingByValueParam == Say("ModifyingByValueParam", Does({"v"}, {"=", "++"}))
FunctionParameterModification == Say("FunctionParameterModification", Does({"v", "r", "p", "q"}, {"=", "++", "(=)"}))

\* hasAnyParameter() stops at the first pointer that is not to const.
Judged == IF "p" \notin local.const THEN {"p"} ELSE {"q"} \ local.const
\* ParameterModificationVisitor
DirectOnly(w) == Does({w}, {"*=", "[]="})                            \* mutant: neither & nor arguments
ParameterModified(w) == Does({w}, {"*=", "[]=", "&*", "pass"})
NonConstPointerParam(w) == Say("NonConstPointerParam", w \in Judged /\ ~ParameterModified(w))

--------------------------------------------------------------------------------
(* The loop and the call. *)

Nothing == [body |-> <<>>]
LocalInit ==
  /\ local \in ForLoops \cup Callees
  /\ position = (IF IsLoop THEN 0 ELSE 1)
  /\ counter = 0 /\ rounds = 0 /\ cut = FALSE /\ changed = {}

\* A float of two digits: from 4 on, adding 1 is lost in rounding.
Plus1(n) == IF IsFloat /\ n >= 4 THEN n ELSE n + 1
AtHead == IsLoop /\ position = 0
InBody == IsLoop /\ position \in 1 .. Len(local.body)
Statement == local.body[position]

\* The condition: variables other than the counter may hold or not.
EnterBody ==
  /\ AtHead /\ rounds < MaxRounds
  /\ local.cond = "counter" => counter < Limit
  /\ position' = 1
  /\ UNCHANGED <<local, counter, rounds, cut, changed>>
LeaveLoop ==
  /\ AtHead
  /\ local.cond # "none" /\ (local.cond = "counter" => counter >= Limit)
  /\ position' = Len(local.body) + 2
  /\ UNCHANGED <<local, counter, rounds, cut, changed>>

Change ==
  /\ InBody /\ Statement \notin Jump
  /\ counter' \in CASE Statement \in {"set", "(set)", "pointer"} -> {0, counter + 1}
                    [] Statement = "++" -> {Plus1(counter)}
                    [] Statement = "nested" -> {counter, Plus1(counter)}
                    [] OTHER -> {counter}
  /\ position' \in {position + 1} \cup (IF Statement = "if break" THEN {Len(local.body) + 2} ELSE {})
  /\ UNCHANGED <<local, rounds, cut, changed>>
JumpOut ==
  /\ InBody /\ Statement \in Jump
  /\ cut' = (cut \/ position # Len(local.body))
  /\ position' = Len(local.body) + (IF Statement = "break" THEN 2 ELSE 1)
  /\ UNCHANGED <<local, counter, rounds, changed>>
Increment ==
  /\ IsLoop /\ position = Len(local.body) + 1
  /\ counter' = IF local.inc = "step" THEN Plus1(counter) ELSE counter
  /\ rounds' = rounds + 1 /\ position' = 0
  /\ UNCHANGED <<local, cut, changed>>

\* A statement of the function, with the parameter or the object that it writes to.
Writes(w, how) ==
  CASE how \in {"=", "++", "(=)", "via &"} -> {<<"value", w>>}
    [] how \in {"*=", "[]=", "(*=)", "copy*=", "+1*=", "pass"} -> {<<"object", w>>}
    [] how \in {"&*", "show"} -> {}
DoStatement ==
  /\ ~IsLoop /\ position <= Len(local.body)
  /\ changed' = changed \cup Writes(Statement[1], Statement[2])
  /\ position' = position + 1
  /\ UNCHANGED <<local, counter, rounds, cut>>

LocalDone ==
  /\ IF AtHead THEN rounds = MaxRounds ELSE position = Len(local.body) + (IF IsLoop THEN 2 ELSE 1)
  /\ UNCHANGED localVars

LocalNext == EnterBody \/ LeaveLoop \/ Change \/ JumpOut \/ Increment \/ DoStatement \/ LocalDone
LocalSpec == LocalInit /\ [][LocalNext]_localVars

--------------------------------------------------------------------------------
(* Properties. *)

\* A loop on which the three checks of counters are silent counts what its head says:
\* after each round its counter has been stepped once per round, unless it is written
\* through a pointer, or, where the head declares no or several variables, in a loop
\* inside; and where it declares several, the one stepped need not be the one tested.
CounterFollowsHead ==
  AtHead /\ LoopSaid \subseteq {"SuboptimalBreakContinue"} =>
    \/ counter = rounds /\ (rounds <= Limit \/ local.cond = "second")
    \/ "pointer" \in BodyOps
    \/ "nested" \in BodyOps /\ local.init \in {"assign", "declare two"}

\* A jump that leaves statements of its block behind is reported.
CutsReported == cut => "SuboptimalBreakContinue" \in LoopSaid

\* A parameter that is changed has been reported, or changed through its address; where
\* the change is lost with the call, by both checks, or it is in parentheses.  A pointer
\* is said to be only read if nothing is written through it, but through a copy, with an
\* offset or in parentheses; and of two pointers that are not to const and only read the
\* second one is never reported.
ParametersReported ==
  LET ended == position = Len(local.body) + 1
      Values == {w \in {"v", "r", "p", "q"} : <<"value", w>> \in changed}
      Reads(w) == <<"object", w>> \notin changed /\ w \notin local.const
  IN  ended =>
        /\ Values # {} =>
             FunctionParameterModification # {} \/ Does({"v", "r", "p", "q"}, {"via &"})
        /\ "v" \in Values => ModifyingByValueParam # {} \/ Does({"v"}, {"(=)", "via &"})
        /\ \A w \in {"p", "q"} : NonConstPointerParam(w) # {} =>
             Reads(w) \/ Does({w}, {"(*=)", "copy*=", "+1*="})
        /\ \A w \in {"p", "q"} : Reads(w) /\ NonConstPointerParam(w) = {} =>
             Does({w}, {"&*"}) \/ (w = "q" /\ "p" \notin local.const)

\* What the checks say of changed counters and parameters agrees with the changes.
ChangesJudged ==
  local # Nothing => IF IsLoop THEN CounterFollowsHead /\ CutsReported ELSE ParametersReported
================================================================================
