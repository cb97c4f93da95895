------------------------------- MODULE ErrnoTests -------------------------------
(* The checks of errno (rules 22.8 to 22.10) in one C function, which is read    *)
(* and run at the same time.  A test of errno is judged by the calls that the    *)
(* text shows above it in one block, the one around the nearest "if"; at run     *)
(* time it sees what the last call of all has left behind.  A loop is gone       *)
(* through once at most.                                                         *)
EXTENDS Integers, Sequences, SequencesExt, FiniteSetsExt

CONSTANTS ErrnoFunctions,  \* functions: [testing, usage: is it in the lists of the two checks;
                           \*             direct: is it called by its name]
          HowCalled,       \* where a call stands: "statement", "initializer", "assigned", "void", "condition"
          MaxDepth, MaxErrnoStatements

NoFunction == ""   \* where no call has been seen

ASSUME ErrnoFunctionsAssumption ==
  /\ NoFunction \notin DOMAIN ErrnoFunctions /\ MaxDepth \in Nat \ {0}
  /\ \A f \in DOMAIN ErrnoFunctions : {ErrnoFunctions[f].testing, ErrnoFunctions[f].usage, ErrnoFunctions[f].direct} \subseteq BOOLEAN

VARIABLES blocks,    \* the open blocks: [id, opener, live, last]
          lastCall,  \* the last call of the run
          isZero,    \* errno has not changed since it was set to 0
          test,      \* what was said of a test that has just been read
          length     \* statements read, bounded by MaxErrnoStatements

errnoVars == <<blocks, lastCall, isZero, test, length>>

\* live: the run comes here; last: the last call the text shows in the block.
Block(id, opener, live) == [id |-> id, opener |-> opener, live |-> live, last |-> NoFunction]
NotCalled == [function |-> NoFunction, how |-> "none", block |-> 0, clean |-> TRUE, said |-> {}]
NoTest == [judged |-> 0, reported |-> FALSE, live |-> FALSE]
Innermost == Last(blocks)

\* What the loop over the statements of a block takes for a call.
ShownCalls == {"statement", "initializer"}
FirstShown(last, f, how) == IF last = NoFunction /\ how \in ShownCalls THEN f ELSE last   \* mutant: the first call
LastShown(last, f, how) == IF how \in ShownCalls THEN f ELSE last

\* The way up from a test to the nearest "if", and from there to the block it stands in.
\* 0: there is none, or the "if" is the else part of another.
IfBlocks == {i \in DOMAIN blocks : blocks[i].opener = "if"}
JudgedBlock(place) ==
  CASE place = "if" -> Len(blocks)
    [] place = "else if" -> 0
    [] OTHER -> IF IfBlocks = {} THEN 0 ELSE Max(IfBlocks) - 1

\* isErrnoSettingFunction(), of either check, with a list of its own.
IsErrnoSetting(f) == ErrnoFunctions[f].testing
SetsErrnoForUsage(f) == ErrnoFunctions[f].usage

NamedOnly(last) == last # NoFunction /\ ErrnoFunctions[last].direct /\ ~IsErrnoSetting(last)  \* mutant: silent without a call
ErrnoTesting(last) == last = NoFunction \/ (ErrnoFunctions[last].direct /\ ~IsErrnoSetting(last))
ErrnoUsage(f) == IF ErrnoFunctions[f].direct /\ SetsErrnoForUsage(f) THEN {"ErrnoUsage"} ELSE {}

--------------------------------------------------------------------------------
Read(b, said) ==
  /\ length < MaxErrnoStatements /\ length' = length + 1
  /\ blocks' = b /\ test' = said

ErrnoCall(f, how) ==
  /\ Read([blocks EXCEPT ![Len(blocks)].last = LastShown(@, f, how)], NoTest)
  /\ lastCall' = IF Innermost.live
                 THEN [function |-> f, how |-> how, block |-> Innermost.id, clean |-> isZero, said |-> ErrnoUsage(f)]
                 ELSE lastCall
  /\ isZero' = (isZero /\ ~Innermost.live)

SetErrnoZero ==
  /\ Read(blocks, NoTest)
  /\ isZero' = (isZero \/ Innermost.live)
  /\ UNCHANGED lastCall

OpenBlock(opener, taken) ==
  /\ Len(blocks) < MaxDepth
  /\ Read(Append(blocks, Block(length + 1, opener, Innermost.live /\ taken)), NoTest)
  /\ UNCHANGED <<lastCall, isZero>>
CloseBlock ==
  /\ Len(blocks) > 1
  /\ Read(Front(blocks), NoTest)
  /\ UNCHANGED <<lastCall, isZero>>

TestErrno(place) ==
  /\ LET j == JudgedBlock(place)
     IN  Read(blocks, [judged |-> j, live |-> Innermost.live, reported |-> j # 0 /\ ErrnoTesting(blocks[j].last)])
  /\ UNCHANGED <<lastCall, isZero>>

FunctionEnd == length = MaxErrnoStatements /\ UNCHANGED errnoVars

ErrnoInit ==
  /\ blocks = <<Block(0, "function", TRUE)>>
  /\ lastCall = NotCalled /\ isZero = FALSE /\ test = NoTest /\ length = 0

ErrnoNext ==
  \/ \E f \in DOMAIN ErrnoFunctions, how \in HowCalled : ErrnoCall(f, how)
  \/ SetErrnoZero
  \/ \E opener \in {"if", "loop"}, taken \in BOOLEAN : OpenBlock(opener, taken)
  \/ CloseBlock
  \/ \E place \in {"if", "else if", "inside"} : TestErrno(place)
  \/ FunctionEnd
ErrnoSpec == ErrnoInit /\ [][ErrnoNext]_errnoVars

--------------------------------------------------------------------------------
\* Of a test that the run comes to, the report says the truth about the last call
\* that was made, whichever way the run took, as far as that call is a statement or
\* an initializer of the block the test is judged by: it is there exactly if the
\* function does not set errno.  Where no call was made there is a report.  And
\* where there is none, but errno was not zero before the call, the call itself was
\* reported, unless the two lists of functions disagree.
ErrnoTestsJudged ==
  test.judged # 0 /\ test.live =>
    /\ lastCall = NotCalled => test.reported
    /\ lastCall.how \in ShownCalls /\ lastCall.block = blocks[test.judged].id =>
         LET f == ErrnoFunctions[lastCall.function]
         IN  /\ test.reported <=> f.direct /\ ~f.testing
             /\ ~test.reported /\ ~lastCall.clean /\ f.direct /\ f.testing = f.usage => "ErrnoUsage" \in lastCall.said
================================================================================
