----------------------------- MODULE SharedAccesses -----------------------------
(* Two threads that use one object, one mutex, one once_flag, one key and a flag *)
(* each, while the function that started them may return: the checks of shared   *)
(* and atomic objects, of memory orders, of where mutexes are kept and of nested *)
(* calls see declarations and calls only, the threads run in any order.          *)
EXTENDS Integers, Sequences, FiniteSets

CONSTANT SharedPrograms   \* what may run: [object, mutex, joined, threads], see below

\* object: [storage, type, init]; storage is "static", "thread", or "automatic": a local
\* variable of the function that starts the threads; type is "int", "const int", "atomic",
\* "atomic array", "struct", "atomic struct", or "subatomic", a struct of that name.
\* mutex: [storage, declared]; declared "mtx_t", or by a "typedef" of its own, in an "array".
\* threads: two sequences of steps, [do |-> ...]:
\*   "lock", "unlock"; "peek", "++" and "+1" (x = x + 1) of an object that counts;
\*   "put" and "get" of a struct, with via: "member", "pointer" or "cast", each half of it
\*   on its own, or "whole";
\*   "store" of the own flag, "load" of the other's, "fence", with order, and "cas", which
\*   finds another value in the other's flag, with order and fail;
\*   "once", with calls: a "lambda" or a "function" that locks and unlocks the mutex;
\*   "set" and "fetch" of the own value of a key, with key: a "name", a "member", an "element".

BothThreads == {1, 2}
MaxThread == 9   \* bound: steps of a thread

\* Steps suit the object; a thread stores its flag before it loads the other's, and gives
\* the mutex back before it takes it again and before it ends.
ThreadFits(p, s) ==
  /\ Len(s) \in 0 .. MaxThread /\ DOMAIN s = 1 .. Len(s)
  /\ \A i \in 1 .. Len(s) :
       /\ s[i].do \in {"++", "+1"} => p.object.type \in {"int", "atomic", "atomic array"}
       /\ s[i].do \in {"put", "get"} => /\ p.object.type \in {"struct", "atomic struct", "subatomic"}
                                      /\ s[i].via \in {"member", "pointer", "cast", "whole"}
       /\ s[i].do \in {"load", "cas"} => \E j \in 1 .. i - 1 : s[j].do = "store"
       /\ s[i].do = "lock" => \E j \in i + 1 .. Len(s) : /\ s[j].do = "unlock"
                                                        /\ \A k \in i + 1 .. j - 1 : s[k].do # "lock"
       /\ s[i].do = "once" => s[i].calls \in {"lambda", "function"}
       /\ s[i].do = "fetch" => s[i].key \in {"name", "member", "element"}
ProgramFits(p) ==
  /\ p.object.storage \in {"static", "thread", "automatic"}
  /\ p.object.type \in {"int", "const int", "atomic", "atomic array", "struct", "atomic struct", "subatomic"}
  /\ p.object.init \in BOOLEAN /\ p.joined \in BOOLEAN
  /\ \A t \in BothThreads : ThreadFits(p, p.threads[t])

ASSUME SharedAssumption == \A p \in SharedPrograms : ProgramFits(p)

VARIABLES shared,     \* one of SharedPrograms
          next,       \* position of each thread
          inner,      \* what each thread has done of a step that takes several: "", "one", "two"
          mem,        \* the object: both halves; a counter is the first
          copy,       \* what each thread has read of it
          flags, late, got,   \* each thread's flag; its store is under way; what it loaded
          holding,    \* the threads that hold the mutex
          onced,      \* the once_flag: 0, the thread that is in it, or 3
          keyed,      \* the threads that have set their value
          returned,   \* the function that started the threads is gone
          amiss       \* what went wrong
sharedVars == <<shared, next, inner, mem, copy, flags, late, got, holding, onced, keyed, returned, amiss>>

Over(t) == next[t] > Len(shared.threads[t])
StepOf(t) == shared.threads[t][next[t]]
AtStep(t, whats) == ~Over(t) /\ StepOf(t).do \in whats
Performed == UNION {{shared.threads[t][i] : i \in DOMAIN shared.threads[t]} : t \in BothThreads}
Accesses == {"peek", "++", "+1", "put", "get"}

--------------------------------------------------------------------------------
(* Reports. *)

\* A type is also taken for atomic if its name has the word in it.
IsAtomicType(type) == type \in {"atomic", "atomic array", "atomic struct", "subatomic"}
Assigned ==                                                  \* mutant: assignments only
  /\ shared.object.storage = "static" /\ shared.object.type \in {"int", "struct"}
  /\ \E s \in Performed : s.do \in {"+1", "put"}
UnsynchronizedAccess ==
  /\ \E s \in Performed : s.do \in Accesses
  /\ shared.object.storage # "automatic"
  /\ ~IsAtomicType(shared.object.type) /\ shared.object.storage # "thread" /\ shared.object.type # "const int"

UninitializedAtomic ==
  shared.object.type \in {"atomic", "atomic struct"} /\ ~shared.object.init

DotOnly(s) ==                                            \* mutant: not through pointers
  s.do \in {"put", "get"} /\ s.via = "member" /\ shared.object.type = "atomic struct"
AtomicMemberAccess(s) ==
  s.do \in {"put", "get"} /\ s.via \in {"member", "pointer"} /\ shared.object.type = "atomic struct"

\* The functions without an order pass the literal 5; an order in a variable is not seen.
NonSeqCst(order) == order \notin {"", "5", "memory_order_seq_cst", "variable"}
FirstOrder(s) == s.do \in {"store", "load", "fence", "cas"} /\ NonSeqCst(s.order)   \* mutant: one order
MemorySyncOrder(s) ==
  \/ s.do \in {"store", "load", "fence", "cas"} /\ NonSeqCst(s.order)
  \/ s.do = "cas" /\ NonSeqCst(s.fail)

\* The name of the type, or of the record behind it, which mtx_t leaves without one.
AutomaticOnly ==                                             \* mutant: automatic storage only
  shared.mutex.declared = "mtx_t" /\ shared.mutex.storage = "automatic"
ThreadObjectStorage ==
  shared.mutex.declared = "mtx_t" /\ shared.mutex.storage \in {"automatic", "thread"}

\* Only a call inside the text of the other one's arguments is nested.
NotInLambda(s) == FALSE                                      \* mutant: arguments only, no bodies in them
NestedSyncCalls(s) == s.do = "once" /\ s.calls = "lambda"

NameOnly(key) == key = "name"                                \* mutant: no members
KeyNamed(key) == key \in {"name", "member"}
ThreadSpecificStorage(s) == s.do = "fetch" /\ KeyNamed(s.key)

--------------------------------------------------------------------------------
(* The threads. *)

Go(t) == next' = [next EXCEPT ![t] = @ + 1] /\ inner' = [inner EXCEPT ![t] = ""]
Part(t, part) == inner' = [inner EXCEPT ![t] = part] /\ UNCHANGED next
Amiss(what, when) == amiss' = amiss \cup (IF when THEN {what} ELSE {})

\* A mutex per thread is always free.
MutexFree == holding = {} \/ shared.mutex.storage = "thread"
MutexGone == returned /\ shared.mutex.storage = "automatic"
LockMutex(t) ==
  /\ AtStep(t, {"lock"}) /\ MutexFree
  /\ holding' = holding \cup {t} /\ Go(t) /\ Amiss("mutex gone", MutexGone)
  /\ UNCHANGED <<shared, mem, copy, flags, late, got, onced, keyed, returned>>
UnlockMutex(t) ==
  /\ AtStep(t, {"unlock"})
  /\ holding' = holding \ {t} /\ Go(t) /\ Amiss("mutex gone", MutexGone)
  /\ UNCHANGED <<shared, mem, copy, flags, late, got, onced, keyed, returned>>

\* Objects without a value start with one that is neither; of an object per thread no
\* thread sees the other's changes.
Unset == -9
Own == shared.object.storage = "thread"
AtOnce(s) ==
  \/ s.do = "peek" \/ (s.do = "++" /\ shared.object.type \in {"atomic", "atomic array"})
  \/ s.do \in {"put", "get"} /\ s.via = "whole" /\ shared.object.type = "atomic struct"
Racing ==
  /\ shared.object.type \in {"int", "struct", "subatomic"} /\ ~Own
  /\ \A t \in BothThreads : AtStep(t, Accesses)
  /\ \E t \in BothThreads : AtStep(t, {"++", "+1", "put"})
Begin(t) ==
  /\ AtStep(t, Accesses) /\ inner[t] = "" /\ ~AtOnce(StepOf(t))
  /\ copy' = [copy EXCEPT ![t] = mem[1]] /\ Part(t, "one")
  /\ mem' = IF StepOf(t).do = "put" /\ ~Own THEN <<t, mem[2]>> ELSE mem
  /\ amiss' = amiss \cup (IF Racing THEN {"race"} ELSE {})
                    \cup (IF mem[1] = Unset /\ StepOf(t).do # "put" THEN {"unset"} ELSE {})
  /\ UNCHANGED <<shared, flags, late, got, holding, onced, keyed, returned>>
Finish(t) ==
  /\ AtStep(t, Accesses) /\ inner[t] = "one" /\ Go(t)
  /\ mem' = CASE StepOf(t).do = "put" /\ ~Own -> <<mem[1], t>>
              [] StepOf(t).do \in {"++", "+1"} /\ ~Own /\ copy[t] # Unset -> <<copy[t] + 1, mem[2]>>
              [] OTHER -> mem
  /\ Amiss("torn", StepOf(t).do = "get" /\ copy[t] # mem[2])
  /\ UNCHANGED <<shared, copy, flags, late, got, holding, onced, keyed, returned>>
Access(t) ==
  /\ AtStep(t, Accesses) /\ AtOnce(StepOf(t)) /\ Go(t)
  /\ mem' = CASE StepOf(t).do = "++" /\ ~Own /\ mem[1] # Unset -> <<mem[1] + 1, mem[2]>>
              [] StepOf(t).do = "put" /\ ~Own -> <<t, t>>
              [] OTHER -> mem
  /\ amiss' = amiss \cup (IF Racing THEN {"race"} ELSE {})
                    \cup (IF mem[1] = Unset /\ StepOf(t).do # "put" THEN {"unset"} ELSE {})
                    \cup (IF StepOf(t).do = "get" /\ mem[1] # mem[2] THEN {"torn"} ELSE {})
  /\ UNCHANGED <<shared, copy, flags, late, got, holding, onced, keyed, returned>>

\* Both orders sequentially consistent: the store is there before the load; otherwise the
\* load may overtake it.  A variable may hold any order.
SeqCst(order) == order \in {"", "5", "memory_order_seq_cst"}
Stores(t) == {i \in 1 .. next[t] - 1 : shared.threads[t][i].do = "store"}
StrictStore(t) ==
  \A i \in Stores(t) : (\A j \in Stores(t) : j <= i) => SeqCst(shared.threads[t][i].order)
StoreFlag(t) ==
  /\ AtStep(t, {"store"}) /\ late' = late \cup {t} /\ Go(t)
  /\ UNCHANGED <<shared, mem, copy, flags, got, holding, onced, keyed, returned, amiss>>
Arrive(t) ==
  /\ t \in late /\ late' = late \ {t} /\ flags' = [flags EXCEPT ![t] = 1]
  /\ UNCHANGED <<shared, next, inner, mem, copy, got, holding, onced, keyed, returned, amiss>>
LoadFlag(t) ==
  LET order == IF AtStep(t, {"cas"}) THEN StepOf(t).fail ELSE StepOf(t).order
  IN  /\ AtStep(t, {"load", "cas"})
      /\ t \in late => ~(SeqCst(order) /\ StrictStore(t))
      /\ got' = [got EXCEPT ![t] = flags[3 - t]] /\ Go(t)
      /\ UNCHANGED <<shared, mem, copy, flags, late, holding, onced, keyed, returned, amiss>>
Fence(t) ==
  /\ AtStep(t, {"fence"}) /\ (SeqCst(StepOf(t).order) => t \notin late) /\ Go(t)
  /\ UNCHANGED <<shared, mem, copy, flags, late, got, holding, onced, keyed, returned, amiss>>

\* Who comes while the function runs waits for it.
CallOnce(t) ==
  /\ AtStep(t, {"once"}) /\ inner[t] = "" /\ onced \in {0, 3}
  /\ IF onced = 0 THEN onced' = t /\ Part(t, "one") ELSE Go(t) /\ UNCHANGED onced
  /\ UNCHANGED <<shared, mem, copy, flags, late, got, holding, keyed, returned, amiss>>
LockInOnce(t) ==
  /\ AtStep(t, {"once"}) /\ inner[t] = "one" /\ MutexFree
  /\ holding' = holding \cup {t} /\ Part(t, "two") /\ Amiss("mutex gone", MutexGone)
  /\ UNCHANGED <<shared, mem, copy, flags, late, got, onced, keyed, returned>>
LeaveOnce(t) ==
  /\ AtStep(t, {"once"}) /\ inner[t] = "two"
  /\ holding' = holding \ {t} /\ onced' = 3 /\ Go(t)
  /\ UNCHANGED <<shared, mem, copy, flags, late, got, keyed, returned, amiss>>

SetOwn(t) ==
  /\ AtStep(t, {"set"}) /\ keyed' = keyed \cup {t} /\ Go(t)
  /\ UNCHANGED <<shared, mem, copy, flags, late, got, holding, onced, returned, amiss>>
FetchOwn(t) ==
  /\ AtStep(t, {"fetch"}) /\ Go(t) /\ Amiss("no value", t \notin keyed)
  /\ UNCHANGED <<shared, mem, copy, flags, late, got, holding, onced, keyed, returned>>

StarterReturns ==
  /\ ~shared.joined /\ ~returned /\ returned' = TRUE
  /\ UNCHANGED <<shared, next, inner, mem, copy, flags, late, got, holding, onced, keyed, amiss>>

ThreadsReady ==
  /\ next = [t \in BothThreads |-> 1] /\ inner = [t \in BothThreads |-> ""]
  /\ mem = IF shared.object.storage = "automatic" /\ ~shared.object.init THEN <<Unset, Unset>> ELSE <<0, 0>>
  /\ copy = [t \in BothThreads |-> 0] /\ flags = [t \in BothThreads |-> 0]
  /\ late = {} /\ got = [t \in BothThreads |-> 1]
  /\ holding = {} /\ onced = 0 /\ keyed = {} /\ returned = FALSE /\ amiss = {}
SharedInit == shared \in SharedPrograms /\ ThreadsReady
SharedNext ==
  \/ \E t \in BothThreads :
       \/ LockMutex(t) \/ UnlockMutex(t) \/ Begin(t) \/ Finish(t) \/ Access(t)
       \/ StoreFlag(t) \/ Arrive(t) \/ LoadFlag(t) \/ Fence(t)
       \/ CallOnce(t) \/ LockInOnce(t) \/ LeaveOnce(t) \/ SetOwn(t) \/ FetchOwn(t)
  \/ StarterReturns
SharedSpec == SharedInit /\ [][SharedNext]_sharedVars

--------------------------------------------------------------------------------
(* Properties. *)

AllOver == \A t \in BothThreads : Over(t)
Waits(t) == \/ AtStep(t, {"lock"}) /\ ~MutexFree
            \/ AtStep(t, {"once"}) /\ (IF inner[t] = "" THEN onced \in BothThreads ELSE inner[t] = "one" /\ ~MutexFree)
Stuck == ~AllOver /\ \A t \in BothThreads : Over(t) \/ Waits(t)
Counts == {c \in BothThreads \X (1 .. MaxThread) :
             c[2] <= Len(shared.threads[c[1]]) /\ shared.threads[c[1]][c[2]].do \in {"++", "+1"}}
UnseenObject == shared.object.storage = "automatic" \/ shared.object.type = "subatomic"

\* Two threads are never about to use one object, one of them to change it, and no count
\* is lost, without a report on the object, unless it is a local variable handed to the
\* threads, its type is called atomic, or an atomic object is counted by x = x + 1.
RacesReported ==
  /\ "race" \in amiss => UnsynchronizedAccess \/ UnseenObject
  /\ AllOver /\ ~Own /\ mem[1] >= 0 /\ Counts # {} /\ mem[1] # Cardinality(Counts) =>
       \/ UnsynchronizedAccess \/ UnseenObject
       \/ IsAtomicType(shared.object.type) /\ \E s \in Performed : s.do = "+1"

\* A struct that is read half old and half new is reported, or the access to an atomic
\* one by its members is, unless that goes through a cast.  An atomic object that is read
\* before it has a value is reported, but for an array.
HalvesReported ==
  /\ "torn" \in amiss =>
       \/ UnsynchronizedAccess \/ \E s \in Performed : AtomicMemberAccess(s)
       \/ shared.object.type \in {"subatomic", "struct"} /\ UnseenObject
       \/ \E s \in Performed : s.do \in {"put", "get"} /\ s.via = "cast"
  /\ "unset" \in amiss /\ shared.object.type \in {"atomic", "atomic struct"} => UninitializedAtomic

\* If each thread stores its flag before it loads the other's, one of them sees the other,
\* or a memory order is reported, unless one is given by a variable.
OrdersReported ==
  AllOver /\ (\A t \in BothThreads : got[t] = 0) /\ Cardinality({s \in Performed : s.do = "store"}) > 0 =>
    \/ \E s \in Performed : MemorySyncOrder(s)
    \/ \E s \in Performed : /\ s.do \in {"store", "load", "fence", "cas"}
                           /\ "variable" = IF s.do = "cas" THEN s.fail ELSE s.order

\* A mutex that is gone when it is locked, or that two threads hold, is reported, if it is
\* declared as mtx_t.  Threads that wait for each other in call_once and in the mutex are
\* announced, if call_once is given a lambda.
MutexesReported ==
  /\ "mutex gone" \in amiss \/ Cardinality(holding) = 2 =>
       ThreadObjectStorage \/ shared.mutex.declared # "mtx_t"
  /\ Stuck => \E s \in Performed : NestedSyncCalls(s) \/ (s.do = "once" /\ s.calls = "function")

\* A thread that reads a value it has not set is reported where it does, if the key has a name.
ValuesOwn ==
  "no value" \in amiss =>
    \A s \in Performed : s.do = "fetch" => ThreadSpecificStorage(s) \/ s.key = "element"

\* What is said of shared objects, orders and mutexes agrees with how the threads run.
AccessesJudged == RacesReported /\ HalvesReported /\ OrdersReported /\ MutexesReported /\ ValuesOwn
================================================================================
