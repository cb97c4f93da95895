---------------------------- MODULE MCSharedAccesses ----------------------------
(* Two threads that count, exchange a struct, signal each other, meet in        *)
(* call_once or use a key, with the objects and mutexes that may be there.       *)
EXTENDS SharedAccesses

Task(what) == [do |-> what]
Locked(body) == <<Task("lock")>> \o body \o <<Task("unlock")>>
GlobalInt == [storage |-> "static", type |-> "int", init |-> TRUE]
GlobalMutex == [storage |-> "static", declared |-> "mtx_t"]
Mutexes == [storage : {"static", "thread", "automatic"}, declared : {"mtx_t", "typedef", "array"}]
Shared(objects, mutexes, joined, one, other) ==
  {[object |-> o, mutex |-> m, joined |-> j, threads |-> <<s, t>>] :
     o \in objects, m \in mutexes, j \in joined, s \in one, t \in other}

Counting == {<<Task("++")>>, <<Task("+1")>>, <<Task("peek")>>, <<Task("++"), Task("++")>>, Locked(<<Task("++")>>)}
Counters ==
  Shared([storage : {"static", "thread", "automatic"}, type : {"int", "atomic", "atomic array"}, init : BOOLEAN],
         {GlobalMutex}, {TRUE}, Counting, Counting)
  \cup Shared({[GlobalInt EXCEPT !.type = "const int"]}, {GlobalMutex}, {TRUE}, {<<Task("peek")>>}, {<<Task("peek")>>})
Guarded ==
  Shared({GlobalInt}, Mutexes, BOOLEAN, {Locked(<<Task("+1")>>), Locked(<<Task("++")>>)}, {Locked(<<Task("+1")>>)})

Halves(what) == {<<[do |-> what, via |-> v]>> : v \in {"member", "pointer", "cast", "whole"}}
Structs ==
  Shared([storage : {"static", "automatic"}, type : {"struct", "atomic struct", "subatomic"}, init : {TRUE}],
         {GlobalMutex}, {TRUE}, Halves("put"), Halves("put") \cup Halves("get"))

Orders == {"", "5", "0", "memory_order_seq_cst", "memory_order_relaxed", "memory_order_release", "variable"}
Seen == {[do |-> "load", order |-> o] : o \in Orders} \cup {[do |-> "cas", order |-> "", fail |-> o] : o \in Orders}
Signals ==
  {<<[do |-> "store", order |-> o], l>> : o \in Orders, l \in Seen}
  \cup {<<[do |-> "store", order |-> "0"], [do |-> "fence", order |-> o], [do |-> "load", order |-> ""]>> : o \in Orders}
StrictSignals == {<<[do |-> "store", order |-> ""], [do |-> "load", order |-> o]>> : o \in {"", "variable"}}
Flags == Shared({GlobalInt}, {GlobalMutex}, {TRUE}, Signals, StrictSignals)

Meeting == {<<[do |-> "once", calls |-> c]>> : c \in {"lambda", "function"}}
Once == Shared({GlobalInt}, {GlobalMutex}, {TRUE}, Meeting \cup {Locked(m) : m \in Meeting}, Meeting \cup {Locked(<<Task("++")>>)})
Keyed == {<<[do |-> "fetch", key |-> k]>> : k \in {"name", "member", "element"}}
Keys == Shared({GlobalInt}, {GlobalMutex}, {TRUE}, Keyed \cup {<<Task("set")>> \o k : k \in Keyed}, {<<Task("set")>>} \cup Keyed)

NothingShared == [object |-> GlobalInt, mutex |-> GlobalMutex, joined |-> TRUE, threads |-> <<<<>>, <<>>>>]
MCSharedPrograms == Counters \cup Guarded \cup Structs \cup Flags \cup Once \cup Keys
================================================================================
