-------------------------- MODULE SymbolCollection --------------------------
(***************************************************************************)
(* What the first pass of the cross-translation-unit rules promises: the   *)
(* database grows by all the external symbols of a translation unit at a   *)
(* time, and is lost as a whole or not at all.                             *)
(***************************************************************************)
CONSTANT SymbolsOf     \* SymbolsOf[t]: the symbols of translation unit t

VARIABLE known         \* the symbols in the database

Init == known = {}
Collect(t) == known' = known \cup SymbolsOf[t]
Lose       == known' = {}
Next == Lose \/ \E t \in DOMAIN SymbolsOf : Collect(t)

Spec == Init /\ [][Next]_known
=============================================================================
