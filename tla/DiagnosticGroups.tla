-------------------------- MODULE DiagnosticGroups --------------------------
(***************************************************************************)
(* What the diagnostic pipeline promises: a diagnostic and the notes that  *)
(* explain it form a group.  One group at a time is open; notes join the   *)
(* open group and no other.  The next diagnostic, or the end of the run,   *)
(* settles it as a whole: it is shown, after all groups shown before, or   *)
(* dropped, notes included.  A group raised as an error is never dropped,  *)
(* and a shown group never changes.                                        *)
(***************************************************************************)
EXTENDS Integers, Sequences

CONSTANT Notes      \* a note says what it is `of'

VARIABLES
  shown,    \* the settled groups that will be displayed
  open,     \* the group that may still grow, or NoGroup
  closed    \* the run is over

NoGroup == [root |-> -1]

Init == shown = <<>> /\ open = NoGroup /\ closed = FALSE

Settle ==
  \/ open = NoGroup /\ shown' = shown
  \/ open # NoGroup /\ open.level # "error" /\ shown' = shown
  \/ open # NoGroup /\ shown' = Append(shown, open)

Raise == /\ ~closed /\ UNCHANGED closed
         /\ Settle
         /\ open' # NoGroup /\ open'.notes = <<>>

Explain == /\ ~closed /\ open # NoGroup
           /\ \E n \in Notes : /\ n.of = open.root
                               /\ open' = [open EXCEPT !.notes = Append(@, n)]
           /\ UNCHANGED <<shown, closed>>

Close == /\ ~closed /\ closed' = TRUE
         /\ Settle
         /\ open' = NoGroup

Next == Raise \/ Explain \/ Close
Spec == Init /\ [][Next]_<<shown, open, closed>>
=============================================================================
