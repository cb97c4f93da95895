-------------------------------- MODULE Reports --------------------------------
(* What a check says of one node: its name, when its matcher and its code agree *)
(* on it.  The reports on a node are the union of these.                        *)

Say(check, when) == IF when THEN {check} ELSE {}
================================================================================
