------------------------------ MODULE AudioPath ------------------------------
(***************************************************************************)
(* What the audio path to the hardware promises its users, and all the     *)
(* lifecycle relies on: it is opened or it is closed; a path the driver    *)
(* would not give back is stuck, and a stuck path is never opened: it is   *)
(* given back first.  Hardware implements this call by call, and           *)
(* AudioLifecycle uses it as one step of the audio task.                   *)
(***************************************************************************)

VARIABLE path    \* "closed", "open" or "stuck"

TypeOK == path \in {"closed", "open", "stuck"}

Init == path = "closed"

Open == path = "closed" /\ path' = "open"

\* An opening or a closing that the driver did not complete.
Stick == path \in {"closed", "open"} /\ path' = "stuck"

GiveBack == path \in {"open", "stuck"} /\ path' = "closed"

Next == Open \/ Stick \/ GiveBack

Spec == Init /\ [][Next]_path
=============================================================================
