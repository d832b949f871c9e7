------------------------------ MODULE PowerLimit ------------------------------
(***************************************************************************)
(* What the power manager promises its users, without properties, timers   *)
(* or files: total power is watched while limiting is on; an excursion     *)
(* over the cap opens a grace period; if the excursion outlives it the     *)
(* exception action runs once, and nothing more happens until the power is *)
(* seen below the cap again or limiting is switched off.                   *)
(***************************************************************************)

VARIABLES
  phase,   \* where the current excursion stands
  notice   \* the unit started by the last step: none, exceed or drop

vars == <<phase, notice>>

Phases  == {"Off", "Watching", "Grace", "Limited"}
Notices == {"none", "exceed", "drop"}

TypeOK == phase \in Phases /\ notice \in Notices

Init == phase = "Off" /\ notice = "none"

Move(from, to) == phase = from /\ phase' = to

SwitchOn  == Move("Off", "Watching") /\ notice' = "none"

\* Disabling, or the daemon going away.
SwitchOff == phase # "Off" /\ phase' = "Off" /\ notice' = "none"

Exceeds   == Move("Watching", "Grace") /\ notice' = "none"

Recovers  == Move("Grace", "Watching") /\ notice' = "none"

\* The power-off request may fail; the notification is then skipped.
Act       == Move("Grace", "Limited") /\ notice' \in {"exceed", "none"}

Clears    == Move("Limited", "Watching") /\ notice' = "drop"

\* Everything else the daemon does is silent.
Quiet     == UNCHANGED phase /\ notice' = "none"

Next == SwitchOn \/ SwitchOff \/ Exceeds \/ Recovers \/ Act \/ Clears \/ Quiet

\* A grace period ends: it expires, or the excursion or the watch is over.
EndGrace == phase = "Grace" /\ (SwitchOff \/ Recovers \/ Act)

Fairness == WF_vars(EndGrace)

SafeSpec == Init /\ [][Next]_vars
Spec     == SafeSpec /\ Fairness
===============================================================================
