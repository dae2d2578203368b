---------------------------- MODULE MotorContract ----------------------------
(***************************************************************************)
(* What the runtime promises about the motors: they are driven for one     *)
(* mode epoch at a time, epochs only grow, and a change of epoch breaks    *)
(* (stops) before it makes.                                                *)
(***************************************************************************)
EXTENDS Naturals

VARIABLES
    driving,  \* whether the motors hold a voltage
    newest    \* the epoch they are, or were last, driven for

vars == <<driving, newest>>

TypeOK == driving \in BOOLEAN /\ newest \in Nat

Init == driving = FALSE /\ newest = 0

Break == driving /\ driving' = FALSE /\ UNCHANGED newest

Make == /\ ~driving /\ driving' = TRUE
        /\ newest' \in Nat /\ newest' >= newest

Spec == Init /\ [][Break \/ Make]_vars
=============================================================================
