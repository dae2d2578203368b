----------------------------- MODULE ModeAndTime -----------------------------
(***************************************************************************)
(* The clock and the mode snapshot, as the components see them that only   *)
(* read them: a transition opens an epoch that is not enabled, and the     *)
(* acknowledged boundary stop enables it.  DriveRuntime models how the     *)
(* program gets there.                                                     *)
(***************************************************************************)
EXTENDS Naturals

CONSTANTS MaxTime, MaxEpoch     \* bounds of the model

VARIABLES now, mode
environment == <<now, mode>>

Modes == {"Disabled", "AutonomousInterface"}
ModeSnapshot == [mode : Modes, enabled : BOOLEAN, field : BOOLEAN, epoch : Nat]

EnvironmentInit ==
    /\ now = 0
    /\ mode = [mode |-> "Disabled", enabled |-> FALSE, field |-> FALSE, epoch |-> 1]

Advance == now < MaxTime /\ now' = now + 1 /\ UNCHANGED mode

NewEpoch ==
    /\ mode.epoch < MaxEpoch
    /\ \E m \in Modes, field \in BOOLEAN :
          /\ mode.mode # m \/ mode.field # field
          /\ mode' = [mode |-> m, enabled |-> FALSE, field |-> field, epoch |-> mode.epoch + 1]
    /\ UNCHANGED now

Enable ==
    /\ mode.mode # "Disabled" /\ ~mode.enabled
    /\ mode' = [mode EXCEPT !.enabled = TRUE]
    /\ UNCHANGED now

Environment == Advance \/ NewEpoch \/ Enable
=============================================================================
