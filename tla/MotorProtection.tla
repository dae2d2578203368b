--------------------------- MODULE MotorProtection ---------------------------
(***************************************************************************)
(* MotorProtectionMonitor and the FaultManager that takes its evidence:    *)
(* what temperatures, currents and speeds of single motors, which come and *)
(* go, make of the faults of the robot.                                    *)
(*                                                                         *)
(* A reading says, for one motor and one fault, whether it meets the       *)
(* threshold to enter, the one to exit, or neither (hold); it is unknown   *)
(* if a value it needs is Invalid.  Thresholds to enter and to exit        *)
(* exclude each other, as validMotorProtectionConfig demands.              *)
(***************************************************************************)
EXTENDS FaultManager

CONSTANTS
    Motor,       \* the motors of both sides
    Watched,     \* the faults of the monitor that have a rule
    Reports      \* sets of those whose values the motors may ever report

Monitored == {"ThermalDerate", "MotorOverCurrent", "Stall"}

ASSUME MotorAssumption == Motor # {} /\ Watched \subseteq Monitored \cap Faults
                           /\ Reports \subseteq SUBSET Watched

VARIABLES
    reported,    \* those of this robot; the others are never known
    state,       \* of each motor: the faults it is in (hot, over_current, stalled)
    heard        \* history: what its own readings last said of each fault, and
                 \* since when without a word to the contrary

motorOnly == <<reported, state, heard>>
motorVars == <<faultVars, motorOnly>>

\* A stall needs the current as well, and the speed.
Readings ==
    {r \in [Motor -> [Watched -> {"unknown", "enter", "hold", "exit"}]] :
        \A m \in Motor : \A f \in Watched :
            f \notin reported \/ (f = "Stall" /\ "MotorOverCurrent" \in Watched
                                /\ r[m]["MotorOverCurrent"] = "unknown")
            => r[m][f] = "unknown"}

MotorInit ==
    /\ FaultInit
    /\ reported \in Reports
    /\ state = [m \in Motor |-> {}]
    /\ heard = [m \in Motor |-> [f \in Watched |-> [word |-> "nothing", since |-> 0]]]

-----------------------------------------------------------------------------
(* update()                                                                *)

\* updateMotor(): the faults that a motor is in after the readings r of it.
MotorAfter(m, r) == {f \in Watched : r[f] = "enter" \/ (f \in state[m] /\ r[f] # "exit")}

\* accumulateKnown().  Fault: one motor that answers is enough.
AllKnown_Any(readings) == {f \in Watched : \E m \in Motor : readings[m][f] # "unknown"}
AllKnown(readings)     == {f \in Watched : \A m \in Motor : readings[m][f] # "unknown"}

Heard(m, f, r) ==
    LET old  == heard[m][f]
        word == CASE r = "unknown" -> old.word
                  [] r = "enter"   -> "trouble"
                  [] r = "exit"    -> "calm"
                  [] OTHER         -> IF old.word = "nothing" THEN "calm" ELSE old.word
    IN IF word = old.word THEN old ELSE [word |-> word, since |-> now]

\* The evidence of a frame goes to FaultManager::update().
Monitor(readings) ==
    /\ state' = [m \in Motor |-> MotorAfter(m, readings[m])]
    /\ LET asserted == UNION {MotorAfter(m, readings[m]) : m \in Motor}
       IN Update(asserted \cup AllKnown(readings), asserted)
    /\ heard' = [m \in Motor |-> [f \in Watched |-> Heard(m, f, readings[m][f])]]
    /\ UNCHANGED reported

\* A command that is not finite: every fault is there, and no motor is looked at.
BadCommand == Update(Watched, Watched) /\ UNCHANGED motorOnly

MotorNext ==
    \/ Environment /\ UNCHANGED <<runtime, latched, steady, motorOnly>>
    \/ \E readings \in Readings : Monitor(readings)
    \/ BadCommand
    \/ \E requested \in SUBSET Watched : ClearLatched(requested) /\ UNCHANGED motorOnly

MotorSpec == MotorInit /\ [][MotorNext]_motorVars

-----------------------------------------------------------------------------
(* Properties.                                                             *)

\* Types of the variables.
MotorTypeOK ==
    /\ FaultTypeOK
    /\ reported \in Reports
    /\ state \in [Motor -> SUBSET Watched]
    /\ heard \in [Motor -> [Watched -> [word : {"nothing", "trouble", "calm"}, since : Nat]]]

\* While the last word of any motor on a fault was trouble, it stays asserted.
TroubleStays == \A m \in Motor, f \in Watched : heard[m][f].word = "trouble" => runtime[f].raw

\* A fault ends only when the last word of every motor is that it is calm, and
\* has been for the delay to clear, unless it was a latch that is cleared by hand.
CalmEnds ==
    \A m \in Motor, f \in Watched : runtime[f].active /\ ~runtime'[f].active =>
        /\ heard'[m][f].word = "calm"
        /\ f \notin latched => now - heard'[m][f].since >= Rules[f].clear

\* A motor that is not heard of is neither healthy nor forgotten
\* (tests/test_health.cpp:85, "missing motor telemetry is unknown rather than
\* healthy").
NoMotorForgotten == []TroubleStays /\ [][CalmEnds]_motorVars
=============================================================================
