--------------------------- MODULE StartupAlerts ---------------------------
(***************************************************************************)
(* What the operator is told: the self check that initialize() runs before *)
(* any competition task exists, and the alerts that it and the recorder    *)
(* send to the controller's rumble.                                        *)
(*                                                                         *)
(* Three tasks: the one that runs initialize(), the telemetry task and the *)
(* controller task, all created and never deleted.  They meet in           *)
(* hmi_alert_sequence_, a SnapshotBox: a read and a publish are a step     *)
(* each.  A poll of the self check is one unit of time.  Sessions, and so  *)
(* failures of the recorder, need the control task, which opcontrol()      *)
(* starts only after the check.                                            *)
(***************************************************************************)
EXTENDS Integers

CONSTANTS
    Device,          \* the motors, the battery and the sensors that are installed
    Dwell,           \* minimum_duration_us, in polls
    SensorTimeout,   \* sensor_timeout_us, in polls
    MaxFailures      \* bound of the model: sessions of the recorder that fail

ASSUME StartupAssumption ==
    /\ Dwell \in Nat \ {0} /\ SensorTimeout \in Nat /\ Dwell <= SensorTimeout
    /\ MaxFailures \in Nat

VARIABLES
    answering,    \* the devices that ever give a valid sample
    impossible,   \* a fault begin() knows of: bad configuration, no IMU, ...
    check,        \* StartupSelfCheck: elapsed, and how far runStartupSelfCheck() is
    seen,         \* motor_seen_, tracking_seen_, battery_seen_, imu_seen_
    faulty,       \* motor_fault_seen_
    alertSequence,   \* RecordingControl::alert_sequence_
    hmiAlert,     \* hmi_alert_sequence_
    telemetry,    \* runTelemetry(): where it is, its handled_alert_sequence, what it read
    buzzer,       \* runControllerHmi(): the same
    owed          \* history: something is wrong that no rumble has followed

checkVars  == <<answering, impossible, check, seen, faulty>>
alertVars  == <<checkVars, alertSequence, hmiAlert, telemetry, buzzer, owed>>

AlertInit ==
    /\ answering \in SUBSET Device /\ impossible \in BOOLEAN
    /\ check = [elapsed |-> 0, step |-> "polling"]
    /\ seen = {} /\ faulty = FALSE
    /\ alertSequence = 0 /\ hmiAlert = 0
    /\ telemetry = [step |-> "tick", handled |-> 0, read |-> 0]
    /\ buzzer = [step |-> "read", handled |-> 0, read |-> 0]
    /\ owed = (impossible \/ answering # Device)

-----------------------------------------------------------------------------
(* runStartupSelfCheck()                                                   *)

\* tick() completes: not before the dwell, and then as soon as all is seen,
\* nothing can help, or the time is over.
Decided(elapsed, observed) ==
    /\ elapsed >= Dwell
    /\ observed = Device \/ impossible \/ elapsed >= SensorTimeout

\* finalizeFaults() leaves no fault.
Healthy == ~impossible /\ ~faulty /\ seen = Device

\* A poll sees some of the devices, and perhaps a motor that reports a fault.
Poll(valid, fault) ==
    /\ check.step = "polling"
    /\ seen' = seen \cup valid
    /\ faulty' = (faulty \/ fault)
    /\ check' = [elapsed |-> IF check.elapsed = SensorTimeout THEN check.elapsed
                             ELSE check.elapsed + 1,
                 step |-> IF Decided(check.elapsed + 1, seen') THEN "decided" ELSE "polling"]
    /\ owed' = (owed \/ fault)
    /\ UNCHANGED <<answering, impossible, alertSequence, hmiAlert, telemetry, buzzer>>

Report ==
    /\ check.step = "decided"
    /\ check' = [check EXCEPT !.step = "complete"]
    /\ hmiAlert' = IF Healthy THEN hmiAlert ELSE 1
    /\ UNCHANGED <<answering, impossible, seen, faulty, alertSequence, telemetry, buzzer, owed>>

-----------------------------------------------------------------------------
(* runTelemetry()                                                          *)

\* recording_worker_.tickOnce(), in which a session may fail.
MayFail == alertSequence < MaxFailures /\ check.step = "complete"

TelemetryTick(fails) ==
    /\ telemetry.step = "tick"
    /\ fails => MayFail
    /\ alertSequence' = IF fails THEN alertSequence + 1 ELSE alertSequence
    /\ owed' = (owed \/ fails)
    /\ telemetry' = [telemetry EXCEPT !.step = "compare"]
    /\ UNCHANGED <<checkVars, hmiAlert, buzzer>>

\* A new failure is handed on: the box is read, then published with one more.
TelemetryCompare ==
    /\ telemetry.step = "compare"
    /\ telemetry' = IF alertSequence = telemetry.handled
                    THEN [telemetry EXCEPT !.step = "tick"]
                    ELSE [telemetry EXCEPT !.step = "publish", !.read = hmiAlert]
    /\ UNCHANGED <<checkVars, alertSequence, hmiAlert, buzzer, owed>>

TelemetryPublish ==
    /\ telemetry.step = "publish"
    /\ hmiAlert' = telemetry.read + 1
    /\ telemetry' = [step |-> "tick", handled |-> alertSequence, read |-> 0]
    /\ UNCHANGED <<checkVars, alertSequence, buzzer, owed>>

-----------------------------------------------------------------------------
(* runControllerHmi()                                                      *)

BuzzerRead ==
    /\ buzzer.step = "read" /\ hmiAlert # buzzer.handled
    /\ buzzer' = [buzzer EXCEPT !.step = "rumble", !.read = hmiAlert]
    /\ UNCHANGED <<checkVars, alertSequence, hmiAlert, telemetry, owed>>

\* rumble() succeeds,
Felt ==
    /\ buzzer.step = "rumble"
    /\ buzzer' = [buzzer EXCEPT !.step = "mark"]
    /\ owed' = FALSE
    /\ UNCHANGED <<checkVars, alertSequence, hmiAlert, telemetry>>

\* or fails, with no controller connected, and is tried again in 50 ms.
Refused ==
    /\ buzzer.step = "rumble"
    /\ buzzer' = [buzzer EXCEPT !.step = "read", !.read = 0]
    /\ UNCHANGED <<checkVars, alertSequence, hmiAlert, telemetry, owed>>

\* What counts as handled.  Fault: whatever is in the box by then.
Handled_Latest == hmiAlert
Handled == buzzer.read

Mark ==
    /\ buzzer.step = "mark"
    /\ buzzer' = [step |-> "read", handled |-> Handled, read |-> 0]
    /\ UNCHANGED <<checkVars, alertSequence, hmiAlert, telemetry, owed>>

SelfCheck == Report \/ \E valid \in SUBSET answering, fault \in BOOLEAN : Poll(valid, fault)
Telemetry == \/ TelemetryCompare \/ TelemetryPublish
             \/ \E fails \in BOOLEAN : TelemetryTick(fails)
ControllerHmi == BuzzerRead \/ Felt \/ Refused \/ Mark

AlertNext == SelfCheck \/ Telemetry \/ ControllerHmi

\* Each task is given the processor, and a controller that is tried again and
\* again is connected in the end.
AlertSpec ==
    /\ AlertInit /\ [][AlertNext]_alertVars
    /\ WF_alertVars(SelfCheck) /\ WF_alertVars(Telemetry) /\ WF_alertVars(ControllerHmi)
    /\ SF_alertVars(Felt)

-----------------------------------------------------------------------------
(* Properties.                                                             *)

\* Types of the variables.
AlertTypeOK ==
    /\ answering \subseteq Device /\ impossible \in BOOLEAN
    /\ check \in [elapsed : 0..SensorTimeout, step : {"polling", "decided", "complete"}]
    /\ seen \subseteq Device /\ faulty \in BOOLEAN
    /\ alertSequence \in 0..MaxFailures /\ hmiAlert \in 0..(MaxFailures + 1)
    /\ telemetry \in [step : {"tick", "compare", "publish"}, handled : Nat, read : Nat]
    /\ buzzer \in [step : {"read", "rumble", "mark"}, handled : Nat, read : Nat]
    /\ owed \in BOOLEAN

\* The operator feels a rumble after whatever goes wrong: a device that never
\* answers, a motor that reports a fault while the check runs, a failure that
\* is known from the start, and each session the recorder fails to keep.
AlertIsFelt == owed ~> ~owed
=============================================================================
