---------------------------- MODULE MCComponents ----------------------------
(***************************************************************************)
(* Eight components of the library, which call none of the others and      *)
(* which the program does not connect yet, the fault manager alone and     *)
(* with the motor protection as two of them.  Each behaviour is one of a   *)
(* single component, so their states add and do not multiply.              *)
(***************************************************************************)
EXTENDS EditSession, ProfileStore, HmiEvents, MotorProtection, MCSupervisor, Odometry,
        ManualDrive, TLC

VARIABLE component

editOnly       == <<leaseVars, transaction, backendVars>>
supervisorOnly == <<route, command, latch, granted>>
faultOnly      == <<runtime, latched, steady>>

vars == <<component, environment, editOnly, storeVars, eventVars, faultOnly, supervisorOnly,
          motorOnly, odometryVars, manualVars>>

Init ==
    /\ component \in {"edit", "store", "events", "faults", "motors", "supervisor", "odometry",
                       "manual"}
    /\ EditInit /\ StoreInit /\ EventInit /\ MotorInit /\ SupervisorInit
    /\ OdometryInit /\ ManualInit
    /\ component # "motors" => reported = CHOOSE r \in Reports : TRUE
    /\ component # "odometry" => layout = "DriveEncodersImu"
    /\ component # "store" => registry = CHOOSE r \in Registry : TRUE

\* The variables of the components but the last two.
others == <<environment, editOnly, storeVars, eventVars, faultOnly, supervisorOnly, motorOnly>>

Next ==
    /\ UNCHANGED component
    /\ \/ /\ component = "edit" /\ EditNext
          /\ UNCHANGED <<storeVars, eventVars, faultOnly, supervisorOnly,
                         motorOnly, odometryVars, manualVars>>
       \/ /\ component = "store" /\ StoreNext
          /\ UNCHANGED <<environment, editOnly, eventVars, faultOnly, supervisorOnly,
                         motorOnly, odometryVars, manualVars>>
       \/ /\ component = "events" /\ EventNext
          /\ UNCHANGED <<environment, editOnly, storeVars, faultOnly, supervisorOnly,
                         motorOnly, odometryVars, manualVars>>
       \/ /\ component = "faults" /\ FaultNext
          /\ UNCHANGED <<editOnly, storeVars, eventVars, supervisorOnly,
                         motorOnly, odometryVars, manualVars>>
       \/ /\ component = "motors" /\ MotorNext
          /\ UNCHANGED <<editOnly, storeVars, eventVars, supervisorOnly,
                         odometryVars, manualVars>>
       \/ /\ component = "supervisor" /\ SupervisorNext
          /\ UNCHANGED <<editOnly, storeVars, eventVars, faultOnly,
                         motorOnly, odometryVars, manualVars>>
       \/ /\ component = "odometry" /\ OdometryNext
          /\ UNCHANGED <<others, manualVars>>
       \/ /\ component = "manual" /\ ManualNext
          /\ UNCHANGED <<others, odometryVars>>

Spec == Init /\ [][Next]_vars

\* Types of the variables of the component that runs; the others keep theirs.
TypeOK == CASE component = "edit"       -> EditTypeOK
            [] component = "store"      -> StoreTypeOK
            [] component = "events"     -> EventTypeOK
            [] component = "faults"     -> FaultTypeOK
            [] component = "motors"     -> MotorTypeOK
            [] component = "supervisor" -> SupervisorTypeOK
            [] component = "odometry"   -> OdometryTypeOK
            [] component = "manual"     -> ManualTypeOK

\* No motor is forgotten (MotorProtection!NoMotorForgotten); the fault manager
\* alone is given any evidence.
MotorsRemembered ==
    /\ [](component = "motors" => TroubleStays)
    /\ [][component = "motors" => CalmEnds]_motorVars

-----------------------------------------------------------------------------
\* Two motors left, one of which may lose its count, and a gyro that may warn.
DriveMotors == [left |-> {1, 2}, right |-> {1}]
LoseCount   == {<<"left", 2>>}
MayWarn     == {<<"imu", 1>>}

\* A stop that latches and a derating that comes and goes.
FaultRules ==
    [f \in {"Stall", "ThermalDerate"} |->
        IF f = "Stall"
        THEN [severity |-> "LatchedStop", enter |-> 1, clear |-> 0, latched |-> TRUE]
        ELSE [severity |-> "Derate", enter |-> 0, clear |-> 1, latched |-> FALSE]]

WatchedFaults == {"Stall", "ThermalDerate"}
ReportedAlone == {{"Stall"}, {"ThermalDerate"}}

\* The Brain and the controller, and two profiles, are alike.
Symmetry == Permutations(Origin) \cup Permutations(Profile)
=============================================================================
