---------------------------- MODULE MCProcedures ----------------------------
(***************************************************************************)
(* What the tasks exchange and run besides the control cycle: the output   *)
(* status, the ring of the recorder, the alerts, the sensor validator, and *)
(* the scheduler alone, with motions, and with the selection of a route.   *)
(* Each behaviour is one of a single component, so their states add and do *)
(* not multiply.                                                           *)
(***************************************************************************)
EXTENDS OutputStatus, SpscRing, StartupAlerts, SensorValidator, AutonomousMotion, RouteSelection

VARIABLE component

vars == <<component, schedulerVars, motionOnly, selectionOnly, statusVars,
          ringVars, alertVars, sensorVars>>

Components == {"status", "ring", "alerts", "sensors", "scheduler", "motion", "route"}

Starts(c) ==
    /\ component = c
    /\ MotionInit /\ SelectionInit /\ StatusInit /\ RingInit /\ AlertInit /\ SensorInit
    /\ c # "alerts" => answering = Device /\ impossible = FALSE
    /\ c # "sensors" => fitted = CHOOSE rig \in Rig : TRUE

Init == \E c \in Components : Starts(c)

\* Bound of the model: only the selection of a route needs all MaxEpoch epochs.
FewEpochs == mode'.epoch < MaxEpoch

tasks == <<statusVars, ringVars, alertVars, sensorVars>>

Next ==
    /\ UNCHANGED component
    /\ \/ /\ component = "status" /\ StatusNext
          /\ UNCHANGED <<schedulerVars, motionOnly, selectionOnly, ringVars, alertVars, sensorVars>>
       \/ /\ component = "ring" /\ RingNext
          /\ UNCHANGED <<schedulerVars, motionOnly, selectionOnly, statusVars, alertVars, sensorVars>>
       \/ /\ component = "alerts" /\ AlertNext
          /\ UNCHANGED <<schedulerVars, motionOnly, selectionOnly, statusVars, ringVars, sensorVars>>
       \/ /\ component = "sensors" /\ SensorNext
          /\ UNCHANGED <<schedulerVars, motionOnly, selectionOnly, statusVars, ringVars, alertVars>>
       \/ /\ component = "scheduler" /\ SchedulerNext /\ FewEpochs
          /\ UNCHANGED <<motionOnly, selectionOnly, tasks>>
       \/ /\ component = "motion" /\ MotionNext /\ FewEpochs
          /\ UNCHANGED <<selectionOnly, tasks>>
       \/ /\ component = "route" /\ SelectionNext
          /\ UNCHANGED <<motionOnly, tasks>>

\* The fairness of AlertSpec and of MotionSpec, each for its own component.  One
\* step of MotionFrame is always possible, so that it is fair says no more than
\* that the frames go on, which is cheaper to check.
Spec ==
    /\ Init /\ [][Next]_vars
    /\ []<>(component = "motion" => frame.step = "begun")
    /\ []<>(component = "motion" => frame.step = "ticked")
    /\ WF_alertVars(component = "alerts" /\ SelfCheck)
    /\ WF_alertVars(component = "alerts" /\ Telemetry)
    /\ WF_alertVars(component = "alerts" /\ ControllerHmi)
    /\ SF_alertVars(component = "alerts" /\ Felt)

\* The motions alone.
MotionsOnly == Starts("motion") /\ [][Next]_vars

\* A motion ends, by its time-out at the latest (AutonomousMotion!EveryMotionEnds);
\* the other components do not run the control task's frames.
MotionsEnd == component = "motion" => EveryMotionEnds

\* The route that runs is the one the operator confirmed in time
\* (RouteSelection!ConfirmedRouteRuns); the other components schedule freely.
RouteIsConfirmed == component = "route" => ConfirmedRouteRuns

\* Types of the variables of all components.
TypeOK == /\ StatusTypeOK /\ RingTypeOK /\ AlertTypeOK /\ SensorTypeOK
          /\ SchedulerTypeOK /\ MotionTypeOK /\ SelectionTypeOK

-----------------------------------------------------------------------------
(* One command of each kind over two subsystems, and one for a subsystem   *)
(* that the scheduler does not know.  The motions are run in a sequence    *)
(* and in a race with the lift.                                             *)

InAutonomous == {"AutonomousInterface"}

MCTop  == {"nothing", "sequence", "parallel", "race", "deadline", "choice", "overlap", "timed",
           "stray"}
MCKind == [nothing |-> "single", sequence |-> "sequence", parallel |-> "parallel",
           race |-> "race", deadline |-> "deadline", choice |-> "conditional",
           overlap |-> "parallel", timed |-> "timeout", stray |-> "single"]
MCChildren ==
    [nothing |-> <<"rest">>, sequence |-> <<"go", "halt">>, parallel |-> <<"turn", "lower">>,
     race |-> <<"follow", "raise">>, deadline |-> <<"hold", "pass">>,
     choice |-> <<"left", "right">>, overlap |-> <<"spin", "slide">>, timed |-> <<"aim">>,
     stray |-> <<"grab">>]
MCLeaf == UNION {{MCChildren[c][k] : k \in 1..Len(MCChildren[c])} : c \in MCTop}
MCDeadline == [deadline |-> 2]
MCRequires ==
    [rest |-> {"drivetrain"}, go |-> {"drivetrain"}, halt |-> {"drivetrain"},
     turn |-> {"drivetrain"}, lower |-> {"lift"}, follow |-> {"drivetrain"}, raise |-> {"lift"},
     hold |-> {"lift"}, pass |-> {}, left |-> {"drivetrain"}, right |-> {"lift"},
     spin |-> {"drivetrain", "lift"}, slide |-> {"drivetrain"}, aim |-> {"lift"},
     grab |-> {"intake"}]
MCAllowedIn == [l \in MCLeaf |-> IF l = "aim" THEN InAutonomous \cup {"Test"} ELSE InAutonomous]
MCInterruptible == MCLeaf \ {"turn", "hold"}
MCKnown == {"drivetrain", "lift"}

MCMotion    == {"go", "follow", "halt"}
MCHalting   == {"halt"}
MCDoNothing == {"rest"}
MCMotionTop == {"sequence", "race", "nothing"}

MCCompatible == [stay |-> {"near", "far"}, cross |-> {"near"}, push |-> {"near", "far"}]
MCCommandOf  == [stay |-> "nothing", cross |-> "sequence", push |-> "race"]

MCRig   == {{"wheel"}, {"gyro"}}
MCLevel == 0..3
=============================================================================
