------------------------------ MODULE Odometry ------------------------------
(***************************************************************************)
(* Odometry: the pose, from wheels and IMU, and what quality it claims.    *)
(*                                                                         *)
(* The robot moves along its forward axis (way), turns (turn) and, if its  *)
(* wheels are driven, may skid with its right wheel (skid); a motion is    *)
(* whatever happens between two frames.  Wheels stand at a lever of one    *)
(* about the centre: two of them forward, one sideways.  A baseline keeps, *)
(* instead of the reading taken, how far its input has gone from there.    *)
(* The pose itself is not kept: a property asks by how much an update has  *)
(* advanced it.  A request with the id of the last reset is refused and    *)
(* changes nothing, and the count of resets is only reported.              *)
(***************************************************************************)
EXTENDS Integers, FiniteSets

CONSTANTS
    Motors,        \* of a driven wheel: the motors whose mean it is
    Restarting,    \* the devices whose count may start anew while they are out
    RestartAt,     \* where such a count then stands, beside its old place
    Warned,        \* the devices that may report a status, and be Degraded for it
    Skid,          \* how far a wheel may skid in a frame
    Tolerance,     \* heading_disagreement_rad, in units of a turn
    Confirm,       \* slip_confirm_samples
    MaxRefused     \* bound of the model: frames refused in a row

Layouts  == {"DriveEncodersImu", "TwoTrackingImu", "ThreeTrackingImu"}
WheelsOf == [DriveEncodersImu |-> {"left", "right"}, TwoTrackingImu |-> {"left", "side"},
             ThreeTrackingImu |-> {"left", "right", "side"}]
Forward  == {"left", "right"}
Lever    == [left |-> -1, right |-> 1, side |-> 1]
Inputs   == {"left", "right", "side", "imu"}

\* The ports behind an input: the motors of a side, or the one sensor.
Ports(l, i) == IF l = "DriveEncodersImu" /\ i \in Forward THEN {<<i, k>> : k \in Motors[i]}
               ELSE {<<i, 1>>}
Device(l)   == UNION {Ports(l, i) : i \in WheelsOf[l] \cup {"imu"}}
AllDevices  == UNION {Device(l) : l \in Layouts}

\* A skid of one wheel must show as a disagreement of headings.
ASSUME OdometryAssumption ==
    /\ {Tolerance, Skid} \subseteq Nat /\ Skid > Tolerance /\ Confirm \in Nat \ {0}
    /\ Restarting \cup Warned \subseteq AllDevices /\ MaxRefused \in Nat /\ RestartAt \in Nat
    /\ \A l \in Layouts : IsFiniteSet(Device(l))

VARIABLES
    layout,
    haveFrame,     \* have_frame_
    epochChanged,  \* the frames carry an epoch that is not last_epoch_
    resetPending,  \* reset_pending_
    slip,          \* slip_count_, up to Confirm
    baseline,      \* of each input: a Baseline
    out,           \* the devices that were Invalid in the last accepted frame
    restarted,     \* the devices whose count is not at its old place
    moved,         \* history: the motion since the last accepted frame
    refused,       \* history: frames refused since then
    estimate       \* the last PoseEstimate: its qualities, and whether its pose
                   \* has advanced by the motion since the last accepted frame

odometryVars == <<layout, haveFrame, epochChanged, resetPending, slip, baseline, out, restarted,
                  moved, refused, estimate>>

NoMotion == [way |-> 0, turn |-> 0, skid |-> 0]
Plus(m, n) == [way |-> m.way + n.way, turn |-> m.turn + n.turn, skid |-> m.skid + n.skid]

\* Straight on, on the spot, in an arc, or straight on with a skid; a robot that
\* stands shows less.
Motions ==
    {m \in [way : {0, 1}, turn : {0, 1}, skid : {0, Skid}] :
        /\ m.way + m.turn > 0
        /\ m.skid > 0 => layout = "DriveEncodersImu" /\ m.turn = 0}

Unset   == [ready |-> FALSE, value |-> 0]
Cleared == [i \in Inputs |-> Unset]
NoEstimate == [translation |-> "Invalid", heading |-> "Invalid",
               exactWay |-> FALSE, exactTurn |-> FALSE]

OdometryInit ==
    /\ layout \in Layouts
    /\ haveFrame = FALSE /\ epochChanged = FALSE /\ resetPending = FALSE /\ slip = 0
    /\ baseline = Cleared
    /\ out = Device(layout) /\ restarted = {}
    /\ moved = NoMotion /\ refused = 0 /\ estimate = NoEstimate

-----------------------------------------------------------------------------
(* The observation: checked[d] is the quality of device d in this frame.   *)

Worst(qualities) == IF "Invalid" \in qualities THEN "Invalid"
                    ELSE IF "Degraded" \in qualities THEN "Degraded" ELSE "Good"

Live(i, checked) == {d \in Ports(layout, i) : checked[d] # "Invalid"}

\* What a side of which not all motors are there is worth.  Fault: as much as
\* those that are there.
PartQuality_Full(found) == Worst(found)
PartQuality(found) == "Degraded"

\* averageMotorDistance(), makeOdomObservation(): an input's quality, and how far
\* the mean of its ports is from its old place.
Observed(i, checked, new) ==
    LET live  == Live(i, checked)
        found == {checked[d] : d \in live}
    IN IF i \notin WheelsOf[layout] \cup {"imu"} \/ live = {} THEN [quality |-> "Invalid", bias |-> 0]
       ELSE [quality |-> IF live = Ports(layout, i) THEN Worst(found) ELSE PartQuality(found),
             bias |-> (RestartAt * Cardinality(live \cap new)) \div Cardinality(live)]

\* How far a motion takes an input.
Turned(i) == IF i = "imu" THEN 1 ELSE Lever[i]
Gone(i, m) == (IF i \in Forward THEN m.way ELSE 0) + Turned(i) * m.turn
              + (IF i = "right" THEN 2 * m.skid ELSE 0)

\* capture(), and what makeDelta() leaves of a baseline.
Captured(obs) ==
    [i \in Inputs |-> IF obs[i].quality = "Invalid" THEN Unset
                      ELSE [ready |-> TRUE, value |-> -obs[i].bias]]

\* makeDelta() of a baseline b.
Delta(b, seen) ==
    IF b.ready /\ seen.quality # "Invalid"
    THEN [valid |-> TRUE, quality |-> seen.quality, value |-> b.value + seen.bias]
    ELSE [valid |-> FALSE, quality |-> "Invalid", value |-> 0]

-----------------------------------------------------------------------------
(* The solutions, from the deltas of all inputs.                           *)

\* Whether wheels that are all in set ready determine the heading.
WheelsTurn(ready) == layout # "TwoTrackingImu" /\ WheelsOf[layout] \subseteq ready

\* Whether those in set ready determine the translation, given the heading.
WheelsMove(ready) ==
    IF layout = "DriveEncodersImu" THEN WheelsOf[layout] \subseteq ready
    ELSE "side" \in ready /\ \E w \in Forward \cap WheelsOf[layout] : w \in ready

WheelTurn(delta) == (delta.right.value - delta.left.value) \div 2

\* solveTranslation(): the way, the way aside, and their quality.
Translation(delta, turn) ==
    LET valid == {w \in WheelsOf[layout] : delta[w].valid}
        ahead == valid \cap Forward
        straight(w) == delta[w].value - Lever[w] * turn
        part(w) == IF w \in ahead THEN straight(w) ELSE 0
        found == Worst({delta[w].quality : w \in valid})
    IN IF ~WheelsMove(valid) THEN [way |-> 0, aside |-> 0, quality |-> "Invalid"]
       ELSE IF layout = "DriveEncodersImu"
       THEN [way |-> (delta.left.value + delta.right.value) \div 2, aside |-> 0,
             quality |-> found]
       ELSE [way |-> (part("left") + part("right")) \div Cardinality(ahead),
             aside |-> straight("side"),
             quality |-> IF valid = WheelsOf[layout] THEN found ELSE Worst({found, "Degraded"})]

\* What a disagreement of wheels and IMU, at the given count, leaves of the
\* quality of the translation.
AfterSlip(n, disagree, found) ==
    IF ~disagree THEN found
    ELSE IF n >= Confirm THEN "Invalid"
    ELSE Worst({found, "Degraded"})

-----------------------------------------------------------------------------
(* update()                                                                *)

\* A pending reset: the pose is where the request puts it.
ApplyReset(obs) ==
    LET ready == {i \in Inputs : obs[i].quality # "Invalid"}
        turns == "imu" \in ready \/ WheelsTurn(ready)
        moves == turns /\ WheelsMove(ready)
    IN /\ resetPending' = FALSE /\ slip' = 0
       /\ baseline' = Captured(obs)
       /\ estimate' = [translation |-> IF moves THEN "Degraded" ELSE "Invalid",
                       heading |-> IF turns THEN "Degraded" ELSE "Invalid",
                       exactWay |-> FALSE, exactTurn |-> FALSE]

\* The estimate proper, of a frame that ends the motion m.
Integrate(old, m, obs) ==
    LET delta == [left |-> Delta(old.left, obs.left), right |-> Delta(old.right, obs.right),
                  side |-> Delta(old.side, obs.side), imu |-> Delta(old.imu, obs.imu)]
        wheels == WheelsTurn({w \in WheelsOf[layout] : delta[w].valid})
        imu == delta.imu.valid
        turn == IF imu THEN delta.imu.value ELSE WheelTurn(delta)
        error == WheelTurn(delta) - turn
        disagree == imu /\ wheels /\ (error > Tolerance \/ -error > Tolerance)
        n == IF ~disagree THEN 0 ELSE IF slip < Confirm THEN slip + 1 ELSE Confirm
        t == Translation(delta, turn)
        solved == IF ~imu /\ t.quality # "Invalid" THEN "Degraded" ELSE t.quality
    IN /\ slip' = n
       /\ baseline' = Captured(obs)
       /\ estimate' =
            IF ~imu /\ ~wheels THEN NoEstimate
            ELSE [translation |-> AfterSlip(n, disagree, solved),
                  heading |-> IF ~imu \/ disagree THEN "Degraded" ELSE delta.imu.quality,
                  exactWay |-> t.way = m.way /\ t.aside = 0, exactTurn |-> turn = m.turn]
       /\ UNCHANGED resetPending

First(boundary) == ~haveFrame \/ epochChanged \/ boundary

Moved(motion) == [i \in Inputs |->
    IF baseline[i].ready THEN [baseline[i] EXCEPT !.value = @ + Gone(i, motion)] ELSE Unset]

\* A frame that is taken, after a motion; it may be the first of an epoch.
AcceptedFrame(boundary, motion, obs) ==
    LET old == IF First(boundary) THEN Cleared ELSE Moved(motion)
    IN /\ IF resetPending THEN ApplyReset(obs)
          ELSE Integrate(old, Plus(moved, motion), obs)
       /\ haveFrame' = TRUE /\ epochChanged' = FALSE
       /\ moved' = NoMotion /\ refused' = 0
       /\ UNCHANGED layout

\* A frame whose dt is out of range, or which is no newer than the last one.
RefusedFrame(inTime, boundary, motion) ==
    /\ inTime => ~First(boundary)
    /\ refused < MaxRefused /\ refused' = refused + 1
    /\ moved' = Plus(moved, motion) /\ baseline' = Moved(motion)
    /\ epochChanged' = (epochChanged \/ boundary)
    /\ estimate' = NoEstimate
    /\ UNCHANGED <<layout, haveFrame, resetPending, slip, out, restarted>>

\* A device that was Invalid is not Good in the next accepted frame: its
\* validator keeps it on probation for longer than frames are refused in a row
\* (SensorValidator!GoodIsEarned).  A validator that refuses the frame as a whole
\* makes every device Invalid and puts none on probation: all baselines are
\* Unset then, and what follows is the same whether the devices are next Good or
\* Degraded.  A count starts anew only where it is rejected, in this frame or in
\* the last one.
Qualities(d) == {"Invalid"} \cup (IF d \in out THEN {"Degraded"} ELSE {"Good"})
                \cup (IF d \in Warned THEN {"Degraded"} ELSE {})
Observation == {checked \in [Device(layout) -> {"Invalid", "Degraded", "Good"}] :
                   \A d \in Device(layout) : checked[d] \in Qualities(d)}
Restarts(checked) ==
    {(restarted \ again) \cup (again \ restarted) :
        again \in SUBSET {d \in Restarting \cap Device(layout) : checked[d] = "Invalid" \/ d \in out}}

RequestReset ==
    /\ resetPending' = TRUE
    /\ UNCHANGED <<layout, haveFrame, epochChanged, slip, baseline, out, restarted, moved,
                   refused, estimate>>

ResetEstimator ==
    /\ haveFrame' = FALSE /\ epochChanged' = FALSE /\ slip' = 0 /\ resetPending' = FALSE
    /\ baseline' = Cleared /\ moved' = NoMotion /\ refused' = 0
    /\ UNCHANGED <<layout, out, restarted, estimate>>

Accept ==
    \E checked \in Observation : \E new \in Restarts(checked) :
        LET obs == [left |-> Observed("left", checked, new), right |-> Observed("right", checked, new),
                    side |-> Observed("side", checked, new), imu |-> Observed("imu", checked, new)]
        IN /\ \E boundary \in BOOLEAN, motion \in Motions : AcceptedFrame(boundary, motion, obs)
           /\ out' = {d \in Device(layout) : checked[d] = "Invalid"}
           /\ restarted' = new

OdometryNext ==
    \/ Accept
    \/ \E inTime, boundary \in BOOLEAN, motion \in Motions : RefusedFrame(inTime, boundary, motion)
    \/ RequestReset \/ ResetEstimator

OdometrySpec == OdometryInit /\ [][OdometryNext]_odometryVars

-----------------------------------------------------------------------------
(* Properties.                                                             *)

\* Types of the variables.
OdometryTypeOK ==
    /\ layout \in Layouts
    /\ {haveFrame, epochChanged, resetPending} \subseteq BOOLEAN /\ slip \in 0..Confirm
    /\ baseline \in [Inputs -> [ready : BOOLEAN, value : Int]]
    /\ out \subseteq Device(layout) /\ restarted \subseteq Restarting
    /\ moved \in [way : Nat, turn : Nat, skid : Nat] /\ refused \in 0..MaxRefused
    /\ estimate \in [translation : {"Invalid", "Degraded", "Good"},
                     heading : {"Invalid", "Degraded", "Good"},
                     exactWay : BOOLEAN, exactTurn : BOOLEAN]

\* Whatever frames were refused, sensors lost and found, motors restarted,
\* epochs begun and resets asked for: an update that calls the translation (the
\* heading) Good has advanced the pose by what the robot did since the last
\* frame that was accepted, no more, no less and no reset.
GoodIsExact ==
    /\ estimate.translation = "Good" => estimate.exactWay
    /\ estimate.heading = "Good" => estimate.exactTurn
=============================================================================
