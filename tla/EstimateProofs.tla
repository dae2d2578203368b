--------------------------- MODULE EstimateProofs ---------------------------
(***************************************************************************)
(* What Odometry claims of its pose, and what ManualDrive keeps between    *)
(* the frames: an estimate that is called Good is exact, and a driver who  *)
(* starts anew finds nothing of the time before.  Last, what holds of the  *)
(* eight components of MCComponents in one specification.                  *)
(***************************************************************************)
EXTENDS MCComponents, SafetyProofs, HmiProofs, FiniteSetTheorems
-----------------------------------------------------------------------------
(* ManualDrive, for any slew rates, thresholds and lock delay.             *)

\* Until it is locked, the assist has counted no more straight driving than there was.
DriverInv == ManualTypeOK /\ NothingRemembered
                /\ (memory.assist # "Locked" => memory.time <= calm)

\* What is a stick's end, a slew and a delay.
LEMMA ManualConstants ==
  /\ Full \in Nat /\ Full >= 1 /\ Rise \in Nat /\ Rise >= 1 /\ Fall \in Nat /\ Fall >= 1
  /\ LockDelay \in Nat /\ LockDelay >= 1 /\ MinThrottle \in Nat
  BY ManualAssumption

\* A step of the slew stays within the stick's range, and is no further from rest
\* than it was by more than one rise.
LEMMA SlewRises ==
  ASSUME NEW v \in -Full..Full, NEW target \in -Full..Full
  PROVE  /\ SlewStep(v, target) \in -Full..Full
         /\ Magnitude(SlewStep(v, target)) <= Magnitude(v) + Rise
<1>1. ASSUME NEW t \in -Full..Full, NEW step \in {Rise, Fall},
             step = Rise \/ Magnitude(t) <= Magnitude(v)
      PROVE  /\ Toward(v, t, step) \in -Full..Full
             /\ Magnitude(Toward(v, t, step)) <= Magnitude(v) + Rise
  BY <1>1, ManualConstants DEF Toward, NoMore, Magnitude
<1>2. SlewStep(v, target) = Toward(v, 0, Fall)
         \/ SlewStep(v, target) = Toward(v, target, IF Magnitude(target) > Magnitude(v) THEN Rise ELSE Fall)
  BY DEF SlewStep
<1>3. 0 \in -Full..Full /\ Magnitude(0) <= Magnitude(v)
  BY ManualConstants DEF Magnitude
<1>4. Magnitude(target) > Magnitude(v) \/ Magnitude(target) <= Magnitude(v)
  BY ManualConstants DEF Magnitude
<1> QED BY <1>1, <1>2, <1>3, <1>4

\* One period more allows one rise more, until the stick is at its end.
LEMMA RisesAddUp ==
  ASSUME NEW n \in 0..Full, NEW v \in -Full..Full, NEW w \in -Full..Full,
         Magnitude(v) <= Rise * n, Magnitude(w) <= Magnitude(v) + Rise
  PROVE  Magnitude(w) <= Rise * NoMore(Full, n + 1) /\ NoMore(Full, n + 1) \in 0..Full
<1>1. Magnitude(v) \in Int /\ Magnitude(w) \in Int /\ Magnitude(w) <= Full
  BY ManualConstants DEF Magnitude
<1>2. CASE n + 1 <= Full
  <2>1. NoMore(Full, n + 1) = n + 1
    BY <1>2, ManualConstants DEF NoMore
  <2>2. Rise * (n + 1) = Rise * n + Rise
    BY ManualConstants
  <2>3. Rise * n \in Int
    BY ManualConstants
  <2> QED BY <1>1, <1>2, <2>1, <2>2, <2>3, ManualConstants
<1>3. CASE n + 1 > Full
  <2>1. NoMore(Full, n + 1) = Full
    BY <1>3, ManualConstants DEF NoMore
  <2>2. Rise * Full >= Full
    BY ManualConstants
  <2> QED BY <1>1, <2>1, <2>2, ManualConstants
<1> QED BY <1>2, <1>3, ManualConstants

\* Preserved by a frame of the driver's.
LEMMA DriveKeeps ==
  ASSUME DriverInv, NEW boundary \in BOOLEAN, NEW stick \in Sticks, NEW e \in Estimates,
         Drive(boundary, stick, e)
  PROVE  DriverInv'
<1> DEFINE new == boundary \/ ~memory.begun
           m == IF new THEN AtRest ELSE memory
           d == IF new THEN 0 ELSE driven
           c == IF new THEN 0 ELSE calm
           v == SlewStep(m.throttle, stick.throttle)
           u == SlewStep(m.turn, IF stick.turn = "turned" THEN Full ELSE 0)
           a == Assist(m, stick, e, v)
<1>1. /\ memory' = [begun |-> TRUE, throttle |-> v, turn |-> u, assist |-> a.state,
                    time |-> a.time]
      /\ driven' = NoMore(Full, d + 1)
      /\ calm' = IF Releases(stick, e, v) THEN 0 ELSE NoMore(LockDelay, c + 1)
      /\ renewed' = (m.assist = "Locked" /\ a.state = "Locked" /\ (renewed \/ e.reset))
  BY DEF Drive
<1>2. /\ m.throttle \in -Full..Full /\ m.turn \in -Full..Full
      /\ m.assist \in {"Disarmed", "Candidate", "Locked"} /\ m.time \in 0..LockDelay
      /\ d \in 0..Full /\ c \in 0..LockDelay
      /\ Magnitude(m.throttle) <= Rise * d /\ Magnitude(m.turn) <= Rise * d
      /\ m.assist = "Locked" => c = LockDelay /\ ~renewed
      /\ m.assist # "Locked" => m.time <= c
  <2>1. CASE new
    <3>1. m = AtRest /\ d = 0 /\ c = 0
      BY <2>1
    <3>2. Magnitude(0) = 0 /\ Rise * 0 = 0
      BY ManualConstants DEF Magnitude
    <3> QED BY <3>1, <3>2, ManualConstants DEF AtRest
  <2>2. CASE ~new
    <3>1. m = memory /\ d = driven /\ c = calm
      BY <2>2
    <3> HIDE DEF new, m, d, c
    <3> QED BY <3>1 DEF DriverInv, ManualTypeOK, NothingRemembered
  <2> QED BY <2>1, <2>2
<1> HIDE DEF new, m, d, c
<1>3. stick.throttle \in -Full..Full /\ (IF stick.turn = "turned" THEN Full ELSE 0) \in -Full..Full
  BY ManualConstants DEF Sticks
<1>4. /\ v \in -Full..Full /\ u \in -Full..Full /\ driven' \in 0..Full
      /\ Magnitude(v) <= Rise * driven' /\ Magnitude(u) <= Rise * driven'
  BY <1>1, <1>2, <1>3, SlewRises, RisesAddUp
<1>5. e.reset => Releases(stick, e, v)
  BY DEF Estimates, Releases
<1> HIDE DEF v, u
<1>6. /\ a.state \in {"Disarmed", "Candidate", "Locked"} /\ a.time \in 0..LockDelay
      /\ a.state # "Locked" => a.time <= calm'
      /\ a.state = "Locked" => calm' = LockDelay
      /\ calm' \in 0..LockDelay
  <2> DEFINE time == NoMore(LockDelay, m.time + 1)
  <2>1. /\ time \in 0..LockDelay /\ NoMore(LockDelay, c + 1) \in 0..LockDelay
        /\ m.assist # "Locked" => time <= NoMore(LockDelay, c + 1)
        /\ m.assist = "Locked" => NoMore(LockDelay, c + 1) = LockDelay
    BY <1>2, ManualConstants DEF NoMore
  <2>2. CASE Releases(stick, e, v)
    BY <1>1, <2>2, ManualConstants DEF Assist
  <2>3. CASE ~Releases(stick, e, v)
    <3>1. calm' = NoMore(LockDelay, c + 1)
      BY <1>1, <2>3
    <3>2. CASE m.assist = "Locked"
      <4>1. a = [state |-> "Locked", time |-> m.time]
        BY <2>3, <3>2 DEF Assist
      <4> QED BY <1>2, <2>1, <3>1, <3>2, <4>1, ManualConstants
    <3>3. CASE m.assist # "Locked" /\ ~MayLock(stick, e)
      <4>1. a = [state |-> "Disarmed", time |-> 0]
        BY <3>3 DEF Assist
      <4> QED BY <2>1, <3>1, <4>1, ManualConstants
    <3>4. CASE m.assist # "Locked" /\ MayLock(stick, e)
      <4>1. a = [state |-> IF time >= LockDelay THEN "Locked" ELSE "Candidate", time |-> time]
        BY <2>3, <3>4 DEF Assist
      <4> HIDE DEF time
      <4> QED BY <2>1, <3>1, <3>4, <4>1, ManualConstants
    <3> QED BY <3>2, <3>3, <3>4
  <2> QED BY <2>2, <2>3
<1>7. m.assist = "Locked" /\ a.state = "Locked" => ~renewed /\ ~e.reset
  BY <1>2, <1>5 DEF Assist
<1>8. renewed' \in BOOLEAN /\ ~renewed'
  BY <1>1, <1>7
<1> HIDE DEF a
<1>9. /\ memory'.throttle = v /\ memory'.turn = u /\ memory'.assist = a.state
      /\ memory'.time = a.time
      /\ memory' \in [begun : BOOLEAN, throttle : -Full..Full, turn : -Full..Full,
                      assist : {"Disarmed", "Candidate", "Locked"}, time : 0..LockDelay]
  BY <1>1, <1>4, <1>6
<1> QED BY <1>4, <1>6, <1>8, <1>9 DEF DriverInv, ManualTypeOK, NothingRemembered

\* The inductive invariant.
LEMMA AtRestIs ==
  /\ AtRest \in [begun : BOOLEAN, throttle : -Full..Full, turn : -Full..Full,
                 assist : {"Disarmed", "Candidate", "Locked"}, time : 0..LockDelay]
  /\ AtRest.throttle = 0 /\ AtRest.turn = 0 /\ AtRest.assist = "Disarmed" /\ AtRest.time = 0
  /\ Magnitude(0) = 0 /\ Rise * 0 = 0 /\ 0 \in 0..Full /\ 0 \in 0..LockDelay
<1>1. AtRest \in [begun : BOOLEAN, throttle : -Full..Full, turn : -Full..Full,
                  assist : {"Disarmed", "Candidate", "Locked"}, time : 0..LockDelay]
  BY ManualConstants DEF AtRest
<1> QED BY <1>1, ManualConstants DEF AtRest, Magnitude

LEMMA RestIsForgetful ==
  ASSUME memory = AtRest, driven = 0, calm = 0, renewed = FALSE PROVE DriverInv
<1>1. ManualTypeOK
  BY AtRestIs DEF ManualTypeOK
<1>2. Magnitude(memory.throttle) <= Rise * driven /\ Magnitude(memory.turn) <= Rise * driven
  BY AtRestIs
<1> QED BY AtRestIs, <1>1, <1>2 DEF DriverInv, NothingRemembered

LEMMA DriverInvStep == DriverInv /\ [ManualNext]_manualVars => DriverInv'
<1> SUFFICES ASSUME DriverInv, [ManualNext]_manualVars PROVE DriverInv'
  OBVIOUS
<1>1. CASE Reject
  <2>1. memory' = AtRest /\ driven' = 0 /\ calm' = 0 /\ renewed' = FALSE
    BY <1>1 DEF Reject, AfterReject
  <2>2. ManualTypeOK'
    BY AtRestIs, <2>1 DEF ManualTypeOK
  <2>3. Magnitude(memory.throttle)' <= Rise * driven' /\ Magnitude(memory.turn)' <= Rise * driven'
    BY AtRestIs, <2>1
  <2> QED BY AtRestIs, <2>1, <2>2, <2>3 DEF DriverInv, NothingRemembered
<1>2. CASE UNCHANGED manualVars
  BY <1>2 DEF manualVars, DriverInv, ManualTypeOK, NothingRemembered
<1> QED BY <1>1, <1>2, DriveKeeps DEF ManualNext

\* Nothing of a drive outlives a fault or an epoch, whatever the sticks, the estimate
\* and the configuration.
THEOREM FreshStartForgets == ManualSpec => []NothingRemembered
<1>1. ManualInit => DriverInv
  BY RestIsForgetful DEF ManualInit
<1>2. DriverInv => NothingRemembered
  BY DEF DriverInv
<1> QED BY <1>1, <1>2, DriverInvStep, PTL DEF ManualSpec

-----------------------------------------------------------------------------
(* Odometry, for any motors, restarts, warnings and bounds.                *)

\* How far the mean of all the ports of an input stands from its old place.
Bias(i, new) == (RestartAt * Cardinality(Ports(layout, i) \cap new)) \div Cardinality(Ports(layout, i))

\* A baseline of an input all of whose ports were there keeps how far the input has
\* gone since, but for where its counts then stood.
BaselineInv ==
    /\ baseline \in [Inputs -> [ready : BOOLEAN, value : Int]]
    /\ \A i \in Inputs : baseline[i].ready =>
          /\ i \in WheelsOf[layout] \cup {"imu"} /\ Ports(layout, i) # {}
          /\ Ports(layout, i) \cap out = {} =>
                baseline[i].value = Gone(i, moved) - Bias(i, restarted)
    /\ baseline["imu"].ready => <<"imu", 1>> \notin out

\* A skid is none, or too large to pass for a turn.
MovedInv ==
    /\ moved \in [way : Nat, turn : Nat, skid : Nat]
    /\ moved.skid = 0 \/ (layout = "DriveEncodersImu" /\ moved.skid >= Skid)

OdometryInv == layout \in Layouts /\ BaselineInv /\ MovedInv /\ GoodIsExact

\* Where a motion takes the four inputs.
LEMMA GoneOf ==
  ASSUME NEW m \in [way : Nat, turn : Nat, skid : Nat]
  PROVE  /\ Gone("left", m) = m.way - m.turn
         /\ Gone("right", m) = m.way + m.turn + 2 * m.skid
         /\ Gone("side", m) = m.turn
         /\ Gone("imu", m) = m.turn
<1>1. Turned("left") = -1 /\ Turned("right") = 1 /\ Turned("side") = 1 /\ Turned("imu") = 1
  BY DEF Turned, Lever
<1>2. "left" \in Forward /\ "right" \in Forward /\ "side" \notin Forward /\ "imu" \notin Forward
  BY DEF Forward
<1>3. m.way \in Nat /\ m.turn \in Nat /\ m.skid \in Nat
  OBVIOUS
<1> QED BY <1>1, <1>2, <1>3 DEF Gone

\* Motions add up.
LEMMA GoneAdds ==
  ASSUME NEW m \in [way : Nat, turn : Nat, skid : Nat],
         NEW n \in [way : Nat, turn : Nat, skid : Nat]
  PROVE  /\ Plus(m, n) \in [way : Nat, turn : Nat, skid : Nat]
         /\ Plus(m, n).skid = m.skid + n.skid
         /\ \A i \in Inputs : /\ Gone(i, m) \in Int /\ Gone(i, n) \in Int
                              /\ Gone(i, Plus(m, n)) = Gone(i, m) + Gone(i, n)
<1>1. Plus(m, n) = [way |-> m.way + n.way, turn |-> m.turn + n.turn, skid |-> m.skid + n.skid]
  BY DEF Plus
<1>2. /\ m.way + n.way \in Nat /\ m.turn + n.turn \in Nat /\ m.skid + n.skid \in Nat
      /\ Plus(m, n) \in [way : Nat, turn : Nat, skid : Nat]
  BY <1>1
<1> QED BY <1>1, <1>2, GoneOf DEF Inputs

\* A motion, and what it adds to the one since the last accepted frame.
LEMMA MotionAdds ==
  ASSUME MovedInv, NEW motion \in Motions
  PROVE  LET m == Plus(moved, motion)
         IN /\ m \in [way : Nat, turn : Nat, skid : Nat]
            /\ m.skid = 0 \/ (layout = "DriveEncodersImu" /\ m.skid >= Skid)
            /\ \A i \in Inputs : /\ Gone(i, moved) \in Int /\ Gone(i, motion) \in Int
                                 /\ Gone(i, m) = Gone(i, moved) + Gone(i, motion)
<1>1. Skid \in Nat
  BY OdometryAssumption
<1>2. /\ motion \in [way : Nat, turn : Nat, skid : Nat]
      /\ motion.skid = 0 \/ (layout = "DriveEncodersImu" /\ motion.skid = Skid)
  BY <1>1 DEF Motions
<1>3. moved.skid \in Nat /\ motion.skid \in Nat
  BY <1>2 DEF MovedInv
<1> QED BY <1>1, <1>2, <1>3, GoneAdds DEF MovedInv

-----------------------------------------------------------------------------
\* A mean of ports is a number, if there are any.
LEMMA BiasType ==
  ASSUME layout \in Layouts, NEW i \in WheelsOf[layout] \cup {"imu"}, Ports(layout, i) # {}, NEW new
  PROVE  Bias(i, new) \in Int
<1> DEFINE P == Ports(layout, i)
<1>1. P \subseteq Device(layout)
  BY DEF Device
<1>2. IsFiniteSet(P) /\ IsFiniteSet(P \cap new)
  BY <1>1, OdometryAssumption, FS_Subset
<1>3. Cardinality(P) \in Nat /\ Cardinality(P) # 0 /\ Cardinality(P \cap new) \in Nat
  BY <1>2, FS_CardinalityType, FS_EmptySet
<1>4. RestartAt * Cardinality(P \cap new) \in Nat
  BY <1>3, OdometryAssumption
<1> QED BY <1>3, <1>4 DEF Bias

\* What is observed of an input.
LEMMA ObservedOf ==
  ASSUME layout \in Layouts, NEW i \in Inputs, NEW checked \in Observation, NEW new
  PROVE  LET seen == Observed(i, checked, new)
         IN /\ seen.bias \in Int /\ seen.quality \in {"Invalid", "Degraded", "Good"}
            /\ seen.quality # "Invalid" =>
                  /\ i \in WheelsOf[layout] \cup {"imu"}
                  /\ Ports(layout, i) \subseteq Device(layout)
                  /\ \E d \in Ports(layout, i) : checked[d] # "Invalid"
                  /\ (\A d \in Ports(layout, i) : checked[d] # "Invalid") =>
                        seen.bias = Bias(i, new)
            /\ seen.quality = "Good" => \A d \in Ports(layout, i) : checked[d] = "Good"
<1> DEFINE live  == Live(i, checked)
           found == {checked[d] : d \in live}
           seen  == Observed(i, checked, new)
<1>1. CASE i \notin WheelsOf[layout] \cup {"imu"} \/ live = {}
  <2>1. seen = [quality |-> "Invalid", bias |-> 0]
    BY <1>1 DEF Observed
  <2> QED BY <2>1
<1>2. CASE i \in WheelsOf[layout] \cup {"imu"} /\ live # {}
  <2>1. seen = [quality |-> IF live = Ports(layout, i) THEN Worst(found) ELSE "Degraded",
                bias |-> (RestartAt * Cardinality(live \cap new)) \div Cardinality(live)]
    BY <1>2 DEF Observed, PartQuality
  <2>2. Ports(layout, i) \subseteq Device(layout)
    BY <1>2 DEF Device
  <2>3. live \subseteq Ports(layout, i) /\ \A d \in live : checked[d] # "Invalid"
    BY DEF Live
  <2>4. \A d \in live : checked[d] \in {"Degraded", "Good"}
    BY <2>2, <2>3 DEF Observation
  <2>5. /\ Worst(found) \in {"Degraded", "Good"}
        /\ Worst(found) = "Good" => \A d \in live : checked[d] = "Good"
    BY <2>4 DEF Worst
  <2>6. IsFiniteSet(live) /\ IsFiniteSet(live \cap new)
    BY <2>2, <2>3, OdometryAssumption, FS_Subset
  <2>7. Cardinality(live) \in Nat /\ Cardinality(live) # 0 /\ Cardinality(live \cap new) \in Nat
    BY <1>2, <2>6, FS_CardinalityType, FS_EmptySet
  <2>8. RestartAt * Cardinality(live \cap new) \in Nat
    BY <2>7, OdometryAssumption
  <2>9. seen.bias \in Int
    BY <2>1, <2>7, <2>8
  <2>10. (\A d \in Ports(layout, i) : checked[d] # "Invalid") => seen.bias = Bias(i, new)
    <3>1. (\A d \in Ports(layout, i) : checked[d] # "Invalid") => live = Ports(layout, i)
      BY DEF Live
    <3>2. seen.bias = (RestartAt * Cardinality(live \cap new)) \div Cardinality(live)
      BY <2>1
    <3> HIDE DEF seen, live
    <3> QED BY <3>1, <3>2 DEF Bias
  <2> HIDE DEF live, found
  <2>11. /\ seen.quality \in {"Degraded", "Good"}
         /\ seen.quality = "Good" => live = Ports(layout, i) /\ Worst(found) = "Good"
    BY <2>1, <2>5
  <2>12. \E d \in Ports(layout, i) : checked[d] # "Invalid"
    BY <1>2, <2>3
  <2> QED BY <1>2, <2>2, <2>5, <2>9, <2>10, <2>11, <2>12
<1> QED BY <1>1, <1>2

\* A count that was there in both frames stands where it stood.
LEMMA CountsStay ==
  ASSUME NEW checked \in Observation, NEW new \in Restarts(checked), NEW d \in Device(layout),
         checked[d] = "Good" \/ (checked[d] # "Invalid" /\ d \notin out)
  PROVE  (d \in new <=> d \in restarted) /\ d \notin out
<1>1. d \notin out
  BY DEF Observation, Qualities
<1>2. PICK again \in SUBSET {e \in Restarting \cap Device(layout) : checked[e] = "Invalid" \/ e \in out} :
        new = (restarted \ again) \cup (again \ restarted)
  BY DEF Restarts
<1>3. d \notin again
  BY <1>1, <1>2
<1> QED BY <1>1, <1>2, <1>3

\* A delta that is Good, or of the IMU, is how far its input has gone.
LEMMA DeltaIsExact ==
  ASSUME OdometryInv, NEW i \in Inputs, NEW checked \in Observation, NEW new \in Restarts(checked),
         NEW motion \in Motions,
         Delta(Moved(motion)[i], Observed(i, checked, new)).valid,
         i = "imu" \/ Delta(Moved(motion)[i], Observed(i, checked, new)).quality = "Good"
  PROVE  Delta(Moved(motion)[i], Observed(i, checked, new)).value = Gone(i, Plus(moved, motion))
<1> DEFINE seen == Observed(i, checked, new)
           b == Moved(motion)[i]
<1>1. b.ready /\ seen.quality # "Invalid"
  BY DEF Delta
<1>2. /\ Delta(b, seen).value = b.value + seen.bias
      /\ Delta(b, seen).quality = seen.quality
  BY <1>1 DEF Delta
<1>3. baseline[i] \in [ready : BOOLEAN, value : Int]
  BY DEF OdometryInv, BaselineInv
<1>4. baseline[i].ready /\ b.value = baseline[i].value + Gone(i, motion)
  <2>1. b = IF baseline[i].ready
            THEN [baseline[i] EXCEPT !.value = baseline[i].value + Gone(i, motion)] ELSE Unset
    BY DEF Moved
  <2>2. baseline[i].ready
    BY <1>1, <2>1 DEF Unset
  <2> QED BY <1>3, <2>1, <2>2
<1> HIDE DEF b
<1>5. /\ i \in WheelsOf[layout] \cup {"imu"} /\ Ports(layout, i) \subseteq Device(layout)
      /\ seen.bias \in Int
  BY <1>1, ObservedOf DEF OdometryInv
<1>6. \A d \in Ports(layout, i) : /\ checked[d] # "Invalid"
                                  /\ checked[d] = "Good" \/ d \notin out
  <2>1. CASE i = "imu"
    <3>1. Ports(layout, i) = {<<"imu", 1>>}
      BY <2>1 DEF Ports, Forward
    <3>2. <<"imu", 1>> \notin out
      BY <1>4, <2>1 DEF OdometryInv, BaselineInv
    <3>3. checked[<<"imu", 1>>] # "Invalid"
      BY <1>1, <3>1, ObservedOf DEF OdometryInv
    <3> QED BY <3>1, <3>2, <3>3
  <2>2. CASE i # "imu"
    <3>1. seen.quality = "Good"
      BY <1>2, <2>2 DEF b
    <3> QED BY <3>1, ObservedOf DEF OdometryInv
  <2> QED BY <2>1, <2>2
<1>7. seen.bias = Bias(i, new)
  BY <1>1, <1>6, ObservedOf DEF OdometryInv
<1>8. \A d \in Ports(layout, i) : (d \in new <=> d \in restarted) /\ d \notin out
  BY <1>5, <1>6, CountsStay
<1>9. Ports(layout, i) \cap new = Ports(layout, i) \cap restarted /\ Ports(layout, i) \cap out = {}
  BY <1>8
<1>10. Bias(i, new) = Bias(i, restarted)
  BY <1>9 DEF Bias
<1>11. baseline[i].value = Gone(i, moved) - Bias(i, restarted)
  BY <1>4, <1>9 DEF OdometryInv, BaselineInv
<1>12. /\ Gone(i, moved) \in Int /\ Gone(i, motion) \in Int
       /\ Gone(i, Plus(moved, motion)) = Gone(i, moved) + Gone(i, motion)
  BY MotionAdds DEF OdometryInv
<1>13. Delta(b, seen).value = Gone(i, moved) - seen.bias + Gone(i, motion) + seen.bias
  BY <1>2, <1>4, <1>7, <1>10, <1>11
<1>14. Delta(b, seen).value = Gone(i, Plus(moved, motion))
  BY <1>5, <1>12, <1>13
<1> QED BY <1>14 DEF b
-----------------------------------------------------------------------------
\* A slip only lowers a quality.
LEMMA SlipLowers ==
  ASSUME NEW n, NEW disagree \in BOOLEAN, NEW found, AfterSlip(n, disagree, found) = "Good"
  PROVE  ~disagree /\ found = "Good"
  BY DEF AfterSlip, Worst

\* The worst of some qualities is Good if all of them are.
LEMMA WorstOf ==
  ASSUME NEW S \in SUBSET {"Invalid", "Degraded", "Good"}, Worst(S) = "Good"
  PROVE  \A q \in S : q = "Good"
  BY DEF Worst

\* A translation that is Good, of deltas that are exact where they are Good and of the
\* turn m.turn, is the way of a motion m without a skid.
LEMMA TranslationIsExact ==
  ASSUME layout \in Layouts, NEW m \in [way : Nat, turn : Nat, skid : Nat],
         NEW delta,
         \A w \in Inputs : delta[w].quality \in {"Invalid", "Degraded", "Good"},
         \A w \in {"left", "right", "side"} :
             delta[w].valid /\ delta[w].quality = "Good" => delta[w].value = Gone(w, m),
         Translation(delta, m.turn).quality = "Good", m.skid = 0
  PROVE  Translation(delta, m.turn).way = m.way /\ Translation(delta, m.turn).aside = 0
<1> DEFINE valid == {w \in WheelsOf[layout] : delta[w].valid}
           ahead == valid \cap Forward
           found == Worst({delta[w].quality : w \in valid})
           straight(w) == delta[w].value - Lever[w] * m.turn
           part(w) == IF w \in ahead THEN straight(w) ELSE 0
           t == Translation(delta, m.turn)
<1>1. /\ m.way \in Nat /\ m.turn \in Nat /\ m.skid = 0
      /\ WheelsOf[layout] \subseteq {"left", "right", "side"}
      /\ Lever["left"] = -1 /\ Lever["right"] = 1 /\ Lever["side"] = 1
  BY DEF WheelsOf, Layouts, Lever
<1>2. WheelsMove(valid)
  BY DEF Translation
<1>3. ASSUME found = "Good", NEW w \in valid PROVE delta[w].value = Gone(w, m)
  <2>1. {delta[v].quality : v \in valid} \in SUBSET {"Invalid", "Degraded", "Good"}
    BY <1>1 DEF Inputs
  <2>2. delta[w].quality = "Good"
    BY <1>3, <2>1, WorstOf
  <2> QED BY <1>1, <2>2
<1>4. CASE layout = "DriveEncodersImu"
  <2>1. "left" \in valid /\ "right" \in valid
    BY <1>2, <1>4 DEF WheelsMove, WheelsOf
  <2>2. t = [way |-> (delta.left.value + delta.right.value) \div 2, aside |-> 0, quality |-> found]
    BY <1>2, <1>4 DEF Translation
  <2>3. found = "Good"
    BY <2>2
  <2>4. delta.left.value = m.way - m.turn /\ delta.right.value = m.way + m.turn + 2 * m.skid
    BY <1>3, <2>1, <2>3, GoneOf
  <2>5. (m.way - m.turn + (m.way + m.turn + 2 * m.skid)) \div 2 = m.way
    BY <1>1
  <2> QED BY <2>2, <2>4, <2>5
<1>5. CASE layout # "DriveEncodersImu"
  <2>1. /\ "side" \in valid /\ ahead # {} /\ ahead \subseteq {"left", "right"}
    BY <1>2, <1>5 DEF WheelsMove, Forward
  <2>2. t = [way |-> (part("left") + part("right")) \div Cardinality(ahead),
             aside |-> straight("side"),
             quality |-> IF valid = WheelsOf[layout] THEN found ELSE Worst({found, "Degraded"})]
    BY <1>2, <1>5 DEF Translation
  <2>3. found = "Good"
    <3>1. t.quality = IF valid = WheelsOf[layout] THEN found ELSE Worst({found, "Degraded"})
      BY <2>2
    <3>2. Worst({found, "Degraded"}) # "Good"
      BY DEF Worst
    <3> QED BY <3>1, <3>2
  <2>4. straight("side") = 0
    <3>1. delta["side"].value = m.turn
      BY <1>3, <2>1, <2>3, GoneOf
    <3> QED BY <1>1, <3>1
  <2>5. /\ "left" \in ahead => straight("left") = m.way
        /\ "right" \in ahead => straight("right") = m.way
    <3>1. /\ "left" \in ahead => delta["left"].value = m.way - m.turn
          /\ "right" \in ahead => delta["right"].value = m.way + m.turn + 2 * m.skid
      BY <1>3, <2>3, GoneOf
    <3> QED BY <1>1, <3>1
  <2>6. /\ ahead = {"left"} \/ ahead = {"right"} \/ ahead = {"left", "right"}
        /\ Cardinality({"left"}) = 1 /\ Cardinality({"right"}) = 1
        /\ Cardinality({"left", "right"}) = 2
    <3>1. /\ IsFiniteSet({"left"}) /\ Cardinality({"left"}) = 1 /\ Cardinality({"right"}) = 1
          /\ "right" \notin {"left"}
      BY FS_Singleton
    <3>2. Cardinality({"left"} \cup {"right"}) = 2
      <4> DEFINE S == {"left"}
      <4> HIDE DEF S
      <4>1. IsFiniteSet(S) /\ Cardinality(S) = 1 /\ "right" \notin S
        BY <3>1 DEF S
      <4>2. Cardinality(S \cup {"right"}) = IF "right" \in S THEN Cardinality(S) ELSE Cardinality(S) + 1
        BY <4>1, FS_AddElement
      <4> QED BY <4>1, <4>2 DEF S
    <3>3. {"left"} \cup {"right"} = {"left", "right"}
      OBVIOUS
    <3>4. Cardinality({"left", "right"}) = 2
      BY <3>2, <3>3
    <3> HIDE DEF ahead
    <3>5. ahead = {"left"} \/ ahead = {"right"} \/ ahead = {"left", "right"}
      BY <2>1
    <3> QED BY <3>1, <3>4, <3>5
  <2> HIDE DEF ahead, straight
  <2>7. (part("left") + part("right")) \div Cardinality(ahead) = m.way
    <3>1. CASE ahead = {"left"}
      <4>1. part("left") = m.way /\ part("right") = 0
        BY <2>5, <3>1
      <4> QED BY <1>1, <2>6, <3>1, <4>1
    <3>2. CASE ahead = {"right"}
      <4>1. part("left") = 0 /\ part("right") = m.way
        BY <2>5, <3>2
      <4> QED BY <1>1, <2>6, <3>2, <4>1
    <3>3. CASE ahead = {"left", "right"}
      <4>1. part("left") = m.way /\ part("right") = m.way
        BY <2>5, <3>3
      <4> QED BY <1>1, <2>6, <3>3, <4>1
    <3> QED BY <2>6, <3>1, <3>2, <3>3
  <2> QED BY <2>2, <2>4, <2>7
<1> QED BY <1>4, <1>5
\* A delta has the quality of what is observed, or none without a baseline.
LEMMA DeltaOf ==
  ASSUME NEW b, NEW seen, seen.quality \in {"Invalid", "Degraded", "Good"}
  PROVE  /\ Delta(b, seen).quality \in {"Invalid", "Degraded", "Good"}
         /\ ~b.ready => ~Delta(b, seen).valid
  BY DEF Delta

\* An estimate that calls itself Good is exact.
LEMMA EstimateIsExact ==
  ASSUME OdometryInv, NEW checked \in Observation, NEW new \in Restarts(checked),
         NEW motion \in Motions, NEW obs,
         obs = [left |-> Observed("left", checked, new), right |-> Observed("right", checked, new),
                side |-> Observed("side", checked, new), imu |-> Observed("imu", checked, new)],
         NEW old, old = Cleared \/ old = Moved(motion),
         Integrate(old, Plus(moved, motion), obs)
  PROVE  GoodIsExact'
<1> DEFINE m == Plus(moved, motion)
           delta == [left |-> Delta(old.left, obs.left), right |-> Delta(old.right, obs.right),
                     side |-> Delta(old.side, obs.side), imu |-> Delta(old.imu, obs.imu)]
           wheels == WheelsTurn({w \in WheelsOf[layout] : delta[w].valid})
           imu == delta.imu.valid
           turn == IF imu THEN delta.imu.value ELSE WheelTurn(delta)
           error == WheelTurn(delta) - turn
           disagree == imu /\ wheels /\ (error > Tolerance \/ -error > Tolerance)
           n == IF ~disagree THEN 0 ELSE IF slip < Confirm THEN slip + 1 ELSE Confirm
           t == Translation(delta, turn)
           solved == IF ~imu /\ t.quality # "Invalid" THEN "Degraded" ELSE t.quality
<1>1. estimate' = IF ~imu /\ ~wheels THEN NoEstimate
            ELSE [translation |-> AfterSlip(n, disagree, solved),
                  heading |-> IF ~imu \/ disagree THEN "Degraded" ELSE delta.imu.quality,
                  exactWay |-> t.way = m.way /\ t.aside = 0, exactTurn |-> turn = m.turn]
  BY DEF Integrate
<1>2. \A i \in Inputs : delta[i] = Delta(old[i], Observed(i, checked, new))
  BY DEF Inputs
<1>3. \A i \in Inputs : delta[i].quality \in {"Invalid", "Degraded", "Good"}
  <2>1. \A i \in Inputs : Observed(i, checked, new).quality \in {"Invalid", "Degraded", "Good"}
    BY ObservedOf DEF OdometryInv
  <2> HIDE DEF delta
  <2> QED BY <1>2, <2>1, DeltaOf
<1>4. \A i \in Inputs : delta[i].valid /\ (i = "imu" \/ delta[i].quality = "Good")
                           => delta[i].value = Gone(i, m)
  <2>1. CASE old = Moved(motion)
    BY <1>2, <2>1, DeltaIsExact
  <2>2. CASE old = Cleared
    <3> HIDE DEF delta
    <3>1. ASSUME NEW i \in Inputs PROVE ~delta[i].valid
      <4>1. old[i] = Unset /\ ~Unset.ready
        BY <2>2 DEF Cleared, Unset
      <4>2. Observed(i, checked, new).quality \in {"Invalid", "Degraded", "Good"}
        BY ObservedOf DEF OdometryInv
      <4> QED BY <1>2, <4>1, <4>2, DeltaOf
    <3> QED BY <3>1
  <2> QED BY <2>1, <2>2
<1>5. /\ m \in [way : Nat, turn : Nat, skid : Nat]
      /\ m.skid = 0 \/ (layout = "DriveEncodersImu" /\ m.skid >= Skid)
  BY MotionAdds DEF OdometryInv
<1>6. layout \in Layouts
  BY DEF OdometryInv
<1> HIDE DEF m, delta
<1>7. imu => turn = m.turn
  BY <1>4, <1>5, GoneOf DEF Inputs
<1>8. disagree \in BOOLEAN
  OBVIOUS
<1> HIDE DEF wheels, turn, n, t, disagree
<1>9. CASE ~imu /\ ~wheels
  BY <1>1, <1>9 DEF NoEstimate, GoodIsExact
<1>10. CASE ~(~imu /\ ~wheels)
  <2>1. /\ estimate'.translation = AfterSlip(n, disagree, solved)
        /\ estimate'.heading = IF ~imu \/ disagree THEN "Degraded" ELSE delta.imu.quality
        /\ estimate'.exactWay = (t.way = m.way /\ t.aside = 0)
        /\ estimate'.exactTurn = (turn = m.turn)
    BY <1>1, <1>10
  <2>2. ASSUME estimate'.heading = "Good" PROVE estimate'.exactTurn
    BY <1>7, <2>1, <2>2
  <2>3. ASSUME estimate'.translation = "Good" PROVE estimate'.exactWay
    <3>1. ~disagree /\ solved = "Good"
      BY <1>8, <2>1, <2>3, SlipLowers
    <3>2. imu /\ t.quality = "Good"
      BY <3>1
    <3>3. m.skid = 0
      <4> SUFFICES ASSUME layout = "DriveEncodersImu", m.skid >= Skid PROVE FALSE
        BY <1>5
      <4>1. /\ WheelsMove({w \in WheelsOf[layout] : delta[w].valid})
            /\ Worst({delta[w].quality : w \in {v \in WheelsOf[layout] : delta[v].valid}}) = "Good"
        BY <3>2 DEF t, Translation
      <4>2. delta["left"].valid /\ delta["right"].valid /\ wheels
        BY <4>1 DEF WheelsMove, WheelsOf, wheels, WheelsTurn
      <4>3. delta["left"].quality = "Good" /\ delta["right"].quality = "Good"
        <5>1. {delta[w].quality : w \in {v \in WheelsOf[layout] : delta[v].valid}}
                 \in SUBSET {"Invalid", "Degraded", "Good"}
          BY <1>3 DEF WheelsOf, Inputs
        <5>2. {"left", "right"} \subseteq {v \in WheelsOf[layout] : delta[v].valid}
          BY <4>2 DEF WheelsOf
        <5> QED BY <4>1, <5>1, <5>2, WorstOf
      <4>4. delta["left"].value = m.way - m.turn /\ delta["right"].value = m.way + m.turn + 2 * m.skid
        BY <1>4, <1>5, <4>2, <4>3, GoneOf DEF Inputs
      <4>5. WheelTurn(delta) = m.turn + m.skid
        <5>1. ((m.way + m.turn + 2 * m.skid) - (m.way - m.turn)) \div 2 = m.turn + m.skid
          BY <1>5
        <5> QED BY <4>4, <5>1 DEF WheelTurn
      <4>6. m.skid > Tolerance /\ m.skid \in Nat /\ m.turn \in Nat /\ Tolerance \in Nat
        BY <1>5, OdometryAssumption
      <4>7. WheelTurn(delta) - turn > Tolerance
        BY <1>7, <3>2, <4>5, <4>6
      <4> QED BY <3>1, <3>2, <4>2, <4>7 DEF disagree
    <3>4. t = Translation(delta, m.turn)
      BY <1>7, <3>2 DEF t
    <3>5. t.way = m.way /\ t.aside = 0
      BY <1>3, <1>4, <1>5, <1>6, <3>2, <3>3, <3>4, TranslationIsExact DEF Inputs
    <3> QED BY <2>1, <3>5
  <2> QED BY <2>2, <2>3 DEF GoodIsExact
<1> QED BY <1>9, <1>10

\* What a baseline is made of.
LEMMA BaselineOf ==
  ASSUME NEW ready \in BOOLEAN, NEW value \in Int, NEW b, b = [ready |-> ready, value |-> value]
  PROVE  b \in [ready : BOOLEAN, value : Int] /\ b.ready = ready /\ b.value = value
  OBVIOUS

LEMMA UnsetIs == Unset \in [ready : BOOLEAN, value : Int] /\ ~Unset.ready
  BY DEF Unset

\* What is captured at a frame that is taken is where its ports stand.
LEMMA CaptureKeeps ==
  ASSUME OdometryInv, NEW checked \in Observation, NEW new \in Restarts(checked), NEW obs,
         obs = [left |-> Observed("left", checked, new), right |-> Observed("right", checked, new),
                side |-> Observed("side", checked, new), imu |-> Observed("imu", checked, new)],
         baseline' = Captured(obs), moved' = NoMotion, layout' = layout, restarted' = new,
         out' = {d \in Device(layout) : checked[d] = "Invalid"}
  PROVE  BaselineInv' /\ MovedInv'
<1>1. \A i \in Inputs : obs[i] = Observed(i, checked, new)
  BY DEF Inputs
<1>2. NoMotion \in [way : Nat, turn : Nat, skid : Nat] /\ NoMotion.skid = 0
      /\ NoMotion.way = 0 /\ NoMotion.turn = 0
  BY DEF NoMotion
<1>3. \A i \in Inputs : Gone(i, NoMotion) = 0
  BY <1>2, GoneOf DEF Inputs
<1>4. MovedInv'
  BY <1>2 DEF MovedInv
<1>5. ASSUME NEW i \in Inputs
      PROVE  /\ baseline'[i] \in [ready : BOOLEAN, value : Int]
             /\ baseline'[i].ready =>
                   /\ i \in WheelsOf[layout] \cup {"imu"} /\ Ports(layout, i) # {}
                   /\ Ports(layout, i) \cap out' = {} => baseline'[i].value = 0 - Bias(i, new)
                   /\ i = "imu" => <<"imu", 1>> \notin out'
  <2> DEFINE seen == Observed(i, checked, new)
  <2>1. /\ seen.bias \in Int /\ seen.quality \in {"Invalid", "Degraded", "Good"}
        /\ seen.quality # "Invalid" =>
              /\ i \in WheelsOf[layout] \cup {"imu"}
              /\ Ports(layout, i) \subseteq Device(layout)
              /\ \E d \in Ports(layout, i) : checked[d] # "Invalid"
              /\ (\A d \in Ports(layout, i) : checked[d] # "Invalid") => seen.bias = Bias(i, new)
    BY ObservedOf DEF OdometryInv
  <2>2. baseline'[i] = IF seen.quality = "Invalid" THEN Unset ELSE [ready |-> TRUE, value |-> -seen.bias]
    BY <1>1 DEF Captured
  <2> HIDE DEF seen
  <2>3. CASE seen.quality = "Invalid"
    <3>1. baseline'[i] = Unset
      BY <2>2, <2>3
    <3> QED BY <3>1, UnsetIs
  <2>4. CASE seen.quality # "Invalid"
    <3>1. baseline'[i] = [ready |-> TRUE, value |-> -seen.bias] /\ -seen.bias = 0 - seen.bias
      BY <2>1, <2>2, <2>4
    <3>2. Ports(layout, i) \cap out' = {} => seen.bias = Bias(i, new)
      BY <2>1, <2>4
    <3>3. i = "imu" => <<"imu", 1>> \notin out'
      <4>1. i = "imu" => Ports(layout, i) = {<<"imu", 1>>}
        BY DEF Ports, Forward
      <4> QED BY <2>1, <2>4, <4>1
    <3>4. /\ baseline'[i] \in [ready : BOOLEAN, value : Int]
          /\ baseline'[i].value = 0 - seen.bias
      <4>1. -seen.bias \in Int
        BY <2>1
      <4> QED BY <3>1, <4>1, BaselineOf
    <3> QED BY <2>1, <2>4, <3>2, <3>3, <3>4
  <2> QED BY <2>1, <2>3, <2>4
<1>6. baseline' \in [Inputs -> [ready : BOOLEAN, value : Int]]
  <2>1. baseline' = [i \in Inputs |-> baseline'[i]]
    BY DEF Captured
  <2> QED BY <1>5, <2>1
<1>7. \A i \in Inputs : Bias(i, restarted)' = Bias(i, new)
  BY DEF Bias
<1>8. \A i \in Inputs : Gone(i, moved)' = 0
  BY <1>3 DEF Gone
<1> QED BY <1>4, <1>5, <1>6, <1>7, <1>8 DEF BaselineInv, Inputs

-----------------------------------------------------------------------------
\* It holds at first.
LEMMA OdometryStarts == OdometryInit => OdometryInv
<1> SUFFICES ASSUME OdometryInit PROVE OdometryInv
  OBVIOUS
<1>1. layout \in Layouts /\ GoodIsExact
  BY DEF OdometryInit, NoEstimate, GoodIsExact
<1>2. BaselineInv
  <2>1. baseline = [i \in Inputs |-> [ready |-> FALSE, value |-> 0]]
    BY DEF OdometryInit, Cleared, Unset
  <2> QED BY <2>1 DEF BaselineInv, Inputs
<1>3. MovedInv
  BY DEF OdometryInit, NoMotion, MovedInv
<1> QED BY <1>1, <1>2, <1>3 DEF OdometryInv

\* A frame that is taken keeps it.
LEMMA AcceptKeeps == OdometryInv /\ Accept => OdometryInv'
<1> SUFFICES ASSUME OdometryInv, Accept PROVE OdometryInv'
  OBVIOUS
<1>1. PICK checked \in Observation : \E new \in Restarts(checked) :
        LET obs == [left |-> Observed("left", checked, new), right |-> Observed("right", checked, new),
                    side |-> Observed("side", checked, new), imu |-> Observed("imu", checked, new)]
        IN /\ \E boundary \in BOOLEAN, motion \in Motions : AcceptedFrame(boundary, motion, obs)
           /\ out' = {d \in Device(layout) : checked[d] = "Invalid"}
           /\ restarted' = new
  BY DEF Accept
<1>2. PICK new \in Restarts(checked) :
        LET obs == [left |-> Observed("left", checked, new), right |-> Observed("right", checked, new),
                    side |-> Observed("side", checked, new), imu |-> Observed("imu", checked, new)]
        IN /\ \E boundary \in BOOLEAN, motion \in Motions : AcceptedFrame(boundary, motion, obs)
           /\ out' = {d \in Device(layout) : checked[d] = "Invalid"}
           /\ restarted' = new
  BY <1>1
<1> DEFINE obs == [left |-> Observed("left", checked, new), right |-> Observed("right", checked, new),
                   side |-> Observed("side", checked, new), imu |-> Observed("imu", checked, new)]
<1>3. PICK boundary \in BOOLEAN, motion \in Motions : AcceptedFrame(boundary, motion, obs)
  BY <1>2
<1>4. out' = {d \in Device(layout) : checked[d] = "Invalid"} /\ restarted' = new
  BY <1>2
<1> DEFINE old == IF First(boundary) THEN Cleared ELSE Moved(motion)
<1>5. /\ IF resetPending THEN ApplyReset(obs) ELSE Integrate(old, Plus(moved, motion), obs)
      /\ moved' = NoMotion /\ layout' = layout
  BY <1>3 DEF AcceptedFrame
<1>6. old = Cleared \/ old = Moved(motion)
  OBVIOUS
<1> HIDE DEF old
<1>7. baseline' = Captured(obs)
  BY <1>5 DEF ApplyReset, Integrate
<1>8. BaselineInv' /\ MovedInv'
  BY <1>4, <1>5, <1>7, CaptureKeeps
<1>9. GoodIsExact'
  <2>1. CASE resetPending
    <3>1. estimate'.translation # "Good" /\ estimate'.heading # "Good"
      BY <1>5, <2>1 DEF ApplyReset
    <3> QED BY <3>1 DEF GoodIsExact
  <2>2. CASE ~resetPending
    <3>1. Integrate(old, Plus(moved, motion), obs)
      BY <1>5, <2>2
    <3> QED BY <1>6, <3>1, EstimateIsExact
  <2> QED BY <2>1, <2>2
<1> QED BY <1>5, <1>8, <1>9 DEF OdometryInv

\* So does one that is refused: the baselines move on with their inputs.
LEMMA RefusalKeeps ==
  ASSUME OdometryInv, NEW inTime \in BOOLEAN, NEW boundary \in BOOLEAN, NEW motion \in Motions,
         RefusedFrame(inTime, boundary, motion)
  PROVE  OdometryInv'
<1>1. /\ moved' = Plus(moved, motion) /\ baseline' = Moved(motion) /\ estimate' = NoEstimate
      /\ layout' = layout /\ out' = out /\ restarted' = restarted
  BY DEF RefusedFrame
<1>2. /\ moved' \in [way : Nat, turn : Nat, skid : Nat]
      /\ moved'.skid = 0 \/ (layout = "DriveEncodersImu" /\ moved'.skid >= Skid)
      /\ \A i \in Inputs : /\ Gone(i, moved) \in Int /\ Gone(i, motion) \in Int
                           /\ Gone(i, moved') = Gone(i, moved) + Gone(i, motion)
  BY <1>1, MotionAdds DEF OdometryInv
<1>3. MovedInv'
  BY <1>1, <1>2 DEF MovedInv
<1>4. ASSUME NEW i \in Inputs
      PROVE  /\ baseline'[i] \in [ready : BOOLEAN, value : Int]
             /\ baseline'[i].ready => /\ baseline[i].ready
                                      /\ baseline'[i].value = baseline[i].value + Gone(i, motion)
  <2>1. baseline[i] \in [ready : BOOLEAN, value : Int] /\ Gone(i, motion) \in Int
    BY <1>2 DEF OdometryInv, BaselineInv
  <2>2. baseline'[i] = IF baseline[i].ready
                       THEN [baseline[i] EXCEPT !.value = baseline[i].value + Gone(i, motion)] ELSE Unset
    BY <1>1 DEF Moved
  <2>3. CASE ~baseline[i].ready
    <3>1. baseline'[i] = Unset
      BY <2>2, <2>3
    <3> QED BY <3>1, UnsetIs
  <2>4. CASE baseline[i].ready
    <3>1. baseline'[i] = [baseline[i] EXCEPT !.value = baseline[i].value + Gone(i, motion)]
      BY <2>2, <2>4
    <3>2. baseline[i].value + Gone(i, motion) \in Int
      BY <2>1
    <3> QED BY <2>1, <2>4, <3>1, <3>2
  <2> QED BY <2>3, <2>4
<1>5. baseline' \in [Inputs -> [ready : BOOLEAN, value : Int]]
  <2>1. baseline' = [i \in Inputs |-> baseline'[i]]
    BY <1>1 DEF Moved
  <2> QED BY <1>4, <2>1
<1>6. ASSUME NEW i \in Inputs, baseline'[i].ready
      PROVE  /\ i \in WheelsOf[layout] \cup {"imu"} /\ Ports(layout, i) # {}
             /\ Ports(layout, i) \cap out = {} =>
                   baseline'[i].value = Gone(i, moved') - Bias(i, restarted)
  <2>1. /\ baseline[i].ready /\ baseline'[i].value = baseline[i].value + Gone(i, motion)
        /\ baseline[i].value \in Int
    BY <1>4, <1>6 DEF OdometryInv, BaselineInv
  <2>2. /\ i \in WheelsOf[layout] \cup {"imu"} /\ Ports(layout, i) # {}
        /\ Ports(layout, i) \cap out = {} => baseline[i].value = Gone(i, moved) - Bias(i, restarted)
    BY <2>1 DEF OdometryInv, BaselineInv
  <2>3. /\ Gone(i, moved) \in Int /\ Gone(i, motion) \in Int
        /\ Gone(i, moved') = Gone(i, moved) + Gone(i, motion)
    BY <1>2
  <2>4. Bias(i, restarted) \in Int
    BY <2>2, BiasType DEF OdometryInv
  <2> QED BY <2>1, <2>2, <2>3, <2>4
<1>7. BaselineInv'
  <2>1. \A i \in Inputs : /\ Bias(i, restarted)' = Bias(i, restarted)
                          /\ Gone(i, moved)' = Gone(i, moved')
                          /\ Ports(layout, i)' = Ports(layout, i)
    BY <1>1 DEF Bias, Gone, Ports
  <2>2. baseline["imu"]'.ready => <<"imu", 1>> \notin out'
    BY <1>1, <1>4 DEF OdometryInv, BaselineInv, Inputs
  <2> QED BY <1>1, <1>5, <1>6, <2>1, <2>2 DEF BaselineInv
<1>8. GoodIsExact'
  BY <1>1 DEF NoEstimate, GoodIsExact
<1> QED BY <1>1, <1>3, <1>7, <1>8 DEF OdometryInv

\* And a reset of the estimator.
LEMMA ResetKeeps == OdometryInv /\ ResetEstimator => OdometryInv'
<1> SUFFICES ASSUME OdometryInv, ResetEstimator PROVE OdometryInv'
  OBVIOUS
<1>1. layout' \in Layouts /\ GoodIsExact'
  BY DEF OdometryInv, ResetEstimator, GoodIsExact
<1>2. BaselineInv'
  <2>1. baseline' = [i \in Inputs |-> [ready |-> FALSE, value |-> 0]]
    BY DEF ResetEstimator, Cleared, Unset
  <2> QED BY <2>1 DEF BaselineInv, Inputs
<1>3. MovedInv'
  BY DEF ResetEstimator, NoMotion, MovedInv
<1> QED BY <1>1, <1>2, <1>3 DEF OdometryInv

\* So does every step.
LEMMA OdometryInvStep == OdometryInv /\ [OdometryNext]_odometryVars => OdometryInv'
<1> SUFFICES ASSUME OdometryInv, [OdometryNext]_odometryVars PROVE OdometryInv'
  OBVIOUS
<1>1. CASE Accept
  BY <1>1, AcceptKeeps
<1>2. CASE \E inTime, boundary \in BOOLEAN, motion \in Motions : RefusedFrame(inTime, boundary, motion)
  BY <1>2, RefusalKeeps
<1>3. CASE RequestReset
  BY <1>3 DEF RequestReset, OdometryInv, BaselineInv, MovedInv, GoodIsExact, Bias
<1>4. CASE ResetEstimator
  BY <1>4, ResetKeeps
<1>5. CASE UNCHANGED odometryVars
  BY <1>5 DEF odometryVars, OdometryInv, BaselineInv, MovedInv, GoodIsExact, Bias, Ports, Gone
<1> QED BY <1>1, <1>2, <1>3, <1>4, <1>5 DEF OdometryNext

\* An update that calls the translation (the heading) Good has advanced the pose by
\* what the robot did since the last accepted frame: of all inputs whose ports were all
\* there, a baseline keeps how far they have gone, a count that stands elsewhere was
\* not there, and a wheel that has skidded shows against the IMU.
THEOREM GoodPoseIsExact == OdometrySpec => []GoodIsExact
<1>1. OdometryInv => GoodIsExact
  BY DEF OdometryInv
<1> QED BY OdometryStarts, OdometryInvStep, <1>1, PTL DEF OdometrySpec

\* What the rest of the estimator keeps: a count of slips within its bound, and an
\* estimate whose qualities are qualities.
Quality == {"Invalid", "Degraded", "Good"}

EstimatorInv ==
    /\ {haveFrame, epochChanged, resetPending} \subseteq BOOLEAN /\ slip \in 0..Confirm
    /\ out \subseteq Device(layout) /\ restarted \subseteq Restarting
    /\ refused \in 0..MaxRefused
    /\ estimate \in [translation : Quality, heading : Quality,
                     exactWay : BOOLEAN, exactTurn : BOOLEAN]

\* The two make the type.
LEMMA OdometryInvTells == OdometryInv /\ EstimatorInv => OdometryTypeOK
  BY DEF OdometryInv, EstimatorInv, BaselineInv, MovedInv, OdometryTypeOK, Quality

LEMMA EstimatorInvInit == OdometryInit => EstimatorInv
<1> SUFFICES ASSUME OdometryInit PROVE EstimatorInv
  OBVIOUS
<1>1. 0 \in 0..Confirm /\ 0 \in 0..MaxRefused
  BY OdometryAssumption
<1> QED BY <1>1 DEF OdometryInit, NoEstimate, Quality, EstimatorInv

\* What the estimate of one frame is made of.
LEMMA QualitiesOf ==
  /\ \A found : Worst(found) \in Quality
  /\ \A i, checked, new : Observed(i, checked, new).quality \in Quality
  /\ \A b, seen : seen.quality \in Quality => Delta(b, seen).quality \in Quality
  /\ \A delta, turn : Translation(delta, turn).quality \in Quality
  /\ \A n, disagree, found : found \in Quality => AfterSlip(n, disagree, found) \in Quality
<1>1. \A found : Worst(found) \in Quality
  BY DEF Worst, Quality
<1>2. ASSUME NEW i, NEW checked, NEW new PROVE Observed(i, checked, new).quality \in Quality
  BY <1>1 DEF Observed, PartQuality, Quality
<1>3. ASSUME NEW b, NEW seen, seen.quality \in Quality PROVE Delta(b, seen).quality \in Quality
  BY <1>3 DEF Delta, Quality
<1>4. ASSUME NEW delta, NEW turn PROVE Translation(delta, turn).quality \in Quality
  BY <1>1 DEF Translation, Quality
<1>5. ASSUME NEW n, NEW disagree, NEW found, found \in Quality PROVE AfterSlip(n, disagree, found) \in Quality
  BY <1>1, <1>5 DEF AfterSlip, Quality
<1> QED BY <1>1, <1>2, <1>3, <1>4, <1>5

LEMMA IntegrateKeeps ==
  ASSUME EstimatorInv, NEW old, NEW m, NEW obs, obs.imu.quality \in Quality, Integrate(old, m, obs)
  PROVE  /\ slip' \in 0..Confirm /\ resetPending' = resetPending
         /\ estimate' \in [translation : Quality, heading : Quality,
                           exactWay : BOOLEAN, exactTurn : BOOLEAN]
<1> DEFINE delta == [left |-> Delta(old.left, obs.left), right |-> Delta(old.right, obs.right),
                     side |-> Delta(old.side, obs.side), imu |-> Delta(old.imu, obs.imu)]
           wheels == WheelsTurn({w \in WheelsOf[layout] : delta[w].valid})
           imu == delta.imu.valid
           turn == IF imu THEN delta.imu.value ELSE WheelTurn(delta)
           error == WheelTurn(delta) - turn
           disagree == imu /\ wheels /\ (error > Tolerance \/ -error > Tolerance)
           n == IF ~disagree THEN 0 ELSE IF slip < Confirm THEN slip + 1 ELSE Confirm
           t == Translation(delta, turn)
           solved == IF ~imu /\ t.quality # "Invalid" THEN "Degraded" ELSE t.quality
           way == t.way = m.way /\ t.aside = 0
           same == turn = m.turn
           heading == IF ~imu \/ disagree THEN "Degraded" ELSE delta.imu.quality
<1>1. /\ slip' = n /\ resetPending' = resetPending
      /\ estimate' = IF ~imu /\ ~wheels THEN NoEstimate
                     ELSE [translation |-> AfterSlip(n, disagree, solved), heading |-> heading,
                           exactWay |-> way, exactTurn |-> same]
  BY DEF Integrate
<1>2. delta.imu.quality \in Quality
  <2>1. delta.imu = Delta(old.imu, obs.imu)
    OBVIOUS
  <2> HIDE DEF delta
  <2> QED BY <2>1, QualitiesOf
<1>3. t.quality \in Quality
  <2> HIDE DEF delta, turn
  <2> QED BY QualitiesOf
<1>4. way \in BOOLEAN /\ same \in BOOLEAN
  OBVIOUS
<1> HIDE DEF delta, wheels, imu, turn, error, disagree, t, way, same
<1>5. n \in 0..Confirm
  BY OdometryAssumption DEF EstimatorInv
<1>6. solved \in Quality /\ heading \in Quality
  BY <1>2, <1>3 DEF Quality
<1> HIDE DEF n, solved, heading
<1>7. AfterSlip(n, disagree, solved) \in Quality
  BY <1>6, QualitiesOf
<1>8. NoEstimate \in [translation : Quality, heading : Quality, exactWay : BOOLEAN, exactTurn : BOOLEAN]
  BY DEF NoEstimate, Quality
<1> QED BY <1>1, <1>4, <1>5, <1>6, <1>7, <1>8

LEMMA EstimatorInvStep == EstimatorInv /\ [OdometryNext]_odometryVars => EstimatorInv'
<1> SUFFICES ASSUME EstimatorInv, [OdometryNext]_odometryVars PROVE EstimatorInv'
  OBVIOUS
<1>1. CASE Accept
  <2>0. PICK checked \in Observation : \E new \in Restarts(checked) :
        LET obs == [left |-> Observed("left", checked, new), right |-> Observed("right", checked, new),
                    side |-> Observed("side", checked, new), imu |-> Observed("imu", checked, new)]
        IN /\ \E boundary \in BOOLEAN, motion \in Motions : AcceptedFrame(boundary, motion, obs)
           /\ out' = {d \in Device(layout) : checked[d] = "Invalid"}
           /\ restarted' = new
    BY <1>1 DEF Accept
  <2>1. PICK new \in Restarts(checked) :
        LET obs == [left |-> Observed("left", checked, new), right |-> Observed("right", checked, new),
                    side |-> Observed("side", checked, new), imu |-> Observed("imu", checked, new)]
        IN /\ \E boundary \in BOOLEAN, motion \in Motions : AcceptedFrame(boundary, motion, obs)
           /\ out' = {d \in Device(layout) : checked[d] = "Invalid"}
           /\ restarted' = new
    BY <2>0
  <2> DEFINE obs == [left |-> Observed("left", checked, new), right |-> Observed("right", checked, new),
                     side |-> Observed("side", checked, new), imu |-> Observed("imu", checked, new)]
  <2>2. PICK boundary \in BOOLEAN, motion \in Motions : AcceptedFrame(boundary, motion, obs)
    BY <2>1
  <2>3. obs.imu.quality \in Quality
    BY QualitiesOf
  <2> DEFINE old == IF First(boundary) THEN Cleared ELSE Moved(motion)
             ends == Plus(moved, motion)
  <2>4. /\ IF resetPending THEN ApplyReset(obs) ELSE Integrate(old, ends, obs)
        /\ haveFrame' = TRUE /\ epochChanged' = FALSE /\ refused' = 0 /\ layout' = layout
    BY <2>2 DEF AcceptedFrame
  <2>5. out' \subseteq Device(layout)' /\ restarted' \subseteq Restarting
    <3>1. new \subseteq restarted \cup Restarting
      BY DEF Restarts
    <3>2. Device(layout)' = Device(layout)
      BY <2>4 DEF Device, Ports
    <3> QED BY <2>1, <3>1, <3>2 DEF EstimatorInv
  <2> HIDE DEF obs, old, ends
  <2>6. /\ slip' \in 0..Confirm /\ resetPending' \in BOOLEAN
        /\ estimate' \in [translation : Quality, heading : Quality,
                          exactWay : BOOLEAN, exactTurn : BOOLEAN]
    <3>1. CASE resetPending
      <4>1. ApplyReset(obs)
        BY <2>4, <3>1
      <4>2. resetPending' = FALSE /\ slip' = 0
        BY <4>1 DEF ApplyReset
      <4>3. \E moves, turns \in BOOLEAN : estimate' =
               [translation |-> IF moves THEN "Degraded" ELSE "Invalid",
                heading |-> IF turns THEN "Degraded" ELSE "Invalid",
                exactWay |-> FALSE, exactTurn |-> FALSE]
        BY <4>1 DEF ApplyReset, WheelsTurn, WheelsMove
      <4>4. 0 \in 0..Confirm
        BY OdometryAssumption
      <4>5. {"Degraded", "Invalid"} \subseteq Quality
        BY DEF Quality
      <4>6. estimate' \in [translation : Quality, heading : Quality,
                          exactWay : BOOLEAN, exactTurn : BOOLEAN]
        BY <4>3, <4>5
      <4> QED BY <4>2, <4>4, <4>6
    <3>2. CASE ~resetPending
      <4>1. Integrate(old, ends, obs)
        BY <2>4, <3>2
      <4> QED BY <2>3, <4>1, IntegrateKeeps DEF EstimatorInv
    <3> QED BY <3>1, <3>2
  <2>7. 0 \in 0..MaxRefused
    BY OdometryAssumption
  <2> QED BY <2>4, <2>5, <2>6, <2>7 DEF EstimatorInv
<1>2. ASSUME NEW inTime \in BOOLEAN, NEW boundary \in BOOLEAN, NEW motion \in Motions,
             RefusedFrame(inTime, boundary, motion)
      PROVE  EstimatorInv'
  <2>1. /\ refused < MaxRefused /\ refused' = refused + 1 /\ estimate' = NoEstimate
        /\ epochChanged' = (epochChanged \/ boundary)
        /\ UNCHANGED <<layout, haveFrame, resetPending, slip, out, restarted>>
    BY <1>2 DEF RefusedFrame
  <2>2. refused' \in 0..MaxRefused
    BY <2>1, OdometryAssumption DEF EstimatorInv
  <2>3. Device(layout)' = Device(layout)
    BY <2>1 DEF Device, Ports
  <2>4. epochChanged' \in BOOLEAN
    BY <2>1
  <2>5. estimate' \in [translation : Quality, heading : Quality, exactWay : BOOLEAN, exactTurn : BOOLEAN]
    BY <2>1 DEF NoEstimate, Quality
  <2> QED BY <2>1, <2>2, <2>3, <2>4, <2>5 DEF EstimatorInv
<1>3. CASE RequestReset
  BY <1>3 DEF RequestReset, EstimatorInv, Device, Ports
<1>4. CASE ResetEstimator
  <2>1. 0 \in 0..Confirm /\ 0 \in 0..MaxRefused
    BY OdometryAssumption
  <2> QED BY <1>4, <2>1 DEF ResetEstimator, EstimatorInv, Device, Ports
<1>5. CASE UNCHANGED odometryVars
  BY <1>5 DEF odometryVars, EstimatorInv, Device, Ports
<1> QED BY <1>1, <1>2, <1>3, <1>4, <1>5 DEF OdometryNext

\* Every variable of the estimator keeps its type.
THEOREM OdometryTypeCorrect == OdometrySpec => []OdometryTypeOK
  BY OdometryStarts, OdometryInvStep, EstimatorInvInit, EstimatorInvStep, OdometryInvTells, PTL
     DEF OdometrySpec
-----------------------------------------------------------------------------
(* What ManualDrive takes for granted of the estimate it is given.         *)

\* An update whose pose does not continue that of the frame before, because a reset was
\* asked for, the estimator was reset or the epoch changed while frames were refused,
\* does not call its heading Good: a reference is never taken or kept across it
\* (ManualDrive!Estimates).
Renews == resetPending \/ ~haveFrame \/ epochChanged
RenewedIsNotGood == [][Renews /\ Accept => estimate'.heading # "Good"]_odometryVars

THEOREM RenewedHeadingIsNotGood == OdometrySpec => RenewedIsNotGood
<1>1. ASSUME Renews, Accept PROVE estimate'.heading # "Good"
  <2>1. PICK obs : \E boundary \in BOOLEAN, motion \in Motions : AcceptedFrame(boundary, motion, obs)
    BY <1>1 DEF Accept
  <2>2. PICK boundary \in BOOLEAN, motion \in Motions : AcceptedFrame(boundary, motion, obs)
    BY <2>1
  <2>3. CASE resetPending
    <3>1. ApplyReset(obs)
      BY <2>2, <2>3 DEF AcceptedFrame
    <3> QED BY <3>1 DEF ApplyReset
  <2>4. CASE ~resetPending
    <3>1. First(boundary)
      BY <1>1, <2>4 DEF Renews, First
    <3>2. Integrate(Cleared, Plus(moved, motion), obs)
      BY <2>2, <2>4, <3>1 DEF AcceptedFrame
    <3>3. Delta(Cleared.imu, obs.imu).valid = FALSE
      <4>1. Cleared.imu = [ready |-> FALSE, value |-> 0]
        BY DEF Cleared, Unset, Inputs
      <4> QED BY <4>1 DEF Delta
    <3> QED BY <3>2, <3>3 DEF Integrate, NoEstimate
  <2> QED BY <2>3, <2>4
<1>2. [OdometryNext]_odometryVars => [Renews /\ Accept => estimate'.heading # "Good"]_odometryVars
  BY <1>1
<1> QED BY <1>2, PTL DEF OdometrySpec, RenewedIsNotGood

-----------------------------------------------------------------------------
(* MCComponents: eight components in one specification, of which one runs. *)
(* The other seven stand still, and some of them see the environment of    *)
(* the one that moves; so each is spoken of only while it runs.            *)

Component == {"edit", "store", "events", "faults", "motors", "supervisor", "odometry", "manual"}

ComponentInv ==
    /\ component \in Component
    /\ component = "edit"       => EditInv /\ EditTypeOK
    /\ component = "store"      => StoreInv
    /\ component = "events"     => QueueInv
    /\ component = "faults"     => FaultInv
    /\ component = "motors"     => MotorInv
    /\ component = "supervisor" => SupervisorInv /\ RouteInv
    /\ component = "odometry"   => OdometryInv /\ EstimatorInv
    /\ component = "manual"     => DriverInv

\* It holds at first: all of them are where they begin.
LEMMA ComponentInvInit == Init => ComponentInv
<1> SUFFICES ASSUME Init PROVE ComponentInv
  OBVIOUS
<1>1. component \in Component
  BY DEF Init, Component
<1>2. EditInv /\ EditTypeOK
  BY EditInvInit, EditTypeInit DEF Init
<1>3. StoreInv /\ QueueInv
  BY StoreInvInit, QueueInvInit DEF Init
<1>4. FaultInv /\ MotorInv
  BY MotorInvInit DEF Init, MotorInv
<1>5. SupervisorInv /\ RouteInv
  BY SupervisorInvInit, RouteInvInit DEF Init
<1>6. OdometryInv /\ EstimatorInv
  BY OdometryStarts, EstimatorInvInit DEF Init
<1>7. DriverInv
  BY RestIsForgetful DEF Init, ManualInit
<1> QED BY <1>1, <1>2, <1>3, <1>4, <1>5, <1>6, <1>7 DEF ComponentInv

\* A step is one of the component that runs, or leaves it where it is.
LEMMA ComponentSteps ==
  ASSUME [Next]_vars
  PROVE  /\ component' = component
         /\ component = "edit"       => [EditNext]_editVars
         /\ component = "store"      => [StoreNext]_storeVars
         /\ component = "events"     => [EventNext]_eventVars
         /\ component = "faults"     => [FaultNext]_faultVars
         /\ component = "motors"     => [MotorNext]_motorVars
         /\ component = "supervisor" => [SupervisorNext]_supervisorVars
         /\ component = "odometry"   => [OdometryNext]_odometryVars
         /\ component = "manual"     => [ManualNext]_manualVars
<1>1. CASE Next
  BY <1>1 DEF Next
<1>2. CASE UNCHANGED vars
  BY <1>2 DEF vars, editOnly, supervisorOnly, faultOnly, editVars, faultVars, motorVars, supervisorVars
<1> QED BY <1>1, <1>2

\* So what a component keeps when it runs alone is kept here.
LEMMA ComponentInvStep ==
  ComponentInv /\ [Next]_vars => ComponentInv' /\ [component = "motors" => CalmEnds]_motorVars
<1> SUFFICES ASSUME ComponentInv, [Next]_vars
             PROVE  ComponentInv' /\ [component = "motors" => CalmEnds]_motorVars
  OBVIOUS
<1>1. component' = component /\ component \in Component
  BY ComponentSteps DEF ComponentInv
<1>2. CASE component = "edit"
  <2>1. EditInv' /\ EditTypeOK'
    BY <1>2, ComponentSteps, EditInvStep, EditTypeStep DEF ComponentInv
  <2> QED BY <1>1, <1>2, <2>1 DEF ComponentInv
<1>3. CASE component = "store"
  <2>1. StoreInv'
    BY <1>3, ComponentSteps, StoreInvStep DEF ComponentInv
  <2> QED BY <1>1, <1>3, <2>1 DEF ComponentInv
<1>4. CASE component = "events"
  <2>1. QueueInv'
    BY <1>4, ComponentSteps, QueueInvStep DEF ComponentInv
  <2> QED BY <1>1, <1>4, <2>1 DEF ComponentInv
<1>5. CASE component = "faults"
  <2>1. FaultInv'
    BY <1>5, ComponentSteps, FaultInvStep DEF ComponentInv
  <2> QED BY <1>1, <1>5, <2>1 DEF ComponentInv
<1>6. CASE component = "motors"
  <2>1. MotorInv' /\ [CalmEnds]_motorVars
    BY <1>6, ComponentSteps, MotorInvStep DEF ComponentInv
  <2> QED BY <1>1, <1>6, <2>1 DEF ComponentInv
<1>7. CASE component = "supervisor"
  <2>1. SupervisorInv' /\ RouteInv'
    BY <1>7, ComponentSteps, SupervisorInvStep, RouteInvStep DEF ComponentInv
  <2> QED BY <1>1, <1>7, <2>1 DEF ComponentInv
<1>8. CASE component = "odometry"
  <2>1. OdometryInv' /\ EstimatorInv'
    BY <1>8, ComponentSteps, OdometryInvStep, EstimatorInvStep DEF ComponentInv
  <2> QED BY <1>1, <1>8, <2>1 DEF ComponentInv
<1>9. CASE component = "manual"
  <2>1. DriverInv'
    BY <1>9, ComponentSteps, DriverInvStep DEF ComponentInv
  <2> QED BY <1>1, <1>9, <2>1 DEF ComponentInv
<1> QED BY <1>1, <1>2, <1>3, <1>4, <1>5, <1>6, <1>7, <1>8, <1>9 DEF Component

LEMMA ComponentInvariant == Spec => []ComponentInv
  BY ComponentInvInit, ComponentInvStep, PTL DEF Spec

\* Every variable of the component that runs keeps its type.
THEOREM ComponentsTypeCorrect == Spec => []TypeOK
<1>1. ComponentInv => TypeOK
  <2> SUFFICES ASSUME ComponentInv PROVE TypeOK
    OBVIOUS
  <2>1. component = "store" => StoreTypeOK
    BY DEF ComponentInv, StoreInv
  <2>2. component = "events" => EventTypeOK
    BY DEF ComponentInv, QueueInv
  <2>3. component = "manual" => ManualTypeOK
    BY DEF ComponentInv, DriverInv
  <2>4. component = "faults" => FaultTypeOK
    BY DEF ComponentInv, FaultInv, FaultTypeOK
  <2>5. component = "motors" => MotorTypeOK
    BY MotorInvTells DEF ComponentInv
  <2>6. component = "supervisor" => SupervisorTypeOK
    BY SupervisorInvTells DEF ComponentInv
  <2>7. component = "odometry" => OdometryTypeOK
    BY OdometryInvTells DEF ComponentInv
  <2>8. component \in Component /\ (component = "edit" => EditTypeOK)
    BY DEF ComponentInv
  <2> QED BY <2>1, <2>2, <2>3, <2>4, <2>5, <2>6, <2>7, <2>8 DEF TypeOK, Component
<1> QED BY ComponentInvariant, <1>1, PTL

\* No motor is forgotten where the monitor runs, and only its own steps end a fault.
THEOREM MotorsStayRemembered == Spec => MotorsRemembered
<1> DEFINE Stays == component = "motors" => TroubleStays
           Ends  == component = "motors" => CalmEnds
<1>1. ComponentInv => Stays
  BY MotorInvTells DEF ComponentInv
<1>2. ComponentInv /\ [Next]_vars => [Ends]_motorVars
  BY ComponentInvStep
<1> HIDE DEF Stays, Ends
<1>3. Spec => []Stays /\ [][Ends]_motorVars
  BY ComponentInvariant, <1>1, <1>2, PTL DEF Spec
<1> QED BY <1>3 DEF MotorsRemembered, Stays, Ends
=============================================================================
