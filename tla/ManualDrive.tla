----------------------------- MODULE ManualDrive -----------------------------
(***************************************************************************)
(* ManualDrive, its two AsymmetricAxisSlews and its HeadingAssist: what a  *)
(* driver's frames leave behind in them.                                   *)
(*                                                                         *)
(* Time is counted in control periods, one to a frame.  A stick is what    *)
(* shaping makes of it; the one for the turn also tells how far it is from *)
(* its centre.  The request is computed from what is kept here and is not  *)
(* itself kept.  The estimate comes from Odometry: in the frame in which   *)
(* its pose is reset, its heading is not Good (Odometry!GoodIsExact).      *)
(***************************************************************************)
EXTENDS Integers

CONSTANTS
    Full,           \* a stick at its end
    Rise, Fall,     \* of both slews, in a control period
    MinThrottle,    \* min_throttle, and quick_turn_max_throttle
    LockDelay       \* lock_delay_s

ASSUME ManualAssumption ==
    {Full, Rise, Fall, LockDelay} \subseteq Nat \ {0} /\ MinThrottle \in Nat

VARIABLES
    memory,    \* initialized_, value_ of the two slews, and state_ and
               \* candidate_time_s_ (up to LockDelay) of the assist
    driven,    \* history: periods driven since memory was at rest, up to Full
    calm,      \* history: periods in a row without a reason to release, up to LockDelay
    renewed    \* history: the pose was reset since the reference was taken

manualVars == <<memory, driven, calm, renewed>>

AtRest == [begun |-> FALSE, throttle |-> 0, turn |-> 0, assist |-> "Disarmed", time |-> 0]

ManualInit == memory = AtRest /\ driven = 0 /\ calm = 0 /\ renewed = FALSE

\* The sticks of a frame; "slight" is off the centre but within the dead band.
Sticks == [throttle : {-Full, 0, Full}, turn : {"centre", "slight", "turned"}, quick : BOOLEAN]

\* The RobotState of a frame, and whether its pose has just been reset.
Estimates == {e \in [speed : {"slow", "cruising", "fast"}, fresh : BOOLEAN, reset : BOOLEAN,
                     heading : {"Good", "Degraded"}, translation : {"Good", "Degraded", "Invalid"}] :
                 e.reset => e.heading # "Good"}

Magnitude(v) == IF v < 0 THEN -v ELSE v
NoMore(bound, n) == IF n > bound THEN bound ELSE n

-----------------------------------------------------------------------------
(* AsymmetricAxisSlew::update()                                            *)

\* From v towards the target, by no more than step.
Toward(v, target, step) ==
    IF target > v THEN NoMore(target, v + step) ELSE -NoMore(-target, step - v)

SlewStep(v, target) ==
    IF v * target < 0 THEN Toward(v, 0, Fall)
    ELSE Toward(v, target, (IF Magnitude(target) > Magnitude(v) THEN Rise ELSE Fall))

-----------------------------------------------------------------------------
(* HeadingAssist::update(), with the throttle v after its slew.  The       *)
(* qualities it requires are Good.                                         *)

\* ManualDrive grants a quick turn while the robot hardly moves.
QuickTurn(stick, e, v) ==
    /\ stick.quick /\ e.fresh /\ e.translation # "Invalid"
    /\ Magnitude(v) <= MinThrottle /\ e.speed = "slow"

Releases(stick, e, v) ==
    \/ stick.turn = "turned" \/ QuickTurn(stick, e, v)
    \/ Magnitude(v) < MinThrottle \/ e.speed = "slow"
    \/ ~e.fresh \/ e.heading # "Good" \/ e.translation # "Good"

MayLock(stick, e) == stick.turn = "centre" /\ e.speed = "fast"

\* The state and the candidate time that follow those of memory m.
Assist(m, stick, e, v) ==
    LET time == NoMore(LockDelay, m.time + 1)
    IN IF Releases(stick, e, v) \/ (m.assist # "Locked" /\ ~MayLock(stick, e))
       THEN [state |-> "Disarmed", time |-> 0]
       ELSE IF m.assist = "Locked" THEN [state |-> "Locked", time |-> m.time]
       ELSE [state |-> IF time >= LockDelay THEN "Locked" ELSE "Candidate", time |-> time]

-----------------------------------------------------------------------------
(* ManualDrive::update()                                                   *)

\* What a frame with a fault leaves of the memory.  Fault: all of it.
AfterReject_Kept(m) == m
AfterReject(m) == AtRest

\* A frame with a fault: of mode, controller, header, lease, stick or dt.
Reject ==
    /\ memory' = AfterReject(memory)
    /\ driven' = 0 /\ calm' = 0 /\ renewed' = FALSE

\* A frame of the driver's.  The first of an epoch begins at rest.
Drive(boundary, stick, e) ==
    LET new == boundary \/ ~memory.begun
        m == IF new THEN AtRest ELSE memory
        v == SlewStep(m.throttle, stick.throttle)
        a == Assist(m, stick, e, v)
    IN /\ memory' = [begun |-> TRUE, throttle |-> v,
                     turn |-> SlewStep(m.turn, IF stick.turn = "turned" THEN Full ELSE 0),
                     assist |-> a.state, time |-> a.time]
       /\ driven' = NoMore(Full, (IF new THEN 0 ELSE driven) + 1)
       /\ calm' = IF Releases(stick, e, v) THEN 0
                  ELSE NoMore(LockDelay, (IF new THEN 0 ELSE calm) + 1)
       /\ renewed' = (m.assist = "Locked" /\ a.state = "Locked" /\ (renewed \/ e.reset))

ManualNext ==
    \/ Reject
    \/ \E boundary \in BOOLEAN, stick \in Sticks, e \in Estimates :
          Drive(boundary, stick, e)

ManualSpec == ManualInit /\ [][ManualNext]_manualVars

-----------------------------------------------------------------------------
(* Properties.                                                             *)

\* Types of the variables.
ManualTypeOK ==
    /\ memory \in [begun : BOOLEAN, throttle : -Full..Full, turn : -Full..Full,
                   assist : {"Disarmed", "Candidate", "Locked"}, time : 0..LockDelay]
    /\ driven \in 0..Full /\ calm \in 0..LockDelay /\ renewed \in BOOLEAN

\* Nothing of a drive outlives a fault or an epoch: no stick counts for more
\* than the slew allows since then, and the heading is held only after the lock
\* delay of straight driving since then, without a reason to release it in
\* between, and against a reference taken in the present pose.
NothingRemembered ==
    /\ Magnitude(memory.throttle) <= Rise * driven
    /\ Magnitude(memory.turn) <= Rise * driven
    /\ memory.assist = "Locked" => calm = LockDelay /\ ~renewed
=============================================================================
