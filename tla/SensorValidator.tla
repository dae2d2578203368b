-------------------------- MODULE SensorValidator --------------------------
(***************************************************************************)
(* SensorValidator and its ScalarValidators: which samples are believed.   *)
(*                                                                         *)
(* A channel is one scalar: a wheel's position, the gyro's rotation.  Time *)
(* is counted in frames, and a bank keeps how long ago its time stamps     *)
(* were instead of the stamps; an age that has passed Horizon stands for   *)
(* all longer ones.  A frame that update() refuses as a whole (no newer    *)
(* sequence in its epoch, or an acquisition that is too old) only lets     *)
(* time pass and is Invalid in every channel.                              *)
(***************************************************************************)
EXTENDS Integers

CONSTANTS
    Channel,         \* the scalars of the robot
    Expected,        \* those that a MotionExpectation may expect to change
    Imu,             \* those of the IMU, whose calibration resets them
    Rig,             \* sets of channels that may be fitted
    Level,           \* finite values a sample may have
    MinValue, MaxValue, MaxRate, MaxAge, FreezeTimeout, Recovery,
    Horizon          \* bound of the model: the age past which ages are alike

Distance(v, w) == IF v > w THEN v - w ELSE w - v

ASSUME SensorAssumption ==
    /\ Expected \cup Imu \subseteq Channel /\ Rig \subseteq SUBSET Channel
    /\ Level \subseteq Int
    /\ {MinValue, MaxValue} \subseteq Int /\ MinValue < MaxValue
    /\ {MaxRate, FreezeTimeout, Recovery} \subseteq Nat \ {0} /\ MaxAge \in Nat
    /\ Horizon \in Nat /\ Horizon > MaxAge + FreezeTimeout
    /\ \A v, w \in Level : Distance(v, w) <= MaxRate * (Horizon - MaxAge - 1)

VARIABLES
    fitted,     \* the channels this robot has
    bank,       \* of each channel: the ScalarValidator
    quality,    \* ... and the quality of its last output
    streak,     \* history: samples accepted since the last that was not, or a reset
    stuck       \* history: for how long the accepted value has been the same
                \* though it was expected to change

sensorVars == <<fitted, bank, quality, streak, stuck>>

\* A sample: api is its api_ok, whether its device reports a status, whether the
\* value is finite, and whether the IMU calibrates or does not answer at all.
Sample == [value : Level, age : -1..(MaxAge + 1),
           api : {"Ok", "Warned", "Error", "NotFinite", "Calibrating"}]

\* reset()
Fresh == [accepted |-> FALSE, value |-> 0, since |-> 0, recovery |-> Recovery,
          freezing |-> FALSE, frozen |-> 0]

SensorInit ==
    /\ fitted \in Rig
    /\ bank = [c \in Channel |-> Fresh]
    /\ quality = [c \in Channel |-> "Invalid"]
    /\ streak = [c \in Channel |-> 0] /\ stuck = [c \in Channel |-> 0]

AtMost(bound, n) == IF n > bound THEN bound ELSE n
AgedBank(b) == [b EXCEPT !.since  = IF b.accepted THEN AtMost(Horizon, @ + 1) ELSE 0,
                     !.frozen = IF b.freezing THEN AtMost(Horizon, @ + 1) ELSE 0]

-----------------------------------------------------------------------------
(* ScalarValidator::update(), of a bank b that has been aged.              *)

\* From the last accepted sample to this one.
Gap(b, s) == b.since - s.age

\* The sample is compared with the last accepted one.
Compared(b, s) == b.accepted /\ Gap(b, s) > 0 /\ s.api # "NotFinite"
Still(b, s, expected) == Compared(b, s) /\ expected /\ s.value = b.value

\* The freeze timing, which rejected samples take part in.
Frozen(b, s, expected) ==
    IF ~Compared(b, s) THEN b
    ELSE IF ~Still(b, s, expected) THEN [b EXCEPT !.freezing = FALSE, !.frozen = 0]
    ELSE IF b.freezing THEN b ELSE [b EXCEPT !.freezing = TRUE, !.frozen = b.since]

Rejected(b, s, expected) ==
    \/ s.api \in {"Error", "NotFinite"}
    \/ s.age < 0 \/ s.age > MaxAge
    \/ s.value < MinValue \/ s.value > MaxValue
    \/ b.accepted /\ Gap(b, s) <= 0
    \/ Compared(b, s) /\ Distance(s.value, b.value) > MaxRate * Gap(b, s)
    \/ /\ Still(b, s, expected)
       /\ Frozen(b, s, expected).frozen - s.age >= FreezeTimeout

\* What a rejection does to the count of samples that are still on probation.
\* Fault: nothing.
RecoveryAfterReject_Kept(b) == b.recovery
RecoveryAfterReject(b) == Recovery

Accept(b, s) ==
    [b EXCEPT !.accepted = TRUE, !.value = s.value, !.since = s.age,
              !.recovery = IF @ > 0 THEN @ - 1 ELSE 0]

Updated(b, s, expected) ==
    IF s.api = "Calibrating" THEN Fresh
    ELSE IF Rejected(b, s, expected)
    THEN [Frozen(b, s, expected) EXCEPT !.recovery = RecoveryAfterReject(b)]
    ELSE Accept(Frozen(b, s, expected), s)

QualityOf(b, s, expected) ==
    IF s.api = "Calibrating" \/ Rejected(b, s, expected) THEN "Invalid"
    ELSE IF b.recovery > 0 \/ s.api = "Warned" THEN "Degraded" ELSE "Good"

-----------------------------------------------------------------------------
(* SensorValidator::update()                                               *)

\* A frame; the first of an epoch resets the banks.
Frame(newEpoch, sample, expected) ==
    LET base(c)   == IF newEpoch THEN Fresh ELSE AgedBank(bank[c])
        moving(c) == expected /\ c \in Expected
        taken(c)  == QualityOf(base(c), sample[c], moving(c)) # "Invalid"
    IN /\ bank' = [c \in Channel |->
             IF c \in fitted THEN Updated(base(c), sample[c], moving(c)) ELSE Fresh]
       /\ quality' = [c \in Channel |->
             IF c \in fitted THEN QualityOf(base(c), sample[c], moving(c)) ELSE "Invalid"]
       /\ streak' = [c \in Channel |->
             IF c \in fitted /\ taken(c)
             THEN AtMost(Recovery + 1, (IF newEpoch THEN 0 ELSE streak[c]) + 1) ELSE 0]
       /\ stuck' = [c \in Channel |->
             IF c \notin fitted \/ ~base(c).accepted THEN 0
             ELSE IF Still(base(c), sample[c], moving(c))
             THEN (IF taken(c) THEN AtMost(Horizon, stuck[c] + Gap(base(c), sample[c])) ELSE stuck[c])
             ELSE IF Compared(base(c), sample[c]) \/ sample[c].api = "Calibrating" THEN 0
             ELSE stuck[c]]
       /\ UNCHANGED fitted

RefusedFrame ==
    /\ bank' = [c \in Channel |-> AgedBank(bank[c])]
    /\ quality' = [c \in Channel |-> "Invalid"]
    /\ UNCHANGED <<fitted, streak, stuck>>

Samples == {sample \in [fitted -> Sample] :
               \A c \in fitted : sample[c].api = "Calibrating" => c \in Imu}

SensorNext ==
    \/ \E newEpoch, expected \in BOOLEAN, sample \in Samples : Frame(newEpoch, sample, expected)
    \/ RefusedFrame

SensorSpec == SensorInit /\ [][SensorNext]_sensorVars

-----------------------------------------------------------------------------
(* Properties.                                                             *)

\* Types of the variables.
SensorTypeOK ==
    /\ fitted \in Rig
    /\ bank \in [Channel -> [accepted : BOOLEAN, value : Int, since : -1..Horizon,
                             recovery : 0..Recovery, freezing : BOOLEAN, frozen : 0..Horizon]]
    /\ quality \in [Channel -> {"Invalid", "Degraded", "Good"}]
    /\ streak \in [Channel -> 0..(Recovery + 1)] /\ stuck \in [Channel -> 0..Horizon]

\* A channel is Good only if the samples of a whole recovery before this one
\* were accepted too, with no rejection, calibration or new epoch since, and
\* only if it has not stood still for the freeze time while it was expected to
\* move, whatever samples were rejected meanwhile.
GoodIsEarned ==
    \A c \in Channel : quality[c] = "Good" => streak[c] > Recovery /\ stuck[c] < FreezeTimeout
=============================================================================
