------------------------- MODULE CommissioningCycle -------------------------
(***************************************************************************)
(* What one tick of the control loop computes in the commissioning build:  *)
(* the mode transition, the coast button (GlobalControlEventDetector), the *)
(* drive lease (CommissioningDriveLeaseCommand in a StaticScheduler), the  *)
(* stick mapper, DriveRequestSink and DriveRequestArbiter, SafetyGate with *)
(* its slew, and the lift.                                                 *)
(*                                                                         *)
(* The tick is cut where a deletion of its task leaves different state     *)
(* behind.  A deleted task is followed by one that runs forceDisabled,     *)
(* and then by opcontrol again; all objects outlive the task.              *)
(*                                                                         *)
(* Voltages are small integers per wheel.  Stick shaping, curvature and    *)
(* desaturation only choose the target voltages and are left open.         *)
(***************************************************************************)
EXTENDS Integers

CONSTANTS
    Wheel,        \* left and right
    Top,          \* the largest voltage
    Steps,        \* by how much a wheel may slew in one tick: dt (which is clamped) times the rate
    LiftInputs,   \* what the lift's stick and motors may read
    LeaseModulus, \* lease generations wrap around at 2^32 in the code
    MaxEpoch      \* bound of the model: mode epochs

Volts == -Top..Top
NoVolts == [w \in Wheel |-> 0]

\* An input of the lift: its stick (right_y), how long after the header the
\* motors were read, whether both answered, whether they agree, and where it is.
LiftInput == [stick : {-1, 0, 1}, delay : Nat, api_ok : BOOLEAN, agree : BOOLEAN,
              at : {"bottom", "middle", "top"}]

ASSUME CycleAssumption ==
    /\ Top \in Nat /\ Steps \subseteq Nat \ {0} /\ \E s \in Steps : \A t \in Steps : t <= s
    /\ LiftInputs \subseteq LiftInput /\ LiftInputs # {}
    /\ LeaseModulus \in Nat \ {0, 1} /\ MaxEpoch \in Nat

VARIABLES
    pc,          \* where the control task is in its tick
    mode,        \* the ModeSnapshot
    boundary,    \* ModeManager::boundary_stop_epoch_
    controller,  \* the ControllerSnapshot of this tick
    previous,    \* history: that of the tick before
    armed, buttonDown,          \* GlobalControlEventDetector
    slot, generation, epoch,    \* StaticScheduler: the one slot used, lease_generation_, epoch_
    owner,       \* CommissioningDriveLeaseCommand::owner_
    mapEpoch, pending,          \* the mapper's epoch_, one_shot_coast_pending_
    received, consumed,         \* the cycle's coast event bits
    request,     \* the arbitrated DriveRequest of this tick
    slewed, slewEpoch,          \* SafetyGate::output_slew_, slew_epoch_ (0: not initialized)
    frame,       \* the ActuatorFrame last published
    lift         \* the inputs of this tick and the lift voltage

leaseVars  == <<slot, generation, epoch, owner>>
buttonVars == <<armed, buttonDown>>
mapperVars == <<mapEpoch, pending>>
gateVars   == <<slewed, slewEpoch>>
vars == <<pc, mode, boundary, controller, previous, buttonVars, leaseVars, mapperVars,
          received, consumed, request, gateVars, frame, lift>>

-----------------------------------------------------------------------------
Controllers == [connected : BOOLEAN, api_ok : BOOLEAN, left : BOOLEAN]
Quiet   == [connected |-> FALSE, api_ok |-> FALSE, left |-> FALSE]
NoLease == [lease |-> 0, epoch |-> 0]
Leases  == [lease : 1..(LeaseModulus - 1), epoch : Nat] \cup {NoLease}

\* A request is nothing, a coast, or a pair of target voltages.
Targets   == [Wheel -> Volts] \ {NoVolts}
NoRequest == [kind |-> "none", volts |-> NoVolts]
Coast     == [kind |-> "coast", volts |-> NoVolts]
Requests  == [kind : {"drive"}, volts : Targets] \cup {NoRequest, Coast}

\* Fault: a controller that answers with errors counts.
ControllerReady_AnyApi(c) == c.connected
ControllerReady(c) == c.connected /\ c.api_ok

\* The condition the cycle, the mapper and the lift mapper all test.
Permitted ==
    /\ ControllerReady(controller)
    /\ mode.enabled /\ mode.mode = "Test" /\ ~mode.field

Init ==
    /\ pc = "idle"
    /\ mode = [mode |-> "Disabled", enabled |-> FALSE, field |-> FALSE, epoch |-> 1]
    /\ boundary = 1
    /\ controller = Quiet /\ previous = Quiet
    /\ armed = FALSE /\ buttonDown = FALSE
    /\ slot = NoLease /\ generation = 0 /\ epoch = 0 /\ owner = NoLease
    /\ mapEpoch = 0 /\ pending = FALSE
    /\ received = FALSE /\ consumed = FALSE
    /\ request = NoRequest
    /\ slewed = NoVolts /\ slewEpoch = 0
    /\ frame = [epoch |-> 0, volts |-> NoVolts, lease |-> NoLease]
    /\ lift = [volts |-> 0, input |-> CHOOSE s \in LiftInputs : TRUE]

-----------------------------------------------------------------------------
(* A tick.                                                                 *)

\* transitionTo, with the mode and the field bit that are asked for.
TransitionTo(m, field) ==
    IF mode.mode = m /\ mode.field = field THEN UNCHANGED <<mode, boundary>>
    ELSE /\ mode.epoch < MaxEpoch
         /\ mode' = [mode |-> m, enabled |-> FALSE, field |-> field, epoch |-> mode.epoch + 1]
         /\ boundary' = mode.epoch + 1

\* observe() reports a press: up in one valid reading, down in the next.
\* Fault: whether it was up before is not looked at.
Pressed_Level(c) == ControllerReady(c) /\ armed /\ c.left
Pressed(c) == ControllerReady(c) /\ armed /\ c.left /\ ~buttonDown

\* The tick reads the competition status, moves the mode, reads the controller
\* and the motors; observe() and acceptGlobalEvent().
Begin ==
    /\ pc = "idle"
    /\ \E disabled, field \in BOOLEAN :
          TransitionTo(IF disabled \/ field THEN "Disabled" ELSE "Test", field)
    /\ \E c \in Controllers :
          /\ controller' = c
          /\ armed' = (ControllerReady(c) /\ (armed \/ ~c.left))
          /\ buttonDown' = (ControllerReady(c) /\ c.left)
          /\ received' = Pressed(c)
          /\ IF Pressed(c) THEN mapEpoch' = mode'.epoch /\ pending' = TRUE
             ELSE UNCHANGED mapperVars
    /\ \E s \in LiftInputs : lift' = [lift EXCEPT !.input = s]
    /\ previous' = controller
    /\ request' = NoRequest /\ consumed' = FALSE
    /\ pc' = "schedule"
    /\ UNCHANGED <<leaseVars, gateVars, frame>>

\* end() of the lease command and the release of its slot.  Fault: owner_ stays.
EndLease_KeepsOwner == slot' = NoLease /\ UNCHANGED owner
EndLease == slot' = NoLease /\ owner' = NoLease

NextLease == IF (generation + 1) % LeaseModulus = 0 THEN 1 ELSE generation + 1

\* tick() keeps a command of this epoch in an enabled mode that allows it;
\* then all are cancelled, or the lease command is scheduled if none is left.
ScheduleLease ==
    LET kept == /\ slot # NoLease /\ epoch \in {0, mode.epoch}
                /\ mode.enabled /\ mode.mode = "Test" /\ slot.epoch = mode.epoch
    IN /\ pc = "schedule"
       /\ epoch' = mode.epoch
       /\ IF ~Permitted
          THEN /\ IF slot # NoLease THEN EndLease ELSE UNCHANGED <<slot, owner>>
               /\ pc' = "map" /\ UNCHANGED generation
          ELSE IF kept
          THEN pc' = "map" /\ UNCHANGED <<slot, owner, generation>>
          ELSE /\ slot' = [lease |-> NextLease, epoch |-> mode.epoch]
               /\ generation' = NextLease
               /\ owner' = IF slot # NoLease THEN NoLease ELSE owner
               /\ pc' = "initialize"
       /\ UNCHANGED <<mode, boundary, controller, previous, buttonVars, mapperVars,
                      received, consumed, request, gateVars, frame, lift>>

\* The slot is taken before initialize() hands the lease to the command.
InitializeLease ==
    /\ pc = "initialize"
    /\ owner' = slot /\ pc' = "map"
    /\ UNCHANGED <<mode, boundary, controller, previous, buttonVars, slot, generation, epoch,
                   mapperVars, received, consumed, request, gateVars, frame, lift>>

\* The mapper answers a pending coast first, then the stick.
Mapped ==
    IF ~(Permitted /\ owner # NoLease /\ owner.epoch = mode.epoch) THEN {NoRequest}
    ELSE IF pending /\ mapEpoch = mode.epoch THEN {Coast}
    ELSE {Coast} \cup [kind : {"drive"}, volts : Targets]

\* publish() of the sink takes a request of the lease's owner, and validate() of
\* the arbiter looks again, at the mode too.
Published(r) == IF owner = slot THEN r ELSE NoRequest
Selected(r)  == IF /\ mode.enabled /\ mode.mode = "Test"
                   /\ owner = slot /\ owner.epoch = mode.epoch THEN r ELSE NoRequest

\* update() of the mapper, the sink and the arbiter.
Map ==
    /\ pc = "map"
    /\ \E mapped \in Mapped :
          /\ request' = Selected(Published(mapped))
          /\ consumed' = (received /\ mapped = Coast)
    /\ mapEpoch' = mode.epoch /\ pending' = FALSE
    /\ pc' = "gate"
    /\ UNCHANGED <<mode, boundary, controller, previous, buttonVars, leaseVars,
                   received, gateVars, frame, lift>>

Clamp(x, limit) == IF x > limit THEN limit ELSE IF x < -limit THEN -limit ELSE x

\* AsymmetricVoltageSlew::update.  Fault: the step is not clamped.
Slewed_Unclamped(from, target, step) == from + target
Slewed(from, target, step) ==
    LET to == IF from * target < 0 THEN 0 ELSE target
    IN from + Clamp(to - from, step)

\* resetForStop.  Fault: the slew keeps its value.
ResetForStop_Keep == UNCHANGED gateVars
ResetForStop == slewed' = NoVolts /\ slewEpoch' = 0

\* apply() of the safety gate: a stop, or the target slewed from the last one.
Gate ==
    /\ pc = "gate"
    /\ IF ~mode.enabled \/ request.kind # "drive" THEN ResetForStop
       ELSE \E step \in Steps :
          /\ slewed' = [w \in Wheel |->
                Slewed(IF slewEpoch = mode.epoch THEN slewed[w] ELSE 0, request.volts[w], step)]
          /\ slewEpoch' = mode.epoch
    /\ pc' = "lift"
    /\ UNCHANGED <<mode, boundary, controller, previous, buttonVars, leaseVars, mapperVars,
                   received, consumed, request, frame, lift>>

\* apply() of the lift gate, called with the time of the header: a sample taken
\* later is from the future.
LiftVolts(s) ==
    IF /\ Permitted /\ owner # NoLease /\ owner.epoch = mode.epoch
       /\ s.api_ok /\ s.delay = 0 /\ s.agree
       /\ ~(s.stick > 0 /\ s.at = "top")
       /\ ~(s.stick < 0 /\ s.at = "bottom")
    THEN s.stick ELSE 0

\* The frame is complete and published.
Publish ==
    /\ pc = "lift"
    /\ lift' = [lift EXCEPT !.volts = LiftVolts(lift.input)]
    /\ frame' = IF mode.enabled /\ request.kind = "drive"
                THEN [epoch |-> mode.epoch, volts |-> slewed, lease |-> slot]
                ELSE [epoch |-> mode.epoch, volts |-> NoVolts, lease |-> NoLease]
    /\ pc' = "acknowledge"
    /\ UNCHANGED <<mode, boundary, controller, previous, buttonVars, leaseVars, mapperVars,
                   received, consumed, request, gateVars>>

\* acknowledgeBoundaryStop after the first frame of an epoch.
Acknowledge ==
    /\ pc = "acknowledge"
    /\ IF boundary = mode.epoch
       THEN mode' = [mode EXCEPT !.enabled = (mode.mode = "Test")] /\ boundary' = 0
       ELSE UNCHANGED <<mode, boundary>>
    /\ pc' = "idle"
    /\ UNCHANGED <<controller, previous, buttonVars, leaseVars, mapperVars,
                   received, consumed, request, gateVars, frame, lift>>

\* The task is deleted anywhere in its tick; its successor runs forceDisabled.
Kill ==
    /\ TransitionTo("Disabled", FALSE)
    /\ pc' = "idle"
    /\ UNCHANGED <<controller, previous, buttonVars, leaseVars, mapperVars,
                   received, consumed, request, gateVars, frame, lift>>

Next ==
    \/ Begin \/ ScheduleLease \/ InitializeLease \/ Map
    \/ Gate \/ Publish \/ Acknowledge \/ Kill

Spec == Init /\ [][Next]_vars

-----------------------------------------------------------------------------
(* Properties.                                                             *)

\* Types of the variables.
TypeOK ==
    /\ pc \in {"idle", "schedule", "initialize", "map", "gate", "lift", "acknowledge"}
    /\ mode \in [mode : {"Disabled", "Test"}, enabled : BOOLEAN, field : BOOLEAN, epoch : Nat]
    /\ boundary \in Nat
    /\ controller \in Controllers /\ previous \in Controllers
    /\ armed \in BOOLEAN /\ buttonDown \in BOOLEAN
    /\ slot \in Leases /\ owner \in Leases
    /\ generation \in 0..(LeaseModulus - 1) /\ epoch \in Nat
    /\ mapEpoch \in Nat /\ pending \in BOOLEAN
    /\ received \in BOOLEAN /\ consumed \in BOOLEAN
    /\ request \in Requests
    /\ slewed \in [Wheel -> Volts] /\ slewEpoch \in Nat
    /\ frame \in [epoch : Nat, volts : [Wheel -> Volts], lease : Leases]
    /\ lift \in [volts : {-1, 0, 1}, input : LiftInputs]

\* A frame that moves the robot belongs to the lease the drive command holds in
\* this epoch, in an enabled Test mode off the field, with a controller that is
\* connected and answers.
DriveNeedsLease ==
    pc = "acknowledge" /\ frame.volts # NoVolts =>
        /\ frame.epoch = mode.epoch /\ frame.lease = slot
        /\ slot = owner /\ slot.epoch = mode.epoch
        /\ mode.enabled /\ mode.mode = "Test" /\ ~mode.field
        /\ controller.connected /\ controller.api_ok

Largest == CHOOSE s \in Steps : \A t \in Steps : t <= s

\* From one published frame to the next each wheel stops, or moves by no more
\* than a step and never across zero: nothing of an earlier drive survives a
\* stop, a lost controller, a mode epoch or a deleted task.
SlewBounded ==
    [][\A w \in Wheel :
          \/ frame'.volts[w] = 0
          \/ /\ frame'.volts[w] - frame.volts[w] \in -Largest..Largest
             /\ frame'.volts[w] * frame.volts[w] >= 0]_frame

\* The button coasts exactly the tick in which it is seen to go down: in that
\* tick no other request is made, and after it nothing is pending for an epoch with drive.
\* A held button, or one that is down when the controller connects, does not.
CoastOncePerPress ==
    LET press == /\ controller.connected /\ controller.api_ok /\ controller.left
                 /\ previous.connected /\ previous.api_ok /\ ~previous.left
    IN /\ pc # "idle" => (received <=> press)
       /\ pc \in {"gate", "lift", "acknowledge"} =>
             /\ press => request.kind # "drive"
             /\ consumed <=> press /\ request = Coast
       /\ pc \in {"idle", "gate", "lift", "acknowledge"} /\ pending =>
             mapEpoch # mode.epoch \/ mode.mode = "Disabled"

\* When a tick ends, the scheduler and the lease command agree on the lease, and
\* there is one if the operator may drive: a deletion between the slot and
\* initialize() is made good by the new epoch.
LeaseAgrees ==
    pc \in {"map", "gate", "lift", "acknowledge"} =>
        /\ slot = owner
        /\ Permitted => slot # NoLease

\* Through lost controllers, revoked modes and deletions at any point: nothing
\* moves without the lease, and the lease is there when the operator may drive.
LeaseKept == DriveNeedsLease /\ LeaseAgrees

\* With the operator's stick up, the lift away from its limits and both motors
\* answering, the lift is raised (docs/DUAL_ROBOT_FIRST_DRIVE.md:31).
LiftRaises ==
    /\ pc = "acknowledge" /\ Permitted
    /\ lift.input.stick > 0 /\ lift.input.at = "middle"
    /\ lift.input.api_ok /\ lift.input.agree
    => lift.volts > 0
=============================================================================
