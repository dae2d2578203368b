---------------------------- MODULE CycleProofs ----------------------------
(***************************************************************************)
(* CommissioningCycle, for any voltages, slew steps, lift inputs and       *)
(* numbers of leases.                                                      *)
(***************************************************************************)
EXTENDS CommissioningCycle, TLAPS

\* Where the request of a tick is made, and has been acted on.
Requested == {"gate", "lift", "acknowledge"}

\* The slot and the command disagree only until the new lease is handed over, or
\* in an epoch that has passed.
LeaseInv ==
    /\ slot.epoch <= mode.epoch
    /\ pc = "idle" \/ pc = "schedule" =>
          \/ owner = slot
          \/ owner = NoLease /\ slot # NoLease /\ slot.epoch < mode.epoch
    /\ pc = "initialize" =>
          slot # NoLease /\ slot.epoch = mode.epoch /\ owner = NoLease /\ Permitted
    /\ pc \in Requested /\ request.kind = "drive" =>
          Permitted /\ slot.epoch = mode.epoch /\ slot # NoLease
    /\ LeaseKept

\* What is published was asked for in the same tick.
FrameInv ==
    pc = "acknowledge" =>
        /\ frame.volts # NoVolts => request.kind = "drive" /\ frame.epoch = mode.epoch /\ frame.lease = slot
        /\ ~mode.enabled => frame.volts = NoVolts

\* An enabled mode is Test, and the slew is the last frame's, or the last frame stops.
SlewInv ==
    /\ mode.epoch >= 1 /\ slewEpoch <= mode.epoch
    /\ mode.enabled => mode.mode = "Test"
    /\ slewEpoch = mode.epoch => mode.enabled
    /\ pc # "lift" /\ mode.enabled =>
          frame.volts = (IF slewEpoch = mode.epoch THEN slewed ELSE NoVolts)
    /\ pc = "lift" /\ mode.enabled => (slewEpoch = mode.epoch <=> request.kind = "drive")
    /\ pc = "lift" /\ mode.enabled /\ request.kind = "drive" =>
          \A w \in Wheel : \/ slewed[w] = 0
                           \/ /\ slewed[w] - frame.volts[w] \in -Largest..Largest
                              /\ slewed[w] * frame.volts[w] >= 0

\* What the detector keeps is the reading before, and a press is pending until the mapper
\* has answered it, or its mode is gone.
ButtonInv ==
    /\ buttonDown <=> ControllerReady(controller) /\ controller.left
    /\ armed => ControllerReady(controller)
    /\ ControllerReady(controller) /\ ~controller.left => armed
    /\ pc \in {"schedule", "initialize", "map"} /\ received => pending /\ mapEpoch = mode.epoch
    /\ pc \in Requested => ~pending
    /\ pc = "idle" /\ pending => mode.mode = "Disabled"
    /\ CoastOncePerPress

CycleInv == TypeOK /\ LeaseInv /\ FrameInv /\ SlewInv /\ ButtonInv

-----------------------------------------------------------------------------
(* Operators.                                                              *)

LEMMA CycleConstants ==
  /\ Top \in Nat /\ Steps \subseteq Nat /\ LeaseModulus \in Nat /\ LeaseModulus >= 2
  /\ Largest \in Nat /\ \A t \in Steps : t <= Largest
<1>1. \E s \in Steps : \A t \in Steps : t <= s
  BY CycleAssumption
<1>2. Largest \in Steps /\ \A t \in Steps : t <= Largest
  BY <1>1 DEF Largest
<1> QED BY <1>2, CycleAssumption

\* A product is negative if its factors are on both sides of zero.
LEMMA Signs ==
  ASSUME NEW x \in Int, NEW y \in Int
  PROVE  /\ x * y \in Int
         /\ x * y < 0 <=> (x < 0 /\ y > 0) \/ (x > 0 /\ y < 0)
  OBVIOUS

\* A slew stays within the voltages, takes no more than its step and stops at zero.
LEMMA SlewStays ==
  ASSUME NEW from \in Volts, NEW target \in Volts, NEW step \in Steps
  PROVE  LET v == Slewed(from, target, step)
         IN v \in Volts /\ v - from \in -Largest..Largest /\ v * from >= 0
<1> DEFINE to == IF from * target < 0 THEN 0 ELSE target
           v  == Slewed(from, target, step)
<1>1. /\ from \in Int /\ from <= Top /\ -Top <= from
      /\ target \in Int /\ target <= Top /\ -Top <= target
      /\ step \in Nat /\ step <= Largest /\ Top \in Nat /\ Largest \in Nat
  BY CycleConstants DEF Volts
<1>2. /\ to \in Int /\ to <= Top /\ -Top <= to
      /\ from > 0 => to >= 0
      /\ from < 0 => to <= 0
  BY <1>1, Signs
<1>3. v = from + Clamp(to - from, step)
  BY DEF Slewed
<1> HIDE DEF to, v
<1>4. /\ v \in Int /\ v <= Top /\ -Top <= v
      /\ v - from <= step /\ -step <= v - from
      /\ from > 0 => v >= 0
      /\ from < 0 => v <= 0
  BY <1>1, <1>2, <1>3 DEF Clamp
<1>5. v * from >= 0
  <2>1. v * from \in Int /\ ~(v * from < 0)
    BY <1>1, <1>4, Signs
  <2> QED BY <2>1
<1>6. v \in Volts /\ v - from \in -Largest..Largest
  BY <1>1, <1>4 DEF Volts
<1> QED BY <1>5, <1>6 DEF v

\* What a transition leaves: a new epoch that is disabled, or the mode it was.
LEMMA TransitionTells ==
  ASSUME TypeOK, NEW m \in {"Disabled", "Test"}, NEW field \in BOOLEAN, TransitionTo(m, field)
  PROVE  /\ mode' \in [mode : {"Disabled", "Test"}, enabled : BOOLEAN, field : BOOLEAN, epoch : Nat]
         /\ boundary' \in Nat /\ mode'.mode = m
         /\ \/ mode' = mode /\ mode.mode = m
            \/ ~mode'.enabled /\ mode'.epoch = mode.epoch + 1
<1>1. /\ mode \in [mode : {"Disabled", "Test"}, enabled : BOOLEAN, field : BOOLEAN, epoch : Nat]
      /\ boundary \in Nat
  BY DEF TypeOK
<1>2. CASE mode.mode = m /\ mode.field = field
  BY <1>1, <1>2 DEF TransitionTo
<1>3. CASE ~(mode.mode = m /\ mode.field = field)
  <2>1. /\ mode' = [mode |-> m, enabled |-> FALSE, field |-> field, epoch |-> mode.epoch + 1]
        /\ boundary' = mode.epoch + 1
    BY <1>3 DEF TransitionTo
  <2>2. mode.epoch \in Nat /\ mode.epoch + 1 \in Nat
    BY <1>1
  <2> QED BY <2>1, <2>2
<1> QED BY <1>2, <1>3

-----------------------------------------------------------------------------
(* Each part of CycleInv, over each action.                                *)

\* What acknowledging the stop of this epoch leaves: the mode, enabled if it is Test.
LEMMA EnablingTells ==
  ASSUME TypeOK, Acknowledge
  PROVE  /\ mode' \in [mode : {"Disabled", "Test"}, enabled : BOOLEAN, field : BOOLEAN, epoch : Nat]
         /\ boundary' \in Nat
         /\ mode'.mode = mode.mode /\ mode'.field = mode.field /\ mode'.epoch = mode.epoch
         /\ mode'.enabled = mode.enabled \/ (mode'.enabled <=> mode.mode = "Test")
<1>1. /\ mode \in [mode : {"Disabled", "Test"}, enabled : BOOLEAN, field : BOOLEAN, epoch : Nat]
      /\ boundary \in Nat
  BY DEF TypeOK
<1>2. CASE boundary # mode.epoch
  BY <1>1, <1>2 DEF Acknowledge
<1>3. CASE boundary = mode.epoch
  <2> DEFINE e == mode.mode = "Test"
  <2>1. mode' = [mode EXCEPT !.enabled = e] /\ boundary' = 0 /\ e \in BOOLEAN
    BY <1>3 DEF Acknowledge
  <2>2. mode'.enabled = e
    BY <1>1, <2>1
  <2> HIDE DEF e
  <2>3. /\ mode' \in [mode : {"Disabled", "Test"}, enabled : BOOLEAN, field : BOOLEAN, epoch : Nat]
        /\ mode'.mode = mode.mode /\ mode'.field = mode.field /\ mode'.epoch = mode.epoch
    BY <1>1, <2>1
  <2> QED BY <2>1, <2>2, <2>3 DEF e
<1> QED BY <1>2, <1>3

LEMMA CycleTypes == TypeOK /\ [Next]_vars => TypeOK'
<1> SUFFICES ASSUME TypeOK, [Next]_vars PROVE TypeOK'
  OBVIOUS
<1> USE DEF TypeOK, leaseVars, buttonVars, mapperVars, gateVars
<1>1. CASE Begin
  <2>1. /\ mode' \in [mode : {"Disabled", "Test"}, enabled : BOOLEAN, field : BOOLEAN, epoch : Nat]
        /\ boundary' \in Nat
    <3>1. PICK disabled \in BOOLEAN, field \in BOOLEAN :
             TransitionTo(IF disabled \/ field THEN "Disabled" ELSE "Test", field)
      BY <1>1 DEF Begin
    <3>2. (IF disabled \/ field THEN "Disabled" ELSE "Test") \in {"Disabled", "Test"}
      OBVIOUS
    <3> QED BY <3>1, <3>2, TransitionTells
  <2>2. PICK c \in Controllers :
          /\ controller' = c
          /\ armed' = (ControllerReady(c) /\ (armed \/ ~c.left))
          /\ buttonDown' = (ControllerReady(c) /\ c.left)
          /\ received' = Pressed(c)
          /\ IF Pressed(c) THEN mapEpoch' = mode'.epoch /\ pending' = TRUE
             ELSE UNCHANGED mapperVars
    BY <1>1 DEF Begin
  <2>3. /\ c.connected \in BOOLEAN /\ c.api_ok \in BOOLEAN /\ c.left \in BOOLEAN
    BY DEF Controllers
  <2>4. armed' \in BOOLEAN /\ buttonDown' \in BOOLEAN /\ received' \in BOOLEAN
    BY <2>2, <2>3 DEF ControllerReady, Pressed
  <2>5. mapEpoch' \in Nat /\ pending' \in BOOLEAN
    BY <2>1, <2>2
  <2>6. lift' \in [volts : {-1, 0, 1}, input : LiftInputs]
    BY <1>1 DEF Begin
  <2>7. request' \in Requests /\ consumed' \in BOOLEAN /\ pc' = "schedule" /\ previous' = controller
    BY <1>1 DEF Begin, Requests
  <2>8. UNCHANGED <<leaseVars, gateVars, frame>>
    BY <1>1 DEF Begin
  <2> QED BY <2>1, <2>2, <2>4, <2>5, <2>6, <2>7, <2>8
<1>2. CASE ScheduleLease
  <2>1. NoLease \in Leases /\ mode.epoch \in Nat
    BY DEF Leases
  <2>2. NextLease \in 1..(LeaseModulus - 1)
    <3>1. (generation + 1) % LeaseModulus \in 0..(LeaseModulus - 1) /\ generation + 1 \in 1..LeaseModulus
      BY CycleConstants
    <3>2. LeaseModulus % LeaseModulus = 0
      BY CycleConstants
    <3> QED BY <3>1, <3>2, CycleConstants DEF NextLease
  <2>3. [lease |-> NextLease, epoch |-> mode.epoch] \in Leases
    BY <2>1, <2>2 DEF Leases
  <2>4. slot' \in Leases /\ owner' \in Leases
    BY <1>2, <2>1, <2>3 DEF ScheduleLease, EndLease
  <2>5. generation' \in 0..(LeaseModulus - 1)
    BY <1>2, <2>2, CycleConstants DEF ScheduleLease
  <2>6. epoch' \in Nat /\ pc' \in {"map", "initialize"}
    BY <1>2, <2>1 DEF ScheduleLease
  <2> QED BY <1>2, <2>4, <2>5, <2>6 DEF ScheduleLease
<1>3. CASE InitializeLease
  BY <1>3 DEF InitializeLease
<1>4. CASE Map
  <2>1. Mapped \subseteq Requests
    BY DEF Mapped, Requests
  <2>2. \A r \in Requests : Selected(Published(r)) \in Requests
    BY DEF Selected, Published, Requests
  <2>3. request' \in Requests /\ consumed' \in BOOLEAN
    BY <1>4, <2>1, <2>2 DEF Map
  <2>4. mapEpoch' \in Nat /\ pending' \in BOOLEAN /\ pc' = "gate"
    BY <1>4 DEF Map
  <2> QED BY <1>4, <2>3, <2>4 DEF Map
<1>5. CASE Gate
  <2>1. slewed' \in [Wheel -> Volts] /\ slewEpoch' \in Nat
    <3>1. 0 \in Volts /\ NoVolts \in [Wheel -> Volts]
      BY CycleConstants DEF Volts, NoVolts
    <3>2. CASE ~mode.enabled \/ request.kind # "drive"
      BY <1>5, <3>1, <3>2 DEF Gate, ResetForStop
    <3>3. CASE mode.enabled /\ request.kind = "drive"
      <4>1. PICK step \in Steps :
              /\ slewed' = [w \in Wheel |->
                    Slewed(IF slewEpoch = mode.epoch THEN slewed[w] ELSE 0, request.volts[w], step)]
              /\ slewEpoch' = mode.epoch
        BY <1>5, <3>3 DEF Gate
      <4>2. request.volts \in [Wheel -> Volts]
        BY <3>3 DEF Requests, Targets, NoRequest, Coast
      <4>3. \A w \in Wheel :
              Slewed(IF slewEpoch = mode.epoch THEN slewed[w] ELSE 0, request.volts[w], step) \in Volts
        BY <3>1, <4>2, SlewStays
      <4> QED BY <4>1, <4>3
    <3> QED BY <3>2, <3>3
  <2> QED BY <1>5, <2>1 DEF Gate
<1>6. CASE Publish
  <2>1. LiftVolts(lift.input) \in {-1, 0, 1}
    BY CycleAssumption DEF LiftVolts, LiftInput
  <2>2. lift' \in [volts : {-1, 0, 1}, input : LiftInputs]
    BY <1>6, <2>1 DEF Publish
  <2>3. NoVolts \in [Wheel -> Volts] /\ NoLease \in Leases /\ mode.epoch \in Nat
    BY CycleConstants DEF Volts, NoVolts, Leases
  <2>4. frame' \in [epoch : Nat, volts : [Wheel -> Volts], lease : Leases]
    BY <1>6, <2>3 DEF Publish
  <2> QED BY <1>6, <2>2, <2>4 DEF Publish
<1>7. CASE Acknowledge
  <2>1. /\ mode' \in [mode : {"Disabled", "Test"}, enabled : BOOLEAN, field : BOOLEAN, epoch : Nat]
        /\ boundary' \in Nat
    BY <1>7, EnablingTells DEF Acknowledge
  <2> QED BY <1>7, <2>1 DEF Acknowledge
<1>8. CASE Kill
  <2>1. /\ mode' \in [mode : {"Disabled", "Test"}, enabled : BOOLEAN, field : BOOLEAN, epoch : Nat]
        /\ boundary' \in Nat
    BY <1>8, TransitionTells DEF Kill
  <2> QED BY <1>8, <2>1 DEF Kill
<1>9. CASE UNCHANGED vars
  BY <1>9 DEF vars
<1> QED BY <1>1, <1>2, <1>3, <1>4, <1>5, <1>6, <1>7, <1>8, <1>9 DEF Next

\* Through deletions and new epochs the command has the slot's lease, or none.
LEMMA LeaseKeeps == CycleInv /\ [Next]_vars => LeaseInv'
<1> SUFFICES ASSUME CycleInv, [Next]_vars PROVE LeaseInv'
  OBVIOUS
<1> USE DEF LeaseInv, LeaseKept, DriveNeedsLease, LeaseAgrees, Requested
<1>0. /\ mode \in [mode : {"Disabled", "Test"}, enabled : BOOLEAN, field : BOOLEAN, epoch : Nat]
      /\ slot \in Leases /\ slot.epoch \in Nat /\ NoLease.epoch = 0
      /\ pc \in {"idle", "schedule", "initialize", "map", "gate", "lift", "acknowledge"}
      /\ LeaseInv /\ FrameInv
  BY DEF CycleInv, TypeOK, Leases, NoLease
<1>1. CASE Begin
  <2>1. mode'.epoch \in Nat /\ mode'.epoch >= mode.epoch
    BY <1>0, <1>1, TransitionTells DEF Begin, CycleInv
  <2> QED BY <1>0, <1>1, <2>1 DEF Begin, leaseVars
<1>2. CASE ScheduleLease
  <2>1. UNCHANGED <<mode, controller, request, frame>> /\ (Permitted' <=> Permitted)
    BY <1>2 DEF ScheduleLease, Permitted
  <2>2. CASE ~Permitted
    <3>1. slot' = NoLease /\ owner' = NoLease /\ pc' = "map"
      BY <1>0, <1>2, <2>2 DEF ScheduleLease, EndLease
    <3> QED BY <1>0, <2>1, <2>2, <3>1
  <2>3. CASE /\ Permitted /\ slot # NoLease /\ epoch \in {0, mode.epoch}
             /\ mode.enabled /\ mode.mode = "Test" /\ slot.epoch = mode.epoch
    <3>1. slot' = slot /\ owner' = owner /\ pc' = "map" /\ owner = slot
      BY <1>0, <1>2, <2>3 DEF ScheduleLease
    <3> QED BY <1>0, <2>1, <2>3, <3>1
  <2>4. CASE /\ Permitted
             /\ ~(/\ slot # NoLease /\ epoch \in {0, mode.epoch}
                  /\ mode.enabled /\ mode.mode = "Test" /\ slot.epoch = mode.epoch)
    <3>1. /\ slot' = [lease |-> NextLease, epoch |-> mode.epoch]
          /\ owner' = (IF slot # NoLease THEN NoLease ELSE owner) /\ pc' = "initialize"
      BY <1>2, <2>4 DEF ScheduleLease
    <3>2. owner' = NoLease
      BY <1>0, <1>2, <3>1 DEF ScheduleLease
    <3>3. NextLease # 0
      BY CycleConstants DEF NextLease, CycleInv, TypeOK
    <3>4. slot'.epoch = mode.epoch /\ slot' # NoLease
      BY <3>1, <3>3 DEF NoLease
    <3> QED BY <1>0, <2>1, <2>4, <3>1, <3>2, <3>4
  <2> QED BY <2>2, <2>3, <2>4
<1>3. CASE InitializeLease
  BY <1>0, <1>3 DEF InitializeLease, Permitted
<1>4. CASE Map
  <2>1. /\ UNCHANGED <<mode, controller, slot, owner, frame>> /\ (Permitted' <=> Permitted)
        /\ pc' = "gate" /\ slot = owner
    BY <1>0, <1>4 DEF Map, Permitted, leaseVars
  <2>2. request'.kind = "drive" => Permitted /\ slot.epoch = mode.epoch /\ slot # NoLease
    <3>1. PICK mapped \in Mapped : request' = Selected(Published(mapped))
      BY <1>4 DEF Map
    <3>2. ~(Permitted /\ owner # NoLease /\ owner.epoch = mode.epoch) => mapped = NoRequest
      BY <3>1 DEF Mapped
    <3>3. NoRequest.kind # "drive"
      BY DEF NoRequest
    <3> QED BY <2>1, <3>1, <3>2, <3>3 DEF Selected, Published
  <2> QED BY <1>0, <1>4, <2>1, <2>2 DEF Map
<1>5. CASE Gate
  BY <1>0, <1>5 DEF Gate, Permitted, leaseVars
<1>6. CASE Publish
  <2>1. /\ UNCHANGED <<mode, controller, slot, owner, request>> /\ (Permitted' <=> Permitted)
        /\ pc = "lift" /\ pc' = "acknowledge"
    BY <1>6 DEF Publish, Permitted, leaseVars
  <2>2. CASE mode.enabled /\ request.kind = "drive"
    <3>1. frame'.epoch = mode.epoch /\ frame'.lease = slot
      BY <1>6, <2>2 DEF Publish
    <3> QED BY <1>0, <2>1, <2>2, <3>1 DEF Permitted, ControllerReady
  <2>3. CASE ~(mode.enabled /\ request.kind = "drive")
    <3>1. frame'.volts = NoVolts
      BY <1>6, <2>3 DEF Publish
    <3> QED BY <1>0, <2>1, <3>1
  <2> QED BY <2>2, <2>3
<1>7. CASE Acknowledge
  <2>1. mode'.epoch = mode.epoch
    BY <1>7, EnablingTells DEF CycleInv
  <2> QED BY <1>0, <1>7, <2>1 DEF Acknowledge, leaseVars
<1>8. CASE Kill
  <2>1. /\ mode'.epoch \in Nat
        /\ \/ mode' = mode /\ mode.mode = "Disabled"
           \/ mode'.epoch = mode.epoch + 1
    BY <1>8, TransitionTells DEF Kill, CycleInv
  <2>2. pc' = "idle" /\ slot' = slot /\ owner' = owner /\ request' = request
    BY <1>8 DEF Kill, leaseVars
  <2>3. pc = "initialize" => mode.mode = "Test"
    BY <1>0 DEF Permitted
  <2> QED BY <1>0, <2>1, <2>2, <2>3
<1>9. CASE UNCHANGED vars
  BY <1>0, <1>9 DEF vars, leaseVars, Permitted
<1> QED BY <1>1, <1>2, <1>3, <1>4, <1>5, <1>6, <1>7, <1>8, <1>9 DEF Next

LEMMA FrameKeeps == CycleInv /\ [Next]_vars => FrameInv'
<1> SUFFICES ASSUME CycleInv, [Next]_vars, pc' = "acknowledge"
             PROVE  /\ frame'.volts # NoVolts =>
                          /\ request'.kind = "drive" /\ frame'.epoch = mode'.epoch
                          /\ frame'.lease = slot'
                    /\ ~mode'.enabled => frame'.volts = NoVolts
  BY DEF FrameInv
<1>1. CASE Publish
  <2>1. UNCHANGED <<mode, slot, request>>
    BY <1>1 DEF Publish, leaseVars
  <2>2. CASE mode.enabled /\ request.kind = "drive"
    <3>1. frame'.epoch = mode.epoch /\ frame'.lease = slot
      BY <1>1, <2>2 DEF Publish
    <3> QED BY <2>1, <2>2, <3>1
  <2>3. CASE ~(mode.enabled /\ request.kind = "drive")
    <3>1. frame'.volts = NoVolts
      BY <1>1, <2>3 DEF Publish
    <3> QED BY <3>1
  <2> QED BY <2>2, <2>3
<1>2. CASE UNCHANGED vars
  BY <1>2 DEF vars, leaseVars, CycleInv, FrameInv
<1>3. ~(Begin \/ ScheduleLease \/ InitializeLease \/ Map \/ Gate \/ Acknowledge \/ Kill)
  BY DEF Begin, ScheduleLease, InitializeLease, Map, Gate, Acknowledge, Kill
<1> QED BY <1>1, <1>2, <1>3 DEF Next

\* The slew starts from the last frame, or from a stop that was the last frame.
LEMMA SlewKeeps == CycleInv /\ [Next]_vars => SlewInv'
<1> SUFFICES ASSUME CycleInv, [Next]_vars PROVE SlewInv'
  OBVIOUS
<1>0. /\ mode \in [mode : {"Disabled", "Test"}, enabled : BOOLEAN, field : BOOLEAN, epoch : Nat]
      /\ mode.epoch \in Nat /\ mode.enabled \in BOOLEAN /\ slewEpoch \in Nat
      /\ slewed \in [Wheel -> Volts]
      /\ SlewInv /\ FrameInv
  BY DEF CycleInv, TypeOK
\* A transition leaves a mode that is disabled in a later epoch, or the mode it was.
<1>1. ASSUME UNCHANGED <<slewed, slewEpoch, frame, request>>, pc' # "lift",
             \/ mode' = mode /\ (pc # "lift" \/ mode.mode = "Disabled")
             \/ ~mode'.enabled /\ mode'.epoch = mode.epoch + 1
      PROVE  SlewInv'
  BY <1>0, <1>1 DEF SlewInv
<1>2. CASE Begin
  <2>1. PICK disabled \in BOOLEAN, field \in BOOLEAN :
           TransitionTo(IF disabled \/ field THEN "Disabled" ELSE "Test", field)
    BY <1>2 DEF Begin
  <2>2. (IF disabled \/ field THEN "Disabled" ELSE "Test") \in {"Disabled", "Test"}
    OBVIOUS
  <2>3. mode' = mode \/ (~mode'.enabled /\ mode'.epoch = mode.epoch + 1)
    BY <2>1, <2>2, TransitionTells DEF CycleInv
  <2>4. UNCHANGED <<slewed, slewEpoch, frame>> /\ pc = "idle" /\ pc' = "schedule"
    BY <1>2 DEF Begin, gateVars
  <2> QED BY <1>0, <2>3, <2>4 DEF SlewInv
<1>3. CASE ScheduleLease
  <2>1. UNCHANGED <<slewed, slewEpoch, frame, request, mode>> /\ pc = "schedule" /\ pc' # "lift"
    BY <1>3 DEF ScheduleLease, gateVars
  <2> QED BY <1>1, <2>1
<1>4. CASE InitializeLease
  <2>1. UNCHANGED <<slewed, slewEpoch, frame, request, mode>> /\ pc = "initialize" /\ pc' # "lift"
    BY <1>4 DEF InitializeLease, gateVars
  <2> QED BY <1>1, <2>1
<1>5. CASE Map
  <2>1. UNCHANGED <<slewed, slewEpoch, frame, mode>> /\ pc = "map" /\ pc' = "gate"
    BY <1>5 DEF Map, gateVars
  <2> QED BY <1>0, <2>1 DEF SlewInv
<1>6. CASE Gate
  <2>1. UNCHANGED <<mode, frame, request>> /\ pc = "gate" /\ pc' = "lift"
    BY <1>6 DEF Gate
  <2>2. CASE ~mode.enabled \/ request.kind # "drive"
    <3>1. slewEpoch' = 0
      BY <1>6, <2>2 DEF Gate, ResetForStop
    <3> QED BY <1>0, <2>1, <2>2, <3>1 DEF SlewInv
  <2>3. CASE mode.enabled /\ request.kind = "drive"
    <3>1. PICK step \in Steps :
            /\ slewed' = [w \in Wheel |->
                  Slewed(IF slewEpoch = mode.epoch THEN slewed[w] ELSE 0, request.volts[w], step)]
            /\ slewEpoch' = mode.epoch
      BY <1>6, <2>3 DEF Gate
    <3>2. request.volts \in [Wheel -> Volts]
      BY <2>3 DEF CycleInv, TypeOK, Requests, Targets, NoRequest, Coast
    <3>3. frame.volts = IF slewEpoch = mode.epoch THEN slewed ELSE NoVolts
      BY <1>0, <2>1, <2>3 DEF SlewInv
    <3>4. ASSUME NEW w \in Wheel
          PROVE  /\ slewed'[w] - frame.volts[w] \in -Largest..Largest
                 /\ slewed'[w] * frame.volts[w] >= 0
      <4>1. frame.volts[w] = (IF slewEpoch = mode.epoch THEN slewed[w] ELSE 0)
        BY <3>3 DEF NoVolts
      <4>2. frame.volts[w] \in Volts /\ request.volts[w] \in Volts
        BY <1>0, <3>2, <4>1, CycleConstants DEF Volts
      <4>3. slewed'[w] = Slewed(frame.volts[w], request.volts[w], step)
        BY <3>1, <4>1
      <4> QED BY <4>2, <4>3, SlewStays
    <3> QED BY <1>0, <2>1, <2>3, <3>1, <3>4 DEF SlewInv
  <2> QED BY <2>2, <2>3
<1>7. CASE Publish
  <2>1. UNCHANGED <<slewed, slewEpoch, mode, request>> /\ pc = "lift" /\ pc' = "acknowledge"
    BY <1>7 DEF Publish, gateVars
  <2>2. frame'.volts = IF mode.enabled /\ request.kind = "drive" THEN slewed ELSE NoVolts
    BY <1>7 DEF Publish
  <2> QED BY <1>0, <2>1, <2>2 DEF SlewInv
<1>8. CASE Acknowledge
  <2>1. /\ mode'.mode = mode.mode /\ mode'.epoch = mode.epoch
        /\ mode'.enabled = mode.enabled \/ (mode'.enabled <=> mode.mode = "Test")
    BY <1>8, EnablingTells DEF CycleInv
  <2>2. UNCHANGED <<slewed, slewEpoch, frame, request>> /\ pc = "acknowledge" /\ pc' = "idle"
    BY <1>8 DEF Acknowledge, gateVars
  <2>3. CASE mode'.enabled = mode.enabled
    BY <1>0, <2>1, <2>2, <2>3 DEF SlewInv
  <2>4. CASE (mode'.enabled <=> mode.mode = "Test")
    BY <1>0, <2>1, <2>2, <2>4 DEF SlewInv, FrameInv
  <2> QED BY <2>1, <2>3, <2>4
<1>9. CASE Kill
  <2>1. (mode' = mode /\ mode.mode = "Disabled") \/ (~mode'.enabled /\ mode'.epoch = mode.epoch + 1)
    BY <1>9, TransitionTells DEF Kill, CycleInv
  <2>2. UNCHANGED <<slewed, slewEpoch, frame, request>> /\ pc' # "lift"
    BY <1>9 DEF Kill, gateVars
  <2> QED BY <1>1, <2>1, <2>2
<1>10. CASE UNCHANGED vars
  BY <1>0, <1>10 DEF vars, gateVars, SlewInv
<1> QED BY <1>2, <1>3, <1>4, <1>5, <1>6, <1>7, <1>8, <1>9, <1>10 DEF Next

\* A press is answered in its tick, or its epoch never drives.
LEMMA ButtonKeeps == CycleInv /\ [Next]_vars => ButtonInv'
<1> SUFFICES ASSUME CycleInv, [Next]_vars PROVE ButtonInv'
  OBVIOUS
<1> USE DEF ButtonInv, CoastOncePerPress, ControllerReady, Requested
<1>0. /\ pc \in {"idle", "schedule", "initialize", "map", "gate", "lift", "acknowledge"}
      /\ armed \in BOOLEAN /\ buttonDown \in BOOLEAN /\ received \in BOOLEAN
      /\ pending \in BOOLEAN /\ consumed \in BOOLEAN
      /\ controller.connected \in BOOLEAN /\ controller.api_ok \in BOOLEAN
      /\ controller.left \in BOOLEAN
      /\ ButtonInv
  BY DEF CycleInv, TypeOK, Controllers
<1>1. CASE Begin
  <2>1. PICK c \in Controllers :
          /\ controller' = c
          /\ armed' = (ControllerReady(c) /\ (armed \/ ~c.left))
          /\ buttonDown' = (ControllerReady(c) /\ c.left)
          /\ received' = Pressed(c)
          /\ IF Pressed(c) THEN mapEpoch' = mode'.epoch /\ pending' = TRUE
             ELSE UNCHANGED mapperVars
    BY <1>1 DEF Begin
  <2>2. c.connected \in BOOLEAN /\ c.api_ok \in BOOLEAN /\ c.left \in BOOLEAN
    BY DEF Controllers
  <2>3. pc' = "schedule" /\ previous' = controller
    BY <1>1 DEF Begin
  <2> QED BY <1>0, <2>1, <2>2, <2>3 DEF Pressed
<1>2. CASE ScheduleLease
  <2>1. /\ pc = "schedule" /\ pc' \in {"map", "initialize"}
        /\ UNCHANGED <<mode, controller, previous, armed, buttonDown, mapEpoch, pending, received, consumed, request>>
    BY <1>2 DEF ScheduleLease, buttonVars, mapperVars
  <2> QED BY <1>0, <2>1
<1>3. CASE InitializeLease
  <2>1. /\ pc = "initialize" /\ pc' = "map"
        /\ UNCHANGED <<mode, controller, previous, armed, buttonDown, mapEpoch, pending, received, consumed, request>>
    BY <1>3 DEF InitializeLease, buttonVars, mapperVars
  <2> QED BY <1>0, <2>1
<1>4. CASE Map
  <2>1. /\ UNCHANGED <<mode, controller, previous, armed, buttonDown, received>>
        /\ pc = "map" /\ pc' = "gate" /\ pending' = FALSE /\ slot = owner
    BY <1>4 DEF Map, buttonVars, CycleInv, LeaseInv, LeaseKept, LeaseAgrees
  <2>2. PICK mapped \in Mapped :
          /\ request' = Selected(Published(mapped))
          /\ consumed' = (received /\ mapped = Coast)
    BY <1>4 DEF Map
  <2>3. Coast.kind = "coast" /\ NoRequest.kind = "none"
    BY DEF Coast, NoRequest
  <2>4. request' \in {mapped, NoRequest}
    BY <2>2 DEF Selected, Published
  <2>5. received => mapped \in {Coast, NoRequest}
    <3>1. received => pending /\ mapEpoch = mode.epoch
      BY <1>0, <2>1
    <3> QED BY <2>2, <3>1 DEF Mapped
  <2>6. mapped = Coast => request' = Coast
    <3>1. mapped = Coast => Permitted /\ owner.epoch = mode.epoch
      BY <2>2, <2>3 DEF Mapped
    <3> QED BY <2>1, <2>2, <3>1 DEF Permitted, Selected, Published
  <2>7. /\ received => request'.kind # "drive"
        /\ consumed' <=> received /\ request' = Coast
    BY <2>2, <2>3, <2>4, <2>5, <2>6
  <2>8. received <=> /\ controller.connected /\ controller.api_ok /\ controller.left
                     /\ previous.connected /\ previous.api_ok /\ ~previous.left
    BY <1>0, <2>1
  <2> QED BY <1>0, <2>1, <2>7, <2>8
<1>5. CASE Gate
  <2>1. /\ pc = "gate" /\ pc' = "lift"
        /\ UNCHANGED <<mode, controller, previous, armed, buttonDown, mapEpoch, pending, received, consumed, request>>
    BY <1>5 DEF Gate, buttonVars, mapperVars
  <2> QED BY <1>0, <2>1
<1>6. CASE Publish
  <2>1. /\ pc = "lift" /\ pc' = "acknowledge"
        /\ UNCHANGED <<mode, controller, previous, armed, buttonDown, mapEpoch, pending, received, consumed, request>>
    BY <1>6 DEF Publish, buttonVars, mapperVars
  <2> QED BY <1>0, <2>1
<1>7. CASE Acknowledge
  <2>1. /\ pc = "acknowledge" /\ pc' = "idle" /\ mode'.mode = mode.mode /\ mode'.epoch = mode.epoch
        /\ UNCHANGED <<controller, previous, armed, buttonDown, mapEpoch, pending, received, consumed, request>>
    BY <1>7, EnablingTells DEF Acknowledge, buttonVars, mapperVars, CycleInv
  <2> QED BY <1>0, <2>1
<1>8. CASE Kill
  <2>1. /\ pc' = "idle" /\ mode'.mode = "Disabled"
        /\ UNCHANGED <<controller, previous, armed, buttonDown, mapEpoch, pending, received, consumed, request>>
    BY <1>8, TransitionTells DEF Kill, buttonVars, mapperVars, CycleInv
  <2> QED BY <1>0, <2>1
<1>9. CASE UNCHANGED vars
  <2>1. UNCHANGED <<pc, mode, controller, previous, armed, buttonDown, mapEpoch, pending, received, consumed, request>>
    BY <1>9 DEF vars, buttonVars, mapperVars
  <2> QED BY <1>0, <2>1
<1> QED BY <1>1, <1>2, <1>3, <1>4, <1>5, <1>6, <1>7, <1>8, <1>9 DEF Next

-----------------------------------------------------------------------------
LEMMA CycleStarts == Init => CycleInv
<1> SUFFICES ASSUME Init PROVE CycleInv
  OBVIOUS
<1>1. NoVolts \in [Wheel -> Volts] /\ NoLease \in Leases /\ Quiet \in Controllers
  BY CycleConstants DEF Volts, NoVolts, Leases, NoLease, Quiet, Controllers
<1>2. (CHOOSE s \in LiftInputs : TRUE) \in LiftInputs
  BY CycleAssumption
<1>3. /\ mode.mode = "Disabled" /\ mode.enabled = FALSE /\ mode.epoch = 1 /\ pc = "idle"
      /\ mode \in [mode : {"Disabled", "Test"}, enabled : BOOLEAN, field : BOOLEAN, epoch : Nat]
  BY DEF Init
<1>4. TypeOK
  <2>1. /\ frame \in [epoch : Nat, volts : [Wheel -> Volts], lease : Leases]
        /\ lift \in [volts : {-1, 0, 1}, input : LiftInputs]
        /\ request \in Requests /\ generation \in 0..(LeaseModulus - 1)
    BY <1>1, <1>2, CycleConstants DEF Init, Requests
  <2> QED BY <1>1, <1>3, <2>1 DEF Init, TypeOK
<1>5. LeaseInv
  BY <1>3 DEF Init, LeaseInv, NoLease, LeaseKept, DriveNeedsLease, LeaseAgrees, Requested
<1>6. FrameInv
  BY <1>3 DEF FrameInv
<1>7. SlewInv
  BY <1>3 DEF SlewInv, Init
<1>8. ButtonInv
  BY <1>3 DEF ButtonInv, Init, CoastOncePerPress, ControllerReady, Requested, Quiet
<1> QED BY <1>4, <1>5, <1>6, <1>7, <1>8 DEF CycleInv

LEMMA CycleInvariant == Spec => []CycleInv
<1>1. CycleInv /\ [Next]_vars => CycleInv'
  BY CycleTypes, LeaseKeeps, FrameKeeps, SlewKeeps, ButtonKeeps DEF CycleInv
<1> QED BY CycleStarts, <1>1, PTL DEF Spec

\* The state of the tick, of the lease, of the button and of the gate stays within its types.
THEOREM CycleTypeCorrect == Spec => []TypeOK
<1>1. CycleInv => TypeOK
  BY DEF CycleInv
<1> QED BY CycleInvariant, <1>1, PTL

\* Nothing moves without the lease of its epoch, and at the end of a tick the scheduler
\* and the command agree on it, wherever the task was deleted before.
THEOREM LeaseIsKept == Spec => []LeaseKept
<1>1. CycleInv => LeaseKept
  BY DEF CycleInv, LeaseInv
<1> QED BY CycleInvariant, <1>1, PTL

\* The button coasts the tick in which it is seen to go down, and no later one.
THEOREM PressCoastsOnce == Spec => []CoastOncePerPress
<1>1. CycleInv => CoastOncePerPress
  BY DEF CycleInv, ButtonInv
<1> QED BY CycleInvariant, <1>1, PTL

\* From frame to frame a wheel stops, or moves by a step and not across zero.
THEOREM FramesAreSlewed == Spec => SlewBounded
<1>1. CycleInv /\ [Next]_vars =>
        [\A w \in Wheel :
            \/ frame'.volts[w] = 0
            \/ /\ frame'.volts[w] - frame.volts[w] \in -Largest..Largest
               /\ frame'.volts[w] * frame.volts[w] >= 0]_frame
  <2> SUFFICES ASSUME CycleInv, [Next]_vars, frame' # frame, NEW w \in Wheel
               PROVE  \/ frame'.volts[w] = 0
                      \/ /\ frame'.volts[w] - frame.volts[w] \in -Largest..Largest
                         /\ frame'.volts[w] * frame.volts[w] >= 0
    OBVIOUS
  <2>1. Publish
    BY DEF Next, vars, Begin, ScheduleLease, InitializeLease, Map, Gate, Acknowledge, Kill
  <2>2. frame'.volts = IF mode.enabled /\ request.kind = "drive" THEN slewed ELSE NoVolts
    BY <2>1 DEF Publish
  <2>3. pc = "lift"
    BY <2>1 DEF Publish
  <2> QED BY <2>2, <2>3 DEF NoVolts, CycleInv, SlewInv
<1> QED BY CycleInvariant, <1>1, PTL DEF Spec, SlewBounded
=============================================================================
