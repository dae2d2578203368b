-------------------------- MODULE AutonomousMotion --------------------------
(***************************************************************************)
(* The motion primitives under the scheduler: what CommandScheduler leaves *)
(* open, how an execute() of a leaf comes out, is decided here for the     *)
(* leaves that drive, by their MotionTerminationMonitor and by whether the *)
(* frame's DriveRequestSink still takes a request.                         *)
(*                                                                         *)
(* A frame is beginFrame, then any calls of schedule() and cancel() around *)
(* one tick(), then the arbiter's select().  Time is counted in frames;    *)
(* the context's header is the frame's.  A reading is what a call finds in *)
(* the robot state: whether validContext and calculate() accept it, and    *)
(* whether the robot is in the error and velocity bands, or stalled.       *)
(*                                                                         *)
(* A command has braked in this frame (last_brake_sequence_) exactly if    *)
(* the sink holds a Brake under its lease.                                 *)
(***************************************************************************)
EXTENDS CommandScheduler

CONSTANTS
    Motion,      \* leaves that are AutonomousMotionCommandBase
    Halting,     \* those of them that are BrakeCommand
    DoNothing,   \* leaves that are DoNothingCommand
    MotionTop,   \* the commands scheduled here
    Timeout, Settle, Stall    \* MotionTerminationConfig, in frames

ASSUME MotionAssumption ==
    /\ Motion \cup DoNothing \subseteq Leaf /\ Motion \cap DoNothing = {}
    /\ Halting \subseteq Motion /\ MotionTop \subseteq Top
    /\ \A l \in Motion \cup DoNothing :
          "drivetrain" \in Requires[l] /\ AllowedIn[l] = {"AutonomousInterface"}
    /\ {Timeout, Settle, Stall} \subseteq Nat \ {0}

VARIABLES
    frame,     \* DriveRequestSink::header_, and how far the frame has got
    sink,      \* ... request_ while published_
    selected,  \* the arbiter's answer for the frame
    motion     \* of each motion: initialized_ and its termination monitor

motionOnly == <<frame, sink, selected, motion>>
motionVars == <<schedulerVars, motionOnly>>
callVars   == <<slots, generation, epoch, groupVars>>

Reading   == [usable : BOOLEAN, inBand : BOOLEAN, stalled : BOOLEAN]
NoRequest == [payload |-> "None", owner |-> NoOwner]
Idle      == [initialized |-> FALSE, elapsed |-> 0, settling |-> 0, stalling |-> 0]

\* settling and stalling count the frames since their timing began, from 1; 0
\* is not timing.  Counts stop where they decide.
UpTo(bound, n) == IF n > bound THEN bound ELSE n
Aged(m) == [m EXCEPT !.elapsed  = UpTo(Timeout, @ + 1),
                     !.settling = IF @ = 0 THEN 0 ELSE UpTo(Settle + 1, @ + 1),
                     !.stalling = IF @ = 0 THEN 0 ELSE UpTo(Stall + 1, @ + 1)]

MotionInit ==
    /\ SchedulerInit
    /\ frame = [step |-> "selected", epoch |-> 1]
    /\ sink = NoRequest /\ selected = NoRequest
    /\ motion = [l \in Motion |-> Idle]

BeginFrame ==
    /\ frame.step = "selected"
    /\ frame' = [step |-> "begun", epoch |-> mode.epoch]
    /\ sink' = NoRequest /\ selected' = NoRequest
    /\ motion' = [l \in Motion |-> IF motion[l].initialized THEN Aged(motion[l]) ELSE motion[l]]
    /\ ran' = {}
    /\ UNCHANGED <<mode, callVars>>

-----------------------------------------------------------------------------
(* A motion's execute().                                                   *)

TimedOut(l) == motion[l].elapsed >= Timeout

Stalled(l, reading) == reading.stalled /\ motion[l].stalling > Stall
Settled(l, reading) == reading.inBand /\ motion[l].settling > Settle

\* What execute() answers: first the state, then the monitor, then the sink.
Answer(l, reading) ==
    IF l \in DoNothing THEN (IF sink = NoRequest THEN "Running" ELSE "Failed")
    ELSE IF ~motion[l].initialized \/ ~reading.usable \/ TimedOut(l) \/ Stalled(l, reading)
    THEN "Failed"
    ELSE IF Settled(l, reading) THEN "Finished"
    ELSE IF sink = NoRequest THEN "Running" ELSE "Failed"

Timing(on, count) == IF ~on THEN 0 ELSE IF count = 0 THEN 1 ELSE count

\* Fault: the time-out starts again when the robot leaves the error band.
Executed_Restarts(m, reading) ==
    [m EXCEPT !.elapsed  = IF m.settling > 0 /\ ~reading.inBand THEN 0 ELSE @,
              !.settling = Timing(reading.inBand, @), !.stalling = Timing(reading.stalled, @)]
Executed(m, reading) == [m EXCEPT !.settling = Timing(reading.inBand, @),
                                  !.stalling = Timing(reading.stalled, @)]

\* What a call does to the motions: initialize(), execute() and end().
MotionsAfter(reading) ==
    motion' = [l \in Motion |->
        IF live'[l] = 0 THEN Idle
        ELSE IF live[l] = 0 THEN [Idle EXCEPT !.initialized = reading.usable]
        ELSE IF l \in ran' THEN Executed(motion[l], reading) ELSE motion[l]]

-----------------------------------------------------------------------------
(* The sink takes one request in a frame: a later one is refused.          *)

OwnerOf(l) == slots[CHOOSE i \in Active : l \in LeavesOf[Owner(i)]]
Request(l, payload) == [payload |-> payload, owner |-> OwnerOf(l)]
Payload(l) == IF l \in Motion \ Halting THEN "Velocity" ELSE "Brake"

\* Every end of a motion asks for a Brake; of the leaves in driving, which
\* execute() has left running, the request comes before that.
Publish(driving) ==
    LET ended == {l \in Motion : live[l] = 1 /\ live'[l] = 0}
        first == CHOOSE l \in driving : TRUE
        last  == CHOOSE l \in ended : TRUE
    IN sink' = IF sink # NoRequest THEN sink
               ELSE IF driving # {} THEN Request(first, Payload(first))
               ELSE IF ended # {} THEN Request(last, "Brake") ELSE sink

\* tick(): every other leaf answers as it likes.
MotionTick ==
    /\ frame.step = "begun"
    /\ \E reading \in Reading, outcome \in [Running -> Outcomes] :
        /\ \A l \in Running : outcome[l] = "TimedOut" => l \in Timed
        /\ \A l \in Running \cap (Motion \cup DoNothing) :
              outcome[l] # "TimedOut" => outcome[l] = Answer(l, reading)
        /\ Tick(outcome)
        /\ Publish({l \in ran' \cap (Motion \cup DoNothing) : outcome[l] = "Running"})
        /\ MotionsAfter(reading)
    /\ frame' = [frame EXCEPT !.step = "ticked"]
    /\ UNCHANGED selected

\* schedule() and cancel() between beginFrame and select.
Calling == frame.step \in {"begun", "ticked"}

MotionSchedule(c, interrupt, usable) ==
    /\ Calling /\ frame.epoch = mode.epoch
    /\ Schedule(c, interrupt, 1)
    /\ Publish({}) /\ MotionsAfter([usable |-> usable])
    /\ UNCHANGED <<frame, selected>>

MotionCancel(c) ==
    /\ Calling
    /\ Cancel(c)
    /\ Publish({}) /\ MotionsAfter([usable |-> TRUE])
    /\ UNCHANGED <<frame, selected>>

-----------------------------------------------------------------------------
(* DriveRequestArbiter::select with the sink's request as the candidate.   *)

\* StaticScheduler::owns, and a fault: a lease is looked up by its command.
owns_Command(owner) == \E i \in Active : Owner(i) = owner.command
owns(owner) == \E i \in Active : slots[i] = owner

Valid(request) ==
    /\ request # NoRequest
    /\ mode.enabled /\ mode.mode = "AutonomousInterface"
    /\ frame.epoch = mode.epoch /\ request.owner.epoch = mode.epoch
    /\ owns(request.owner)

Select ==
    /\ frame.step = "ticked"
    /\ frame' = [frame EXCEPT !.step = "selected"]
    /\ selected' = IF Valid(sink) THEN sink ELSE NoRequest
    /\ ran' = {}
    /\ UNCHANGED <<mode, callVars, sink, motion>>

\* The mode may change between the frames, and before the arbiter looks at it.
MotionMode ==
    /\ frame.step \in {"ticked", "selected"}
    /\ (\E m \in {"Disabled", "AutonomousInterface"} : NewEpoch(m)) \/ Enable
    /\ UNCHANGED motionOnly

\* The control task goes through its frames.
MotionFrame == BeginFrame \/ MotionTick \/ Select

MotionNext ==
    \/ MotionFrame \/ MotionMode
    \/ \E c \in MotionTop, interrupt, usable \in BOOLEAN : MotionSchedule(c, interrupt, usable)
    \/ \E c \in MotionTop : MotionCancel(c)

MotionSpec == MotionInit /\ [][MotionNext]_motionVars /\ WF_motionVars(MotionFrame)

-----------------------------------------------------------------------------
(* Properties.                                                             *)

MotionTypeOK ==
    /\ frame \in [step : {"begun", "ticked", "selected"}, epoch : Nat]
    /\ \A request \in {sink, selected} :
          /\ request.payload \in {"None", "Velocity", "Brake"}
          /\ request.payload = "None" => request = NoRequest
    /\ motion \in [Motion -> [initialized : BOOLEAN, elapsed : 0..Timeout,
                              settling : 0..(Settle + 1), stalling : 0..(Stall + 1)]]

\* A velocity leaves the arbiter only for a motion that is still running: not
\* for one that its group, a cancel, an interruption or a mode boundary ended
\* after it had published in the same frame, though the sink still holds the
\* velocity and refused the Brake.
VelocityOfRunningMotion ==
    [][selected' # selected /\ selected'.payload = "Velocity" =>
          \E i \in Active : /\ slots[i] = selected'.owner
                            /\ \E l \in LeavesOf[Owner(i)] \cap Motion : live[l] = 1]_motionVars

\* A motion ends, by its time-out at the latest, whatever the robot does: in a
\* group too, and through any calls and mode changes.
EveryMotionEnds == \A l \in Motion : live[l] = 1 ~> live[l] = 0

\* What docs/MOTION_PRIMITIVES_OFFLINE.md:13 says: completion, time-out, stall,
\* cancel and mode boundary all publish a Brake.
BrakeOnEnd ==
    [][\A l \in Motion : live[l] = 1 /\ live'[l] = 0 => sink'.payload = "Brake"]_motionVars
=============================================================================
