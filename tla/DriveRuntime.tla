---------------------------- MODULE DriveRuntime ----------------------------
(***************************************************************************)
(* The runtime core of the robot program: ModeManager, the two mailboxes,  *)
(* ControlLoop, OutputTask with OutputService, and the competition task    *)
(* that the operating system deletes and restarts on every mode change.    *)
(*                                                                         *)
(* The competition task runs either ControlLoop::run (opcontrol) or        *)
(* RobotRuntime::forceDisabled (disabled, autonomous, initialize).  The    *)
(* output task has a higher priority and a period of one unit of time.     *)
(* A mailbox is a SnapshotBox: a value behind a mutex.  The writer's       *)
(* critical section is two steps (lock; store and unlock), because the     *)
(* competition task can be deleted between them; the output task is the    *)
(* highest-priority user of both boxes and cannot be deleted, so its       *)
(* critical sections are single steps.                                     *)
(*                                                                         *)
(* Voltages are abstracted to 0 (drive and lift both at rest) and 1.       *)
(***************************************************************************)
EXTENDS Naturals

CONSTANTS
    ControlPeriod,       \* control period, in output periods
    FrameTtl,            \* OutputServiceConfig::frame_ttl_us, same unit
    CommissioningMode,   \* ControlLoopConfig::commissioning_test_mode
    KillHoldingLock,     \* the task may be deleted inside a critical section
    DirectRestart,       \* opcontrol may be restarted with no callback between
    MaxLate,             \* how late the control loop may be
    RestartGap,          \* least time between two competition mode changes
    MaxTime, MaxKills    \* bounds of the model

ASSUME RuntimeAssumption ==
    /\ ControlPeriod \in Nat \ {0}
    /\ FrameTtl \in Nat
    /\ CommissioningMode \in BOOLEAN
    /\ KillHoldingLock \in BOOLEAN /\ DirectRestart \in BOOLEAN
    /\ MaxLate \in Nat /\ RestartGap \in Nat
    /\ MaxTime \in Nat /\ MaxKills \in Nat

VARIABLES
    now,        \* the clock
    mode,       \* ModeStore: the ModeSnapshot
    modeLock,   \* its mutex
    frame,      \* ActuatorStore: the ActuatorFrame
    frameLock,  \* its mutex
    pendingEnable, boundary,    \* ModeManager::pending_enable_, boundary_stop_epoch_
    sequence,   \* ControlLoop::sequence_
    task, pc,   \* what the competition task runs, and where it is
    request,    \* the mode and field bit this tick or callback asks for
    start,      \* the clock as this tick or callback read it
    wake,       \* wake_ms of ControlLoop::run
    outPc,      \* where the output task is in its current period
    outFrame,   \* its copy of the actuator frame
    lastEpoch, lastSequence,    \* OutputService::last_epoch_, last_sequence_
    motor,      \* the command the motors hold
    kills,      \* how many times the competition task was replaced
    restarted   \* when it was last started

managerVars == <<pendingEnable, boundary>>
boxVars     == <<mode, modeLock, frame, frameLock>>
taskVars    == <<sequence, task, pc, request, start, wake, kills, restarted>>
outVars     == <<outPc, outFrame, lastEpoch, lastSequence, motor>>
vars == <<now, boxVars, managerVars, taskVars, outVars>>

-----------------------------------------------------------------------------
Modes == {"Boot", "Disabled", "Driver", "AutonomousInterface", "Test"}
isEnabledMode(m) == m \in {"Driver", "AutonomousInterface", "Test"}

ModeSnapshot  == [mode : Modes, enabled : BOOLEAN, field : BOOLEAN, epoch : Nat, time : Nat]
ActuatorFrame == [initialized : BOOLEAN, epoch : Nat, sequence : Nat,
                  time : Nat, volts : {0, 1}]
LockStates == {"free", "held", "orphaned"}
Stopped == [volts |-> 0, epoch |-> 0, time |-> 0]

\* Fault: the competition status is mapped to a mode the program does not have.
Requested_NoMode(disabled, autonomous, field) ==
    IF disabled THEN "None" ELSE "Driver"

\* The mode ControlLoop::tickOnce asks for, from the competition status.
Requested(disabled, autonomous, field) ==
    IF disabled \/ (CommissioningMode /\ field) THEN "Disabled"
    ELSE IF CommissioningMode THEN "Test"
    ELSE IF autonomous THEN "AutonomousInterface" ELSE "Driver"

\* What a step of the competition task does when its tick or callback ends:
\* ControlLoop sleeps until its next absolute wake time, forceDisabled returns.
EndOfTick == IF task = "control"
             THEN pc' = "sleep" /\ wake' = wake + ControlPeriod
             ELSE pc' = "returned" /\ UNCHANGED wake

Init ==
    /\ now = 0
    /\ mode = [mode |-> "Boot", enabled |-> FALSE, field |-> FALSE, epoch |-> 0, time |-> 0]
    /\ frame = [initialized |-> FALSE, epoch |-> 0, sequence |-> 0, time |-> 0, volts |-> 0]
    /\ modeLock = "free" /\ frameLock = "free"
    /\ pendingEnable = FALSE /\ boundary = 0
    /\ sequence = 0
    /\ task = "initialize" /\ pc = "transition"
    /\ request = [mode |-> "Disabled", field |-> FALSE]
    /\ start = 0 /\ wake = 0 /\ kills = 0 /\ restarted = 0
    /\ outPc = "due" /\ outFrame = frame
    /\ lastEpoch = 0 /\ lastSequence = 0
    /\ motor = Stopped

-----------------------------------------------------------------------------
(* The competition task.                                                   *)

\* ControlLoop::run wakes up: tickOnce reads the clock and the competition
\* status (three separate calls, so any combination).
StartTick ==
    /\ task = "control" /\ pc = "sleep" /\ wake <= now
    /\ start' = now
    /\ \E disabled, autonomous, field \in BOOLEAN :
          request' = [mode |-> Requested(disabled, autonomous, field), field |-> field]
    /\ pc' = "transition"
    /\ UNCHANGED <<now, boxVars, managerVars, outVars, sequence, task, wake, kills, restarted>>

\* ModeManager::transitionTo when nothing changes: it returns false.
TransitionUnneeded ==
    /\ pc = "transition" /\ modeLock = "free"
    /\ mode.mode = request.mode /\ mode.field = request.field
    /\ IF task = "control"
       THEN pc' = "frame" /\ UNCHANGED wake
       ELSE EndOfTick
    /\ UNCHANGED <<now, boxVars, managerVars, outVars, sequence, task, request, start, kills, restarted>>

\* ... and when something does: publish() locks the mode store,
LockForTransition ==
    /\ pc = "transition" /\ modeLock = "free"
    /\ mode.mode # request.mode \/ mode.field # request.field
    /\ modeLock' = "held" /\ pc' = "entering"
    /\ UNCHANGED <<now, mode, frame, frameLock, managerVars, outVars,
                   sequence, task, request, start, wake, kills, restarted>>

\* Fault: the entering snapshot is enabled at once, without a boundary stop.
PublishEntering_AtOnce ==
    /\ pc = "entering"
    /\ mode' = [mode |-> request.mode, enabled |-> isEnabledMode(request.mode),
                field |-> request.field, epoch |-> mode.epoch + 1, time |-> start]
    /\ modeLock' = "free" /\ pc' = "arm"
    /\ UNCHANGED <<now, frame, frameLock, managerVars, outVars,
                   sequence, task, request, start, wake, kills, restarted>>

\* stores the entering snapshot, disabled and with the next epoch, unlocks,
PublishEntering ==
    /\ pc = "entering"
    /\ mode' = [mode |-> request.mode, enabled |-> FALSE,
                field |-> request.field, epoch |-> mode.epoch + 1, time |-> start]
    /\ modeLock' = "free" /\ pc' = "arm"
    /\ UNCHANGED <<now, frame, frameLock, managerVars, outVars,
                   sequence, task, request, start, wake, kills, restarted>>

\* Fault: the boundary stop is armed for the epoch that was left.
ArmBoundary_Previous ==
    /\ pc = "arm"
    /\ pendingEnable' = isEnabledMode(request.mode)
    /\ boundary' = mode.epoch - 1
    /\ IF task = "control"
       THEN pc' = "frame" /\ UNCHANGED wake
       ELSE EndOfTick
    /\ UNCHANGED <<now, boxVars, outVars, sequence, task, request, start, kills, restarted>>

\* and arms the boundary stop of that epoch.
ArmBoundary ==
    /\ pc = "arm"
    /\ pendingEnable' = isEnabledMode(request.mode)
    /\ boundary' = mode.epoch
    /\ IF task = "control"
       THEN pc' = "frame" /\ UNCHANGED wake
       ELSE EndOfTick
    /\ UNCHANGED <<now, boxVars, outVars, sequence, task, request, start, kills, restarted>>

\* Fault: the frame counter is taken back, as if the loop were built anew.
LockForFrame_Recount ==
    /\ pc = "frame" /\ modeLock = "free" /\ frameLock = "free"
    /\ sequence' = (wake - restarted) \div ControlPeriod
    /\ frameLock' = "held" /\ pc' = "publish"
    /\ UNCHANGED <<now, mode, modeLock, frame, managerVars, outVars,
                   task, request, start, wake, kills, restarted>>

\* The tick takes its mode snapshot, counts the frame and runs the control
\* cycle, then ActuatorStore::publish locks.
LockForFrame ==
    /\ pc = "frame" /\ modeLock = "free" /\ frameLock = "free"
    /\ sequence' = sequence + 1
    /\ frameLock' = "held" /\ pc' = "publish"
    /\ UNCHANGED <<now, mode, modeLock, frame, managerVars, outVars,
                   task, request, start, wake, kills, restarted>>

\* The control cycle answers a snapshot that is not enabled with a stop frame.
PublishFrame ==
    /\ pc = "publish"
    /\ \E volts \in IF mode.enabled THEN {0, 1} ELSE {0} :
          frame' = [initialized |-> TRUE, epoch |-> mode.epoch,
                    sequence |-> sequence, time |-> start, volts |-> volts]
    /\ frameLock' = "free" /\ pc' = "acknowledge"
    /\ UNCHANGED <<now, mode, modeLock, managerVars, outVars,
                   sequence, task, request, start, wake, kills, restarted>>

\* acknowledgeBoundaryStop is not called, or not for the armed epoch.
NothingToAcknowledge ==
    /\ pc = "acknowledge" /\ modeLock = "free"
    /\ boundary = 0 \/ boundary # mode.epoch
    /\ EndOfTick
    /\ UNCHANGED <<now, boxVars, managerVars, outVars, sequence, task, request, start, kills, restarted>>

\* acknowledgeBoundaryStop locks the mode store,
LockForEnable ==
    /\ pc = "acknowledge" /\ modeLock = "free"
    /\ boundary # 0 /\ boundary = mode.epoch
    /\ modeLock' = "held" /\ pc' = "enable"
    /\ UNCHANGED <<now, mode, frame, frameLock, managerVars, outVars,
                   sequence, task, request, start, wake, kills, restarted>>

\* publishes the enabled bit the transition left pending,
PublishEnable ==
    /\ pc = "enable"
    /\ mode' = [mode EXCEPT !.enabled = pendingEnable]
    /\ modeLock' = "free" /\ pc' = "clear"
    /\ UNCHANGED <<now, frame, frameLock, managerVars, outVars,
                   sequence, task, request, start, wake, kills, restarted>>

\* and disarms the boundary; the tick is over.
ClearBoundary ==
    /\ pc = "clear"
    /\ pendingEnable' = FALSE /\ boundary' = 0
    /\ EndOfTick
    /\ UNCHANGED <<now, boxVars, outVars, sequence, task, request, start, kills, restarted>>

\* The operating system deletes the competition task wherever it is and starts
\* the one of the new competition state.  A mutex it held stays taken.
Kill(next) ==
    /\ kills < MaxKills /\ task # "initialize"
    /\ now >= restarted + RestartGap
    /\ DirectRestart \/ ~(task = "control" /\ next = "control")
    /\ KillHoldingLock \/ (modeLock # "held" /\ frameLock # "held")
    /\ kills' = kills + 1 /\ restarted' = now
    /\ modeLock'  = IF modeLock = "held" THEN "orphaned" ELSE modeLock
    /\ frameLock' = IF frameLock = "held" THEN "orphaned" ELSE frameLock
    /\ task' = next
    /\ IF next = "control"
       THEN pc' = "sleep" /\ wake' = now /\ UNCHANGED request
       ELSE /\ pc' = "transition" /\ UNCHANGED wake
            /\ request' = [mode |-> "Disabled", field |-> FALSE]
    /\ start' = now
    /\ UNCHANGED <<now, mode, frame, managerVars, outVars, sequence>>

\* initialize() has returned: the first competition task starts.
Boot(next) ==
    /\ task = "initialize" /\ pc = "returned"
    /\ task' = next /\ restarted' = now
    /\ IF next = "control"
       THEN pc' = "sleep" /\ wake' = now
       ELSE pc' = "transition" /\ UNCHANGED wake
    /\ start' = now
    /\ UNCHANGED <<now, boxVars, managerVars, outVars, sequence, request, kills>>

CompetitionTask ==
    \/ StartTick \/ TransitionUnneeded \/ LockForTransition \/ PublishEntering \/ ArmBoundary
    \/ LockForFrame \/ PublishFrame
    \/ NothingToAcknowledge \/ LockForEnable \/ PublishEnable \/ ClearBoundary

-----------------------------------------------------------------------------
(* The output task: OutputTask::tickOnce, once per unit of time.           *)

OutputReadFrame ==
    /\ outPc = "due" /\ frameLock = "free"
    /\ outFrame' = frame
    /\ outPc' = "read"
    /\ UNCHANGED <<now, boxVars, managerVars, taskVars, lastEpoch, lastSequence, motor>>

\* Fault: the frame's age is not checked.
Fresh_NoAge(f, t) == f.time <= t

Fresh(f, t) == f.time <= t /\ FrameTtl # 0 /\ t - f.time <= FrameTtl
InSequence(f) == lastEpoch = mode.epoch => f.sequence >= lastSequence

\* Fault: the mode snapshot is not consulted.
Accepts_AnyMode(f, t) == f.initialized /\ Fresh(f, t) /\ InSequence(f)

\* OutputService::tick accepts a frame: no reject bit is set.
Accepts(f, t) ==
    /\ f.initialized
    /\ mode.enabled
    /\ f.epoch = mode.epoch
    /\ Fresh(f, t)
    /\ InSequence(f)

\* OutputService::tick, with the mode and the clock read after the frame.  The
\* motors get the frame's voltage or a stop; a frame at rest is a stop.  Between
\* the mode read and the write the task waits at most for a device port, which
\* the control loop holds only while it reads sensors: one step.
OutputWrite ==
    /\ outPc = "read" /\ modeLock = "free"
    /\ IF Accepts(outFrame, now)
       THEN /\ lastEpoch' = mode.epoch
            /\ lastSequence' = outFrame.sequence
            /\ motor' = IF outFrame.volts = 0 THEN [motor EXCEPT !.volts = 0]
                        ELSE [volts |-> outFrame.volts, epoch |-> outFrame.epoch,
                              time |-> outFrame.time]
       ELSE motor' = [motor EXCEPT !.volts = 0] /\ UNCHANGED <<lastEpoch, lastSequence>>
    /\ outPc' = "done"
    /\ UNCHANGED <<now, boxVars, managerVars, taskVars, outFrame>>

OutputTask == OutputReadFrame \/ OutputWrite

-----------------------------------------------------------------------------
(* Time passes once the output task, the highest priority, has done its    *)
(* period, or waits for a mutex that no living task will give back; a tick *)
(* or callback ends at most MaxLate after it is due.                       *)

OutputBlocked == \/ outPc = "due"  /\ frameLock = "orphaned"
                 \/ outPc = "read" /\ modeLock  = "orphaned"

OnTime == \/ now < (IF task = "control" THEN wake ELSE restarted) + MaxLate
          \/ pc = "returned"

Advance ==
    /\ now < MaxTime
    /\ outPc = "done" \/ OutputBlocked
    /\ OnTime \/ "orphaned" \in {modeLock, frameLock}
    /\ now' = now + 1
    /\ outPc' = IF outPc = "done" THEN "due" ELSE outPc
    /\ UNCHANGED <<boxVars, managerVars, taskVars, outFrame,
                   lastEpoch, lastSequence, motor>>

\* The model's horizon, where time stops.
Horizon == now = MaxTime /\ UNCHANGED vars

Next ==
    \/ CompetitionTask
    \/ \E next \in {"control", "callback"} : Kill(next) \/ Boot(next)
    \/ OutputTask
    \/ Advance
    \/ Horizon

Spec == Init /\ [][Next]_vars

-----------------------------------------------------------------------------
(* Properties.                                                             *)

Pcs == {"sleep", "transition", "entering", "arm", "frame", "publish",
        "acknowledge", "enable", "clear", "returned"}

\* Types of the variables.
TypeOK ==
    /\ now \in Nat
    /\ mode \in ModeSnapshot /\ modeLock \in LockStates
    /\ frame \in ActuatorFrame /\ frameLock \in LockStates
    /\ pendingEnable \in BOOLEAN /\ boundary \in Nat
    /\ sequence \in Nat
    /\ task \in {"initialize", "control", "callback"} /\ pc \in Pcs
    /\ request \in [mode : Modes, field : BOOLEAN]
    /\ start \in Nat /\ wake \in Nat /\ kills \in Nat /\ restarted \in Nat
    /\ outPc \in {"due", "read", "done"}
    /\ outFrame \in ActuatorFrame
    /\ lastEpoch \in Nat /\ lastSequence \in Nat
    /\ motor \in [volts : {0, 1}, epoch : Nat, time : Nat]

\* A mode is enabled only once an actuator frame of its own epoch is in the
\* mailbox: the output task can never pair an enabled mode with the frame an
\* earlier mode left behind (ControlLoop acknowledges after it publishes).
EnabledHasOwnFrame ==
    mode.enabled => frame.initialized /\ frame.epoch = mode.epoch

\* The mailbox never takes a sequence number back, so kOutputSequenceRegression
\* never stops the motors on a frame that is really the latest one, whatever
\* restarts the control task goes through.
NoFalseRegression ==
    outPc = "read" /\ outFrame.initialized => InSequence(outFrame)

\* Whatever becomes of the control loop (late, deleted, restarted), the motors
\* never run on a frame older than its time to live plus one output period.
DeadManStop ==
    motor.volts # 0 =>
        now <= motor.time + FrameTtl + (IF outPc = "done" THEN 0 ELSE 1)

\* A mode that ends takes its voltage with it: one output period after the
\* transition (plus what the transition itself was late) the motors run only
\* under the enabled mode whose epoch their frame carries.
RevokedStops ==
    motor.volts # 0 /\ ~(mode.enabled /\ motor.epoch = mode.epoch) =>
        now <= mode.time + MaxLate + (IF outPc = "done" THEN 0 ELSE 1)

\* Whatever was deleted before it, inside a transition or between a stop frame and
\* its acknowledgement, the first tick of a control task that ends leaves the mode
\* enabled if it is one that may be: no mode stays entered but disabled for ever.
\* (wake is past restarted once a tick has ended.)
TickEnables ==
    task = "control" /\ pc = "sleep" /\ wake > restarted =>
        mode.enabled = isEnabledMode(mode.mode)

\* Break before make at the motors: between the voltages of two mode epochs
\* the output task has written a stop.
BreakBeforeMake ==
    [][motor.volts # 0 /\ motor'.volts # 0 => motor'.epoch = motor.epoch]_motor

\* The runtime implements the contract of the motors: break before make, for
\* growing epochs.
Contract == INSTANCE MotorContract WITH driving <- motor.volts # 0, newest <- motor.epoch
KeepsContract == Contract!Spec
=============================================================================
