------------------------- MODULE DriveRuntimeProofs -------------------------
(* Theorems about the runtime core, for every value of its parameters.     *)
EXTENDS DriveRuntime, TLAPS

\* A step is one of these actions.
Actions ==
    \/ StartTick \/ TransitionUnneeded \/ LockForTransition \/ PublishEntering \/ ArmBoundary
    \/ LockForFrame \/ PublishFrame
    \/ NothingToAcknowledge \/ LockForEnable \/ PublishEnable \/ ClearBoundary
    \/ \E next \in {"control", "callback"} : Kill(next) \/ Boot(next)
    \/ OutputReadFrame \/ OutputWrite \/ Advance
    \/ UNCHANGED vars

\* The next-state relation, stuttering included, is that disjunction.
LEMMA NextIsActions == [Next]_vars => Actions
  BY DEF Next, Actions, CompetitionTask, OutputTask, Horizon

\* Every variable keeps its type.
THEOREM TypeCorrect == Spec => []TypeOK
<1>1. ASSUME Init PROVE TypeOK
  <2>1. mode \in ModeSnapshot /\ frame \in ActuatorFrame
    BY <1>1 DEF Init, ModeSnapshot, Modes, ActuatorFrame
  <2>2. motor \in [volts : {0, 1}, epoch : Nat, time : Nat]
    BY <1>1 DEF Init, Stopped
  <2>3. request \in [mode : Modes, field : BOOLEAN]
    BY <1>1 DEF Init, Modes
  <2> QED BY <1>1, <2>1, <2>2, <2>3 DEF Init, TypeOK, LockStates, Pcs
<1>2. TypeOK /\ [Next]_vars => TypeOK'
  <2> SUFFICES ASSUME TypeOK, Actions PROVE TypeOK'
    BY NextIsActions
  <2> USE RuntimeAssumption DEF TypeOK, ModeSnapshot, Modes, ActuatorFrame, LockStates, Pcs,
        boxVars, managerVars, taskVars, outVars
  <2>1. CASE StartTick
    <3>1. request' \in [mode : Modes, field : BOOLEAN]
      BY <2>1 DEF StartTick, Requested
    <3> QED BY <2>1, <3>1 DEF StartTick
  <2>2. CASE TransitionUnneeded
    BY <2>2 DEF TransitionUnneeded, EndOfTick
  <2>3. CASE LockForTransition
    BY <2>3 DEF LockForTransition
  <2>4. CASE PublishEntering
    BY <2>4 DEF PublishEntering
  <2>5. CASE ArmBoundary
    BY <2>5 DEF ArmBoundary, EndOfTick, isEnabledMode
  <2>6. CASE LockForFrame
    BY <2>6 DEF LockForFrame
  <2>7. CASE PublishFrame
    BY <2>7 DEF PublishFrame
  <2>8. CASE NothingToAcknowledge
    BY <2>8 DEF NothingToAcknowledge, EndOfTick
  <2>9. CASE LockForEnable
    BY <2>9 DEF LockForEnable
  <2>10. CASE PublishEnable
    BY <2>10 DEF PublishEnable
  <2>11. CASE ClearBoundary
    <3>1. pc' \in Pcs /\ wake' \in Nat
      BY <2>11 DEF ClearBoundary, EndOfTick
    <3>2. pendingEnable' \in BOOLEAN /\ boundary' \in Nat
      BY <2>11 DEF ClearBoundary
    <3> QED BY <2>11, <3>1, <3>2 DEF ClearBoundary
  <2>12. ASSUME NEW next \in {"control", "callback"}, Kill(next)
         PROVE TypeOK'
    <3>1. request' \in [mode : Modes, field : BOOLEAN]
      <4>1. CASE next = "control"
        BY <2>12, <4>1 DEF Kill
      <4>2. CASE next # "control"
        <5>1. request' = [mode |-> "Disabled", field |-> FALSE]
          BY <2>12, <4>2 DEF Kill
        <5> QED BY <5>1
      <4> QED BY <4>1, <4>2
    <3>2. pc' \in Pcs /\ wake' \in Nat
      BY <2>12 DEF Kill
    <3>3. modeLock' \in LockStates /\ frameLock' \in LockStates
      BY <2>12 DEF Kill
    <3>4. task' \in {"initialize", "control", "callback"}
      BY <2>12 DEF Kill
    <3>5. kills' \in Nat /\ restarted' \in Nat /\ start' \in Nat
      BY <2>12 DEF Kill
    <3>6. UNCHANGED <<now, mode, frame, managerVars, outVars, sequence>>
      BY <2>12 DEF Kill
    <3> QED BY <3>1, <3>2, <3>3, <3>4, <3>5, <3>6
  <2>13. ASSUME NEW next \in {"control", "callback"}, Boot(next)
         PROVE TypeOK'
    BY <2>13 DEF Boot
  <2>14. CASE OutputReadFrame
    BY <2>14 DEF OutputReadFrame
  <2>15. CASE OutputWrite
    BY <2>15 DEF OutputWrite
  <2>16. CASE Advance
    BY <2>16 DEF Advance
  <2>17. CASE UNCHANGED vars
    BY <2>17 DEF vars
  <2> QED
    BY <2>1, <2>2, <2>3, <2>4, <2>5, <2>6, <2>7, <2>8, <2>9, <2>10, <2>11,
       <2>12, <2>13, <2>14, <2>15, <2>16, <2>17 DEF Actions
<1> QED BY <1>1, <1>2, PTL DEF Spec

-----------------------------------------------------------------------------
\* The mailbox, the output task's copy and the last accepted frame are in the
\* order of their sequence numbers.
SequencesOrdered ==
    /\ frame.sequence <= sequence
    /\ outFrame.sequence <= frame.sequence
    /\ lastSequence <= frame.sequence
    /\ outPc = "read" => lastSequence <= outFrame.sequence

LEMMA SequencesOrderedInductive ==
    ASSUME TypeOK, TypeOK', SequencesOrdered, [Next]_vars
    PROVE  SequencesOrdered'
<1> USE DEF SequencesOrdered, boxVars, managerVars, taskVars, outVars
<1>1. CASE LockForFrame
  BY <1>1 DEF LockForFrame, TypeOK, ActuatorFrame
<1>2. CASE PublishFrame
  <2>1. frame'.sequence = sequence
    BY <1>2 DEF PublishFrame
  <2>2. UNCHANGED <<sequence, outVars>>
    BY <1>2 DEF PublishFrame
  <2> QED BY <2>1, <2>2 DEF TypeOK, ActuatorFrame
<1>3. CASE OutputReadFrame
  BY <1>3 DEF OutputReadFrame, TypeOK, ActuatorFrame
<1>4. CASE OutputWrite
  <2>1. lastSequence' \in {lastSequence, outFrame.sequence}
    BY <1>4 DEF OutputWrite
  <2>2. outPc' = "done" /\ UNCHANGED <<frame, sequence, outFrame>>
    BY <1>4 DEF OutputWrite
  <2> QED BY <2>1, <2>2
<1>5. CASE Advance
  <2>1. UNCHANGED <<frame, sequence, outFrame, lastSequence>>
    BY <1>5 DEF Advance
  <2>2. outPc' = "read" => outPc = "read"
    BY <1>5 DEF Advance
  <2> QED BY <2>1, <2>2
<1>6. CASE StartTick \/ TransitionUnneeded \/ LockForTransition \/ PublishEntering
           \/ ArmBoundary \/ NothingToAcknowledge \/ LockForEnable \/ PublishEnable
           \/ ClearBoundary \/ UNCHANGED vars
  <2>1. UNCHANGED <<frame, sequence, outVars>>
    BY <1>6 DEF StartTick, TransitionUnneeded, LockForTransition, PublishEntering,
         ArmBoundary, NothingToAcknowledge, LockForEnable, PublishEnable, ClearBoundary, vars
  <2> QED BY <2>1
<1>7. ASSUME NEW next \in {"control", "callback"}, Kill(next) \/ Boot(next)
      PROVE SequencesOrdered'
  <2>1. UNCHANGED <<frame, sequence, outVars>>
    BY <1>7 DEF Kill, Boot
  <2> QED BY <2>1
<1> QED BY NextIsActions, <1>1, <1>2, <1>3, <1>4, <1>5, <1>6, <1>7 DEF Actions

\* The sequence check of OutputService never stops the motors on a frame that
\* is the latest one, through any restarts of the control task.
THEOREM NeverFalselyRegresses == Spec => []NoFalseRegression
<1>1. Init => SequencesOrdered
  BY DEF Init, SequencesOrdered
<1>2. TypeOK /\ SequencesOrdered => NoFalseRegression
  BY DEF SequencesOrdered, NoFalseRegression, InSequence, TypeOK, ActuatorFrame
<1>3. TypeOK /\ TypeOK' /\ SequencesOrdered /\ [Next]_vars => SequencesOrdered'
  BY SequencesOrderedInductive
<1> QED BY <1>1, <1>2, <1>3, TypeCorrect, PTL DEF Spec

-----------------------------------------------------------------------------
\* From the frame's publication to the end of the tick the mailbox holds a
\* frame of the current epoch.
OwnFramePublished ==
    /\ EnabledHasOwnFrame
    /\ pc \in {"acknowledge", "enable"} => frame.initialized /\ frame.epoch = mode.epoch

LEMMA OwnFramePublishedInductive ==
    ASSUME TypeOK, OwnFramePublished, [Next]_vars
    PROVE  OwnFramePublished'
<1> USE DEF OwnFramePublished, EnabledHasOwnFrame, boxVars, managerVars, taskVars, outVars
<1>1. CASE PublishEntering
  <2>1. mode'.enabled = FALSE /\ pc' = "arm"
    BY <1>1 DEF PublishEntering
  <2> QED BY <2>1
<1>2. CASE PublishFrame
  <2>1. frame'.initialized /\ frame'.epoch = mode.epoch
    BY <1>2 DEF PublishFrame
  <2> QED BY <1>2, <2>1 DEF PublishFrame
<1>3. CASE PublishEnable
  <2>1. mode'.epoch = mode.epoch /\ UNCHANGED frame /\ pc = "enable"
    BY <1>3 DEF PublishEnable, TypeOK, ModeSnapshot
  <2> QED BY <2>1
<1>4. CASE LockForEnable
  BY <1>4 DEF LockForEnable
<1>5. CASE StartTick \/ TransitionUnneeded \/ LockForTransition
           \/ ArmBoundary \/ LockForFrame \/ NothingToAcknowledge
           \/ ClearBoundary \/ OutputReadFrame \/ OutputWrite
           \/ Advance \/ UNCHANGED vars
  <2>1. UNCHANGED <<frame, mode>>
    BY <1>5 DEF StartTick, TransitionUnneeded, LockForTransition, LockForFrame,
         ArmBoundary, NothingToAcknowledge, ClearBoundary,
         OutputReadFrame, OutputWrite, Advance, vars
  <2>2. pc' \in {"acknowledge", "enable"} => pc' = pc
    BY <1>5 DEF StartTick, TransitionUnneeded, LockForTransition, LockForFrame,
         ArmBoundary, NothingToAcknowledge, ClearBoundary, EndOfTick,
         OutputReadFrame, OutputWrite, Advance, vars
  <2> QED BY <2>1, <2>2
<1>6. ASSUME NEW next \in {"control", "callback"}, Kill(next) \/ Boot(next)
      PROVE OwnFramePublished'
  <2>1. UNCHANGED <<frame, mode>> /\ pc' \in {"sleep", "transition"}
    BY <1>6 DEF Kill, Boot
  <2> QED BY <2>1
<1> QED BY NextIsActions, <1>1, <1>2, <1>3, <1>4, <1>5, <1>6 DEF Actions

\* An enabled mode always has an actuator frame of its own epoch.
THEOREM EnabledAlwaysHasOwnFrame == Spec => []EnabledHasOwnFrame
<1>1. Init => OwnFramePublished
  BY DEF Init, OwnFramePublished, EnabledHasOwnFrame
<1>2. OwnFramePublished => EnabledHasOwnFrame
  BY DEF OwnFramePublished
<1>3. TypeOK /\ OwnFramePublished /\ [Next]_vars => OwnFramePublished'
  BY OwnFramePublishedInductive
<1> QED BY <1>1, <1>2, <1>3, TypeCorrect, PTL DEF Spec

-----------------------------------------------------------------------------
\* No mutex is left taken by a deleted task.
NoOrphan == modeLock # "orphaned" /\ frameLock # "orphaned"

LEMMA NoOrphanInductive ==
    ASSUME KillHoldingLock = FALSE, TypeOK, NoOrphan, [Next]_vars
    PROVE  NoOrphan'
<1> USE DEF NoOrphan, boxVars, managerVars, taskVars, outVars
<1>1. CASE StartTick \/ TransitionUnneeded \/ LockForTransition \/ PublishEntering
           \/ ArmBoundary \/ LockForFrame \/ PublishFrame
  BY <1>1 DEF StartTick, TransitionUnneeded, LockForTransition, PublishEntering,
       ArmBoundary, LockForFrame, PublishFrame
<1>2. CASE NothingToAcknowledge \/ LockForEnable \/ PublishEnable \/ ClearBoundary
           \/ OutputReadFrame \/ OutputWrite \/ Advance \/ UNCHANGED vars
  BY <1>2 DEF NothingToAcknowledge, LockForEnable, PublishEnable, ClearBoundary,
       OutputReadFrame, OutputWrite, Advance, vars
<1>3. ASSUME NEW next \in {"control", "callback"}, Kill(next) \/ Boot(next)
      PROVE NoOrphan'
  BY <1>3 DEF Kill, Boot
<1> QED BY NextIsActions, <1>1, <1>2, <1>3 DEF Actions

LEMMA DeadManInductive ==
    ASSUME TypeOK, NoOrphan, DeadManStop, [Next]_vars
    PROVE  DeadManStop'
<1> USE RuntimeAssumption DEF DeadManStop, boxVars, managerVars, taskVars, outVars
<1>1. CASE OutputReadFrame
  BY <1>1 DEF OutputReadFrame
<1>2. CASE OutputWrite
  <2>1. CASE motor'.volts = 0
    BY <2>1
  <2>2. CASE motor'.volts # 0
    <3>1. Accepts(outFrame, now)
      BY <1>2, <2>2 DEF OutputWrite, TypeOK
    <3>2. motor'.time = outFrame.time
      BY <1>2, <2>2, <3>1 DEF OutputWrite, TypeOK
    <3>3. now - outFrame.time <= FrameTtl
      BY <3>1 DEF Accepts, Fresh
    <3>4. now' = now /\ outPc' = "done"
      BY <1>2 DEF OutputWrite
    <3> QED BY <3>2, <3>3, <3>4 DEF TypeOK, ActuatorFrame
  <2> QED BY <2>1, <2>2
<1>3. CASE Advance
  <2>1. outPc = "done" /\ outPc' = "due" /\ now' = now + 1 /\ UNCHANGED motor
    BY <1>3 DEF Advance, NoOrphan, OutputBlocked
  <2> QED BY <2>1 DEF TypeOK
<1>4. CASE StartTick \/ TransitionUnneeded \/ LockForTransition \/ PublishEntering
           \/ ArmBoundary \/ LockForFrame \/ PublishFrame \/ NothingToAcknowledge
           \/ LockForEnable \/ PublishEnable \/ ClearBoundary \/ UNCHANGED vars
  <2>1. UNCHANGED <<now, motor, outPc>>
    BY <1>4 DEF StartTick, TransitionUnneeded, LockForTransition, PublishEntering,
         ArmBoundary, LockForFrame, PublishFrame, NothingToAcknowledge, LockForEnable,
         PublishEnable, ClearBoundary, vars
  <2> QED BY <2>1
<1>5. ASSUME NEW next \in {"control", "callback"}, Kill(next) \/ Boot(next)
      PROVE DeadManStop'
  <2>1. UNCHANGED <<now, motor, outPc>>
    BY <1>5 DEF Kill, Boot
  <2> QED BY <2>1
<1> QED BY NextIsActions, <1>1, <1>2, <1>3, <1>4, <1>5 DEF Actions

\* If the competition task is never deleted while it holds a mutex, the motors
\* never run on a frame older than its time to live plus one output period,
\* however late the control loop is and however often it is restarted.
THEOREM MotorsDeadManStop ==
    ASSUME KillHoldingLock = FALSE
    PROVE  Spec => []DeadManStop
<1>1. Init => NoOrphan /\ DeadManStop
  BY DEF Init, NoOrphan, DeadManStop, Stopped
<1>2. TypeOK /\ NoOrphan /\ DeadManStop /\ [Next]_vars => (NoOrphan /\ DeadManStop)'
  BY NoOrphanInductive, DeadManInductive
<1> QED BY <1>1, <1>2, TypeCorrect, PTL DEF Spec

-----------------------------------------------------------------------------
\* What ties a transition to the time it was asked for, and the pending enable
\* to the epoch that armed it.
BoundaryArmed ==
    /\ pc \in {"transition", "entering"} => now <= start + MaxLate
    /\ task = "control" /\ pc # "sleep" => wake <= start
    /\ task # "control" /\ pc # "returned" => restarted <= start
    /\ pc = "arm" => ~mode.enabled
    /\ pc = "enable" => boundary # 0 /\ boundary = mode.epoch
    /\ boundary # 0 /\ boundary = mode.epoch /\ mode.enabled => pendingEnable

LEMMA BoundaryArmedInductive ==
    ASSUME TypeOK, TypeOK', NoOrphan, BoundaryArmed, [Next]_vars
    PROVE  BoundaryArmed'
<1> USE RuntimeAssumption DEF BoundaryArmed, boxVars, managerVars, taskVars, outVars
<1>1. CASE StartTick
  BY <1>1 DEF StartTick, TypeOK
<1>2. CASE TransitionUnneeded
  BY <1>2 DEF TransitionUnneeded, EndOfTick
<1>3. CASE LockForTransition
  BY <1>3 DEF LockForTransition
<1>4. CASE PublishEntering
  <2>1. ~mode'.enabled /\ pc' = "arm"
    BY <1>4 DEF PublishEntering
  <2> QED BY <1>4, <2>1 DEF PublishEntering
<1>5. CASE ArmBoundary
  BY <1>5 DEF ArmBoundary, EndOfTick
<1>6. CASE LockForFrame
  BY <1>6 DEF LockForFrame
<1>7. CASE PublishFrame
  BY <1>7 DEF PublishFrame
<1>8. CASE NothingToAcknowledge
  BY <1>8 DEF NothingToAcknowledge, EndOfTick
<1>9. CASE LockForEnable
  BY <1>9 DEF LockForEnable
<1>10. CASE PublishEnable
  <2>1. mode'.enabled = pendingEnable /\ mode'.epoch = mode.epoch /\ pc' = "clear"
    BY <1>10 DEF PublishEnable, TypeOK, ModeSnapshot
  <2> QED BY <1>10, <2>1 DEF PublishEnable
<1>11. CASE ClearBoundary
  BY <1>11 DEF ClearBoundary, EndOfTick
<1>12. ASSUME NEW next \in {"control", "callback"}, Kill(next) \/ Boot(next)
       PROVE BoundaryArmed'
  <2>1. UNCHANGED <<now, mode, boundary, pendingEnable>> /\ task' = next /\ restarted' = now
    BY <1>12 DEF Kill, Boot
  <2>2. \/ next = "control" /\ pc' = "sleep"
        \/ next # "control" /\ pc' = "transition" /\ start' = now
    BY <1>12 DEF Kill, Boot
  <2>3. now \in Nat
    BY DEF TypeOK
  <2>4. CASE next = "control"
    BY <2>1, <2>2, <2>4
  <2>5. CASE next # "control"
    <3>1. pc' = "transition" /\ start' = now /\ now' = now /\ restarted' = now
      BY <2>1, <2>2, <2>5
    <3>2. now' <= start' + MaxLate /\ restarted' <= start'
      BY <3>1, <2>3
    <3> QED BY <2>1, <2>5, <3>1, <3>2
  <2> QED BY <2>4, <2>5
<1>13. CASE OutputReadFrame \/ OutputWrite \/ UNCHANGED vars
  BY <1>13 DEF OutputReadFrame, OutputWrite, vars
<1>14. CASE Advance
  <2>1. OnTime /\ now' = now + 1 /\ UNCHANGED <<boxVars, managerVars, taskVars>>
    BY <1>14 DEF Advance, NoOrphan
  <2>2. pc \in {"transition", "entering"} => now < start + MaxLate
    BY <2>1 DEF OnTime, TypeOK
  <2> QED BY <2>1, <2>2 DEF TypeOK
<1> QED BY NextIsActions, <1>1, <1>2, <1>3, <1>4, <1>5, <1>6, <1>7, <1>8, <1>9,
        <1>10, <1>11, <1>12, <1>13, <1>14 DEF Actions

LEMMA RevokedStopsInductive ==
    ASSUME TypeOK, TypeOK', NoOrphan, BoundaryArmed, RevokedStops, [Next]_vars
    PROVE  RevokedStops'
<1> USE RuntimeAssumption DEF RevokedStops, boxVars, managerVars, taskVars, outVars
<1>1. CASE PublishEntering
  <2>1. mode'.time = start /\ now <= start + MaxLate
    BY <1>1 DEF PublishEntering, BoundaryArmed
  <2>2. UNCHANGED <<now, outPc>>
    BY <1>1 DEF PublishEntering
  <2> QED BY <2>1, <2>2 DEF TypeOK
<1>2. CASE PublishEnable
  <2>1. mode'.enabled = pendingEnable /\ mode'.epoch = mode.epoch /\ mode'.time = mode.time
    BY <1>2 DEF PublishEnable, TypeOK, ModeSnapshot
  <2>2. ~pendingEnable => ~mode.enabled
    BY <1>2 DEF PublishEnable, BoundaryArmed
  <2>3. UNCHANGED <<now, outPc, motor>>
    BY <1>2 DEF PublishEnable
  <2> QED BY <2>1, <2>2, <2>3
<1>3. CASE OutputReadFrame
  BY <1>3 DEF OutputReadFrame
<1>4. CASE OutputWrite
  <2>1. CASE motor'.volts = 0
    BY <2>1
  <2>2. CASE motor'.volts # 0
    <3>1. Accepts(outFrame, now)
      BY <1>4, <2>2 DEF OutputWrite, TypeOK
    <3>2. motor'.epoch = outFrame.epoch /\ UNCHANGED mode
      BY <1>4, <2>2, <3>1 DEF OutputWrite, TypeOK
    <3>3. mode.enabled /\ outFrame.epoch = mode.epoch
      BY <3>1 DEF Accepts
    <3> QED BY <3>2, <3>3
  <2> QED BY <2>1, <2>2
<1>5. CASE Advance
  <2>1. /\ outPc = "done" /\ outPc' = "due" /\ now' = now + 1
        /\ UNCHANGED <<motor, mode>>
    BY <1>5 DEF Advance, NoOrphan, OutputBlocked
  <2>2. mode.time \in Nat
    BY DEF TypeOK, ModeSnapshot
  <2> QED BY <2>1, <2>2 DEF TypeOK
<1>6. CASE StartTick \/ TransitionUnneeded \/ LockForTransition
           \/ ArmBoundary \/ LockForFrame \/ PublishFrame \/ NothingToAcknowledge
           \/ LockForEnable \/ ClearBoundary \/ UNCHANGED vars
  <2>1. UNCHANGED <<now, motor, outPc, mode>>
    BY <1>6 DEF StartTick, TransitionUnneeded, LockForTransition,
         ArmBoundary, LockForFrame, PublishFrame, NothingToAcknowledge, LockForEnable,
         ClearBoundary, vars
  <2> QED BY <2>1
<1>7. ASSUME NEW next \in {"control", "callback"}, Kill(next) \/ Boot(next)
      PROVE RevokedStops'
  <2>1. UNCHANGED <<now, motor, outPc, mode>>
    BY <1>7 DEF Kill, Boot
  <2> QED BY <2>1
<1> QED BY NextIsActions, <1>1, <1>2, <1>3, <1>4, <1>5, <1>6, <1>7 DEF Actions

\* Under the same assumption, one output period after a mode is revoked (plus
\* the lateness of the transition) the motors no longer hold its voltage.
THEOREM RevokedModeStops ==
    ASSUME KillHoldingLock = FALSE
    PROVE  Spec => []RevokedStops
<1> DEFINE IInv == NoOrphan /\ BoundaryArmed /\ RevokedStops
<1>1. Init => IInv
  BY RuntimeAssumption DEF Init, NoOrphan, BoundaryArmed, RevokedStops, Stopped
<1>2. TypeOK /\ TypeOK' /\ IInv /\ [Next]_vars => IInv'
  BY NoOrphanInductive, BoundaryArmedInductive, RevokedStopsInductive
<1>3. IInv => RevokedStops
  OBVIOUS
<1> HIDE DEF IInv
<1> QED BY <1>1, <1>2, <1>3, TypeCorrect, PTL DEF Spec
-----------------------------------------------------------------------------
\* Whatever a deleted task left unfinished is made good: a mode that is entered but
\* neither armed nor enabled is one that the task is about to arm, or that a
\* callback is about to leave.
EnableInv ==
    /\ boundary <= mode.epoch
    /\ boundary # 0 /\ boundary = mode.epoch => pendingEnable = isEnabledMode(mode.mode)
    /\ mode.enabled => isEnabledMode(mode.mode)
    /\ pc = "arm" => mode.mode = request.mode /\ boundary < mode.epoch
    /\ pc \notin {"transition", "entering", "arm", "returned"} => task = "control"
    /\ pc = "returned" => task # "control"
    /\ pc = "clear" => mode.enabled = isEnabledMode(mode.mode)
    /\ \/ boundary # 0 /\ boundary = mode.epoch
       \/ isEnabledMode(mode.mode) => mode.enabled
       \/ pc = "arm"
       \/ task # "control" /\ pc \in {"transition", "entering"}
    /\ task # "control" =>
          /\ request.mode = "Disabled"
          /\ IF pc = "returned" THEN mode.mode = "Disabled" ELSE now <= restarted + MaxLate
    /\ TickEnables

LEMMA EnableInductive ==
    ASSUME DirectRestart = FALSE, MaxLate < RestartGap,
           TypeOK, TypeOK', NoOrphan, BoundaryArmed, EnableInv, [Next]_vars
    PROVE  EnableInv'
<1> /\ mode.enabled \in BOOLEAN /\ mode.epoch \in Nat /\ mode.mode \in Modes
    /\ boundary \in Nat /\ pendingEnable \in BOOLEAN
    /\ now \in Nat /\ wake \in Nat /\ restarted \in Nat
  BY DEF TypeOK, ModeSnapshot
<1> USE RuntimeAssumption
    DEF EnableInv, TickEnables, boxVars, managerVars, taskVars, outVars
<1>1. CASE StartTick
  BY <1>1 DEF StartTick
<1>2. CASE TransitionUnneeded
  <2>1. task = "control" \/ pc' = "returned"
    BY <1>2 DEF TransitionUnneeded, EndOfTick
  <2> QED BY <1>2, <2>1 DEF TransitionUnneeded, EndOfTick, isEnabledMode
<1>3. CASE LockForTransition
  BY <1>3 DEF LockForTransition
<1>4. CASE PublishEntering
  <2>1. /\ mode'.mode = request.mode /\ mode'.enabled = FALSE /\ mode'.epoch = mode.epoch + 1
        /\ UNCHANGED <<now, boundary, pendingEnable, task, request, wake, restarted>>
        /\ pc = "entering" /\ pc' = "arm"
    BY <1>4 DEF PublishEntering
  <2> QED BY <2>1
<1>5. CASE ArmBoundary
  <2>1. /\ UNCHANGED <<now, mode, task, request, restarted>>
        /\ pendingEnable' = isEnabledMode(mode.mode) /\ boundary' = mode.epoch /\ pc = "arm"
        /\ IF task = "control" THEN pc' = "frame" ELSE pc' = "returned"
    BY <1>5 DEF ArmBoundary, EndOfTick
  <2>2. ~mode.enabled
    BY <2>1 DEF BoundaryArmed
  <2> QED BY <2>1, <2>2
<1>6. CASE LockForFrame
  BY <1>6 DEF LockForFrame
<1>7. CASE PublishFrame
  BY <1>7 DEF PublishFrame
<1>8. CASE NothingToAcknowledge
  <2>1. /\ UNCHANGED <<now, mode, boundary, pendingEnable, task, request, restarted>>
        /\ pc = "acknowledge" /\ task = "control" /\ pc' = "sleep"
        /\ boundary = 0 \/ boundary # mode.epoch
    BY <1>8 DEF NothingToAcknowledge, EndOfTick
  <2>2. mode.enabled <=> isEnabledMode(mode.mode)
    BY <2>1
  <2>3. mode.enabled = isEnabledMode(mode.mode)
    BY <2>2 DEF isEnabledMode
  <2> QED BY <2>1, <2>3
<1>9. CASE LockForEnable
  BY <1>9 DEF LockForEnable
<1>10. CASE PublishEnable
  <2>1. /\ mode'.mode = mode.mode /\ mode'.enabled = pendingEnable /\ mode'.epoch = mode.epoch
        /\ UNCHANGED <<now, boundary, pendingEnable, task, request, wake, restarted>>
        /\ pc = "enable" /\ pc' = "clear"
    BY <1>10 DEF PublishEnable, TypeOK, ModeSnapshot
  <2>2. boundary # 0 /\ boundary = mode.epoch
    BY <2>1 DEF BoundaryArmed
  <2> QED BY <2>1, <2>2
<1>11. CASE ClearBoundary
  BY <1>11 DEF ClearBoundary, EndOfTick
<1>12. ASSUME NEW next \in {"control", "callback"}, Kill(next) PROVE EnableInv'
  <2>1. /\ UNCHANGED <<now, mode, boundary, pendingEnable>>
        /\ task' = next /\ restarted' = now /\ task # "initialize"
    BY <1>12 DEF Kill
  <2>2. CASE next = "control"
    <3>1. task # "control" /\ now >= restarted + RestartGap
      BY <1>12, <2>2 DEF Kill
    <3>2. pc = "returned"
      BY <3>1
    <3>3. pc' = "sleep" /\ wake' = now
      BY <1>12, <2>2 DEF Kill
    <3> QED BY <2>1, <2>2, <3>1, <3>2, <3>3
  <2>3. CASE next # "control"
    <3>1. pc' = "transition" /\ request' = [mode |-> "Disabled", field |-> FALSE]
      BY <1>12, <2>3 DEF Kill
    <3> QED BY <2>1, <2>3, <3>1
  <2> QED BY <2>2, <2>3
<1>13. ASSUME NEW next \in {"control", "callback"}, Boot(next) PROVE EnableInv'
  BY <1>13 DEF Boot
<1>14. CASE OutputReadFrame \/ OutputWrite \/ UNCHANGED vars
  BY <1>14 DEF OutputReadFrame, OutputWrite, vars
<1>15. CASE Advance
  <2>1. OnTime /\ now' = now + 1 /\ UNCHANGED <<boxVars, managerVars, taskVars>>
    BY <1>15 DEF Advance, NoOrphan
  <2> QED BY <2>1 DEF OnTime
<1> QED BY NextIsActions, <1>1, <1>2, <1>3, <1>4, <1>5, <1>6, <1>7, <1>8, <1>9,
        <1>10, <1>11, <1>12, <1>13, <1>14, <1>15 DEF Actions

\* What holds of the runtime when no task is deleted inside a critical section, a
\* callback runs between two control tasks, and it ends before the competition mode
\* changes again.
LEMMA RuntimeInvariant ==
    ASSUME KillHoldingLock = FALSE, DirectRestart = FALSE, MaxLate < RestartGap
    PROVE  Spec => [](TypeOK /\ NoOrphan /\ BoundaryArmed /\ EnableInv)
<1> DEFINE IInv == NoOrphan /\ BoundaryArmed /\ EnableInv
<1>1. Init => IInv
  BY RuntimeAssumption
     DEF Init, NoOrphan, BoundaryArmed, EnableInv, TickEnables, isEnabledMode
<1>2. TypeOK /\ TypeOK' /\ IInv /\ [Next]_vars => IInv'
  BY NoOrphanInductive, BoundaryArmedInductive, EnableInductive
<1>3. IInv => NoOrphan /\ BoundaryArmed /\ EnableInv
  OBVIOUS
<1> HIDE DEF IInv
<1> QED BY <1>1, <1>2, <1>3, TypeCorrect, PTL DEF Spec

\* Then the first tick of a control task that ends leaves its mode enabled, if it is
\* one that may be, wherever the task before it was deleted.
THEOREM FirstTickEnables ==
    ASSUME KillHoldingLock = FALSE, DirectRestart = FALSE, MaxLate < RestartGap
    PROVE  Spec => []TickEnables
<1>1. EnableInv => TickEnables
  BY DEF EnableInv
<1> QED BY <1>1, RuntimeInvariant, PTL

-----------------------------------------------------------------------------
\* The end of the period in which the output task last wrote the motors.
WrittenUntil == IF outPc = "done" THEN now + 1 ELSE now

\* The motors still hold the voltage of another epoch than the mode's.
Outdated == motor.volts # 0 /\ motor.epoch # mode.epoch

\* While they do, the mode was entered in the period they were written in or after it,
\* so a tick that publishes a voltage of the mode is due a control period later.
MakeInv ==
    /\ frame.epoch <= mode.epoch /\ outFrame.epoch <= mode.epoch /\ motor.epoch <= mode.epoch
    /\ task = "control" => now <= wake + MaxLate
    /\ Outdated =>
          /\ task = "control" /\ mode.enabled /\ pc \notin {"acknowledge", "enable", "clear"} =>
                WrittenUntil + ControlPeriod <= wake + MaxLate + 1
          /\ \A f \in {frame, outFrame} : f.volts # 0 /\ f.epoch = mode.epoch =>
                WrittenUntil + ControlPeriod <= f.time + MaxLate + 1

LEMMA MakeInductive ==
    ASSUME DirectRestart = FALSE, MaxLate < RestartGap,
           TypeOK, TypeOK', NoOrphan, BoundaryArmed, EnableInv, MakeInv, [Next]_vars
    PROVE  MakeInv'
<1> /\ mode.enabled \in BOOLEAN /\ mode.epoch \in Nat /\ mode.mode \in Modes
    /\ now \in Nat /\ wake \in Nat /\ start \in Nat /\ restarted \in Nat
    /\ frame.epoch \in Nat /\ frame.time \in Nat
    /\ outFrame.epoch \in Nat /\ outFrame.time \in Nat /\ motor.epoch \in Nat
  BY DEF TypeOK, ModeSnapshot, ActuatorFrame
<1> USE RuntimeAssumption
    DEF MakeInv, Outdated, WrittenUntil, boxVars, managerVars, taskVars, outVars
<1>1. CASE StartTick \/ LockForTransition \/ LockForFrame \/ LockForEnable \/ UNCHANGED vars
  <2>1. /\ UNCHANGED <<now, mode, frame, task, wake, outVars>>
        /\ pc' \in {"acknowledge", "enable", "clear"} \/ pc \notin {"acknowledge", "enable", "clear"}
    BY <1>1 DEF StartTick, LockForTransition, LockForFrame, LockForEnable, vars
  <2> QED BY <2>1
<1>2. CASE TransitionUnneeded \/ NothingToAcknowledge \/ ClearBoundary
  <2>1. /\ UNCHANGED <<now, mode, frame, task, outVars>>
        /\ \/ task # "control"
           \/ pc = "transition" /\ UNCHANGED wake
           \/ wake' = wake + ControlPeriod
    BY <1>2 DEF TransitionUnneeded, NothingToAcknowledge, ClearBoundary, EndOfTick
  <2> QED BY <2>1
<1>3. CASE PublishEntering
  <2>1. /\ UNCHANGED <<now, frame, task, wake, outVars>>
        /\ mode'.enabled = FALSE /\ mode'.epoch = mode.epoch + 1
    BY <1>3 DEF PublishEntering
  <2> QED BY <2>1
<1>4. CASE ArmBoundary
  <2>1. /\ UNCHANGED <<now, mode, frame, task, outVars>> /\ ~mode.enabled
        /\ task = "control" => UNCHANGED wake
    BY <1>4 DEF ArmBoundary, EndOfTick, BoundaryArmed
  <2> QED BY <2>1
<1>5. CASE PublishFrame
  <2>1. /\ UNCHANGED <<now, mode, task, wake, outVars>> /\ pc = "publish" /\ pc' = "acknowledge"
        /\ frame'.epoch = mode.epoch /\ frame'.time = start
        /\ frame'.volts # 0 => mode.enabled
    BY <1>5 DEF PublishFrame
  <2>2. task = "control" /\ wake <= start
    BY <2>1 DEF EnableInv, BoundaryArmed
  <2> QED BY <2>1, <2>2
<1>6. CASE PublishEnable
  <2>1. /\ UNCHANGED <<now, frame, task, wake, outVars>> /\ pc' = "clear"
        /\ mode'.epoch = mode.epoch
    BY <1>6 DEF PublishEnable, TypeOK, ModeSnapshot
  <2> QED BY <2>1
<1>7. ASSUME NEW next \in {"control", "callback"}, Kill(next) \/ Boot(next) PROVE MakeInv'
  <2>1. /\ UNCHANGED <<now, mode, frame, outVars>> /\ task' = next
        /\ next = "control" => wake' = now /\ task # "control" /\ pc = "returned"
    BY <1>7 DEF Kill, Boot, EnableInv
  <2>2. next = "control" => ~mode.enabled
    BY <2>1 DEF EnableInv, isEnabledMode
  <2> QED BY <2>1, <2>2
<1>8. CASE OutputReadFrame
  <2>1. /\ UNCHANGED <<now, mode, frame, task, pc, wake, motor>> /\ outFrame' = frame
        /\ outPc = "due" /\ outPc' = "read"
    BY <1>8 DEF OutputReadFrame
  <2> QED BY <2>1
<1>9. CASE OutputWrite
  <2>1. UNCHANGED <<now, mode, frame, outFrame, task, pc, wake>>
    BY <1>9 DEF OutputWrite
  <2>2. motor'.volts # 0 => motor'.epoch = mode.epoch
    BY <1>9 DEF OutputWrite, Accepts, TypeOK
  <2>3. motor'.epoch <= mode.epoch
    BY <1>9 DEF OutputWrite, Accepts, TypeOK
  <2> QED BY <2>1, <2>2, <2>3
<1>10. CASE Advance
  <2>1. /\ UNCHANGED <<mode, frame, outFrame, task, pc, wake, motor>> /\ now' = now + 1
        /\ outPc = "done" /\ outPc' = "due" /\ OnTime
    BY <1>10 DEF Advance, NoOrphan, OutputBlocked
  <2>2. task = "control" => now < wake + MaxLate
    BY <2>1 DEF OnTime, EnableInv
  <2> QED BY <2>1, <2>2
<1> QED BY NextIsActions, <1>1, <1>2, <1>3, <1>4, <1>5, <1>6, <1>7, <1>8, <1>9, <1>10
        DEF Actions

\* A step of the runtime is one of the motors' contract, or changes nothing of it.
LEMMA StepKeepsContract ==
    ASSUME MaxLate + 1 < ControlPeriod, TypeOK, TypeOK', MakeInv, [Next]_vars
    PROVE  [Contract!Break \/ Contract!Make]_(Contract!vars)
<1> USE DEF Contract!Break, Contract!Make, Contract!vars
<1>1. CASE OutputWrite
  <2>1. CASE motor'.volts # 0
    <3>1. /\ Accepts(outFrame, now) /\ outFrame.volts # 0
          /\ motor'.epoch = mode.epoch /\ outFrame.epoch = mode.epoch
          /\ outPc = "read"
      BY <1>1, <2>1 DEF OutputWrite, Accepts, TypeOK
    <3>2. outFrame.time <= now /\ outFrame.time \in Nat /\ now \in Nat
      BY <3>1 DEF Accepts, Fresh, TypeOK, ActuatorFrame
    <3>3. ~Outdated
      <4>1. Outdated => now + ControlPeriod <= outFrame.time + MaxLate + 1
        BY <3>1 DEF MakeInv, WrittenUntil
      <4> QED BY <3>2, <4>1, RuntimeAssumption
    <3>4. motor'.epoch \in Nat /\ motor.epoch <= motor'.epoch
      BY <3>1 DEF MakeInv, TypeOK
    <3>5. CASE motor.volts = 0
      BY <2>1, <3>4, <3>5
    <3>6. CASE motor.volts # 0
      BY <2>1, <3>1, <3>3, <3>6 DEF Outdated
    <3> QED BY <3>5, <3>6
  <2>2. CASE motor'.volts = 0
    <3>1. motor'.epoch = motor.epoch
      BY <1>1, <2>2 DEF OutputWrite, TypeOK
    <3> QED BY <2>2, <3>1
  <2> QED BY <2>1, <2>2
<1>2. CASE ~OutputWrite
  <2>1. UNCHANGED motor
    BY <1>2, NextIsActions
       DEF Actions, StartTick, TransitionUnneeded, LockForTransition, PublishEntering, ArmBoundary,
           LockForFrame, PublishFrame, NothingToAcknowledge, LockForEnable, PublishEnable,
           ClearBoundary, Kill, Boot, OutputReadFrame, Advance, vars, outVars
  <2> QED BY <2>1
<1> QED BY <1>1, <1>2

\* It always holds, however late the control loop is.
LEMMA MakeInvariant ==
    ASSUME KillHoldingLock = FALSE, DirectRestart = FALSE, MaxLate < RestartGap
    PROVE  Spec => [](TypeOK /\ MakeInv)
<1> DEFINE Known == TypeOK /\ NoOrphan /\ BoundaryArmed /\ EnableInv
<1>1. Spec => []Known
  BY RuntimeInvariant
<1>2. Init => MakeInv
  BY RuntimeAssumption DEF Init, MakeInv, Outdated, Stopped
<1>3. Known /\ Known' /\ MakeInv /\ [Next]_vars => MakeInv'
  BY MakeInductive
<1>4. Known => TypeOK
  OBVIOUS
<1> HIDE DEF Known
<1> QED BY <1>1, <1>2, <1>3, <1>4, PTL DEF Spec

\* Break before make at the motors, with a sharp bound: if the control loop is late by
\* less than its period less one output period, and the tasks are deleted as above,
\* the runtime implements the contract of the motors.
THEOREM RuntimeKeepsContract ==
    ASSUME KillHoldingLock = FALSE, DirectRestart = FALSE, MaxLate < RestartGap,
           MaxLate + 1 < ControlPeriod
    PROVE  Spec => KeepsContract
<1>1. Init => Contract!Init
  BY DEF Init, Stopped, Contract!Init
<1>2. TypeOK /\ TypeOK' /\ MakeInv /\ [Next]_vars =>
        [Contract!Break \/ Contract!Make]_(Contract!vars)
  BY StepKeepsContract
<1> QED BY <1>1, <1>2, MakeInvariant, PTL DEF Spec, KeepsContract, Contract!Spec

\* So, under that bound, between the voltages of two mode epochs the output task has
\* written a stop; a loop that is later breaks it, as TLC shows.
THEOREM MotorsBreakBeforeMake ==
    ASSUME KillHoldingLock = FALSE, DirectRestart = FALSE, MaxLate < RestartGap,
           MaxLate + 1 < ControlPeriod
    PROVE  Spec => BreakBeforeMake
<1>1. TypeOK /\ TypeOK' /\ MakeInv /\ [Next]_vars =>
        [motor.volts # 0 /\ motor'.volts # 0 => motor'.epoch = motor.epoch]_motor
  BY StepKeepsContract DEF Contract!Break, Contract!Make, Contract!vars
<1> QED BY <1>1, MakeInvariant, PTL DEF Spec, BreakBeforeMake

-----------------------------------------------------------------------------
(* What the components that only read the mode take for granted of it      *)
(* (ModeAndTime): with whatever deletions and restarts, also inside a      *)
(* critical section, and however late the loop is.                         *)

\* A transition opens the next epoch, which is not enabled, in another mode or field
\* state; and an epoch whose mode may be enabled is enabled, once, and changes in
\* nothing else: an epoch, once given out, tells which mode it was given out in.
Opens   == /\ mode'.epoch = mode.epoch + 1 /\ ~mode'.enabled
           /\ mode'.mode # mode.mode \/ mode'.field # mode.field
Enables == /\ isEnabledMode(mode.mode) /\ ~mode.enabled
           /\ mode' = [mode EXCEPT !.enabled = TRUE]
ModeMoves == [][Opens \/ Enables]_mode

\* What is pending is what the epoch of the armed boundary may become; a boundary that
\* a deleted task left behind is of this epoch or of one that is over.
PendingInv ==
    /\ boundary <= mode.epoch
    /\ boundary # 0 /\ boundary = mode.epoch => pendingEnable = isEnabledMode(mode.mode)
    /\ mode.enabled => isEnabledMode(mode.mode)
    /\ pc = "entering" => mode.mode # request.mode \/ mode.field # request.field
    /\ pc = "arm" => mode.mode = request.mode
    /\ pc = "enable" => boundary # 0 /\ boundary = mode.epoch

LEMMA PendingInductive ==
    ASSUME TypeOK, PendingInv, [Next]_vars
    PROVE  PendingInv' /\ [Opens \/ Enables]_mode
<1> /\ mode.enabled \in BOOLEAN /\ mode.epoch \in Nat /\ boundary \in Nat /\ pendingEnable \in BOOLEAN
    /\ mode \in ModeSnapshot
  BY DEF TypeOK, ModeSnapshot
<1> USE DEF PendingInv, boxVars, managerVars, taskVars, outVars
<1>1. CASE StartTick
  BY <1>1 DEF StartTick
<1>2. CASE TransitionUnneeded \/ NothingToAcknowledge
  BY <1>2 DEF TransitionUnneeded, NothingToAcknowledge, EndOfTick
<1>3. CASE LockForTransition
  BY <1>3 DEF LockForTransition
<1>4. CASE PublishEntering
  <2>1. /\ mode'.mode = request.mode /\ mode'.field = request.field
        /\ mode'.enabled = FALSE /\ mode'.epoch = mode.epoch + 1
        /\ UNCHANGED <<boundary, pendingEnable, request>> /\ pc = "entering" /\ pc' = "arm"
    BY <1>4 DEF PublishEntering
  <2>2. Opens
    BY <2>1 DEF Opens
  <2> QED BY <2>1, <2>2
<1>5. CASE ArmBoundary
  BY <1>5 DEF ArmBoundary, EndOfTick
<1>6. CASE LockForFrame \/ PublishFrame
  BY <1>6 DEF LockForFrame, PublishFrame
<1>7. CASE LockForEnable
  BY <1>7 DEF LockForEnable
<1>8. CASE PublishEnable
  <2>1. /\ mode' = [mode EXCEPT !.enabled = pendingEnable]
        /\ UNCHANGED <<boundary, pendingEnable, request>> /\ pc = "enable" /\ pc' = "clear"
    BY <1>8 DEF PublishEnable
  <2>2. pendingEnable = isEnabledMode(mode.mode)
    BY <2>1
  <2>3. mode'.mode = mode.mode /\ mode'.epoch = mode.epoch /\ mode'.enabled = pendingEnable
    BY <2>1 DEF ModeSnapshot
  <2>4. CASE mode.enabled = pendingEnable
    <3>1. mode' = mode
      BY <2>1, <2>4 DEF ModeSnapshot
    <3> QED BY <2>1, <3>1
  <2>5. CASE mode.enabled # pendingEnable
    <3>1. ~mode.enabled /\ pendingEnable = TRUE /\ isEnabledMode(mode.mode)
      BY <2>2, <2>5
    <3>2. Enables
      BY <2>1, <3>1 DEF Enables
    <3> QED BY <2>1, <2>2, <2>3, <3>2
  <2> QED BY <2>4, <2>5
<1>9. CASE ClearBoundary
  BY <1>9 DEF ClearBoundary, EndOfTick
<1>10. ASSUME NEW next \in {"control", "callback"}, Kill(next) \/ Boot(next)
       PROVE  PendingInv' /\ [Opens \/ Enables]_mode
  BY <1>10 DEF Kill, Boot
<1>11. CASE OutputReadFrame \/ OutputWrite \/ Advance \/ UNCHANGED vars
  BY <1>11 DEF OutputReadFrame, OutputWrite, Advance, vars
<1> QED BY NextIsActions, <1>1, <1>2, <1>3, <1>4, <1>5, <1>6, <1>7, <1>8, <1>9, <1>10, <1>11
        DEF Actions

\* So the mode moves as its readers take for granted, for every value of the constants.
THEOREM ModeMovesAsAssumed == Spec => ModeMoves
<1>1. Init => PendingInv
  BY DEF Init, PendingInv
<1>2. TypeOK /\ PendingInv /\ [Next]_vars => PendingInv' /\ [Opens \/ Enables]_mode
  BY PendingInductive
<1> QED BY TypeCorrect, <1>1, <1>2, PTL DEF Spec, ModeMoves
=============================================================================
