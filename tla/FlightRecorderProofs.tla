------------------------ MODULE FlightRecorderProofs ------------------------
(***************************************************************************)
(* Proofs about FlightRecorder, for every ring, batch and bound: types,    *)
(* the cycle of the session state, the agreement of the worker's file with *)
(* that state, and what a committed file holds.                            *)
(***************************************************************************)
EXTENDS FlightRecorder, TLAPS, SequenceTheorems

\* The steps of the recorder, each by its name.
LEMMA NextIsSteps ==
    Next <=> \/ ObserveInvalid \/ ObserveDown \/ ObserveUp(TRUE) \/ ObserveUp(FALSE)
             \/ RequestOpen \/ Capture \/ Disable \/ RequestStop \/ Enable
             \/ WorkerTick \/ SinkBegin \/ SessionOpened \/ MarkRecording \/ AbortUnmarked
             \/ PopFrame \/ WriteBatch \/ NothingToDrain
             \/ CheckClosing \/ SinkFinish \/ DiscardUnopened \/ MarkIdle
             \/ FailAbort \/ FailDiscard \/ FailIdle \/ FailAlert
  BY DEF Next, CompetitionTask, Worker

-----------------------------------------------------------------------------
(* Which steps change what.                                                *)

\* The steps that touch the ring or its drop counters.
LEMMA RingChanges ==
    ASSUME [Next]_vars
    PROVE  \/ Capture \/ SessionOpened \/ PopFrame \/ DiscardUnopened \/ FailDiscard
           \/ UNCHANGED <<ring, dropped, dropsAtOpen>>
<1> USE DEF controlVars, pressVars, producerVars, ringVars, workerVars, otherVars
<1>1. CASE ObserveInvalid \/ ObserveDown \/ ObserveUp(TRUE) \/ ObserveUp(FALSE) \/ RequestOpen \/ Disable \/ RequestStop \/ Enable
  BY <1>1 DEF ObserveInvalid, ObserveDown, ObserveUp, RequestOpen, Disable,
     RequestStop, Enable
<1>2. CASE WorkerTick \/ SinkBegin \/ MarkRecording \/ AbortUnmarked \/
        WriteBatch \/ NothingToDrain \/ CheckClosing \/ SinkFinish \/ MarkIdle
        \/ FailAbort \/ FailIdle \/ FailAlert
  BY <1>2 DEF WorkerTick, SinkBegin, NewFile, MarkRecording, AbortUnmarked, WriteBatch, WithBlock,
     NothingToDrain, CheckClosing, SinkFinish, WithFooter, MarkIdle, FailAbort, FailIdle,
     FailAlert
<1>3. CASE UNCHANGED vars
  BY <1>3 DEF vars
<1> QED BY <1>1, <1>2, <1>3, NextIsSteps

\* The steps that touch the block under way or a file.
LEMMA BlockChanges ==
    ASSUME [Next]_vars
    PROVE  \/ SinkBegin \/ AbortUnmarked \/ PopFrame \/ WriteBatch \/ SinkFinish \/ FailAbort
           \/ UNCHANGED <<batch, file, committed>>
<1> USE DEF controlVars, pressVars, producerVars, ringVars, workerVars, otherVars
<1>1. CASE ObserveInvalid \/ ObserveDown \/ ObserveUp(TRUE) \/ ObserveUp(FALSE) \/ RequestOpen \/ Capture \/ Disable \/ RequestStop \/ Enable
  BY <1>1 DEF ObserveInvalid, ObserveDown, ObserveUp, RequestOpen, Capture,
     Disable, RequestStop, Enable
<1>2. CASE WorkerTick \/ SessionOpened \/ MarkRecording \/ NothingToDrain \/
        CheckClosing \/ DiscardUnopened \/ MarkIdle \/ FailDiscard \/ FailIdle
        \/ FailAlert
  BY <1>2 DEF WorkerTick, SessionOpened, MarkRecording, NothingToDrain,
     CheckClosing, DiscardUnopened, MarkIdle, FailDiscard, FailIdle, FailAlert
<1>3. CASE UNCHANGED vars
  BY <1>3 DEF vars
<1> QED BY <1>1, <1>2, <1>3, NextIsSteps

-----------------------------------------------------------------------------
(* What holds at each step of the worker.  The competition task comes in   *)
(* between any two of them, and can start a session or ask for a stop.     *)

PressInv ==
    /\ pressValid => pressState \in {"Idle", "Recording"}
    /\ pc = "opening" => state = "Idle"

StartPcs == {"top", "drain", "close", "failAlert"}   \* where the state may be Idle

WorkerInv ==
    /\ state = "Idle" => wpc \in StartPcs
    /\ wpc \in {"begin", "opened", "mark"} => state \in {"Opening", "Closing"}
    /\ wpc \in {"unmarked", "finish", "discard", "finished"} => state = "Closing"
    /\ state = "Recording" =>
          sessionOpen \/ wpc \in {"failed", "failDiscard", "failIdle"}
    /\ wpc = "failAlert" => state \in {"Idle", "Opening", "Closing"}

FileInv ==
    /\ wpc \in {"top", "drain", "close"} =>
          (sessionOpen => state \in {"Recording", "Closing"}) /\ file.open = sessionOpen
    /\ wpc \in {"begin", "discard", "failDiscard", "failIdle", "failAlert"} =>
          ~sessionOpen /\ file.open = FALSE
    /\ wpc = "opened" => ~sessionOpen /\ file.open = TRUE
    /\ wpc \in {"mark", "unmarked", "finish"} => sessionOpen /\ file.open = TRUE
    /\ wpc = "finished" => file.open = FALSE

\* TypeOK, in four parts.
ControlTypes ==
    /\ state \in States /\ session \in Nat /\ alerts \in Nat /\ available \in BOOLEAN
    /\ buttonDown \in BOOLEAN /\ pressValid \in BOOLEAN /\ pressState \in States
    /\ lastState \in States /\ task \in {"control", "callback"}
    /\ pc \in {"sleep", "opening", "capture", "stop", "returned"} /\ event \in Events
    /\ kills \in Nat /\ captured \in Nat /\ early \in Nat
WorkerTypes == wpc \in WorkerPcs /\ sessionOpen \in BOOLEAN
RingTypes ==
    /\ ring \in Seq(Frame) /\ Len(ring) <= Capacity
    /\ dropped \in Nat /\ dropsAtOpen \in Nat /\ dropsAtOpen <= dropped
BlockTypes ==
    /\ batch \in Seq(Frame) /\ Len(batch) <= BatchSize
    /\ file \in [open : BOOLEAN, session : Nat, frames : Seq(Frame)]
    /\ committed \in Seq([session : Nat, frames : Seq(Frame), drops : Nat,
                          captured : Nat, early : Nat])

Types == ControlTypes /\ WorkerTypes /\ RingTypes /\ BlockTypes

IInv == Types /\ PressInv /\ WorkerInv /\ FileInv

LEMMA TypesAreTypeOK == Types => TypeOK
  BY DEF Types, ControlTypes, WorkerTypes, RingTypes, BlockTypes, TypeOK

LEMMA InvInit == ASSUME Init PROVE IInv
<1>1. Types
  <2>1. ControlTypes /\ WorkerTypes
    BY DEF Init, States, Events, WorkerPcs, ControlTypes, WorkerTypes
  <2>2. RingTypes
    BY RecorderAssumption DEF Init, RingTypes
  <2>3. NoFile \in [open : BOOLEAN, session : Nat, frames : Seq(Frame)]
    BY DEF NoFile
  <2>4. BlockTypes
    BY <2>3, RecorderAssumption DEF Init, BlockTypes
  <2> QED BY <2>1, <2>2, <2>4 DEF Types
<1>2. PressInv /\ WorkerInv /\ FileInv
  BY DEF Init, NoFile, StartPcs, PressInv, WorkerInv, FileInv
<1> QED BY <1>1, <1>2 DEF IInv

-----------------------------------------------------------------------------
(* Each part is kept by every step.                                        *)

LEMMA ControlTypesStep == ASSUME IInv, [Next]_vars PROVE ControlTypes'
<1> USE DEF IInv, Types, ControlTypes, RingTypes, States, Events, controlVars, pressVars,
            producerVars, ringVars, workerVars, otherVars
<1>1. CASE ObserveInvalid \/ ObserveDown
  <2>1. CASE ObserveInvalid
    BY <2>1 DEF ObserveInvalid, CancelPress
  <2>2. CASE ObserveDown
    <3>1. pressValid' \in BOOLEAN
      <4>1. CASE buttonDown
        BY <2>2, <4>1, Zenon DEF ObserveDown
      <4>2. CASE ~buttonDown
        <5>1. pressValid' = (state = "Idle" \/ state = "Recording")
          BY <2>2, <4>2 DEF ObserveDown
        <5> QED BY <5>1, Zenon
      <4> QED BY <4>1, <4>2
    <3>2. pressState' \in States
      BY <2>2, Zenon DEF ObserveDown
    <3> QED BY <2>2, <3>1, <3>2 DEF ObserveDown
  <2> QED BY <1>1, <2>1, <2>2
<1>2. ASSUME NEW long \in BOOLEAN, ObserveUp(long) PROVE ControlTypes'
  <2>1. buttonDown' \in BOOLEAN /\ pressValid' \in BOOLEAN /\ pressState' \in States
    BY <1>2, Zenon DEF ObserveUp
  <2>2. /\ state' \in States /\ session' \in Nat /\ alerts' \in Nat
        /\ captured' \in Nat /\ early' \in Nat
    BY <1>2 DEF ObserveUp
  <2>3. /\ pc' \in {"sleep", "opening", "capture", "stop", "returned"}
        /\ event' \in Events
    BY <1>2 DEF ObserveUp
  <2> QED BY <1>2, <2>1, <2>2, <2>3 DEF ObserveUp
<1>3. CASE RequestOpen
  BY <1>3 DEF RequestOpen
<1>4. CASE Capture
  <2>1. captured' \in Nat /\ early' \in Nat
    BY <1>4 DEF Capture
  <2> QED BY <1>4, <2>1 DEF Capture
<1>5. CASE Disable \/ RequestStop \/ Enable
  <2>1. buttonDown' \in BOOLEAN /\ pressValid' \in BOOLEAN /\ pressState' \in States
    BY <1>5, Zenon DEF Disable, RequestStop, Enable, CancelPress
  <2> QED BY <1>5, <2>1 DEF Disable, RequestStop, Enable
<1>6. CASE MarkRecording \/ MarkIdle
  BY <1>6 DEF MarkRecording, MarkIdle
<1>7. CASE FailIdle \/ FailAlert
  BY <1>7 DEF FailIdle, FailAlert
<1>8. CASE WorkerTick \/ SinkBegin \/ SessionOpened \/ AbortUnmarked \/
        PopFrame \/ WriteBatch \/ NothingToDrain \/ CheckClosing \/ SinkFinish
        \/ DiscardUnopened \/ FailAbort \/ FailDiscard
  BY <1>8 DEF WorkerTick, SinkBegin, NewFile, SessionOpened, AbortUnmarked, PopFrame,
     WriteBatch, WithBlock, NothingToDrain, CheckClosing, SinkFinish, WithFooter, DiscardUnopened,
     FailAbort, FailDiscard
<1>9. CASE UNCHANGED vars
  BY <1>9 DEF vars
<1> QED BY <1>1, <1>2, <1>3, <1>4, <1>5, <1>6, <1>7, <1>8, <1>9, NextIsSteps

LEMMA WorkerTypesStep == ASSUME IInv, [Next]_vars PROVE WorkerTypes'
<1> USE DEF IInv, Types, WorkerTypes, WorkerPcs, controlVars, pressVars, producerVars,
            ringVars, workerVars, otherVars
<1>1. CASE ObserveInvalid \/ ObserveDown \/ ObserveUp(TRUE) \/ ObserveUp(FALSE)
        \/ RequestOpen \/ Capture \/ Disable \/ RequestStop \/ Enable
  BY <1>1 DEF ObserveInvalid, ObserveDown, ObserveUp, RequestOpen, Capture,
     Disable, RequestStop, Enable
<1>2. CASE WorkerTick \/ SinkBegin \/ SessionOpened \/ MarkRecording \/
        AbortUnmarked \/ PopFrame \/ WriteBatch \/ NothingToDrain \/
        CheckClosing \/ SinkFinish \/ DiscardUnopened \/ MarkIdle \/ FailAbort
        \/ FailDiscard \/ FailIdle \/ FailAlert
  BY <1>2 DEF WorkerTick, SinkBegin, NewFile, SessionOpened, MarkRecording,
     AbortUnmarked, PopFrame, WriteBatch, WithBlock, NothingToDrain, CheckClosing,
     SinkFinish, WithFooter, DiscardUnopened, MarkIdle, FailAbort, FailDiscard, FailIdle,
     FailAlert
<1>3. CASE UNCHANGED vars
  BY <1>3 DEF vars
<1> QED BY <1>1, <1>2, <1>3, NextIsSteps

LEMMA RingTypesStep == ASSUME IInv, [Next]_vars PROVE RingTypes'
<1> USE DEF IInv, Types, RingTypes
<1>1. CASE Capture
  <2>1. ASSUME NEW f \in Frame, Len(ring) < Capacity
        PROVE  Append(ring, f) \in Seq(Frame) /\ Len(Append(ring, f)) <= Capacity
    BY <2>1, RecorderAssumption
  <2>2. [session |-> session, number |-> captured + 1,
         event |-> IF lastState = "Opening" /\ state = "Recording" THEN "Started" ELSE event]
        \in Frame
    BY DEF ControlTypes, Frame, Events
  <2> QED BY <1>1, <2>1, <2>2 DEF Capture, ringVars, workerVars
<1>2. CASE SessionOpened
  BY <1>2 DEF SessionOpened, ringVars
<1>3. CASE PopFrame
  BY <1>3, RecorderAssumption DEF PopFrame
<1>4. CASE DiscardUnopened \/ FailDiscard
  <2>1. <<>> \in Seq(Frame) /\ Len(<<>>) <= Capacity
    BY RecorderAssumption
  <2> QED BY <1>4, <2>1 DEF DiscardUnopened, FailDiscard, ringVars
<1>5. CASE UNCHANGED <<ring, dropped, dropsAtOpen>>
  BY <1>5
<1> QED BY <1>1, <1>2, <1>3, <1>4, <1>5, RingChanges

\* A library fact, for elements of any kind.
LEMMA AppendInSeq ==
    ASSUME NEW S, NEW s \in Seq(S), NEW e \in S
    PROVE  Append(s, e) \in Seq(S)
  OBVIOUS

LEMMA BlockTypesStep == ASSUME IInv, [Next]_vars PROVE BlockTypes'
<1> USE DEF IInv, Types, BlockTypes
<1>0. /\ NoFile \in [open : BOOLEAN, session : Nat, frames : Seq(Frame)]
      /\ session \in Nat /\ captured \in Nat /\ early \in Nat
      /\ dropped - dropsAtOpen \in Nat
  BY DEF NoFile, ControlTypes, RingTypes
<1>1. CASE SinkBegin
  <2>1. ASSUME NEW open \in BOOLEAN
        PROVE  [open |-> open, session |-> session, frames |-> <<>>]
                 \in [open : BOOLEAN, session : Nat, frames : Seq(Frame)]
    BY <1>0
  <2>2. file' \in [open : BOOLEAN, session : Nat, frames : Seq(Frame)]
    BY <1>1, <2>1 DEF SinkBegin, NewFile
  <2> QED BY <1>1, <2>2 DEF SinkBegin, NewFile
<1>2. CASE AbortUnmarked \/ FailAbort
  BY <1>0, <1>2 DEF AbortUnmarked, FailAbort
<1>3. CASE PopFrame
  <2>1. Head(ring) \in Frame
    BY <1>3 DEF PopFrame, RingTypes
  <2>2. Append(batch, Head(ring)) \in Seq(Frame) /\ Len(Append(batch, Head(ring))) <= BatchSize
    BY <1>3, <2>1, RecorderAssumption DEF PopFrame
  <2> QED BY <1>3, <2>2 DEF PopFrame
<1>4. CASE WriteBatch
  <2>1. file.frames \o batch \in Seq(Frame) /\ <<>> \in Seq(Frame) /\ Len(<<>>) <= BatchSize
    BY RecorderAssumption
  <2>2. [file EXCEPT !.frames = file.frames \o batch]
          \in [open : BOOLEAN, session : Nat, frames : Seq(Frame)]
    BY <2>1
  <2> QED BY <1>4, <2>1, <2>2 DEF WriteBatch, WithBlock
<1>5. CASE SinkFinish
  <2>1. [session |-> file.session, frames |-> file.frames, drops |-> dropped - dropsAtOpen,
         captured |-> captured, early |-> early]
          \in [session : Nat, frames : Seq(Frame), drops : Nat, captured : Nat, early : Nat]
    BY <1>0
  <2>2. ASSUME NEW open \in BOOLEAN
        PROVE  [file EXCEPT !.open = open]
                 \in [open : BOOLEAN, session : Nat, frames : Seq(Frame)]
    OBVIOUS
  <2>3. committed' \in Seq([session : Nat, frames : Seq(Frame), drops : Nat,
                            captured : Nat, early : Nat])
    <3> DEFINE F == [session : Nat, frames : Seq(Frame), drops : Nat,
                     captured : Nat, early : Nat]
               f == [session |-> file.session, frames |-> file.frames,
                     drops |-> dropped - dropsAtOpen, captured |-> captured, early |-> early]
    <3>1. f \in F /\ committed \in Seq(F)
      BY <2>1
    <3>2. committed' = Append(committed, f) \/ committed' = committed
      BY <1>5 DEF SinkFinish, WithFooter
    <3> HIDE DEF F, f, BlockTypes, Types, IInv
    <3>3. committed' \in Seq(F)
      BY <3>1, <3>2, AppendInSeq
    <3> QED BY <3>3 DEF F
  <2>4. file' \in [open : BOOLEAN, session : Nat, frames : Seq(Frame)]
    BY <1>0, <1>5, <2>2 DEF SinkFinish, WithFooter
  <2> QED BY <1>5, <2>3, <2>4 DEF SinkFinish, WithFooter
<1>6. CASE UNCHANGED <<batch, file, committed>>
  BY <1>6
<1> QED BY <1>1, <1>2, <1>3, <1>4, <1>5, <1>6, BlockChanges

LEMMA PressStep == ASSUME IInv, [Next]_vars PROVE PressInv'
<1> USE DEF IInv, PressInv, controlVars, pressVars, producerVars, otherVars
<1>1. CASE ObserveInvalid \/ RequestStop
  BY <1>1 DEF ObserveInvalid, RequestStop, CancelPress
<1>2. CASE ObserveDown
  BY <1>2 DEF ObserveDown
<1>3. ASSUME NEW long \in BOOLEAN, ObserveUp(long) PROVE PressInv'
  <2>1. pressState' = pressState /\ (pressValid' => pressValid)
    BY <1>3 DEF ObserveUp
  <2>2. pc' = "opening" => state' = "Idle"
    BY <1>3 DEF ObserveUp, Acts
  <2> QED BY <2>1, <2>2
<1>4. CASE RequestOpen \/ Capture \/ Disable \/ Enable
  BY <1>4 DEF RequestOpen, Capture, Disable, Enable
<1>5. CASE Worker
  <2>1. pc \in {"sleep", "returned"} /\ UNCHANGED <<pc, pressValid, pressState>>
    BY <1>5 DEF Worker, WorkerAt, WorkerTick, SinkBegin, NewFile, SessionOpened,
       MarkRecording, AbortUnmarked, PopFrame, WriteBatch, WithBlock, NothingToDrain,
       CheckClosing, SinkFinish, WithFooter, DiscardUnopened, MarkIdle, FailAbort,
       FailDiscard, FailIdle, FailAlert
  <2> QED BY <2>1
<1>6. CASE UNCHANGED vars
  BY <1>6 DEF vars
<1> QED BY <1>1, <1>2, <1>3, <1>4, <1>5, <1>6 DEF Next, CompetitionTask

\* What the competition task can do to the state, wherever the worker is.
LEMMA CompetitionSteps ==
    ASSUME IInv, CompetitionTask
    PROVE  /\ UNCHANGED <<wpc, sessionOpen, file>>
           /\ \/ UNCHANGED state
              \/ state = "Idle" /\ state' = "Opening"
              \/ state \in {"Opening", "Recording"} /\ state' = "Closing"
<1> USE DEF IInv, PressInv, controlVars, workerVars
<1>1. ASSUME NEW long \in BOOLEAN, ObserveUp(long)
      PROVE  /\ UNCHANGED <<wpc, sessionOpen, file>>
             /\ UNCHANGED state \/ (state = "Recording" /\ state' = "Closing")
  BY <1>1 DEF ObserveUp
<1>2. CASE \E long \in BOOLEAN : ObserveUp(long)
  BY <1>1, <1>2
<1>3. CASE ObserveInvalid \/ ObserveDown \/ RequestOpen \/ Capture \/ Disable
           \/ RequestStop \/ Enable
  BY <1>3 DEF ObserveInvalid, ObserveDown, RequestOpen, Capture, Disable, RequestStop,
     Enable
<1> QED BY <1>2, <1>3 DEF CompetitionTask

LEMMA WorkerStep == ASSUME IInv, [Next]_vars PROVE WorkerInv' /\ FileInv'
<1> USE DEF IInv, WorkerInv, FileInv, StartPcs, controlVars
<1>0. state \in States /\ sessionOpen \in BOOLEAN
  BY DEF Types, ControlTypes, WorkerTypes
<1>1. CASE CompetitionTask
  <2>1. /\ UNCHANGED <<wpc, sessionOpen, file>>
        /\ \/ UNCHANGED state
           \/ state = "Idle" /\ state' = "Opening"
           \/ state \in {"Opening", "Recording"} /\ state' = "Closing"
    BY <1>1, CompetitionSteps
  <2>2. CASE UNCHANGED state
    BY <2>1, <2>2
  <2>3. CASE state = "Idle" /\ state' = "Opening"
    BY <2>1, <2>3
  <2>4. CASE state \in {"Opening", "Recording"} /\ state' = "Closing"
    BY <2>1, <2>4
  <2> QED BY <2>1, <2>2, <2>3, <2>4
<1>2. CASE WorkerTick
  BY <1>2 DEF WorkerTick, WorkerAt
<1>3. CASE SinkBegin
  BY <1>3 DEF SinkBegin, NewFile, WorkerAt
<1>4. CASE SessionOpened
  BY <1>4 DEF SessionOpened, WorkerAt
<1>5. CASE MarkRecording
  BY <1>5 DEF MarkRecording, WorkerAt
<1>6. CASE AbortUnmarked
  BY <1>6 DEF AbortUnmarked, WorkerAt, NoFile
<1>7. CASE PopFrame
  BY <1>7 DEF PopFrame, WorkerAt
<1>8. CASE WriteBatch
  BY <1>8 DEF WriteBatch, WithBlock, WorkerAt, Types, BlockTypes
<1>9. CASE NothingToDrain
  BY <1>9 DEF NothingToDrain, WorkerAt
<1>10. CASE CheckClosing
  BY <1>10 DEF CheckClosing, WorkerAt
<1>11. CASE SinkFinish
  <2>1. state = "Closing" /\ state' = state /\ sessionOpen' = sessionOpen
    BY <1>11 DEF SinkFinish, WithFooter, WorkerAt
  <2>2. \/ wpc' = "finished" /\ file' = NoFile
        \/ wpc' = "failed"
    BY <1>11 DEF SinkFinish, WithFooter
  <2> QED BY <2>1, <2>2 DEF NoFile
<1>12. CASE DiscardUnopened
  BY <1>12 DEF DiscardUnopened, WorkerAt
<1>13. CASE MarkIdle
  BY <1>13 DEF MarkIdle, WorkerAt
<1>14. CASE FailAbort
  BY <1>14 DEF FailAbort, WorkerAt, NoFile
<1>15. CASE FailDiscard
  BY <1>15 DEF FailDiscard, WorkerAt
<1>16. CASE FailIdle
  BY <1>16 DEF FailIdle, WorkerAt
<1>17. CASE FailAlert
  BY <1>0, <1>17 DEF FailAlert, WorkerAt, States
<1>18. CASE UNCHANGED vars
  BY <1>18 DEF vars, workerVars
<1> QED BY <1>1, <1>2, <1>3, <1>4, <1>5, <1>6, <1>7, <1>8, <1>9, <1>10, <1>11,
     <1>12, <1>13, <1>14, <1>15, <1>16, <1>17, <1>18
    DEF Next, Worker

LEMMA InvStep == ASSUME IInv, [Next]_vars PROVE IInv'
  BY ControlTypesStep, WorkerTypesStep, RingTypesStep, BlockTypesStep, PressStep, WorkerStep
  DEF IInv, Types

-----------------------------------------------------------------------------
(* The theorems.                                                           *)

LEMMA Invariance == Spec => []IInv
  BY InvInit, InvStep, PTL DEF Spec

\* The types, for every capacity, batch and bound; the ring never overflows.
THEOREM TypeCorrect == Spec => []TypeOK
<1>1. IInv => TypeOK
  BY TypesAreTypeOK DEF IInv
<1> QED BY <1>1, Invariance, PTL

\* Between its ticks the worker has a file open exactly while there is something
\* to record or to close, whatever fails and whenever it is preempted.
THEOREM WorkerAlwaysAgrees == Spec => []WorkerAgrees
<1>1. IInv => WorkerAgrees
  BY DEF IInv, WorkerInv, FileInv, WorkerAgrees
<1> QED BY <1>1, Invariance, PTL

\* The session state keeps to its cycle: no answer of the worker takes back a
\* stop that has been asked for.
THEOREM StateKeepsCycle == Spec => SessionCycle
<1> DEFINE Cycle == /\ state = "Idle"      => state' = "Opening"
                    /\ state = "Opening"   => state' # "Opening"
                    /\ state = "Recording" => state' \in {"Closing", "Idle"}
                    /\ state = "Closing"   => state' = "Idle"
<1>1. ASSUME IInv, [Next]_vars PROVE [Cycle]_state
  <2> USE DEF IInv, WorkerInv, StartPcs, controlVars
  <2>1. CASE CompetitionTask
    BY <1>1, <2>1, CompetitionSteps
  <2>2. CASE MarkRecording
    BY <1>1, <2>2 DEF MarkRecording, WorkerAt
  <2>3. CASE MarkIdle
    BY <1>1, <2>3 DEF MarkIdle, WorkerAt
  <2>4. CASE FailIdle
    BY <1>1, <2>4 DEF FailIdle, WorkerAt
  <2>5. CASE WorkerTick \/ SinkBegin \/ SessionOpened \/ AbortUnmarked \/
          PopFrame \/ WriteBatch \/ NothingToDrain \/ CheckClosing \/
          SinkFinish \/ DiscardUnopened \/ FailAbort \/ FailDiscard \/
          FailAlert
    BY <2>5 DEF WorkerTick, SinkBegin, NewFile, SessionOpened, AbortUnmarked, PopFrame,
       WriteBatch, WithBlock, NothingToDrain, CheckClosing, SinkFinish, WithFooter, DiscardUnopened,
       FailAbort, FailDiscard, FailAlert
  <2>6. CASE UNCHANGED vars
    BY <2>6 DEF vars
  <2> QED BY <1>1, <2>1, <2>2, <2>3, <2>4, <2>5, <2>6 DEF Next, Worker
<1> QED BY <1>1, Invariance, PTL DEF Spec, SessionCycle
-----------------------------------------------------------------------------
(* The frames of a session, from the capture to the file.                  *)

\* No failure has been met so far.
Healthy == /\ alerts = 0
           /\ wpc \notin {"unmarked", "failed", "failDiscard", "failIdle", "failAlert"}

\* The frames of the session that are on their way to the card, in order.
Pipeline == (file.frames \o batch) \o ring

\* Frames of one session, in order, none counted beyond last.
InOrder(frames, last) ==
    /\ \A i \in 1..Len(frames) : frames[i].session = session /\ frames[i].number <= last
    /\ \A i, j \in 1..Len(frames) : i < j => frames[i].number < frames[j].number

\* What was captured is in the pipeline, in the drops of the open file, or was early;
\* and the frame of the Start leads it.
Accounted ==
    /\ InOrder(Pipeline, captured)
    /\ Len(Pipeline) + early + (IF sessionOpen THEN dropped - dropsAtOpen ELSE 0) = captured
    /\ captured > 0 => Len(Pipeline) > 0 /\ Pipeline[1].event = "StartRequested"

\* Where the frames of a session can be, and who can still add to them.
PipelineInv ==
    Healthy =>
      /\ state = "Idle" => ring = <<>>
      /\ pc = "opening" => captured = 0 /\ early = 0 /\ event = "StartRequested"
      /\ wpc \in {"finish", "finished"} => ring = <<>>
      /\ batch # <<>> => wpc = "drain" /\ sessionOpen
      /\ IF file.open THEN file.session = session ELSE file.frames = <<>>
      /\ state # "Idle" /\ wpc # "finished" => Accounted
      /\ sessionOpen \/ wpc \in {"begin", "opened"} => captured > 0
      /\ state = "Recording" => sessionOpen
      /\ state = "Opening" /\ captured = 0 =>
            (pc = "capture" /\ event = "StartRequested") \/ pc = "stop"
      /\ pc = "capture" /\ event = "StopRequested" =>
            state = "Closing" /\ sessionOpen /\ wpc \in {"top", "drain", "close"}

\* A popped frame goes from the ring to the batch, and stays in its place.
LEMMA PopMoves ==
    \A a, b, r \in Seq(Frame) : r # <<>> =>
        (a \o Append(b, Head(r))) \o Tail(r) = (a \o b) \o r
<1> TAKE a, b, r \in Seq(Frame)
<1> HAVE r # <<>>
<1>1. /\ Append(b, Head(r)) \in Seq(Frame) /\ Tail(r) \in Seq(Frame) /\ Len(r) \in Nat
      /\ Len(a) \in Nat /\ Len(b) \in Nat /\ Len(r) > 0 /\ Head(r) = r[1]
      /\ Len(Tail(r)) = Len(r) - 1 /\ Len(Append(b, Head(r))) = Len(b) + 1
  OBVIOUS
<1>2. /\ a \o Append(b, Head(r)) \in Seq(Frame) /\ a \o b \in Seq(Frame)
      /\ Len(a \o Append(b, Head(r))) = Len(a) + Len(b) + 1 /\ Len(a \o b) = Len(a) + Len(b)
  BY <1>1
<1> DEFINE s == (a \o Append(b, Head(r))) \o Tail(r)
           t == (a \o b) \o r
<1>3. s \in Seq(Frame) /\ t \in Seq(Frame) /\ Len(s) = Len(t) /\ Len(t) = Len(a) + Len(b) + Len(r)
  BY <1>1, <1>2
<1>4. ASSUME NEW i \in 1..Len(t) PROVE s[i] = t[i]
  <2>1. CASE i <= Len(a)
    BY <1>1, <1>2, <1>3, <2>1
  <2>2. CASE Len(a) < i /\ i <= Len(a) + Len(b)
    BY <1>1, <1>2, <1>3, <2>2
  <2>3. CASE i = Len(a) + Len(b) + 1
    BY <1>1, <1>2, <1>3, <2>3
  <2>4. CASE i > Len(a) + Len(b) + 1
    BY <1>1, <1>2, <1>3, <2>4
  <2> QED BY <1>1, <1>3, <2>1, <2>2, <2>3, <2>4
<1> HIDE DEF s, t
<1>5. s = t
  BY <1>3, <1>4, SeqEqual
<1> QED BY <1>5 DEF s, t

\* A captured frame becomes the last of the pipeline.
LEMMA CaptureAppends ==
    \A a, r \in Seq(Frame) : \A f \in Frame : a \o Append(r, f) = Append(a \o r, f)
<1> TAKE a, r \in Seq(Frame)
<1> TAKE f \in Frame
<1>1. <<f>> \in Seq(Frame) /\ a \o r \in Seq(Frame)
  OBVIOUS
<1> QED BY <1>1, AppendIsConcat, ConcatAssociative

LEMMA AppendedInOrder ==
    ASSUME NEW s \in Seq(Frame), captured \in Nat, InOrder(s, captured),
           NEW f \in Frame, f.session = session, f.number = captured + 1
    PROVE  InOrder(Append(s, f), captured + 1)
<1> DEFINE t == Append(s, f)
<1>1. /\ Len(s) \in Nat /\ Len(t) = Len(s) + 1
      /\ \A i \in 1..Len(s) : t[i] = s[i]
      /\ t[Len(s) + 1] = f
  OBVIOUS
<1>2. \A i \in 1..Len(s) : s[i].number \in Nat /\ s[i].number <= captured
  <2>1. ASSUME NEW i \in 1..Len(s) PROVE s[i] \in Frame
    OBVIOUS
  <2> QED BY <2>1 DEF Frame, InOrder
<1> HIDE DEF t
<1>3. ASSUME NEW i \in 1..Len(t) PROVE t[i].session = session /\ t[i].number <= captured + 1
  <2>1. CASE i = Len(s) + 1
    BY <1>1, <2>1
  <2>2. CASE i # Len(s) + 1
    BY <1>1, <1>2, <2>2 DEF InOrder
  <2> QED BY <2>1, <2>2
<1>4. ASSUME NEW i \in 1..Len(t), NEW j \in 1..Len(t), i < j PROVE t[i].number < t[j].number
  <2>1. i \in 1..Len(s)
    BY <1>1, <1>4
  <2>2. CASE j = Len(s) + 1
    BY <1>1, <1>2, <2>1, <2>2
  <2>3. CASE j # Len(s) + 1
    BY <1>1, <1>4, <2>1, <2>3 DEF InOrder
  <2> QED BY <2>2, <2>3
<1>5. InOrder(t, captured + 1)
  BY <1>3, <1>4 DEF InOrder
<1> QED BY <1>5 DEF t

LEMMA AccountedStays ==
    ASSUME Accounted, Pipeline' = Pipeline,
           UNCHANGED <<session, captured, early, sessionOpen, dropped, dropsAtOpen>>
    PROVE  Accounted'
  BY DEF Accounted, InOrder

LEMMA PipelineTypes ==
    ASSUME Types
    PROVE  /\ file.frames \in Seq(Frame) /\ batch \in Seq(Frame) /\ ring \in Seq(Frame)
           /\ file.frames \o batch \in Seq(Frame) /\ Pipeline \in Seq(Frame)
           /\ Len(Pipeline) = Len(file.frames) + Len(batch) + Len(ring)
  BY DEF Types, BlockTypes, RingTypes, Pipeline

\* Alerts are only ever added.
LEMMA AlertsGrow == ASSUME IInv, [Next]_vars PROVE alerts' = 0 => alerts = 0
<1> USE DEF controlVars, otherVars
<1>0. alerts \in Nat
  BY DEF IInv, Types, ControlTypes
<1>1. ASSUME NEW long \in BOOLEAN, ObserveUp(long) PROVE alerts' = 0 => alerts = 0
  BY <1>0, <1>1 DEF ObserveUp
<1>2. CASE \E long \in BOOLEAN : ObserveUp(long)
  BY <1>1, <1>2
<1>3. CASE ObserveInvalid \/ ObserveDown \/ RequestOpen \/ Capture \/ Disable
           \/ RequestStop \/ Enable
  BY <1>3 DEF ObserveInvalid, ObserveDown, RequestOpen, Capture, Disable, RequestStop, Enable
<1>4. CASE Worker
  BY <1>0, <1>4 DEF Worker, WorkerTick, SinkBegin, SessionOpened, MarkRecording, AbortUnmarked,
     PopFrame, WriteBatch, NothingToDrain, CheckClosing, SinkFinish, DiscardUnopened, MarkIdle,
     FailAbort, FailDiscard, FailIdle, FailAlert
<1>5. CASE UNCHANGED vars
  BY <1>5 DEF vars
<1> QED BY <1>2, <1>3, <1>4, <1>5 DEF Next, CompetitionTask

\* Who has failed stays so until the alert is given.
LEMMA HealthyBefore == ASSUME IInv, [Next]_vars, Healthy' PROVE Healthy
<1> USE DEF Healthy, WorkerAt, workerVars
<1>0. alerts = 0
  BY AlertsGrow
<1>1. CASE CompetitionTask \/ UNCHANGED vars
  <2>1. wpc' = wpc
    BY <1>1, CompetitionSteps DEF vars
  <2> QED BY <1>0, <2>1
<1>2. CASE FailAlert
  BY <1>0, <1>2 DEF FailAlert
<1>3. CASE AbortUnmarked \/ FailAbort \/ FailDiscard \/ FailIdle
  BY <1>3 DEF AbortUnmarked, FailAbort, FailDiscard, FailIdle
<1>4. CASE WorkerTick \/ SinkBegin \/ SessionOpened \/ MarkRecording \/ PopFrame
           \/ WriteBatch \/ NothingToDrain \/ CheckClosing \/ SinkFinish \/ DiscardUnopened
           \/ MarkIdle
  BY <1>0, <1>4 DEF WorkerTick, SinkBegin, SessionOpened, MarkRecording, PopFrame, WriteBatch,
     NothingToDrain, CheckClosing, SinkFinish, DiscardUnopened, MarkIdle
<1> QED BY <1>1, <1>2, <1>3, <1>4 DEF Next, Worker

LEMMA PipelineNumbers ==
    ASSUME Types PROVE \A i \in 1..Len(Pipeline) : Pipeline[i].number \in Nat
<1>1. ASSUME NEW i \in 1..Len(Pipeline) PROVE Pipeline[i] \in Frame
  BY PipelineTypes, ElementOfSeq
<1> QED BY <1>1 DEF Frame

\* The competition task adds frames to a pipeline that is open to it.
LEMMA CompetitionKeepsPipeline ==
    ASSUME IInv, IInv', PipelineInv, CompetitionTask, Healthy
    PROVE  PipelineInv'
<1> USE DEF PipelineInv, controlVars, ringVars, workerVars, pressVars
<1>0. /\ state \in States /\ sessionOpen \in BOOLEAN /\ captured \in Nat /\ early \in Nat
      /\ session \in Nat /\ dropped \in Nat /\ dropsAtOpen \in Nat
  BY DEF IInv, Types, ControlTypes, WorkerTypes, RingTypes
<1>1. CASE ObserveInvalid \/ ObserveDown
  <2>1. /\ UNCHANGED <<state, session, ring, dropped, wpc, sessionOpen, dropsAtOpen, batch, file,
                       captured, early>>
        /\ pc = "sleep" /\ pc' = "capture" /\ event' = "None"
    BY <1>1 DEF ObserveInvalid, ObserveDown
  <2>2. Accounted => Accounted'
    BY <2>1, AccountedStays DEF Pipeline
  <2> QED BY <2>1, <2>2
<1>2. ASSUME NEW long \in BOOLEAN, ObserveUp(long) PROVE PipelineInv'
  <2>1. UNCHANGED <<ring, dropped, wpc, sessionOpen, dropsAtOpen, batch, file>> /\ pc = "sleep"
    BY <1>2 DEF ObserveUp
  <2>2. CASE UNCHANGED <<state, session, captured, early>> /\ pc' = "capture"
             /\ event' \in {"None", "Failed"}
    <3>1. Accounted => Accounted'
      BY <2>1, <2>2, AccountedStays DEF Pipeline
    <3> QED BY <2>1, <2>2, <3>1
  <2>3. CASE /\ state = "Recording" /\ state' = "Closing" /\ event' = "StopRequested"
             /\ pc' = "capture" /\ UNCHANGED <<session, captured, early>>
    <3>1. Accounted => Accounted'
      BY <2>1, <2>3, AccountedStays DEF Pipeline
    <3>2. sessionOpen /\ wpc \in {"top", "drain", "close"}
      BY <2>3 DEF IInv, WorkerInv, FileInv, Healthy, Types, WorkerTypes, WorkerPcs
    <3> QED BY <2>1, <2>3, <3>1, <3>2
  <2>4. CASE /\ state = "Idle" /\ UNCHANGED state /\ pc' = "opening"
             /\ captured' = 0 /\ early' = 0 /\ session' = session + 1
             /\ event' = "StartRequested"
    <3>1. ~sessionOpen /\ wpc \in {"top", "drain", "close"} /\ ~file.open
      BY <1>0, <2>4 DEF IInv, WorkerInv, FileInv, Healthy, StartPcs
    <3> QED BY <2>1, <2>4, <3>1
  <2>5. Acts(long) => state \in {"Idle", "Recording"}
    BY DEF Acts, IInv, PressInv
  <2> QED BY <1>2, <2>2, <2>3, <2>4, <2>5 DEF ObserveUp
<1>3. CASE RequestOpen
  <2>1. /\ UNCHANGED <<session, ring, dropped, wpc, sessionOpen, dropsAtOpen, batch, file,
                       captured, early, event>>
        /\ pc = "opening" /\ state' = "Opening" /\ pc' = "capture"
    BY <1>3 DEF RequestOpen
  <2>2. state = "Idle" /\ ring = <<>> /\ captured = 0 /\ early = 0
    BY <2>1 DEF IInv, PressInv
  <2>3. ~sessionOpen /\ wpc \in {"top", "drain", "close"} /\ ~file.open
    BY <1>0, <2>2 DEF IInv, WorkerInv, FileInv, Healthy, StartPcs
  <2>4. file.frames = <<>> /\ batch = <<>> /\ Pipeline = <<>>
    BY <2>2, <2>3 DEF Pipeline
  <2>5. Pipeline' = <<>>
    BY <2>1, <2>4 DEF Pipeline
  <2>6. Accounted'
    BY <2>1, <2>2, <2>3, <2>5 DEF Accounted, InOrder
  <2> QED BY <2>1, <2>2, <2>3, <2>4, <2>6
<1>4. CASE Capture
  <2> DEFINE started == lastState = "Opening" /\ state = "Recording"
             f == [session |-> session, number |-> captured + 1,
                   event |-> IF started THEN "Started" ELSE event]
  <2>1. /\ UNCHANGED <<state, session, wpc, sessionOpen, dropsAtOpen, batch, file, event>>
        /\ pc = "capture" /\ pc' = "sleep"
    BY <1>4 DEF Capture
  <2>2. CASE ~Captures(state, event)
    <3>1. UNCHANGED <<ring, dropped, captured, early>> /\ state \notin {"Opening", "Recording"}
      BY <1>4, <2>2 DEF Capture, Captures
    <3>2. Accounted => Accounted'
      BY <2>1, <3>1, AccountedStays DEF Pipeline
    <3> QED BY <2>1, <3>1, <3>2
  <2>3. CASE Captures(state, event)
    <3>1. state # "Idle" /\ wpc \notin {"finish", "finished"}
      BY <2>1, <2>3 DEF Captures, IInv, WorkerInv
    <3>2. Accounted
      BY <3>1
    <3>3. Pipeline \in Seq(Frame) /\ Len(Pipeline) \in Nat /\ Len(ring) \in Nat
          /\ Len(ring) <= Len(Pipeline)
      BY PipelineTypes DEF IInv
    <3>4. dropped - dropsAtOpen \in Nat
      BY DEF IInv, Types, RingTypes
    <3>5. captured = 0 => /\ state = "Opening" /\ event = "StartRequested" /\ ~started
                          /\ Len(Pipeline) = 0 /\ Len(ring) < Capacity
      <4>1. CASE captured = 0
        <5>1. state = "Opening" /\ event = "StartRequested"
          BY <2>1, <2>3, <4>1 DEF Captures
        <5>2. Len(Pipeline) = 0
          BY <1>0, <3>2, <3>3, <3>4, <4>1 DEF Accounted
        <5> QED BY <3>3, <5>1, <5>2, RecorderAssumption
      <4> QED BY <4>1
    <3>6. captured' = captured + 1
      BY <1>4, <2>3 DEF Capture
    <3>7. CASE Len(ring) < Capacity
      <4>1. ring' = Append(ring, f) /\ UNCHANGED <<dropped, early>>
        BY <1>4, <2>3, <3>7 DEF Capture
      <4>2. f \in Frame /\ f.session = session /\ f.number = captured + 1
        BY DEF Frame, Events, IInv, Types, ControlTypes
      <4>3. captured = 0 => f.event = "StartRequested"
        BY <3>5
      <4> HIDE DEF f
      <4>4. Pipeline' = Append(Pipeline, f)
        <5>1. Pipeline' = (file.frames \o batch) \o Append(ring, f)
          BY <2>1, <4>1 DEF Pipeline
        <5>2. file.frames \o batch \in Seq(Frame) /\ ring \in Seq(Frame) /\ f \in Frame
          BY <4>2, PipelineTypes DEF IInv
        <5> DEFINE a == file.frames \o batch
        <5>3. a \in Seq(Frame) /\ Pipeline' = a \o Append(ring, f) /\ Pipeline = a \o ring
          BY <5>1, <5>2 DEF Pipeline
        <5> HIDE DEF a
        <5>4. a \o Append(ring, f) = Append(a \o ring, f)
          BY <5>2, <5>3, CaptureAppends, Zenon
        <5> QED BY <5>3, <5>4
      <4>5. InOrder(Append(Pipeline, f), captured + 1)
        BY <1>0, <3>2, <3>3, <4>2, AppendedInOrder DEF Accounted
      <4>6. /\ Len(Append(Pipeline, f)) = Len(Pipeline) + 1
            /\ Append(Pipeline, f)[1] = IF Len(Pipeline) = 0 THEN f ELSE Pipeline[1]
        BY <3>3, <4>2
      <4>7. Accounted'
        <5>1. InOrder(Pipeline, captured)'
          BY <2>1, <3>6, <4>4, <4>5 DEF InOrder
        <5>2. (Len(Pipeline) + early + (IF sessionOpen THEN dropped - dropsAtOpen ELSE 0)
                 = captured)'
          BY <1>0, <2>1, <3>2, <3>3, <3>4, <3>6, <4>1, <4>4, <4>6 DEF Accounted
        <5>3. (Len(Pipeline) > 0 /\ Pipeline[1].event = "StartRequested")'
          <6>1. CASE captured = 0
            BY <3>5, <4>3, <4>4, <4>6, <6>1
          <6>2. CASE captured # 0
            BY <1>0, <3>2, <3>3, <4>4, <4>6, <6>2 DEF Accounted
          <6> QED BY <6>1, <6>2
        <5> QED BY <5>1, <5>2, <5>3 DEF Accounted
      <4> QED BY <1>0, <2>1, <3>1, <3>6, <4>7
    <3>8. CASE ~(Len(ring) < Capacity)
      <4>1. /\ ring' = ring /\ dropped' = dropped + 1
            /\ early' = IF sessionOpen THEN early ELSE early + 1
        BY <1>4, <2>3, <3>8 DEF Capture
      <4>2. captured # 0 /\ Pipeline' = Pipeline
        BY <2>1, <3>5, <3>8, <4>1 DEF Pipeline
      <4>3. InOrder(Pipeline, captured)'
        BY <1>0, <2>1, <3>2, <3>6, <4>2, PipelineNumbers DEF Accounted, InOrder, IInv
      <4>4. Accounted'
        BY <1>0, <2>1, <3>2, <3>3, <3>4, <3>6, <4>1, <4>2, <4>3 DEF Accounted
      <4> QED BY <1>0, <2>1, <3>1, <3>6, <4>1, <4>4
    <3> QED BY <3>7, <3>8
  <2> QED BY <2>2, <2>3
<1>5. CASE Disable \/ RequestStop \/ Enable
  <2>1. /\ UNCHANGED <<session, ring, dropped, wpc, sessionOpen, dropsAtOpen, batch, file,
                       captured, early>>
        /\ pc' \in {"stop", "returned", "sleep"}
        /\ pc' = "stop" => UNCHANGED state
        /\ pc' = "sleep" => UNCHANGED state /\ pc = "returned"
        /\ pc' = "returned" => state' \notin {"Opening", "Recording"}
        /\ UNCHANGED state \/ (state \in {"Opening", "Recording"} /\ state' = "Closing")
    BY <1>5 DEF Disable, RequestStop, Enable
  <2>2. Accounted => Accounted'
    BY <2>1, AccountedStays DEF Pipeline
  <2> QED BY <2>1, <2>2
<1> QED BY <1>1, <1>2, <1>3, <1>4, <1>5 DEF CompetitionTask

\* The worker passes them on, and empties the pipeline before the session ends.
LEMMA WorkerKeepsPipeline ==
    ASSUME IInv, PipelineInv, Worker, Healthy, Healthy'
    PROVE  PipelineInv'
<1> USE DEF PipelineInv, controlVars, otherVars, ringVars, pressVars, producerVars
<1>0. /\ captured \in Nat /\ dropped \in Nat /\ Len(Pipeline) \in Nat
      /\ pc \in {"sleep", "returned"} /\ UNCHANGED <<session, pc, event, captured, early, dropped>>
  <2>1. captured \in Nat /\ dropped \in Nat /\ Len(Pipeline) \in Nat
    BY PipelineTypes DEF IInv, Types, ControlTypes, RingTypes
  <2>2. pc \in {"sleep", "returned"} /\ UNCHANGED <<session, pc, event, captured, early, dropped>>
    BY DEF Worker, WorkerAt, WorkerTick, SinkBegin, SessionOpened, MarkRecording, AbortUnmarked,
       PopFrame, WriteBatch, NothingToDrain, CheckClosing, SinkFinish, DiscardUnopened, MarkIdle,
       FailAbort, FailDiscard, FailIdle, FailAlert
  <2> QED BY <2>1, <2>2
<1>1. CASE WorkerTick
  <2>1. /\ UNCHANGED <<state, ring, sessionOpen, dropsAtOpen, batch, file>> /\ wpc = "top"
        /\ \/ wpc' = "begin" /\ state = "Opening"
           \/ wpc' = "drain"
    BY <1>1 DEF WorkerTick, WorkerAt
  <2>2. Accounted => Accounted'
    BY <1>0, <2>1, AccountedStays DEF Pipeline
  <2> QED BY <1>0, <2>1, <2>2
<1>2. CASE SinkBegin
  <2>1. /\ UNCHANGED <<state, ring, sessionOpen, dropsAtOpen, batch>> /\ wpc = "begin"
        /\ file' = NewFile /\ wpc' = "opened"
    BY <1>2 DEF SinkBegin, WorkerAt, Healthy
  <2>2. file.frames = <<>> /\ ~sessionOpen
    BY <2>1 DEF IInv, FileInv
  <2>3. NewFile.open = TRUE /\ NewFile.session = session /\ NewFile.frames = <<>>
    BY DEF NewFile
  <2>4. Accounted => Accounted'
    BY <1>0, <2>1, <2>2, <2>3, AccountedStays DEF Pipeline
  <2> QED BY <1>0, <2>1, <2>2, <2>3, <2>4
<1>3. CASE SessionOpened
  <2>1. /\ UNCHANGED <<state, ring, batch, file>> /\ wpc = "opened"
        /\ sessionOpen' = TRUE /\ dropsAtOpen' = dropped /\ wpc' = "mark"
    BY <1>3 DEF SessionOpened, WorkerAt
  <2>2. ~sessionOpen /\ Pipeline' = Pipeline /\ state # "Idle"
    BY <2>1 DEF IInv, FileInv, WorkerInv, Pipeline
  <2>3. Accounted'
    BY <1>0, <2>1, <2>2 DEF Accounted, InOrder
  <2> QED BY <1>0, <2>1, <2>2, <2>3
<1>4. CASE MarkRecording
  <2>1. /\ UNCHANGED <<ring, sessionOpen, dropsAtOpen, batch, file>> /\ wpc = "mark"
        /\ state = "Opening" /\ state' = "Recording" /\ wpc' = "drain"
    BY <1>4 DEF MarkRecording, WorkerAt, Healthy
  <2>2. sessionOpen /\ Accounted
    BY <2>1 DEF IInv, FileInv
  <2>3. Accounted'
    BY <1>0, <2>1, <2>2, AccountedStays DEF Pipeline
  <2> QED BY <1>0, <2>1, <2>2, <2>3
<1>5. CASE PopFrame
  <2>1. /\ UNCHANGED <<state, wpc, sessionOpen, dropsAtOpen, file>> /\ wpc = "drain" /\ sessionOpen
        /\ state # "Idle"
        /\ ring # <<>> /\ batch' = Append(batch, Head(ring)) /\ ring' = Tail(ring)
    BY <1>5 DEF PopFrame, WorkerAt
  <2>2. /\ file.frames \in Seq(Frame) /\ batch \in Seq(Frame) /\ ring \in Seq(Frame)
    BY PipelineTypes DEF IInv
  <2>3. Pipeline' = (file.frames \o Append(batch, Head(ring))) \o Tail(ring)
    BY <2>1 DEF Pipeline
  <2>4. (file.frames \o Append(batch, Head(ring))) \o Tail(ring) = (file.frames \o batch) \o ring
    BY <2>1, <2>2, PopMoves, Zenon
  <2>5. Accounted'
    BY <1>0, <2>1, <2>3, <2>4, AccountedStays DEF Pipeline
  <2> QED BY <1>0, <2>1, <2>5
<1>6. CASE WriteBatch
  <2>1. /\ UNCHANGED <<state, ring, sessionOpen, dropsAtOpen>> /\ wpc = "drain" /\ sessionOpen
        /\ state # "Idle" /\ file' = WithBlock /\ wpc' = "close" /\ batch' = <<>>
    BY <1>6 DEF WriteBatch, WorkerAt, Healthy
  <2>2. /\ WithBlock.frames = file.frames \o batch
        /\ WithBlock.open = file.open /\ WithBlock.session = file.session
    BY DEF WithBlock, IInv, Types, BlockTypes
  <2>3. file.open
    BY <2>1 DEF IInv, FileInv
  <2>4. (file.frames \o batch) \o <<>> = file.frames \o batch
    BY PipelineTypes, ConcatEmptySeq DEF IInv
  <2>5. Pipeline' = Pipeline
    BY <2>1, <2>2, <2>4 DEF Pipeline
  <2>6. Accounted'
    BY <1>0, <2>1, <2>5, AccountedStays
  <2> QED BY <1>0, <2>1, <2>2, <2>3, <2>6
<1>7. CASE NothingToDrain \/ CheckClosing
  <2>1. /\ UNCHANGED <<state, ring, sessionOpen, dropsAtOpen, batch, file>>
        /\ \/ wpc = "drain" /\ ~(sessionOpen /\ state \in {"Recording", "Closing"})
           \/ wpc = "close"
        /\ \/ wpc' \in {"close", "top", "discard"}
           \/ wpc' = "finish" /\ ring = <<>>
    BY <1>7 DEF NothingToDrain, CheckClosing, WorkerAt
  <2>2. batch = <<>>
    BY <2>1 DEF IInv, FileInv
  <2>3. Accounted => Accounted'
    BY <1>0, <2>1, AccountedStays DEF Pipeline
  <2> QED BY <1>0, <2>1, <2>2, <2>3
<1>8. CASE SinkFinish
  <2>1. /\ UNCHANGED <<state, ring, sessionOpen, dropsAtOpen, batch>> /\ wpc = "finish"
        /\ file' = NoFile /\ wpc' = "finished"
    BY <1>8 DEF SinkFinish, WorkerAt, Healthy
  <2> QED BY <1>0, <2>1 DEF NoFile, IInv, WorkerInv
<1>9. CASE DiscardUnopened
  <2>1. /\ UNCHANGED <<state, sessionOpen, dropsAtOpen, batch, file>> /\ wpc = "discard"
        /\ ring' = <<>> /\ wpc' = "finished"
    BY <1>9 DEF DiscardUnopened, WorkerAt
  <2> QED BY <1>0, <2>1 DEF IInv, WorkerInv
<1>10. CASE MarkIdle
  <2>1. /\ UNCHANGED <<ring, dropsAtOpen, batch, file>> /\ wpc = "finished"
        /\ sessionOpen' = FALSE /\ state' = "Idle" /\ wpc' = "top"
    BY <1>10 DEF MarkIdle, WorkerAt, Healthy
  <2> QED BY <1>0, <2>1
<1>11. CASE AbortUnmarked \/ FailAbort \/ FailDiscard \/ FailIdle \/ FailAlert
  BY <1>11 DEF AbortUnmarked, FailAbort, FailDiscard, FailIdle, FailAlert, Healthy, WorkerAt
<1> QED BY <1>1, <1>2, <1>3, <1>4, <1>5, <1>6, <1>7, <1>8, <1>9, <1>10, <1>11 DEF Worker

LEMMA PipelineStep ==
    ASSUME IInv, IInv', PipelineInv, [Next]_vars
    PROVE  PipelineInv'
<1> SUFFICES ASSUME Healthy' PROVE PipelineInv'
  BY DEF PipelineInv
<1>0. Healthy
  BY HealthyBefore
<1>1. CASE UNCHANGED vars
  <2>1. /\ UNCHANGED <<state, session, alerts, pc, event, ring, dropped, wpc, sessionOpen,
                       dropsAtOpen, batch, file, captured, early>>
    BY <1>1 DEF vars, controlVars, producerVars, ringVars, workerVars
  <2>2. Accounted => Accounted'
    BY <2>1, AccountedStays DEF Pipeline
  <2> QED BY <1>0, <2>1, <2>2 DEF PipelineInv
<1> QED BY <1>0, <1>1, CompetitionKeepsPipeline, WorkerKeepsPipeline DEF Next

\* What a committed file f has to be.
Exact(f) ==
    /\ \A k \in 1..Len(f.frames) : f.frames[k].session = f.session
    /\ \A k \in 2..Len(f.frames) : f.frames[k].number > f.frames[k-1].number
    /\ Len(f.frames) > 0 /\ f.frames[1].event = "StartRequested"
    /\ Len(f.frames) + f.drops + f.early = f.captured

LEMMA ExactStep ==
    ASSUME IInv, IInv', PipelineInv, FilesExact, [Next]_vars
    PROVE  FilesExact'
<1> SUFFICES ASSUME alerts' = 0, NEW i \in 1..Len(committed') PROVE Exact(committed'[i])
  BY DEF FilesExact, Exact
<1>1. CASE SinkFinish /\ wpc' = "finished"
  <2>1. /\ alerts = 0 /\ wpc = "finish" /\ committed' = Append(committed, WithFooter)
    BY <1>1 DEF SinkFinish, WorkerAt, controlVars
  <2>2. /\ state = "Closing" /\ sessionOpen /\ file.open
        /\ ring = <<>> /\ batch = <<>> /\ file.session = session /\ Accounted /\ captured > 0
    BY <2>1 DEF IInv, WorkerInv, FileInv, PipelineInv, Healthy
  <2>3. Pipeline = file.frames
    BY <2>2, PipelineTypes, ConcatEmptySeq DEF Pipeline, IInv
  <2>4. Exact(WithFooter)
    <3>1. /\ WithFooter.session = session /\ WithFooter.frames = Pipeline
          /\ WithFooter.drops = dropped - dropsAtOpen
          /\ WithFooter.captured = captured /\ WithFooter.early = early
      BY <2>2, <2>3 DEF WithFooter
    <3>2. Len(Pipeline) \in Nat /\ dropped - dropsAtOpen \in Nat /\ early \in Nat
      BY PipelineTypes DEF IInv, Types, RingTypes, ControlTypes
    <3>3. ASSUME NEW k \in 2..Len(Pipeline) PROVE Pipeline[k].number > Pipeline[k-1].number
      <4>1. k \in 1..Len(Pipeline) /\ k - 1 \in 1..Len(Pipeline) /\ k - 1 < k
        BY <3>2
      <4>2. Pipeline[k-1].number < Pipeline[k].number
        BY <2>2, <4>1 DEF Accounted, InOrder
      <4>3. Pipeline[k-1].number \in Nat /\ Pipeline[k].number \in Nat
        BY <4>1, PipelineNumbers DEF IInv
      <4> QED BY <4>2, <4>3
    <3>4. \A k \in 1..Len(Pipeline) : Pipeline[k].session = session
      BY <2>2 DEF Accounted, InOrder
    <3>5. /\ Len(Pipeline) > 0 /\ Pipeline[1].event = "StartRequested"
          /\ Len(Pipeline) + (dropped - dropsAtOpen) + early = captured
      BY <2>2, <3>2 DEF Accounted
    <3> QED BY <3>1, <3>3, <3>4, <3>5 DEF Exact
  <2>5. committed'[i] = WithFooter \/ (i \in 1..Len(committed) /\ committed'[i] = committed[i])
    <3> DEFINE F == [session : Nat, frames : Seq(Frame), drops : Nat, captured : Nat, early : Nat]
               f == WithFooter
    <3>1. committed \in Seq(F) /\ committed' \in Seq(F)
      BY DEF IInv, Types, BlockTypes
    <3> HIDE DEF F, f
    <3>2. committed' = Append(committed, f)
      BY <2>1 DEF f
    <3>3. i \in 1..(Len(committed) + 1)
      BY <3>1, <3>2
    <3>4. CASE i = Len(committed) + 1
      BY <3>1, <3>2, <3>4 DEF f
    <3>5. CASE i # Len(committed) + 1
      BY <3>1, <3>2, <3>3, <3>5
    <3> QED BY <3>4, <3>5
  <2> QED BY <2>1, <2>4, <2>5 DEF FilesExact, Exact
<1>2. CASE ~(SinkFinish /\ wpc' = "finished")
  <2>1. committed' = committed
    BY <1>2, BlockChanges DEF SinkBegin, AbortUnmarked, PopFrame, WriteBatch, SinkFinish, FailAbort
  <2>2. alerts = 0
    BY AlertsGrow
  <2> QED BY <2>1, <2>2 DEF FilesExact, Exact
<1> QED BY <1>1, <1>2

\* Until a failure is reported, every committed file is exact: its own session from
\* the frame of the Start on, in order, and every captured frame is in it or counted,
\* wherever the worker was preempted and the control task deleted.
THEOREM CommittedFilesAreExact == Spec => []FilesExact
<1>1. Init => PipelineInv /\ FilesExact
  BY DEF Init, PipelineInv, NoFile, FilesExact
<1>2. IInv /\ IInv' /\ PipelineInv /\ FilesExact /\ [Next]_vars => (PipelineInv /\ FilesExact)'
  BY PipelineStep, ExactStep
<1> QED BY <1>1, <1>2, Invariance, PTL DEF Spec
=============================================================================
