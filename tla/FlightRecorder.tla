--------------------------- MODULE FlightRecorder ---------------------------
(***************************************************************************)
(* The flight recorder: RecordingControl, FlightRecorderProducer in the    *)
(* control task, RecordingWorker in the telemetry task, and the card.      *)
(*                                                                         *)
(* The competition task has the higher priority, so the worker runs only   *)
(* between its ticks and callbacks, but is preempted by them between any   *)
(* two of its own steps.  The operating system may delete the control task *)
(* anywhere; the callback it then starts asks for a stop first.            *)
(*                                                                         *)
(* The ring is the queue SpscRing is shown to implement.  A frame keeps    *)
(* its session, its number in the session and its recording event; which   *)
(* error a failure leaves for the display is left out.                     *)
(***************************************************************************)
EXTENDS Naturals, Sequences

CONSTANTS
    Capacity,    \* SpscRing::usableCapacity
    BatchSize,   \* frames the worker pops for one block
    MaxSessions, MaxFrames, MaxKills   \* bounds of the model

ASSUME RecorderAssumption ==
    /\ Capacity \in Nat \ {0} /\ BatchSize \in Nat \ {0}
    /\ MaxSessions \in Nat /\ MaxFrames \in Nat /\ MaxKills \in Nat

VARIABLES
    state, session, alerts,             \* RecordingControl's atomics
    available,                          \* ... available_, set once at start
    buttonDown, pressValid, pressState, \* ... its press detector
    lastState,    \* FlightRecorderProducer::last_state_
    task, pc,     \* the competition task and where it is
    event,        \* the event bit of the tick under way
    ring, dropped,                      \* SpscRing
    wpc,          \* where the worker is
    sessionOpen, dropsAtOpen, batch,    \* RecordingWorker's fields
    file,         \* the sink's DATA.TMP
    committed,    \* the files renamed to DATA.V5L, in order
    kills,        \* competition changes so far
    captured,     \* history: frames captured in the current session
    early         \* history: ... dropped before the worker opened its file

controlVars  == <<state, session, alerts>>
pressVars    == <<buttonDown, pressValid, pressState>>
producerVars == <<lastState, task, pc, event, kills, captured, early>>
ringVars     == <<ring, dropped>>
workerVars   == <<wpc, sessionOpen, dropsAtOpen, batch, file, committed>>
vars == <<controlVars, available, pressVars, producerVars, ringVars, workerVars>>

-----------------------------------------------------------------------------
States == {"Idle", "Opening", "Recording", "Closing"}
Events == {"None", "StartRequested", "Started", "StopRequested", "Failed"}
Frame  == [session : Nat, number : Nat, event : Events]
NoFile == [open |-> FALSE, session |-> 0, frames |-> <<>>]

Init ==
    /\ state = "Idle" /\ session = 0 /\ alerts = 0
    /\ available \in BOOLEAN
    /\ buttonDown = FALSE /\ pressValid = FALSE /\ pressState = "Idle"
    /\ lastState = "Idle" /\ task = "control" /\ pc = "sleep" /\ event = "None"
    /\ ring = <<>> /\ dropped = 0
    /\ wpc = "top" /\ sessionOpen = FALSE /\ dropsAtOpen = 0 /\ batch = <<>>
    /\ file = NoFile /\ committed = <<>>
    /\ kills = 0 /\ captured = 0 /\ early = 0

-----------------------------------------------------------------------------
(* The control task: one FlightRecorderProducer::capture per tick.         *)

CancelPress == buttonDown' = FALSE /\ pressValid' = FALSE /\ UNCHANGED pressState

\* What is captured while the state is s and the tick's event is e.
Captures(s, e) == s \in {"Opening", "Recording"} \/ e = "StopRequested"

\* The model's bound: ticks that capture a frame, other than a stop.
MayTick == state \in {"Opening", "Recording"} => captured < MaxFrames

\* observe() on a controller snapshot that is unusable or of another epoch.
ObserveInvalid ==
    /\ task = "control" /\ pc = "sleep" /\ MayTick
    /\ CancelPress
    /\ event' = "None" /\ pc' = "capture"
    /\ UNCHANGED <<controlVars, available, ringVars, workerVars,
                   lastState, task, kills, captured, early>>

\* observe() with the button down: a press starts, or goes on.
ObserveDown ==
    /\ task = "control" /\ pc = "sleep" /\ MayTick
    /\ IF buttonDown
       THEN /\ pressValid' = (pressValid /\ state = pressState)
            /\ UNCHANGED pressState
       ELSE /\ pressValid' = (state \in {"Idle", "Recording"})
            /\ pressState' = state
    /\ buttonDown' = TRUE
    /\ event' = "None" /\ pc' = "capture"
    /\ UNCHANGED <<controlVars, available, ringVars, workerVars,
                   lastState, task, kills, captured, early>>

\* A release acts when the press was long and the state it began in holds still.
Acts(long) == long /\ buttonDown /\ pressValid /\ state = pressState

\* observe() with the button up: nothing, Start, Start refused, or Stop.
ObserveUp(long) ==
    /\ task = "control" /\ pc = "sleep"
    /\ MayTick \/ Acts(long)
    /\ IF ~Acts(long)
       THEN /\ event' = "None" /\ pc' = "capture"
            /\ pressValid' = (pressValid /\ ~buttonDown)
            /\ UNCHANGED <<controlVars, captured, early>>
       ELSE IF state = "Recording"
       THEN /\ state' = "Closing" /\ pressValid' = FALSE
            /\ event' = "StopRequested" /\ pc' = "capture"
            /\ UNCHANGED <<session, alerts, captured, early>>
       ELSE IF ~available
       THEN /\ alerts < MaxSessions
            /\ alerts' = alerts + 1
            /\ event' = "Failed" /\ pc' = "capture"
            /\ UNCHANGED <<state, session, pressValid, captured, early>>
       ELSE /\ session < MaxSessions
            /\ session' = session + 1 /\ pressValid' = FALSE
            /\ event' = "StartRequested" /\ pc' = "opening"
            /\ captured' = 0 /\ early' = 0
            /\ UNCHANGED <<state, alerts>>
    /\ buttonDown' = FALSE
    /\ UNCHANGED pressState
    /\ UNCHANGED <<available, ringVars, workerVars, lastState, task, kills>>

\* observe() has taken a session number and asks the worker to open it.
RequestOpen ==
    /\ pc = "opening"
    /\ state' = "Opening" /\ pc' = "capture"
    /\ UNCHANGED <<session, alerts, available, pressVars, ringVars, workerVars,
                   lastState, task, event, kills, captured, early>>

\* Fault: the ring takes a frame more than it has slots for.
Capture_OneTooMany ==
    /\ pc = "capture"
    /\ IF Captures(state, event)
       THEN /\ captured' = captured + 1
            /\ IF Len(ring) <= Capacity
               THEN /\ ring' = Append(ring, [session |-> session, number |-> captured + 1,
                                            event |-> event])
                    /\ UNCHANGED <<dropped, early>>
               ELSE dropped' = dropped + 1 /\ UNCHANGED <<ring, early>>
       ELSE UNCHANGED <<ringVars, captured, early>>
    /\ lastState' = state
    /\ pc' = "sleep"
    /\ UNCHANGED <<controlVars, available, pressVars, workerVars, task, event, kills>>

\* The rest of capture(): note a started recording and push the frame.
Capture ==
    /\ pc = "capture"
    /\ LET started == lastState = "Opening" /\ state = "Recording"
           frame   == [session |-> session, number |-> captured + 1,
                       event |-> IF started THEN "Started" ELSE event]
       IN IF Captures(state, event)
          THEN /\ captured' = captured + 1
               /\ IF Len(ring) < Capacity
                  THEN ring' = Append(ring, frame) /\ UNCHANGED <<dropped, early>>
                  ELSE /\ dropped' = dropped + 1 /\ UNCHANGED ring
                       /\ early' = IF sessionOpen THEN early ELSE early + 1
          ELSE UNCHANGED <<ringVars, captured, early>>
    /\ lastState' = state
    /\ pc' = "sleep"
    /\ UNCHANGED <<controlVars, available, pressVars, workerVars, task, event, kills>>

\* The competition changes: the task is deleted wherever it is, and the
\* callback of the new state calls RobotRuntime::forceDisabled.
Disable ==
    /\ task = "control" /\ kills < MaxKills
    /\ kills' = kills + 1
    /\ task' = "callback" /\ pc' = "stop"
    /\ UNCHANGED <<controlVars, available, pressVars, ringVars, workerVars,
                   lastState, event, captured, early>>

RequestStop ==
    /\ pc = "stop"
    /\ state' = IF state \in {"Opening", "Recording"} THEN "Closing" ELSE state
    /\ CancelPress
    /\ pc' = "returned"
    /\ UNCHANGED <<session, alerts, available, ringVars, workerVars,
                   lastState, task, event, kills, captured, early>>

\* Driver control again.
Enable ==
    /\ task = "callback" /\ pc = "returned"
    /\ task' = "control" /\ pc' = "sleep"
    /\ UNCHANGED <<controlVars, available, pressVars, ringVars, workerVars,
                   lastState, event, kills, captured, early>>

CompetitionTask ==
    \/ ObserveInvalid \/ ObserveDown \/ \E long \in BOOLEAN : ObserveUp(long)
    \/ RequestOpen \/ Capture
    \/ Disable \/ RequestStop \/ Enable

-----------------------------------------------------------------------------
(* The telemetry task: RecordingWorker::tickOnce.  Every action is guarded *)
(* by WorkerAt: the competition task, of higher priority, does not run.    *)

WorkerAt(p) == wpc = p /\ available /\ pc \in {"sleep", "returned"}
otherVars == <<available, pressVars, producerVars>>

\* RecordingFileEncoder: a file with its header, with one more block, and with its
\* footer (captured and early are not in the file, they say what it should hold).
NewFile    == [open |-> TRUE, session |-> session, frames |-> <<>>]
WithBlock  == [file EXCEPT !.frames = @ \o batch]
WithFooter == [session |-> file.session, frames |-> file.frames,
               drops |-> dropped - dropsAtOpen, captured |-> captured, early |-> early]

\* The tick begins: is there a session to open?
WorkerTick ==
    /\ WorkerAt("top")
    /\ wpc' = IF state = "Opening" /\ ~sessionOpen THEN "begin" ELSE "drain"
    /\ UNCHANGED <<controlVars, otherVars, ringVars,
                   sessionOpen, dropsAtOpen, batch, file, committed>>

\* sink.begin: a new directory and a DATA.TMP with its header, or a failure
\* before or after the file was created.
SinkBegin ==
    /\ WorkerAt("begin")
    /\ \/ file' = NewFile /\ wpc' = "opened"
       \/ \E created \in BOOLEAN :
             /\ file' = [NewFile EXCEPT !.open = created]
             /\ wpc' = "failed"
    /\ UNCHANGED <<controlVars, otherVars, ringVars, sessionOpen, dropsAtOpen, batch, committed>>

\* The session is open from here on; its drops count from here.
SessionOpened ==
    /\ WorkerAt("opened")
    /\ sessionOpen' = TRUE /\ dropsAtOpen' = dropped
    /\ wpc' = "mark"
    /\ UNCHANGED <<controlVars, otherVars, ringVars, batch, file, committed>>

\* Fault: a plain store in place of the compare and exchange.
MarkRecording_Store ==
    /\ WorkerAt("mark")
    /\ state' = "Recording" /\ wpc' = "drain"
    /\ UNCHANGED <<session, alerts, otherVars, ringVars,
                   sessionOpen, dropsAtOpen, batch, file, committed>>

\* markRecording: fails if a stop has been asked for meanwhile.
MarkRecording ==
    /\ WorkerAt("mark")
    /\ IF state = "Opening"
       THEN state' = "Recording" /\ wpc' = "drain"
       ELSE wpc' = "unmarked" /\ UNCHANGED state
    /\ UNCHANGED <<session, alerts, otherVars, ringVars,
                   sessionOpen, dropsAtOpen, batch, file, committed>>

\* ... and then the file is abandoned, and the session fails.
AbortUnmarked ==
    /\ WorkerAt("unmarked")
    /\ file' = NoFile /\ sessionOpen' = FALSE
    /\ wpc' = "failIdle"
    /\ UNCHANGED <<controlVars, otherVars, ringVars, dropsAtOpen, batch, committed>>

\* drainBatch: one frame after the other,
PopFrame ==
    /\ WorkerAt("drain")
    /\ sessionOpen /\ state \in {"Recording", "Closing"}
    /\ Len(batch) < BatchSize /\ ring # <<>>
    /\ batch' = Append(batch, Head(ring)) /\ ring' = Tail(ring)
    /\ UNCHANGED <<controlVars, otherVars, dropped,
                   wpc, sessionOpen, dropsAtOpen, file, committed>>

\* then the block, if there is one, in one write.
WriteBatch ==
    /\ WorkerAt("drain")
    /\ sessionOpen /\ state \in {"Recording", "Closing"}
    /\ Len(batch) = BatchSize \/ ring = <<>>
    /\ \/ file' = WithBlock /\ wpc' = "close"
       \/ batch # <<>> /\ wpc' = "failed" /\ UNCHANGED file
    /\ batch' = <<>>
    /\ UNCHANGED <<controlVars, otherVars, ringVars, sessionOpen, dropsAtOpen, committed>>

NothingToDrain ==
    /\ WorkerAt("drain")
    /\ ~(sessionOpen /\ state \in {"Recording", "Closing"})
    /\ wpc' = "close"
    /\ UNCHANGED <<controlVars, otherVars, ringVars,
                   sessionOpen, dropsAtOpen, batch, file, committed>>

\* Fault: only a session that was opened is closed.
CheckClosing_OpenOnly ==
    /\ WorkerAt("close")
    /\ wpc' = IF state = "Closing" /\ sessionOpen /\ ring = <<>> THEN "finish" ELSE "top"
    /\ UNCHANGED <<controlVars, otherVars, ringVars,
                   sessionOpen, dropsAtOpen, batch, file, committed>>

\* Is there a session to finish?  Or one that stopped before it was opened?
\* Closing is left by the worker alone, and nothing is pushed in it.
CheckClosing ==
    /\ WorkerAt("close")
    /\ wpc' = IF state # "Closing" THEN "top"
              ELSE IF ~sessionOpen THEN "discard"
              ELSE IF ring = <<>> THEN "finish" ELSE "top"
    /\ UNCHANGED <<controlVars, otherVars, ringVars,
                   sessionOpen, dropsAtOpen, batch, file, committed>>

\* sink.finish: footer, close, rename; on a failure of any the file stays DATA.TMP.
SinkFinish ==
    /\ WorkerAt("finish")
    /\ \/ /\ committed' = Append(committed, WithFooter)
          /\ file' = NoFile
          /\ wpc' = "finished"
       \/ \E open \in BOOLEAN : /\ file' = [file EXCEPT !.open = open]
                                /\ wpc' = "failed" /\ UNCHANGED committed
    /\ UNCHANGED <<controlVars, otherVars, ringVars, sessionOpen, dropsAtOpen, batch>>

\* Fault: a session that never was opened leaves its frames in the ring.
DiscardUnopened_Keep ==
    /\ WorkerAt("discard")
    /\ wpc' = "finished"
    /\ UNCHANGED <<controlVars, otherVars, ringVars, sessionOpen, dropsAtOpen, batch, file, committed>>

\* A session stopped before the worker opened it leaves nothing behind.
DiscardUnopened ==
    /\ WorkerAt("discard")
    /\ ring' = <<>> /\ wpc' = "finished"
    /\ UNCHANGED <<controlVars, otherVars, dropped,
                   sessionOpen, dropsAtOpen, batch, file, committed>>

\* Fault: the session stays open.
MarkIdle_StillOpen ==
    /\ WorkerAt("finished")
    /\ state' = IF state = "Closing" THEN "Idle" ELSE state
    /\ wpc' = "top"
    /\ UNCHANGED <<session, alerts, otherVars, ringVars,
                   sessionOpen, dropsAtOpen, batch, file, committed>>

\* markIdle, the end of either; its failure would be reported as Internal.
MarkIdle ==
    /\ WorkerAt("finished")
    /\ sessionOpen' = FALSE
    /\ IF state = "Closing" THEN state' = "Idle" /\ wpc' = "top"
       ELSE wpc' = "failIdle" /\ UNCHANGED state
    /\ UNCHANGED <<session, alerts, otherVars, ringVars,
                   dropsAtOpen, batch, file, committed>>

\* failSession: abandon the file,
FailAbort ==
    /\ WorkerAt("failed")
    /\ file' = NoFile /\ sessionOpen' = FALSE
    /\ wpc' = "failDiscard"
    /\ UNCHANGED <<controlVars, otherVars, ringVars, dropsAtOpen, batch, committed>>

\* empty the ring,
FailDiscard ==
    /\ WorkerAt("failDiscard")
    /\ ring' = <<>> /\ wpc' = "failIdle"
    /\ UNCHANGED <<controlVars, otherVars, dropped,
                   sessionOpen, dropsAtOpen, batch, file, committed>>

\* and RecordingControl::fail: the state, then the alert.
FailIdle ==
    /\ WorkerAt("failIdle")
    /\ state' = "Idle" /\ wpc' = "failAlert"
    /\ UNCHANGED <<session, alerts, otherVars, ringVars,
                   sessionOpen, dropsAtOpen, batch, file, committed>>

FailAlert ==
    /\ WorkerAt("failAlert")
    /\ alerts' = alerts + 1 /\ wpc' = "top"
    /\ UNCHANGED <<state, session, otherVars, ringVars,
                   sessionOpen, dropsAtOpen, batch, file, committed>>

Worker ==
    \/ WorkerTick \/ SinkBegin \/ SessionOpened \/ MarkRecording \/ AbortUnmarked
    \/ PopFrame \/ WriteBatch \/ NothingToDrain
    \/ CheckClosing \/ SinkFinish \/ DiscardUnopened \/ MarkIdle
    \/ FailAbort \/ FailDiscard \/ FailIdle \/ FailAlert

Next == CompetitionTask \/ Worker

Spec == Init /\ [][Next]_vars

\* The worker gets the processor between the ticks of the control task, which
\* sleeps for most of its period, again and again; calls to the card return.
FairSpec == Spec /\ SF_vars(Worker) /\ WF_vars(RequestOpen \/ Capture \/ RequestStop)
-----------------------------------------------------------------------------
(* Properties.                                                             *)
WorkerPcs == {"top", "begin", "opened", "mark", "unmarked", "drain", "close", "finish",
              "discard", "finished", "failed", "failDiscard", "failIdle",
              "failAlert"}

\* Types of the variables; the ring never holds more than its slots.
TypeOK ==
    /\ state \in States /\ session \in Nat /\ alerts \in Nat
    /\ available \in BOOLEAN
    /\ buttonDown \in BOOLEAN /\ pressValid \in BOOLEAN /\ pressState \in States
    /\ lastState \in States /\ task \in {"control", "callback"}
    /\ pc \in {"sleep", "opening", "capture", "stop", "returned"} /\ event \in Events
    /\ ring \in Seq(Frame) /\ Len(ring) <= Capacity /\ dropped \in Nat
    /\ wpc \in WorkerPcs /\ sessionOpen \in BOOLEAN /\ dropsAtOpen \in Nat
    /\ batch \in Seq(Frame) /\ Len(batch) <= BatchSize
    /\ file \in [open : BOOLEAN, session : Nat, frames : Seq(Frame)]
    /\ committed \in Seq([session : Nat, frames : Seq(Frame), drops : Nat,
                          captured : Nat, early : Nat])
    /\ kills \in Nat /\ captured \in Nat /\ early \in Nat

\* The session state moves along its cycle only: in particular a stop that has
\* been asked for is never turned back into a recording by the worker's answer.
SessionCycle ==
    [][/\ state = "Idle"      => state' = "Opening"
       /\ state = "Opening"   => state' # "Opening"
       /\ state = "Recording" => state' \in {"Closing", "Idle"}
       /\ state = "Closing"   => state' = "Idle"]_state

\* Between its ticks the worker and RecordingControl agree on whether a file is
\* open: a Recording without one would fill the ring unread, and an Opening with
\* one would never be opened.
WorkerAgrees ==
    wpc = "top" => /\ state = "Recording" => sessionOpen
                   /\ sessionOpen => state \in {"Recording", "Closing"}
                   /\ file.open = sessionOpen

\* A committed file holds frames of its own session only.
OwnFramesOnly ==
    \A i \in 1..Len(committed) : \A k \in 1..Len(committed[i].frames) :
        committed[i].frames[k].session = committed[i].session

\* Until the first failure every committed file is exact: its own session from
\* the Start frame on, in order, and each captured frame is in it, or in the
\* drops of its footer, or was dropped before the worker had opened the file.
FilesExact ==
    alerts = 0 =>
        \A i \in 1..Len(committed) :
            LET f == committed[i]
            IN /\ \A k \in 1..Len(f.frames) : f.frames[k].session = f.session
               /\ \A k \in 2..Len(f.frames) : f.frames[k].number > f.frames[k-1].number
               /\ Len(f.frames) > 0 /\ f.frames[1].event = "StartRequested"
               /\ Len(f.frames) + f.drops + f.early = f.captured

\* A session that is being opened or closed does not stay so.
SessionEnds == state \in {"Opening", "Closing"} ~> state \in {"Recording", "Idle"}
=============================================================================
