------------------------------ MODULE SpscRing ------------------------------
(***************************************************************************)
(* SpscRing<T, N>: a ring of N cells shared by one producer (tryPush) and  *)
(* one consumer (tryPop) without a lock.  Every access to a shared index   *)
(* or slot is a step of its own; head_ is stored with release and loaded   *)
(* with acquire by the consumer, tail_ the other way round, so each side   *)
(* sees the cells as they were when the index was stored.                  *)
(*                                                                         *)
(* The producer runs in the control task, which the operating system may   *)
(* delete anywhere; the next one calls tryPush anew.                       *)
(***************************************************************************)
EXTENDS Naturals, Sequences

CONSTANTS
    N,         \* cells
    Value,     \* elements
    MaxDrops   \* bound of the model: counted drops

ASSUME RingAssumption == N \in Nat /\ N >= 2 /\ Value # {} /\ MaxDrops \in Nat

VARIABLES
    cells, head, tail, highWatermark, dropCount,   \* the ring's fields
    ppc, pushing, next, seenTail,   \* tryPush: step, value, and what it has read
    cpc, output,                    \* tryPop: step and out parameter
    popped                          \* the last value a tryPop returned with

producerVars == <<ppc, pushing, next, seenTail>>
consumerVars == <<cpc, output, popped>>
ringVars == <<cells, head, tail, highWatermark, dropCount, producerVars, consumerVars>>

Cells == 0..(N - 1)
Some  == CHOOSE v \in Value : TRUE

increment(index) == (index + 1) % N

distance(h, t) == IF h >= t THEN h - t ELSE N - (t - h)

RingInit ==
    /\ cells = [i \in Cells |-> Some]
    /\ head = 0 /\ tail = 0 /\ highWatermark = 0 /\ dropCount = 0
    /\ ppc = "idle" /\ pushing = Some /\ next = 0 /\ seenTail = 0
    /\ cpc = "idle" /\ output = Some /\ popped = Some

-----------------------------------------------------------------------------
\* Fault: the last free slot is used as well.
PushRead_Full(v) ==
    /\ ppc = "idle"
    /\ pushing' = v /\ next' = increment(head) /\ seenTail' = tail
    /\ ppc' = "store" /\ UNCHANGED dropCount
    /\ UNCHANGED <<cells, head, tail, highWatermark, consumerVars>>

\* tryPush loads the indices: one slot stays free, so head = tail is "empty".
PushRead(v) ==
    /\ ppc = "idle"
    /\ pushing' = v /\ next' = increment(head) /\ seenTail' = tail
    /\ IF increment(head) = tail
       THEN /\ dropCount < MaxDrops
            /\ dropCount' = dropCount + 1 /\ UNCHANGED ppc
       ELSE ppc' = "store" /\ UNCHANGED dropCount
    /\ UNCHANGED <<cells, head, tail, highWatermark, consumerVars>>

PushStore ==
    /\ ppc = "store"
    /\ cells' = [cells EXCEPT ![head] = pushing]
    /\ ppc' = "publish"
    /\ UNCHANGED <<head, tail, highWatermark, dropCount, pushing, next, seenTail, consumerVars>>

PushPublish ==
    /\ ppc = "publish"
    /\ head' = next
    /\ ppc' = "mark"
    /\ UNCHANGED <<cells, tail, highWatermark, dropCount, pushing, next, seenTail, consumerVars>>

\* The watermark takes the depth as of the tail that was read.
PushMark ==
    /\ ppc = "mark"
    /\ highWatermark' = LET depth == distance(next, seenTail)
                        IN IF depth > highWatermark THEN depth ELSE highWatermark
    /\ ppc' = "idle"
    /\ UNCHANGED <<cells, head, tail, dropCount, pushing, next, seenTail, consumerVars>>

\* The control task is deleted inside tryPush and started again.
ProducerRestart ==
    /\ ppc # "idle" /\ ppc' = "idle"
    /\ UNCHANGED <<cells, head, tail, highWatermark, dropCount, pushing, next, seenTail,
                   consumerVars>>

-----------------------------------------------------------------------------
\* Fault: the ring is not checked for being empty.
PopRead_Unchecked ==
    /\ cpc = "idle" /\ cpc' = "copy"
    /\ UNCHANGED <<cells, head, tail, highWatermark, dropCount, producerVars, output, popped>>

\* tryPop loads the indices; an empty ring returns false at once.
PopRead ==
    /\ cpc = "idle" /\ tail # head
    /\ cpc' = "copy"
    /\ UNCHANGED <<cells, head, tail, highWatermark, dropCount, producerVars, output, popped>>

PopCopy ==
    /\ cpc = "copy"
    /\ output' = cells[tail]
    /\ cpc' = "release"
    /\ UNCHANGED <<cells, head, tail, highWatermark, dropCount, producerVars, popped>>

PopRelease ==
    /\ cpc = "release"
    /\ tail' = increment(tail)
    /\ popped' = output
    /\ cpc' = "idle"
    /\ UNCHANGED <<cells, head, highWatermark, dropCount, producerVars, output>>

-----------------------------------------------------------------------------
Producer == (\E v \in Value : PushRead(v)) \/ PushStore \/ PushPublish \/ PushMark
            \/ ProducerRestart
Consumer == PopRead \/ PopCopy \/ PopRelease

RingNext == Producer \/ Consumer

RingSpec == RingInit /\ [][RingNext]_ringVars

-----------------------------------------------------------------------------
(* Properties.                                                             *)

\* Types of the variables; the watermark is a depth the ring can have.
RingTypeOK ==
    /\ cells \in [Cells -> Value] /\ head \in Cells /\ tail \in Cells
    /\ highWatermark \in Cells /\ dropCount \in Nat
    /\ ppc \in {"idle", "store", "publish", "mark"} /\ pushing \in Value
    /\ next \in Cells /\ seenTail \in Cells
    /\ cpc \in {"idle", "copy", "release"} /\ output \in Value /\ popped \in Value

\* No slot is written while it is read: the element, which is far larger than a
\* word, is never seen half of one frame and half of another.
NoTornElement == ppc = "store" /\ cpc = "copy" => head # tail

\* depth() is exact for either side, and the ring keeps one slot free.
Depth == distance(head, tail)

\* The k-th value of the queue the ring stands for.
CellOf(k) == LET index == tail + k - 1 IN IF index < N THEN index ELSE index - N
Content == [k \in 1..Depth |-> cells[CellOf(k)]]

\* The ring implements the queue, with N - 1 places: nothing is lost, doubled,
\* reordered or altered between tryPush and tryPop, whatever interleaving.
Queue == INSTANCE BoundedQueue WITH
            Capacity <- N - 1, queue <- Content, taken <- popped
IsQueue == Queue!Spec
=============================================================================
