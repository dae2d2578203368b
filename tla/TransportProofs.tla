-------------------------- MODULE TransportProofs --------------------------
(***************************************************************************)
(* Data that crosses between tasks or comes from a device: proofs about    *)
(* SpscRing (no element is torn, and the ring is a bounded queue),         *)
(* OutputStatus (a read that succeeds is whole and of one status),         *)
(* StartupAlerts (an owed alert is delivered, or on its way) and           *)
(* SensorValidator (a value is believed only after its probation), for any *)
(* number of cells, fields and channels and any limits.                    *)
(***************************************************************************)
EXTENDS SpscRing, OutputStatus, StartupAlerts, SensorValidator, TLAPS

-----------------------------------------------------------------------------
(* SpscRing, for any number of cells and any elements.                     *)

\* An index advances by one, and from the last slot to the first.
LEMMA IncrementWraps ==
    ASSUME NEW i \in Cells
    PROVE  /\ increment(i) = IF i + 1 = N THEN 0 ELSE i + 1
           /\ increment(i) \in Cells
<1>1. N \in Nat /\ N >= 2 /\ i \in Nat /\ i < N
  BY RingAssumption DEF Cells
<1>2. CASE i + 1 = N
  BY <1>1, <1>2, SMT DEF increment, Cells
<1>3. CASE i + 1 # N
  BY <1>1, <1>3, SMT DEF increment, Cells
<1> QED BY <1>2, <1>3

\* A value exists, so the initial cells hold one.
LEMMA SomeIsValue == Some \in Value
  BY RingAssumption DEF Some

\* Two indices have a distance below N, and it is 0 only if they are equal.
LEMMA DistanceInRange ==
    ASSUME NEW h \in Cells, NEW t \in Cells
    PROVE  distance(h, t) \in Cells /\ (distance(h, t) = 0 <=> h = t)
  BY RingAssumption, SMT DEF distance, Cells

-----------------------------------------------------------------------------
(* What tryPush and tryPop rely on while they are under way.               *)

PushingInv ==
    /\ ppc \in {"store", "publish"} => next = increment(head) /\ next # tail
    /\ ppc = "publish" => cells[head] = pushing

PoppingInv ==
    /\ cpc \in {"copy", "release"} => tail # head
    /\ cpc = "release" => output = cells[tail]

RingInv == RingTypeOK /\ PushingInv /\ PoppingInv

\* The steps of the ring, each by its name.
LEMMA NextIsSteps ==
    RingNext <=> \/ \E v \in Value : PushRead(v)
             \/ PushStore \/ PushPublish \/ PushMark \/ ProducerRestart
             \/ PopRead \/ PopCopy \/ PopRelease
  BY DEF RingNext, Producer, Consumer

\* The invariant is inductive.
LEMMA RingInvInit == ASSUME RingInit PROVE RingInv
<1>1. 0 \in Cells
  BY RingAssumption, SMT DEF Cells
<1>2. Some \in Value
  BY SomeIsValue
<1> QED BY <1>1, <1>2 DEF RingInit, RingInv, RingTypeOK, PushingInv, PoppingInv

LEMMA RingInvStep == ASSUME RingInv, [RingNext]_ringVars PROVE RingInv'
<1> USE DEF RingInv
<1>0. /\ head \in Cells /\ tail \in Cells /\ next \in Cells /\ seenTail \in Cells
      /\ increment(head) \in Cells /\ increment(tail) \in Cells
  BY IncrementWraps DEF RingTypeOK
<1>1. ASSUME NEW v \in Value, PushRead(v) PROVE RingInv'
  BY <1>0, <1>1 DEF PushRead, consumerVars, RingTypeOK, PushingInv, PoppingInv
<1>2. CASE PushStore
  BY <1>0, <1>2 DEF PushStore, consumerVars, RingTypeOK, PushingInv, PoppingInv
<1>3. CASE PushPublish
  <2>1. RingTypeOK' /\ PushingInv'
    BY <1>0, <1>3, DistanceInRange DEF PushPublish, consumerVars, RingTypeOK, PushingInv
  <2>2. PoppingInv'
    BY <1>0, <1>3 DEF PushPublish, consumerVars, RingTypeOK, PushingInv, PoppingInv
  <2> QED BY <2>1, <2>2
<1>4. CASE PushMark
  <2>1. distance(next, seenTail) \in Cells
    BY <1>0, DistanceInRange
  <2> QED BY <1>4, <2>1 DEF PushMark, consumerVars, RingTypeOK, PushingInv, PoppingInv
<1>5. CASE ProducerRestart
  BY <1>5 DEF ProducerRestart, consumerVars, RingTypeOK, PushingInv, PoppingInv
<1>6. CASE PopRead
  BY <1>6 DEF PopRead, producerVars, RingTypeOK, PushingInv, PoppingInv
<1>7. CASE PopCopy
  BY <1>7 DEF PopCopy, producerVars, RingTypeOK, PushingInv, PoppingInv
<1>8. CASE PopRelease
  <2>1. RingTypeOK' /\ PoppingInv'
    BY <1>0, <1>8 DEF PopRelease, producerVars, RingTypeOK, PoppingInv
  <2>2. ppc \in {"store", "publish"} => increment(head) # increment(tail)
    BY <1>0, <1>8, IncrementWraps, RingAssumption, SMT DEF PopRelease, PoppingInv, Cells
  <2>3. PushingInv'
    BY <1>0, <1>8, <2>2 DEF PopRelease, producerVars, PushingInv
  <2> QED BY <2>1, <2>3
<1>9. CASE UNCHANGED ringVars
  BY <1>9 DEF ringVars, producerVars, consumerVars, RingTypeOK, PushingInv, PoppingInv
<1> QED BY <1>1, <1>2, <1>3, <1>4, <1>5, <1>6, <1>7, <1>8, <1>9, NextIsSteps

\* The indices and the watermark stay in range, for every N.
THEOREM RingTypeCorrect == RingSpec => []RingTypeOK
<1>1. RingSpec => []RingInv
  BY RingInvInit, RingInvStep, PTL DEF RingSpec
<1>2. RingInv => RingTypeOK
  BY DEF RingInv
<1> QED BY <1>1, <1>2, PTL

\* tryPush never writes the slot tryPop reads, for every N.
THEOREM NeverTorn == RingSpec => []NoTornElement
<1>1. RingSpec => []RingInv
  BY RingInvInit, RingInvStep, PTL DEF RingSpec
<1>2. RingInv => NoTornElement
  BY DEF RingInv, PoppingInv, NoTornElement
<1> QED BY <1>1, <1>2, PTL

-----------------------------------------------------------------------------
(* The refinement: what each step does to the queue the ring stands for.   *)

\* The k-th place of the queue is a slot, and never the free one at head.
LEMMA SlotInRange ==
    ASSUME head \in Cells, tail \in Cells, NEW k \in 1..Depth
    PROVE  CellOf(k) \in Cells /\ CellOf(k) # head
<1>1. /\ N \in Nat /\ N >= 2 /\ k \in Nat /\ 1 <= k
      /\ head \in Nat /\ head < N
      /\ tail \in Nat /\ tail < N
  BY RingAssumption DEF Cells
<1>2. CASE head >= tail
  <2>1. k <= head - tail
    BY <1>2 DEF Depth, distance
  <2> QED BY <1>1, <1>2, <2>1 DEF CellOf, Cells
<1>3. CASE ~(head >= tail)
  <2>1. k <= N - (tail - head)
    BY <1>3 DEF Depth, distance
  <2> QED BY <1>1, <1>3, <2>1 DEF CellOf, Cells
<1> QED BY <1>2, <1>3

\* The content is a sequence of values of length Depth.
LEMMA ContentIsSequence ==
    ASSUME RingTypeOK
    PROVE  /\ Content \in Seq(Value) /\ Len(Content) = Depth /\ Depth \in Cells
           /\ \A k \in 1..Depth : Content[k] = cells[CellOf(k)]
<1>1. Depth \in Nat /\ Depth \in Cells
  BY DistanceInRange, RingAssumption DEF Depth, RingTypeOK, Cells
<1>2. \A k \in 1..Depth : cells[CellOf(k)] \in Value
  BY SlotInRange DEF RingTypeOK
<1> QED BY <1>1, <1>2 DEF Content

\* Two sequences of equal length and equal elements are equal.
LEMMA SequencesEqual ==
    ASSUME NEW s \in Seq(Value), NEW t \in Seq(Value), Len(s) = Len(t),
           \A k \in 1..Len(s) : s[k] = t[k]
    PROVE  s = t
  OBVIOUS

LEMMA EmptyAtFirst == ASSUME RingInit PROVE Queue!Init
<1>1. Depth = 0
  BY DEF RingInit, Depth, distance
<1>2. Content = <<>>
  BY <1>1 DEF Content
<1> QED BY <1>2, SomeIsValue DEF RingInit, Queue!Init

\* Publishing a full slot appends it to the queue.
LEMMA PublishPuts ==
    ASSUME RingInv, RingInv', PushPublish
    PROVE  Queue!Put(pushing)
<1>1. /\ head \in Cells /\ tail \in Cells /\ head' = increment(head)
      /\ tail' = tail /\ cells' = cells /\ popped' = popped
      /\ head' # tail /\ cells[head] = pushing /\ pushing \in Value
  BY DEF PushPublish, RingInv, RingTypeOK, PushingInv, consumerVars
<1>2. N \in Nat /\ N >= 2
  BY RingAssumption
<1>3. Depth' = Depth + 1 /\ CellOf(Depth + 1) = head
  BY <1>1, <1>2, IncrementWraps, SMT DEF Depth, distance, CellOf, Cells
<1>4. \A k \in 1..Depth' : CellOf(k)' = CellOf(k)
  BY <1>1 DEF CellOf
<1>5. /\ Content \in Seq(Value) /\ Len(Content) = Depth /\ Depth \in Cells
      /\ \A k \in 1..Depth : Content[k] = cells[CellOf(k)]
  BY ContentIsSequence DEF RingInv
<1>6. /\ Content' \in Seq(Value) /\ Len(Content') = Depth'  /\ Depth' \in Cells
      /\ \A k \in 1..Depth' : Content'[k] = cells[CellOf(k)]
  <2>1. (Content \in Seq(Value) /\ Len(Content) = Depth /\ Depth \in Cells
         /\ \A k \in 1..Depth : Content[k] = cells[CellOf(k)])'
    BY ContentIsSequence, PTL DEF RingInv
  <2> QED BY <1>1, <1>4, <2>1
<1>7. Content' = Append(Content, pushing)
  <2> DEFINE q == Append(Content, pushing)
  <2>1. q \in Seq(Value) /\ Len(q) = Depth + 1
    BY <1>1, <1>5
  <2>2. \A k \in 1..(Depth + 1) : Content'[k] = q[k]
    <3>1. ASSUME NEW k \in 1..Depth PROVE Content'[k] = q[k]
      BY <1>3, <1>5, <1>6, <3>1 DEF Cells
    <3>2. Content'[Depth + 1] = q[Depth + 1]
      BY <1>1, <1>3, <1>5, <1>6 DEF Cells
    <3> QED BY <1>5, <3>1, <3>2 DEF Cells
  <2> QED BY <1>3, <1>6, <2>1, <2>2, SequencesEqual
<1>8. Len(Content) < N - 1
  BY <1>2, <1>3, <1>5, <1>6 DEF Cells
<1> QED BY <1>1, <1>7, <1>8 DEF Queue!Put

\* Releasing a slot that was copied takes the head of the queue.
LEMMA ReleaseTakes ==
    ASSUME RingInv, RingInv', PopRelease
    PROVE  Queue!Take
<1>1. /\ head \in Cells /\ tail \in Cells /\ tail' = increment(tail)
      /\ head' = head /\ cells' = cells /\ popped' = output
      /\ tail # head /\ output = cells[tail]
  BY DEF PopRelease, RingInv, RingTypeOK, PoppingInv, producerVars
<1>2. N \in Nat /\ N >= 2
  BY RingAssumption
<1>3. Depth' = Depth - 1 /\ Depth >= 1 /\ CellOf(1) = tail
  BY <1>1, <1>2, IncrementWraps, SMT DEF Depth, distance, CellOf, Cells
<1>4. ASSUME NEW k \in 1..Depth' PROVE CellOf(k)' = CellOf(k + 1)
  <2>1. Depth \in Nat /\ Depth < N /\ k \in Nat /\ k >= 1 /\ k < Depth
    BY <1>1, <1>2, <1>3, DistanceInRange DEF Depth, Cells
  <2>2. tail' = (IF tail + 1 = N THEN 0 ELSE tail + 1)
    BY <1>1, IncrementWraps
  <2>3. tail \in Nat /\ tail < N
    BY <1>1, <1>2 DEF Cells
  <2> QED BY <1>2, <2>1, <2>2, <2>3, SMT DEF CellOf
<1>5. /\ Content \in Seq(Value) /\ Len(Content) = Depth /\ Depth \in Cells
      /\ \A k \in 1..Depth : Content[k] = cells[CellOf(k)]
  BY ContentIsSequence DEF RingInv
<1>6. /\ Content' \in Seq(Value) /\ Len(Content') = Depth'  /\ Depth' \in Cells
      /\ \A k \in 1..Depth' : Content'[k] = cells[CellOf(k + 1)]
  <2>1. (Content \in Seq(Value) /\ Len(Content) = Depth /\ Depth \in Cells
         /\ \A k \in 1..Depth : Content[k] = cells[CellOf(k)])'
    BY ContentIsSequence, PTL DEF RingInv
  <2> QED BY <1>1, <1>4, <2>1
<1>7. Content # <<>> /\ Head(Content) = output
  BY <1>1, <1>3, <1>5 DEF Cells
<1>8. Content' = Tail(Content)
  <2> DEFINE q == Tail(Content)
  <2>1. q \in Seq(Value) /\ Len(q) = Depth - 1
    BY <1>3, <1>5 DEF Cells
  <2>2. \A k \in 1..(Depth - 1) : Content'[k] = q[k]
    BY <1>3, <1>5, <1>6 DEF Cells
  <2> QED BY <1>3, <1>6, <2>1, <2>2, SequencesEqual
<1> QED BY <1>1, <1>7, <1>8 DEF Queue!Take

\* Filling the free slot leaves the queue as it was.
LEMMA StoreStutters ==
    ASSUME RingInv, PushStore
    PROVE  Content' = Content
<1>1. /\ cells' = [cells EXCEPT ![head] = pushing] /\ head' = head /\ tail' = tail
      /\ head \in Cells /\ tail \in Cells /\ cells \in [Cells -> Value]
  BY DEF PushStore, RingInv, RingTypeOK
<1>2. Depth' = Depth /\ \A k \in 1..Depth : CellOf(k)' = CellOf(k)
  BY <1>1 DEF Depth, CellOf
<1>3. \A k \in 1..Depth : cells'[CellOf(k)] = cells[CellOf(k)]
  BY <1>1, SlotInRange
<1> QED BY <1>2, <1>3 DEF Content

\* The ring implements the bounded queue, for every N and every element type.
THEOREM RingIsQueue == RingSpec => IsQueue
<1>1. RingSpec => []RingInv
  BY RingInvInit, RingInvStep, PTL DEF RingSpec
<1>2. RingInit => Queue!Init
  BY EmptyAtFirst
<1>3. ASSUME RingInv, RingInv', [RingNext]_ringVars PROVE [Queue!Next]_(Queue!vars)
  <2>1. ASSUME cells' = cells, head' = head, tail' = tail, popped' = popped
        PROVE  UNCHANGED Queue!vars
    BY <2>1 DEF Queue!vars, Content, Depth, CellOf
  <2>2. CASE PushStore
    BY <1>3, <2>2, StoreStutters DEF PushStore, consumerVars, Queue!vars
  <2>3. CASE PushPublish
    BY <1>3, <2>3, PublishPuts DEF Queue!Next, RingInv, RingTypeOK
  <2>4. CASE PopRelease
    BY <1>3, <2>4, ReleaseTakes DEF Queue!Next
  <2>5. CASE PushMark \/ ProducerRestart \/ \E v \in Value : PushRead(v)
    BY <2>1, <2>5 DEF PushMark, ProducerRestart, PushRead, consumerVars
  <2>6. CASE PopRead \/ PopCopy
    BY <2>1, <2>6 DEF PopRead, PopCopy, producerVars
  <2>7. CASE UNCHANGED ringVars
    BY <2>1, <2>7 DEF ringVars, consumerVars
  <2> QED BY <1>3, <2>2, <2>3, <2>4, <2>5, <2>6, <2>7, NextIsSteps
<1> QED BY <1>1, <1>2, <1>3, PTL DEF RingSpec, IsQueue, Queue!Spec

-----------------------------------------------------------------------------
(* OutputStatus, for any number of fields, modulus and set of statuses.    *)
(*                                                                         *)
(* The generation is odd exactly while publish() is storing, and it is the *)
(* one the reader loaded plus the changes since.  So if it has not moved,  *)
(* no store has happened since, and all that was loaded is of the status   *)
(* that was the latest then.                                               *)

\* The next generation is in range and of the other parity.
LEMMA NextFlips ==
    ASSUME NEW g \in 0..(GenerationModulus - 1)
    PROVE  /\ NextGeneration(g) \in 0..(GenerationModulus - 1)
           /\ Odd(NextGeneration(g)) <=> ~Odd(g)
<1>1. g \in Nat /\ GenerationModulus \in Nat /\ g < GenerationModulus
  BY StatusAssumption
<1>2. CASE g + 1 = GenerationModulus
  BY <1>1, <1>2, StatusAssumption, SMT DEF NextGeneration, Odd
<1>3. CASE g + 1 # GenerationModulus
  BY <1>1, <1>3, SMT DEF NextGeneration, Odd
<1> QED BY <1>2, <1>3

-----------------------------------------------------------------------------
(* What holds of the two calls while they are under way.                   *)

\* publish(): the fields before the next one hold its status; between two
\* calls all fields hold the latest one.
WriterInv ==
    /\ Odd(statusGeneration) <=> writing.next # 0
    /\ writing.next = 0 => \A f \in Field : field[f] = latest
    /\ writing.next # 0 =>
          /\ writing.status \in Status
          /\ \A f \in Field : f < writing.next => field[f] = writing.status
    /\ latest \in Status \/ statusGeneration \in {0, 1}

\* The generation after m changes.
Later(g, m) == IF g + m < GenerationModulus THEN g + m ELSE g + m - GenerationModulus

\* readLatest(): what it has loaded is sound for as long as nothing has moved.
ReaderInv ==
    reading.next # 0 =>
        /\ ~result /\ atLoad \in Status
        /\ ~Odd(reading.before)
        /\ statusGeneration = Later(reading.before, moved)
        /\ moved = 0 => latest = atLoad
                        /\ \A f \in Field : f < reading.next => copy[f] = atLoad

StatusInv == StatusTypeOK /\ WriterInv /\ ReaderInv /\ ReadIsCurrent

\* The generation is the reader's again only if it has not moved.
LEMMA SameIsUnmoved ==
    ASSUME NEW g \in 0..(GenerationModulus - 1), NEW m \in 0..(GenerationModulus - 1)
    PROVE  /\ Later(g, m) = g <=> m = 0
           /\ m + 1 < GenerationModulus => NextGeneration(Later(g, m)) = Later(g, m + 1)
  BY StatusAssumption, SMT DEF Later, NextGeneration

LEMMA StatusInvInit == ASSUME StatusInit PROVE StatusInv
<1>1. 0 \in 0..(GenerationModulus - 1) /\ 0 \in 0..(Fields + 1) /\ ~Odd(0)
  BY StatusAssumption, SMT DEF Odd
<1> QED BY <1>1 DEF StatusInit, StatusInv, StatusTypeOK, WriterInv, ReaderInv, ReadIsCurrent

\* A step of publish() that counts the generation.
LEMMA BumpKeeps ==
    ASSUME StatusInv, Bump, UNCHANGED readerVars
    PROVE  /\ statusGeneration' \in 0..(GenerationModulus - 1)
           /\ moved' \in 0..(GenerationModulus - 1)
           /\ Odd(statusGeneration') <=> ~Odd(statusGeneration)
           /\ ReaderInv' /\ ReadIsCurrent'
<1> USE DEF StatusInv
<1>1. /\ statusGeneration' \in 0..(GenerationModulus - 1)
      /\ Odd(statusGeneration') <=> ~Odd(statusGeneration)
  BY NextFlips DEF Bump, StatusTypeOK
<1>2. moved' \in 0..(GenerationModulus - 1)
  BY StatusAssumption, SMT DEF Bump, StatusTypeOK
<1>3. ReaderInv'
  <2>1. CASE reading.next = 0
    BY <2>1 DEF ReaderInv, readerVars
  <2>2. CASE reading.next # 0
    <3>1. moved' = moved + 1 /\ moved + 1 < GenerationModulus /\ moved' # 0
      BY <2>2, SMT DEF Bump, StatusTypeOK
    <3>2. statusGeneration' = Later(reading.before, moved')
      BY <2>2, <3>1, SameIsUnmoved DEF Bump, StatusTypeOK, ReaderInv
    <3> QED BY <2>2, <3>1, <3>2 DEF ReaderInv, readerVars
  <2> QED BY <2>1, <2>2
<1>4. ReadIsCurrent'
  BY DEF ReadIsCurrent, readerVars
<1> QED BY <1>1, <1>2, <1>3, <1>4

LEMMA StatusInvStep == ASSUME StatusInv, [StatusNext]_statusVars PROVE StatusInv'
<1> USE DEF StatusInv
<1>0. Fields \in Nat /\ Fields # 0 /\ 0 \notin Field
  BY StatusAssumption, SMT DEF Field
<1>1. ASSUME NEW s \in Status, PublishBegin(s) PROVE StatusInv'
  <2>1. UNCHANGED readerVars /\ Bump
    BY <1>1 DEF PublishBegin
  <2>2. StatusTypeOK'
    BY <1>0, <1>1, <2>1, BumpKeeps, SMT DEF PublishBegin, readerVars, StatusTypeOK
  <2>3. writing'.next = 1 /\ writing'.status = s /\ writing.next = 0
    BY <1>1 DEF PublishBegin
  <2>4. latest' \in Status \/ statusGeneration' \in {0, 1}
    <3>1. ~Odd(1) = FALSE /\ latest' = latest
      BY <1>1, SMT DEF PublishBegin, Odd
    <3>2. statusGeneration = 0 => statusGeneration' = 1
      BY <2>1, StatusAssumption, SMT DEF Bump, NextGeneration
    <3> QED BY <2>3, <3>1, <3>2 DEF WriterInv
  <2>5. WriterInv'
    <3>1. Odd(statusGeneration')
      BY <2>1, <2>3, BumpKeeps DEF WriterInv
    <3>2. \A f \in Field : ~(f < 1)
      BY SMT DEF Field
    <3> QED BY <2>3, <2>4, <3>1, <3>2 DEF WriterInv
  <2> QED BY <2>1, <2>2, <2>5, BumpKeeps
<1>2. CASE PublishStore
  <2>1. StatusTypeOK'
    <3>1. writing.next + 1 \in 0..(Fields + 1) /\ writing.next # 0
      BY <1>0, <1>2, SMT DEF PublishStore, Field
    <3>2. writing.status \in Status
      BY <3>1 DEF WriterInv
    <3> QED BY <1>2, <3>1, <3>2 DEF PublishStore, readerVars, StatusTypeOK
  <2>2. writing.next \in Field /\ writing.next # 0 /\ Odd(statusGeneration)
    BY <1>0, <1>2 DEF PublishStore, WriterInv
  <2>3. writing'.next = writing.next + 1 /\ writing'.status = writing.status
        /\ writing'.next # 0
    BY <1>2, <2>2, SMT DEF PublishStore, StatusTypeOK, Field
  <2>4. \A f \in Field : f < writing'.next => field'[f] = writing'.status
    <3>1. ASSUME NEW f \in Field, f < writing'.next PROVE field'[f] = writing'.status
      <4>1. CASE f = writing.next
        BY <1>2, <2>3, <4>1 DEF PublishStore, StatusTypeOK
      <4>2. CASE f # writing.next
        <5>1. f < writing.next
          BY <2>2, <2>3, <3>1, <4>2, SMT DEF Field
        <5> QED BY <1>2, <2>2, <2>3, <4>2, <5>1 DEF PublishStore, StatusTypeOK, WriterInv
      <4> QED BY <4>1, <4>2
    <3> QED BY <3>1
  <2>5. WriterInv'
    BY <1>2, <2>2, <2>3, <2>4 DEF PublishStore, WriterInv
  <2>6. ReaderInv' /\ ReadIsCurrent'
    BY <1>2 DEF PublishStore, readerVars, ReaderInv, ReadIsCurrent
  <2> QED BY <2>1, <2>5, <2>6
<1>3. CASE PublishEnd
  <2>1. UNCHANGED readerVars /\ Bump
    BY <1>3 DEF PublishEnd
  <2>2. writing.next # 0 /\ writing'.next = 0 /\ \A f \in Field : f < writing.next
    BY <1>0, <1>3, SMT DEF PublishEnd, StatusTypeOK, Field
  <2>3. latest' = writing.status /\ latest' \in Status
    BY <1>3, <2>2 DEF PublishEnd, WriterInv
  <2>4. StatusTypeOK'
    BY <1>0, <1>3, <2>1, <2>3, BumpKeeps, SMT DEF PublishEnd, readerVars, StatusTypeOK
  <2>5. WriterInv'
    <3>1. ~Odd(statusGeneration')
      BY <2>1, <2>2, BumpKeeps DEF WriterInv
    <3> QED BY <1>3, <2>2, <2>3, <3>1 DEF PublishEnd, WriterInv
  <2> QED BY <2>1, <2>4, <2>5, BumpKeeps
<1>4. CASE ReadBegin
  <2>1. /\ reading'.next = 1 /\ reading'.before = statusGeneration
        /\ ~result' /\ atLoad' = latest /\ moved' = 0
    BY <1>4 DEF ReadBegin
  <2>2. latest \in Status
    BY <1>4, SMT DEF ReadBegin, WriterInv, Odd
  <2>3. StatusTypeOK'
    <3>1. 0 \in 0..(GenerationModulus - 1) /\ 1 \in 0..(Fields + 1)
      BY <1>0, StatusAssumption, SMT
    <3> QED BY <1>4, <3>1 DEF ReadBegin, writerVars, StatusTypeOK
  <2>4. WriterInv'
    BY <1>4 DEF ReadBegin, writerVars, WriterInv
  <2>5. statusGeneration' = Later(reading'.before, moved')
    BY <1>4, <2>1, StatusAssumption, SMT DEF ReadBegin, writerVars, Later, StatusTypeOK
  <2>6. \A f \in Field : ~(f < 1)
    BY SMT DEF Field
  <2>7. ReaderInv' /\ ReadIsCurrent'
    BY <1>4, <2>1, <2>2, <2>5, <2>6 DEF ReadBegin, writerVars, ReaderInv, ReadIsCurrent
  <2> QED BY <2>3, <2>4, <2>7
<1>5. CASE ReadRefused
  BY <1>5 DEF ReadRefused, writerVars, StatusTypeOK, WriterInv, ReaderInv, ReadIsCurrent
<1>6. CASE ReadLoad
  <2>1. reading.next \in Field /\ reading.next # 0 /\ reading'.next = reading.next + 1
        /\ reading'.before = reading.before
    BY <1>0, <1>6 DEF ReadLoad, StatusTypeOK
  <2>2. StatusTypeOK'
    <3>1. reading.next + 1 \in 0..(Fields + 1) /\ field[reading.next] \in Status \cup {Unset}
      BY <1>0, <2>1, SMT DEF StatusTypeOK, Field
    <3> QED BY <1>6, <3>1 DEF ReadLoad, writerVars, StatusTypeOK
  <2>3. WriterInv'
    BY <1>6 DEF ReadLoad, writerVars, WriterInv
  <2>4. ASSUME moved = 0, NEW f \in Field, f < reading.next + 1 PROVE copy'[f] = atLoad
    <3>1. statusGeneration = reading.before /\ latest = atLoad
      BY <2>1, <2>4, SameIsUnmoved DEF ReaderInv, StatusTypeOK
    <3>2. field[reading.next] = atLoad
      BY <2>1, <3>1 DEF WriterInv, ReaderInv
    <3>3. CASE f = reading.next
      BY <1>6, <3>2, <3>3 DEF ReadLoad, StatusTypeOK
    <3>4. CASE f # reading.next
      <4>1. f < reading.next
        BY <2>1, <2>4, <3>4, SMT DEF Field
      <4> QED BY <1>6, <2>1, <2>4, <3>4, <4>1 DEF ReadLoad, StatusTypeOK, ReaderInv
    <3> QED BY <3>3, <3>4
  <2>5. ReaderInv'
    BY <1>6, <2>1, <2>4 DEF ReadLoad, writerVars, ReaderInv
  <2>6. ReadIsCurrent'
    BY <1>6, <2>1 DEF ReadLoad, ReaderInv, ReadIsCurrent
  <2> QED BY <2>2, <2>3, <2>5, <2>6
<1>7. CASE ReadEnd
  <2>1. reading.next = Fields + 1 /\ reading.next # 0 /\ reading'.next = 0
        /\ \A f \in Field : f < reading.next
    BY <1>0, <1>7, SMT DEF ReadEnd, StatusTypeOK, Field
  <2>2. StatusTypeOK'
    <3>1. 0 \in 0..(GenerationModulus - 1) /\ 0 \in 0..(Fields + 1)
      BY <1>0, StatusAssumption, SMT
    <3> QED BY <1>7, <3>1 DEF ReadEnd, Unchanged, writerVars, StatusTypeOK
  <2>3. WriterInv' /\ ReaderInv'
    BY <1>7, <2>1 DEF ReadEnd, writerVars, WriterInv, ReaderInv
  <2>4. result' => moved = 0
    BY <1>7, <2>1, SameIsUnmoved DEF ReadEnd, Unchanged, ReaderInv, StatusTypeOK
  <2>5. ReadIsCurrent'
    BY <1>7, <2>1, <2>4 DEF ReadEnd, ReaderInv, ReadIsCurrent
  <2> QED BY <2>2, <2>3, <2>5
<1>8. CASE ReaderRestart
  <2>1. 0 \in 0..(GenerationModulus - 1) /\ 0 \in 0..(Fields + 1)
    BY <1>0, StatusAssumption, SMT
  <2>2. StatusTypeOK'
    BY <1>8, <2>1 DEF ReaderRestart, writerVars, StatusTypeOK
  <2> QED BY <1>8, <2>2 DEF ReaderRestart, writerVars, WriterInv, ReaderInv, ReadIsCurrent
<1>9. CASE UNCHANGED statusVars
  BY <1>9 DEF statusVars, StatusTypeOK, WriterInv, ReaderInv, ReadIsCurrent
<1> QED BY <1>1, <1>2, <1>3, <1>4, <1>5, <1>6, <1>7, <1>8, <1>9 DEF StatusNext

\* Type correctness, for every modulus and every number of fields.
THEOREM StatusTypeCorrect == StatusSpec => []StatusTypeOK
<1>1. StatusSpec => []StatusInv
  BY StatusInvInit, StatusInvStep, PTL DEF StatusSpec
<1>2. StatusInv => StatusTypeOK
  BY DEF StatusInv
<1> QED BY <1>1, <1>2, PTL

\* A successful readLatest() returns, whole, the status that was the latest when
\* it began, whatever the output task published meanwhile.
THEOREM AlwaysCurrent == StatusSpec => []ReadIsCurrent
<1>1. StatusSpec => []StatusInv
  BY StatusInvInit, StatusInvStep, PTL DEF StatusSpec
<1>2. StatusInv => ReadIsCurrent
  BY DEF StatusInv
<1> QED BY <1>1, <1>2, PTL

-----------------------------------------------------------------------------
(* StartupAlerts, for any devices, time-outs and number of failures.       *)

\* Until the check is reported, what is owed is what the report will tell, and
\* neither the recorder nor the controller task has anything to do.
CheckingInv ==
    /\ seen \subseteq answering
    /\ check.step # "complete" =>
          /\ owed = (impossible \/ faulty \/ answering # Device)
          /\ alertSequence = 0 /\ hmiAlert = 0
          /\ buzzer = [step |-> "read", handled |-> 0, read |-> 0]

\* hmi_alert_sequence_ is only read and published by the telemetry task once the
\* check is reported, so that no increment is lost and none goes back.
HandingOnInv ==
    /\ telemetry.handled <= alertSequence /\ hmiAlert <= telemetry.handled + 1
    /\ telemetry.step = "publish" => telemetry.handled < alertSequence /\ telemetry.read = hmiAlert
    /\ buzzer.handled <= hmiAlert /\ buzzer.read <= hmiAlert
    /\ buzzer.step # "read" => buzzer.handled < buzzer.read

\* What the controller task will count as handled when it reads the box again.
WillBeHandled == IF buzzer.step = "mark" THEN buzzer.read ELSE buzzer.handled

\* Whatever is owed is on its way: it will be reported, a failure has not been
\* handed on, the box differs from what the controller task will have handled, or
\* a rumble for it is being tried.
OwedIsOnItsWay ==
    owed => \/ check.step # "complete"
            \/ alertSequence # telemetry.handled
            \/ hmiAlert # WillBeHandled
            \/ buzzer.step = "rumble"

AlertInv == AlertTypeOK /\ CheckingInv /\ HandingOnInv /\ OwedIsOnItsWay

LEMMA AlertInvInit == ASSUME AlertInit PROVE AlertInv
<1>1. 0 \in 0..SensorTimeout /\ 0 \in 0..MaxFailures /\ 0 \in 0..(MaxFailures + 1)
  BY StartupAssumption
<1>2. AlertTypeOK
  BY <1>1 DEF AlertInit, AlertTypeOK
<1>3. CheckingInv
  BY DEF AlertInit, CheckingInv
<1>4. HandingOnInv
  BY DEF AlertInit, HandingOnInv
<1>5. OwedIsOnItsWay
  BY DEF AlertInit, OwedIsOnItsWay
<1> QED BY <1>2, <1>3, <1>4, <1>5 DEF AlertInv

\* A poll of the self check.
LEMMA PollKeeps ==
  ASSUME AlertInv, NEW valid \in SUBSET answering, NEW fault \in BOOLEAN, Poll(valid, fault)
  PROVE  AlertInv'
<1>1. check'.elapsed \in 0..SensorTimeout /\ check'.step \in {"decided", "polling"}
      /\ check' = [elapsed |-> check'.elapsed, step |-> check'.step]
  BY StartupAssumption DEF Poll, AlertInv, AlertTypeOK
<1>2. seen' \subseteq answering /\ seen' \subseteq Device /\ faulty' \in BOOLEAN /\ owed' \in BOOLEAN
  BY DEF Poll, AlertInv, AlertTypeOK, CheckingInv
<1>3. AlertTypeOK'
  BY <1>1, <1>2 DEF Poll, AlertInv, AlertTypeOK
<1>4. owed' = (impossible \/ faulty' \/ answering # Device)
  BY DEF Poll, AlertInv, AlertTypeOK, CheckingInv
<1>5. CheckingInv'
  BY <1>2, <1>4 DEF Poll, AlertInv, CheckingInv
<1>6. HandingOnInv'
  BY DEF Poll, AlertInv, HandingOnInv
<1>7. OwedIsOnItsWay'
  BY <1>1 DEF OwedIsOnItsWay
<1> QED BY <1>3, <1>5, <1>6, <1>7 DEF AlertInv

\* The report of the self check: whatever is owed is a fault that it tells.
LEMMA ReportKeeps == ASSUME AlertInv, Report PROVE AlertInv'
<1>1. /\ check.step = "decided" /\ owed = (impossible \/ faulty \/ answering # Device)
      /\ alertSequence = 0 /\ hmiAlert = 0
      /\ buzzer = [step |-> "read", handled |-> 0, read |-> 0]
      /\ telemetry.handled = 0 /\ telemetry.step # "publish"
  BY DEF Report, AlertInv, AlertTypeOK, CheckingInv, HandingOnInv
<1>2. owed => ~Healthy
  BY <1>1 DEF Healthy, AlertInv, AlertTypeOK, CheckingInv
<1>3. hmiAlert' \in {0, 1} /\ (owed => hmiAlert' = 1)
  BY <1>1, <1>2 DEF Report
<1>4. AlertTypeOK'
  BY <1>3, StartupAssumption DEF Report, AlertInv, AlertTypeOK
<1>5. CheckingInv'
  BY DEF Report, AlertInv, AlertTypeOK, CheckingInv
<1>6. HandingOnInv' /\ OwedIsOnItsWay'
  BY <1>1, <1>3 DEF Report, AlertInv, HandingOnInv, OwedIsOnItsWay, WillBeHandled
<1> QED BY <1>4, <1>5, <1>6 DEF AlertInv

\* The telemetry task: a tick, in which a session may fail, ...
LEMMA TickKeeps ==
  ASSUME AlertInv, NEW fails \in BOOLEAN, TelemetryTick(fails)
  PROVE  AlertInv'
<1>1. CASE fails
  <2>1. /\ check.step = "complete" /\ alertSequence' = alertSequence + 1
        /\ alertSequence < MaxFailures /\ owed' = TRUE
        /\ telemetry' = [telemetry EXCEPT !.step = "compare"]
    BY <1>1 DEF TelemetryTick, MayFail
  <2>2. AlertTypeOK' /\ HandingOnInv'
    BY <2>1, StartupAssumption DEF TelemetryTick, checkVars, AlertInv, AlertTypeOK, HandingOnInv
  <2>3. CheckingInv' /\ OwedIsOnItsWay'
    BY <2>1 DEF TelemetryTick, checkVars, AlertInv, AlertTypeOK, CheckingInv, HandingOnInv,
                OwedIsOnItsWay
  <2> QED BY <2>2, <2>3 DEF AlertInv
<1>2. CASE ~fails
  <2>1. /\ telemetry' \in [step : {"tick", "compare", "publish"}, handled : Nat, read : Nat]
        /\ telemetry'.handled = telemetry.handled /\ telemetry'.step # "publish"
        /\ alertSequence' = alertSequence /\ owed' = owed
    BY <1>2 DEF TelemetryTick, AlertInv, AlertTypeOK
  <2>2. AlertTypeOK'
    BY <2>1 DEF TelemetryTick, checkVars, AlertInv, AlertTypeOK
  <2>3. CheckingInv'
    BY <2>1 DEF TelemetryTick, checkVars, AlertInv, CheckingInv
  <2>4. HandingOnInv'
    BY <2>1 DEF TelemetryTick, AlertInv, AlertTypeOK, HandingOnInv
  <2>5. OwedIsOnItsWay'
    BY <2>1 DEF TelemetryTick, checkVars, AlertInv, OwedIsOnItsWay, WillBeHandled
  <2> QED BY <2>2, <2>3, <2>4, <2>5 DEF AlertInv
<1> QED BY <1>1, <1>2

\* ... and the handing on of what it left.
LEMMA HandOnKeeps == ASSUME AlertInv, TelemetryCompare \/ TelemetryPublish PROVE AlertInv'
<1>1. CASE TelemetryCompare
  <2>1. /\ telemetry' \in [step : {"tick", "compare", "publish"}, handled : Nat, read : Nat]
        /\ telemetry'.handled = telemetry.handled
        /\ telemetry'.step = "publish" => alertSequence # telemetry.handled /\ telemetry'.read = hmiAlert
    <3>1. /\ telemetry \in [step : {"tick", "compare", "publish"}, handled : Nat, read : Nat]
          /\ hmiAlert \in Nat
      BY StartupAssumption DEF AlertInv, AlertTypeOK
    <3>2. CASE alertSequence = telemetry.handled
      BY <1>1, <3>1, <3>2 DEF TelemetryCompare
    <3>3. CASE alertSequence # telemetry.handled
      <4>1. telemetry' = [step |-> "publish", handled |-> telemetry.handled, read |-> hmiAlert]
        BY <1>1, <3>1, <3>3 DEF TelemetryCompare
      <4> QED BY <3>1, <3>3, <4>1
    <3> QED BY <3>2, <3>3
  <2>2. AlertTypeOK'
    BY <1>1, <2>1 DEF TelemetryCompare, checkVars, AlertInv, AlertTypeOK
  <2>3. CheckingInv'
    BY <1>1 DEF TelemetryCompare, checkVars, AlertInv, CheckingInv
  <2>4. HandingOnInv'
    BY <1>1, <2>1 DEF TelemetryCompare, AlertInv, AlertTypeOK, HandingOnInv
  <2>5. OwedIsOnItsWay'
    BY <1>1, <2>1 DEF TelemetryCompare, checkVars, AlertInv, OwedIsOnItsWay, WillBeHandled
  <2> QED BY <2>2, <2>3, <2>4, <2>5 DEF AlertInv
<1>2. CASE TelemetryPublish
  <2>1. /\ check.step = "complete" /\ hmiAlert' = hmiAlert + 1
        /\ hmiAlert' <= alertSequence + 1 /\ telemetry'.handled = alertSequence
        /\ telemetry'.step = "tick"
        /\ telemetry' = [step |-> "tick", handled |-> alertSequence, read |-> 0]
    BY <1>2 DEF TelemetryPublish, AlertInv, AlertTypeOK, CheckingInv, HandingOnInv
  <2>2. AlertTypeOK' /\ HandingOnInv'
    BY <1>2, <2>1, StartupAssumption
       DEF TelemetryPublish, checkVars, AlertInv, AlertTypeOK, HandingOnInv
  <2>3. CheckingInv'
    BY <1>2, <2>1 DEF TelemetryPublish, checkVars, AlertInv, CheckingInv
  <2>4. OwedIsOnItsWay'
    BY <1>2, <2>1 DEF TelemetryPublish, AlertInv, AlertTypeOK, HandingOnInv, OwedIsOnItsWay,
                      WillBeHandled
  <2> QED BY <2>2, <2>3, <2>4 DEF AlertInv
<1> QED BY <1>1, <1>2

\* The controller task: it does not move before the report.
LEMMA ControllerKeeps == ASSUME AlertInv, ControllerHmi PROVE AlertInv'
<1> DEFINE Places == [step : {"read", "rumble", "mark"}, handled : Nat, read : Nat]
<1>0. check.step = "complete"
  BY DEF ControllerHmi, BuzzerRead, Felt, Refused, Mark, AlertInv, CheckingInv
<1>1. buzzer \in Places /\ hmiAlert \in Nat
  BY StartupAssumption DEF AlertInv, AlertTypeOK
<1>2. BuzzerRead => /\ buzzer.step = "read" /\ buzzer.handled # hmiAlert
                    /\ buzzer' = [step |-> "rumble", handled |-> buzzer.handled, read |-> hmiAlert]
  BY <1>1 DEF BuzzerRead
<1>3. Felt => /\ buzzer.step = "rumble"
              /\ buzzer' = [step |-> "mark", handled |-> buzzer.handled, read |-> buzzer.read]
  BY <1>1 DEF Felt
<1>4. Refused => /\ buzzer.step = "rumble"
                 /\ buzzer' = [step |-> "read", handled |-> buzzer.handled, read |-> 0]
  BY <1>1 DEF Refused
<1>5. Mark => /\ buzzer.step = "mark"
              /\ buzzer' = [step |-> "read", handled |-> buzzer.read, read |-> 0]
  BY <1>1 DEF Mark, Handled
<1>6. \/ /\ buzzer.step = "read" /\ buzzer.handled # hmiAlert
         /\ buzzer' = [step |-> "rumble", handled |-> buzzer.handled, read |-> hmiAlert]
      \/ /\ buzzer.step = "rumble" /\ Felt
         /\ buzzer' = [step |-> "mark", handled |-> buzzer.handled, read |-> buzzer.read]
      \/ /\ buzzer.step = "rumble"
         /\ buzzer' = [step |-> "read", handled |-> buzzer.handled, read |-> 0]
      \/ /\ buzzer.step = "mark"
         /\ buzzer' = [step |-> "read", handled |-> buzzer.read, read |-> 0]
  BY <1>2, <1>3, <1>4, <1>5 DEF ControllerHmi
<1>7. /\ UNCHANGED <<checkVars, alertSequence, hmiAlert, telemetry>>
      /\ owed' = owed \/ (Felt /\ owed' = FALSE)
  <2>1. CASE BuzzerRead
    BY <2>1 DEF BuzzerRead
  <2>2. CASE Felt
    <3>1. UNCHANGED <<checkVars, alertSequence, hmiAlert, telemetry>> /\ owed' = FALSE
      BY <2>2 DEF Felt
    <3> QED BY <2>2, <3>1
  <2>3. CASE Refused
    BY <2>3 DEF Refused
  <2>4. CASE Mark
    BY <2>4 DEF Mark
  <2> QED BY <2>1, <2>2, <2>3, <2>4 DEF ControllerHmi
<1>8. buzzer' \in Places
  BY <1>1, <1>6
<1>9. AlertTypeOK'
  BY <1>7, <1>8 DEF checkVars, AlertInv, AlertTypeOK
<1>10. CheckingInv'
  BY <1>0, <1>7 DEF checkVars, AlertInv, CheckingInv
<1>11. HandingOnInv'
  BY <1>1, <1>6, <1>7 DEF AlertInv, HandingOnInv
<1>12. OwedIsOnItsWay'
  <2>1. hmiAlert # WillBeHandled \/ buzzer.step = "rumble"
        => hmiAlert # WillBeHandled' \/ buzzer'.step = "rumble" \/ Felt
    BY <1>1, <1>6, <1>7 DEF WillBeHandled, AlertInv, HandingOnInv
  <2>2. CASE owed' = owed
    <3>1. owed' => \/ alertSequence # telemetry.handled \/ hmiAlert # WillBeHandled
                   \/ buzzer.step = "rumble"
      BY <1>0, <2>2 DEF AlertInv, OwedIsOnItsWay
    <3>2. Felt => ~owed'
      BY DEF Felt
    <3> QED BY <1>7, <2>1, <3>1, <3>2 DEF OwedIsOnItsWay
  <2>3. CASE owed' = FALSE
    BY <2>3 DEF OwedIsOnItsWay
  <2> QED BY <1>7, <2>2, <2>3
<1> QED BY <1>9, <1>10, <1>11, <1>12 DEF AlertInv

LEMMA AlertInvStep == ASSUME AlertInv, [AlertNext]_alertVars PROVE AlertInv'
<1>1. CASE UNCHANGED alertVars
  BY <1>1 DEF alertVars, checkVars, AlertInv, AlertTypeOK, CheckingInv, HandingOnInv,
              OwedIsOnItsWay, WillBeHandled
<1> QED BY <1>1, PollKeeps, ReportKeeps, TickKeeps, HandOnKeeps, ControllerKeeps
        DEF AlertNext, SelfCheck, Telemetry

\* Nothing that the operator is owed is lost between the three tasks: as long as
\* no rumble has followed a fault of the self check or a session that failed, it is
\* in one of the four places from which it reaches the controller.  That it arrives
\* is AlertIsFelt, which takes the fairness of the tasks.
THEOREM AlertsAreNotLost == AlertSpec => []OwedIsOnItsWay
<1>1. AlertInv => OwedIsOnItsWay
  BY DEF AlertInv
<1> QED BY <1>1, AlertInvInit, AlertInvStep, PTL DEF AlertSpec

-----------------------------------------------------------------------------
(* SensorValidator, for any channels, limits and time-outs.                *)

Bank == [accepted : BOOLEAN, value : Int, since : 0..Horizon, recovery : 0..Recovery,
         freezing : BOOLEAN, frozen : 0..Horizon]

\* A bank b beside the histories of its channel: the samples it has not yet seen are
\* the rest of its probation, and the time it counts as frozen goes from the sample
\* the value has been the same since to now.
Agrees(b, accepted, stood) ==
    /\ b \in Bank
    /\ accepted \in 0..(Recovery + 1) /\ stood \in 0..Horizon
    /\ accepted + b.recovery >= Recovery
    /\ b.freezing => /\ b.accepted /\ b.since <= b.frozen
                     /\ b.frozen < Horizon => stood = b.frozen - b.since
    /\ b.accepted /\ ~b.freezing => stood = 0

SensorInv ==
    /\ SensorTypeOK
    /\ \A c \in Channel : Agrees(bank[c], streak[c], stuck[c])
    /\ GoodIsEarned

\* The numbers.
LEMMA SensorConstants ==
  /\ Recovery \in Nat /\ Recovery >= 1 /\ FreezeTimeout \in Nat /\ FreezeTimeout >= 1
  /\ MaxAge \in Nat /\ Horizon \in Nat /\ Horizon > MaxAge + FreezeTimeout
  BY SensorAssumption

\* A bank that has been reset agrees with a history of nothing, and with any time
\* that it stood before.
LEMMA FreshAgrees ==
  ASSUME NEW stood \in 0..Horizon
  PROVE  /\ Agrees(Fresh, 0, stood) /\ ~Fresh.accepted /\ Fresh.recovery = Recovery
  BY SensorConstants DEF Fresh, Agrees, Bank

\* Time that passes moves both ends of what is frozen alike.
LEMMA AgedAgrees ==
  ASSUME NEW b, NEW accepted, NEW stood, Agrees(b, accepted, stood)
  PROVE  Agrees(AgedBank(b), accepted, stood)
<1> DEFINE since  == IF b.accepted THEN AtMost(Horizon, b.since + 1) ELSE 0
           frozen == IF b.freezing THEN AtMost(Horizon, b.frozen + 1) ELSE 0
<1>1. b \in Bank
  BY DEF Agrees
<1>2. since \in 0..Horizon /\ frozen \in 0..Horizon
  BY <1>1, SensorConstants DEF Bank, AtMost
<1>3. AgedBank(b) = [b EXCEPT !.since = since, !.frozen = frozen]
  BY <1>1 DEF AgedBank, Bank
<1>4. /\ AgedBank(b) \in Bank /\ AgedBank(b).since = since /\ AgedBank(b).frozen = frozen
      /\ AgedBank(b).accepted = b.accepted /\ AgedBank(b).freezing = b.freezing
      /\ AgedBank(b).recovery = b.recovery
  BY <1>1, <1>2, <1>3 DEF Bank
<1>5. b.freezing => /\ since <= frozen
                    /\ frozen < Horizon => b.frozen < Horizon /\ frozen - since = b.frozen - b.since
  BY <1>1, SensorConstants DEF Bank, AtMost, Agrees
<1> HIDE DEF since, frozen
<1> QED BY <1>4, <1>5 DEF Agrees

\* What a sample of a channel that is not calibrated makes of its bank and its
\* histories, whether it is taken or not.
LEMMA UpdateAgrees ==
  ASSUME NEW b, NEW accepted, NEW stood, Agrees(b, accepted, stood),
         NEW s \in Sample, NEW expected \in BOOLEAN,
         NEW newStood,
         newStood = IF ~b.accepted THEN 0
                    ELSE IF Still(b, s, expected)
                    THEN (IF QualityOf(b, s, expected) # "Invalid"
                          THEN AtMost(Horizon, stood + Gap(b, s)) ELSE stood)
                    ELSE IF Compared(b, s) \/ s.api = "Calibrating" THEN 0 ELSE stood,
         NEW newAccepted,
         newAccepted = IF QualityOf(b, s, expected) # "Invalid"
                       THEN AtMost(Recovery + 1, accepted + 1) ELSE 0
  PROVE  /\ Agrees(Updated(b, s, expected), newAccepted, newStood)
         /\ QualityOf(b, s, expected) \in {"Invalid", "Degraded", "Good"}
         /\ QualityOf(b, s, expected) = "Good" => newAccepted > Recovery /\ newStood < FreezeTimeout
<1> DEFINE f == Frozen(b, s, expected)
<1>1. /\ b \in Bank /\ s.value \in Int /\ s.age \in -1..(MaxAge + 1)
      /\ accepted \in 0..(Recovery + 1) /\ stood \in 0..Horizon
      /\ accepted + b.recovery >= Recovery
  BY SensorAssumption DEF Agrees, Sample
<1>2. /\ f \in Bank /\ f.accepted = b.accepted /\ f.since = b.since /\ f.recovery = b.recovery
      /\ f.value = b.value
      /\ ~Compared(b, s) => f = b
      /\ Compared(b, s) => b.accepted
      /\ Compared(b, s) /\ ~Still(b, s, expected) => ~f.freezing
      /\ Still(b, s, expected) => f.freezing
      /\ Still(b, s, expected) => Compared(b, s)
      /\ Still(b, s, expected) /\ b.freezing => f.frozen = b.frozen
      /\ Still(b, s, expected) /\ ~b.freezing => f.frozen = b.since
  <2>1. CASE ~Compared(b, s)
    BY <1>1, <2>1 DEF Frozen, Still
  <2>2. CASE Compared(b, s) /\ ~Still(b, s, expected)
    <3>1. f = [b EXCEPT !.freezing = FALSE, !.frozen = 0] /\ 0 \in 0..Horizon
      BY <2>2, SensorConstants DEF Frozen
    <3>2. f \in Bank /\ f.freezing = FALSE /\ f.accepted = b.accepted /\ f.since = b.since
          /\ f.recovery = b.recovery /\ f.value = b.value
      BY <1>1, <3>1 DEF Bank
    <3> QED BY <2>2, <3>2 DEF Compared
  <2>3. CASE Still(b, s, expected) /\ b.freezing
    BY <1>1, <2>3 DEF Frozen, Still, Compared
  <2>4. CASE Still(b, s, expected) /\ ~b.freezing
    <3>1. f = [b EXCEPT !.freezing = TRUE, !.frozen = b.since] /\ Compared(b, s) /\ b.accepted
      BY <2>4 DEF Frozen, Still, Compared
    <3> QED BY <1>1, <2>4, <3>1 DEF Bank
  <2> QED BY <2>1, <2>2, <2>3, <2>4
<1> HIDE DEF f
<1>3. Still(b, s, expected) => /\ f.since <= f.frozen
                               /\ f.frozen < Horizon => stood = f.frozen - f.since
  BY <1>1, <1>2 DEF Agrees, Bank
<1>4. CASE s.api = "Calibrating"
  <2>1. QualityOf(b, s, expected) = "Invalid" /\ Updated(b, s, expected) = Fresh
    BY <1>4 DEF QualityOf, Updated
  <2>2. newAccepted = 0 /\ newStood \in 0..Horizon
    BY <1>1, <2>1, SensorConstants
  <2> QED BY <2>1, <2>2, FreshAgrees
<1>5. CASE s.api # "Calibrating" /\ Rejected(b, s, expected)
  <2>1. QualityOf(b, s, expected) = "Invalid" /\ newAccepted = 0
    BY <1>5 DEF QualityOf
  <2>2. Updated(b, s, expected) = [f EXCEPT !.recovery = Recovery]
    BY <1>5 DEF Updated, RecoveryAfterReject, f
  <2>3. LET u == Updated(b, s, expected)
        IN u \in Bank /\ u.recovery = Recovery /\ u.accepted = f.accepted /\ u.since = f.since
           /\ u.freezing = f.freezing /\ u.frozen = f.frozen
    BY <1>2, <2>2, SensorConstants DEF Bank
  <2>4. newStood = IF (Compared(b, s) /\ ~Still(b, s, expected)) \/ ~b.accepted THEN 0 ELSE stood
    BY <1>2, <1>5, <2>1
  <2>5. /\ newStood \in 0..Horizon
        /\ f.freezing => /\ f.accepted /\ f.since <= f.frozen
                         /\ f.frozen < Horizon => newStood = f.frozen - f.since
        /\ f.accepted /\ ~f.freezing => newStood = 0
    <3>1. CASE Still(b, s, expected)
      BY <1>1, <1>2, <1>3, <2>4, <3>1
    <3>2. CASE Compared(b, s) /\ ~Still(b, s, expected)
      BY <1>1, <1>2, <2>4, <3>2, SensorConstants
    <3>3. CASE ~Compared(b, s)
      BY <1>1, <1>2, <2>4, <3>3, SensorConstants DEF Agrees
    <3> QED BY <3>1, <3>2, <3>3
  <2> QED BY <1>1, <2>1, <2>3, <2>5, SensorConstants DEF Agrees
<1>6. CASE s.api # "Calibrating" /\ ~Rejected(b, s, expected)
  <2>1. /\ s.age \in 0..MaxAge /\ s.api # "NotFinite"
        /\ b.accepted => b.since - s.age > 0
        /\ Still(b, s, expected) => f.frozen - s.age < FreezeTimeout
    BY <1>1, <1>2, <1>6, SensorConstants DEF Rejected, Gap, Bank, f
  <2>2. Compared(b, s) = b.accepted
    BY <1>1, <2>1 DEF Compared, Gap, Bank
  <2>3. Updated(b, s, expected) = [f EXCEPT !.accepted = TRUE, !.value = s.value, !.since = s.age,
                                      !.recovery = IF f.recovery > 0 THEN f.recovery - 1 ELSE 0]
    BY <1>2, <1>6 DEF Updated, Accept, f, Bank
  <2>4. LET u == Updated(b, s, expected)
        IN /\ u \in Bank /\ u.recovery = (IF b.recovery > 0 THEN b.recovery - 1 ELSE 0)
           /\ u.accepted /\ u.since = s.age /\ u.freezing = f.freezing /\ u.frozen = f.frozen
    <3>1. (IF f.recovery > 0 THEN f.recovery - 1 ELSE 0) \in 0..Recovery /\ s.age \in 0..Horizon
      BY <1>2, <2>1, SensorConstants DEF Bank
    <3> QED BY <1>1, <1>2, <2>3, <3>1 DEF Bank
  <2>5. /\ QualityOf(b, s, expected) \in {"Degraded", "Good"}
        /\ QualityOf(b, s, expected) = "Good" => b.recovery = 0
    BY <1>1, <1>6 DEF QualityOf, Bank
  <2>6. newAccepted = AtMost(Recovery + 1, accepted + 1)
    BY <2>5
  <2>7. /\ newAccepted \in 0..(Recovery + 1)
        /\ newAccepted + (IF b.recovery > 0 THEN b.recovery - 1 ELSE 0) >= Recovery
        /\ b.recovery = 0 => newAccepted > Recovery
    BY <1>1, <2>6, SensorConstants DEF AtMost, Bank
  <2>8. CASE Still(b, s, expected)
    <3>1. /\ f.frozen < Horizon /\ f.since <= f.frozen /\ stood = f.frozen - f.since
          /\ f.freezing /\ b.accepted
      BY <1>2, <1>3, <2>1, <2>8, SensorConstants DEF Bank
    <3>2. stood + Gap(b, s) = f.frozen - s.age
      BY <1>1, <1>2, <2>1, <3>1 DEF Gap, Bank
    <3>3. newStood = f.frozen - s.age /\ newStood \in 0..Horizon /\ newStood < FreezeTimeout
          /\ s.age <= f.frozen
      BY <1>1, <1>2, <2>1, <2>5, <2>8, <3>1, <3>2, SensorConstants DEF AtMost, Bank
    <3> QED BY <2>4, <2>5, <2>7, <3>1, <3>3 DEF Agrees
  <2>9. CASE ~Still(b, s, expected)
    <3>1. newStood = 0 /\ (b.accepted => ~f.freezing) /\ (~b.accepted => f = b)
      BY <1>2, <2>2, <2>9
    <3>2. ~f.freezing
      BY <1>2, <3>1 DEF Agrees
    <3> QED BY <2>4, <2>5, <2>7, <3>1, <3>2, SensorConstants DEF Agrees
  <2> QED BY <2>8, <2>9
<1> QED BY <1>4, <1>5, <1>6

\* Banks and histories that agree are of their types.
LEMMA AgreedTypes ==
  ASSUME fitted' \in Rig, NEW newBank, NEW newQuality, NEW newStreak, NEW newStuck,
         bank' = [c \in Channel |-> newBank[c]], quality' = [c \in Channel |-> newQuality[c]],
         streak' = [c \in Channel |-> newStreak[c]], stuck' = [c \in Channel |-> newStuck[c]],
         \A c \in Channel : /\ Agrees(newBank[c], newStreak[c], newStuck[c])
                            /\ newQuality[c] \in {"Invalid", "Degraded", "Good"}
  PROVE  SensorTypeOK'
<1>1. Bank \subseteq [accepted : BOOLEAN, value : Int, since : -1..Horizon, recovery : 0..Recovery,
                     freezing : BOOLEAN, frozen : 0..Horizon]
  BY SensorConstants DEF Bank
<1> QED BY <1>1 DEF SensorTypeOK, Agrees

\* A frame, the first of an epoch or not.
LEMMA FrameKeeps ==
  ASSUME SensorInv, NEW newEpoch \in BOOLEAN, NEW expected \in BOOLEAN,
         NEW sample \in Samples, Frame(newEpoch, sample, expected)
  PROVE  SensorInv'
<1> DEFINE base(c)   == IF newEpoch THEN Fresh ELSE AgedBank(bank[c])
           moving(c) == expected /\ c \in Expected
           past(c)   == IF newEpoch THEN 0 ELSE streak[c]
<1>1. ASSUME NEW c \in Channel
      PROVE  Agrees(base(c), past(c), stuck[c]) /\ moving(c) \in BOOLEAN
  <2>1. Agrees(bank[c], streak[c], stuck[c]) /\ stuck[c] \in 0..Horizon
    BY DEF SensorInv, Agrees
  <2> QED BY <2>1, FreshAgrees, AgedAgrees
<1>2. fitted' = fitted /\ fitted \in Rig /\ fitted \subseteq Channel
  BY SensorAssumption DEF Frame, SensorInv, SensorTypeOK
<1>3. ASSUME NEW c \in Channel
      PROVE  /\ Agrees(bank'[c], streak'[c], stuck'[c])
             /\ quality'[c] \in {"Invalid", "Degraded", "Good"}
             /\ quality'[c] = "Good" => streak'[c] > Recovery /\ stuck'[c] < FreezeTimeout
  <2>1. CASE c \notin fitted
    <3>1. bank'[c] = Fresh /\ quality'[c] = "Invalid" /\ streak'[c] = 0 /\ stuck'[c] = 0
      BY <2>1 DEF Frame
    <3>2. Agrees(Fresh, 0, 0)
      BY FreshAgrees, SensorConstants
    <3> QED BY <3>1, <3>2
  <2>2. CASE c \in fitted
    <3>1. sample[c] \in Sample
      BY <2>2 DEF Samples
    <3>2. /\ bank'[c] = Updated(base(c), sample[c], moving(c))
          /\ quality'[c] = QualityOf(base(c), sample[c], moving(c))
          /\ streak'[c] = IF QualityOf(base(c), sample[c], moving(c)) # "Invalid"
                          THEN AtMost(Recovery + 1, past(c) + 1) ELSE 0
          /\ stuck'[c] = IF ~base(c).accepted THEN 0
                ELSE IF Still(base(c), sample[c], moving(c))
                THEN (IF QualityOf(base(c), sample[c], moving(c)) # "Invalid"
                      THEN AtMost(Horizon, stuck[c] + Gap(base(c), sample[c])) ELSE stuck[c])
                ELSE IF Compared(base(c), sample[c]) \/ sample[c].api = "Calibrating" THEN 0
                ELSE stuck[c]
      BY <2>2 DEF Frame
    <3> HIDE DEF base, moving, past
    <3> QED BY <1>1, <3>1, <3>2, UpdateAgrees
  <2> QED BY <2>1, <2>2
<1>4. /\ bank' = [c \in Channel |-> bank'[c]] /\ quality' = [c \in Channel |-> quality'[c]]
      /\ streak' = [c \in Channel |-> streak'[c]] /\ stuck' = [c \in Channel |-> stuck'[c]]
  BY DEF Frame
<1>5. SensorTypeOK'
  BY <1>2, <1>3, <1>4, AgreedTypes
<1> QED BY <1>3, <1>5 DEF SensorInv, GoodIsEarned

LEMMA SensorInvInit == ASSUME SensorInit PROVE SensorInv
<1>1. \A c \in Channel : bank[c] = Fresh /\ quality[c] = "Invalid" /\ streak[c] = 0 /\ stuck[c] = 0
  BY DEF SensorInit
<1>2. 0 \in 0..Horizon /\ 0 \in 0..(Recovery + 1)
  BY SensorConstants
<1>3. Fresh \in [accepted : BOOLEAN, value : Int, since : -1..Horizon, recovery : 0..Recovery,
                freezing : BOOLEAN, frozen : 0..Horizon]
  BY SensorConstants DEF Fresh
<1>4. SensorTypeOK
  BY <1>2, <1>3 DEF SensorInit, SensorTypeOK
<1> QED BY <1>1, <1>2, <1>4, FreshAgrees DEF SensorInv, GoodIsEarned

LEMMA SensorInvStep == ASSUME SensorInv, [SensorNext]_sensorVars PROVE SensorInv'
<1>1. CASE RefusedFrame
  <2>1. \A c \in Channel : bank'[c] = AgedBank(bank[c]) /\ quality'[c] = "Invalid"
    BY <1>1 DEF RefusedFrame
  <2>2. \A c \in Channel : Agrees(bank'[c], streak[c], stuck[c])
    BY <2>1, AgedAgrees DEF SensorInv
  <2>3. /\ bank' = [c \in Channel |-> bank'[c]] /\ quality' = [c \in Channel |-> quality'[c]]
        /\ streak' = [c \in Channel |-> streak[c]] /\ stuck' = [c \in Channel |-> stuck[c]]
        /\ fitted' \in Rig
    BY <1>1 DEF RefusedFrame, SensorInv, SensorTypeOK
  <2>4. SensorTypeOK'
    BY <2>1, <2>2, <2>3, AgreedTypes
  <2> QED BY <1>1, <2>1, <2>2, <2>4 DEF RefusedFrame, SensorInv, GoodIsEarned
<1>2. CASE UNCHANGED sensorVars
  BY <1>2 DEF sensorVars, SensorInv, SensorTypeOK, GoodIsEarned
<1> QED BY <1>1, <1>2, FrameKeeps DEF SensorNext

\* A channel is believed only when it has earned it, for any limits and any samples.
THEOREM TrustIsEarned == SensorSpec => []GoodIsEarned
<1>1. SensorInv => GoodIsEarned
  BY DEF SensorInv
<1> QED BY <1>1, SensorInvInit, SensorInvStep, PTL DEF SensorSpec

\* The same of a step: a frame makes no channel Good that has not been accepted in
\* as many frames before it as a recovery takes.
OnProbation == \A c \in Channel : streak[c] < Recovery => quality'[c] # "Good"

\* This is what Odometry assumes of its devices (Odometry!Qualities): one that was
\* rejected is not Good in the next frame that odometry takes, as long as
\* odometry refuses fewer frames in a row than a recovery takes.  A frame that
\* the validator itself refuses leaves the count as it is.
THEOREM ProbationIsServed == SensorSpec => [][OnProbation]_sensorVars
<1>1. ASSUME SensorInv, SensorInv', [SensorNext]_sensorVars
      PROVE  [OnProbation]_sensorVars
  <2>1. CASE UNCHANGED sensorVars
    BY <2>1
  <2>2. CASE RefusedFrame
    BY <2>2 DEF RefusedFrame, OnProbation
  <2>3. ASSUME NEW newEpoch \in BOOLEAN, NEW expected \in BOOLEAN, NEW sample \in Samples,
               Frame(newEpoch, sample, expected),
               NEW c \in Channel, quality'[c] = "Good"
        PROVE  streak[c] >= Recovery
    <3>1. streak'[c] > Recovery
      BY <1>1, <2>3 DEF SensorInv, GoodIsEarned
    <3>2. \/ streak'[c] = 0
          \/ streak'[c] = AtMost(Recovery + 1, (IF newEpoch THEN 0 ELSE streak[c]) + 1)
      BY <2>3 DEF Frame
    <3>3. streak[c] \in Nat
      BY <1>1 DEF SensorInv, Agrees
    <3> QED BY <3>1, <3>2, <3>3, SensorConstants DEF AtMost
  <2>4. ASSUME NEW c \in Channel
        PROVE  streak[c] \in Nat /\ Recovery \in Nat
    BY <1>1, SensorConstants DEF SensorInv, Agrees
  <2> QED BY <1>1, <2>1, <2>2, <2>3, <2>4 DEF SensorNext, OnProbation
<1> QED BY <1>1, SensorInvInit, SensorInvStep, PTL DEF SensorSpec
=============================================================================
