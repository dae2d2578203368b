--------------------------- MODULE CommandProofs ---------------------------
(***************************************************************************)
(* Commands: proofs about CommandScheduler (commands end once, share no    *)
(* subsystem and stay in their epoch), RouteSelection (the route that runs *)
(* is the confirmed one) and AutonomousMotion (a velocity is of a motion   *)
(* that runs, and no motion outlasts its time-out), for any commands and   *)
(* groups, requirements, slots, routes, sides and times; and what holds of *)
(* them beside the other components, in MCProcedures.                      *)
(***************************************************************************)
EXTENDS MCProcedures, TransportProofs, WellFoundedInduction

-----------------------------------------------------------------------------
(* CommandScheduler, for any commands, requirements and slots.             *)

\* Two slots are never of one command, nor of two that need the same subsystem.
Apart ==
    \A i, j \in Active : i # j =>
        /\ Owner(i) # Owner(j)
        /\ requirements[Owner(i)] \cap requirements[Owner(j)] = {}

\* A leaf is live exactly while its flags say that it runs.
LiveRuns == \A l \in Leaf : live[l] = IF phase[l] = "running" THEN 1 ELSE 0

\* Only the leaves of a command in a slot have flags.
Owned == \A l \in Leaf : phase[l] # "idle" => \E i \in Active : l \in LeavesOf[Owner(i)]

\* A command that runs one leaf at a time runs the current one.
OneAtATime ==
    \A i \in Active : ~Together(Owner(i)) =>
        \A l \in LeavesOf[Owner(i)] :
            phase[l] = "running" <=> l = Children[Owner(i)][current[Owner(i)]]

\* A group whose leaves would share a subsystem starts none of them.
NoneTogether ==
    \A i \in Active : Together(Owner(i)) /\ ~Disjoint[Owner(i)] =>
        \A l \in LeavesOf[Owner(i)] : phase[l] # "running"

FlagsInv == Apart /\ LiveRuns /\ Owned /\ OneAtATime /\ NoneTogether
SchedulerInv == SchedulerTypeOK /\ FlagsInv /\ RunsInItsEpoch

-----------------------------------------------------------------------------
\* What the assumption says of the leaves of a command.
LEMMA Leaves ==
  ASSUME NEW c \in Top
  PROVE  /\ Len(Children[c]) \in Nat \ {0}
         /\ LeavesOf[c] \subseteq Leaf
         /\ \A k \in 1..Len(Children[c]) : Children[c][k] \in LeavesOf[c]
         /\ \A l \in LeavesOf[c] : \E k \in 1..Len(Children[c]) : l = Children[c][k]
         /\ \A j, k \in 1..Len(Children[c]) : Children[c][j] = Children[c][k] => j = k
         /\ Kind[c] \in Kinds
         /\ Kind[c] \in {"single", "timeout"} => Len(Children[c]) = 1
         /\ Kind[c] = "conditional" => Len(Children[c]) = 2
<1>1. Children[c] \in Seq(Leaf) /\ Len(Children[c]) > 0
  BY SchedulerAssumption
<1>2. LeavesOf[c] = {Children[c][k] : k \in 1..Len(Children[c])}
  BY DEF LeavesOf
<1> QED BY <1>1, <1>2, SchedulerAssumption

\* A leaf is of one command.
LEMMA OneCommand ==
  ASSUME NEW c \in Top, NEW d \in Top, NEW l \in LeavesOf[c], l \in LeavesOf[d]
  PROVE  c = d
  BY SchedulerAssumption

\* Slots that are in use hold an owner.
LEMMA ActiveSlots ==
  ASSUME SchedulerTypeOK
  PROVE  /\ Active \subseteq Slots
         /\ \A i \in Active : Owner(i) \in Top /\ slots[i].epoch \in Nat
  BY DEF SchedulerTypeOK, Active, Owner, NoOwner

\* Leases are handed out within the modulus, and never zero.
LEMMA LeaseRange ==
  ASSUME SchedulerTypeOK
  PROVE  NextLease \in 1..(LeaseModulus - 1)
<1>1. generation \in 0..(LeaseModulus - 1) /\ LeaseModulus \in Nat \ {0, 1}
  BY SchedulerAssumption DEF SchedulerTypeOK
<1>2. CASE generation + 1 = LeaseModulus
  <2>1. (generation + 1) % LeaseModulus = 0
    BY <1>1, <1>2
  <2> QED BY <1>1, <2>1 DEF NextLease
<1>3. CASE generation + 1 < LeaseModulus
  BY <1>1, <1>3 DEF NextLease
<1> QED BY <1>1, <1>2, <1>3

\* Where the flags are right, the properties hold.
LEMMA FlagsSuffice ==
  ASSUME SchedulerTypeOK, FlagsInv
  PROVE  EndedOnce /\ NoSharedSubsystem
<1>1. EndedOnce
  <2>1. \A l \in Leaf : live[l] \in {0, 1}
    BY DEF FlagsInv, LiveRuns
  <2>2. ASSUME NEW l \in Leaf, live[l] = 1
        PROVE  \E i \in Active : l \in LeavesOf[Owner(i)] /\ phase[l] = "running"
    BY <2>2 DEF FlagsInv, LiveRuns, Owned
  <2>3. ASSUME NEW i \in Active, NEW l \in LeavesOf[Owner(i)], phase[l] = "running"
        PROVE  live[l] = 1
    BY <2>3, ActiveSlots, Leaves DEF FlagsInv, LiveRuns
  <2> QED BY <2>1, <2>2, <2>3 DEF EndedOnce
<1>2. ASSUME NEW l \in Leaf, NEW m \in Leaf, live[l] = 1, live[m] = 1, l # m
      PROVE  Requires[l] \cap Requires[m] = {}
  <2>1. phase[l] = "running" /\ phase[m] = "running"
    BY <1>2 DEF FlagsInv, LiveRuns
  <2>2. PICK i \in Active : l \in LeavesOf[Owner(i)]
    BY <2>1 DEF FlagsInv, Owned
  <2>3. PICK j \in Active : m \in LeavesOf[Owner(j)]
    BY <2>1 DEF FlagsInv, Owned
  <2>4. Owner(i) \in Top /\ Owner(j) \in Top
    BY ActiveSlots
  <2>5. CASE i # j
    <3>1. requirements[Owner(i)] \cap requirements[Owner(j)] = {}
      BY <2>5 DEF FlagsInv, Apart
    <3>2. Requires[l] \subseteq requirements[Owner(i)]
      BY <2>2, <2>4 DEF requirements
    <3>3. Requires[m] \subseteq requirements[Owner(j)]
      BY <2>3, <2>4 DEF requirements
    <3> QED BY <3>1, <3>2, <3>3
  <2>6. CASE i = j /\ Together(Owner(i))
    <3>1. Disjoint[Owner(i)]
      BY <2>1, <2>2, <2>6 DEF FlagsInv, NoneTogether
    <3>2. PICK a \in 1..Len(Children[Owner(i)]) : l = Children[Owner(i)][a]
      BY <2>2, <2>4, Leaves
    <3>3. PICK b \in 1..Len(Children[Owner(i)]) : m = Children[Owner(i)][b]
      BY <2>3, <2>4, <2>6, Leaves
    <3> QED BY <3>1, <3>2, <3>3, <2>4, <1>2 DEF Disjoint
  <2>7. CASE i = j /\ ~Together(Owner(i))
    BY <1>2, <2>1, <2>2, <2>3, <2>7 DEF FlagsInv, OneAtATime
  <2> QED BY <2>5, <2>6, <2>7
<1> QED BY <1>1, <1>2 DEF NoSharedSubsystem

-----------------------------------------------------------------------------
\* What ends with a set of slots: the leaves of their commands that run.
LEMMA EndedRuns ==
  ASSUME SchedulerTypeOK, FlagsInv, NEW S \in SUBSET Active,
         NEW l \in UNION {Ended(Owner(i), phase) : i \in S}
  PROVE  l \in LeavesIn(S) /\ phase[l] = "running"
<1>1. PICK i \in S : l \in Ended(Owner(i), phase)
  OBVIOUS
<1>2. i \in Active /\ Owner(i) \in Top
  BY ActiveSlots
<1>3. l \in LeavesOf[Owner(i)]
  BY <1>1 DEF Ended
<1>4. phase[l] = "running"
  <2>1. CASE Kind[Owner(i)] # "single"
    BY <1>1, <2>1 DEF Ended
  <2>2. CASE Kind[Owner(i)] = "single"
    <3>1. Len(Children[Owner(i)]) = 1 /\ current[Owner(i)] = 1
      BY <1>2, <2>2, Leaves DEF SchedulerTypeOK
    <3>2. l = Children[Owner(i)][1]
      BY <1>2, <1>3, <3>1, Leaves
    <3>3. ~Together(Owner(i))
      BY <2>2 DEF Together
    <3> QED BY <1>2, <1>3, <3>1, <3>2, <3>3 DEF FlagsInv, OneAtATime
  <2> QED BY <2>1, <2>2
<1> QED BY <1>3, <1>4 DEF LeavesIn

LEMMA RunsEnded ==
  ASSUME SchedulerTypeOK, NEW S \in SUBSET Active, NEW l \in LeavesIn(S), phase[l] = "running"
  PROVE  l \in UNION {Ended(Owner(i), phase) : i \in S}
  BY DEF Ended, LeavesIn

\* A leaf of a slot's command is in a set of slots exactly if the slot is.
LEMMA LeafInSlots ==
  ASSUME SchedulerTypeOK, FlagsInv, NEW S \in SUBSET Active,
         NEW i \in Active, NEW l \in LeavesOf[Owner(i)]
  PROVE  l \in LeavesIn(S) <=> i \in S
<1>1. ASSUME NEW j \in S, l \in LeavesOf[Owner(j)] PROVE i = j
  <2>1. Owner(i) \in Top /\ Owner(j) \in Top /\ j \in Active
    BY ActiveSlots
  <2>2. Owner(i) = Owner(j)
    BY <1>1, <2>1, OneCommand
  <2> QED BY <2>1, <2>2 DEF FlagsInv, Apart
<1> QED BY <1>1 DEF LeavesIn

\* Commands outside the set keep their place.
LEMMA RewoundKeeps ==
  ASSUME SchedulerTypeOK, FlagsInv, NEW S \in SUBSET Active
  PROVE  /\ Rewound(S) \in [Top -> Nat]
         /\ \A c \in Top : Rewound(S)[c] \in 1..Len(Children[c])
         /\ \A i \in Active \ S : Rewound(S)[Owner(i)] = current[Owner(i)]
<1>1. \A c \in Top : Rewound(S)[c] \in {1, current[c]} /\ current[c] \in 1..Len(Children[c])
  BY DEF Rewound, SchedulerTypeOK
<1>2. \A c \in Top : 1 \in 1..Len(Children[c])
  BY Leaves
<1>3. ASSUME NEW i \in Active \ S PROVE Rewound(S)[Owner(i)] = current[Owner(i)]
  BY ActiveSlots DEF Rewound, FlagsInv, Apart
<1>4. Rewound(S) \in [Top -> Nat]
  BY <1>1, <1>2 DEF Rewound
<1> QED BY <1>1, <1>2, <1>3, <1>4

\* cancel() and cancelAll().
LEMMA ReleaseStep ==
  ASSUME SchedulerInv, NEW S \in SUBSET Active, Release(S)
  PROVE  SchedulerInv'
<1> USE DEF SchedulerInv
<1> DEFINE ended == UNION {Ended(Owner(i), phase) : i \in S}
<1>1. \A l \in Leaf : l \in ended <=> l \in LeavesIn(S) /\ phase[l] = "running"
  BY EndedRuns, RunsEnded
<1>2. /\ slots' = [i \in Slots |-> IF i \in S THEN NoOwner ELSE slots[i]]
      /\ phase' = [l \in Leaf |-> IF l \in LeavesIn(S) THEN "idle" ELSE phase[l]]
      /\ current' = Rewound(S)
      /\ live' = [l \in Leaf |-> live[l] - Count(ended)[l]]
      /\ ran' = {} /\ mode' = mode /\ generation' = generation /\ epoch' = epoch
  BY DEF Release
<1> HIDE DEF ended
<1>3. Active' = Active \ S /\ \A i \in Active' : Owner(i)' = Owner(i) /\ Owner(i) \in Top
  BY <1>2, ActiveSlots DEF Active, Owner, NoOwner
<1>4. LiveRuns'
  BY <1>1, <1>2 DEF LiveRuns, FlagsInv, Count
<1>5. \A i \in Active' : \A l \in LeavesOf[Owner(i)] : phase'[l] = phase[l]
  BY <1>2, <1>3, LeafInSlots, Leaves
<1>6. SchedulerTypeOK'
  <2>1. slots' \in [Slots -> [command : Top, lease : 1..(LeaseModulus - 1), epoch : Nat] \cup {NoOwner}]
    BY <1>2 DEF SchedulerTypeOK
  <2>2. phase' \in [Leaf -> {"idle", "running", "finished"}]
    BY <1>2 DEF SchedulerTypeOK
  <2>3. live' \in [Leaf -> Int]
    BY <1>2 DEF SchedulerTypeOK, Count
  <2>4. current' \in [Top -> Nat] /\ \A c \in Top : current'[c] \in 1..Len(Children[c])
    BY <1>2, RewoundKeeps
  <2> QED BY <1>2, <2>1, <2>2, <2>3, <2>4 DEF SchedulerTypeOK
<1>7. Apart'
  BY <1>3 DEF Apart, FlagsInv
<1>8. Owned'
  <2>1. ASSUME NEW l \in Leaf, phase'[l] # "idle" PROVE \E i \in Active' : l \in LeavesOf[Owner(i)']
    <3>1. phase[l] # "idle" /\ l \notin LeavesIn(S)
      BY <1>2, <2>1
    <3>2. PICK i \in Active : l \in LeavesOf[Owner(i)]
      BY <3>1 DEF FlagsInv, Owned
    <3>3. i \notin S
      BY <3>1, <3>2 DEF LeavesIn
    <3> QED BY <1>3, <3>2, <3>3
  <2> QED BY <2>1 DEF Owned
<1>9. OneAtATime'
  <2>1. ASSUME NEW i \in Active', ~Together(Owner(i)), NEW l \in LeavesOf[Owner(i)]
        PROVE  phase'[l] = "running" <=> l = Children[Owner(i)][current'[Owner(i)]]
    <3>1. i \in Active \ S
      BY <1>3
    <3>2. current'[Owner(i)] = current[Owner(i)]
      BY <1>2, <3>1, RewoundKeeps
    <3>3. phase[l] = "running" <=> l = Children[Owner(i)][current[Owner(i)]]
      BY <2>1, <3>1 DEF FlagsInv, OneAtATime
    <3> QED BY <1>5, <3>2, <3>3
  <2> QED BY <1>3, <2>1 DEF OneAtATime, Together
<1>10. NoneTogether'
  BY <1>3, <1>5 DEF NoneTogether, FlagsInv, Together
<1>11. RunsInItsEpoch'
  BY <1>2 DEF RunsInItsEpoch
<1> QED BY <1>4, <1>6, <1>7, <1>8, <1>9, <1>10, <1>11 DEF FlagsInv

\* An accepted command takes a free slot, or that of one it interrupts.
LEMMA ScheduleStep ==
  ASSUME SchedulerInv, NEW c \in Top, NEW interrupt \in BOOLEAN, NEW pick \in Picks(c),
         Schedule(c, interrupt, pick)
  PROVE  SchedulerInv'
<1> USE DEF SchedulerInv
<1> DEFINE freed == Conflicting(c)
           begun == Started(c, pick)
           ended == UNION {Ended(Owner(i), phase) : i \in freed}
<1>1. freed \in SUBSET Active /\ begun \subseteq LeavesOf[c] /\ pick \in 1..Len(Children[c])
  <2>1. pick \in 1..Len(Children[c])
    BY Leaves DEF Picks
  <2> QED BY <2>1, Leaves DEF Conflicting, Started
<1>2. PICK target \in (IF Active = Slots THEN freed ELSE Slots \ Active) :
      /\ slots' = [i \in Slots |->
            IF i = target THEN [command |-> c, lease |-> NextLease, epoch |-> mode.epoch]
            ELSE IF i \in freed THEN NoOwner ELSE slots[i]]
      /\ current' = [Rewound(freed) EXCEPT ![c] = pick]
      /\ phase' = [l \in Leaf |-> IF l \in begun THEN "running"
                                  ELSE IF l \in LeavesIn(freed) THEN "idle" ELSE phase[l]]
      /\ live' = [l \in Leaf |-> live[l] - Count(ended)[l] + Count(begun)[l]]
  BY DEF Schedule
<1>3. /\ generation' = NextLease /\ epoch' = mode.epoch /\ ran' = {} /\ mode' = mode
      /\ \A i \in Active : Owner(i) # c
  BY DEF Schedule, Accepts
<1>4. NextLease \in 1..(LeaseModulus - 1) /\ LeaseModulus \in Nat
  BY LeaseRange, SchedulerAssumption
<1>5. \A l \in Leaf : l \in ended <=> l \in LeavesIn(freed) /\ phase[l] = "running"
  BY <1>1, EndedRuns, RunsEnded
<1>6. \A i \in Active \ freed : requirements[Owner(i)] \cap requirements[c] = {}
  BY DEF Conflicting
<1> HIDE DEF freed, begun, ended
<1>7. target \in Slots /\ target \notin Active \ freed
  BY <1>1, <1>2, ActiveSlots
<1>8. /\ Active' = (Active \ freed) \cup {target}
      /\ Owner(target)' = c
      /\ \A i \in Active \ freed : Owner(i)' = Owner(i) /\ Owner(i) \in Top /\ Owner(i) # c
  BY <1>1, <1>2, <1>3, <1>4, <1>7, ActiveSlots DEF Active, Owner, NoOwner
<1>9. \A l \in LeavesOf[c] : phase[l] = "idle" /\ l \notin LeavesIn(freed)
  <2>1. ASSUME NEW l \in LeavesOf[c], NEW i \in Active PROVE l \notin LeavesOf[Owner(i)]
    BY <1>3, OneCommand, ActiveSlots
  <2>2. \A l \in LeavesOf[c] : phase[l] = "idle"
    BY <2>1, Leaves DEF FlagsInv, Owned
  <2>3. \A l \in LeavesOf[c] : l \notin LeavesIn(freed)
    BY <1>1, <2>1 DEF LeavesIn
  <2> QED BY <2>2, <2>3
<1>10. \A i \in Active \ freed : \A l \in LeavesOf[Owner(i)] : phase'[l] = phase[l]
  <2>1. ASSUME NEW i \in Active \ freed, NEW l \in LeavesOf[Owner(i)]
        PROVE  l \in Leaf /\ l \notin LeavesIn(freed) /\ l \notin begun
    <3>1. l \in Leaf /\ l \notin LeavesIn(freed)
      BY <1>1, <1>8, LeafInSlots, Leaves
    <3>2. l \notin LeavesOf[c]
      BY <1>8, OneCommand
    <3> QED BY <1>1, <3>1, <3>2
  <2> QED BY <1>2, <2>1
<1>11. SchedulerTypeOK'
  <2>1. slots' \in [Slots -> [command : Top, lease : 1..(LeaseModulus - 1), epoch : Nat] \cup {NoOwner}]
    BY <1>2, <1>4 DEF SchedulerTypeOK
  <2>2. phase' \in [Leaf -> {"idle", "running", "finished"}]
    BY <1>2 DEF SchedulerTypeOK
  <2>3. live' \in [Leaf -> Int]
    BY <1>2 DEF SchedulerTypeOK, Count
  <2>4. current' \in [Top -> Nat] /\ \A d \in Top : current'[d] \in 1..Len(Children[d])
    <3>1. Rewound(freed) \in [Top -> Nat] /\ \A d \in Top : Rewound(freed)[d] \in 1..Len(Children[d])
      BY <1>1, RewoundKeeps
    <3>2. pick \in Nat
      BY <1>1, Leaves
    <3> QED BY <1>1, <1>2, <3>1, <3>2
  <2>5. generation' \in 0..(LeaseModulus - 1)
    BY <1>3, <1>4
  <2> QED BY <1>3, <2>1, <2>2, <2>3, <2>4, <2>5 DEF SchedulerTypeOK
<1>12. Apart'
  BY <1>6, <1>8 DEF Apart, FlagsInv
<1>13. LiveRuns'
  <2>1. ASSUME NEW l \in Leaf PROVE live'[l] = IF phase'[l] = "running" THEN 1 ELSE 0
    <3>1. live[l] = IF phase[l] = "running" THEN 1 ELSE 0
      BY DEF FlagsInv, LiveRuns
    <3>2. CASE l \in begun
      <4>1. phase[l] = "idle" /\ l \notin ended
        BY <1>1, <1>5, <1>9, <3>2
      <4> QED BY <1>2, <3>1, <3>2, <4>1 DEF Count
    <3>3. CASE l \notin begun
      BY <1>2, <1>5, <3>1, <3>3 DEF Count
    <3> QED BY <3>2, <3>3
  <2> QED BY <2>1 DEF LiveRuns
<1>14. Owned'
  <2>1. ASSUME NEW l \in Leaf, phase'[l] # "idle" PROVE \E i \in Active' : l \in LeavesOf[Owner(i)']
    <3>1. CASE l \in begun
      BY <1>1, <1>8, <3>1
    <3>2. CASE l \notin begun
      <4>1. phase[l] # "idle" /\ l \notin LeavesIn(freed)
        BY <1>2, <2>1, <3>2
      <4>2. PICK i \in Active : l \in LeavesOf[Owner(i)]
        BY <4>1 DEF FlagsInv, Owned
      <4>3. i \notin freed
        BY <4>1, <4>2 DEF LeavesIn
      <4> QED BY <1>8, <4>2, <4>3
    <3> QED BY <3>1, <3>2
  <2> QED BY <2>1 DEF Owned
<1>15. OneAtATime'
  <2>1. ASSUME NEW i \in Active \ freed, ~Together(Owner(i)), NEW l \in LeavesOf[Owner(i)]
        PROVE  phase'[l] = "running" <=> l = Children[Owner(i)][current'[Owner(i)]]
    <3>1. current'[Owner(i)] = current[Owner(i)]
      BY <1>1, <1>2, <1>8, RewoundKeeps
    <3>2. phase[l] = "running" <=> l = Children[Owner(i)][current[Owner(i)]]
      BY <2>1 DEF FlagsInv, OneAtATime
    <3> QED BY <1>10, <3>1, <3>2
  <2>2. ASSUME ~Together(c), NEW l \in LeavesOf[c]
        PROVE  phase'[l] = "running" <=> l = Children[c][current'[c]]
    <3>1. current'[c] = pick
      BY <1>1, <1>2, RewoundKeeps
    <3>2. begun = {Children[c][pick]}
      BY <2>2 DEF begun, Started
    <3>3. l \in Leaf /\ phase[l] = "idle" /\ l \notin LeavesIn(freed)
      BY <1>9, Leaves
    <3> QED BY <1>2, <3>1, <3>2, <3>3
  <2>3. ASSUME NEW i \in Active', ~Together(Owner(i)')
        PROVE \A l \in LeavesOf[Owner(i)'] :
                phase'[l] = "running" <=> l = Children[Owner(i)'][current'[Owner(i)']]
    BY <1>8, <2>1, <2>2, <2>3
  <2> QED BY <2>3 DEF OneAtATime, Together
<1>16. NoneTogether'
  <2>1. ASSUME Together(c), ~Disjoint[c], NEW l \in LeavesOf[c] PROVE phase'[l] # "running"
    <3>1. begun = {}
      BY <2>1 DEF begun, Started
    <3>2. l \in Leaf /\ phase[l] = "idle"
      BY <1>9, Leaves
    <3> QED BY <1>2, <3>1, <3>2
  <2>2. ASSUME NEW i \in Active \ freed, Together(Owner(i)), ~Disjoint[Owner(i)], NEW l \in LeavesOf[Owner(i)]
        PROVE  phase'[l] # "running"
    BY <1>10, <2>2 DEF FlagsInv, NoneTogether
  <2>3. ASSUME NEW i \in Active', Together(Owner(i)'), ~Disjoint[Owner(i)'], NEW l \in LeavesOf[Owner(i)']
        PROVE  phase'[l] # "running"
    BY <1>8, <2>1, <2>2, <2>3
  <2> QED BY <2>3 DEF NoneTogether, Together, Disjoint
<1>17. RunsInItsEpoch'
  BY <1>3 DEF RunsInItsEpoch
<1> QED BY <1>11, <1>12, <1>13, <1>14, <1>15, <1>16, <1>17 DEF FlagsInv

-----------------------------------------------------------------------------
\* What one slot contributes to a tick.  A leaf starts only where its sequence
\* goes on, and a single command is left to its slot to end.
Contribution(i, r) ==
    LET c == Owner(i)
    IN /\ r.executed \subseteq LeavesOf[c]
       /\ r.ends \subseteq LeavesOf[c] /\ \A l \in r.ends : phase[l] = "running"
       /\ r.starts \subseteq LeavesOf[c] /\ \A l \in r.starts : phase[l] # "running"
       /\ r.executed # {} => MayRun(i)
       /\ r.starts # {} =>
             /\ ~Together(c) /\ current[c] + 1 \in 1..Len(Children[c])
             /\ r.ends = {Children[c][current[c]]}
             /\ r.starts = {Children[c][current[c] + 1]}
       /\ r.state = "Running" /\ r.starts = {} /\ ~Together(c) => r.ends = {}
       /\ Kind[c] = "single" => r.ends = {} /\ r.starts = {}

LEMMA TogetherContributes ==
  ASSUME SchedulerInv, NEW i \in Active, Together(Owner(i)), MayRun(i),
         NEW outcome \in [Running -> Outcomes]
  PROVE  Contribution(i, ExecuteTogether(Owner(i), outcome))
<1> DEFINE r == ExecuteTogether(Owner(i), outcome)
           left == {l \in LeavesOf[Owner(i)] : phase[l] = "running"}
<1>1. r.executed \subseteq left /\ r.ends \subseteq left /\ r.starts = {}
  BY DEF ExecuteTogether, Result
<1>2. Kind[Owner(i)] # "single"
  BY DEF Together
<1> QED BY <1>1, <1>2 DEF Contribution

LEMMA OneContributes ==
  ASSUME SchedulerInv, NEW i \in Active, ~Together(Owner(i)), MayRun(i),
         NEW outcome \in [Running -> Outcomes],
         \A l \in Running \ Timed : outcome[l] # "TimedOut"
  PROVE  Contribution(i, ExecuteOne(Owner(i), outcome))
<1> DEFINE c    == Owner(i)
           leaf == Children[c][current[c]]
           r    == ExecuteOne(c, outcome)
<1>1. c \in Top /\ current[c] \in 1..Len(Children[c]) /\ Len(Children[c]) \in Nat
  BY ActiveSlots, Leaves DEF SchedulerInv, SchedulerTypeOK
<1>2. leaf \in LeavesOf[c] /\ leaf \in Leaf /\ phase[leaf] = "running"
  <2>1. leaf \in LeavesOf[c] /\ leaf \in Leaf
    BY <1>1, Leaves
  <2> QED BY <2>1 DEF SchedulerInv, FlagsInv, OneAtATime
<1>3. Kind[c] = "single" => outcome[leaf] # "TimedOut"
  <2>1. ASSUME NEW d \in Top, Kind[d] = "timeout", leaf \in LeavesOf[d] PROVE Kind[c] # "single"
    BY <1>1, <1>2, <2>1, OneCommand
  <2>2. leaf \in Running
    BY <1>2 DEF Running
  <2> QED BY <2>1, <2>2 DEF Timed
<1>4. r.executed \subseteq {leaf} /\ r.ends \subseteq {leaf}
  BY DEF ExecuteOne, Result
<1>5. r.starts # {} =>
         /\ current[c] < Len(Children[c])
         /\ r.ends = {leaf} /\ r.starts = {Children[c][current[c] + 1]}
  BY DEF ExecuteOne, Result
<1>6. r.state = "Running" /\ r.starts = {} => r.ends = {}
  BY DEF ExecuteOne, Result
<1>7. Kind[c] = "single" => r.ends = {} /\ r.starts = {}
  BY <1>3 DEF ExecuteOne, Result
<1> HIDE DEF r
<1>8. ASSUME r.starts # {}
      PROVE  /\ current[c] + 1 \in 1..Len(Children[c])
             /\ Children[c][current[c] + 1] \in LeavesOf[c]
             /\ phase[Children[c][current[c] + 1]] # "running"
  <2>1. current[c] + 1 \in 1..Len(Children[c]) /\ current[c] + 1 # current[c]
    BY <1>1, <1>5, <1>8
  <2>2. Children[c][current[c] + 1] \in LeavesOf[c] /\ Children[c][current[c] + 1] # leaf
    BY <1>1, <2>1, Leaves
  <2> QED BY <2>1, <2>2 DEF SchedulerInv, FlagsInv, OneAtATime
<1>9. r.executed \subseteq LeavesOf[c] /\ r.ends \subseteq LeavesOf[c] /\ \A l \in r.ends : phase[l] = "running"
  BY <1>2, <1>4
<1>10. r.starts \subseteq LeavesOf[c] /\ \A l \in r.starts : phase[l] # "running"
  BY <1>5, <1>8
<1>11. Contribution(i, r)
  BY <1>5, <1>6, <1>7, <1>8, <1>9, <1>10 DEF Contribution
<1> QED BY <1>11 DEF r

LEMMA TickContributes ==
  ASSUME SchedulerInv, NEW i \in Active, NEW outcome \in [Running -> Outcomes],
         \A l \in Running \ Timed : outcome[l] # "TimedOut"
  PROVE  Contribution(i, Ticked(i, outcome))
<1>1. CASE (epoch # 0 => epoch = mode.epoch) /\ MayRun(i)
  <2>1. CASE Together(Owner(i))
    BY <1>1, <2>1, TogetherContributes DEF Ticked, Execute
  <2>2. CASE ~Together(Owner(i))
    BY <1>1, <2>2, OneContributes DEF Ticked, Execute
  <2> QED BY <2>1, <2>2
<1>2. CASE ~((epoch # 0 => epoch = mode.epoch) /\ MayRun(i))
  <2>1. Ticked(i, outcome) = Result("Ended", {}, {}, {})
    BY <1>2 DEF Ticked
  <2> QED BY <2>1 DEF Contribution, Result
<1> QED BY <1>1, <1>2

\* What tick() changes, from the results of the slots.
Effects(r, e, b, o, w) ==
   /\ slots' = [i \in Slots |-> IF i \in o THEN NoOwner ELSE slots[i]]
   /\ phase' = [l \in Leaf |-> IF l \in LeavesIn(o) THEN "idle" ELSE After(e, b)[l]]
   /\ live' = [l \in Leaf |-> live[l] + Count(b)[l] - Count(e)[l] - Count(w)[l]]
   /\ current' = [c \in Top |-> IF b \cap LeavesOf[c] = {} THEN Rewound(o)[c]
                                ELSE current[c] + 1]
   /\ ran' = UNION {r[i].executed : i \in Active}
   /\ epoch' = mode.epoch
   /\ UNCHANGED <<mode, generation>>

LEMMA TickEffects ==
  ASSUME NEW outcome, Tick(outcome)
  PROVE  LET answers == [i \in Active |-> Ticked(i, outcome)]
             ended  == UNION {answers[i].ends : i \in Active}
             begun  == UNION {answers[i].starts : i \in Active}
             over   == {i \in Active : answers[i].state # "Running"}
             swept  == UNION {Ended(Owner(i), After(ended, begun)) : i \in over}
         IN  Effects(answers, ended, begun, over, swept)
<1> DEFINE answers == [i \in Active |-> Ticked(i, outcome)]
           ended  == UNION {answers[i].ends : i \in Active}
           begun  == UNION {answers[i].starts : i \in Active}
           over   == {i \in Active : answers[i].state # "Running"}
           swept  == UNION {Ended(Owner(i), After(ended, begun)) : i \in over}
<1>1. \E r \in {answers} :
      \E e \in {UNION {r[i].ends : i \in Active}},
         b \in {UNION {r[i].starts : i \in Active}},
         o \in {{i \in Active : r[i].state # "Running"}} :
      \E w \in {UNION {Ended(Owner(i), After(e, b)) : i \in o}} : Effects(r, e, b, o, w)
  BY DEF Tick, Effects
<1>2. PICK r \in {answers} :
      \E e \in {UNION {r[i].ends : i \in Active}},
         b \in {UNION {r[i].starts : i \in Active}},
         o \in {{i \in Active : r[i].state # "Running"}} :
      \E w \in {UNION {Ended(Owner(i), After(e, b)) : i \in o}} : Effects(r, e, b, o, w)
  BY <1>1
<1>3. r = answers
  OBVIOUS
<1>4. PICK e \in {UNION {r[i].ends : i \in Active}},
           b \in {UNION {r[i].starts : i \in Active}},
           o \in {{i \in Active : r[i].state # "Running"}} :
      \E w \in {UNION {Ended(Owner(i), After(e, b)) : i \in o}} : Effects(r, e, b, o, w)
  BY <1>2
<1>5. e = ended /\ b = begun /\ o = over
  BY <1>3
<1>6. PICK w \in {UNION {Ended(Owner(i), After(e, b)) : i \in o}} : Effects(r, e, b, o, w)
  BY <1>4
<1>7. w = swept
  BY <1>5
<1> QED BY <1>3, <1>5, <1>6, <1>7

LEMMA TickStep ==
  ASSUME SchedulerInv, NEW outcome \in [Running -> Outcomes],
         \A l \in Running \ Timed : outcome[l] # "TimedOut", Tick(outcome)
  PROVE  SchedulerInv'
<1> USE DEF SchedulerInv
<1> DEFINE answers == [i \in Active |-> Ticked(i, outcome)]
           ended  == UNION {answers[i].ends : i \in Active}
           begun  == UNION {answers[i].starts : i \in Active}
           over   == {i \in Active : answers[i].state # "Running"}
           after  == After(ended, begun)
           swept  == UNION {Ended(Owner(i), after) : i \in over}
<1>1. Effects(answers, ended, begun, over, swept)
  BY TickEffects, Zenon
<1>2. /\ slots' = [i \in Slots |-> IF i \in over THEN NoOwner ELSE slots[i]]
      /\ phase' = [l \in Leaf |-> IF l \in LeavesIn(over) THEN "idle" ELSE after[l]]
      /\ live' = [l \in Leaf |-> live[l] + Count(begun)[l] - Count(ended)[l] - Count(swept)[l]]
      /\ current' = [c \in Top |-> IF begun \cap LeavesOf[c] = {} THEN Rewound(over)[c]
                                   ELSE current[c] + 1]
      /\ ran' = UNION {answers[i].executed : i \in Active}
      /\ epoch' = mode.epoch /\ mode' = mode /\ generation' = generation
  BY <1>1 DEF Effects
<1>3. \A i \in Active : Contribution(i, answers[i])
  BY TickContributes
<1>4. over \in SUBSET Active /\ \A i \in Active \ over : answers[i].state = "Running"
  OBVIOUS
<1>5. after = [l \in Leaf |-> IF l \in ended THEN "finished"
                              ELSE IF l \in begun THEN "running" ELSE phase[l]]
  BY DEF After
<1>6. \A l : l \in ended <=> \E i \in Active : l \in answers[i].ends
  OBVIOUS
<1>7. \A l : l \in begun <=> \E i \in Active : l \in answers[i].starts
  OBVIOUS
<1>8. \A l : l \in swept <=> \E i \in over : l \in Ended(Owner(i), after)
  OBVIOUS
<1>9. \A l \in ran' : \E i \in Active : l \in answers[i].executed
  BY <1>2
<1> HIDE DEF answers, ended, begun, over, after, swept
<1>10. \A i \in Active : Owner(i) \in Top /\ LeavesOf[Owner(i)] \subseteq Leaf
  BY ActiveSlots, Leaves
\* A leaf's changes come from the slot of its command and from no other.
<1>11. ASSUME NEW i \in Active, NEW l \in LeavesOf[Owner(i)], NEW j \in Active, l \in LeavesOf[Owner(j)]
       PROVE  i = j
  BY <1>10, <1>11, OneCommand DEF FlagsInv, Apart
<1>12. ASSUME NEW i \in Active, NEW l \in LeavesOf[Owner(i)]
       PROVE  /\ l \in ended <=> l \in answers[i].ends
              /\ l \in begun <=> l \in answers[i].starts
  BY <1>3, <1>6, <1>7, <1>11 DEF Contribution
<1>13. \A l \in ended : phase[l] = "running" /\ l \in Leaf
  BY <1>3, <1>6, <1>10 DEF Contribution
<1>14. \A l \in begun : phase[l] # "running" /\ l \in Leaf
  BY <1>3, <1>7, <1>10 DEF Contribution
<1>15. \A l \in Leaf : l \in swept <=> l \in LeavesIn(over) /\ after[l] = "running"
  <2>1. ASSUME NEW l \in Leaf, NEW i \in over, l \in Ended(Owner(i), after)
        PROVE  l \in LeavesOf[Owner(i)] /\ after[l] = "running"
    <3>1. l \in LeavesOf[Owner(i)] /\ i \in Active
      BY <1>4, <2>1 DEF Ended
    <3>2. CASE Kind[Owner(i)] # "single"
      BY <2>1, <3>1, <3>2 DEF Ended
    <3>3. CASE Kind[Owner(i)] = "single"
      <4>1. l \notin ended /\ l \notin begun
        BY <1>3, <1>12, <3>1, <3>3 DEF Contribution
      <4>2. l \in Ended(Owner(i), phase)
        BY <3>1, <3>3 DEF Ended
      <4>3. phase[l] = "running"
        BY <1>4, <4>2, EndedRuns
      <4> QED BY <1>5, <3>1, <4>1, <4>3
    <3> QED BY <3>1, <3>2, <3>3
  <2>2. ASSUME NEW l \in Leaf, NEW i \in over, l \in LeavesOf[Owner(i)], after[l] = "running"
        PROVE  l \in Ended(Owner(i), after)
    BY <2>2 DEF Ended
  <2> QED BY <1>8, <2>1, <2>2 DEF LeavesIn
<1>16. Active' = Active \ over /\ \A i \in Active' : Owner(i)' = Owner(i) /\ slots'[i] = slots[i]
  BY <1>2, <1>4, ActiveSlots DEF Active, Owner, NoOwner
<1>17. LiveRuns'
  <2>1. ASSUME NEW l \in Leaf PROVE live'[l] = IF phase'[l] = "running" THEN 1 ELSE 0
    <3>1. live[l] = IF phase[l] = "running" THEN 1 ELSE 0
      BY DEF FlagsInv, LiveRuns
    <3>2. live'[l] = live[l] + (IF l \in begun THEN 1 ELSE 0) - (IF l \in ended THEN 1 ELSE 0)
                             - (IF l \in swept THEN 1 ELSE 0)
      BY <1>2 DEF Count
    <3>3. phase'[l] = IF l \in LeavesIn(over) THEN "idle" ELSE after[l]
      BY <1>2
    <3>4. after[l] = IF l \in ended THEN "finished" ELSE IF l \in begun THEN "running" ELSE phase[l]
      BY <1>5
    <3> QED BY <1>13, <1>14, <1>15, <3>1, <3>2, <3>3, <3>4
  <2> QED BY <2>1 DEF LiveRuns
<1>18. SchedulerTypeOK'
  <2>1. slots' \in [Slots -> [command : Top, lease : 1..(LeaseModulus - 1), epoch : Nat] \cup {NoOwner}]
    BY <1>2 DEF SchedulerTypeOK
  <2>2. phase' \in [Leaf -> {"idle", "running", "finished"}]
    BY <1>2, <1>5 DEF SchedulerTypeOK
  <2>3. live' \in [Leaf -> Int]
    BY <1>2 DEF SchedulerTypeOK, Count
  <2>4. current' \in [Top -> Nat] /\ \A c \in Top : current'[c] \in 1..Len(Children[c])
    <3>1. ASSUME NEW c \in Top, begun \cap LeavesOf[c] # {} PROVE current[c] + 1 \in 1..Len(Children[c])
      <4>1. PICK l \in LeavesOf[c] : l \in begun
        BY <3>1
      <4>2. PICK i \in Active : l \in answers[i].starts
        BY <1>7, <4>1
      <4>3. Owner(i) = c
        BY <1>3, <1>10, <4>2, OneCommand DEF Contribution
      <4> QED BY <1>3, <4>2, <4>3 DEF Contribution
    <3>2. Rewound(over) \in [Top -> Nat] /\ \A c \in Top : Rewound(over)[c] \in 1..Len(Children[c])
      BY <1>4, RewoundKeeps
    <3>3. current \in [Top -> Nat]
      BY DEF SchedulerTypeOK
    <3> QED BY <1>2, <3>1, <3>2, <3>3
  <2>5. ran' \subseteq Leaf
    BY <1>3, <1>9, <1>10 DEF Contribution
  <2>6. epoch' \in Nat
    BY <1>2 DEF SchedulerTypeOK
  <2> QED BY <1>2, <2>1, <2>2, <2>3, <2>4, <2>5, <2>6 DEF SchedulerTypeOK
<1>19. Apart'
  BY <1>16 DEF Apart, FlagsInv
<1>20. Owned'
  <2>1. ASSUME NEW l \in Leaf, phase'[l] # "idle" PROVE \E i \in Active' : l \in LeavesOf[Owner(i)']
    <3>1. l \notin LeavesIn(over) /\ after[l] # "idle"
      BY <1>2, <2>1
    <3>2. PICK i \in Active : l \in LeavesOf[Owner(i)]
      <4>1. CASE l \in ended \/ l \in begun
        BY <1>3, <1>6, <1>7, <4>1 DEF Contribution
      <4>2. CASE ~(l \in ended \/ l \in begun)
        BY <1>5, <3>1, <4>2 DEF FlagsInv, Owned
      <4> QED BY <4>1, <4>2
    <3>3. i \notin over
      BY <3>1, <3>2 DEF LeavesIn
    <3> QED BY <1>16, <3>2, <3>3
  <2> QED BY <2>1 DEF Owned
\* In a slot that is kept, only what the slot contributed has changed.
<1>21. ASSUME NEW i \in Active \ over, NEW l \in LeavesOf[Owner(i)]
       PROVE  phase'[l] = IF l \in answers[i].ends THEN "finished"
                          ELSE IF l \in answers[i].starts THEN "running" ELSE phase[l]
  <2>1. l \in Leaf /\ l \notin LeavesIn(over)
    BY <1>4, <1>10, LeafInSlots
  <2> QED BY <1>2, <1>5, <1>12, <2>1
<1>22. ASSUME NEW i \in Active \ over
       PROVE  current'[Owner(i)] = IF answers[i].starts = {} THEN current[Owner(i)]
                                   ELSE current[Owner(i)] + 1
  <2>1. begun \cap LeavesOf[Owner(i)] = {} <=> answers[i].starts = {}
    BY <1>3, <1>12 DEF Contribution
  <2>2. Rewound(over)[Owner(i)] = current[Owner(i)]
    BY <1>4, RewoundKeeps
  <2> QED BY <1>2, <1>10, <2>1, <2>2
<1>23. OneAtATime'
  <2>1. ASSUME NEW i \in Active \ over, ~Together(Owner(i)), NEW l \in LeavesOf[Owner(i)]
        PROVE  phase'[l] = "running" <=> l = Children[Owner(i)][current'[Owner(i)]]
    <3>1. phase[l] = "running" <=> l = Children[Owner(i)][current[Owner(i)]]
      BY <2>1 DEF FlagsInv, OneAtATime
    <3>2. CASE answers[i].starts = {}
      <4>1. answers[i].ends = {}
        BY <1>3, <1>4, <2>1, <3>2 DEF Contribution
      <4> QED BY <1>21, <1>22, <3>1, <3>2, <4>1
    <3>3. CASE answers[i].starts # {}
      <4>1. /\ current[Owner(i)] + 1 \in 1..Len(Children[Owner(i)])
            /\ answers[i].ends = {Children[Owner(i)][current[Owner(i)]]}
            /\ answers[i].starts = {Children[Owner(i)][current[Owner(i)] + 1]}
        BY <1>3, <3>3 DEF Contribution
      <4>2. current[Owner(i)] \in 1..Len(Children[Owner(i)]) /\ Len(Children[Owner(i)]) \in Nat
        BY <1>10, Leaves DEF SchedulerTypeOK
      <4>3. current[Owner(i)] # current[Owner(i)] + 1
        BY <4>2
      <4>4. Children[Owner(i)][current[Owner(i)]] # Children[Owner(i)][current[Owner(i)] + 1]
        BY <1>10, <4>1, <4>2, <4>3, Leaves
      <4> QED BY <1>21, <1>22, <3>1, <3>3, <4>1, <4>4
    <3> QED BY <3>2, <3>3
  <2> QED BY <1>16, <2>1 DEF OneAtATime, Together
<1>24. NoneTogether'
  <2>1. ASSUME NEW i \in Active \ over, Together(Owner(i)), ~Disjoint[Owner(i)], NEW l \in LeavesOf[Owner(i)]
        PROVE  phase'[l] # "running"
    <3>1. answers[i].starts = {}
      BY <1>3, <2>1 DEF Contribution
    <3> QED BY <1>21, <2>1, <3>1 DEF FlagsInv, NoneTogether
  <2> QED BY <1>16, <2>1 DEF NoneTogether, Together, Disjoint
<1>25. RunsInItsEpoch'
  <2>1. ASSUME NEW l \in ran'
        PROVE  /\ mode.enabled /\ mode.mode \in AllowedIn[l]
               /\ \A j \in Active' : l \in LeavesOf[Owner(j)] => slots[j].epoch = mode.epoch
    <3>1. PICK i \in Active : l \in answers[i].executed
      BY <1>9
    <3>2. l \in LeavesOf[Owner(i)] /\ MayRun(i)
      BY <1>3, <3>1 DEF Contribution
    <3>3. \A j \in Active : l \in LeavesOf[Owner(j)] => j = i
      BY <1>11, <3>2
    <3> QED BY <1>16, <3>2, <3>3 DEF MayRun, allowedInMode
  <2>2. mode' = mode
    BY <1>2
  <2> QED BY <1>16, <2>1, <2>2 DEF RunsInItsEpoch
<1> QED BY <1>17, <1>18, <1>19, <1>20, <1>23, <1>24, <1>25 DEF FlagsInv

-----------------------------------------------------------------------------
LEMMA InitInv ==
  ASSUME SchedulerInit
  PROVE  SchedulerInv
<1>1. Active = {}
  BY DEF SchedulerInit, Active, NoOwner
<1>2. SchedulerTypeOK
  <2>1. \A c \in Top : 1 \in 1..Len(Children[c])
    BY Leaves
  <2> QED BY <2>1, SchedulerAssumption DEF SchedulerInit, SchedulerTypeOK, Modes
<1>3. LiveRuns /\ Owned
  BY DEF SchedulerInit, LiveRuns, Owned
<1>4. Apart /\ OneAtATime /\ NoneTogether
  BY <1>1 DEF Apart, OneAtATime, NoneTogether
<1>5. RunsInItsEpoch
  BY DEF SchedulerInit, RunsInItsEpoch
<1> QED BY <1>2, <1>3, <1>4, <1>5 DEF SchedulerInv, FlagsInv

LEMMA FlagsStay ==
  ASSUME FlagsInv, UNCHANGED <<slots, current, phase, live>>
  PROVE  FlagsInv'
<1>1. Active' = Active /\ \A i \in Active : Owner(i)' = Owner(i)
  BY DEF Active, Owner
<1>2. Apart'
  BY <1>1 DEF FlagsInv, Apart
<1>3. LiveRuns' /\ Owned'
  BY <1>1 DEF FlagsInv, LiveRuns, Owned
<1>4. OneAtATime' /\ NoneTogether'
  BY <1>1 DEF FlagsInv, OneAtATime, NoneTogether, Together, Disjoint
<1> QED BY <1>2, <1>3, <1>4 DEF FlagsInv

\* The environment moves the mode, and the flags stay as they are.
LEMMA ModeStep ==
  ASSUME SchedulerInv, (\E m \in Modes : NewEpoch(m)) \/ Enable
  PROVE  SchedulerInv'
<1>1. mode' \in [mode : Modes, enabled : BOOLEAN, epoch : Nat] /\ ran' = {}
  <2>1. mode \in [mode : Modes, enabled : BOOLEAN, epoch : Nat]
    BY DEF SchedulerInv, SchedulerTypeOK
  <2>2. CASE Enable
    BY <2>1, <2>2 DEF Enable
  <2>3. CASE \E m \in Modes : NewEpoch(m)
    BY <2>1, <2>3 DEF NewEpoch
  <2> QED BY <2>2, <2>3
<1>2. UNCHANGED <<slots, generation, epoch, current, phase, live>>
  BY DEF NewEpoch, Enable, groupVars
<1>3. SchedulerTypeOK'
  BY <1>1, <1>2 DEF SchedulerInv, SchedulerTypeOK
<1>4. FlagsInv'
  BY <1>2, FlagsStay DEF SchedulerInv
<1>5. RunsInItsEpoch'
  BY <1>1 DEF RunsInItsEpoch
<1> QED BY <1>3, <1>4, <1>5 DEF SchedulerInv

LEMMA NextInv ==
  ASSUME SchedulerInv, [SchedulerNext]_schedulerVars
  PROVE  SchedulerInv'
<1>1. CASE \E c \in Top, interrupt \in BOOLEAN : \E pick \in Picks(c) : Schedule(c, interrupt, pick)
  BY <1>1, ScheduleStep
<1>2. CASE \E outcome \in [Running -> Outcomes] :
             (\A l \in Running \ Timed : outcome[l] # "TimedOut") /\ Tick(outcome)
  BY <1>2, TickStep
<1>3. CASE \E c \in Top : Cancel(c)
  BY <1>3, ReleaseStep DEF Cancel
<1>4. CASE CancelAll
  BY <1>4, ReleaseStep DEF CancelAll
<1>5. CASE (\E m \in Modes : NewEpoch(m)) \/ Enable
  BY <1>5, ModeStep
<1>6. CASE UNCHANGED schedulerVars
  <2>1. UNCHANGED <<mode, slots, generation, epoch, current, phase, live, ran>>
    BY <1>6 DEF schedulerVars, groupVars
  <2>2. SchedulerTypeOK'
    BY <2>1 DEF SchedulerInv, SchedulerTypeOK
  <2>3. FlagsInv'
    BY <2>1, FlagsStay DEF SchedulerInv
  <2>4. RunsInItsEpoch'
    BY <2>1 DEF SchedulerInv, RunsInItsEpoch, Active, Owner
  <2> QED BY <2>2, <2>3, <2>4 DEF SchedulerInv
<1> QED BY <1>1, <1>2, <1>3, <1>4, <1>5, <1>6 DEF SchedulerNext

LEMMA AlwaysInv == SchedulerSpec => []SchedulerInv
  BY InitInv, NextInv, PTL DEF SchedulerSpec

\* Every variable of the scheduler keeps its type, for any commands.
THEOREM SchedulerTypeCorrect == SchedulerSpec => []SchedulerTypeOK
<1>1. SchedulerInv => SchedulerTypeOK
  BY DEF SchedulerInv
<1> QED BY <1>1, AlwaysInv, PTL

\* StaticScheduler answers each initialize() with one end(), for any commands,
\* groups, requirements and slots.
THEOREM CommandsEndOnce == SchedulerSpec => []EndedOnce
<1>1. SchedulerInv => EndedOnce
  BY FlagsSuffice DEF SchedulerInv
<1> QED BY <1>1, AlwaysInv, PTL

\* No two leaves that run ever require the same subsystem.
THEOREM SubsystemsAreExclusive == SchedulerSpec => []NoSharedSubsystem
<1>1. SchedulerInv => NoSharedSubsystem
  BY FlagsSuffice DEF SchedulerInv
<1> QED BY <1>1, AlwaysInv, PTL

\* tick() executes a command only in an enabled mode that allows it, in the epoch
\* of its lease.
THEOREM CommandsRunInTheirEpoch == SchedulerSpec => []RunsInItsEpoch
<1>1. SchedulerInv => RunsInItsEpoch
  BY DEF SchedulerInv
<1> QED BY <1>1, AlwaysInv, PTL

-----------------------------------------------------------------------------
(* RouteSelection, for any routes, sides and commands.                     *)

\* A lock of this epoch is of what is confirmed, which then cannot change.
LockHolds ==
    /\ lockedSnapshot.epoch <= mode.epoch
    /\ lockedSnapshot.valid /\ ~lockedSnapshot.fallback /\ lockedSnapshot.epoch = mode.epoch =>
          /\ locked /\ mode.mode # "Disabled" /\ confirmed
          /\ choice = lockedSnapshot.choice /\ Permitted(choice)

Confirmed(command) ==
    \/ command = CommandOf[DoNothingRoute]
    \/ confirmed /\ Permitted(choice) /\ command = CommandOf[choice.route]

\* No slot is of an epoch to come, and those of this epoch show that it is enabled.
SlotsConfirmed ==
    \A i \in Active :
        /\ slots[i].epoch <= mode.epoch
        /\ slots[i].epoch = mode.epoch => mode.enabled /\ Confirmed(Owner(i))

SelectionInv == SchedulerInv /\ SelectionTypeOK /\ LockHolds /\ SlotsConfirmed

-----------------------------------------------------------------------------
\* What schedule() leaves in the slots: what was there, and the new command.
LEMMA ScheduledSlots ==
  ASSUME SchedulerTypeOK, NEW c, NEW interrupt, NEW pick, Schedule(c, interrupt, pick),
         NEW i \in Active'
  PROVE  \/ i \in Active /\ slots'[i] = slots[i]
         \/ Owner(i)' = c /\ slots'[i].epoch = mode.epoch
<1>1. PICK target \in (IF Active = Slots THEN Conflicting(c) ELSE Slots \ Active) :
        slots' = [j \in Slots |->
            IF j = target THEN [command |-> c, lease |-> NextLease, epoch |-> mode.epoch]
            ELSE IF j \in Conflicting(c) THEN NoOwner ELSE slots[j]]
  BY DEF Schedule
<1> QED BY <1>1 DEF Active, Owner, NoOwner

\* tick(), cancel() and cancelAll() only empty slots.
LEMMA EmptiedSlots ==
  ASSUME SchedulerTypeOK, NEW over, slots' = [i \in Slots |-> IF i \in over THEN NoOwner ELSE slots[i]],
         NEW i \in Active'
  PROVE  i \in Active /\ slots'[i] = slots[i]
  BY DEF Active, NoOwner

\* A command is scheduled only while the mode is enabled: StartRoute.
LEMMA StartRouteStep ==
  ASSUME SelectionInv, NEW ready \in BOOLEAN, NEW interrupt \in BOOLEAN, StartRoute(ready, interrupt)
  PROVE  SelectionInv'
<1> DEFINE c == CommandOf[Resolved(ready)]
<1>1. Schedule(c, interrupt, 1) /\ UNCHANGED <<draft, drafting, choice, confirmed, locked, lockedSnapshot>>
  BY DEF StartRoute, selectionOnly
<1>2. mode.enabled /\ mode' = mode
  BY <1>1 DEF Schedule, Accepts
<1>3. Resolved(ready) \in Route /\ Confirmed(c)
  <2>1. CASE Resolves(ready)
    <3>1. /\ Resolved(ready) = lockedSnapshot.choice.route
          /\ lockedSnapshot.valid /\ ~lockedSnapshot.fallback /\ lockedSnapshot.epoch = mode.epoch
      BY <2>1 DEF Resolves, Resolved
    <3>2. confirmed /\ Permitted(choice) /\ choice = lockedSnapshot.choice /\ choice \in Choice
      BY <3>1 DEF SelectionInv, LockHolds, SelectionTypeOK
    <3> QED BY <3>1, <3>2 DEF Confirmed, Choice
  <2>2. CASE ~Resolves(ready)
    BY <2>2, SelectionAssumption DEF Resolved, Confirmed
  <2> QED BY <2>1, <2>2
<1>4. c \in Top
  BY <1>3, SelectionAssumption
<1>5. SchedulerInv'
  <2>1. 1 \in Picks(c)
    BY DEF Picks
  <2> QED BY <1>1, <1>4, <2>1, ScheduleStep DEF SelectionInv
<1> HIDE DEF c
<1>6. SlotsConfirmed'
  <2>1. ASSUME NEW i \in Active'
        PROVE  /\ slots'[i].epoch <= mode.epoch
               /\ slots'[i].epoch = mode.epoch => Confirmed(Owner(i)')
    <3>1. CASE i \in Active /\ slots'[i] = slots[i]
      BY <3>1 DEF SelectionInv, SlotsConfirmed, Owner
    <3>2. CASE Owner(i)' = c /\ slots'[i].epoch = mode.epoch
      BY <1>3, <3>2 DEF SelectionInv, SchedulerInv, SchedulerTypeOK
    <3> QED BY <1>1, <2>1, <3>1, <3>2, ScheduledSlots DEF SelectionInv, SchedulerInv
  <2> QED BY <1>1, <1>2, <2>1 DEF SlotsConfirmed, Confirmed, Permitted
<1>7. SelectionTypeOK' /\ LockHolds'
  BY <1>1, <1>2 DEF SelectionInv, SelectionTypeOK, LockHolds, Permitted
<1> QED BY <1>5, <1>6, <1>7 DEF SelectionInv

\* The command goes on or ends, and the mode changes.
LEMMA RunRouteStep ==
  ASSUME SelectionInv, RunRoute
  PROVE  SelectionInv'
<1>1. UNCHANGED <<draft, drafting, choice, confirmed, locked, lockedSnapshot>>
  BY DEF RunRoute, selectionOnly
<1>2. SelectionTypeOK'
  BY <1>1 DEF SelectionInv, SelectionTypeOK
<1>3. CASE CancelAll \/ \E outcome \in [Running -> {"Running", "Finished"}] : Tick(outcome)
  <2>1. SchedulerInv'
    <3>1. CASE CancelAll
      BY <3>1, NextInv DEF SchedulerNext, SelectionInv
    <3>2. CASE \E outcome \in [Running -> {"Running", "Finished"}] : Tick(outcome)
      <4>1. PICK outcome \in [Running -> {"Running", "Finished"}] : Tick(outcome)
        BY <3>2
      <4>2. outcome \in [Running -> Outcomes] /\ \A l \in Running \ Timed : outcome[l] # "TimedOut"
        BY DEF Outcomes
      <4> QED BY <4>1, <4>2, TickStep DEF SelectionInv
    <3> QED BY <1>3, <3>1, <3>2
  <2>2. mode' = mode /\ \E over : slots' = [i \in Slots |-> IF i \in over THEN NoOwner ELSE slots[i]]
    <3>1. CASE CancelAll
      BY <3>1 DEF CancelAll, Release
    <3>2. CASE \E outcome \in [Running -> {"Running", "Finished"}] : Tick(outcome)
      BY <3>2 DEF Tick
    <3> QED BY <1>3, <3>1, <3>2
  <2>3. \A i \in Active' : i \in Active /\ slots'[i] = slots[i]
    BY <2>2, EmptiedSlots DEF SelectionInv, SchedulerInv
  <2>4. SlotsConfirmed'
    BY <1>1, <2>2, <2>3 DEF SelectionInv, SlotsConfirmed, Confirmed, Permitted, Owner
  <2>5. LockHolds'
    BY <1>1, <2>2 DEF SelectionInv, LockHolds, Permitted
  <2> QED BY <1>2, <2>1, <2>4, <2>5 DEF SelectionInv
<1>4. CASE Enable \/ \E m \in {"Disabled", "AutonomousInterface"} : NewEpoch(m)
  <2>1. SchedulerInv'
    BY <1>4, ModeStep DEF SelectionInv, Modes
  <2>2. slots' = slots /\ Active' = Active
    BY <1>4 DEF Enable, NewEpoch, Active
  <2>3. mode \in [mode : Modes, enabled : BOOLEAN, epoch : Nat] /\ lockedSnapshot.epoch \in Nat
    BY DEF SelectionInv, SchedulerInv, SchedulerTypeOK, SelectionTypeOK, Snapshot
  <2>4. \A i \in Active : slots[i].epoch \in Nat
    BY ActiveSlots DEF SelectionInv, SchedulerInv
  <2>5. CASE Enable
    <3>1. mode'.epoch = mode.epoch /\ mode'.mode = mode.mode /\ mode'.enabled /\ ~mode.enabled
      BY <2>3, <2>5 DEF Enable
    <3>2. SlotsConfirmed'
      BY <2>2, <3>1 DEF SelectionInv, SlotsConfirmed
    <3>3. LockHolds'
      BY <1>1, <3>1 DEF SelectionInv, LockHolds, Permitted
    <3> QED BY <1>2, <2>1, <3>2, <3>3 DEF SelectionInv
  <2>6. CASE \E m \in {"Disabled", "AutonomousInterface"} : NewEpoch(m)
    <3>1. mode'.epoch = mode.epoch + 1 /\ mode.epoch \in Nat
      BY <2>3, <2>6 DEF NewEpoch
    <3>2. lockedSnapshot.epoch <= mode.epoch /\ \A i \in Active : slots[i].epoch <= mode.epoch
      BY DEF SelectionInv, LockHolds, SlotsConfirmed
    <3>3. \A i \in Active : slots[i].epoch <= mode'.epoch /\ slots[i].epoch # mode'.epoch
      BY <2>4, <3>1, <3>2
    <3>4. lockedSnapshot.epoch <= mode'.epoch /\ lockedSnapshot.epoch # mode'.epoch
      BY <2>3, <3>1, <3>2
    <3>5. SlotsConfirmed'
      BY <2>2, <3>3 DEF SlotsConfirmed
    <3>6. LockHolds'
      BY <1>1, <3>4 DEF LockHolds
    <3> QED BY <1>2, <2>1, <3>5, <3>6 DEF SelectionInv
  <2> QED BY <1>4, <2>5, <2>6
<1> QED BY <1>3, <1>4 DEF RunRoute

\* The operator and the mode: no slot changes.  Confirming needs a mode that is not
\* enabled, in which no slot is of its epoch, and no lock.
LEMMA OperatorStep ==
  ASSUME SelectionInv, (\E c \in Choice : Stage(c)) \/ Confirm \/ CancelDraft \/ OnDisabled \/ LockForEnable
  PROVE  SelectionInv'
<1>1. UNCHANGED <<mode, slots, generation, epoch, current, phase, live, ran>>
  BY DEF Stage, Confirm, CancelDraft, OnDisabled, LockForEnable, schedulerVars, groupVars
<1>2. SchedulerInv'
  <2>1. UNCHANGED schedulerVars
    BY <1>1 DEF schedulerVars, groupVars
  <2> QED BY <2>1, NextInv DEF SelectionInv
<1>3. Active' = Active /\ \A i \in Active : Owner(i)' = Owner(i)
  BY <1>1 DEF Active, Owner
<1>4. SelectionTypeOK
  BY DEF SelectionInv
<1>5. NoChoice \in Choice
  BY SelectionAssumption DEF NoChoice, Choice
<1>6. mode.epoch \in Nat
  BY DEF SelectionInv, SchedulerInv, SchedulerTypeOK
<1>7. CASE Confirm
  <2>1. SelectionTypeOK'
    BY <1>4, <1>7 DEF Confirm, SelectionTypeOK
  <2>2. LockHolds'
    BY <1>1, <1>7 DEF Confirm, Open, SelectionInv, LockHolds
  <2>3. SlotsConfirmed'
    BY <1>1, <1>3, <1>7 DEF Confirm, Open, SelectionInv, SlotsConfirmed
  <2> QED BY <1>2, <2>1, <2>2, <2>3 DEF SelectionInv
<1>8. CASE LockForEnable
  <2>1. lockedSnapshot' \in Snapshot
    BY <1>4, <1>5, <1>6, <1>8 DEF LockForEnable, SelectionTypeOK, Snapshot
  <2>2. SelectionTypeOK'
    BY <1>4, <1>8, <2>1 DEF LockForEnable, SelectionTypeOK
  <2>3. LockHolds'
    BY <1>1, <1>6, <1>8 DEF LockForEnable, LockHolds, Permitted
  <2>4. SlotsConfirmed'
    BY <1>1, <1>3, <1>8 DEF LockForEnable, SelectionInv, SlotsConfirmed, Confirmed, Permitted
  <2> QED BY <1>2, <2>2, <2>3, <2>4 DEF SelectionInv
<1>9. CASE (\E c \in Choice : Stage(c)) \/ CancelDraft \/ OnDisabled
  <2>1. UNCHANGED <<choice, confirmed, lockedSnapshot>> /\ (locked' = locked \/ mode.mode = "Disabled")
    BY <1>9 DEF Stage, CancelDraft, OnDisabled
  <2>2. SelectionTypeOK'
    BY <1>4, <1>9 DEF Stage, CancelDraft, OnDisabled, SelectionTypeOK
  <2>3. LockHolds'
    BY <1>1, <2>1 DEF SelectionInv, LockHolds, Permitted
  <2>4. SlotsConfirmed'
    BY <1>1, <1>3, <2>1 DEF SelectionInv, SlotsConfirmed, Confirmed, Permitted
  <2> QED BY <1>2, <2>2, <2>3, <2>4 DEF SelectionInv
<1> QED BY <1>7, <1>8, <1>9

LEMMA SelectionInitInv == ASSUME SelectionInit PROVE SelectionInv
<1>1. SchedulerInv
  BY InitInv DEF SelectionInit
<1>2. SelectionTypeOK
  BY SelectionAssumption DEF SelectionInit, SelectionTypeOK, NoChoice, Choice, Snapshot
<1>3. LockHolds
  BY DEF SelectionInit, LockHolds, SchedulerInit
<1>4. SlotsConfirmed
  BY DEF SelectionInit, SlotsConfirmed, SchedulerInit, Active, NoOwner
<1> QED BY <1>1, <1>2, <1>3, <1>4 DEF SelectionInv

LEMMA SelectionInvStep == ASSUME SelectionInv, [SelectionNext]_selectionVars PROVE SelectionInv'
<1>1. CASE UNCHANGED selectionVars
  <2>1. UNCHANGED schedulerVars
    BY <1>1 DEF selectionVars
  <2>2. SchedulerInv'
    BY <2>1, NextInv DEF SelectionInv
  <2>3. UNCHANGED <<mode, slots, draft, drafting, choice, confirmed, locked, lockedSnapshot>>
    BY <1>1 DEF selectionVars, selectionOnly, schedulerVars
  <2>4. SelectionTypeOK' /\ LockHolds'
    BY <2>3 DEF SelectionInv, SelectionTypeOK, LockHolds, Permitted
  <2>5. SlotsConfirmed'
    BY <2>3 DEF SelectionInv, SlotsConfirmed, Confirmed, Permitted, Active, Owner
  <2> QED BY <2>2, <2>4, <2>5 DEF SelectionInv
<1>2. CASE SelectionNext
  BY <1>2, StartRouteStep, RunRouteStep, OperatorStep DEF SelectionNext
<1> QED BY <1>1, <1>2

LEMMA SelectionAlwaysInv == SelectionSpec => []SelectionInv
  BY SelectionInitInv, SelectionInvStep, PTL DEF SelectionSpec

\* Between SelectionManager, the registry and the scheduler, the route that runs in
\* an enabled mode is the one confirmed before it was enabled, or the safe one.
THEOREM ConfirmedRouteAlwaysRuns == SelectionSpec => []ConfirmedRouteRuns
<1>1. SelectionInv => ConfirmedRouteRuns
  BY DEF SelectionInv, SlotsConfirmed, ConfirmedRouteRuns, Confirmed
<1> QED BY <1>1, SelectionAlwaysInv, PTL

-----------------------------------------------------------------------------
(* AutonomousMotion, for any motions, groups, commands and times.          *)

\* A set of naturals that is not empty has a least element.
LEMMA HasLeast ==
  ASSUME NEW S \in SUBSET Nat, S # {}
  PROVE  \E x \in S : \A y \in S : x <= y
<1>1. PICK x \in S : \A y \in S : ~(<<y, x>> \in OpToRel(<, Nat))
  BY WFMin, NatLessThanWellFounded, Zenon
<1>2. \A y \in S : x <= y
  <2> SUFFICES ASSUME NEW y \in S, y < x PROVE FALSE
    OBVIOUS
  <2>1. <<y, x>> \in Nat \X Nat /\ <<y, x>>[1] < <<y, x>>[2]
    OBVIOUS
  <2>2. <<y, x>> \in OpToRel(<, Nat)
    BY <2>1, Zenon DEF OpToRel
  <2> QED BY <1>1, <2>2, Zenon
<1> QED BY <1>2

\* A leaf that has answered Running, in a command that goes on, is not ended.
LEMMA RunningStays ==
  ASSUME SchedulerInv, NEW i \in Active, NEW outcome \in [Running -> Outcomes],
         Ticked(i, outcome).state = "Running",
         NEW l \in Ticked(i, outcome).executed, outcome[l] = "Running"
  PROVE  phase[l] = "running" /\ l \notin Ticked(i, outcome).ends
<1> DEFINE c == Owner(i)
<1>1. Ticked(i, outcome) = Execute(c, outcome)
  BY DEF Ticked, Result
<1>2. CASE Together(c)
  <2> DEFINE left     == {m \in LeavesOf[c] : phase[m] = "running"}
             deciding == {k \in 1..Len(Children[c]) : Decides(c, k, outcome)}
             first    == CHOOSE k \in deciding : \A j \in deciding : k <= j
             done     == {m \in left : outcome[m] = "Finished"}
             all      == Kind[c] = "parallel" /\ done = left
  <2>1. Execute(c, outcome) = ExecuteTogether(c, outcome)
    BY <1>2 DEF Execute
  <2>2. Disjoint[c]
    BY <1>1, <2>1 DEF ExecuteTogether, Result
  <2>3. deciding = {}
    <3>1. ASSUME deciding # {}
          PROVE  \E k \in deciding : \A j \in deciding : k <= j
      <4>1. deciding \subseteq Nat
        OBVIOUS
      <4> QED BY <3>1, <4>1, HasLeast
    <3>2. ASSUME deciding # {} PROVE FALSE
      <4>1. first \in deciding
        BY <3>1, <3>2
      <4>2. Execute(c, outcome).state = outcome[Children[c][first]]
        BY <2>1, <2>2, <3>2 DEF ExecuteTogether, Result
      <4>3. outcome[Children[c][first]] # "Running"
        BY <4>1 DEF Decides
      <4> QED BY <1>1, <4>2, <4>3
    <3> QED BY <3>2
  <2>4. Ticked(i, outcome).executed = left /\ Ticked(i, outcome).ends = done
    BY <1>1, <2>1, <2>2, <2>3 DEF ExecuteTogether, Result
  <2> QED BY <2>4
<1>3. CASE ~Together(c)
  <2>1. Execute(c, outcome) = ExecuteOne(c, outcome)
    BY <1>3 DEF Execute
  <2>2. Ticked(i, outcome).executed \subseteq {Children[c][current[c]]}
    BY <1>1, <2>1 DEF ExecuteOne, Result
  <2>3. l = Children[c][current[c]]
    BY <2>2
  <2>4. Ticked(i, outcome).ends = {}
    BY <1>1, <2>1, <2>3 DEF ExecuteOne, Result
  <2>5. c \in Top /\ current[c] \in 1..Len(Children[c])
    BY ActiveSlots DEF SchedulerInv, SchedulerTypeOK
  <2>6. l \in LeavesOf[c]
    BY <2>3, <2>5, Leaves
  <2>7. phase[l] = "running"
    BY <1>3, <2>3, <2>6 DEF SchedulerInv, FlagsInv, OneAtATime
  <2> QED BY <2>4, <2>7
<1> QED BY <1>2, <1>3

\* What a tick executes are leaves of the commands in the slots.
LEMMA Executing ==
  ASSUME SchedulerInv, NEW outcome \in [Running -> Outcomes],
         \A l \in Running \ Timed : outcome[l] # "TimedOut", Tick(outcome), NEW l \in ran'
  PROVE  \E i \in Active : l \in LeavesOf[Owner(i)]
<1> DEFINE R     == [k \in Active |-> Ticked(k, outcome)]
           ended == UNION {R[k].ends : k \in Active}
           begun == UNION {R[k].starts : k \in Active}
           over  == {k \in Active : R[k].state # "Running"}
           swept == UNION {Ended(Owner(k), After(ended, begun)) : k \in over}
<1>1. Effects(R, ended, begun, over, swept)
  BY TickEffects, Zenon
<1>2. PICK k \in Active : l \in R[k].executed
  BY <1>1 DEF Effects
<1>3. l \in LeavesOf[Owner(k)]
  BY <1>2, TickContributes DEF Contribution
<1> QED BY <1>3

\* What a slot still holds after a tick has kept its running leaves.
LEMMA DrivingStays ==
  ASSUME SchedulerInv, NEW outcome \in [Running -> Outcomes],
         \A l \in Running \ Timed : outcome[l] # "TimedOut", Tick(outcome),
         NEW l \in ran', outcome[l] = "Running",
         NEW i \in Active', l \in LeavesOf[Owner(i)']
  PROVE  i \in Active /\ slots'[i] = slots[i] /\ phase'[l] = "running"
<1> DEFINE R     == [k \in Active |-> Ticked(k, outcome)]
           ended == UNION {R[k].ends : k \in Active}
           begun == UNION {R[k].starts : k \in Active}
           over  == {k \in Active : R[k].state # "Running"}
<1>1. /\ slots' = [k \in Slots |-> IF k \in over THEN NoOwner ELSE slots[k]]
      /\ phase' = [m \in Leaf |-> IF m \in LeavesIn(over) THEN "idle" ELSE After(ended, begun)[m]]
      /\ ran' = UNION {R[k].executed : k \in Active}
  <2> DEFINE swept == UNION {Ended(Owner(k), After(ended, begun)) : k \in over}
  <2>1. Effects(R, ended, begun, over, swept)
    BY TickEffects, Zenon
  <2> QED BY <2>1 DEF Effects
<1> HIDE DEF R
<1>12. \A k \in Active : R[k] = Ticked(k, outcome)
  BY DEF R
<1>2. i \in Active /\ slots'[i] = slots[i] /\ i \notin over
  BY <1>1 DEF Active, NoOwner
<1>3. Owner(i)' = Owner(i) /\ Owner(i) \in Top
  BY <1>2, ActiveSlots DEF Owner, SchedulerInv
<1>4. l \in LeavesOf[Owner(i)] /\ l \in Leaf
  BY <1>3, Leaves
<1>5. ASSUME NEW k \in Active, l \in LeavesOf[Owner(k)] PROVE k = i
  BY <1>2, <1>3, <1>4, <1>5, ActiveSlots, OneCommand DEF SchedulerInv, FlagsInv, Apart
<1>6. \A k \in Active : R[k].executed \subseteq LeavesOf[Owner(k)] /\ R[k].ends \subseteq LeavesOf[Owner(k)]
  BY <1>12, TickContributes DEF Contribution
<1>7. l \in R[i].executed
  BY <1>1, <1>5, <1>6
<1>8. phase[l] = "running" /\ l \notin R[i].ends
  BY <1>2, <1>7, <1>12, RunningStays
<1>9. l \notin ended
  BY <1>5, <1>6, <1>8
<1>10. l \notin LeavesIn(over)
  BY <1>2, <1>5 DEF LeavesIn
<1>11. After(ended, begun)[l] = "running"
  BY <1>4, <1>8, <1>9 DEF After
<1> QED BY <1>1, <1>2, <1>4, <1>10, <1>11

-----------------------------------------------------------------------------
\* No token is handed out again while the sink holds a request under it.  A token
\* is a command, a lease and an epoch, so this takes all the other 2^32 leases
\* given out in one epoch while one command holds its own, and that command ended
\* and scheduled again in the very frame in which the numbers have come round.
TokensAreNew ==
    \A i \in Slots : sink # NoRequest /\ slots'[i] = sink.owner => slots[i] = sink.owner
NoTokenTwice == [][TokensAreNew]_motionVars

\* Before the tick only the end of a motion has asked for anything.
TickFirst == frame.step = "begun" => sink.payload # "Velocity"

\* The request in the sink is of a motion that runs, if its slot is still there.
Drives(request) ==
    request.payload = "Velocity" =>
        \A i \in Active : slots[i] = request.owner =>
            \E l \in LeavesOf[Owner(i)] \cap Motion : phase[l] = "running"

MotionCore == SchedulerInv /\ MotionTypeOK /\ TickFirst
MotionInv  == MotionCore /\ Drives(sink)

\* What a step keeps, and what it keeps if it gives no token out twice.
Keeps == MotionCore' /\ (Drives(sink) /\ TokensAreNew => Drives(sink)')

\* The types of the motions' timing.
MotionTimings == [Motion -> [initialized : BOOLEAN, elapsed : 0..Timeout,
                             settling : 0..(Settle + 1), stalling : 0..(Stall + 1)]]

LEMMA TimingTypes ==
  ASSUME motion \in MotionTimings, NEW observed, MotionsAfter(observed),
         observed.usable \in BOOLEAN, ran' # {} => observed \in Reading
  PROVE  motion' \in MotionTimings
<1>1. Timeout \in Nat /\ Settle \in Nat \ {0} /\ Stall \in Nat \ {0}
  BY MotionAssumption
<1>2. ran' # {} => observed.inBand \in BOOLEAN /\ observed.stalled \in BOOLEAN
  BY DEF Reading
<1>3. ASSUME NEW n \in Nat \ {0}, NEW on \in BOOLEAN, NEW count \in 0..(n + 1)
      PROVE  Timing(on, count) \in 0..(n + 1)
  BY DEF Timing
<1> DEFINE T == [initialized : BOOLEAN, elapsed : 0..Timeout,
                 settling : 0..(Settle + 1), stalling : 0..(Stall + 1)]
<1>4. Idle \in T /\ [Idle EXCEPT !.initialized = observed.usable] \in T
  BY <1>1 DEF Idle
<1>5. ASSUME NEW m \in T, ran' # {} PROVE Executed(m, observed) \in T
  BY <1>1, <1>2, <1>3, <1>5 DEF Executed
<1>6. \A l \in Motion : motion[l] \in T
  BY DEF MotionTimings
<1>7. motion' = [l \in Motion |->
        IF live'[l] = 0 THEN Idle
        ELSE IF live[l] = 0 THEN [Idle EXCEPT !.initialized = observed.usable]
        ELSE IF l \in ran' THEN Executed(motion[l], observed) ELSE motion[l]]
  BY DEF MotionsAfter
<1> HIDE DEF T
<1>8. motion' \in [Motion -> T]
  BY <1>4, <1>5, <1>6, <1>7
<1> QED BY <1>8 DEF MotionTimings, T

\* A frame later.
LEMMA AgedTypes ==
  ASSUME motion \in MotionTimings,
         motion' = [l \in Motion |-> IF motion[l].initialized THEN Aged(motion[l]) ELSE motion[l]]
  PROVE  motion' \in MotionTimings
<1>1. Timeout \in Nat /\ Settle \in Nat \ {0} /\ Stall \in Nat \ {0}
  BY MotionAssumption
<1>2. ASSUME NEW n \in Nat, NEW k \in 0..n PROVE UpTo(n, k + 1) \in 0..n
  BY DEF UpTo
<1> DEFINE T == [initialized : BOOLEAN, elapsed : 0..Timeout,
                 settling : 0..(Settle + 1), stalling : 0..(Stall + 1)]
<1>3. ASSUME NEW m \in T PROVE Aged(m) \in T
  <2>1. UpTo(Timeout, m.elapsed + 1) \in 0..Timeout
    BY <1>1, <1>2
  <2>2. UpTo(Settle + 1, m.settling + 1) \in 0..(Settle + 1)
    BY <1>1, <1>2
  <2>3. UpTo(Stall + 1, m.stalling + 1) \in 0..(Stall + 1)
    BY <1>1, <1>2
  <2> QED BY <1>1, <2>1, <2>2, <2>3 DEF Aged
<1>4. \A l \in Motion : motion[l] \in T
  BY DEF MotionTimings
<1> HIDE DEF T
<1>5. motion' \in [Motion -> T]
  BY <1>3, <1>4
<1> QED BY <1>5 DEF MotionTimings, T

\* What a call puts in the sink that has nothing yet is a velocity of a leaf in
\* driving, or a Brake.
LEMMA PublishedIs ==
  ASSUME NEW driving, driving \subseteq Motion \cup DoNothing, Publish(driving)
  PROVE  \/ sink' = sink
         \/ sink = NoRequest /\ sink'.payload = "Brake"
         \/ /\ sink = NoRequest /\ sink'.payload = "Velocity"
            /\ \E l \in driving \cap Motion : sink'.owner = OwnerOf(l)
<1> DEFINE ended == {l \in Motion : live[l] = 1 /\ live'[l] = 0}
           first == CHOOSE l \in driving : TRUE
           last  == CHOOSE l \in ended : TRUE
<1>1. sink' = IF sink # NoRequest THEN sink
              ELSE IF driving # {} THEN Request(first, Payload(first))
              ELSE IF ended # {} THEN Request(last, "Brake") ELSE sink
  BY DEF Publish
<1>2. CASE sink = NoRequest /\ driving # {}
  <2>1. first \in driving
    BY <1>2
  <2>2. sink' = Request(first, Payload(first))
    BY <1>1, <1>2
  <2>3. sink'.payload = Payload(first) /\ sink'.owner = OwnerOf(first)
    BY <2>2 DEF Request
  <2>4. Payload(first) = "Brake" \/ (Payload(first) = "Velocity" /\ first \in Motion)
    BY DEF Payload
  <2> QED BY <1>2, <2>1, <2>3, <2>4
<1>3. CASE sink = NoRequest /\ driving = {} /\ ended # {}
  BY <1>1, <1>3 DEF Request
<1>4. CASE sink # NoRequest \/ (driving = {} /\ ended = {})
  BY <1>1, <1>4
<1> QED BY <1>2, <1>3, <1>4

LEMMA PublishTypes ==
  ASSUME MotionTypeOK, NEW driving, driving \subseteq Motion \cup DoNothing, Publish(driving)
  PROVE  /\ sink'.payload \in {"None", "Velocity", "Brake"}
         /\ sink'.payload = "None" => sink' = NoRequest
  BY PublishedIs DEF MotionTypeOK

\* A command that stays in its slot through schedule() or cancel() goes on as it did.
LEMMA CallKeeps ==
  ASSUME SchedulerInv, NEW S \in SUBSET Active, NEW begun, NEW i \in Active \ S,
         phase' = [l \in Leaf |-> IF l \in begun THEN "running"
                                  ELSE IF l \in LeavesIn(S) THEN "idle" ELSE phase[l]],
         NEW l \in LeavesOf[Owner(i)], phase[l] = "running"
  PROVE  phase'[l] = "running"
<1>1. Owner(i) \in Top /\ l \in Leaf
  BY ActiveSlots, Leaves DEF SchedulerInv
<1>2. l \notin LeavesIn(S)
  BY LeafInSlots DEF SchedulerInv
<1> QED BY <1>1, <1>2

-----------------------------------------------------------------------------
\* What schedule() and cancel() leave behind; what they end may have asked for a Brake.
LEMMA CallStep ==
  ASSUME MotionCore, SchedulerInv', NEW S \in SUBSET Active, NEW begun,
         phase' = [l \in Leaf |-> IF l \in begun THEN "running"
                                  ELSE IF l \in LeavesIn(S) THEN "idle" ELSE phase[l]],
         \A i \in Active' : slots'[i] = slots[i] => i \in Active \ S,
         Publish({}), NEW usable \in BOOLEAN, MotionsAfter([usable |-> usable]),
         ran' = {}, UNCHANGED <<frame, selected>>
  PROVE  Keeps
<1> USE DEF MotionCore
<1>1. \/ sink' = sink
      \/ sink' # sink /\ sink = NoRequest /\ sink'.payload = "Brake"
  BY PublishedIs
<1>2. motion \in MotionTimings
  BY DEF MotionTypeOK, MotionTimings
<1>3. motion' \in MotionTimings
  BY <1>2, TimingTypes
<1>4. MotionTypeOK'
  BY <1>3, PublishTypes DEF MotionTypeOK, MotionTimings
<1>5. TickFirst'
  BY <1>1 DEF TickFirst
<1>6. ASSUME Drives(sink), TokensAreNew, sink'.payload = "Velocity", NEW i \in Active', slots'[i] = sink'.owner
      PROVE  \E l \in LeavesOf[Owner(i)'] \cap Motion : phase'[l] = "running"
  <2>1. sink' = sink /\ sink # NoRequest
    BY <1>1, <1>6 DEF NoRequest
  <2>2. i \in Slots
    BY DEF Active
  <2>3. slots'[i] = slots[i] /\ slots[i] = sink.owner
    BY <1>6, <2>1, <2>2 DEF TokensAreNew
  <2>4. i \in Active \ S /\ Owner(i)' = Owner(i)
    BY <2>3 DEF Owner
  <2>5. PICK l \in LeavesOf[Owner(i)] \cap Motion : phase[l] = "running"
    BY <1>6, <2>1, <2>3, <2>4 DEF Drives
  <2>6. phase'[l] = "running"
    BY <2>4, <2>5, CallKeeps
  <2> QED BY <2>4, <2>5, <2>6
<1>7. Drives(sink) /\ TokensAreNew => Drives(sink)'
  BY <1>6 DEF Drives
<1> QED BY <1>4, <1>5, <1>7 DEF Keeps

LEMMA MotionScheduleStep ==
  ASSUME MotionCore, NEW c \in MotionTop, NEW interrupt \in BOOLEAN, NEW usable \in BOOLEAN,
         MotionSchedule(c, interrupt, usable)
  PROVE  Keeps
<1>1. c \in Top /\ 1 \in Picks(c) /\ Schedule(c, interrupt, 1)
  BY MotionAssumption DEF MotionSchedule, Picks
<1>2. SchedulerInv'
  BY <1>1, ScheduleStep DEF MotionCore
<1>3. Publish({}) /\ MotionsAfter([usable |-> usable]) /\ UNCHANGED <<frame, selected>>
  BY DEF MotionSchedule
<1>4. \A i \in Active : Owner(i) # c
  BY <1>1 DEF Schedule, Accepts
<1>5. PICK target \in Slots :
        /\ slots' = [i \in Slots |->
              IF i = target THEN [command |-> c, lease |-> NextLease, epoch |-> mode.epoch]
              ELSE IF i \in Conflicting(c) THEN NoOwner ELSE slots[i]]
        /\ phase' = [l \in Leaf |-> IF l \in Started(c, 1) THEN "running"
                                    ELSE IF l \in LeavesIn(Conflicting(c)) THEN "idle" ELSE phase[l]]
        /\ ran' = {}
  <2>1. Conflicting(c) \subseteq Slots
    BY DEF Conflicting, Active
  <2> QED BY <1>1, <2>1 DEF Schedule
<1>6. ASSUME NEW i \in Active', slots'[i] = slots[i]
      PROVE  i \in Active \ Conflicting(c)
  <2>1. i \in Slots /\ slots'[i].lease # 0
    BY DEF Active
  <2>2. i \in Active
    BY <1>6, <2>1 DEF Active
  <2>3. i # target
    BY <1>4, <1>5, <1>6, <2>1, <2>2 DEF Owner
  <2> QED BY <1>5, <2>1, <2>2, <2>3 DEF NoOwner
<1>7. Conflicting(c) \in SUBSET Active
  BY DEF Conflicting
<1> QED BY <1>2, <1>3, <1>5, <1>6, <1>7, CallStep

LEMMA MotionCancelStep ==
  ASSUME MotionCore, NEW c \in MotionTop, MotionCancel(c)
  PROVE  Keeps
<1>1. PICK k \in Active : Release({k})
  BY DEF MotionCancel, Cancel
<1>2. SchedulerInv'
  BY <1>1, ReleaseStep DEF MotionCore
<1>3. Publish({}) /\ MotionsAfter([usable |-> TRUE]) /\ UNCHANGED <<frame, selected>>
  BY DEF MotionCancel
<1>4. /\ slots' = [i \in Slots |-> IF i \in {k} THEN NoOwner ELSE slots[i]]
      /\ phase' = [l \in Leaf |-> IF l \in LeavesIn({k}) THEN "idle" ELSE phase[l]]
      /\ ran' = {}
  BY <1>1 DEF Release
<1>5. phase' = [l \in Leaf |-> IF l \in {} THEN "running"
                               ELSE IF l \in LeavesIn({k}) THEN "idle" ELSE phase[l]]
  BY <1>4
<1>6. \A i \in Active' : slots'[i] = slots[i] => i \in Active \ {k}
  BY <1>4 DEF Active, NoOwner
<1>7. PICK S \in SUBSET Active : S = {k}
  OBVIOUS
<1>8. PICK usable \in BOOLEAN : usable = TRUE
  OBVIOUS
<1>9. PICK begun : begun = {}
  OBVIOUS
<1>10. Publish({}) /\ MotionsAfter([usable |-> usable])
  BY <1>3, <1>8
<1>11. phase' = [l \in Leaf |-> IF l \in begun THEN "running"
                               ELSE IF l \in LeavesIn(S) THEN "idle" ELSE phase[l]]
  BY <1>5, <1>7, <1>9
<1> QED BY <1>2, <1>3, <1>4, <1>6, <1>7, <1>10, <1>11, CallStep

LEMMA MotionTickStep ==
  ASSUME MotionCore, MotionTick
  PROVE  Keeps
<1> USE DEF MotionCore
<1>1. PICK observed \in Reading, outcome \in [Running -> Outcomes] :
        /\ \A l \in Running : outcome[l] = "TimedOut" => l \in Timed
        /\ Tick(outcome)
        /\ Publish({l \in ran' \cap (Motion \cup DoNothing) : outcome[l] = "Running"})
        /\ MotionsAfter(observed)
  BY DEF MotionTick
<1> DEFINE driving == {l \in ran' \cap (Motion \cup DoNothing) : outcome[l] = "Running"}
<1>2. \A l \in Running \ Timed : outcome[l] # "TimedOut"
  BY <1>1
<1>3. SchedulerInv'
  BY <1>1, <1>2, TickStep
<1>4. frame' = [frame EXCEPT !.step = "ticked"] /\ selected' = selected /\ frame.step = "begun"
  BY DEF MotionTick
<1>5. driving \subseteq Motion \cup DoNothing /\ Publish(driving)
  BY <1>1
<1> HIDE DEF driving
<1>6. motion' \in MotionTimings
  BY <1>1, TimingTypes DEF MotionTypeOK, MotionTimings, Reading
<1>7. MotionTypeOK'
  BY <1>4, <1>5, <1>6, PublishTypes DEF MotionTypeOK, MotionTimings
<1>8. TickFirst'
  BY <1>4 DEF TickFirst, MotionTypeOK
<1>9. ASSUME sink'.payload = "Velocity", NEW i \in Active', slots'[i] = sink'.owner
      PROVE  \E l \in LeavesOf[Owner(i)'] \cap Motion : phase'[l] = "running"
  <2>1. sink.payload # "Velocity"
    BY <1>4 DEF TickFirst
  <2>2. PICK l \in driving \cap Motion : sink'.owner = OwnerOf(l)
    BY <1>5, <1>9, <2>1, PublishedIs
  <2>3. l \in ran' /\ outcome[l] = "Running"
    BY DEF driving
  <2>4. PICK j \in Active : l \in LeavesOf[Owner(j)]
    BY <1>1, <1>2, <2>3, Executing
  <2>5. PICK k \in Active : l \in LeavesOf[Owner(k)] /\ OwnerOf(l) = slots[k]
    BY <2>4 DEF OwnerOf
  <2>6. slots'[i] = slots[k] /\ Owner(i)' = Owner(k)
    BY <1>9, <2>2, <2>5 DEF Owner
  <2>7. phase'[l] = "running"
    BY <1>1, <1>2, <2>3, <2>5, <2>6, DrivingStays
  <2> QED BY <2>2, <2>5, <2>6, <2>7
<1>10. Drives(sink)'
  BY <1>9 DEF Drives
<1> QED BY <1>3, <1>7, <1>8, <1>10 DEF Keeps

LEMMA MotionInitInv ==
  ASSUME MotionInit
  PROVE  MotionInv
<1>1. SchedulerInv
  BY InitInv DEF MotionInit
<1>2. MotionTypeOK
  <2>1. \A l \in Motion : motion[l] = Idle
    BY DEF MotionInit
  <2> QED BY MotionAssumption DEF MotionInit, MotionTypeOK, NoRequest, Idle
<1>3. TickFirst /\ Drives(sink)
  BY DEF MotionInit, TickFirst, Drives, NoRequest
<1> QED BY <1>1, <1>2, <1>3 DEF MotionInv, MotionCore

\* The steps between the calls leave the commands as they are.
LEMMA BetweenCalls ==
  ASSUME MotionCore, BeginFrame \/ Select \/ MotionMode
  PROVE  Keeps
<1> USE DEF MotionCore
<1>1. CASE BeginFrame
  <2>1. UNCHANGED <<slots, current, phase, live>> /\ UNCHANGED <<mode, generation, epoch>> /\ ran' = {}
    BY <1>1 DEF BeginFrame, callVars, groupVars
  <2>2. SchedulerInv'
    BY <2>1, FlagsStay DEF SchedulerInv, SchedulerTypeOK, RunsInItsEpoch
  <2>3. sink' = NoRequest /\ selected' = NoRequest /\ frame' = [step |-> "begun", epoch |-> mode.epoch]
    BY <1>1 DEF BeginFrame
  <2>4. motion' \in MotionTimings
    BY <1>1, AgedTypes DEF BeginFrame, MotionTypeOK, MotionTimings
  <2>5. MotionTypeOK'
    BY <2>3, <2>4 DEF MotionTypeOK, MotionTimings, NoRequest, SchedulerInv, SchedulerTypeOK
  <2> QED BY <2>2, <2>3, <2>5 DEF TickFirst, Drives, NoRequest, Keeps
<1>2. CASE Select
  <2>1. /\ UNCHANGED <<slots, current, phase, live>> /\ UNCHANGED <<mode, generation, epoch, sink, motion>>
        /\ ran' = {} /\ frame' = [frame EXCEPT !.step = "selected"]
        /\ selected' = sink \/ selected' = NoRequest
    BY <1>2 DEF Select, callVars, groupVars
  <2>2. SchedulerInv'
    BY <2>1, FlagsStay DEF SchedulerInv, SchedulerTypeOK, RunsInItsEpoch
  <2>3. MotionTypeOK' /\ TickFirst'
    BY <2>1 DEF MotionTypeOK, TickFirst, NoRequest
  <2>4. Drives(sink) => Drives(sink)'
    BY <2>1 DEF Drives, Active, Owner
  <2> QED BY <2>2, <2>3, <2>4 DEF Keeps
<1>3. CASE MotionMode
  <2>1. (\E m \in Modes : NewEpoch(m)) \/ Enable
    BY <1>3 DEF MotionMode, Modes
  <2>2. SchedulerInv'
    BY <2>1, ModeStep
  <2>3. UNCHANGED <<slots, phase>> /\ UNCHANGED <<frame, sink, selected, motion>>
    BY <1>3, <2>1 DEF MotionMode, NewEpoch, Enable, groupVars, motionOnly
  <2>4. MotionTypeOK' /\ TickFirst' /\ (Drives(sink) => Drives(sink)')
    BY <2>3 DEF MotionTypeOK, TickFirst, Drives, Active, Owner
  <2> QED BY <2>2, <2>4 DEF Keeps
<1> QED BY <1>1, <1>2, <1>3

LEMMA MotionNextKeeps ==
  ASSUME MotionCore, MotionNext
  PROVE  Keeps
<1>1. CASE MotionFrame \/ MotionMode
  BY <1>1, BetweenCalls, MotionTickStep DEF MotionFrame
<1>2. CASE \E c \in MotionTop, interrupt, usable \in BOOLEAN : MotionSchedule(c, interrupt, usable)
  BY <1>2, MotionScheduleStep
<1>3. CASE \E c \in MotionTop : MotionCancel(c)
  BY <1>3, MotionCancelStep
<1> QED BY <1>1, <1>2, <1>3 DEF MotionNext

LEMMA MotionStutter ==
  ASSUME MotionCore, UNCHANGED motionVars
  PROVE  MotionCore' /\ (Drives(sink) => Drives(sink)')
<1>1. /\ UNCHANGED <<slots, current, phase, live>> /\ UNCHANGED <<mode, generation, epoch, ran>>
      /\ UNCHANGED <<frame, sink, selected, motion>>
  BY DEF motionVars, motionOnly, schedulerVars, groupVars
<1>2. SchedulerInv'
  BY <1>1, FlagsStay DEF MotionCore, SchedulerInv, SchedulerTypeOK, RunsInItsEpoch, Active, Owner
<1> QED BY <1>1, <1>2 DEF MotionCore, MotionTypeOK, TickFirst, Drives, Active, Owner

LEMMA MotionAlwaysCore == MotionSpec => []MotionCore
<1>1. MotionCore /\ [MotionNext]_motionVars => MotionCore'
  BY MotionNextKeeps, MotionStutter DEF Keeps
<1>2. MotionInit => MotionCore
  BY MotionInitInv DEF MotionInv
<1> QED BY <1>1, <1>2, PTL DEF MotionSpec

\* The motions, the sink and the timing of the termination monitors keep their types.
THEOREM MotionTypeCorrect == MotionSpec => []MotionTypeOK
<1>1. MotionCore => MotionTypeOK
  BY DEF MotionCore
<1> QED BY <1>1, MotionAlwaysCore, PTL

\* What is proved of the scheduler for any answers of its commands holds with those of
\* the motions: they end once, have the drivetrain to themselves and run in their epoch.
THEOREM MotionsAreCommands == MotionSpec => [](EndedOnce /\ NoSharedSubsystem /\ RunsInItsEpoch)
<1>1. MotionCore => EndedOnce /\ NoSharedSubsystem /\ RunsInItsEpoch
  BY FlagsSuffice DEF MotionCore, SchedulerInv
<1> QED BY <1>1, MotionAlwaysCore, PTL

\* Only Select changes what is selected to a request.
LEMMA OnlySelect ==
  ASSUME MotionNext, selected' # selected, selected'.payload = "Velocity"
  PROVE  Select
<1>1. ~BeginFrame
  BY DEF BeginFrame, NoRequest
<1>2. ~MotionTick
  <2> SUFFICES ASSUME MotionTick PROVE selected' = selected
    OBVIOUS
  <2> QED BY DEF MotionTick
<1>3. ~MotionMode
  BY DEF MotionMode, motionOnly
<1>4. ~ \E c \in MotionTop, interrupt, usable \in BOOLEAN : MotionSchedule(c, interrupt, usable)
  BY DEF MotionSchedule
<1>5. ~ \E c \in MotionTop : MotionCancel(c)
  BY DEF MotionCancel
<1> QED BY <1>1, <1>2, <1>3, <1>4, <1>5, Zenon DEF MotionNext, MotionFrame

\* The arbiter selects a velocity only for a motion that runs, for any commands,
\* groups and times, as long as no command gets its own lease back in the frame it
\* has asked for a velocity in.
THEOREM VelocityHasItsMotion == MotionSpec /\ NoTokenTwice => VelocityOfRunningMotion
<1> DEFINE Runs == selected' # selected /\ selected'.payload = "Velocity" =>
             \E i \in Active : /\ slots[i] = selected'.owner
                               /\ \E l \in LeavesOf[Owner(i)] \cap Motion : live[l] = 1
<1>1. MotionInit => Drives(sink)
  BY MotionInitInv DEF MotionInv
<1>2. MotionCore /\ Drives(sink) /\ [MotionNext]_motionVars /\ [TokensAreNew]_motionVars => Drives(sink)'
  BY MotionNextKeeps, MotionStutter DEF Keeps
<1>3. MotionCore /\ Drives(sink) /\ [MotionNext]_motionVars => [Runs]_motionVars
  <2> SUFFICES ASSUME MotionCore, Drives(sink), MotionNext,
                      selected' # selected, selected'.payload = "Velocity"
               PROVE  \E i \in Active : /\ slots[i] = selected'.owner
                                        /\ \E l \in LeavesOf[Owner(i)] \cap Motion : live[l] = 1
    OBVIOUS
  <2>1. Select /\ selected' = sink
    BY OnlySelect DEF Select, NoRequest
  <2>2. PICK i \in Active : slots[i] = sink.owner
    BY <2>1 DEF Select, Valid, owns, NoRequest
  <2>3. PICK l \in LeavesOf[Owner(i)] \cap Motion : phase[l] = "running"
    BY <2>1, <2>2 DEF Drives
  <2>4. live[l] = 1
    BY <2>3, MotionAssumption DEF MotionCore, SchedulerInv, FlagsInv, LiveRuns
  <2> QED BY <2>1, <2>2, <2>3, <2>4
<1> QED BY <1>1, <1>2, <1>3, MotionAlwaysCore, PTL
        DEF MotionSpec, NoTokenTwice, VelocityOfRunningMotion

-----------------------------------------------------------------------------
(* A motion does not outlast its time-out: the safety core of MotionsEnd.  *)

\* A motion that goes on after a step has lost nothing of its time: the first step
\* of a frame adds to it and no other touches it.  And it goes on after a tick only
\* if it was initialized and its time was not over.  So it is ended by the tick of
\* the frame in which its time-out is reached, if nothing ends it before.
EveryFrameCounts ==
    [][\A l \in Motion : live[l] = 1 /\ live'[l] = 1 =>
          /\ motion'[l].initialized = motion[l].initialized
          /\ motion'[l].elapsed = IF BeginFrame /\ motion[l].initialized
                                  THEN UpTo(Timeout, motion[l].elapsed + 1)
                                  ELSE motion[l].elapsed
          /\ MotionTick => motion[l].initialized /\ ~TimedOut(l)]_motionVars

\* execute() of a group comes to each leaf that has failed, or ends it before.
LEMMA FailureDecides ==
  ASSUME SchedulerInv, NEW i \in Active, NEW outcome, NEW l \in LeavesOf[Owner(i)],
         phase[l] = "running", outcome[l] \in {"Failed", "TimedOut"},
         outcome[l] = "TimedOut" => ~Together(Owner(i))
  PROVE  l \in Ticked(i, outcome).ends \/ Ticked(i, outcome).state # "Running"
<1> DEFINE c == Owner(i)
<1>1. c \in Top /\ current[c] \in 1..Len(Children[c]) /\ Len(Children[c]) \in Nat
  BY ActiveSlots, Leaves DEF SchedulerInv, SchedulerTypeOK
<1>2. PICK k \in 1..Len(Children[c]) : l = Children[c][k]
  <2>1. \A m \in LeavesOf[c] : \E k \in 1..Len(Children[c]) : m = Children[c][k]
    BY <1>1, Leaves
  <2> QED BY <2>1
<1>3. CASE ~((epoch # 0 => epoch = mode.epoch) /\ MayRun(i))
  BY <1>3 DEF Ticked, Result
<1>4. CASE (epoch # 0 => epoch = mode.epoch) /\ MayRun(i) /\ Together(c)
  <2>1. Disjoint[c]
    BY <1>4 DEF SchedulerInv, FlagsInv, NoneTogether
  <2>2. Decides(c, k, outcome)
    BY <1>2, <1>4 DEF Decides
  <2>3. ExecuteTogether(c, outcome).ends = {m \in LeavesOf[c] : phase[m] = "running"}
    BY <1>2, <2>1, <2>2 DEF ExecuteTogether, Result
  <2>4. Ticked(i, outcome) = ExecuteTogether(c, outcome)
    BY <1>4 DEF Ticked, Execute
  <2> QED BY <2>3, <2>4
<1>5. CASE (epoch # 0 => epoch = mode.epoch) /\ MayRun(i) /\ ~Together(c)
  <2>1. l = Children[c][current[c]]
    BY <1>5 DEF SchedulerInv, FlagsInv, OneAtATime
  <2>2. ExecuteOne(c, outcome).state \in {"Failed", "TimedOut"}
    BY <2>1 DEF ExecuteOne, Result
  <2>3. Ticked(i, outcome) = ExecuteOne(c, outcome)
    BY <1>5 DEF Ticked, Execute
  <2> QED BY <2>2, <2>3
<1> QED BY <1>3, <1>4, <1>5

\* tick() leaves no leaf running that has failed or whose time is over.
LEMMA FailureEnds ==
  ASSUME SchedulerInv, NEW outcome \in [Running -> Outcomes],
         \A l \in Running \ Timed : outcome[l] # "TimedOut", Tick(outcome),
         NEW l \in Running, outcome[l] \in {"Failed", "TimedOut"}
  PROVE  phase'[l] # "running"
<1> DEFINE answers == [i \in Active |-> Ticked(i, outcome)]
           ended  == UNION {answers[i].ends : i \in Active}
           begun  == UNION {answers[i].starts : i \in Active}
           over   == {i \in Active : answers[i].state # "Running"}
           swept  == UNION {Ended(Owner(i), After(ended, begun)) : i \in over}
<1>1. Effects(answers, ended, begun, over, swept)
  BY TickEffects, Zenon
<1>2. l \in Leaf /\ phase[l] = "running"
  BY DEF Running
<1>3. PICK i \in Active : l \in LeavesOf[Owner(i)]
  BY <1>2 DEF SchedulerInv, FlagsInv, Owned
<1>4. outcome[l] = "TimedOut" => ~Together(Owner(i))
  <2> SUFFICES ASSUME outcome[l] = "TimedOut" PROVE ~Together(Owner(i))
    OBVIOUS
  <2>1. PICK d \in Top : Kind[d] = "timeout" /\ l \in LeavesOf[d]
    BY DEF Timed
  <2>2. d = Owner(i)
    BY <1>3, <2>1, OneCommand, ActiveSlots DEF SchedulerInv
  <2> QED BY <2>1, <2>2 DEF Together
<1>5. l \in answers[i].ends \/ answers[i].state # "Running"
  BY <1>2, <1>3, <1>4, FailureDecides
<1> HIDE DEF answers, swept
<1>6. CASE i \in over
  <2>1. l \in LeavesIn(over)
    BY <1>3, <1>6 DEF LeavesIn
  <2> QED BY <1>1, <1>2, <2>1 DEF Effects
<1>7. CASE l \in answers[i].ends
  <2>1. l \in ended
    BY <1>7
  <2>2. After(ended, begun)[l] = "finished"
    BY <1>2, <2>1 DEF After
  <2> QED BY <1>1, <1>2, <2>2 DEF Effects
<1> QED BY <1>5, <1>6, <1>7

\* A motion that a tick leaves running is not overdue.
LEMMA OverdueEnds ==
  ASSUME MotionCore, MotionTick, NEW l \in Motion, live[l] = 1, live'[l] = 1
  PROVE  motion[l].initialized /\ ~TimedOut(l)
<1>1. PICK observed \in Reading, outcome \in [Running -> Outcomes] :
        /\ \A m \in Running : outcome[m] = "TimedOut" => m \in Timed
        /\ \A m \in Running \cap (Motion \cup DoNothing) :
              outcome[m] # "TimedOut" => outcome[m] = Answer(m, observed)
        /\ Tick(outcome)
  BY DEF MotionTick
<1>2. l \in Leaf /\ l \notin DoNothing
  BY MotionAssumption
<1>3. phase[l] = "running" /\ l \in Running
  BY <1>2 DEF MotionCore, SchedulerInv, FlagsInv, LiveRuns, Running
<1>4. \A m \in Running \ Timed : outcome[m] # "TimedOut"
  BY <1>1
<1>5. phase'[l] = "running"
  BY <1>1, <1>2, <1>4, TickStep DEF MotionCore, SchedulerInv, FlagsInv, LiveRuns
<1>6. outcome[l] \notin {"Failed", "TimedOut"}
  BY <1>1, <1>3, <1>4, <1>5, FailureEnds DEF MotionCore
<1>7. outcome[l] = Answer(l, observed)
  BY <1>1, <1>3, <1>6
<1> QED BY <1>2, <1>6, <1>7 DEF Answer

\* The calls leave the time of a motion that goes on as it is.
LEMMA CallsKeepTime ==
  ASSUME MotionCore, NEW observed, MotionsAfter(observed), NEW l \in Motion, live[l] = 1, live'[l] = 1
  PROVE  motion'[l].initialized = motion[l].initialized /\ motion'[l].elapsed = motion[l].elapsed
<1>1. motion'[l] = IF l \in ran' THEN Executed(motion[l], observed) ELSE motion[l]
  BY DEF MotionsAfter
<1>2. motion[l] \in [initialized : BOOLEAN, elapsed : 0..Timeout,
                     settling : 0..(Settle + 1), stalling : 0..(Stall + 1)]
  BY DEF MotionCore, MotionTypeOK
<1> QED BY <1>1, <1>2 DEF Executed

\* Whatever the robot and its groups do, a motion's time goes on in every frame, is
\* never given back, and ends it when it is over.
THEOREM MotionsAgeToTheirEnd == MotionSpec => EveryFrameCounts
<1> DEFINE Goes == \A l \in Motion : live[l] = 1 /\ live'[l] = 1 =>
              /\ motion'[l].initialized = motion[l].initialized
              /\ motion'[l].elapsed = IF BeginFrame /\ motion[l].initialized
                                      THEN UpTo(Timeout, motion[l].elapsed + 1)
                                      ELSE motion[l].elapsed
              /\ MotionTick => motion[l].initialized /\ ~TimedOut(l)
<1>1. MotionCore /\ MotionNext => Goes
  <2> SUFFICES ASSUME MotionCore, MotionNext, NEW l \in Motion, live[l] = 1, live'[l] = 1
               PROVE  /\ motion'[l].initialized = motion[l].initialized
                      /\ motion'[l].elapsed = IF BeginFrame /\ motion[l].initialized
                                              THEN UpTo(Timeout, motion[l].elapsed + 1)
                                              ELSE motion[l].elapsed
                      /\ MotionTick => motion[l].initialized /\ ~TimedOut(l)
    OBVIOUS
  <2>1. motion[l] \in [initialized : BOOLEAN, elapsed : 0..Timeout,
                       settling : 0..(Settle + 1), stalling : 0..(Stall + 1)]
    BY DEF MotionCore, MotionTypeOK
  <2>2. CASE BeginFrame
    <3>1. motion'[l] = IF motion[l].initialized THEN Aged(motion[l]) ELSE motion[l]
      BY <2>2 DEF BeginFrame
    <3>2. ~MotionTick
      BY <2>2 DEF BeginFrame, MotionTick
    <3> QED BY <2>1, <2>2, <3>1, <3>2 DEF Aged
  <2>3. CASE ~BeginFrame
    <3>1. motion'[l].initialized = motion[l].initialized /\ motion'[l].elapsed = motion[l].elapsed
      <4>1. CASE Select \/ MotionMode
        BY <4>1 DEF Select, MotionMode, motionOnly
      <4>2. CASE \E observed : MotionsAfter(observed)
        BY <4>2, CallsKeepTime
      <4> QED BY <2>3, <4>1, <4>2
              DEF MotionNext, MotionFrame, MotionTick, MotionSchedule, MotionCancel
    <3> QED BY <2>3, <3>1, OverdueEnds
  <2> QED BY <2>2, <2>3
<1>2. MotionCore /\ [MotionNext]_motionVars => [Goes]_motionVars
  BY <1>1
<1> QED BY <1>2, MotionAlwaysCore, PTL DEF MotionSpec, EveryFrameCounts

-----------------------------------------------------------------------------
(* MCProcedures: the components beside one another.  A behaviour runs one  *)
(* of them; each keeps its invariant while it runs and while another does. *)

\* The parts that do not meet the scheduler behave as they do alone.
LEMMA EachRunsAlone == Spec => StatusSpec /\ RingSpec /\ SensorSpec
<1>1. Init => StatusInit /\ RingInit /\ SensorInit
  BY DEF Init, Starts
<1>2. [Next]_vars => [StatusNext]_statusVars /\ [RingNext]_ringVars /\ [SensorNext]_sensorVars
  BY DEF Next, vars, tasks
<1> QED BY <1>1, <1>2, PTL DEF Spec, StatusSpec, RingSpec, SensorSpec

SchedulingInv ==
    /\ SchedulerInv /\ MotionTypeOK /\ SelectionTypeOK /\ AlertInv
    /\ component = "motion" => MotionCore
    /\ component = "route" => SelectionInv

\* The motions and the selection as they stand while another component schedules.
LEMMA OnlyScheduled ==
  ASSUME MotionTypeOK, SelectionTypeOK
  PROVE  /\ UNCHANGED motionOnly => MotionTypeOK'
         /\ UNCHANGED selectionOnly => SelectionTypeOK'
  BY DEF motionOnly, selectionOnly, MotionTypeOK, SelectionTypeOK

LEMMA SchedulingInvInit == ASSUME Init PROVE SchedulingInv
<1>1. MotionInit /\ SelectionInit /\ AlertInit
  BY DEF Init, Starts
<1>2. MotionCore
  BY <1>1, MotionInitInv DEF MotionInv
<1>3. SelectionInv
  BY <1>1, SelectionInitInv
<1>4. AlertInv
  BY <1>1, AlertInvInit
<1> QED BY <1>2, <1>3, <1>4 DEF SchedulingInv, MotionCore, SelectionInv

LEMMA SchedulingInvStep == ASSUME SchedulingInv, [Next]_vars PROVE SchedulingInv'
<1>1. component' = component /\ [AlertNext]_alertVars
  BY DEF Next, vars, tasks
<1>2. AlertInv'
  BY <1>1, AlertInvStep DEF SchedulingInv
<1>3. \/ UNCHANGED <<schedulerVars, motionOnly, selectionOnly>>
      \/ component = "scheduler" /\ SchedulerNext /\ UNCHANGED <<motionOnly, selectionOnly>>
      \/ component = "motion" /\ MotionNext /\ UNCHANGED selectionOnly
      \/ component = "route" /\ SelectionNext /\ UNCHANGED motionOnly
  BY DEF Next, vars
<1>4. CASE UNCHANGED <<schedulerVars, motionOnly, selectionOnly>>
  <2>1. SchedulerInv'
    BY <1>4, NextInv DEF SchedulingInv
  <2>2. MotionTypeOK' /\ SelectionTypeOK'
    BY <1>4, OnlyScheduled DEF SchedulingInv
  <2>3. MotionCore => MotionCore'
    BY <1>4, MotionStutter DEF motionVars
  <2>4. SelectionInv => SelectionInv'
    BY <1>4, SelectionInvStep DEF selectionVars
  <2> QED BY <1>1, <1>2, <2>1, <2>2, <2>3, <2>4 DEF SchedulingInv
<1>5. CASE component = "scheduler" /\ SchedulerNext /\ UNCHANGED <<motionOnly, selectionOnly>>
  <2>1. SchedulerInv'
    BY <1>5, NextInv DEF SchedulingInv
  <2>2. MotionTypeOK' /\ SelectionTypeOK'
    BY <1>5, OnlyScheduled DEF SchedulingInv
  <2> QED BY <1>1, <1>2, <1>5, <2>1, <2>2 DEF SchedulingInv
<1>6. CASE component = "motion" /\ MotionNext /\ UNCHANGED selectionOnly
  <2>1. MotionCore'
    BY <1>6, MotionNextKeeps DEF SchedulingInv, Keeps
  <2>2. SelectionTypeOK'
    BY <1>6, OnlyScheduled DEF SchedulingInv
  <2> QED BY <1>1, <1>2, <1>6, <2>1, <2>2 DEF SchedulingInv, MotionCore
<1>7. CASE component = "route" /\ SelectionNext /\ UNCHANGED motionOnly
  <2>1. SelectionInv'
    BY <1>7, SelectionInvStep DEF SchedulingInv
  <2>2. MotionTypeOK'
    BY <1>7, OnlyScheduled DEF SchedulingInv
  <2> QED BY <1>1, <1>2, <1>7, <2>1, <2>2 DEF SchedulingInv, SelectionInv
<1> QED BY <1>3, <1>4, <1>5, <1>6, <1>7

LEMMA SchedulingInvariant == Spec => []SchedulingInv
  BY SchedulingInvInit, SchedulingInvStep, PTL DEF Spec

\* The variables of every component that MCProcedures puts together have their
\* types in every behaviour of any of them, for any constants.
THEOREM ProceduresTypeCorrect == Spec => []TypeOK
<1>1. RingInv => RingTypeOK
  BY DEF RingInv
<1>2. StatusInv => StatusTypeOK
  BY DEF StatusInv
<1>3. SensorInv => SensorTypeOK
  BY DEF SensorInv
<1>4. SchedulingInv /\ RingTypeOK /\ StatusTypeOK /\ SensorTypeOK => TypeOK
  BY DEF SchedulingInv, SchedulerInv, AlertInv, TypeOK
<1>5. Spec => []RingInv
  BY EachRunsAlone, RingInvInit, RingInvStep, PTL DEF RingSpec
<1>6. Spec => []StatusInv
  BY EachRunsAlone, StatusInvInit, StatusInvStep, PTL DEF StatusSpec
<1>7. Spec => []SensorInv
  BY EachRunsAlone, SensorInvInit, SensorInvStep, PTL DEF SensorSpec
<1> QED BY <1>1, <1>2, <1>3, <1>4, <1>5, <1>6, <1>7, SchedulingInvariant, PTL

\* Beside the other components too, the route that runs is the confirmed one.
THEOREM RouteStaysConfirmed == Spec => []RouteIsConfirmed
<1>1. SelectionInv => ConfirmedRouteRuns
  BY DEF SelectionInv, SlotsConfirmed, ConfirmedRouteRuns, Confirmed
<1>2. SchedulingInv => RouteIsConfirmed
  BY <1>1 DEF SchedulingInv, RouteIsConfirmed
<1> QED BY <1>2, SchedulingInvariant, PTL
=============================================================================
