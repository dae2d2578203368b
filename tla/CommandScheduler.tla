-------------------------- MODULE CommandScheduler --------------------------
(***************************************************************************)
(* StaticScheduler and the commands it runs: single commands and the fixed *)
(* groups (sequence, parallel, race, deadline, conditional, timeout).      *)
(*                                                                         *)
(* A scheduled command holds a slot and a lease on the subsystems it       *)
(* requires.  The control task makes one call after another: schedule,     *)
(* tick, cancel, cancelAll, under a mode snapshot the environment moves    *)
(* from epoch to epoch.  Every call is one step; what the execute() of a   *)
(* leaf command answers is chosen freely.                                  *)
(*                                                                         *)
(* A slot that is not active is NoOwner.  The context's header carries the *)
(* epoch of its mode snapshot, as the control cycle builds it.             *)
(***************************************************************************)
EXTENDS Integers, Sequences

CONSTANTS
    Leaf,           \* the commands that do something
    Top,            \* the commands that are scheduled
    Kind,           \* what each of Top is
    Children,       \* the leaves of each of Top, in order (a single's is itself)
    Deadline,       \* deadline_index_ of the deadline groups
    Requires,       \* subsystems each leaf requires
    AllowedIn,      \* modes each leaf is allowed in
    Interruptible,  \* leaves that may be interrupted
    Known,          \* subsystems the scheduler knows
    Capacity,       \* slots
    LeaseModulus,   \* lease generations wrap around at 2^32 in the code
    MaxEpoch        \* bound of the model: epochs after which no new one opens

Modes == {"Disabled", "AutonomousInterface", "Test"}
Kinds == {"single", "sequence", "parallel", "race", "deadline", "conditional", "timeout"}
Outcomes == {"Running", "Finished", "Failed", "TimedOut"}

LeavesOf == [c \in Top |-> {Children[c][k] : k \in 1..Len(Children[c])}]

\* A leaf belongs to one command: the program hands no command to two owners.
ASSUME SchedulerAssumption ==
    /\ Kind \in [Top -> Kinds]
    /\ \A c \in Top : /\ Children[c] \in Seq(Leaf) /\ Len(Children[c]) > 0
                      /\ Kind[c] \in {"single", "timeout"} => Len(Children[c]) = 1
                      /\ Kind[c] = "conditional" => Len(Children[c]) = 2
                      /\ \A j, k \in 1..Len(Children[c]) :
                            Children[c][j] = Children[c][k] => j = k
    /\ \A c, d \in Top : c # d => LeavesOf[c] \cap LeavesOf[d] = {}
    /\ Capacity \in Nat \ {0} /\ LeaseModulus \in Nat \ {0, 1} /\ MaxEpoch \in Nat

VARIABLES
    mode,        \* the ModeSnapshot of the calls' context
    slots,       \* StaticScheduler::slots_, the owner token of each
    generation,  \* ... lease_generation_
    epoch,       \* ... epoch_
    current,     \* of a sequence: current_; of a conditional: the branch taken
    phase,       \* of a leaf: its group's started and finished flags; both variables
                 \* are reset when a command leaves its slot rather than by the
                 \* initialize() that precedes their next use
    live,        \* history: initialize() calls of a leaf less its end() calls
    ran          \* history: the leaves that the last call executed

groupVars == <<current, phase, live>>
schedulerVars == <<mode, slots, generation, epoch, groupVars, ran>>

-----------------------------------------------------------------------------
\* What a command requires, where it may run, and whether it may be interrupted
\* follow from its leaves.
requirements == [c \in Top |-> UNION {Requires[l] : l \in LeavesOf[c]}]
allowedInMode(c, m) == \A l \in LeavesOf[c] : m \in AllowedIn[l]
interruptible == [c \in Top |-> LeavesOf[c] \subseteq Interruptible]

Slots   == 1..Capacity
NoOwner == [command |-> "none", lease |-> 0, epoch |-> 0]
Active  == {i \in Slots : slots[i].lease # 0}
Owner(i) == slots[i].command

\* The slots in the way of command c, and a fault: only c itself is looked for.
Conflicting_Twin(c) == {i \in Active : Owner(i) = c}
Conflicting(c) == {i \in Active : requirements[Owner(i)] \cap requirements[c] # {}}

SchedulerInit ==
    /\ mode = [mode |-> "Disabled", enabled |-> FALSE, epoch |-> 1]
    /\ slots = [i \in Slots |-> NoOwner]
    /\ generation = 0 /\ epoch = 0
    /\ current = [c \in Top |-> 1]
    /\ phase = [l \in Leaf |-> "idle"]
    /\ live = [l \in Leaf |-> 0]
    /\ ran = {}

-----------------------------------------------------------------------------
(* The commands.                                                           *)

\* parallelRequirementsDisjoint.
Disjoint == [c \in Top |->
    \A j, k \in 1..Len(Children[c]) :
        j # k => Requires[Children[c][j]] \cap Requires[Children[c][k]] = {}]

Together(c) == Kind[c] \in {"parallel", "race", "deadline"}

\* The leaves initialize() starts; pick is the branch of a conditional.
Started(c, pick) ==
    IF Together(c) THEN (IF Disjoint[c] THEN LeavesOf[c] ELSE {})
    ELSE {Children[c][pick]}

Picks(c) == IF Kind[c] = "conditional" THEN 1..2 ELSE {1}

\* The leaves end() ends: of a group, those that are started and not finished.
\* Fault: the flags are not looked at.
Ended_All(c, ph) == LeavesOf[c]
Ended(c, ph) == IF Kind[c] = "single" THEN LeavesOf[c]
                ELSE {l \in LeavesOf[c] : ph[l] = "running"}

\* execute() of a group that runs its leaves together goes through those that
\* are not finished, in order, up to the first that decides for the group.
Decides(c, k, outcome) ==
    /\ phase[Children[c][k]] = "running"
    /\ \/ Kind[c] = "race" /\ outcome[Children[c][k]] # "Running"
       \/ outcome[Children[c][k]] = "Failed"
       \/ Kind[c] = "deadline" /\ k = Deadline[c] /\ outcome[Children[c][k]] = "Finished"

Result(state, executed, ends, starts) ==
    [state |-> state, executed |-> executed, ends |-> ends, starts |-> starts]

ExecuteTogether(c, outcome) ==
    LET left     == {l \in LeavesOf[c] : phase[l] = "running"}
        deciding == {k \in 1..Len(Children[c]) : Decides(c, k, outcome)}
        first    == CHOOSE k \in deciding : \A j \in deciding : k <= j
        upTo     == {Children[c][k] : k \in 1..first} \cap left
        done     == {l \in left : outcome[l] = "Finished"}
    IN IF ~Disjoint[c] THEN Result("Failed", {}, {}, {})
       ELSE IF deciding # {}
       THEN Result(outcome[Children[c][first]], upTo, left, {})
       ELSE Result(IF Kind[c] = "parallel" /\ done = left THEN "Finished" ELSE "Running",
                   left, done, {})

\* execute() of the commands that run one leaf at a time.
ExecuteOne(c, outcome) ==
    LET leaf == Children[c][current[c]]
        more == Kind[c] = "sequence" /\ current[c] < Len(Children[c])
    IN IF outcome[leaf] = "TimedOut" THEN Result("Failed", {}, {leaf}, {})
       ELSE IF outcome[leaf] = "Running" THEN Result("Running", {leaf}, {}, {})
       ELSE IF Kind[c] = "single" THEN Result(outcome[leaf], {leaf}, {}, {})
       ELSE IF outcome[leaf] = "Finished" /\ more
       THEN Result("Running", {leaf}, {leaf}, {Children[c][current[c] + 1]})
       ELSE Result(outcome[leaf], {leaf}, {leaf}, {})

Execute(c, outcome) ==
    IF Together(c) THEN ExecuteTogether(c, outcome) ELSE ExecuteOne(c, outcome)

Count(S) == [l \in Leaf |-> IF l \in S THEN 1 ELSE 0]

-----------------------------------------------------------------------------
(* The calls.                                                              *)

\* nextLease(): zero is no lease.  Fault: zero is not passed over.
NextLease_Zero == (generation + 1) % LeaseModulus
NextLease == IF (generation + 1) % LeaseModulus = 0 THEN 1 ELSE generation + 1

\* schedule() without a reject bit: the command is known, allowed and not yet
\* scheduled, and what is in its way may be interrupted.
Accepts(c, interrupt) ==
    /\ requirements[c] \subseteq Known
    /\ mode.enabled /\ allowedInMode(c, mode.mode)
    /\ \A i \in Active : Owner(i) # c
    /\ Conflicting(c) # {} => interrupt
    /\ \A i \in Conflicting(c) : interruptible[Owner(i)]
    /\ Conflicting(c) # {} \/ Active # Slots

LeavesIn(S) == UNION {LeavesOf[Owner(i)] : i \in S}
Rewound(S)  == [c \in Top |-> IF \E i \in S : Owner(i) = c THEN 1 ELSE current[c]]

\* The conflicting commands end, the new one gets a slot, a lease and starts.
Schedule(c, interrupt, pick) ==
    /\ Accepts(c, interrupt)
    /\ \E freed \in {Conflicting(c)}, begun \in {Started(c, pick)} :
       LET free  == IF Active = Slots THEN freed ELSE Slots \ Active
           ended == UNION {Ended(Owner(i), phase) : i \in freed}
       IN \E target \in free :
          /\ \A i \in free : target <= i
          /\ slots' = [i \in Slots |->
                IF i = target THEN [command |-> c, lease |-> NextLease,
                                    epoch |-> mode.epoch]
                ELSE IF i \in freed THEN NoOwner ELSE slots[i]]
          /\ current' = [Rewound(freed) EXCEPT ![c] = pick]
          /\ phase' = [l \in Leaf |-> IF l \in begun THEN "running"
                                      ELSE IF l \in LeavesIn(freed) THEN "idle" ELSE phase[l]]
          /\ live' = [l \in Leaf |-> live[l] - Count(ended)[l] + Count(begun)[l]]
    /\ generation' = NextLease /\ epoch' = mode.epoch
    /\ ran' = {}
    /\ UNCHANGED mode

\* Fault: the lease's epoch is not compared with the snapshot's.
MayRun_AnyEpoch(i) == mode.enabled /\ allowedInMode(Owner(i), mode.mode)

\* tick() executes the command of slot i rather than ending it.
MayRun(i) ==
    /\ mode.enabled /\ allowedInMode(Owner(i), mode.mode)
    /\ slots[i].epoch = mode.epoch

\* A new epoch ends every command; otherwise each slot's command is executed or
\* ended, and ended when it has finished or failed.
Ticked(i, outcome) ==
    IF (epoch # 0 => epoch = mode.epoch) /\ MayRun(i) THEN Execute(Owner(i), outcome)
    ELSE Result("Ended", {}, {}, {})

After(ends, starts) == [l \in Leaf |-> IF l \in ends THEN "finished"
                                       ELSE IF l \in starts THEN "running" ELSE phase[l]]

Tick(outcome) ==
    \E result \in {[i \in Active |-> Ticked(i, outcome)]} :
    \E ended \in {UNION {result[i].ends : i \in Active}},
       begun \in {UNION {result[i].starts : i \in Active}},
       over  \in {{i \in Active : result[i].state # "Running"}} :
    \E swept \in {UNION {Ended(Owner(i), After(ended, begun)) : i \in over}} :
        /\ slots' = [i \in Slots |-> IF i \in over THEN NoOwner ELSE slots[i]]
        /\ phase' = [l \in Leaf |-> IF l \in LeavesIn(over) THEN "idle"
                                    ELSE After(ended, begun)[l]]
        /\ live' = [l \in Leaf |-> live[l] + Count(begun)[l] - Count(ended)[l] - Count(swept)[l]]
        /\ current' = [c \in Top |-> IF begun \cap LeavesOf[c] = {} THEN Rewound(over)[c]
                                     ELSE current[c] + 1]
        /\ ran' = UNION {result[i].executed : i \in Active}
        /\ epoch' = mode.epoch
        /\ UNCHANGED <<mode, generation>>

\* cancel() of one command, and cancelAll().
Release(ending) ==
    LET ended == UNION {Ended(Owner(i), phase) : i \in ending}
    IN /\ slots' = [i \in Slots |-> IF i \in ending THEN NoOwner ELSE slots[i]]
       /\ phase' = [l \in Leaf |-> IF l \in LeavesIn(ending) THEN "idle" ELSE phase[l]]
       /\ current' = Rewound(ending)
       /\ live' = [l \in Leaf |-> live[l] - Count(ended)[l]]
       /\ ran' = {}
       /\ UNCHANGED <<mode, generation, epoch>>

Cancel(c) == \E i \in Active : Owner(i) = c /\ Release({i})
CancelAll == Active # {} /\ Release(Active)

\* A mode transition opens an epoch that is not enabled yet; it then may be.
NewEpoch(m) ==
    /\ mode.epoch < MaxEpoch
    /\ mode' = [mode |-> m, enabled |-> FALSE, epoch |-> mode.epoch + 1]
    /\ ran' = {}
    /\ UNCHANGED <<slots, generation, epoch, groupVars>>

Enable ==
    /\ mode.mode # "Disabled" /\ ~mode.enabled
    /\ mode' = [mode EXCEPT !.enabled = TRUE]
    /\ ran' = {}
    /\ UNCHANGED <<slots, generation, epoch, groupVars>>

Running == {l \in Leaf : phase[l] = "running"}
Timed   == UNION {LeavesOf[c] : c \in {d \in Top : Kind[d] = "timeout"}}

SchedulerNext ==
    \/ \E c \in Top, interrupt \in BOOLEAN : \E pick \in Picks(c) : Schedule(c, interrupt, pick)
    \/ \E outcome \in [Running -> Outcomes] :
          (\A l \in Running \ Timed : outcome[l] # "TimedOut") /\ Tick(outcome)
    \/ \E c \in Top : Cancel(c)
    \/ CancelAll
    \/ \E m \in Modes : NewEpoch(m)
    \/ Enable

SchedulerSpec == SchedulerInit /\ [][SchedulerNext]_schedulerVars

-----------------------------------------------------------------------------
(* Properties.                                                             *)

\* Types of the variables.
SchedulerTypeOK ==
    /\ mode \in [mode : Modes, enabled : BOOLEAN, epoch : Nat]
    /\ slots \in [Slots -> [command : Top, lease : 1..(LeaseModulus - 1), epoch : Nat] \cup {NoOwner}]
    /\ generation \in 0..(LeaseModulus - 1) /\ epoch \in Nat
    /\ current \in [Top -> Nat] /\ \A c \in Top : current[c] \in 1..Len(Children[c])
    /\ phase \in [Leaf -> {"idle", "running", "finished"}]
    /\ live \in [Leaf -> Int]
    /\ ran \subseteq Leaf

\* Each initialize() of a command is answered by one end(), no more and no
\* fewer, however it comes to its end: completion, failure, interruption by
\* another command, its group, a cancel or a mode boundary.
EndedOnce ==
    /\ \A l \in Leaf : live[l] \in {0, 1}
    /\ \A l \in Leaf : live[l] = 1 =>
          \E i \in Active : l \in LeavesOf[Owner(i)] /\ phase[l] = "running"
    /\ \A i \in Active : \A l \in LeavesOf[Owner(i)] : phase[l] = "running" => live[l] = 1

\* Two commands that are running never require the same subsystem, be they two
\* scheduled ones or two of a group.
NoSharedSubsystem ==
    \A l, m \in {k \in Leaf : live[k] = 1} : l # m => Requires[l] \cap Requires[m] = {}

\* A command is executed only in an enabled mode that allows it and under the
\* lease it got in that very epoch, also where schedule() comes before the
\* first tick() of an epoch and so hides the boundary from it.
RunsInItsEpoch ==
    \A l \in ran :
        /\ mode.enabled /\ mode.mode \in AllowedIn[l]
        /\ \A i \in Active : l \in LeavesOf[Owner(i)] => slots[i].epoch = mode.epoch
=============================================================================
