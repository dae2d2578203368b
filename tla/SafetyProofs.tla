---------------------------- MODULE SafetyProofs ----------------------------
(***************************************************************************)
(* Proofs about the components that decide when the robot must not move:   *)
(* FaultManager, for any rules, MotorProtection, for any motors, and       *)
(* AutonomySupervisor, for any policy and any leases.                      *)
(***************************************************************************)
EXTENDS MotorProtection, AutonomySupervisor, TLAPS

-----------------------------------------------------------------------------
(* FaultManager.                                                           *)

\* A latched fault is active, and what a clear looks at is what was last known.
FaultInv ==
    /\ runtime \in [Faults -> Runtime]
    /\ steady \in [Faults -> [raw : BOOLEAN, since : Nat]]
    /\ latched \subseteq Faults
    /\ \A f \in latched : runtime[f].active
    /\ \A f \in Faults : runtime[f].raw = steady[f].raw
    /\ now \in Nat

\* The clock stays a number.
LEMMA EnvironmentType ==
  ASSUME now \in Nat, Environment PROVE now' \in Nat
  BY DEF Environment, Advance, NewEpoch, Enable

\* What an update makes of one fault has its type.
LEMMA RuntimeTypes ==
  ASSUME FaultInv, NEW f \in Faults
  PROVE  /\ Asserted(f) \in Runtime /\ Absent(f) \in Runtime
         /\ Asserted(f).raw = TRUE /\ Absent(f).raw = FALSE
         /\ runtime[f].active => Asserted(f).active
         /\ Enters(f) => Asserted(f).active
         /\ runtime[f].active /\ f \in latched => Absent(f).active
         /\ \A raw \in BOOLEAN : /\ Steady(f, raw).raw = raw
                                 /\ Steady(f, raw) \in [raw : BOOLEAN, since : Nat]
<1>1. runtime[f] \in Runtime /\ now \in Nat
  BY DEF FaultInv
<1>2. Enters(f) \in BOOLEAN /\ Clears(f) \in BOOLEAN
  BY DEF Enters, Clears
<1>3. f \in latched => ~Clears(f)
  BY DEF Clears
<1> DEFINE a == Asserted(f)
           b == Absent(f)
<1>4. /\ a.raw = TRUE /\ a.active = (runtime[f].active \/ Enters(f))
      /\ a \in Runtime
  <2>1. a = [runtime[f] EXCEPT !.raw = TRUE, !.clearing = FALSE,
                !.active = runtime[f].active \/ Enters(f),
                !.entering = IF runtime[f].active THEN runtime[f].entering ELSE ~Enters(f),
                !.enterSince = IF runtime[f].active \/ runtime[f].entering
                               THEN runtime[f].enterSince ELSE now]
    BY DEF Asserted
  <2>2. /\ (runtime[f].active \/ Enters(f)) \in BOOLEAN
        /\ (IF runtime[f].active THEN runtime[f].entering ELSE ~Enters(f)) \in BOOLEAN
        /\ (IF runtime[f].active \/ runtime[f].entering
            THEN runtime[f].enterSince ELSE now) \in Nat
    BY <1>1, <1>2 DEF Runtime
  <2> QED BY <1>1, <2>1, <2>2 DEF Runtime
<1>5. /\ b.raw = FALSE /\ b.active = (runtime[f].active /\ ~Clears(f))
      /\ b \in Runtime
  <2>1. b = [runtime[f] EXCEPT !.raw = FALSE, !.entering = FALSE,
                !.active = runtime[f].active /\ ~Clears(f),
                !.clearing = IF runtime[f].active /\ f \in latched THEN runtime[f].clearing
                             ELSE runtime[f].active /\ ~Clears(f),
                !.clearSince = IF runtime[f].active /\ f \notin latched /\ ~runtime[f].clearing
                               THEN now ELSE runtime[f].clearSince]
    BY DEF Absent
  <2>2. /\ (runtime[f].active /\ ~Clears(f)) \in BOOLEAN
        /\ (IF runtime[f].active /\ f \in latched THEN runtime[f].clearing
            ELSE runtime[f].active /\ ~Clears(f)) \in BOOLEAN
        /\ (IF runtime[f].active /\ f \notin latched /\ ~runtime[f].clearing
            THEN now ELSE runtime[f].clearSince) \in Nat
    BY <1>1, <1>2 DEF Runtime
  <2> QED BY <1>1, <2>1, <2>2 DEF Runtime
<1>6. \A raw \in BOOLEAN : /\ Steady(f, raw).raw = raw
                           /\ Steady(f, raw) \in [raw : BOOLEAN, since : Nat]
  BY <1>1 DEF Steady, FaultInv
<1> QED BY <1>3, <1>4, <1>5, <1>6

\* It holds at the start.
LEMMA FaultInvInit == FaultInit => FaultInv
<1> SUFFICES ASSUME FaultInit PROVE FaultInv
  OBVIOUS
<1>1. /\ \A f \in Faults : runtime[f] =
            [raw |-> FALSE, active |-> FALSE, entering |-> FALSE, clearing |-> FALSE,
             enterSince |-> 0, clearSince |-> 0]
      /\ \A f \in Faults : steady[f] = [raw |-> FALSE, since |-> 0]
      /\ latched = {} /\ now = 0
  BY DEF FaultInit, EnvironmentInit
<1>2. runtime \in [Faults -> Runtime]
  BY <1>1 DEF FaultInit, Runtime
<1>3. steady \in [Faults -> [raw : BOOLEAN, since : Nat]]
  BY <1>1 DEF FaultInit
<1>4. \A f \in Faults : runtime[f].raw = FALSE /\ steady[f].raw = FALSE
  BY <1>1
<1>5. \A f \in Faults : runtime[f].raw = steady[f].raw
  BY <1>4
<1> QED BY <1>1, <1>2, <1>3, <1>5 DEF FaultInv

\* Preserved by an update, whatever is known.
LEMMA UpdateKeeps ==
  ASSUME FaultInv, NEW known \in SUBSET Faults, NEW asserted \in SUBSET Faults,
         Update(known, asserted)
  PROVE  FaultInv'
<1>1. /\ asserted \subseteq known
      /\ runtime' = [f \in Faults |-> IF f \notin known THEN runtime[f]
                                      ELSE IF f \in asserted THEN Asserted(f) ELSE Absent(f)]
      /\ latched' = latched \cup {f \in asserted : Enters(f) /\ Rules[f].latched}
      /\ steady' = [f \in Faults |-> IF f \notin known THEN steady[f]
                                     ELSE IF f \in asserted THEN Steady(f, TRUE)
                                     ELSE Steady(f, FALSE)]
      /\ now' = now
  BY DEF Update, environment
<1>2. /\ runtime \in [Faults -> Runtime] /\ latched \subseteq Faults /\ now \in Nat
      /\ steady \in [Faults -> [raw : BOOLEAN, since : Nat]]
      /\ \A f \in latched : runtime[f].active
      /\ \A f \in Faults : runtime[f].raw = steady[f].raw
  BY DEF FaultInv
<1>3. runtime' \in [Faults -> Runtime]
  BY <1>1, <1>2, RuntimeTypes
<1>4. steady' \in [Faults -> [raw : BOOLEAN, since : Nat]]
  BY <1>1, <1>2, RuntimeTypes
<1>5. latched' \subseteq Faults
  BY <1>1, <1>2
<1>6. ASSUME NEW f \in latched' PROVE runtime'[f].active
  <2>1. f \in Faults
    BY <1>5
  <2>2. CASE f \in asserted
    <3>1. runtime'[f] = Asserted(f)
      BY <1>1, <2>1, <2>2
    <3>2. runtime[f].active \/ Enters(f)
      BY <1>1, <1>2, <1>6
    <3> QED BY <2>1, <3>1, <3>2, RuntimeTypes
  <2>3. CASE f \notin asserted
    <3>1. f \in latched /\ runtime[f].active
      BY <1>1, <1>2, <1>6, <2>3
    <3>2. runtime'[f] = runtime[f] \/ runtime'[f] = Absent(f)
      BY <1>1, <2>1, <2>3
    <3> QED BY <2>1, <3>1, <3>2, RuntimeTypes
  <2> QED BY <2>2, <2>3
<1>7. ASSUME NEW f \in Faults PROVE runtime'[f].raw = steady'[f].raw
  <2>1. CASE f \notin known
    BY <1>1, <1>2, <2>1
  <2>2. CASE f \in known
    <3>1. CASE f \in asserted
      <4>1. runtime'[f] = Asserted(f) /\ steady'[f] = Steady(f, TRUE)
        BY <1>1, <2>2, <3>1
      <4> QED BY <4>1, RuntimeTypes
    <3>2. CASE f \notin asserted
      <4>1. runtime'[f] = Absent(f) /\ steady'[f] = Steady(f, FALSE)
        BY <1>1, <2>2, <3>2
      <4> QED BY <4>1, RuntimeTypes
    <3> QED BY <3>1, <3>2
  <2> QED BY <2>1, <2>2
<1> QED BY <1>1, <1>2, <1>3, <1>4, <1>5, <1>6, <1>7 DEF FaultInv

\* Preserved when latches are cleared.
LEMMA ClearKeeps ==
  ASSUME FaultInv, NEW requested \in SUBSET Faults, ClearLatched(requested)
  PROVE  FaultInv'
<1>1. /\ latched' = latched \ Clearable(requested)
      /\ runtime' = [f \in Faults |->
            IF f \in Clearable(requested)
            THEN [runtime[f] EXCEPT !.active = FALSE, !.entering = FALSE, !.clearing = FALSE]
            ELSE runtime[f]]
      /\ now' = now /\ steady' = steady
  BY DEF ClearLatched, environment
<1>2. \A f \in Faults : runtime[f] \in Runtime
  BY DEF FaultInv
<1>3. \A f \in Faults : runtime'[f] \in Runtime /\ runtime'[f].raw = runtime[f].raw
  BY <1>1, <1>2 DEF Runtime
<1>4. runtime' \in [Faults -> Runtime]
  BY <1>1, <1>3
<1>5. \A f \in latched' : runtime'[f].active
  BY <1>1 DEF FaultInv
<1> QED BY <1>1, <1>3, <1>4, <1>5 DEF FaultInv

\* And by every step.
LEMMA FaultInvStep == FaultInv /\ [FaultNext]_faultVars => FaultInv'
<1> SUFFICES ASSUME FaultInv, [FaultNext]_faultVars PROVE FaultInv'
  OBVIOUS
<1>1. CASE Environment /\ UNCHANGED <<runtime, latched, steady>>
  BY <1>1, EnvironmentType DEF FaultInv
<1>2. CASE UNCHANGED faultVars
  BY <1>2 DEF FaultInv, faultVars, environment
<1> QED BY <1>1, <1>2, UpdateKeeps, ClearKeeps DEF FaultNext

\* The inductive invariant.
LEMMA FaultInvariant == FaultSpec => []FaultInv
  BY FaultInvInit, FaultInvStep, PTL DEF FaultSpec

\* A latch is cleared only where it may be, and stops the robot until then.
THEOREM LatchesHold == FaultSpec => LatchHolds
<1> DEFINE Stops   == (\E f \in latched : Rules[f].severity = "LatchedStop") => StopRequired
           Cleared == \A f \in latched \ latched' :
                         ~steady[f].raw /\ ~mode.enabled /\ mode.mode = "Disabled"
<1>1. FaultInv => Stops
  BY DEF FaultInv, StopRequired
<1>2. FaultInv /\ [FaultNext]_faultVars => [Cleared]_faultVars
  <2> SUFFICES ASSUME FaultInv, FaultNext PROVE Cleared
    OBVIOUS
  <2>1. CASE Environment /\ UNCHANGED <<runtime, latched, steady>>
    BY <2>1
  <2>2. ASSUME NEW known \in SUBSET Faults, NEW asserted \in SUBSET Faults,
               Update(known, asserted)
        PROVE  Cleared
    BY <2>2 DEF Update
  <2>3. ASSUME NEW requested \in SUBSET Faults, ClearLatched(requested)
        PROVE  Cleared
    BY <2>3 DEF ClearLatched, Clearable, FaultInv
  <2> QED BY <2>1, <2>2, <2>3 DEF FaultNext
<1> HIDE DEF Stops, Cleared
<1>3. FaultSpec => []Stops /\ [][Cleared]_faultVars
  BY FaultInvariant, <1>1, <1>2, PTL DEF FaultSpec
<1> QED BY <1>3 DEF LatchHolds, Stops, Cleared

\* The timers of a fault start no earlier than what is known of it has been the same:
\* one to enter runs only while it is there, one to clear only while it is absent.
TimerInv ==
    \A f \in Faults :
        /\ steady[f].since <= now
        /\ runtime[f].entering => runtime[f].raw /\ steady[f].since <= runtime[f].enterSince
        /\ runtime[f].clearing => ~runtime[f].raw /\ steady[f].since <= runtime[f].clearSince

\* The fields of a fault after an update that knows of it.
LEMMA AfterUpdate ==
  ASSUME FaultInv, NEW f \in Faults
  PROVE  /\ Asserted(f).active = (runtime[f].active \/ Enters(f))
         /\ Asserted(f).clearing = FALSE
         /\ Asserted(f).entering = (IF runtime[f].active THEN runtime[f].entering ELSE ~Enters(f))
         /\ Asserted(f).enterSince = (IF runtime[f].active \/ runtime[f].entering
                                      THEN runtime[f].enterSince ELSE now)
         /\ Absent(f).active = (runtime[f].active /\ ~Clears(f))
         /\ Absent(f).entering = FALSE
         /\ Absent(f).clearing = (IF runtime[f].active /\ f \in latched THEN runtime[f].clearing
                                  ELSE runtime[f].active /\ ~Clears(f))
         /\ Absent(f).clearSince = (IF runtime[f].active /\ f \notin latched /\ ~runtime[f].clearing
                                    THEN now ELSE runtime[f].clearSince)
  BY DEF FaultInv, Runtime, Asserted, Absent

\* What an update makes of the timers of one fault.
LEMMA UpdateKeepsTimer ==
  ASSUME FaultInv, TimerInv, NEW f \in Faults,
         NEW known \in SUBSET Faults, NEW asserted \in SUBSET Faults, Update(known, asserted)
  PROVE  /\ steady'[f].since <= now
         /\ runtime'[f].entering => runtime'[f].raw /\ steady'[f].since <= runtime'[f].enterSince
         /\ runtime'[f].clearing => ~runtime'[f].raw /\ steady'[f].since <= runtime'[f].clearSince
         /\ ~runtime[f].active /\ runtime'[f].active =>
               steady'[f].raw /\ now - steady'[f].since >= Rules[f].enter
         /\ runtime[f].active /\ ~runtime'[f].active =>
               /\ f \notin latched /\ f \in known \ asserted
               /\ ~steady'[f].raw /\ now - steady'[f].since >= Rules[f].clear
<1>1. /\ runtime'[f] = IF f \notin known THEN runtime[f]
                       ELSE IF f \in asserted THEN Asserted(f) ELSE Absent(f)
      /\ steady'[f] = IF f \notin known THEN steady[f]
                      ELSE IF f \in asserted THEN Steady(f, TRUE) ELSE Steady(f, FALSE)
      /\ asserted \subseteq known
  BY DEF Update
<1>2. /\ now \in Nat /\ steady[f].since \in Nat /\ steady[f].since <= now
      /\ runtime[f].enterSince \in Nat /\ runtime[f].clearSince \in Nat
      /\ runtime[f].entering => runtime[f].raw /\ steady[f].since <= runtime[f].enterSince
      /\ runtime[f].clearing => ~runtime[f].raw /\ steady[f].since <= runtime[f].clearSince
      /\ runtime[f].raw = steady[f].raw
      /\ Rules[f].enter \in Nat /\ Rules[f].clear \in Nat
  BY FaultAssumption DEF FaultInv, TimerInv, Runtime
<1>3. CASE f \notin known
  BY <1>1, <1>2, <1>3
<1>4. CASE f \in asserted
  <2>1. runtime'[f] = Asserted(f) /\ steady'[f] = Steady(f, TRUE)
    BY <1>1, <1>4
  <2>2. /\ steady'[f].raw /\ steady'[f].since \in Nat /\ steady'[f].since <= now
        /\ runtime[f].raw => steady'[f].since = steady[f].since
    BY <1>2, <2>1 DEF Steady
  <2>3. runtime'[f].raw /\ ~runtime'[f].clearing
    BY <2>1, AfterUpdate, RuntimeTypes
  <2>4. ASSUME runtime'[f].entering PROVE steady'[f].since <= runtime'[f].enterSince
    <3>1. CASE runtime[f].entering
      <4>1. runtime'[f].enterSince = runtime[f].enterSince
        BY <2>1, <3>1, AfterUpdate
      <4> QED BY <1>2, <2>2, <3>1, <4>1
    <3>2. CASE ~runtime[f].entering
      <4>1. ~runtime[f].active
        BY <2>1, <2>4, <3>2, AfterUpdate
      <4>2. runtime'[f].enterSince = now
        BY <2>1, <3>2, <4>1, AfterUpdate
      <4> QED BY <2>2, <4>2
    <3> QED BY <3>1, <3>2
  <2>5. ASSUME ~runtime[f].active, runtime'[f].active
        PROVE  now - steady'[f].since >= Rules[f].enter
    <3>1. now - (IF runtime[f].entering THEN runtime[f].enterSince ELSE now) >= Rules[f].enter
      BY <2>1, <2>5, AfterUpdate DEF Enters
    <3>2. CASE runtime[f].entering
      BY <1>2, <2>2, <3>1, <3>2
    <3>3. CASE ~runtime[f].entering
      BY <1>2, <2>2, <3>1, <3>3
    <3> QED BY <3>2, <3>3
  <2>6. runtime[f].active => runtime'[f].active
    BY <2>1, AfterUpdate
  <2> QED BY <2>2, <2>3, <2>4, <2>5, <2>6
<1>5. CASE f \in known \ asserted
  <2>1. runtime'[f] = Absent(f) /\ steady'[f] = Steady(f, FALSE)
    BY <1>1, <1>5
  <2>2. /\ ~steady'[f].raw /\ steady'[f].since \in Nat /\ steady'[f].since <= now
        /\ ~runtime[f].raw => steady'[f].since = steady[f].since
    BY <1>2, <2>1 DEF Steady
  <2>3. ~runtime'[f].raw /\ ~runtime'[f].entering
    BY <2>1, AfterUpdate, RuntimeTypes
  <2>4. ASSUME runtime'[f].clearing PROVE steady'[f].since <= runtime'[f].clearSince
    <3>1. runtime[f].active
      <4>1. CASE runtime[f].active
        BY <4>1
      <4>2. CASE ~runtime[f].active
        BY <2>1, <2>4, <4>2, AfterUpdate
      <4> QED BY <4>1, <4>2
    <3>2. CASE runtime[f].clearing
      <4>1. runtime'[f].clearSince = runtime[f].clearSince
        BY <2>1, <3>2, AfterUpdate
      <4> QED BY <1>2, <2>2, <3>2, <4>1
    <3>3. CASE ~runtime[f].clearing
      <4>1. f \notin latched
        BY <2>1, <2>4, <3>1, <3>3, AfterUpdate
      <4>2. runtime'[f].clearSince = now
        BY <2>1, <3>1, <3>3, <4>1, AfterUpdate
      <4> QED BY <2>2, <4>2
    <3> QED BY <3>2, <3>3
  <2>5. ASSUME runtime[f].active, ~runtime'[f].active
        PROVE  f \notin latched /\ now - steady'[f].since >= Rules[f].clear
    <3>1. /\ f \notin latched
          /\ now - (IF runtime[f].clearing THEN runtime[f].clearSince ELSE now) >= Rules[f].clear
      BY <2>1, <2>5, AfterUpdate DEF Clears
    <3>2. CASE runtime[f].clearing
      BY <1>2, <2>2, <3>1, <3>2
    <3>3. CASE ~runtime[f].clearing
      BY <1>2, <2>2, <3>1, <3>3
    <3> QED BY <3>1, <3>2, <3>3
  <2>6. runtime'[f].active => runtime[f].active
    BY <2>1, AfterUpdate
  <2> QED BY <1>5, <2>2, <2>3, <2>4, <2>5, <2>6
<1> QED BY <1>1, <1>3, <1>4, <1>5

\* A clear touches latches only, and leaves no timer running in them.
LEMMA ClearKeepsTimer ==
  ASSUME FaultInv, TimerInv, NEW requested \in SUBSET Faults, ClearLatched(requested)
  PROVE  /\ TimerInv'
         /\ \A f \in Faults : /\ runtime'[f].raw = runtime[f].raw
                              /\ runtime'[f].active => runtime[f].active
                              /\ runtime[f].active /\ ~runtime'[f].active =>
                                    f \in latched /\ ~runtime[f].raw
<1>1. /\ runtime' = [f \in Faults |->
            IF f \in Clearable(requested)
            THEN [runtime[f] EXCEPT !.active = FALSE, !.entering = FALSE, !.clearing = FALSE]
            ELSE runtime[f]]
      /\ now' = now /\ steady' = steady
  BY DEF ClearLatched, environment
<1>2. \A f \in Clearable(requested) : f \in latched /\ ~runtime[f].raw
  BY DEF Clearable
<1>3. \A f \in Faults : runtime[f] \in Runtime
  BY DEF FaultInv
<1>4. ASSUME NEW f \in Faults
      PROVE  /\ runtime'[f].raw = runtime[f].raw
             /\ runtime'[f].enterSince = runtime[f].enterSince
             /\ runtime'[f].clearSince = runtime[f].clearSince
             /\ f \in Clearable(requested) =>
                   ~runtime'[f].active /\ ~runtime'[f].entering /\ ~runtime'[f].clearing
             /\ f \notin Clearable(requested) => runtime'[f] = runtime[f]
  BY <1>1, <1>3 DEF Runtime
<1>5. TimerInv'
  BY <1>1, <1>4 DEF TimerInv
<1> QED BY <1>2, <1>4, <1>5

\* The timers keep to what is known of their fault.
LEMMA TimerInvInit == FaultInit => TimerInv
  BY DEF FaultInit, EnvironmentInit, TimerInv

LEMMA TimerInvStep == FaultInv /\ TimerInv /\ [FaultNext]_faultVars => TimerInv'
<1> SUFFICES ASSUME FaultInv, TimerInv, [FaultNext]_faultVars PROVE TimerInv'
  OBVIOUS
<1>1. CASE Environment /\ UNCHANGED <<runtime, latched, steady>>
  <2>1. now' \in Nat /\ now <= now' /\ now \in Nat
    BY <1>1 DEF Environment, Advance, NewEpoch, Enable, FaultInv
  <2> QED BY <1>1, <2>1 DEF TimerInv, FaultInv
<1>2. CASE UNCHANGED faultVars
  BY <1>2 DEF TimerInv, faultVars, environment
<1>3. ASSUME NEW known \in SUBSET Faults, NEW asserted \in SUBSET Faults,
             Update(known, asserted)
      PROVE  TimerInv'
  <2>1. now' = now
    BY <1>3 DEF Update, environment
  <2> QED BY <1>3, <2>1, UpdateKeepsTimer DEF TimerInv
<1> QED BY <1>1, <1>2, <1>3, ClearKeepsTimer DEF FaultNext

LEMMA TimerInvariant == FaultSpec => []TimerInv
  BY FaultInvariant, TimerInvInit, TimerInvStep, PTL DEF FaultSpec

\* A fault enters and clears only after its delay, for any delays and any evidence,
\* with gaps in it or not.
THEOREM FaultsAreDebounced == FaultSpec => Debounced
<1> DEFINE Waited ==
      \A f \in Faults :
          /\ ~runtime[f].active /\ runtime'[f].active =>
                steady'[f].raw /\ now - steady'[f].since >= Rules[f].enter
          /\ runtime[f].active /\ ~runtime'[f].active /\ f \notin latched =>
                ~steady'[f].raw /\ now - steady'[f].since >= Rules[f].clear
<1>1. FaultInv /\ TimerInv /\ [FaultNext]_faultVars => [Waited]_faultVars
  <2> SUFFICES ASSUME FaultInv, TimerInv, FaultNext PROVE Waited
    OBVIOUS
  <2>1. CASE Environment /\ UNCHANGED <<runtime, latched, steady>>
    BY <2>1
  <2>2. ASSUME NEW known \in SUBSET Faults, NEW asserted \in SUBSET Faults,
               Update(known, asserted)
        PROVE  Waited
    BY <2>2, UpdateKeepsTimer
  <2>3. ASSUME NEW requested \in SUBSET Faults, ClearLatched(requested)
        PROVE  Waited
    BY <2>3, ClearKeepsTimer
  <2> QED BY <2>1, <2>2, <2>3 DEF FaultNext
<1> HIDE DEF Waited
<1>2. FaultSpec => [][Waited]_faultVars
  BY FaultInvariant, TimerInvariant, <1>1, PTL DEF FaultSpec
<1> QED BY <1>2 DEF Debounced, Waited

-----------------------------------------------------------------------------
(* MotorProtection, which is a fault manager with evidence of its own.     *)

\* What a monitor asserts is what it watches, and that has a rule.
LEMMA EvidenceIsOfFaults ==
  ASSUME NEW readings
  PROVE  /\ UNION {MotorAfter(m, readings[m]) : m \in Motor} \subseteq Watched
         /\ AllKnown(readings) \subseteq Watched
         /\ Watched \subseteq Faults
  BY MotorAssumption DEF MotorAfter, AllKnown

\* Every step of the monitor is one of the fault manager's.
LEMMA MonitorSteps == [MotorNext]_motorVars => [FaultNext]_faultVars
<1> SUFFICES ASSUME MotorNext PROVE FaultNext
  BY DEF motorVars
<1>1. ASSUME NEW readings \in Readings, Monitor(readings) PROVE FaultNext
  <2> DEFINE asserted == UNION {MotorAfter(m, readings[m]) : m \in Motor}
             known == asserted \cup AllKnown(readings)
  <2>1. Update(known, asserted)
    BY <1>1 DEF Monitor
  <2>2. known \in SUBSET Faults /\ asserted \in SUBSET Faults
    BY EvidenceIsOfFaults
  <2> HIDE DEF known, asserted
  <2> QED BY <2>1, <2>2 DEF FaultNext
<1>2. CASE BadCommand
  BY <1>2, MotorAssumption DEF BadCommand, FaultNext
<1>3. ASSUME NEW requested \in SUBSET Watched, ClearLatched(requested) PROVE FaultNext
  BY <1>3, MotorAssumption DEF FaultNext
<1> QED BY <1>1, <1>2, <1>3 DEF MotorNext, FaultNext

\* The monitor may rely on all that is proved of the fault manager.
THEOREM MonitorImplementsFaults == MotorSpec => FaultSpec
<1>1. MotorInit => FaultInit
  BY DEF MotorInit
<1> QED BY <1>1, MonitorSteps, PTL DEF MotorSpec, FaultSpec

HeardType ==
    /\ state \in [Motor -> SUBSET Watched]
    /\ heard \in [Motor -> [Watched -> [word : {"nothing", "trouble", "calm"}, since : Nat]]]

\* A motor is in the faults its own readings last told of, and while an active fault
\* is known to be absent all of them have been calm since before it was.
HeardInv ==
    /\ HeardType
    /\ \A m \in Motor, f \in Watched :
          /\ heard[m][f].word = "trouble" <=> f \in state[m]
          /\ heard[m][f].since <= now
          /\ runtime[f].active /\ ~runtime[f].raw =>
                heard[m][f].word = "calm" /\ heard[m][f].since <= steady[f].since
    /\ TroubleStays

\* What a reading makes of the history of one motor and one fault.
LEMMA HeardAfter ==
  ASSUME HeardInv, now \in Nat, NEW m \in Motor, NEW f \in Watched,
         NEW r \in [Watched -> {"unknown", "enter", "hold", "exit"}]
  PROVE  /\ Heard(m, f, r[f]) \in [word : {"nothing", "trouble", "calm"}, since : Nat]
         /\ Heard(m, f, r[f]).since <= now
         /\ Heard(m, f, r[f]).word = "trouble" <=> f \in MotorAfter(m, r)
         /\ r[f] # "unknown" /\ f \notin MotorAfter(m, r) => Heard(m, f, r[f]).word = "calm"
         /\ heard[m][f].word = "calm" /\ f \notin MotorAfter(m, r) =>
               Heard(m, f, r[f]) = heard[m][f]
<1> DEFINE old == heard[m][f]
<1>1. /\ old \in [word : {"nothing", "trouble", "calm"}, since : Nat]
      /\ old.since <= now
      /\ old.word = "trouble" <=> f \in state[m]
  BY DEF HeardInv, HeardType
<1>2. r[f] \in {"unknown", "enter", "hold", "exit"}
  OBVIOUS
<1>3. f \in MotorAfter(m, r) <=> (r[f] = "enter" \/ (f \in state[m] /\ r[f] # "exit"))
  BY DEF MotorAfter
<1>4. CASE r[f] = "unknown"
  <2>1. Heard(m, f, r[f]) = old
    BY <1>4 DEF Heard
  <2> QED BY <1>1, <1>3, <1>4, <2>1
<1>5. CASE r[f] = "enter"
  <2>1. Heard(m, f, r[f]) = IF "trouble" = old.word THEN old
                            ELSE [word |-> "trouble", since |-> now]
    BY <1>5 DEF Heard
  <2> QED BY <1>1, <1>3, <1>5, <2>1
<1>6. CASE r[f] = "exit"
  <2>1. Heard(m, f, r[f]) = IF "calm" = old.word THEN old ELSE [word |-> "calm", since |-> now]
    BY <1>6 DEF Heard
  <2> QED BY <1>1, <1>3, <1>6, <2>1
<1>7. CASE r[f] = "hold"
  <2>1. Heard(m, f, r[f]) = IF old.word = "nothing" THEN [word |-> "calm", since |-> now] ELSE old
    BY <1>1, <1>7 DEF Heard
  <2> QED BY <1>1, <1>3, <1>7, <2>1
<1> QED BY <1>2, <1>4, <1>5, <1>6, <1>7

\* An update with the evidence of a frame: what is asserted, what stays so, and since
\* when everybody has been calm about what is known to be absent.
LEMMA MonitorKeeps ==
  ASSUME FaultInv, TimerInv, HeardInv, NEW readings \in Readings, Monitor(readings)
  PROVE  HeardInv' /\ CalmEnds
<1> DEFINE asserted == UNION {MotorAfter(m, readings[m]) : m \in Motor}
           known == asserted \cup AllKnown(readings)
<1>1. /\ Update(known, asserted) /\ now' = now /\ now \in Nat
      /\ known \in SUBSET Faults /\ asserted \in SUBSET Faults /\ Watched \subseteq Faults
  BY EvidenceIsOfFaults DEF Monitor, Update, environment, FaultInv
<1>2. \A m \in Motor : /\ readings[m] \in [Watched -> {"unknown", "enter", "hold", "exit"}]
                       /\ state'[m] = MotorAfter(m, readings[m])
                       /\ MotorAfter(m, readings[m]) \subseteq asserted
                       /\ MotorAfter(m, readings[m]) \subseteq Watched
                       /\ \A f \in Watched : heard'[m][f] = Heard(m, f, readings[m][f])
  BY DEF Monitor, Readings, MotorAfter
<1>3. HeardType'
  <2>1. \A m \in Motor, f \in Watched :
           Heard(m, f, readings[m][f]) \in [word : {"nothing", "trouble", "calm"}, since : Nat]
    BY <1>1, <1>2, HeardAfter
  <2> QED BY <1>2, <2>1 DEF HeardType, Monitor
<1>4. \A f \in asserted : f \in Faults /\ runtime'[f].raw
  <2>1. \A f \in asserted : runtime'[f] = Asserted(f)
    BY <1>1 DEF Update
  <2> QED BY <1>1, <2>1, RuntimeTypes
<1>5. TroubleStays'
  <2> SUFFICES ASSUME NEW m \in Motor, NEW f \in Watched, heard'[m][f].word = "trouble"
               PROVE  runtime'[f].raw
    BY DEF TroubleStays
  <2>1. f \in MotorAfter(m, readings[m])
    BY <1>1, <1>2, HeardAfter
  <2> QED BY <1>2, <1>4, <2>1
<1>6. ASSUME NEW m \in Motor, NEW f \in Watched, runtime[f].active, f \notin asserted,
             f \in known \/ ~runtime[f].raw
      PROVE  heard'[m][f].word = "calm" /\ heard'[m][f].since <= steady'[f].since
  <2>1. f \notin MotorAfter(m, readings[m]) /\ heard'[m][f] = Heard(m, f, readings[m][f])
    BY <1>2, <1>6
  <2>2. /\ runtime[f].raw = steady[f].raw /\ f \in Faults
        /\ steady'[f] = IF f \in known THEN Steady(f, FALSE) ELSE steady[f]
    BY <1>1, <1>6 DEF FaultInv, Update
  <2>3. CASE ~runtime[f].raw
    <3>1. heard[m][f].word = "calm" /\ heard[m][f].since <= steady[f].since
      BY <1>6, <2>3 DEF HeardInv
    <3>2. heard'[m][f] = heard[m][f]
      BY <1>1, <1>2, <2>1, <3>1, HeardAfter
    <3>3. steady'[f] = steady[f]
      BY <2>2, <2>3 DEF Steady
    <3> QED BY <3>1, <3>2, <3>3
  <2>4. CASE runtime[f].raw
    <3>1. readings[m][f] # "unknown" /\ steady'[f].since = now
      BY <1>6, <2>2, <2>4 DEF AllKnown, Steady
    <3> QED BY <1>1, <1>2, <2>1, <3>1, HeardAfter
  <2> QED BY <2>3, <2>4
<1>7. ASSUME NEW m \in Motor, NEW f \in Watched
      PROVE  /\ heard'[m][f].word = "trouble" <=> f \in state'[m]
             /\ heard'[m][f].since <= now'
             /\ runtime'[f].active /\ ~runtime'[f].raw =>
                   heard'[m][f].word = "calm" /\ heard'[m][f].since <= steady'[f].since
  <2>1. /\ heard'[m][f].word = "trouble" <=> f \in state'[m]
        /\ heard'[m][f].since <= now'
    BY <1>1, <1>2, HeardAfter
  <2>2. ASSUME runtime'[f].active, ~runtime'[f].raw
        PROVE  heard'[m][f].word = "calm" /\ heard'[m][f].since <= steady'[f].since
    <3>1. f \notin asserted
      BY <1>4, <2>2
    <3>2. /\ f \in Faults
          /\ runtime'[f] = IF f \in known THEN Absent(f) ELSE runtime[f]
      BY <1>1, <3>1 DEF Update
    <3>3. runtime[f].active /\ (f \in known \/ ~runtime[f].raw)
      BY <2>2, <3>2, AfterUpdate
    <3> QED BY <1>6, <3>1, <3>3
  <2> QED BY <2>1, <2>2
<1>8. CalmEnds
  <2> SUFFICES ASSUME NEW m \in Motor, NEW f \in Watched, runtime[f].active, ~runtime'[f].active
               PROVE  /\ heard'[m][f].word = "calm"
                      /\ f \notin latched => now - heard'[m][f].since >= Rules[f].clear
    BY DEF CalmEnds
  <2>1. /\ f \in Faults /\ f \in known \ asserted
        /\ now - steady'[f].since >= Rules[f].clear
    BY <1>1, UpdateKeepsTimer
  <2>2. heard'[m][f].word = "calm" /\ heard'[m][f].since <= steady'[f].since
    BY <1>6, <2>1
  <2>3. /\ heard'[m][f].since \in Nat /\ steady'[f].since \in Nat /\ now \in Nat
        /\ Rules[f].clear \in Nat
    <3>1. steady'[f] = Steady(f, FALSE)
      BY <2>1, <1>1 DEF Update
    <3>2. steady'[f].since \in Nat
      BY <2>1, <3>1, RuntimeTypes
    <3> QED BY <1>1, <1>3, <2>1, <3>2, FaultAssumption DEF HeardType
  <2> QED BY <2>1, <2>2, <2>3
<1> QED BY <1>3, <1>5, <1>7, <1>8 DEF HeardInv

\* The other steps change nothing of what is heard.
LEMMA DeafStepsKeep ==
  ASSUME FaultInv, TimerInv, HeardInv, UNCHANGED motorOnly, now' \in Nat, now <= now',
         \A f \in Watched : /\ runtime[f].raw => runtime'[f].raw
                            /\ runtime'[f].active /\ ~runtime'[f].raw =>
                                  /\ runtime[f].active /\ ~runtime[f].raw
                                  /\ steady'[f] = steady[f]
  PROVE  HeardInv'
<1>1. now \in Nat /\ heard' = heard /\ state' = state
  BY DEF FaultInv, motorOnly
<1>2. \A m \in Motor, f \in Watched : heard[m][f].since \in Nat
  BY DEF HeardInv, HeardType
<1> QED BY <1>1, <1>2 DEF HeardInv, HeardType, TroubleStays

\* The inductive invariant, and what ends a fault.
LEMMA MotorStep ==
  ASSUME FaultInv, TimerInv, HeardInv, [MotorNext]_motorVars
  PROVE  HeardInv' /\ [CalmEnds]_motorVars
<1>1. Watched \subseteq Faults
  BY MotorAssumption
<1>2. ASSUME NEW readings \in Readings, Monitor(readings)
      PROVE  HeardInv' /\ CalmEnds
  BY <1>2, MonitorKeeps
<1>3. CASE Environment /\ UNCHANGED <<runtime, latched, steady, motorOnly>>
  <2>1. now' \in Nat /\ now <= now'
    BY <1>3 DEF Environment, Advance, NewEpoch, Enable, FaultInv
  <2>2. CalmEnds
    BY <1>3 DEF CalmEnds
  <2> QED BY <1>3, <2>1, <2>2, DeafStepsKeep
<1>4. CASE BadCommand
  <2>1. Update(Watched, Watched) /\ UNCHANGED motorOnly /\ now' = now /\ now \in Nat
    BY <1>4 DEF BadCommand, Update, environment, FaultInv
  <2>2. \A f \in Watched : runtime'[f] = Asserted(f)
    BY <1>1, <2>1 DEF Update
  <2>3. \A f \in Watched : /\ runtime'[f].raw
                           /\ runtime[f].active => runtime'[f].active
    BY <1>1, <2>2, AfterUpdate, RuntimeTypes
  <2>4. HeardInv'
    BY <2>1, <2>3, DeafStepsKeep
  <2>5. CalmEnds
    BY <2>3 DEF CalmEnds
  <2> QED BY <2>4, <2>5
<1>5. ASSUME NEW requested \in SUBSET Watched, ClearLatched(requested), UNCHANGED motorOnly
      PROVE  HeardInv' /\ CalmEnds
  <2>1. /\ requested \in SUBSET Faults /\ steady' = steady /\ now' = now /\ now \in Nat
        /\ heard' = heard
    BY <1>1, <1>5 DEF ClearLatched, environment, FaultInv, motorOnly
  <2>2. \A f \in Faults : /\ runtime'[f].raw = runtime[f].raw
                          /\ runtime'[f].active => runtime[f].active
                          /\ runtime[f].active /\ ~runtime'[f].active =>
                                f \in latched /\ ~runtime[f].raw
    BY <1>5, <2>1, ClearKeepsTimer
  <2>3. HeardInv'
    BY <1>1, <1>5, <2>1, <2>2, DeafStepsKeep
  <2>4. CalmEnds
    BY <1>1, <2>1, <2>2 DEF CalmEnds, HeardInv
  <2> QED BY <2>3, <2>4
<1>6. CASE UNCHANGED motorVars
  <2>1. UNCHANGED <<now, runtime, steady, motorOnly>> /\ now \in Nat
    BY <1>6 DEF motorVars, faultVars, environment, FaultInv
  <2> QED BY <1>6, <2>1, DeafStepsKeep
<1> QED BY <1>2, <1>3, <1>4, <1>5, <1>6 DEF MotorNext

\* It holds at the start.
LEMMA HeardInvInit == MotorInit => HeardInv
<1> SUFFICES ASSUME MotorInit PROVE HeardInv
  OBVIOUS
<1>1. /\ now = 0 /\ \A f \in Faults : ~runtime[f].active
      /\ \A m \in Motor, f \in Watched : /\ heard[m][f].word = "nothing" /\ heard[m][f].since = 0
                                        /\ f \notin state[m]
  BY DEF MotorInit, FaultInit, EnvironmentInit
<1>2. HeardType
  BY DEF MotorInit, HeardType
<1> QED BY <1>1, <1>2, MotorAssumption DEF HeardInv, TroubleStays

\* The invariant of all of it; what a robot reports stays what it is.
MotorInv == FaultInv /\ TimerInv /\ HeardInv /\ reported \in Reports

LEMMA MotorInvInit == MotorInit => MotorInv
  BY FaultInvInit, TimerInvInit, HeardInvInit DEF MotorInit, MotorInv

LEMMA MotorInvStep == MotorInv /\ [MotorNext]_motorVars => MotorInv' /\ [CalmEnds]_motorVars
<1> SUFFICES ASSUME MotorInv, [MotorNext]_motorVars PROVE MotorInv' /\ [CalmEnds]_motorVars
  OBVIOUS
<1>1. FaultInv' /\ TimerInv' /\ HeardInv' /\ [CalmEnds]_motorVars
  BY MonitorSteps, FaultInvStep, TimerInvStep, MotorStep DEF MotorInv
<1>2. reported' = reported
  BY DEF MotorNext, Monitor, BadCommand, motorVars, motorOnly
<1> QED BY <1>1, <1>2 DEF MotorInv

\* What the invariant says to those who rely on it.
LEMMA MotorInvTells == MotorInv => MotorTypeOK /\ FaultTypeOK /\ TroubleStays
  BY DEF MotorInv, FaultInv, HeardInv, HeardType, MotorTypeOK, FaultTypeOK

\* However many motors there are and whichever of them answer, none that was last
\* heard to be in trouble is forgotten.
THEOREM MotorsAreRemembered == MotorSpec => NoMotorForgotten
<1>1. MotorSpec => []TroubleStays /\ [][CalmEnds]_motorVars
  BY MotorInvInit, MotorInvStep, MotorInvTells, PTL DEF MotorSpec
<1> QED BY <1>1 DEF NoMotorForgotten

\* Every variable of the monitor and of its fault manager keeps its type.
THEOREM MotorTypeCorrect == MotorSpec => []MotorTypeOK
  BY MotorInvInit, MotorInvStep, MotorInvTells, PTL DEF MotorSpec

-----------------------------------------------------------------------------
(* AutonomySupervisor.                                                     *)

\* A line of the policy allows one more retry than n.
Allows(n) == \E o \in DOMAIN Policy : Policy[o].action = "Retry" /\ n < Policy[o].max

\* The count decides when a failure is latched, and the retry is granted later: what
\* is latched remembers that it was allowed, and nothing is counted between.
RetryInv ==
    /\ command.retries \in Nat /\ granted.retries = command.retries
    /\ latch.on /\ latch.action = "Retry" => Allows(command.retries)
    /\ RetriesBounded

\* The fields these proofs speak of are there.
RecordInv ==
    /\ command \in [active : BOOLEAN, lease : LeaseGeneration \cup {0},
                    last : LeaseGeneration \cup {0}, retries : Nat,
                    timing : BOOLEAN, since : Nat]
    /\ latch \in [on : BOOLEAN, action : FailureAction \cup {"none"},
                  failed : LeaseGeneration \cup {0}]
    /\ granted \in [retries : Nat, failed : SUBSET LeaseGeneration]
    /\ command.active => command.lease \in LeaseGeneration
    /\ now \in Nat

SupervisorInv == RecordInv /\ RetryInv

\* The policy says retry only while it allows one more.
LEMMA ReactionAllowed ==
  ASSUME RecordInv, NEW outcome \in Failures
  PROVE  /\ Reaction(outcome) \in FailureAction
         /\ Reaction(outcome) = "Retry" => Allows(command.retries)
<1>1. CASE outcome \notin DOMAIN Policy
  BY <1>1 DEF Reaction, FailureAction
<1>2. CASE outcome \in DOMAIN Policy
  <2>1. /\ Policy[outcome].action \in FailureAction
        /\ Policy[outcome].exhausted \in FailureAction
        /\ Policy[outcome].action = "Retry" => /\ Policy[outcome].max \in Nat
                                               /\ Policy[outcome].exhausted # "Retry"
    BY <1>2, SupervisorAssumption
  <2> QED BY <1>2, <2>1 DEF Reaction, Allows, RecordInv
<1> QED BY <1>1, <1>2

\* A failure that is latched keeps the invariant.
LEMMA FailKeeps ==
  ASSUME SupervisorInv, NEW outcome \in Failures, command.active, Fail(outcome), now' = now
  PROVE  SupervisorInv'
<1>1. /\ latch' = [on |-> TRUE, action |-> Reaction(outcome), failed |-> command.lease]
      /\ command' = [command EXCEPT !.active = FALSE]
      /\ granted' = [granted EXCEPT !.failed = @ \cup {command.lease}]
  BY DEF Fail
<1>2. /\ Reaction(outcome) \in FailureAction
      /\ Reaction(outcome) = "Retry" => Allows(command.retries)
  BY ReactionAllowed DEF SupervisorInv
<1>3. RecordInv'
  BY <1>1, <1>2 DEF SupervisorInv, RecordInv
<1>4. command'.retries = command.retries /\ granted'.retries = granted.retries
      /\ latch'.action = Reaction(outcome)
  BY <1>1 DEF SupervisorInv, RecordInv
<1> QED BY <1>2, <1>3, <1>4 DEF SupervisorInv, RetryInv, RetriesBounded, Allows

\* It holds at the start.
LEMMA SupervisorInvInit == SupervisorInit => SupervisorInv
  BY DEF SupervisorInit, EnvironmentInit, NoCommand, NoLatch, NoRoute, SupervisorInv,
         RecordInv, RetryInv, RetriesBounded

\* A command that starts afresh, with no retry granted.
LEMMA FreshKeeps ==
  ASSUME SupervisorInv, ~latch'.on, command'.retries = 0, granted'.retries = 0, RecordInv'
  PROVE  SupervisorInv'
  BY DEF SupervisorInv, RetryInv, RetriesBounded

\* Preserved by an evaluation, which latches a failure or goes on.
LEMMA EvaluateKeeps ==
  ASSUME SupervisorInv, NEW seen \in Failures \cup {"Success", "Good", "Degraded"},
         Evaluate(seen)
  PROVE  SupervisorInv'
<1>1. command.active /\ now' = now
  BY DEF Evaluate, environment
<1>2. ASSUME Fail("Interrupted") \/ Fail("StateInvalid")
      PROVE  SupervisorInv'
  BY <1>1, <1>2, FailKeeps DEF Failures
<1>3. ASSUME seen \in Failures, Fail(seen) PROVE SupervisorInv'
  BY <1>1, <1>3, FailKeeps
<1>4. ASSUME /\ command' \in {[command EXCEPT !.active = FALSE, !.timing = FALSE],
                              [command EXCEPT !.timing = FALSE],
                              [command EXCEPT !.timing = TRUE,
                                  !.since = IF command.timing THEN @ ELSE now]},
             UNCHANGED <<latch, granted>>
      PROVE  SupervisorInv'
  <2>1. RecordInv' /\ command'.retries = command.retries
    BY <1>1, <1>4 DEF SupervisorInv, RecordInv
  <2> QED BY <1>4, <2>1 DEF SupervisorInv, RetryInv, RetriesBounded, Allows
<1> QED BY <1>2, <1>3, <1>4 DEF Evaluate

\* A retry is granted only where the latch remembers that it is allowed.
LEMMA AuthorizeKeeps ==
  ASSUME SupervisorInv, NEW lease \in LeaseGeneration, AuthorizeRetry(lease)
  PROVE  SupervisorInv'
<1>1. /\ latch.on /\ latch.action = "Retry"
      /\ command' = [active |-> TRUE, lease |-> lease, last |-> lease,
                     retries |-> command.retries + 1, timing |-> FALSE, since |-> 0]
      /\ latch' = [NoLatch EXCEPT !.failed = latch.failed]
      /\ granted' = [granted EXCEPT !.retries = @ + 1]
      /\ now' = now
  BY DEF AuthorizeRetry, environment
<1>2. RecordInv'
  <2>1. /\ latch' = [on |-> FALSE, action |-> "none", failed |-> latch.failed]
        /\ latch.failed \in LeaseGeneration \cup {0}
    BY <1>1 DEF SupervisorInv, RecordInv, NoLatch
  <2>2. granted' = [retries |-> granted.retries + 1, failed |-> granted.failed]
        /\ granted.retries \in Nat /\ granted.failed \in SUBSET LeaseGeneration
    BY <1>1 DEF SupervisorInv, RecordInv
  <2>3. command.retries \in Nat /\ now' \in Nat
    BY <1>1 DEF SupervisorInv, RecordInv
  <2>4. latch' \in [on : BOOLEAN, action : FailureAction \cup {"none"},
                    failed : LeaseGeneration \cup {0}]
    BY <2>1
  <2>5. granted' \in [retries : Nat, failed : SUBSET LeaseGeneration]
    BY <2>2
  <2> QED BY <1>1, <2>3, <2>4, <2>5 DEF RecordInv
<1>3. /\ command'.retries = command.retries + 1 /\ granted'.retries = granted.retries + 1
      /\ ~latch'.on
  BY <1>1 DEF SupervisorInv, RecordInv, NoLatch
<1>4. PICK o \in DOMAIN Policy : Policy[o].action = "Retry" /\ command.retries < Policy[o].max
  BY <1>1 DEF SupervisorInv, RetryInv, Allows
<1>5. Policy[o].max \in Nat /\ granted.retries = command.retries /\ command.retries \in Nat
  BY <1>4, SupervisorAssumption DEF SupervisorInv, RetryInv
<1>6. granted'.retries <= Policy[o].max
  BY <1>3, <1>4, <1>5
<1> QED BY <1>2, <1>3, <1>4, <1>5, <1>6 DEF SupervisorInv, RetryInv, RetriesBounded

\* Those that forget the retries.
LEMMA RestartsKeep ==
  ASSUME SupervisorInv, NEW lease \in LeaseGeneration,
         BeginCommand(lease) \/ AdvanceAfterSkip(lease)
  PROVE  SupervisorInv'
<1>1. CASE BeginCommand(lease)
  BY <1>1, FreshKeeps DEF BeginCommand, MayBegin, RecordInv, SupervisorInv, environment
<1>2. CASE AdvanceAfterSkip(lease)
  BY <1>2, FreshKeeps DEF AdvanceAfterSkip, NoLatch, RecordInv, SupervisorInv, environment
<1> QED BY <1>1, <1>2

\* And by every step.
LEMMA SupervisorInvStep == SupervisorInv /\ [SupervisorNext]_supervisorVars => SupervisorInv'
<1> SUFFICES ASSUME SupervisorInv, [SupervisorNext]_supervisorVars PROVE SupervisorInv'
  OBVIOUS
<1>1. CASE UNCHANGED <<route, command, latch, granted>> /\ now' \in Nat
  BY <1>1 DEF SupervisorInv, RecordInv, RetryInv, RetriesBounded, Allows
<1>2. CASE Environment /\ UNCHANGED <<route, command, latch, granted>>
  BY <1>1, <1>2, EnvironmentType DEF SupervisorInv, RecordInv
<1>3. CASE UNCHANGED supervisorVars
  BY <1>1, <1>3 DEF supervisorVars, environment, SupervisorInv, RecordInv
<1>4. CASE StartRoute \/ Reset(NoRoute)
  <2>1. /\ command' = NoCommand /\ latch' = NoLatch
        /\ granted' = [retries |-> 0, failed |-> {}] /\ now' = now
    BY <1>4 DEF StartRoute, Reset, environment
  <2>2. RecordInv' /\ command'.retries = 0 /\ granted'.retries = 0 /\ ~latch'.on
    BY <2>1 DEF NoCommand, NoLatch, RecordInv, SupervisorInv
  <2> QED BY <2>2, FreshKeeps
<1> QED BY <1>2, <1>3, <1>4, RestartsKeep, AuthorizeKeeps, EvaluateKeeps DEF SupervisorNext

\* The inductive invariant.
LEMMA SupervisorInvariant == SupervisorSpec => []SupervisorInv
  BY SupervisorInvInit, SupervisorInvStep, PTL DEF SupervisorSpec

\* A route is of an epoch of the mode.
RouteInv == route \in [active : BOOLEAN, epoch : Nat] /\ mode \in ModeSnapshot

LEMMA RouteInvInit == SupervisorInit => RouteInv
  BY DEF SupervisorInit, EnvironmentInit, NoRoute, RouteInv, ModeSnapshot, Modes

LEMMA RouteInvStep == RouteInv /\ [SupervisorNext]_supervisorVars => RouteInv'
<1> SUFFICES ASSUME RouteInv, [SupervisorNext]_supervisorVars PROVE RouteInv'
  OBVIOUS
<1>1. CASE Environment /\ UNCHANGED <<route, command, latch, granted>>
  <2>1. mode' = mode \/ mode' = [mode EXCEPT !.enabled = TRUE]
        \/ \E m \in Modes, field \in BOOLEAN :
              mode' = [mode |-> m, enabled |-> FALSE, field |-> field, epoch |-> mode.epoch + 1]
    BY <1>1 DEF Environment, Advance, NewEpoch, Enable
  <2>2. mode \in ModeSnapshot /\ mode.epoch + 1 \in Nat
    BY DEF RouteInv, ModeSnapshot
  <2>3. ASSUME NEW m \in Modes, NEW field \in BOOLEAN,
               mode' = [mode |-> m, enabled |-> FALSE, field |-> field, epoch |-> mode.epoch + 1]
        PROVE  mode' \in ModeSnapshot
    BY <2>2, <2>3 DEF ModeSnapshot
  <2>4. [mode EXCEPT !.enabled = TRUE] \in ModeSnapshot
    BY <2>2 DEF ModeSnapshot
  <2> QED BY <1>1, <2>1, <2>2, <2>3, <2>4 DEF RouteInv
<1>2. CASE StartRoute \/ Reset(NoRoute)
  <2>1. /\ route' = [active |-> TRUE, epoch |-> mode.epoch] \/ route' = [active |-> FALSE, epoch |-> 0]
        /\ mode' = mode
    BY <1>2 DEF StartRoute, Reset, NoRoute, environment
  <2>2. mode \in ModeSnapshot /\ mode.epoch \in Nat
    BY DEF RouteInv, ModeSnapshot
  <2>3. \A epoch \in Nat, on \in BOOLEAN : [active |-> on, epoch |-> epoch] \in [active : BOOLEAN, epoch : Nat]
    OBVIOUS
  <2>4. mode' \in ModeSnapshot
    BY <2>1, <2>2
  <2>5. route' \in [active : BOOLEAN, epoch : Nat]
    BY <2>1, <2>2, <2>3
  <2> QED BY <2>4, <2>5 DEF RouteInv
<1>3. CASE UNCHANGED <<environment, route>>
  BY <1>3 DEF RouteInv, environment
<1>4. ASSUME NEW lease \in LeaseGeneration,
             BeginCommand(lease) \/ AuthorizeRetry(lease) \/ AdvanceAfterSkip(lease)
      PROVE  UNCHANGED <<environment, route>>
  BY <1>4 DEF BeginCommand, AuthorizeRetry, AdvanceAfterSkip
<1>5. ASSUME NEW seen \in Failures \cup {"Success", "Good", "Degraded"}, Evaluate(seen)
      PROVE  UNCHANGED <<environment, route>>
  BY <1>5 DEF Evaluate
<1>6. UNCHANGED supervisorVars => UNCHANGED <<environment, route>>
  BY DEF supervisorVars
<1> QED BY <1>1, <1>2, <1>3, <1>4, <1>5, <1>6 DEF SupervisorNext

\* What the two say to those who rely on them.
LEMMA SupervisorInvTells == SupervisorInv /\ RouteInv => SupervisorTypeOK /\ RetriesBounded
  BY DEF SupervisorInv, RecordInv, RetryInv, RouteInv, SupervisorTypeOK

\* Every variable of the supervisor keeps its type.
THEOREM SupervisorTypeCorrect == SupervisorSpec => []SupervisorTypeOK
  BY SupervisorInvariant, RouteInvInit, RouteInvStep, SupervisorInvTells, PTL DEF SupervisorSpec

\* A command is not retried more often than its policy allows, for any policy.
THEOREM RetriesAreBounded == SupervisorSpec => []RetriesBounded
<1>1. SupervisorInv => RetriesBounded
  BY DEF SupervisorInv, RetryInv
<1> QED BY SupervisorInvariant, <1>1, PTL

\* Nothing runs while a failure is latched.
LatchStops == latch.on => ~command.active

\* A failure that ends the route or stops in an emergency is final, for any policy,
\* through any changes of mode and any leases.
THEOREM FinalFailuresAreFinal == SupervisorSpec => EndsForGood
<1> DEFINE Ended == latch.on /\ latch.action \in {"EndRoute", "EmergencyStop"}
                       => \/ latch' = latch /\ ~command'.active
                          \/ StartRoute \/ Reset(NoRoute)
<1>1. SupervisorInit => LatchStops
  BY DEF SupervisorInit, NoLatch, LatchStops
<1>2. SupervisorInv /\ LatchStops /\ [SupervisorNext]_supervisorVars
         => LatchStops' /\ [Ended]_supervisorVars
  <2> SUFFICES ASSUME SupervisorInv, LatchStops, [SupervisorNext]_supervisorVars
               PROVE  LatchStops' /\ [Ended]_supervisorVars
    OBVIOUS
  <2>1. CASE UNCHANGED <<command, latch>>
    BY <2>1 DEF LatchStops
  <2>2. CASE StartRoute \/ Reset(NoRoute)
    BY <2>2 DEF StartRoute, Reset, NoLatch, LatchStops
  <2>3. ASSUME NEW seen \in Failures \cup {"Success", "Good", "Degraded"}, Evaluate(seen)
        PROVE  LatchStops' /\ [Ended]_supervisorVars
    <3>1. ~latch.on /\ Ended
      BY <2>3 DEF Evaluate
    <3>2. ASSUME NEW outcome, Fail(outcome) PROVE ~command'.active
      BY <3>2 DEF Fail, SupervisorInv, RecordInv
    <3>3. UNCHANGED latch \/ \E outcome : Fail(outcome)
      BY <2>3 DEF Evaluate
    <3> QED BY <3>1, <3>2, <3>3 DEF LatchStops
  <2>4. ASSUME NEW lease \in LeaseGeneration,
               BeginCommand(lease) \/ AuthorizeRetry(lease) \/ AdvanceAfterSkip(lease)
        PROVE  LatchStops' /\ [Ended]_supervisorVars
    <3>1. ~latch.on \/ latch.action \in {"Retry", "Skip"}
      BY <2>4 DEF BeginCommand, MayBegin, AuthorizeRetry, AdvanceAfterSkip
    <3>2. ~latch'.on
      BY <2>4 DEF BeginCommand, MayBegin, AuthorizeRetry, AdvanceAfterSkip, NoLatch,
                  SupervisorInv, RecordInv
    <3> QED BY <3>1, <3>2 DEF LatchStops
  <2> QED BY <2>1, <2>2, <2>3, <2>4 DEF SupervisorNext, supervisorVars
<1> HIDE DEF Ended
<1>3. SupervisorSpec => [][Ended]_supervisorVars
  BY SupervisorInvariant, <1>1, <1>2, PTL DEF SupervisorSpec
<1> QED BY <1>3 DEF EndsForGood, Ended
=============================================================================
