---------------------------- MODULE FaultManager ----------------------------
(***************************************************************************)
(* FaultManager: faults that enter and clear with delays, and latches that *)
(* a command clears.                                                       *)
(*                                                                         *)
(* An update carries what is known of each fault.  One whose time runs     *)
(* backwards changes nothing, and is not a step.                           *)
(***************************************************************************)
EXTENDS ModeAndTime

CONSTANT Rules     \* FaultRuleConfig: fault |-> [severity, enter, clear, latched]

Faults   == DOMAIN Rules
Severity == {"Info", "Warning", "Derate", "Stop", "LatchedStop"}

\* FaultManager::valid(): each fault has one rule, a function here.
ASSUME FaultAssumption ==
    \A f \in Faults : /\ Rules[f].severity \in Severity /\ Rules[f].latched \in BOOLEAN
                      /\ Rules[f].enter \in Nat /\ Rules[f].clear \in Nat
                      /\ Rules[f].severity = "LatchedStop" => Rules[f].latched

VARIABLES
    runtime,   \* per fault: raw_asserted, active, enter and clear timers
    latched,   \* latched_bits_
    steady     \* history: per fault, how long what is known of it has been the same

faultVars == <<environment, runtime, latched, steady>>

-----------------------------------------------------------------------------
Runtime == [raw : BOOLEAN, active : BOOLEAN, entering : BOOLEAN, clearing : BOOLEAN,
            enterSince : Nat, clearSince : Nat]

FaultInit ==
    /\ EnvironmentInit
    /\ runtime = [f \in Faults |->
          [raw |-> FALSE, active |-> FALSE, entering |-> FALSE, clearing |-> FALSE,
           enterSince |-> 0, clearSince |-> 0]]
    /\ latched = {}
    /\ steady = [f \in Faults |-> [raw |-> FALSE, since |-> 0]]

Enters(f) ==
    LET r == runtime[f]
    IN ~r.active /\ now - (IF r.entering THEN r.enterSince ELSE now) >= Rules[f].enter

Clears(f) ==
    LET r == runtime[f]
    IN /\ r.active /\ f \notin latched
       /\ now - (IF r.clearing THEN r.clearSince ELSE now) >= Rules[f].clear

\* Fault: a fault that comes back while it clears goes on clearing.
Asserted_KeepsClearing(f) ==
    LET r == runtime[f]
    IN [r EXCEPT !.raw = TRUE,
                 !.active = @ \/ Enters(f), !.entering = ~r.active /\ ~Enters(f),
                 !.enterSince = IF r.active \/ r.entering THEN @ ELSE now]
\* A fault that is asserted.
Asserted(f) ==
    LET r == runtime[f]
    IN [r EXCEPT !.raw = TRUE, !.clearing = FALSE,
                 !.active = @ \/ Enters(f),
                 !.entering = IF r.active THEN @ ELSE ~Enters(f),
                 !.enterSince = IF r.active \/ r.entering THEN @ ELSE now]

\* A fault that is known to be absent; while it is latched its timer rests.
Absent(f) ==
    LET r == runtime[f]
    IN [r EXCEPT !.raw = FALSE, !.entering = FALSE,
                 !.active = @ /\ ~Clears(f),
                 !.clearing = IF r.active /\ f \in latched THEN @
                              ELSE r.active /\ ~Clears(f),
                 !.clearSince = IF r.active /\ f \notin latched /\ ~r.clearing
                                THEN now ELSE @]

Steady(f, raw) == IF steady[f].raw = raw THEN steady[f] ELSE [raw |-> raw, since |-> now]

\* update(): of the faults in known, those in asserted are there.
Update(known, asserted) ==
    /\ asserted \subseteq known
    /\ runtime' = [f \in Faults |-> IF f \notin known THEN runtime[f]
                                    ELSE IF f \in asserted THEN Asserted(f) ELSE Absent(f)]
    /\ latched' = latched \cup {f \in asserted : Enters(f) /\ Rules[f].latched}
    /\ steady' = [f \in Faults |-> IF f \notin known THEN steady[f]
                                   ELSE IF f \in asserted THEN Steady(f, TRUE)
                                   ELSE Steady(f, FALSE)]
    /\ UNCHANGED environment

\* Fault: whatever is asserted is cleared as well.
Clearable_All(requested) == requested \cap latched
\* What the last update that knew of it said counts, however old it is.
Clearable(requested) == {f \in requested \cap latched : ~runtime[f].raw}

\* clearLatched(), authorised.
ClearLatched(requested) ==
    /\ ~mode.enabled /\ mode.mode = "Disabled"
    /\ latched' = latched \ Clearable(requested)
    /\ runtime' = [f \in Faults |->
          IF f \in Clearable(requested)
          THEN [runtime[f] EXCEPT !.active = FALSE, !.entering = FALSE, !.clearing = FALSE]
          ELSE runtime[f]]
    /\ UNCHANGED <<environment, steady>>

FaultNext ==
    \/ Environment /\ UNCHANGED <<runtime, latched, steady>>
    \/ \E known, asserted \in SUBSET Faults : Update(known, asserted)
    \/ \E requested \in SUBSET Faults : ClearLatched(requested)

FaultSpec == FaultInit /\ [][FaultNext]_faultVars

\* buildSummary(): the robot must not move.
StopRequired == \E f \in Faults : /\ runtime[f].active
                                  /\ Rules[f].severity \in {"Stop", "LatchedStop"}

-----------------------------------------------------------------------------
(* Properties.                                                             *)

\* Types of the variables.
FaultTypeOK ==
    /\ runtime \in [Faults -> Runtime]
    /\ latched \subseteq Faults
    /\ steady \in [Faults -> [raw : BOOLEAN, since : Nat]]

\* Neither a blip enters a fault nor a flicker clears it: what is known of a fault
\* has been the same for the whole delay when the fault changes, but for a latch
\* that is cleared.
Debounced ==
    [][\A f \in Faults :
          /\ ~runtime[f].active /\ runtime'[f].active =>
                steady'[f].raw /\ now - steady'[f].since >= Rules[f].enter
          /\ runtime[f].active /\ ~runtime'[f].active /\ f \notin latched =>
                ~steady'[f].raw /\ now - steady'[f].since >= Rules[f].clear]_faultVars

\* A latch outlives its cause: it goes only while the robot is disabled and the
\* fault was last known to be absent, and until then a latched stop stops the robot.
LatchHolds ==
    /\ []((\E f \in latched : Rules[f].severity = "LatchedStop") => StopRequired)
    /\ [][\A f \in latched \ latched' :
             ~steady[f].raw /\ ~mode.enabled /\ mode.mode = "Disabled"]_faultVars
=============================================================================
