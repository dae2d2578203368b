--------------------------- MODULE RouteSelection ---------------------------
(***************************************************************************)
(* From the operator's choice of a route to the command that runs:         *)
(* SelectionManager (stage, confirm, lock), AutonomousRouteRegistry        *)
(* (resolve) and the scheduler the resolved command is given to.           *)
(*                                                                         *)
(* The caller keeps to README.md: it locks at the enable of a mode and     *)
(* calls onDisabled() in Disabled.  A side is an alliance with a start     *)
(* side; the registry is valid and never changes, so its revision is left  *)
(* out; "ready" stands for the checks of pose and quality and for a        *)
(* factory that returns a command.                                         *)
(***************************************************************************)
EXTENDS CommandScheduler

CONSTANTS
    Route,         \* the registry, DoNothingRoute among them
    DoNothingRoute,
    Side,
    Compatible,    \* routeCompatible: the sides a route may start from
    Approved,      \* routes implemented and competition_approved
    CommandOf      \* the command of each route

ASSUME SelectionAssumption ==
    /\ Route # {} /\ Side # {}
    /\ DoNothingRoute \in Approved /\ Approved \subseteq Route
    /\ Compatible \in [Route -> SUBSET Side]
    /\ CommandOf \in [Route -> Top]

VARIABLES
    draft, drafting,        \* draft_route_ with draft_alliance_ and draft_start_
    choice, confirmed,      \* confirmed_route_, ..., and confirmed_
    locked, lockedSnapshot

selectionOnly == <<draft, drafting, choice, confirmed, locked, lockedSnapshot>>
selectionVars == <<schedulerVars, selectionOnly>>

Choice   == [route : Route, side : Side]
NoChoice == [route |-> DoNothingRoute, side |-> CHOOSE s \in Side : TRUE]
Snapshot == [choice : Choice, epoch : Nat, valid : BOOLEAN, fallback : BOOLEAN]

SelectionInit ==
    /\ SchedulerInit
    /\ draft = NoChoice /\ drafting = FALSE
    /\ choice = NoChoice /\ confirmed = FALSE
    /\ locked = FALSE
    /\ lockedSnapshot = [choice |-> NoChoice, epoch |-> 0, valid |-> FALSE, fallback |-> FALSE]

\* What may run: approved, and from this side.
Permitted(c) == c.route \in Approved /\ c.side \in Compatible[c.route]

\* The selection is open to the operator.
Open == ~mode.enabled /\ ~locked

Stage(c) ==
    /\ Open /\ c.side \in Compatible[c.route]
    /\ draft' = c /\ drafting' = TRUE
    /\ UNCHANGED <<schedulerVars, choice, confirmed, locked, lockedSnapshot>>

Confirm ==
    /\ Open /\ drafting /\ Permitted(draft)
    /\ choice' = draft /\ confirmed' = TRUE /\ drafting' = FALSE
    /\ UNCHANGED <<schedulerVars, draft, locked, lockedSnapshot>>

CancelDraft ==
    /\ draft' = choice /\ drafting' = FALSE
    /\ UNCHANGED <<schedulerVars, choice, confirmed, locked, lockedSnapshot>>

OnDisabled ==
    /\ mode.mode = "Disabled"
    /\ locked' = FALSE
    /\ draft' = choice /\ drafting' = FALSE
    /\ UNCHANGED <<schedulerVars, choice, confirmed, lockedSnapshot>>

LockForEnable ==
    /\ mode.mode # "Disabled"
    /\ locked' = TRUE
    /\ lockedSnapshot' =
          IF confirmed /\ Permitted(choice)
          THEN [choice |-> choice, epoch |-> mode.epoch, valid |-> TRUE, fallback |-> FALSE]
          ELSE [choice |-> NoChoice, epoch |-> mode.epoch, valid |-> TRUE, fallback |-> TRUE]
    /\ UNCHANGED <<schedulerVars, draft, drafting, choice, confirmed>>

-----------------------------------------------------------------------------
\* resolve() without a reject bit, and a fault: the epoch of the lock is not looked at.
Resolves_AnyEpoch(ready) ==
    /\ ready /\ lockedSnapshot.valid /\ ~lockedSnapshot.fallback
    /\ mode.enabled /\ mode.mode = "AutonomousInterface"
    /\ Permitted(lockedSnapshot.choice)

Resolves(ready) ==
    /\ ready /\ lockedSnapshot.valid /\ ~lockedSnapshot.fallback
    /\ mode.enabled /\ mode.mode = "AutonomousInterface"
    /\ lockedSnapshot.epoch = mode.epoch
    /\ Permitted(lockedSnapshot.choice)

Resolved(ready) == IF Resolves(ready) THEN lockedSnapshot.choice.route ELSE DoNothingRoute

\* The resolved command is scheduled in the same frame, with either policy.
StartRoute(ready, interrupt) ==
    /\ Schedule(CommandOf[Resolved(ready)], interrupt, 1)
    /\ UNCHANGED selectionOnly

\* The route goes on, ends, or is cancelled; the mode changes.
RunRoute ==
    /\ \/ \E outcome \in [Running -> {"Running", "Finished"}] : Tick(outcome)
       \/ CancelAll
       \/ \E m \in {"Disabled", "AutonomousInterface"} : NewEpoch(m)
       \/ Enable
    /\ UNCHANGED selectionOnly

SelectionNext ==
    \/ \E c \in Choice : Stage(c)
    \/ Confirm \/ CancelDraft \/ OnDisabled \/ LockForEnable
    \/ \E ready, interrupt \in BOOLEAN : StartRoute(ready, interrupt)
    \/ RunRoute

SelectionSpec == SelectionInit /\ [][SelectionNext]_selectionVars

-----------------------------------------------------------------------------
(* Properties.                                                             *)

SelectionTypeOK ==
    /\ draft \in Choice /\ drafting \in BOOLEAN
    /\ choice \in Choice /\ confirmed \in BOOLEAN
    /\ locked \in BOOLEAN /\ lockedSnapshot \in Snapshot

\* A route that runs in an enabled mode is the one the operator confirmed, for
\* a side it may start from, before that mode was enabled: not a draft, not
\* what an earlier epoch had locked, and not what was chosen meanwhile.
ConfirmedRouteRuns ==
    \A i \in Active :
        mode.enabled /\ slots[i].epoch = mode.epoch =>
          \/ Owner(i) = CommandOf[DoNothingRoute]
          \/ confirmed /\ Permitted(choice) /\ Owner(i) = CommandOf[choice.route]
=============================================================================
