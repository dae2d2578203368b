------------------------- MODULE AutonomySupervisor -------------------------
(***************************************************************************)
(* AutonomySafetySupervisor: it watches the command of an autonomous       *)
(* route, latches a failure with what the policy says is to be done about  *)
(* it, and lets the route go on only under another lease.                  *)
(*                                                                         *)
(* The first check of evaluate() that fails is an input here, but for the  *)
(* mode.  Owner tokens differ in their lease only: all of them are of one  *)
(* command with one set of requirements.                                   *)
(***************************************************************************)
EXTENDS ModeAndTime

CONSTANTS
    LeaseGeneration,  \* of the owner tokens that are presented, old and new
    Policy,           \* FixedFailurePolicy: outcome |-> [action, max, exhausted]
    AbortAfterGrace,  \* DegradedAutonomyPolicy
    Grace             \* degraded_grace_us

\* What a failed check or a command that ends badly is reported as; a change of
\* mode is "Interrupted" as well.
Failures == {"Timeout", "Stalled", "StateInvalid", "Interrupted", "Collision",
             "Deviation", "MechanismConflict"}
FailureAction == {"Retry", "Skip", "EndRoute", "EmergencyStop"}

\* validAutonomySafetyConfig(), FixedFailurePolicy::valid().
ASSUME SupervisorAssumption ==
    /\ LeaseGeneration \subseteq Nat \ {0} /\ AbortAfterGrace \in BOOLEAN /\ Grace \in Nat \ {0}
    /\ DOMAIN Policy \subseteq Failures
    /\ \A o \in DOMAIN Policy :
          /\ Policy[o].action \in FailureAction /\ Policy[o].exhausted \in FailureAction
          /\ Policy[o].action = "Retry" => Policy[o].max \in Nat \ {0}
                                           /\ Policy[o].exhausted # "Retry"

VARIABLES
    route,     \* route_active_, and its epoch
    command,   \* active_command_, its lease, the last lease, retry_count_, degraded_timing_
    latch,     \* latched_, its action, the lease that failed
    granted    \* history: retries granted since the command began, leases that failed

supervisorVars == <<environment, route, command, latch, granted>>

-----------------------------------------------------------------------------
NoRoute   == [active |-> FALSE, epoch |-> 0]
NoCommand == [active |-> FALSE, lease |-> 0, last |-> 0, retries |-> 0, timing |-> FALSE, since |-> 0]
NoLatch   == [on |-> FALSE, action |-> "none", failed |-> 0]

SupervisorInit ==
    /\ EnvironmentInit
    /\ route = NoRoute /\ command = NoCommand /\ latch = NoLatch
    /\ granted = [retries |-> 0, failed |-> {}]

Autonomous == mode.enabled /\ mode.mode = "AutonomousInterface"

\* reset().
Reset(next) ==
    /\ route' = next
    /\ command' = NoCommand /\ latch' = NoLatch
    /\ granted' = [retries |-> 0, failed |-> {}]
    /\ UNCHANGED environment

\* startRoute(): also resets everything when it refuses.
StartRoute == Reset(IF Autonomous THEN [active |-> TRUE, epoch |-> mode.epoch] ELSE NoRoute)

\* validOwner(), for a token that was made in this epoch.
ValidOwner == Autonomous /\ mode.epoch = route.epoch

\* Fault: a command begins whatever is latched.
MayBegin_Latched(lease) ==
    route.active /\ ~command.active /\ ValidOwner /\ lease # command.last
MayBegin(lease) ==
    /\ route.active /\ ~latch.on /\ ~command.active
    /\ ValidOwner /\ lease # command.last

\* beginCommand().
BeginCommand(lease) ==
    /\ MayBegin(lease)
    /\ command' = [active |-> TRUE, lease |-> lease, last |-> lease,
                   retries |-> 0, timing |-> FALSE, since |-> 0]
    /\ latch' = [latch EXCEPT !.failed = 0]
    /\ granted' = [granted EXCEPT !.retries = 0]
    /\ UNCHANGED <<environment, route>>

\* Fault: the retries are not counted.
Reaction_Endless(outcome) ==
    IF outcome \in DOMAIN Policy THEN Policy[outcome].action ELSE "EmergencyStop"
\* What the policy makes of a failure; one it does not list is an emergency.
Reaction(outcome) ==
    IF outcome \notin DOMAIN Policy THEN "EmergencyStop"
    ELSE IF Policy[outcome].action = "Retry" /\ command.retries >= Policy[outcome].max
    THEN Policy[outcome].exhausted
    ELSE Policy[outcome].action

\* latchFailure().
Fail(outcome) ==
    /\ latch' = [on |-> TRUE, action |-> Reaction(outcome), failed |-> command.lease]
    /\ command' = [command EXCEPT !.active = FALSE]
    /\ granted' = [granted EXCEPT !.failed = @ \cup {command.lease}]

\* evaluate() of the active command: without a route, a command or its lease, and
\* while a failure is latched, it asks for a brake and changes nothing.
Evaluate(seen) ==
    /\ route.active /\ ~latch.on /\ command.active
    /\ \/ /\ ~ValidOwner
          /\ Fail("Interrupted")
       \/ /\ ValidOwner /\ seen \in Failures
          /\ Fail(seen)
       \/ /\ ValidOwner /\ seen = "Success"
          /\ command' = [command EXCEPT !.active = FALSE, !.timing = FALSE]
          /\ UNCHANGED <<latch, granted>>
       \/ /\ ValidOwner /\ seen = "Good"
          /\ command' = [command EXCEPT !.timing = FALSE]
          /\ UNCHANGED <<latch, granted>>
       \/ /\ ValidOwner /\ seen = "Degraded"
          /\ IF AbortAfterGrace /\ command.timing /\ now - command.since >= Grace
             THEN Fail("StateInvalid")
             ELSE /\ command' = [command EXCEPT !.timing = TRUE,
                                     !.since = IF command.timing THEN @ ELSE now]
                  /\ UNCHANGED <<latch, granted>>
    /\ UNCHANGED <<environment, route>>

\* authorizeRetry(): the brake is acknowledged and the cause is gone.  The lease is
\* compared with the one that failed, which is also the last one.
AuthorizeRetry(lease) ==
    /\ latch.on /\ latch.action = "Retry"
    /\ ValidOwner /\ lease # latch.failed /\ lease # command.last
    /\ command' = [active |-> TRUE, lease |-> lease, last |-> lease,
                   retries |-> command.retries + 1, timing |-> FALSE, since |-> 0]
    /\ latch' = [NoLatch EXCEPT !.failed = latch.failed]
    /\ granted' = [granted EXCEPT !.retries = @ + 1]
    /\ UNCHANGED <<environment, route>>

\* advanceAfterSkip(), with the brake acknowledged.
AdvanceAfterSkip(lease) ==
    /\ latch.on /\ latch.action = "Skip"
    /\ ValidOwner /\ lease # command.last
    /\ command' = [active |-> TRUE, lease |-> lease, last |-> lease,
                   retries |-> 0, timing |-> FALSE, since |-> 0]
    /\ latch' = [NoLatch EXCEPT !.failed = latch.failed]
    /\ granted' = [granted EXCEPT !.retries = 0]
    /\ UNCHANGED <<environment, route>>

SupervisorNext ==
    \/ Environment /\ UNCHANGED <<route, command, latch, granted>>
    \/ StartRoute \/ Reset(NoRoute)
    \/ \E lease \in LeaseGeneration :
          BeginCommand(lease) \/ AuthorizeRetry(lease) \/ AdvanceAfterSkip(lease)
    \/ \E seen \in Failures \cup {"Success", "Good", "Degraded"} : Evaluate(seen)

SupervisorSpec == SupervisorInit /\ [][SupervisorNext]_supervisorVars

-----------------------------------------------------------------------------
(* Properties.                                                             *)

\* Types of the variables.
SupervisorTypeOK ==
    /\ route \in [active : BOOLEAN, epoch : Nat]
    /\ command \in [active : BOOLEAN, lease : LeaseGeneration \cup {0},
                    last : LeaseGeneration \cup {0}, retries : Nat,
                    timing : BOOLEAN, since : Nat]
    /\ latch \in [on : BOOLEAN, action : FailureAction \cup {"none"},
                  failed : LeaseGeneration \cup {0}]
    /\ granted \in [retries : Nat, failed : SUBSET LeaseGeneration]

\* A command is retried no more often than some line of the policy allows, however
\* its failures alternate.
RetriesBounded ==
    granted.retries > 0 =>
        \E o \in DOMAIN Policy : /\ Policy[o].action = "Retry"
                                 /\ granted.retries <= Policy[o].max

\* A failure that ends the route or stops in an emergency is final: until another
\* route is started, or all is reset, no command runs again, in this epoch or a later one.
EndsForGood ==
    [][latch.on /\ latch.action \in {"EndRoute", "EmergencyStop"}
          => \/ latch' = latch /\ ~command'.active
             \/ StartRoute \/ Reset(NoRoute)]_supervisorVars

\* docs/AUTONOMY_SAFETY_OFFLINE.md:16 says that an old lease is always refused: no
\* lease that failed on this route becomes active again.
FailedLeaseStaysDead == command.active => command.lease \notin granted.failed
=============================================================================
