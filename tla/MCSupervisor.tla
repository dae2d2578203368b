---------------------------- MODULE MCSupervisor ----------------------------
(* AutonomySupervisor with a failure policy.                               *)
EXTENDS AutonomySupervisor

\* One line of each kind; the outcomes it does not list are emergencies.
FailurePolicy ==
    [o \in {"Timeout", "Deviation", "Stalled", "Interrupted"} |->
        CASE o = "Timeout"   -> [action |-> "Retry", max |-> 2, exhausted |-> "EndRoute"]
          [] o = "Deviation" -> [action |-> "Retry", max |-> 1, exhausted |-> "Skip"]
          [] o = "Stalled"   -> [action |-> "Skip", max |-> 0, exhausted |-> "EndRoute"]
          [] OTHER           -> [action |-> "EndRoute", max |-> 0, exhausted |-> "EndRoute"]]
=============================================================================
