------------------------------ MODULE HmiEvents ------------------------------
(***************************************************************************)
(* HmiEventQueue: what the operator does, queued for the one that acts on  *)
(* it.  Navigation may be merged and may be lost; nothing else that push() *)
(* accepted may.                                                           *)
(***************************************************************************)
EXTENDS Naturals, SequencesExt

CONSTANTS
    EventOrigin, EventEpoch,   \* where an event comes from, and in which mode epoch
    Navigation,                \* actions that coalesce: Navigate and Back
    Critical,                  \* actions that may evict navigation
    Routine,                   \* all others
    Capacity,
    MaxPushes                  \* bound of the model

ASSUME QueueAssumption ==
    /\ Capacity \in Nat \ {0} /\ MaxPushes \in Nat
    /\ Navigation \cap Critical = {} /\ Routine \cap (Navigation \cup Critical) = {}

VARIABLES
    queue,    \* the events, oldest first, numbered in the order of the calls
    dropped,  \* HmiQueueStats: navigation dropped, critical events rejected
    owed,     \* history: events accepted that are not navigation, not yet popped
    pushes    \* history: calls of push()

eventVars == <<queue, dropped, owed, pushes>>

-----------------------------------------------------------------------------
Event == [action : Navigation \cup Critical \cup Routine,
          origin : EventOrigin, epoch : EventEpoch, number : 1..MaxPushes]

EventInit ==
    /\ queue = <<>> /\ owed = <<>> /\ pushes = 0
    /\ dropped = [navigation |-> 0, critical |-> 0]

coalescible(e) == e.action \in Navigation

Alike(e, f) == e.action = f.action /\ e.origin = f.origin /\ e.epoch = f.epoch

\* Repeated navigation replaces the last event, never an earlier one: where, or 0.
Merged(e) == IF queue # <<>> /\ coalescible(e) /\ Alike(e, Last(queue)) THEN Len(queue) ELSE 0

\* Fault: the first event makes room, not the first that is navigation.
Evicted_First == IF \E i \in DOMAIN queue : coalescible(queue[i]) THEN 1 ELSE 0
\* The oldest navigation in the queue, or 0.
Evicted == SelectInSeq(queue, coalescible)

\* push().
Push(e) ==
    /\ pushes < MaxPushes /\ pushes' = pushes + 1 /\ e.number = pushes'
    /\ \/ /\ Merged(e) # 0
          /\ queue' = [queue EXCEPT ![Merged(e)] = e]
          /\ UNCHANGED <<dropped, owed>>
       \/ /\ Merged(e) = 0 /\ Len(queue) < Capacity
          /\ queue' = Append(queue, e)
          /\ owed' = IF coalescible(e) THEN owed ELSE Append(owed, e)
          /\ UNCHANGED dropped
       \/ /\ Merged(e) = 0 /\ Len(queue) >= Capacity /\ e.action \notin Critical
          /\ dropped' = [dropped EXCEPT !.navigation = @ + 1]
          /\ UNCHANGED <<queue, owed>>
       \/ /\ Merged(e) = 0 /\ Len(queue) >= Capacity /\ e.action \in Critical /\ Evicted # 0
          /\ queue' = Append(RemoveAt(queue, Evicted), e)
          /\ owed' = Append(owed, e)
          /\ dropped' = [dropped EXCEPT !.navigation = @ + 1]
       \/ /\ Merged(e) = 0 /\ Len(queue) >= Capacity /\ e.action \in Critical /\ Evicted = 0
          /\ dropped' = [dropped EXCEPT !.critical = @ + 1]
          /\ UNCHANGED <<queue, owed>>

\* pop().
Pop ==
    /\ queue # <<>>
    /\ queue' = Tail(queue)
    /\ owed' = IF coalescible(Head(queue)) THEN owed ELSE Tail(owed)
    /\ UNCHANGED <<dropped, pushes>>

EventNext == (\E e \in Event : Push(e)) \/ Pop

EventSpec == EventInit /\ [][EventNext]_eventVars

-----------------------------------------------------------------------------
(* Properties.                                                             *)

\* Types of the variables.
EventTypeOK ==
    /\ queue \in Seq(Event) /\ Len(queue) <= Capacity
    /\ owed \in Seq(Event)
    /\ dropped \in [navigation : Nat, critical : Nat]
    /\ pushes \in 0..MaxPushes

\* Every event push() accepted that is not navigation is in the queue until it
\* is popped, once, and in the order of the calls, whatever is merged or evicted
\* around it; and all events come out in the order they went in, merged ones with
\* the last of them.  Two sequences of the same events, both in order, are one.
Ascending(s) == \A i, j \in DOMAIN s : i < j => s[i].number < s[j].number
NoneLost == {e \in Range(queue) : ~coalescible(e)} = Range(owed)
InOrder  == Ascending(queue) /\ Ascending(owed)
EventsKept == NoneLost /\ InOrder
=============================================================================
