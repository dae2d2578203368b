---------------------------- MODULE OutputStatus ----------------------------
(***************************************************************************)
(* AtomicOutputStatusStore: the output task publishes what it did in its   *)
(* last period, the control task reads it for the log of its tick, with no *)
(* lock between them.  A generation counter is odd while the fields are    *)
(* being stored; a reader that finds it odd, or changed at the end, has    *)
(* read nothing.                                                           *)
(*                                                                         *)
(* Every load and store is a step.  They happen in the order of the        *)
(* program: both tasks run on one core, and the compiler is taken to keep  *)
(* the order of atomic accesses, which memory_order_relaxed alone does not *)
(* promise.  The field loads and the stores go through the fields in the   *)
(* same order.  Only the control task is ever deleted.                     *)
(***************************************************************************)
EXTENDS Integers

CONSTANTS
    Fields,             \* how many fields an OutputStatus has
    Status,             \* the statuses that are published; a field holds a part of one
    GenerationModulus   \* the generation wraps around at 2^32 in the code

\* A reader that sleeps through half of all generations cannot tell: less than
\* that many are published during one read.
ASSUME StatusAssumption ==
    /\ Fields \in Nat \ {0} /\ Status # {}
    /\ GenerationModulus \in Nat /\ GenerationModulus > 2
    /\ GenerationModulus % 2 = 0

VARIABLES
    statusGeneration,   \* generation_
    field,        \* actuator_sequence_, reject_bits_, action_, ...: a part of which status
    writing,      \* publish(): the status, and the field it stores next (0: between calls)
    reading,      \* readLatest(): the field it loads next (0: between calls), and before
    copy,         \* ... status
    result,       \* ... what it last returned
    latest,      \* history: the status last published in full
    atLoad,       \* history: the same as the reader's first load found it
    moved         \* history: how often the generation changed since that load

statusVars == <<statusGeneration, field, writing, reading, copy, result, latest, atLoad, moved>>
writerVars == <<field, writing, latest>>
readerVars == <<reading, copy, result, atLoad>>

Unset == "unset"
Field == 1..Fields
NextGeneration(g) == IF g + 1 = GenerationModulus THEN 0 ELSE g + 1
Odd(g)  == g % 2 = 1

StatusInit ==
    /\ statusGeneration = 0 /\ field = [f \in Field |-> Unset]
    /\ writing = [status |-> Unset, next |-> 0]
    /\ reading = [next |-> 0, before |-> 0]
    /\ copy = [f \in Field |-> Unset] /\ result = FALSE
    /\ latest = Unset /\ atLoad = Unset /\ moved = 0

Bump ==
    /\ statusGeneration' = NextGeneration(statusGeneration)
    /\ IF reading.next = 0 THEN UNCHANGED moved
       ELSE moved + 1 < GenerationModulus /\ moved' = moved + 1

-----------------------------------------------------------------------------
(* publish()                                                               *)

PublishBegin(s) ==
    /\ writing.next = 0
    /\ Bump
    /\ writing' = [status |-> s, next |-> 1]
    /\ UNCHANGED <<field, latest, readerVars>>

PublishStore ==
    /\ writing.next \in Field
    /\ field' = [field EXCEPT ![writing.next] = writing.status]
    /\ writing' = [writing EXCEPT !.next = @ + 1]
    /\ UNCHANGED <<statusGeneration, moved, latest, readerVars>>

PublishEnd ==
    /\ writing.next = Fields + 1
    /\ Bump
    /\ writing' = [writing EXCEPT !.next = 0]
    /\ latest' = writing.status
    /\ UNCHANGED <<field, readerVars>>

-----------------------------------------------------------------------------
(* readLatest()                                                            *)

ReadBegin ==
    /\ reading.next = 0
    /\ statusGeneration # 0 /\ ~Odd(statusGeneration)
    /\ reading' = [next |-> 1, before |-> statusGeneration]
    /\ result' = FALSE /\ atLoad' = latest /\ moved' = 0
    /\ UNCHANGED <<statusGeneration, writerVars, copy>>

ReadRefused ==
    /\ reading.next = 0
    /\ statusGeneration = 0 \/ Odd(statusGeneration)
    /\ result' = FALSE
    /\ UNCHANGED <<statusGeneration, moved, writerVars, reading, copy, atLoad>>

ReadLoad ==
    /\ reading.next \in Field
    /\ copy' = [copy EXCEPT ![reading.next] = field[reading.next]]
    /\ reading' = [reading EXCEPT !.next = @ + 1]
    /\ UNCHANGED <<statusGeneration, moved, writerVars, result, atLoad>>

\* Fault: what was read counts unless a publish is under way at the end.
Unchanged_Even == ~Odd(statusGeneration)
Unchanged == reading.before = statusGeneration

ReadEnd ==
    /\ reading.next = Fields + 1
    /\ result' = Unchanged
    /\ reading' = [reading EXCEPT !.next = 0] /\ moved' = 0
    /\ UNCHANGED <<statusGeneration, writerVars, copy, atLoad>>

\* The control task is deleted; its successor begins a read of its own.
ReaderRestart ==
    /\ reading.next # 0
    /\ reading' = [reading EXCEPT !.next = 0] /\ moved' = 0
    /\ result' = FALSE
    /\ UNCHANGED <<statusGeneration, writerVars, copy, atLoad>>

StatusNext ==
    \/ \E s \in Status : PublishBegin(s)
    \/ PublishStore \/ PublishEnd
    \/ ReadBegin \/ ReadRefused \/ ReadLoad \/ ReadEnd \/ ReaderRestart

StatusSpec == StatusInit /\ [][StatusNext]_statusVars

-----------------------------------------------------------------------------
(* Properties.                                                             *)

\* Types of the variables.
StatusTypeOK ==
    /\ statusGeneration \in 0..(GenerationModulus - 1) /\ moved \in 0..(GenerationModulus - 1)
    /\ field \in [Field -> Status \cup {Unset}] /\ copy \in [Field -> Status \cup {Unset}]
    /\ writing \in [status : Status \cup {Unset}, next : 0..(Fields + 1)]
    /\ reading \in [next : 0..(Fields + 1), before : 0..(GenerationModulus - 1)]
    /\ result \in BOOLEAN
    /\ latest \in Status \cup {Unset} /\ atLoad \in Status \cup {Unset}

\* What readLatest() returns with true is one status and not parts of two, and
\* it is the one that was the latest when the read began, however often the
\* output task published around and during it.
ReadIsCurrent == result => atLoad \in Status /\ \A f \in Field : copy[f] = atLoad
=============================================================================
