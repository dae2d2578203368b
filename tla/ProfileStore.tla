---------------------------- MODULE ProfileStore ----------------------------
(***************************************************************************)
(* DualSlotParameterStore: a parameter profile in two slots, one of which  *)
(* is overwritten by each save.                                            *)
(*                                                                         *)
(* A slot holds a profile that decodes under the registry it was encoded   *)
(* for, or something that does not decode (its generation is 0 then).  The *)
(* medium may fail at any point: a read is refused, a write is refused,    *)
(* torn or without effect though it reports success, and the program may   *)
(* stop between any two of its accesses.                                   *)
(***************************************************************************)
EXTENDS Naturals

CONSTANTS
    Profile,         \* what may be saved: the state and the values of a profile
    Registry,        \* registry revisions of the programs that run on the robot
    None,            \* no profile
    LastGeneration   \* the largest value of a generation

ASSUME StoreAssumption ==
    None \notin Profile /\ Registry # {} /\ LastGeneration \in Nat \ {0}

VARIABLES
    slots,      \* the two files
    registry,   \* revision of the registry of the running program
    saving,     \* the call of save() under way
    saved,      \* history: the profile that must not be lost, if there is one
    tried       \* history: profiles whose save began later and did not succeed

storeVars == <<slots, registry, saving, saved, tried>>

-----------------------------------------------------------------------------
Slot  == {0, 1}
Frame == [generation : 1..LastGeneration, registry : Registry, profile : Profile]
Torn  == [generation |-> 0]
Idle  == [step |-> "idle"]

\* A slot decodes: decodeParameterProfile().
Valid(i) == slots[i].generation # 0 /\ slots[i].registry = registry

Selected ==
    IF Valid(1) /\ (~Valid(0) \/ slots[1].generation > slots[0].generation) THEN 1 ELSE 0

\* load(), when both slots can be read.
Loaded == IF Valid(0) \/ Valid(1) THEN slots[Selected].profile ELSE None

StoreInit ==
    /\ slots = [i \in Slot |-> Torn]
    /\ registry \in Registry
    /\ saving = Idle
    /\ saved = None /\ tried = {}

-----------------------------------------------------------------------------
(* save().  What it can read are the slots that decode, but for those whose *)
(* read is refused.                                                         *)

\* Fault: the newer of two valid slots is overwritten.
Target_Newer(read) ==
    IF 0 \notin read THEN 0
    ELSE IF 1 \notin read THEN 1
    ELSE IF slots[0].generation > slots[1].generation THEN 0 ELSE 1
\* The slot it overwrites.
Target(read) ==
    IF 0 \notin read THEN 0
    ELSE IF 1 \notin read THEN 1
    ELSE IF slots[0].generation <= slots[1].generation THEN 0 ELSE 1

\* The largest generation it read, or 0.
Latest(read) ==
    LET of(i) == IF i \in read THEN slots[i].generation ELSE 0
    IN IF of(1) > of(0) THEN of(1) ELSE of(0)

\* save() as far as its write.  A generation that would wrap to zero is refused.
\* Saving after a read of a valid slot has failed puts what is stored at risk.
BeginSave(profile, refused) ==
    LET read == {i \in Slot : Valid(i)} \ refused
        new  == [generation |-> Latest(read) + 1, registry |-> registry, profile |-> profile]
    IN /\ saving = Idle
       /\ Latest(read) < LastGeneration
       /\ saving' = [step |-> "write", target |-> Target(read), frame |-> new,
                     blind |-> \E i \in refused : Valid(i)]
       /\ saved' = IF \E i \in refused : Valid(i) THEN None ELSE saved
       /\ tried' = tried \cup {profile}
       /\ UNCHANGED <<slots, registry>>

\* The write, and whether it reports success.
Write(left, reported) ==
    /\ saving.step = "write"
    /\ left \in {slots[saving.target], Torn, saving.frame}
    /\ slots' = [slots EXCEPT ![saving.target] = left]
    /\ saving' = IF reported THEN [saving EXCEPT !.step = "verify"] ELSE Idle
    /\ UNCHANGED <<registry, saved, tried>>

Intact == slots[saving.target] = saving.frame

\* The slot is read back and compared; save() returns true if it is intact.
Verify(refused) ==
    /\ saving.step = "verify"
    /\ saving' = Idle
    /\ IF Intact /\ ~refused
       THEN /\ saved' = IF saving.blind THEN None ELSE saving.frame.profile
            /\ tried' = IF saving.blind THEN tried ELSE {}
       ELSE UNCHANGED <<saved, tried>>
    /\ UNCHANGED <<slots, registry>>

\* The program stops, and one with this or another registry starts.  What can
\* be loaded then is what must not be lost from there on.
Restart(r) ==
    /\ UNCHANGED slots /\ registry' = r
    /\ saving' = Idle
    /\ IF r = registry THEN UNCHANGED <<saved, tried>>
       ELSE saved' = Loaded' /\ tried' = {}

StoreNext ==
    \/ \E profile \in Profile, refused \in SUBSET Slot : BeginSave(profile, refused)
    \/ \E left \in Frame \cup {Torn}, reported \in BOOLEAN : Write(left, reported)
    \/ \E refused \in BOOLEAN : Verify(refused)
    \/ \E r \in Registry : Restart(r)

StoreSpec == StoreInit /\ [][StoreNext]_storeVars

-----------------------------------------------------------------------------
(* Properties.                                                             *)

\* Types of the variables.
StoreTypeOK ==
    /\ slots \in [Slot -> Frame \cup {Torn}]
    /\ registry \in Registry
    /\ \/ saving = Idle
       \/ saving \in [step : {"write", "verify"}, target : Slot, frame : Frame, blind : BOOLEAN]
    /\ saved \in Profile \cup {None}
    /\ tried \subseteq Profile

\* Whatever fails and wherever the program stops, what load() finds is the last
\* profile a save() reported as stored, or one whose save() began after it.  A
\* save() that could not read a valid slot is the exception the code makes.
SavedIsLoaded == saved # None => Loaded \in {saved} \cup tried
=============================================================================
