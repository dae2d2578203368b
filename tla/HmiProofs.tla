----------------------------- MODULE HmiProofs -----------------------------
(***************************************************************************)
(* What the operator is promised: proofs about ProfileStore (a stored      *)
(* profile survives), EditSession (a commit is isolated, a void lease      *)
(* stays void) and HmiEvents (no event is lost that may not be), for any   *)
(* profiles, registries, origins, parameters, times, events and limits.    *)
(***************************************************************************)
EXTENDS ProfileStore, EditSession, HmiEvents, TLAPS, SequenceTheorems, WellFoundedInduction

-----------------------------------------------------------------------------
(* ProfileStore, for any profiles, registries and largest generation.      *)

Other(i) == 1 - i

\* Two slots that decode under one registry are of different generations.  Slot 1
\* is never written before slot 0 decodes, so its generation is at least 2.
Apart ==
    /\ slots[1].generation # 1
    /\ slots[0].generation # 0 /\ slots[1].generation # 0
         /\ slots[0].registry = slots[1].registry
       => slots[0].generation # slots[1].generation

\* What a save is about to write keeps them apart.
KeepsApart ==
    saving # Idle =>
       /\ saving.frame.registry = registry
       /\ saving.target = 0 => \/ saving.frame.generation = 1
                               \/ saving.frame.generation > slots[1].generation
       /\ saving.target = 1 => /\ slots[0].generation > 0
                               /\ saving.frame.generation > slots[0].generation

\* A save that has read what there is to read spares the slot that load() takes,
\* and what it writes will be taken instead.
Spared ==
    saving # Idle =>
       LET o == Other(saving.target)
       IN /\ saving.frame.profile \in tried
          /\ saving.blind => saved = None
          /\ ~saving.blind /\ Valid(o) => saving.frame.generation > slots[o].generation
          /\ saved # None => Valid(o) /\ slots[o].profile \in {saved} \cup tried

StoreInv == StoreTypeOK /\ Apart /\ KeepsApart /\ Spared /\ SavedIsLoaded

-----------------------------------------------------------------------------
\* A call of save() under way is told from no call by its step.
LEMMA InSave ==
  ASSUME StoreTypeOK, saving # Idle
  PROVE  /\ saving.step \in {"write", "verify"} /\ saving.target \in Slot
         /\ saving.frame \in Frame /\ saving.blind \in BOOLEAN
  BY DEF StoreTypeOK

\* A slot that decodes holds a frame.
LEMMA SlotTypes ==
  ASSUME StoreTypeOK, NEW i \in Slot
  PROVE  /\ slots[i] \in Frame \cup {Torn}
         /\ slots[i].generation \in Nat
         /\ slots[i].generation # 0 => slots[i] \in Frame
  BY StoreAssumption DEF StoreTypeOK, Frame, Torn

\* What load() finds is a profile exactly if a slot decodes.
LEMMA LoadedProfile ==
  ASSUME StoreTypeOK
  PROVE  IF Valid(0) \/ Valid(1) THEN Selected \in Slot /\ Valid(Selected) /\ Loaded \in Profile
         ELSE Loaded = None
<1>1. CASE Valid(0) \/ Valid(1)
  <2>1. Selected \in Slot /\ Valid(Selected)
    BY <1>1 DEF Selected, Slot
  <2>2. slots[Selected] \in Frame
    BY <2>1, SlotTypes DEF Valid
  <2> QED BY <1>1, <2>1, <2>2 DEF Loaded, Frame
<1>2. CASE ~(Valid(0) \/ Valid(1))
  BY <1>2 DEF Loaded
<1> QED BY <1>1, <1>2

\* The generation save() writes is larger than any it has read, and it writes slot 1
\* only if slot 0 decodes.
LEMMA LatestIsLargest ==
  ASSUME StoreTypeOK, NEW refused \in SUBSET Slot,
         NEW read, read = {i \in Slot : Valid(i)} \ refused
  PROVE  /\ Latest(read) \in Nat /\ Target(read) \in Slot
         /\ \A i \in read : Valid(i) /\ slots[i].generation <= Latest(read)
         /\ Target(read) = 0 => 1 \in read \/ Latest(read) = 0
         /\ Target(read) = 1 => 0 \in read
<1>1. read \subseteq Slot /\ \A i \in read : Valid(i)
  OBVIOUS
<1>2. slots[0].generation \in Nat /\ slots[1].generation \in Nat
  BY SlotTypes DEF Slot
<1> QED BY <1>1, <1>2 DEF Latest, Target, Slot

-----------------------------------------------------------------------------
\* The invariant holds at the start.
LEMMA StoreInvInit == StoreInit => StoreInv
<1> SUFFICES ASSUME StoreInit PROVE StoreInv
  OBVIOUS
<1>1. StoreTypeOK
  BY StoreAssumption DEF StoreInit, StoreTypeOK
<1>2. slots[0] = Torn /\ slots[1] = Torn
  BY DEF StoreInit, Slot
<1>3. Apart /\ KeepsApart /\ Spared /\ SavedIsLoaded
  BY <1>2 DEF StoreInit, Apart, KeepsApart, Spared, SavedIsLoaded, Torn
<1> QED BY <1>1, <1>3 DEF StoreInv

\* Preserved by the start of a save, which chooses its target.
LEMMA BeginSaveKeeps ==
  ASSUME StoreInv, NEW profile \in Profile, NEW refused \in SUBSET Slot,
         BeginSave(profile, refused)
  PROVE  StoreInv'
<1> DEFINE read  == {i \in Slot : Valid(i)} \ refused
           new   == [generation |-> Latest(read) + 1, registry |-> registry,
                     profile |-> profile]
           blind == \E i \in refused : Valid(i)
           o     == Other(Target(read))
<1>0. StoreTypeOK /\ Apart /\ SavedIsLoaded
  BY DEF StoreInv
<1>1. /\ saving' = [step |-> "write", target |-> Target(read), frame |-> new, blind |-> blind]
      /\ saved' = IF blind THEN None ELSE saved
      /\ tried' = tried \cup {profile} /\ slots' = slots /\ registry' = registry
      /\ Latest(read) < LastGeneration
  BY DEF BeginSave
<1> HIDE DEF read
<1>2. /\ Latest(read) \in Nat /\ Target(read) \in Slot
      /\ \A i \in read : Valid(i) /\ slots[i].generation <= Latest(read)
      /\ Target(read) = 0 => 1 \in read \/ Latest(read) = 0
      /\ Target(read) = 1 => 0 \in read
  BY <1>0, LatestIsLargest DEF read
<1>3. new \in Frame /\ blind \in BOOLEAN
  BY <1>0, <1>1, <1>2, StoreAssumption DEF Frame, StoreTypeOK
<1>4. StoreTypeOK'
  BY <1>0, <1>1, <1>2, <1>3 DEF StoreTypeOK, Slot
<1>5. slots[0].generation \in Nat /\ slots[1].generation \in Nat
  BY <1>0, SlotTypes DEF Slot
<1>6. Apart'
  BY <1>0, <1>1 DEF Apart
<1>7. saving'.target = Target(read) /\ saving'.frame = new /\ saving'.blind = blind
  BY <1>1
<1>8. new.registry = registry /\ new.generation = Latest(read) + 1 /\ new.profile = profile
  OBVIOUS
<1> HIDE DEF new
<1>9. KeepsApart'
  <2>1. Target(read) = 0 => new.generation = 1 \/ new.generation > slots[1].generation
    BY <1>2, <1>5, <1>8
  <2>2. Target(read) = 1 => slots[0].generation > 0 /\ new.generation > slots[0].generation
    BY <1>2, <1>5, <1>8 DEF Valid
  <2> QED BY <1>1, <1>7, <1>8, <2>1, <2>2 DEF KeepsApart
<1>10. ~blind => \A i \in Slot : Valid(i) => i \in read
  BY DEF read
<1>11. o \in Slot /\ (~blind /\ Valid(o) => new.generation > slots[o].generation)
  BY <1>2, <1>5, <1>8, <1>10 DEF Other, Slot
<1>12. ASSUME saved # None, ~blind
       PROVE  Valid(o) /\ slots[o].profile \in {saved} \cup tried
  <2>1. Loaded \in {saved} \cup tried /\ Loaded # None
    BY <1>0, <1>12, StoreAssumption DEF SavedIsLoaded, StoreTypeOK
  <2>2. Selected \in Slot /\ Valid(Selected) /\ (Valid(0) \/ Valid(1))
    BY <1>0, <2>1, LoadedProfile
  <2>3. Selected = o
    <3>1. CASE Valid(0) /\ Valid(1)
      <4>1. slots[0].generation # slots[1].generation
        BY <1>0, <3>1 DEF Apart, Valid
      <4> QED BY <1>5, <1>10, <1>12, <3>1, <4>1 DEF Selected, Target, Other, Slot
    <3>2. CASE Valid(0) /\ ~Valid(1)
      BY <1>2, <1>10, <1>12, <3>2 DEF Selected, Target, Other, Slot
    <3>3. CASE ~Valid(0) /\ Valid(1)
      BY <1>2, <1>10, <1>12, <3>3 DEF Selected, Target, Other, Slot
    <3> QED BY <2>2, <3>1, <3>2, <3>3
  <2> QED BY <2>1, <2>2, <2>3 DEF Loaded
<1>13. Spared'
  BY <1>1, <1>7, <1>8, <1>11, <1>12 DEF Spared, Valid
<1>14. SavedIsLoaded'
  BY <1>0, <1>1 DEF SavedIsLoaded, Loaded, Selected, Valid
<1> QED BY <1>4, <1>6, <1>9, <1>13, <1>14 DEF StoreInv

\* Preserved by the write, whatever it leaves.
LEMMA WriteKeeps ==
  ASSUME StoreInv, NEW left \in Frame \cup {Torn}, NEW reported \in BOOLEAN,
         Write(left, reported)
  PROVE  StoreInv'
<1>0. StoreTypeOK /\ Apart /\ KeepsApart /\ Spared /\ SavedIsLoaded
  BY DEF StoreInv
<1>1. saving # Idle
  BY DEF Write, Idle
<1>2. saving.target \in Slot /\ saving.frame \in Frame /\ saving.blind \in BOOLEAN
  BY <1>0, <1>1, InSave
<1>3. PICK t \in Slot : t = saving.target
  BY <1>2
<1> DEFINE o == Other(t)
<1>4. t \in Slot /\ t = saving.target /\ saving.frame \in Frame
  BY <1>2, <1>3
<1>5. /\ left \in {slots[t], Torn, saving.frame}
      /\ slots' = [slots EXCEPT ![t] = left]
      /\ saving' = IF reported THEN [saving EXCEPT !.step = "verify"] ELSE Idle
      /\ registry' = registry /\ saved' = saved /\ tried' = tried
  BY <1>4 DEF Write
<1>6. StoreTypeOK'
  <2>1. saving' = Idle \/ saving' \in [step : {"write", "verify"}, target : Slot,
                                        frame : Frame, blind : BOOLEAN]
    BY <1>0, <1>1, <1>5 DEF StoreTypeOK
  <2> QED BY <1>0, <1>5, <2>1 DEF StoreTypeOK
<1>7. slots'[t] = left /\ slots'[o] = slots[o] /\ o \in Slot /\ o # t
  BY <1>0, <1>4, <1>5 DEF StoreTypeOK, Other, Slot
<1>8. slots[0].generation \in Nat /\ slots[1].generation \in Nat
  BY <1>0, SlotTypes DEF Slot
<1>9. saving.frame.generation \in Nat \ {0} /\ saving.frame.registry = registry
      /\ saving.frame.profile \in tried
  BY <1>0, <1>1, <1>4, StoreAssumption DEF Frame, KeepsApart, Spared
<1>10. Torn.generation = 0
  BY DEF Torn
<1>11. Apart'
  <2>1. CASE t = 0
    BY <1>0, <1>1, <1>4, <1>5, <1>7, <1>8, <1>9, <1>10, <2>1 DEF Apart, KeepsApart, Other
  <2>2. CASE t = 1
    BY <1>0, <1>1, <1>4, <1>5, <1>7, <1>8, <1>9, <1>10, <2>2 DEF Apart, KeepsApart, Other
  <2> QED BY <1>4, <2>1, <2>2 DEF Slot
<1>12. saving' # Idle => /\ saving'.target = t /\ saving'.frame = saving.frame
                         /\ saving'.blind = saving.blind
  BY <1>0, <1>1, <1>4, <1>5 DEF StoreTypeOK
<1>13. KeepsApart'
  BY <1>0, <1>1, <1>4, <1>5, <1>7, <1>12 DEF KeepsApart, Other
<1>14. Spared'
  BY <1>0, <1>1, <1>4, <1>5, <1>7, <1>12 DEF Spared, Valid
<1>15. SavedIsLoaded'
  <2> SUFFICES ASSUME saved # None PROVE Loaded' \in {saved} \cup tried
    BY <1>5 DEF SavedIsLoaded
  <2>1. Valid(o) /\ slots[o].profile \in {saved} \cup tried
        /\ saving.frame.generation > slots[o].generation
    BY <1>0, <1>1, <1>4 DEF Spared
  <2>2. CASE left = slots[t]
    <3>1. slots' = slots
      BY <1>0, <1>4, <1>5, <2>2 DEF StoreTypeOK
    <3> QED BY <1>0, <1>5, <3>1 DEF SavedIsLoaded, Loaded, Selected, Valid
  <2>3. CASE left = Torn
    <3>1. Valid(o)' /\ ~Valid(t)'
      BY <1>5, <1>7, <1>10, <2>1, <2>3 DEF Valid
    <3>2. Selected' = o
      BY <1>4, <3>1 DEF Selected, Other, Slot
    <3> QED BY <1>4, <1>7, <2>1, <3>1, <3>2 DEF Loaded, Other, Slot
  <2>4. CASE left = saving.frame
    <3>1. Valid(o)' /\ Valid(t)' /\ slots'[t].generation > slots'[o].generation
      BY <1>5, <1>7, <1>9, <2>1, <2>4 DEF Valid
    <3>2. Selected' = t
      BY <1>4, <1>8, <1>7, <1>9, <2>4, <3>1 DEF Selected, Other, Slot
    <3> QED BY <1>4, <1>7, <1>9, <2>4, <3>1, <3>2 DEF Loaded, Other, Slot
  <2> QED BY <1>5, <2>2, <2>3, <2>4
<1> QED BY <1>6, <1>11, <1>13, <1>14, <1>15 DEF StoreInv

\* Preserved by the read back, after which the new profile is the one to keep.
LEMMA VerifyKeeps ==
  ASSUME StoreInv, NEW refused \in BOOLEAN, Verify(refused)
  PROVE  StoreInv'
<1> DEFINE t == saving.target
           o == Other(t)
<1>0. StoreTypeOK /\ Apart /\ KeepsApart /\ Spared /\ SavedIsLoaded
  BY DEF StoreInv
<1>1. saving # Idle /\ saving' = Idle /\ slots' = slots /\ registry' = registry
  BY DEF Verify, Idle
<1>2. t \in Slot /\ saving.frame \in Frame /\ saving.blind \in BOOLEAN
  BY <1>0, <1>1, InSave
<1>3. Apart' /\ KeepsApart' /\ Spared'
  BY <1>0, <1>1 DEF Apart, KeepsApart, Spared
<1>4. \/ saved' = saved /\ tried' = tried
      \/ saving.blind /\ saved' = None /\ tried' = tried
      \/ ~saving.blind /\ Intact /\ saved' = saving.frame.profile /\ tried' = {}
  BY <1>2 DEF Verify
<1>5. StoreTypeOK'
  BY <1>0, <1>1, <1>2, <1>4 DEF StoreTypeOK, Frame
<1>6. SavedIsLoaded'
  <2>1. CASE saved' = saved /\ tried' = tried
    BY <1>0, <1>1, <2>1 DEF SavedIsLoaded, Loaded, Selected, Valid
  <2>2. CASE saved' = None
    BY <2>2 DEF SavedIsLoaded
  <2>3. CASE ~saving.blind /\ Intact /\ saved' = saving.frame.profile
    <3>1. slots[t] = saving.frame /\ Valid(t)
      BY <1>0, <1>1, <1>2, <2>3, StoreAssumption DEF Intact, Valid, KeepsApart, Frame
    <3>2. Valid(o) => slots[t].generation > slots[o].generation
      BY <1>0, <1>1, <2>3, <3>1 DEF Spared
    <3>3. slots[0].generation \in Nat /\ slots[1].generation \in Nat
      BY <1>0, SlotTypes DEF Slot
    <3>4. Selected = t
      BY <1>2, <3>1, <3>2, <3>3 DEF Selected, Other, Slot
    <3>5. Loaded = saving.frame.profile
      BY <1>2, <3>1, <3>4 DEF Loaded, Slot
    <3> QED BY <1>1, <2>3, <3>5 DEF SavedIsLoaded, Loaded, Selected, Valid
  <2> QED BY <1>4, <2>1, <2>2, <2>3
<1> QED BY <1>3, <1>5, <1>6 DEF StoreInv

\* Preserved by a restart, which may bring another registry.
LEMMA RestartKeeps ==
  ASSUME StoreInv, NEW r \in Registry, Restart(r)
  PROVE  StoreInv'
<1>0. StoreTypeOK /\ Apart /\ SavedIsLoaded
  BY DEF StoreInv
<1>1. slots' = slots /\ registry' = r /\ saving' = Idle
  BY DEF Restart
<1>2. Apart' /\ KeepsApart' /\ Spared'
  BY <1>0, <1>1 DEF Apart, KeepsApart, Spared
<1>3. CASE r = registry
  <2>1. saved' = saved /\ tried' = tried
    BY <1>3 DEF Restart
  <2>2. StoreTypeOK'
    BY <1>0, <1>1, <2>1 DEF StoreTypeOK
  <2>3. SavedIsLoaded'
    BY <1>0, <1>1, <1>3, <2>1 DEF SavedIsLoaded, Loaded, Selected, Valid
  <2> QED BY <1>2, <2>2, <2>3 DEF StoreInv
<1>4. CASE r # registry
  <2>1. saved' = Loaded' /\ tried' = {}
    BY <1>4 DEF Restart
  <2>2. Loaded' \in Profile \cup {None}
    <3>1. \A i \in Slot : slots[i].generation # 0 => slots[i] \in Frame
      BY <1>0, SlotTypes
    <3> QED BY <1>1, <3>1 DEF Loaded, Selected, Valid, Slot, Frame
  <2>3. StoreTypeOK'
    BY <1>0, <1>1, <2>1, <2>2 DEF StoreTypeOK
  <2>4. SavedIsLoaded'
    BY <2>1 DEF SavedIsLoaded
  <2> QED BY <1>2, <2>3, <2>4 DEF StoreInv
<1> QED BY <1>3, <1>4

\* The inductive invariant.
LEMMA StoreInvStep == StoreInv /\ [StoreNext]_storeVars => StoreInv'
<1> SUFFICES ASSUME StoreInv, [StoreNext]_storeVars PROVE StoreInv'
  OBVIOUS
<1>1. CASE StoreNext
  BY <1>1, BeginSaveKeeps, WriteKeeps, VerifyKeeps, RestartKeeps DEF StoreNext
<1>2. CASE UNCHANGED storeVars
  BY <1>2 DEF storeVars, StoreInv, StoreTypeOK, Apart, KeepsApart, Spared, SavedIsLoaded,
              Loaded, Selected, Valid
<1> QED BY <1>1, <1>2

LEMMA StoreInvariant == StoreSpec => []StoreInv
  BY StoreInvInit, StoreInvStep, PTL DEF StoreSpec

\* A stored profile is loaded, or one whose save began later, however the medium
\* fails and wherever the program stops.
THEOREM StoredProfileSurvives == StoreSpec => []SavedIsLoaded
<1>1. StoreInv => SavedIsLoaded
  BY DEF StoreInv
<1> QED BY StoreInvariant, <1>1, PTL

\* Every variable of the store keeps its type.
THEOREM StoreTypeCorrect == StoreSpec => []StoreTypeOK
<1>1. StoreInv => StoreTypeOK
  BY DEF StoreInv
<1> QED BY StoreInvariant, <1>1, PTL

-----------------------------------------------------------------------------
(* EditSession, for any origins, domains, parameters, times and limits.    *)

\* The fields of a transaction.
OfFields(t) == [active |-> t.active, lease |-> t.lease, expires |-> t.expires, base |-> t.base,
                changes |-> t.changes, basis |-> t.basis, alone |-> t.alone]

\* No generation is ahead of the count, no epoch ahead of the mode, and a generation
\* is of one owner.
LeaseInv ==
    /\ now \in Nat /\ mode \in ModeSnapshot /\ generation \in Nat
    /\ leases \in [Domain -> Lease] /\ held \in [Origin -> [Domain -> Lease]]
    /\ \A d \in Domain : leases[d].generation <= generation /\ leases[d].epoch <= mode.epoch
    /\ \A o \in Origin, d \in Domain :
          /\ held[o][d].generation <= generation
          /\ held[o][d].owner \in {o, "none"}
          /\ leases[d].generation = held[o][d].generation /\ leases[d] # NoLease => leases[d].owner = o

\* A transaction that is not alone has a lease that no domain will hold again; one
\* whose base is the revision was begun on the present values.
TransactionInv ==
    /\ transaction = OfFields(transaction)
    /\ transaction.active \in BOOLEAN /\ transaction.alone \in BOOLEAN
    /\ revision \in Nat
    /\ transaction.active =>
          LET l == transaction.lease
              p == leases["Parameters"]
          IN /\ l \in Lease /\ l # NoLease /\ l.generation <= generation
             /\ p # NoLease /\ p.generation = l.generation => p.owner = l.owner /\ transaction.alone
             /\ transaction.base \in Nat /\ transaction.base <= revision
             /\ revision = transaction.base => values = transaction.basis

EditInv == LeaseInv /\ TransactionInv

-----------------------------------------------------------------------------
\* What a lease is made of; none of Origin is "none".
LEMMA LeaseIs ==
  /\ NoLease \in Lease /\ NoLease.generation = 0 /\ NoLease.owner = "none" /\ NoLease.epoch = 0
  /\ \A l \in Lease : /\ l.generation \in Nat /\ l.epoch \in Nat /\ l.expires \in Nat
                      /\ l.owner \in Origin \cup {"none"}
                      /\ l # NoLease => l.generation # 0 /\ l.owner \in Origin
  /\ "none" \notin Origin /\ Duration \in Nat /\ "Parameters" \in Domain
  BY EditAssumption DEF Lease, NoLease

\* A clock that moves on and a mode that changes.
LEMMA EnvironmentMoves ==
  ASSUME now \in Nat, mode \in ModeSnapshot, Environment
  PROVE  /\ now' \in Nat /\ now' >= now /\ mode' \in ModeSnapshot
         /\ mode'.epoch = mode.epoch \/ mode'.epoch = mode.epoch + 1
         /\ mode.epoch \in Nat
<1>1. mode.epoch \in Nat /\ mode.epoch + 1 \in Nat
  BY DEF ModeSnapshot
<1>2. CASE Advance
  BY <1>1, <1>2 DEF Advance
<1>3. CASE NewEpoch
  <2>1. PICK m \in Modes, field \in BOOLEAN :
           mode' = [mode |-> m, enabled |-> FALSE, field |-> field, epoch |-> mode.epoch + 1]
    BY <1>3 DEF NewEpoch
  <2>2. mode' \in ModeSnapshot /\ mode'.epoch = mode.epoch + 1
    BY <1>1, <2>1 DEF ModeSnapshot
  <2> QED BY <1>1, <1>3, <2>2 DEF NewEpoch
<1>4. CASE Enable
  <2>1. mode' = [mode EXCEPT !.enabled = TRUE] /\ now' = now
    BY <1>4 DEF Enable
  <2>2. mode' \in ModeSnapshot /\ mode'.epoch = mode.epoch
    BY <2>1 DEF ModeSnapshot
  <2> QED BY <1>1, <2>1, <2>2
<1> QED BY <1>2, <1>3, <1>4 DEF Environment

\* What an expiry leaves of the leases.
LEMMA UnexpiredIs ==
  ASSUME LeaseInv
  PROVE  /\ Unexpired \in [Domain -> Lease]
         /\ \A d \in Domain : \/ Unexpired[d] = NoLease
                              \/ /\ Unexpired[d] = leases[d] /\ leases[d].epoch = mode.epoch
                                 /\ now <= leases[d].expires
  BY LeaseIs DEF LeaseInv, Unexpired, ModeSnapshot

\* What acquire() does to the lease of its domain.
LEMMA AcquireTells ==
  ASSUME LeaseInv, NEW o \in Origin, NEW d \in Domain, Acquire(o, d)
  PROVE  /\ leases' \in [Domain -> Lease]
         /\ \A c \in Domain : c # d => leases'[c] = Unexpired[c]
         /\ \/ /\ generation' = generation + 1
               /\ leases'[d].generation = generation + 1 /\ leases'[d].owner = o
               /\ leases'[d].epoch = mode.epoch
            \/ /\ generation' = generation
               /\ leases[d] # NoLease /\ leases[d].epoch = mode.epoch /\ now <= leases[d].expires
               /\ leases'[d].generation = leases[d].generation /\ leases'[d].owner = leases[d].owner
               /\ leases'[d].epoch = leases[d].epoch
         /\ leases'[d] # NoLease
         /\ held' = IF leases'[d].owner = o THEN [held EXCEPT ![o][d] = leases'[d]] ELSE held
<1> DEFINE slot == Unexpired[d]
           fresh == [owner |-> o, generation |-> generation + 1,
                     expires |-> now + Duration, epoch |-> mode.epoch]
<1>1. held' = IF leases'[d].owner = o THEN [held EXCEPT ![o][d] = leases'[d]] ELSE held
  BY DEF Acquire
<1>2. /\ Unexpired \in [Domain -> Lease] /\ slot \in Lease
      /\ generation \in Nat /\ now + Duration \in Nat /\ mode.epoch \in Nat
  BY UnexpiredIs, LeaseIs DEF LeaseInv, ModeSnapshot
<1>3. CASE slot = NoLease
  <2>1. generation' = generation + 1 /\ leases' = [Unexpired EXCEPT ![d] = fresh]
    BY <1>3 DEF Acquire
  <2>2. fresh \in Lease /\ fresh # NoLease
    BY <1>2 DEF Lease, NoLease
  <2>3. leases'[d] = fresh /\ \A c \in Domain : c # d => leases'[c] = Unexpired[c]
    BY <1>2, <2>1
  <2>4. leases' \in [Domain -> Lease]
    BY <1>2, <2>1, <2>2
  <2> QED BY <1>1, <2>1, <2>2, <2>3, <2>4
<1>4. CASE slot # NoLease
  <2>1. /\ generation' = generation
        /\ leases' = IF slot.owner = o THEN [Unexpired EXCEPT ![d].expires = now + Duration]
                     ELSE Unexpired
    BY <1>4 DEF Acquire
  <2>2. /\ slot = leases[d] /\ leases[d].epoch = mode.epoch /\ now <= leases[d].expires
    BY <1>4, UnexpiredIs
  <2> HIDE DEF slot
  <2>3. /\ leases'[d] = slot \/ leases'[d] = [slot EXCEPT !.expires = now + Duration]
        /\ \A c \in Domain : c # d => leases'[c] = Unexpired[c]
    BY <1>2, <2>1 DEF slot
  <2>4. /\ slot \in [owner : Origin, generation : Nat \ {0}, expires : Nat, epoch : Nat]
    BY <1>2, <1>4 DEF Lease
  <2>5. /\ leases'[d] \in [owner : Origin, generation : Nat \ {0}, expires : Nat, epoch : Nat]
        /\ leases'[d].generation = slot.generation /\ leases'[d].owner = slot.owner
        /\ leases'[d].epoch = slot.epoch
    BY <1>2, <2>3, <2>4
  <2>6. leases'[d] \in Lease /\ leases'[d] # NoLease
    BY <2>5 DEF Lease, NoLease
  <2>7. leases' \in [Domain -> Lease]
    <3>1. DOMAIN leases' = Domain /\ leases' = [c \in Domain |-> leases'[c]]
      BY <1>2, <2>1
    <3>2. \A c \in Domain : leases'[c] \in Lease
      BY <1>2, <2>3, <2>6
    <3> QED BY <3>1, <3>2
  <2> QED BY <1>1, <1>4, <2>1, <2>2, <2>3, <2>5, <2>6, <2>7
<1> QED BY <1>3, <1>4

\* What refresh(), release(), expire() and releaseOwner() do: a lease is lost, or stays
\* what it is but for its time, which only one that has not run out is given more of.
LEMMA OthersTell ==
  ASSUME LeaseInv,
         \/ \E o \in Origin, d \in Domain : Refresh(o, d) \/ Release(o, d)
         \/ Expire \/ \E o \in Origin : ReleaseOwner(o)
  PROVE  /\ UNCHANGED <<environment, generation, held, transaction, backendVars>>
         /\ leases' \in [Domain -> Lease]
         /\ \A d \in Domain :
               \/ leases'[d] = NoLease
               \/ /\ leases'[d].generation = leases[d].generation /\ leases'[d].owner = leases[d].owner
                  /\ leases'[d].epoch = leases[d].epoch /\ leases[d] # NoLease
                  /\ leases'[d] = leases[d] \/ now <= leases[d].expires
<1>1. ASSUME NEW o \in Origin, NEW d \in Domain, Refresh(o, d)
      PROVE  /\ leases' \in [Domain -> Lease]
             /\ \A c \in Domain :
                  \/ leases'[c] = leases[c]
                  \/ /\ leases'[c].generation = leases[c].generation /\ leases'[c].owner = leases[c].owner
                     /\ leases'[c].epoch = leases[c].epoch /\ leases[c] # NoLease
                     /\ now <= leases[c].expires
  <2>1. /\ leases[d] # NoLease /\ now <= leases[d].expires
        /\ leases' = [leases EXCEPT ![d].expires = now + Duration]
    BY <1>1 DEF Refresh, Same
  <2>2. leases \in [Domain -> Lease] /\ now + Duration \in Nat
    BY LeaseIs DEF LeaseInv
  <2> DEFINE l == leases[d]
  <2>3. l \in [owner : Origin, generation : Nat \ {0}, expires : Nat, epoch : Nat]
    BY <2>1, <2>2 DEF Lease
  <2>4. leases'[d] = [l EXCEPT !.expires = now + Duration] /\ \A c \in Domain : c # d => leases'[c] = leases[c]
    BY <2>1, <2>2
  <2> HIDE DEF l
  <2>5. /\ leases'[d] \in [owner : Origin, generation : Nat \ {0}, expires : Nat, epoch : Nat]
        /\ leases'[d].generation = l.generation /\ leases'[d].owner = l.owner
        /\ leases'[d].epoch = l.epoch
    BY <2>2, <2>3, <2>4
  <2>6. leases' \in [Domain -> Lease]
    <3>1. DOMAIN leases' = Domain /\ leases' = [c \in Domain |-> leases'[c]]
      BY <2>1, <2>2
    <3>2. \A c \in Domain : leases'[c] \in Lease
      BY <2>2, <2>4, <2>5 DEF Lease
    <3> QED BY <3>1, <3>2
  <2> QED BY <2>1, <2>4, <2>5, <2>6 DEF l
<1>2. ASSUME NEW o \in Origin, NEW d \in Domain, Release(o, d)
      PROVE  /\ leases' \in [Domain -> Lease]
             /\ \A c \in Domain : leases'[c] = NoLease \/ leases'[c] = leases[c]
  BY <1>2, LeaseIs DEF LeaseInv, Release
<1>3. ASSUME Expire
      PROVE  /\ leases' \in [Domain -> Lease]
             /\ \A c \in Domain : leases'[c] = NoLease \/ leases'[c] = leases[c]
  BY <1>3, UnexpiredIs DEF Expire
<1>4. ASSUME NEW o \in Origin, ReleaseOwner(o)
      PROVE  /\ leases' \in [Domain -> Lease]
             /\ \A c \in Domain : leases'[c] = NoLease \/ leases'[c] = leases[c]
  BY <1>4, LeaseIs DEF LeaseInv, ReleaseOwner
<1>5. UNCHANGED <<environment, generation, held, transaction, backendVars>>
  BY DEF Refresh, Release, Expire, ReleaseOwner
<1> QED BY <1>1, <1>2, <1>3, <1>4, <1>5

-----------------------------------------------------------------------------
\* Steps that leave the leases and the transaction as they are.
LEMMA EnvironmentKeeps ==
  ASSUME EditInv, Environment, UNCHANGED <<leaseVars, transaction, backendVars>>
  PROVE  EditInv'
<1>1. /\ UNCHANGED <<leases, generation, held, transaction, values, revision>>
      /\ now' \in Nat /\ mode' \in ModeSnapshot /\ mode'.epoch \in Nat /\ mode'.epoch >= mode.epoch
      /\ mode.epoch \in Nat
  BY EnvironmentMoves DEF EditInv, LeaseInv, leaseVars, backendVars
<1>2. \A d \in Domain : leases[d].epoch \in Nat
  BY LeaseIs DEF EditInv, LeaseInv
<1> QED BY <1>1, <1>2 DEF EditInv, LeaseInv, TransactionInv, OfFields

\* acquire(): a new generation, given to its owner, or the one there is.
LEMMA AcquireKeeps ==
  ASSUME EditInv, NEW o \in Origin, NEW d \in Domain, Acquire(o, d)
  PROVE  EditInv'
<1>1. /\ leases' \in [Domain -> Lease]
      /\ \A c \in Domain : c # d => leases'[c] = Unexpired[c]
      /\ \/ /\ generation' = generation + 1
            /\ leases'[d].generation = generation + 1 /\ leases'[d].owner = o
            /\ leases'[d].epoch = mode.epoch
         \/ /\ generation' = generation
            /\ leases[d] # NoLease
            /\ leases'[d].generation = leases[d].generation /\ leases'[d].owner = leases[d].owner
            /\ leases'[d].epoch = leases[d].epoch
      /\ leases'[d] # NoLease
      /\ held' = IF leases'[d].owner = o THEN [held EXCEPT ![o][d] = leases'[d]] ELSE held
  BY AcquireTells DEF EditInv
<1>2. LeaseInv /\ generation \in Nat /\ mode.epoch \in Nat
  BY DEF EditInv, LeaseInv, ModeSnapshot
<1>3. UNCHANGED <<now, mode, values, revision>>
  BY DEF Acquire, environment, backendVars
<1>4. \A c \in Domain : c # d => leases'[c] = NoLease \/ leases'[c] = leases[c]
  BY <1>1, <1>2, UnexpiredIs
<1>5. held' \in [Origin -> [Domain -> Lease]]
  BY <1>1, <1>2 DEF LeaseInv
<1>6. \A p \in Origin, c \in Domain : held'[p][c] = held[p][c] \/ (p = o /\ c = d /\ held'[p][c] = leases'[d] /\ leases'[d].owner = o)
  BY <1>1, <1>2 DEF LeaseInv
<1>7. \A c \in Domain : leases'[c].generation <= generation' /\ leases'[c].epoch <= mode'.epoch
  BY <1>1, <1>2, <1>3, <1>4, LeaseIs DEF LeaseInv
<1>8. ASSUME NEW p \in Origin, NEW c \in Domain
      PROVE  /\ held'[p][c].generation <= generation'
             /\ held'[p][c].owner \in {p, "none"}
             /\ leases'[c].generation = held'[p][c].generation /\ leases'[c] # NoLease => leases'[c].owner = p
  <2>1. CASE held'[p][c] = held[p][c]
    <3>1. /\ held[p][c].generation <= generation /\ held[p][c].owner \in {p, "none"}
          /\ held[p][c].generation \in Nat
          /\ leases[c].generation = held[p][c].generation /\ leases[c] # NoLease => leases[c].owner = p
      BY <1>2, LeaseIs DEF LeaseInv
    <3>2. CASE c # d
      BY <1>1, <1>2, <1>4, <2>1, <3>1, <3>2
    <3>3. CASE c = d
      BY <1>1, <1>2, <2>1, <3>1, <3>3
    <3> QED BY <3>2, <3>3
  <2>2. CASE p = o /\ c = d /\ held'[p][c] = leases'[d] /\ leases'[d].owner = o
    BY <1>7, <2>2
  <2> QED BY <1>6, <2>1, <2>2
<1>9. LeaseInv'
  BY <1>1, <1>2, <1>3, <1>5, <1>7, <1>8 DEF LeaseInv
<1>10. TransactionInv'
  <2> DEFINE P == "Parameters"
             owned == leases'[d].owner = transaction.lease.owner
  <2>1. TransactionInv /\ P \in Domain
    BY LeaseIs DEF EditInv
  <2>2. transaction' = IF transaction.active /\ d = P
                       THEN [transaction EXCEPT !.alone = @ /\ owned] ELSE transaction
    BY DEF Acquire
  <2>3. owned \in BOOLEAN
    OBVIOUS
  <2> HIDE DEF owned
  <2>4. /\ transaction' = OfFields(transaction') /\ transaction'.alone \in BOOLEAN
        /\ transaction'.active = transaction.active /\ transaction'.lease = transaction.lease
        /\ transaction'.base = transaction.base /\ transaction'.basis = transaction.basis
        /\ transaction'.alone = IF transaction.active /\ d = P THEN transaction.alone /\ owned
                                ELSE transaction.alone
    <3>1. CASE transaction.active /\ d = P
      <4> DEFINE a == transaction.alone /\ owned
      <4>1. a \in BOOLEAN
        BY <2>1, <2>3 DEF TransactionInv
      <4>2. transaction' = [transaction EXCEPT !.alone = a]
        BY <2>2, <3>1
      <4>3. transaction' = [active |-> transaction.active, lease |-> transaction.lease,
                            expires |-> transaction.expires, base |-> transaction.base,
                            changes |-> transaction.changes, basis |-> transaction.basis, alone |-> a]
        <5> HIDE DEF a
        <5> QED BY <2>1, <4>2 DEF TransactionInv, OfFields
      <4>4. transaction'.alone = a
        BY <4>3
      <4> HIDE DEF a
      <4>5. /\ transaction' = OfFields(transaction')
            /\ transaction'.active = transaction.active /\ transaction'.lease = transaction.lease
            /\ transaction'.base = transaction.base /\ transaction'.basis = transaction.basis
        BY <4>3 DEF OfFields
      <4> QED BY <3>1, <4>1, <4>4, <4>5 DEF a
    <3>2. CASE ~(transaction.active /\ d = P)
      BY <2>1, <2>2, <3>2 DEF TransactionInv, OfFields
    <3> QED BY <3>1, <3>2
  <2>5. ASSUME transaction.active
        PROVE  LET l == transaction.lease
                   p == leases'[P]
               IN p # NoLease /\ p.generation = l.generation => p.owner = l.owner /\ transaction'.alone
    <3> DEFINE l == transaction.lease
               p == leases'[P]
    <3> SUFFICES ASSUME p # NoLease, p.generation = l.generation
                 PROVE  p.owner = l.owner /\ transaction'.alone
      OBVIOUS
    <3>1. /\ l \in Lease /\ l.generation \in Nat /\ l.generation <= generation
          /\ leases[P] # NoLease /\ leases[P].generation = l.generation
                => leases[P].owner = l.owner /\ transaction.alone
      BY <2>1, <2>5, LeaseIs DEF TransactionInv
    <3>2. /\ leases[P] # NoLease /\ p.generation = leases[P].generation /\ p.owner = leases[P].owner
      <4>1. CASE d = P
        BY <1>1, <1>2, <3>1, <4>1
      <4>2. CASE d # P
        BY <1>4, <2>1, <4>2
      <4> QED BY <4>1, <4>2
    <3>3. transaction.alone /\ p.owner = l.owner
      BY <3>1, <3>2
    <3>4. d = P => owned
      BY <3>3 DEF owned
    <3> QED BY <2>4, <3>3, <3>4
  <2>6. \A x \in Nat : x <= generation => x <= generation'
    BY <1>1, <1>2
  <2>7. transaction.active => transaction.lease \in Lease /\ transaction.lease.generation \in Nat
    BY <2>1, LeaseIs DEF TransactionInv
  <2> QED BY <1>3, <2>1, <2>4, <2>5, <2>6, <2>7 DEF TransactionInv
<1> QED BY <1>9, <1>10 DEF EditInv

\* The other calls of the manager make no lease.
LEMMA OthersKeep ==
  ASSUME EditInv,
         \/ \E o \in Origin, d \in Domain : Refresh(o, d) \/ Release(o, d)
         \/ Expire \/ \E o \in Origin : ReleaseOwner(o)
  PROVE  EditInv'
<1>1. /\ UNCHANGED <<now, mode, generation, held, transaction, values, revision>>
      /\ leases' \in [Domain -> Lease]
      /\ \A d \in Domain :
            \/ leases'[d] = NoLease
            \/ /\ leases'[d].generation = leases[d].generation /\ leases'[d].owner = leases[d].owner
               /\ leases'[d].epoch = leases[d].epoch /\ leases[d] # NoLease
  BY OthersTell DEF EditInv, environment, backendVars
<1>2. LeaseInv /\ generation \in Nat /\ mode.epoch \in Nat
  BY DEF EditInv, LeaseInv, ModeSnapshot
<1>3. LeaseInv'
  <2>1. \A d \in Domain : leases'[d].generation <= generation /\ leases'[d].epoch <= mode.epoch
    BY <1>1, <1>2, LeaseIs DEF LeaseInv
  <2>2. \A o \in Origin, d \in Domain :
          leases'[d].generation = held[o][d].generation /\ leases'[d] # NoLease => leases'[d].owner = o
    BY <1>1, <1>2 DEF LeaseInv
  <2> QED BY <1>1, <1>2, <2>1, <2>2 DEF LeaseInv
<1>4. TransactionInv'
  BY <1>1, LeaseIs DEF EditInv, TransactionInv, OfFields
<1> QED BY <1>3, <1>4 DEF EditInv

\* The calls of the transaction and of the backend leave the leases alone.
LEMMA TransactionKeeps ==
  ASSUME EditInv, UNCHANGED <<environment, leaseVars>>,
         \/ \E o \in Origin : Begin(o)
         \/ \E p \in Parameter, up, valid \in BOOLEAN : Stage(p, up, valid)
         \/ \E bench \in BOOLEAN : Apply(bench)
         \/ Rollback
         \/ \E p \in Parameter, v \in 0..Top : OtherWrite(p, v)
  PROVE  EditInv'
<1>1. UNCHANGED <<now, mode, leases, generation, held>>
  BY DEF environment, leaseVars
<1>2. LeaseInv /\ TransactionInv /\ LeaseInv' /\ generation \in Nat /\ "Parameters" \in Domain
  BY <1>1, LeaseIs DEF EditInv, LeaseInv
<1>3. ASSUME transaction' = NoTransaction, revision' \in Nat PROVE TransactionInv'
  BY <1>3 DEF TransactionInv, NoTransaction, OfFields
<1>4. ASSUME NEW o \in Origin, Begin(o) PROVE TransactionInv'
  <2> DEFINE l == held[o]["Parameters"]
             a == leases["Parameters"].owner \in {o, NoLease.owner}
  <2>1. /\ l # NoLease /\ UNCHANGED <<values, revision>>
        /\ transaction' = [active |-> TRUE, lease |-> l, expires |-> now + Ttl,
                            base |-> revision, changes |-> <<>>, basis |-> values, alone |-> a]
    BY <1>4 DEF Begin, backendVars
  <2>2. /\ l \in Lease /\ l.generation <= generation /\ l.owner = o
        /\ leases["Parameters"].generation = l.generation /\ leases["Parameters"] # NoLease
              => leases["Parameters"].owner = o
    BY <1>2, <2>1, LeaseIs DEF LeaseInv
  <2>3. a \in BOOLEAN
    OBVIOUS
  <2>4. leases["Parameters"].owner = o => a
    OBVIOUS
  <2>5. transaction'.alone = a
    BY <2>1
  <2> HIDE DEF l, a
  <2>6. /\ transaction' = OfFields(transaction') /\ transaction'.active = TRUE
        /\ transaction'.lease = l /\ transaction'.base = revision /\ transaction'.basis = values
    BY <2>1 DEF OfFields
  <2>7. revision \in Nat
    BY <1>2 DEF TransactionInv
  <2> QED BY <1>1, <2>1, <2>2, <2>3, <2>4, <2>5, <2>6, <2>7 DEF TransactionInv
<1>5. ASSUME NEW p \in Parameter, NEW up \in BOOLEAN, NEW valid \in BOOLEAN, Stage(p, up, valid)
      PROVE  TransactionInv'
  <2>1. /\ UNCHANGED <<values, revision>>
        /\ \E next : transaction' = [transaction EXCEPT !.changes =
             [q \in DOMAIN @ \cup {p} |-> IF q = p THEN next ELSE @[q]]]
    BY <1>5 DEF Stage, backendVars
  <2>2. PICK next : transaction' = [transaction EXCEPT !.changes =
             [q \in DOMAIN @ \cup {p} |-> IF q = p THEN next ELSE @[q]]]
    BY <2>1
  <2> DEFINE c == [q \in DOMAIN transaction.changes \cup {p} |->
                      IF q = p THEN next ELSE transaction.changes[q]]
  <2>3. transaction' = [transaction EXCEPT !.changes = c]
    BY <2>2
  <2> HIDE DEF c
  <2>4. transaction = OfFields(transaction)
    BY <1>2 DEF TransactionInv
  <2>5. transaction' = [active |-> transaction.active, lease |-> transaction.lease,
                        expires |-> transaction.expires, base |-> transaction.base,
                        changes |-> c, basis |-> transaction.basis, alone |-> transaction.alone]
    BY <2>3, <2>4 DEF OfFields
  <2>6. /\ transaction' = OfFields(transaction') /\ transaction'.active = transaction.active
        /\ transaction'.lease = transaction.lease /\ transaction'.base = transaction.base
        /\ transaction'.basis = transaction.basis /\ transaction'.alone = transaction.alone
    BY <2>5 DEF OfFields
  <2> QED BY <1>1, <1>2, <2>1, <2>6 DEF TransactionInv
<1>6. ASSUME NEW bench \in BOOLEAN, Apply(bench) PROVE TransactionInv'
  <2>1. transaction' = NoTransaction /\ revision' = revision + 1 /\ revision \in Nat
    BY <1>2, <1>6 DEF Apply, TransactionInv
  <2> QED BY <1>3, <2>1
<1>7. ASSUME Rollback PROVE TransactionInv'
  BY <1>2, <1>3, <1>7 DEF Rollback, TransactionInv, backendVars
<1>8. ASSUME NEW p \in Parameter, NEW v \in 0..Top, OtherWrite(p, v) PROVE TransactionInv'
  <2>1. transaction' = transaction /\ revision' = revision + 1 /\ revision \in Nat
    BY <1>2, <1>8 DEF OtherWrite, TransactionInv
  <2> QED BY <1>1, <1>2, <2>1 DEF TransactionInv
<1> QED BY <1>2, <1>4, <1>5, <1>6, <1>7, <1>8 DEF EditInv

\* Every step is one of them.
LEMMA EditSteps ==
  ASSUME EditNext
  PROVE  \/ Environment /\ UNCHANGED <<leaseVars, transaction, backendVars>>
         \/ \E o \in Origin, d \in Domain : Acquire(o, d)
         \/ \/ \E o \in Origin, d \in Domain : Refresh(o, d) \/ Release(o, d)
            \/ Expire \/ \E o \in Origin : ReleaseOwner(o)
         \/ /\ UNCHANGED <<environment, leaseVars>>
            /\ \/ \E o \in Origin : Begin(o)
               \/ \E p \in Parameter, up, valid \in BOOLEAN : Stage(p, up, valid)
               \/ \E bench \in BOOLEAN : Apply(bench)
               \/ Rollback
               \/ \E p \in Parameter, v \in 0..Top : OtherWrite(p, v)
<1>1. \A o \in Origin : /\ OwnerDisconnected(o) => Rollback
                        /\ Begin(o) => UNCHANGED <<environment, leaseVars>>
  BY DEF OwnerDisconnected, Begin
<1>2. \A p \in Parameter, up, valid \in BOOLEAN : Stage(p, up, valid) => UNCHANGED <<environment, leaseVars>>
  BY DEF Stage
<1>3. \A bench \in BOOLEAN : Apply(bench) => UNCHANGED <<environment, leaseVars>>
  BY DEF Apply
<1>4. \A p \in Parameter, v \in 0..Top : OtherWrite(p, v) => UNCHANGED <<environment, leaseVars>>
  BY DEF OtherWrite
<1>5. Rollback => UNCHANGED <<environment, leaseVars>>
  BY DEF Rollback
<1> QED BY <1>1, <1>2, <1>3, <1>4, <1>5 DEF EditNext

LEMMA EditInvInit == EditInit => EditInv
<1> SUFFICES ASSUME EditInit PROVE EditInv
  OBVIOUS
<1>1. /\ now = 0 /\ mode = [mode |-> "Disabled", enabled |-> FALSE, field |-> FALSE, epoch |-> 1]
      /\ leases = [d \in Domain |-> NoLease] /\ generation = 0
      /\ held = [o \in Origin |-> [d \in Domain |-> NoLease]]
      /\ transaction = NoTransaction /\ revision = 1
  BY DEF EditInit, EnvironmentInit
<1>2. LeaseInv
  <2>1. mode \in ModeSnapshot /\ mode.epoch = 1
    BY <1>1 DEF ModeSnapshot, Modes
  <2> QED BY <1>1, <2>1, LeaseIs DEF LeaseInv
<1>3. TransactionInv
  BY <1>1 DEF TransactionInv, NoTransaction, OfFields
<1> QED BY <1>2, <1>3 DEF EditInv

LEMMA EditInvStep == EditInv /\ [EditNext]_editVars => EditInv'
<1> SUFFICES ASSUME EditInv, [EditNext]_editVars PROVE EditInv'
  OBVIOUS
<1>1. CASE EditNext
  BY <1>1, EditSteps, EnvironmentKeeps, AcquireKeeps, OthersKeep, TransactionKeeps
<1>2. CASE UNCHANGED editVars
  BY <1>2 DEF editVars, environment, leaseVars, backendVars, EditInv, LeaseInv, TransactionInv, OfFields
<1> QED BY <1>1, <1>2

LEMMA EditInvariant == EditSpec => []EditInv
  BY EditInvInit, EditInvStep, PTL DEF EditSpec

\* What is staged is in the range of the registry, whatever it starts from.
LEMMA StagedInRange ==
  ASSUME NEW x \in Int PROVE Clamped(x) \in 0..Top
  BY EditAssumption DEF Clamped

\* The staged changes, and where they go, keep their types: what is applied is what
\* is staged, and what is staged starts from the values or from what was staged.
LEMMA EditTypeInit == EditInit => EditTypeOK
<1> SUFFICES ASSUME EditInit PROVE EditTypeOK
  OBVIOUS
<1>1. LeaseInv
  BY EditInvInit DEF EditInv
<1>2. /\ transaction = NoTransaction /\ values = [p \in Parameter |-> 0] /\ revision = 1
  BY DEF EditInit
<1>3. 0 \in 0..Top
  BY EditAssumption
<1>4. DOMAIN transaction.changes = {}
  BY <1>2 DEF NoTransaction
<1> QED BY <1>1, <1>2, <1>3, <1>4, LeaseIs DEF EditTypeOK, LeaseInv, NoTransaction

LEMMA EditTypeStep == EditInv /\ EditTypeOK /\ [EditNext]_editVars => EditTypeOK'
<1> SUFFICES ASSUME EditInv, EditTypeOK, [EditNext]_editVars PROVE EditTypeOK'
  OBVIOUS
<1> DEFINE OfTransaction ==
      /\ transaction.active \in BOOLEAN /\ transaction.lease \in Lease
      /\ transaction.expires \in Nat /\ transaction.base \in Nat
      /\ DOMAIN transaction.changes \subseteq Parameter
      /\ \A p \in DOMAIN transaction.changes : transaction.changes[p] \in 0..Top
      /\ (transaction.active => transaction.basis \in [Parameter -> 0..Top])
      /\ transaction.alone \in BOOLEAN
<1>1. LeaseInv' /\ TransactionInv' /\ transaction = OfFields(transaction)
  BY EditInvStep DEF EditInv, TransactionInv
<1>2. OfTransaction /\ values \in [Parameter -> 0..Top] /\ revision \in Nat
  BY DEF EditTypeOK
<1>3. ASSUME OfTransaction', values' \in [Parameter -> 0..Top] PROVE EditTypeOK'
  BY <1>1, <1>3 DEF LeaseInv, TransactionInv, EditTypeOK
<1>4. transaction' = NoTransaction => OfTransaction'
  <2>1. DOMAIN NoTransaction.changes = {}
    BY DEF NoTransaction
  <2> QED BY <2>1, LeaseIs DEF NoTransaction
<1>5. CASE UNCHANGED <<transaction, values>>
  BY <1>2, <1>3, <1>5
<1>6. ASSUME NEW o \in Origin, NEW d \in Domain, Acquire(o, d) PROVE EditTypeOK'
  <2>1. values' = values
    BY <1>6 DEF Acquire, backendVars
  <2>2. transaction' = transaction \/ \E a : transaction' = [transaction EXCEPT !.alone = a]
    BY <1>6 DEF Acquire
  <2>3. /\ transaction'.active = transaction.active /\ transaction'.lease = transaction.lease
        /\ transaction'.expires = transaction.expires /\ transaction'.base = transaction.base
        /\ transaction'.changes = transaction.changes /\ transaction'.basis = transaction.basis
    BY <1>1, <2>2 DEF OfFields
  <2>4. transaction'.alone \in BOOLEAN
    BY <1>1 DEF TransactionInv
  <2> QED BY <1>2, <1>3, <2>1, <2>3, <2>4
<1>7. ASSUME NEW o \in Origin, Begin(o) PROVE EditTypeOK'
  <2> DEFINE l == held[o]["Parameters"]
             a == leases["Parameters"].owner \in {o, NoLease.owner}
             none == <<>>
  <2>1. /\ values' = values
        /\ transaction' = [active |-> TRUE, lease |-> l, expires |-> now + Ttl,
                            base |-> revision, changes |-> none, basis |-> values, alone |-> a]
    BY <1>7 DEF Begin, backendVars
  <2>2. l \in Lease /\ now + Ttl \in Nat /\ a \in BOOLEAN /\ DOMAIN none = {}
    BY LeaseIs, EditAssumption DEF EditTypeOK
  <2> HIDE DEF l, a, none
  <2>3. OfTransaction'
    BY <1>2, <2>1, <2>2
  <2> QED BY <1>2, <1>3, <2>1, <2>3
<1>8. ASSUME NEW p \in Parameter, NEW up \in BOOLEAN, NEW valid \in BOOLEAN, Stage(p, up, valid)
      PROVE  EditTypeOK'
  <2> DEFINE staged == IF p \in DOMAIN transaction.changes THEN transaction.changes[p] ELSE values[p]
             next   == IF valid THEN Clamped(IF up THEN staged + 1 ELSE staged - 1) ELSE staged
             c      == [q \in DOMAIN transaction.changes \cup {p} |->
                           IF q = p THEN next ELSE transaction.changes[q]]
  <2>1. transaction' = [transaction EXCEPT !.changes = c] /\ values' = values
    BY <1>8 DEF Stage, backendVars
  <2>2. staged \in 0..Top
    BY <1>2
  <2>3. next \in 0..Top
    <3>1. staged + 1 \in Int /\ staged - 1 \in Int
      BY <2>2
    <3> HIDE DEF staged
    <3> QED BY <2>2, <3>1, StagedInRange
  <2> HIDE DEF staged, next
  <2>4. DOMAIN c \subseteq Parameter /\ \A q \in DOMAIN c : c[q] \in 0..Top
    BY <1>2, <2>3
  <2> HIDE DEF c
  <2>5. /\ transaction'.active = transaction.active /\ transaction'.lease = transaction.lease
        /\ transaction'.expires = transaction.expires /\ transaction'.base = transaction.base
        /\ transaction'.changes = c /\ transaction'.basis = transaction.basis
        /\ transaction'.alone = transaction.alone
    BY <1>1, <2>1 DEF OfFields
  <2>6. OfTransaction'
    BY <1>2, <2>4, <2>5
  <2> QED BY <1>2, <1>3, <2>1, <2>6
<1>9. ASSUME NEW bench \in BOOLEAN, Apply(bench) PROVE EditTypeOK'
  <2>1. /\ transaction' = NoTransaction
        /\ values' = [p \in Parameter |-> IF p \in DOMAIN transaction.changes
                                           THEN transaction.changes[p] ELSE values[p]]
    BY <1>9 DEF Apply
  <2>2. values' \in [Parameter -> 0..Top]
    BY <1>2, <2>1
  <2> QED BY <1>3, <1>4, <2>1, <2>2
<1>10. CASE Rollback
  BY <1>2, <1>3, <1>4, <1>10 DEF Rollback, backendVars
<1>11. ASSUME NEW p \in Parameter, NEW v \in 0..Top, OtherWrite(p, v) PROVE EditTypeOK'
  <2>1. transaction' = transaction /\ values' = [values EXCEPT ![p] = v]
    BY <1>11 DEF OtherWrite
  <2> QED BY <1>2, <1>3, <2>1
<1>12. ASSUME (Environment /\ UNCHANGED <<leaseVars, transaction, backendVars>>) \/ UNCHANGED editVars
       PROVE  UNCHANGED <<transaction, values>>
  BY <1>12 DEF editVars, backendVars
<1>13. ASSUME \/ \E o \in Origin, d \in Domain : Refresh(o, d) \/ Release(o, d)
              \/ Expire \/ \E o \in Origin : ReleaseOwner(o)
       PROVE  UNCHANGED <<transaction, values>>
  BY <1>13 DEF Refresh, Release, Expire, ReleaseOwner, backendVars
<1> HIDE DEF OfTransaction
<1> QED BY <1>5, <1>6, <1>7, <1>8, <1>9, <1>10, <1>11, <1>12, <1>13, EditSteps

\* Every variable keeps its type; what the backend holds stays in the range of the
\* registry, whatever is staged and written.
THEOREM EditTypeCorrect == EditSpec => []EditTypeOK
  BY EditInvariant, EditTypeInit, EditTypeStep, PTL DEF EditSpec

\* A transaction that is committed was edited alone, on values that nobody has changed
\* since: its base is the revision, and its lease the one that is held.
THEOREM CommitsAreIsolated == EditSpec => CommitIsolated
<1>1. EditInv /\ [EditNext]_editVars => [Commits => EditorAlone /\ NoLostUpdate]_editVars
  <2> SUFFICES ASSUME EditInv, EditNext, Commits PROVE EditorAlone /\ NoLostUpdate
    BY DEF Commits, editVars, backendVars
  <2>1. /\ transaction.active /\ ~transaction'.active /\ revision' # revision
    BY DEF Commits
  <2>2. revision' = revision \/ \E bench \in BOOLEAN : Apply(bench) \/ transaction' = transaction
    BY EditSteps DEF Acquire, Refresh, Release, Expire, ReleaseOwner, Begin, Stage, Rollback,
                     OtherWrite, backendVars
  <2>3. PICK bench \in BOOLEAN : Apply(bench)
    BY <2>1, <2>2
  <2>4. Accepted(bench)
    BY <2>3 DEF Apply
  <2>5. revision = transaction.base /\ Same(leases["Parameters"], transaction.lease)
    BY <2>4 DEF Accepted, Owns
  <2> QED BY <2>1, <2>5 DEF EditInv, TransactionInv, EditorAlone, NoLostUpdate, Same
<1> QED BY EditInvariant, <1>1, PTL DEF EditSpec, CommitIsolated

\* A copy of a lease that is void stays void: what is acquired has a new generation, an
\* epoch does not come back, and time is given to what has not run out.
THEOREM VoidLeasesStayVoid == EditSpec => LeaseStaysVoid
<1>1. EditInv /\ [EditNext]_editVars =>
        [\A o \in Origin, d \in Domain :
          held'[o][d] = held[o][d] /\ ~Owns(held[o][d], d) => ~Owns(held[o][d], d)']_editVars
  <2> SUFFICES ASSUME EditInv, EditNext, NEW o \in Origin, NEW d \in Domain,
                      held'[o][d] = held[o][d], Owns(held[o][d], d)'
               PROVE  Owns(held[o][d], d)
    OBVIOUS
  <2> DEFINE h == held[o][d]
  <2>1. /\ leases'[d] # NoLease /\ h # NoLease /\ leases'[d].owner = h.owner
        /\ leases'[d].generation = h.generation /\ leases'[d].epoch = h.epoch
        /\ leases'[d].epoch = mode'.epoch /\ now' <= leases'[d].expires
    BY DEF Owns, Same
  <2>2. /\ LeaseInv /\ h \in Lease /\ h.generation <= generation /\ generation \in Nat
        /\ h.generation \in Nat /\ mode.epoch \in Nat /\ now \in Nat
        /\ leases[d].epoch <= mode.epoch /\ leases[d] \in Lease
        /\ leases[d].expires \in Nat /\ leases[d].epoch \in Nat
    BY LeaseIs DEF EditInv, LeaseInv, ModeSnapshot
  <2> SUFFICES /\ leases[d] # NoLease /\ leases[d].owner = leases'[d].owner
               /\ leases[d].generation = leases'[d].generation /\ leases[d].epoch = leases'[d].epoch
               /\ leases[d].epoch = mode.epoch /\ now <= leases[d].expires
    BY <2>1 DEF Owns, Same
  <2>3. CASE Environment /\ UNCHANGED <<leaseVars, transaction, backendVars>>
    <3>1. leases' = leases /\ now' >= now /\ now' \in Nat /\ mode'.epoch >= mode.epoch /\ mode'.epoch \in Nat
      BY <2>2, <2>3, EnvironmentMoves DEF LeaseInv, leaseVars
    <3> QED BY <2>1, <2>2, <3>1
  <2>4. ASSUME NEW p \in Origin, NEW c \in Domain, Acquire(p, c)
        PROVE  /\ leases[d] # NoLease /\ leases[d].owner = leases'[d].owner
               /\ leases[d].generation = leases'[d].generation /\ leases[d].epoch = leases'[d].epoch
               /\ leases[d].epoch = mode.epoch /\ now <= leases[d].expires
    <3>1. CASE c # d
      <4>1. leases'[d] = Unexpired[d]
        BY <2>2, <2>4, <3>1, AcquireTells
      <4> QED BY <2>1, <2>2, <4>1, UnexpiredIs
    <3>2. CASE c = d
      BY <2>1, <2>2, <2>4, <3>2, AcquireTells
    <3> QED BY <3>1, <3>2
  <2>5. CASE \/ \E p \in Origin, c \in Domain : Refresh(p, c) \/ Release(p, c)
             \/ Expire \/ \E p \in Origin : ReleaseOwner(p)
    <3>1. /\ now' = now /\ mode' = mode
          /\ leases[d] # NoLease
          /\ leases'[d].generation = leases[d].generation /\ leases'[d].owner = leases[d].owner
          /\ leases'[d].epoch = leases[d].epoch
          /\ leases'[d] = leases[d] \/ now <= leases[d].expires
      BY <2>1, <2>2, <2>5, OthersTell DEF environment
    <3> QED BY <2>1, <3>1
  <2>6. CASE UNCHANGED <<environment, leaseVars>>
    BY <2>1, <2>6 DEF environment, leaseVars
  <2> QED BY <2>3, <2>4, <2>5, <2>6, EditSteps
<1> QED BY EditInvariant, <1>1, PTL DEF EditSpec, LeaseStaysVoid

-----------------------------------------------------------------------------
(* HmiEvents, for any actions, origins, epochs and capacity.               *)

\* The queue holds no event of a call that is still to come.
QueueInv ==
    /\ EventTypeOK /\ EventsKept
    /\ \A i \in 1..Len(queue) : queue[i].number <= pushes

\* The members of a sequence, by their places.
LEMMA RangeIs ==
  ASSUME NEW S, NEW s \in Seq(S)
  PROVE  /\ Len(s) \in Nat /\ DOMAIN s = 1..Len(s)
         /\ \A e : e \in Range(s) <=> \E i \in 1..Len(s) : s[i] = e
         /\ \A i \in 1..Len(s) : s[i] \in S
  BY LenProperties, ElementOfSeq DEF Range

\* A number below another is related to it.
LEMMA Below ==
  ASSUME NEW x \in Nat, NEW y \in Nat, x < y
  PROVE  <<x, y>> \in OpToRel(<, Nat)
<1>1. <<x, y>> \in Nat \X Nat /\ <<x, y>>[1] < <<x, y>>[2]
  OBVIOUS
<1> QED BY <1>1, Zenon DEF OpToRel

\* A place that SelectInSeq finds is one of navigation.
LEMMA EvictedIs ==
  ASSUME queue \in Seq(Event), Evicted # 0
  PROVE  Evicted \in 1..Len(queue) /\ coalescible(queue[Evicted])
<1> DEFINE I == {i \in 1..Len(queue) : coalescible(queue[i])}
<1>1. Evicted = IF I # {} THEN Min(I) ELSE 0
  BY DEF Evicted, SelectInSeq
<1>2. I # {} /\ Evicted = Min(I)
  BY <1>1
<1>3. I \subseteq Nat
  BY RangeIs
<1>4. PICK x \in I : \A y \in I : ~(<<y, x>> \in OpToRel(<, Nat))
  BY <1>2, <1>3, WFMin, NatLessThanWellFounded, Zenon
<1>5. \A y \in I : x =< y
  <2> SUFFICES ASSUME NEW y \in I, y < x PROVE FALSE
    BY <1>3
  <2>1. x \in Nat /\ y \in Nat
    BY <1>3
  <2>2. <<y, x>> \in OpToRel(<, Nat)
    BY <2>1, Below
  <2> QED BY <1>4, <2>2, Zenon
<1>6. Min(I) \in I
  BY <1>5 DEF Min
<1> QED BY <1>2, <1>6

\* A sequence in order has its first event first, and once.
LEMMA FirstOf ==
  ASSUME NEW s \in Seq(Event), s # <<>>, Ascending(s)
  PROVE  /\ Tail(s) \in Seq(Event) /\ Len(Tail(s)) = Len(s) - 1 /\ Len(s) \in Nat /\ Len(s) >= 1
         /\ Ascending(Tail(s)) /\ Head(s) = s[1] /\ Head(s) \in Range(s)
         /\ \A i \in 1..Len(Tail(s)) : Tail(s)[i] = s[i + 1]
         /\ \A e \in Range(s) : e # Head(s) => Head(s).number < e.number
         /\ Range(Tail(s)) = Range(s) \ {Head(s)}
<1>1. /\ Len(s) \in Nat /\ Len(s) >= 1 /\ DOMAIN s = 1..Len(s) /\ s # <<>>
  BY EmptySeq, LenProperties
<1>2. /\ Tail(s) \in Seq(Event) /\ Len(Tail(s)) = Len(s) - 1 /\ DOMAIN Tail(s) = 1..Len(Tail(s))
      /\ \A i \in 1..Len(Tail(s)) : Tail(s)[i] = s[i + 1]
  BY HeadTailProperties, LenProperties
<1>3. Head(s) = s[1]
  BY <1>1
<1>4. \A i \in 1..Len(s) : s[i].number \in Int
  <2>1. \A e \in Event : e.number \in Int
    BY DEF Event
  <2> QED BY <2>1, ElementOfSeq
<1>5. \A i, j \in 1..Len(s) : i < j => s[i].number < s[j].number
  BY <1>1 DEF Ascending
<1>6. Ascending(Tail(s))
  <2> SUFFICES ASSUME NEW i \in 1..Len(Tail(s)), NEW j \in 1..Len(Tail(s)), i < j
               PROVE  Tail(s)[i].number < Tail(s)[j].number
    BY <1>2 DEF Ascending
  <2>1. i + 1 \in 1..Len(s) /\ j + 1 \in 1..Len(s) /\ i + 1 < j + 1
    BY <1>1, <1>2
  <2> QED BY <1>2, <1>5, <2>1
<1>7. \A e : e \in Range(s) <=> \E i \in 1..Len(s) : s[i] = e
  BY RangeIs
<1>8. \A e : e \in Range(Tail(s)) <=> \E i \in 1..Len(Tail(s)) : Tail(s)[i] = e
  BY <1>2, RangeIs
<1>9. Head(s) \in Range(s)
  BY <1>1, <1>3, <1>7
<1>10. ASSUME NEW e \in Range(s), e # Head(s) PROVE Head(s).number < e.number
  <2>1. PICK i \in 1..Len(s) : s[i] = e
    BY <1>7
  <2>2. 1 < i /\ 1 \in 1..Len(s)
    BY <1>1, <1>3, <1>10, <2>1
  <2> QED BY <1>3, <1>5, <2>1, <2>2
<1>11. ASSUME NEW e PROVE e \in Range(Tail(s)) <=> e \in Range(s) /\ e # Head(s)
  <2>1. ASSUME e \in Range(Tail(s)) PROVE e \in Range(s) /\ e # Head(s)
    <3>1. PICK i \in 1..Len(Tail(s)) : Tail(s)[i] = e
      BY <1>8, <2>1
    <3>2. i + 1 \in 1..Len(s) /\ 1 \in 1..Len(s) /\ 1 < i + 1 /\ s[i + 1] = e
      BY <1>1, <1>2, <3>1
    <3>3. s[1].number < e.number /\ s[1].number \in Int
      BY <1>4, <1>5, <3>2
    <3> QED BY <1>3, <1>7, <3>2, <3>3
  <2>2. ASSUME e \in Range(s), e # Head(s) PROVE e \in Range(Tail(s))
    <3>1. PICK i \in 1..Len(s) : s[i] = e
      BY <1>7, <2>2
    <3>2. i - 1 \in 1..Len(Tail(s)) /\ i = (i - 1) + 1
      BY <1>1, <1>2, <1>3, <2>2, <3>1
    <3>3. Tail(s)[i - 1] = e
      BY <1>2, <3>1, <3>2
    <3> QED BY <1>8, <3>2, <3>3
  <2> QED BY <2>1, <2>2
<1> QED BY <1>1, <1>2, <1>3, <1>6, <1>9, <1>10, <1>11

\* A sequence in order, and an event that is later than all of it.
LEMMA AppendOf ==
  ASSUME NEW s \in Seq(Event), Ascending(s), NEW e \in Event,
         \A i \in 1..Len(s) : s[i].number < e.number
  PROVE  /\ Append(s, e) \in Seq(Event) /\ Len(Append(s, e)) = Len(s) + 1
         /\ Ascending(Append(s, e)) /\ Range(Append(s, e)) = Range(s) \cup {e}
         /\ \A i \in 1..Len(s) + 1 : Append(s, e)[i] = IF i <= Len(s) THEN s[i] ELSE e
<1> DEFINE t == Append(s, e)
<1>1. /\ t \in Seq(Event) /\ Len(t) = Len(s) + 1 /\ Len(s) \in Nat
      /\ DOMAIN t = 1..Len(s) + 1 /\ DOMAIN s = 1..Len(s)
      /\ \A i \in 1..Len(s) + 1 : t[i] = IF i <= Len(s) THEN s[i] ELSE e
  BY LenProperties, AppendProperties
<1> HIDE DEF t
<1>2. Ascending(t)
  BY <1>1 DEF Ascending
<1>3. ASSUME NEW x PROVE x \in Range(t) <=> x \in Range(s) \/ x = e
  <2>1. /\ x \in Range(s) <=> \E i \in 1..Len(s) : s[i] = x
        /\ x \in Range(t) <=> \E i \in 1..Len(s) + 1 : t[i] = x
    BY <1>1, RangeIs
  <2>2. Len(s) + 1 \in 1..Len(s) + 1 /\ t[Len(s) + 1] = e
    BY <1>1
  <2>3. \A i \in 1..Len(s) : i \in 1..Len(s) + 1 /\ t[i] = s[i]
    BY <1>1
  <2>4. \A i \in 1..Len(s) + 1 : i \in 1..Len(s) \/ i = Len(s) + 1
    BY <1>1
  <2> QED BY <2>1, <2>2, <2>3, <2>4
<1> QED BY <1>1, <1>2, <1>3 DEF t

\* A sequence in order without one of its events.
LEMMA RemoveOf ==
  ASSUME NEW s \in Seq(Event), Ascending(s), NEW k \in 1..Len(s)
  PROVE  /\ RemoveAt(s, k) \in Seq(Event) /\ Len(RemoveAt(s, k)) = Len(s) - 1
         /\ Ascending(RemoveAt(s, k)) /\ Range(RemoveAt(s, k)) = Range(s) \ {s[k]}
<1> DEFINE a == SubSeq(s, 1, k - 1)
           b == SubSeq(s, k + 1, Len(s))
           t == RemoveAt(s, k)
<1>1. Len(s) \in Nat /\ DOMAIN s = 1..Len(s) /\ \A i \in 1..Len(s) : s[i] \in Event
  BY RangeIs
<1>2. /\ a \in Seq(Event) /\ Len(a) = k - 1
      /\ \A i \in 1..k - 1 : a[i] = s[i]
  <2>1. \A i \in 1..k - 1 : s[i] \in Event
    BY <1>1
  <2>2. /\ a \in Seq(Event) /\ Len(a) = IF 1 <= k - 1 THEN k - 1 - 1 + 1 ELSE 0
        /\ \A i \in 1..k - 1 - 1 + 1 : a[i] = s[1 + i - 1]
    BY <2>1, SubSeqProperties
  <2> QED BY <1>1, <2>2
<1>3. /\ b \in Seq(Event) /\ Len(b) = Len(s) - k
      /\ \A i \in 1..Len(s) - k : b[i] = s[k + i]
  <2>1. \A i \in k + 1..Len(s) : s[i] \in Event
    BY <1>1
  <2>2. /\ b \in Seq(Event) /\ Len(b) = IF k + 1 <= Len(s) THEN Len(s) - (k + 1) + 1 ELSE 0
        /\ \A i \in 1..Len(s) - (k + 1) + 1 : b[i] = s[k + 1 + i - 1]
    BY <1>1, <2>1, SubSeqProperties
  <2> HIDE DEF b
  <2>3. Len(b) = Len(s) - k /\ Len(s) - (k + 1) + 1 = Len(s) - k
    <3>1. Len(s) \in Int /\ k \in Int /\ k <= Len(s)
      BY <1>1
    <3>2. Len(b) = IF k + 1 <= Len(s) THEN Len(s) - (k + 1) + 1 ELSE 0
      BY <2>2
    <3> QED BY <3>1, <3>2
  <2>4. ASSUME NEW i \in 1..Len(s) - k PROVE b[i] = s[k + i]
    <3>1. k + 1 + i - 1 = k + i
      OBVIOUS
    <3> QED BY <2>2, <2>3, <3>1
  <2> QED BY <2>2, <2>3, <2>4
<1>4. t = a \o b
  BY DEF RemoveAt
<1> HIDE DEF a, b, t
<1>5. /\ t \in Seq(Event) /\ Len(t) = Len(s) - 1 /\ DOMAIN t = 1..Len(s) - 1
      /\ \A i \in 1..Len(s) - 1 : t[i] = IF i < k THEN s[i] ELSE s[i + 1]
  <2>1. /\ t \in Seq(Event) /\ Len(t) = Len(a) + Len(b)
        /\ \A i \in 1..Len(a) + Len(b) : t[i] = IF i <= Len(a) THEN a[i] ELSE b[i - Len(a)]
    BY <1>2, <1>3, <1>4, ConcatProperties
  <2>2. Len(a) + Len(b) = Len(s) - 1
    BY <1>1, <1>2, <1>3
  <2>3. ASSUME NEW i \in 1..Len(s) - 1 PROVE t[i] = IF i < k THEN s[i] ELSE s[i + 1]
    <3>1. CASE i < k
      BY <1>1, <1>2, <2>1, <2>2, <3>1
    <3>2. CASE i >= k
      <4>1. i - (k - 1) \in 1..Len(s) - k /\ k + (i - (k - 1)) = i + 1
        BY <1>1, <3>2
      <4>2. t[i] = b[i - (k - 1)]
        BY <1>1, <1>2, <2>1, <2>2, <3>2
      <4>3. ~(i < k)
        BY <3>2
      <4> QED BY <1>3, <4>1, <4>2, <4>3
    <3> QED BY <3>1, <3>2
  <2> QED BY <2>1, <2>2, <2>3, LenProperties
<1>6. \A i, j \in 1..Len(s) : i < j => s[i].number < s[j].number
  BY <1>1 DEF Ascending
<1>7. Ascending(t)
  <2> SUFFICES ASSUME NEW i \in 1..Len(s) - 1, NEW j \in 1..Len(s) - 1, i < j
               PROVE  t[i].number < t[j].number
    BY <1>5 DEF Ascending
  <2>1. i \in 1..Len(s) /\ i + 1 \in 1..Len(s) /\ j \in 1..Len(s) /\ j + 1 \in 1..Len(s)
    BY <1>1
  <2>2. i < j + 1 /\ i + 1 < j + 1
    OBVIOUS
  <2> QED BY <1>5, <1>6, <2>1, <2>2
<1>8. ASSUME NEW x PROVE x \in Range(t) <=> x \in Range(s) /\ x # s[k]
  <2>1. /\ x \in Range(s) <=> \E i \in 1..Len(s) : s[i] = x
        /\ x \in Range(t) <=> \E i \in 1..Len(s) - 1 : t[i] = x
    BY <1>5, RangeIs
  <2>2. \A i \in 1..Len(s) : s[i].number \in Int
    BY <1>1 DEF Event
  <2>3. \A i \in 1..Len(s) : i # k => s[i] # s[k]
    BY <1>1, <1>6, <2>2
  <2>4. ASSUME NEW i \in 1..Len(s) - 1, t[i] = x PROVE x \in Range(s) /\ x # s[k]
    <3>1. CASE i < k
      <4>1. i \in 1..Len(s) /\ i # k /\ s[i] = x
        BY <1>1, <1>5, <2>4, <3>1
      <4> QED BY <2>1, <2>3, <4>1
    <3>2. CASE ~(i < k)
      <4>1. i + 1 \in 1..Len(s) /\ i + 1 # k /\ s[i + 1] = x
        BY <1>1, <1>5, <2>4, <3>2
      <4> QED BY <2>1, <2>3, <4>1
    <3> QED BY <3>1, <3>2
  <2>5. ASSUME NEW i \in 1..Len(s), s[i] = x, x # s[k] PROVE x \in Range(t)
    <3>1. CASE i < k
      <4>1. i \in 1..Len(s) - 1 /\ t[i] = x
        BY <1>1, <1>5, <2>5, <3>1
      <4> QED BY <2>1, <4>1
    <3>2. CASE i > k
      <4>1. i - 1 \in 1..Len(s) - 1 /\ ~(i - 1 < k) /\ (i - 1) + 1 = i
        BY <1>1, <3>2
      <4>2. t[i - 1] = x
        BY <1>5, <2>5, <4>1
      <4> QED BY <2>1, <4>1, <4>2
    <3> QED BY <2>5, <3>1, <3>2
  <2> QED BY <2>1, <2>4, <2>5
<1> QED BY <1>5, <1>7, <1>8 DEF t

-----------------------------------------------------------------------------
LEMMA EventTypes ==
  /\ Capacity \in Nat /\ Capacity >= 1 /\ MaxPushes \in Nat
  /\ \A e \in Event : e.number \in Int
  /\ \A e : e.action \in Critical => ~coalescible(e)
  BY QueueAssumption DEF Event, coalescible

\* push(): what is merged or evicted is navigation.
LEMMA PushKeeps == ASSUME QueueInv, NEW e \in Event, Push(e) PROVE QueueInv'
<1>0. /\ queue \in Seq(Event) /\ owed \in Seq(Event) /\ Len(queue) <= Capacity
      /\ dropped \in [navigation : Nat, critical : Nat] /\ pushes \in 0..MaxPushes
      /\ Ascending(queue) /\ Ascending(owed)
      /\ \A x : x \in Range(owed) <=> x \in Range(queue) /\ ~coalescible(x)
      /\ \A i \in 1..Len(queue) : queue[i].number <= pushes
  BY DEF QueueInv, EventTypeOK, EventsKept, InOrder, NoneLost
<1>1. pushes' = pushes + 1 /\ e.number = pushes + 1 /\ pushes < MaxPushes /\ pushes \in Int
  BY <1>0 DEF Push
<1>2. /\ Len(queue) \in Nat /\ DOMAIN queue = 1..Len(queue)
      /\ \A i \in 1..Len(queue) : queue[i] \in Event /\ queue[i].number \in Int /\ queue[i].number < e.number
      /\ \A x : x \in Range(queue) <=> \E i \in 1..Len(queue) : queue[i] = x
  BY <1>0, <1>1, RangeIs, EventTypes
<1>3. /\ Len(owed) \in Nat
      /\ \A i \in 1..Len(owed) : owed[i].number < e.number
  <2>1. \A i \in 1..Len(owed) : owed[i] \in Range(owed)
    BY <1>0, RangeIs
  <2> QED BY <1>0, <1>2, <2>1, RangeIs
<1>4. pushes' \in 0..MaxPushes
  BY <1>0, <1>1, EventTypes
\* In every case it is enough to know the queue and what is owed.
<1>5. ASSUME queue' \in Seq(Event), Len(queue') <= Capacity, Ascending(queue'),
             owed' \in Seq(Event), Ascending(owed'),
             dropped' \in [navigation : Nat, critical : Nat],
             \A x : x \in Range(owed') <=> x \in Range(queue') /\ ~coalescible(x),
             \A x \in Range(queue') : x = e \/ x \in Range(queue)
      PROVE  QueueInv'
  <2>1. \A i \in 1..Len(queue') : queue'[i] \in Range(queue')
    BY <1>5, RangeIs
  <2>2. \A i \in 1..Len(queue') : queue'[i].number <= pushes'
    <3> SUFFICES ASSUME NEW i \in 1..Len(queue') PROVE queue'[i].number <= pushes + 1
      BY <1>1
    <3>1. queue'[i] = e \/ \E j \in 1..Len(queue) : queue[j] = queue'[i]
      BY <1>2, <1>5, <2>1
    <3>2. \A j \in 1..Len(queue) : queue[j].number <= pushes + 1
      BY <1>0, <1>1, <1>2
    <3> QED BY <1>1, <3>1, <3>2
  <2>3. {x \in Range(queue') : ~coalescible(x)} = Range(owed')
    BY <1>5
  <2> QED BY <1>4, <1>5, <2>2, <2>3 DEF QueueInv, EventTypeOK, EventsKept, InOrder, NoneLost, Ascending, coalescible
<1>6. CASE Merged(e) # 0
  <2>1. /\ queue # <<>> /\ coalescible(e) /\ Alike(e, queue[Len(queue)])
        /\ Merged(e) = Len(queue)
    BY <1>6 DEF Merged, Last
  <2> DEFINE n == Len(queue)
  <2>2. n \in 1..n /\ coalescible(queue[n])
    BY <1>0, <1>2, <2>1, EmptySeq DEF Alike, coalescible
  <2>3. queue' = [queue EXCEPT ![n] = e] /\ dropped' = dropped /\ owed' = owed
    BY <1>6, <2>1 DEF Push
  <2>4. /\ queue' \in Seq(Event) /\ Len(queue') = n
        /\ \A j \in 1..n : queue'[j] = IF j = n THEN e ELSE queue[j]
    BY <1>0, <2>2, <2>3, ExceptSeq
  <2>5. DOMAIN queue' = 1..n
    BY <2>4, LenProperties
  <2>6. Ascending(queue')
    <3> SUFFICES ASSUME NEW i \in 1..n, NEW j \in 1..n, i < j
                 PROVE  queue'[i].number < queue'[j].number
      BY <2>5 DEF Ascending
    <3>1. i # n
      <4>1. n \in Int
        BY <1>2
      <4> HIDE DEF n
      <4> QED BY <4>1
    <3>2. queue'[i] = queue[i]
      BY <2>4, <3>1
    <3> QED BY <1>0, <1>2, <2>4, <3>1, <3>2 DEF Ascending
  <2>7. \A x : x \in Range(queue') <=> \E i \in 1..n : queue'[i] = x
    BY <2>4, RangeIs
  <2>8. \A x : x \in Range(queue') => x = e \/ x \in Range(queue)
    BY <1>2, <2>4, <2>7
  <2>9. \A x : x \in Range(queue) /\ ~coalescible(x) => x \in Range(queue')
    BY <1>2, <2>2, <2>4, <2>7
  <2>10. \A x : x \in Range(owed') <=> x \in Range(queue') /\ ~coalescible(x)
    BY <1>0, <2>1, <2>3, <2>8, <2>9
  <2> QED BY <1>0, <1>5, <2>3, <2>4, <2>6, <2>8, <2>10
<1>7. CASE Merged(e) = 0 /\ Len(queue) < Capacity
  <2>1. /\ queue' = Append(queue, e) /\ dropped' = dropped
        /\ owed' = IF coalescible(e) THEN owed ELSE Append(owed, e)
    BY <1>2, <1>7, EventTypes DEF Push
  <2>2. /\ queue' \in Seq(Event) /\ Len(queue') = Len(queue) + 1 /\ Ascending(queue')
        /\ Range(queue') = Range(queue) \cup {e}
    BY <1>0, <1>2, <2>1, AppendOf
  <2>3. /\ owed' \in Seq(Event) /\ Ascending(owed')
        /\ Range(owed') = IF coalescible(e) THEN Range(owed) ELSE Range(owed) \cup {e}
    BY <1>0, <1>3, <2>1, AppendOf
  <2>4. \A x : x \in Range(owed') <=> x \in Range(queue') /\ ~coalescible(x)
    BY <1>0, <2>2, <2>3
  <2>5. Len(queue') <= Capacity
    BY <1>2, <1>7, <2>2, EventTypes
  <2> QED BY <1>0, <1>5, <2>1, <2>2, <2>3, <2>4, <2>5
<1>8. CASE Merged(e) = 0 /\ Len(queue) >= Capacity /\ e.action \in Critical /\ Evicted # 0
  <2> DEFINE k == Evicted
             r == RemoveAt(queue, k)
  <2>1. /\ queue' = Append(r, e) /\ owed' = Append(owed, e)
        /\ dropped' = [dropped EXCEPT !.navigation = @ + 1]
    BY <1>2, <1>8, EventTypes DEF Push
  <2>2. k \in 1..Len(queue) /\ coalescible(queue[k])
    BY <1>0, <1>8, EvictedIs
  <2> HIDE DEF k
  <2>3. /\ r \in Seq(Event) /\ Len(r) = Len(queue) - 1 /\ Ascending(r)
        /\ Range(r) = Range(queue) \ {queue[k]}
    BY <1>0, <2>2, RemoveOf
  <2> HIDE DEF r
  <2>4. \A i \in 1..Len(r) : r[i].number < e.number
    <3>1. \A i \in 1..Len(r) : r[i] \in Range(r)
      BY <2>3, RangeIs
    <3> QED BY <1>2, <2>3, <3>1
  <2>5. /\ queue' \in Seq(Event) /\ Len(queue') = Len(r) + 1 /\ Ascending(queue')
        /\ Range(queue') = Range(r) \cup {e}
    BY <2>1, <2>3, <2>4, AppendOf
  <2>6. /\ owed' \in Seq(Event) /\ Ascending(owed') /\ Range(owed') = Range(owed) \cup {e}
    BY <1>0, <1>3, <2>1, AppendOf
  <2>7. ~coalescible(e)
    BY <1>8, EventTypes
  <2>8. \A x : x \in Range(owed') <=> x \in Range(queue') /\ ~coalescible(x)
    BY <1>0, <2>2, <2>3, <2>5, <2>6, <2>7
  <2>9. Len(queue') <= Capacity
    BY <1>0, <1>2, <2>3, <2>5
  <2>10. dropped' \in [navigation : Nat, critical : Nat]
    BY <1>0, <2>1
  <2> QED BY <1>5, <2>3, <2>5, <2>6, <2>8, <2>9, <2>10
<1>9. CASE /\ Merged(e) = 0 /\ Len(queue) >= Capacity
           /\ e.action \notin Critical \/ Evicted = 0
  <2>1. /\ queue' = queue /\ owed' = owed
        /\ \/ dropped' = [dropped EXCEPT !.navigation = @ + 1]
           \/ dropped' = [dropped EXCEPT !.critical = @ + 1]
    BY <1>2, <1>9, EventTypes DEF Push
  <2>2. dropped' \in [navigation : Nat, critical : Nat]
    BY <1>0, <2>1
  <2> QED BY <1>0, <1>5, <2>1, <2>2
<1>10. Len(queue) < Capacity \/ Len(queue) >= Capacity
  BY <1>2, EventTypes
<1> QED BY <1>6, <1>7, <1>8, <1>9, <1>10

\* pop(): the first of the queue is the first of what is owed, or navigation.
LEMMA PopKeeps == QueueInv /\ Pop => QueueInv'
<1> SUFFICES ASSUME QueueInv, Pop PROVE QueueInv'
  OBVIOUS
<1>0. /\ queue \in Seq(Event) /\ owed \in Seq(Event) /\ Len(queue) <= Capacity
      /\ dropped \in [navigation : Nat, critical : Nat] /\ pushes \in 0..MaxPushes
      /\ Ascending(queue) /\ Ascending(owed)
      /\ \A x : x \in Range(owed) <=> x \in Range(queue) /\ ~coalescible(x)
      /\ \A i \in 1..Len(queue) : queue[i].number <= pushes
  BY DEF QueueInv, EventTypeOK, EventsKept, InOrder, NoneLost
<1> DEFINE h == Head(queue)
<1>1. /\ queue # <<>> /\ queue' = Tail(queue) /\ dropped' = dropped /\ pushes' = pushes
      /\ owed' = IF coalescible(h) THEN owed ELSE Tail(owed)
  BY DEF Pop
<1>2. /\ queue' \in Seq(Event) /\ Len(queue') = Len(queue) - 1 /\ Len(queue) \in Nat /\ Len(queue) >= 1
      /\ Ascending(queue') /\ h \in Range(queue)
      /\ \A i \in 1..Len(queue') : queue'[i] = queue[i + 1]
      /\ \A x \in Range(queue) : x # h => h.number < x.number
      /\ Range(queue') = Range(queue) \ {h}
  BY <1>0, <1>1, FirstOf
<1> HIDE DEF h
<1>3. \A i \in 1..Len(queue') : queue'[i].number <= pushes'
  BY <1>0, <1>1, <1>2
<1>4. /\ owed' \in Seq(Event) /\ Ascending(owed')
      /\ \A x : x \in Range(owed') <=> x \in Range(queue') /\ ~coalescible(x)
  <2>1. CASE coalescible(h)
    BY <1>0, <1>1, <1>2, <2>1
  <2>2. CASE ~coalescible(h)
    <3>1. h \in Range(owed)
      BY <1>0, <1>2, <2>2
    <3>2. owed # <<>>
      <4> SUFFICES ASSUME owed = <<>> PROVE FALSE
        OBVIOUS
      <4>1. Len(owed) = 0 /\ \E i \in 1..Len(owed) : owed[i] = h
        BY <1>0, <3>1, RangeIs, EmptySeq
      <4> QED BY <4>1
    <3> DEFINE f == Head(owed)
    <3>3. /\ Tail(owed) \in Seq(Event) /\ Ascending(Tail(owed)) /\ f \in Range(owed)
          /\ \A x \in Range(owed) : x # f => f.number < x.number
          /\ Range(Tail(owed)) = Range(owed) \ {f}
      BY <1>0, <3>2, FirstOf
    <3> HIDE DEF f
    <3>4. f = h
      <4> SUFFICES ASSUME f # h PROVE FALSE
        OBVIOUS
      <4>1. f \in Range(queue) /\ h.number < f.number /\ f.number < h.number
        BY <1>0, <1>2, <3>1, <3>3
      <4>2. f.number \in Int /\ h.number \in Int
        BY <1>0, <1>2, <4>1, RangeIs, EventTypes
      <4> QED BY <4>1, <4>2
    <3> QED BY <1>0, <1>1, <1>2, <2>2, <3>3, <3>4
  <2> QED BY <2>1, <2>2
<1>5. Len(queue') <= Capacity
  BY <1>0, <1>2, EventTypes
<1>6. {x \in Range(queue') : ~coalescible(x)} = Range(owed')
  BY <1>4
<1> QED BY <1>0, <1>1, <1>2, <1>3, <1>4, <1>5, <1>6
     DEF QueueInv, EventTypeOK, EventsKept, InOrder, NoneLost, Ascending, coalescible

\* The inductive invariant.
LEMMA QueueInvInit == EventInit => QueueInv
<1> SUFFICES ASSUME EventInit PROVE QueueInv
  OBVIOUS
<1>1. /\ queue = <<>> /\ owed = <<>> /\ pushes = 0 /\ dropped \in [navigation : Nat, critical : Nat]
  BY DEF EventInit
<1>2. <<>> \in Seq(Event) /\ Len(<<>>) = 0 /\ DOMAIN <<>> = {}
  BY EmptySeq
<1>3. Ascending(queue) /\ Ascending(owed)
  BY <1>1, <1>2 DEF Ascending
<1>4. Range(queue) = {} /\ Range(owed) = {}
  BY <1>1, <1>2 DEF Range
<1> QED BY <1>1, <1>2, <1>3, <1>4, EventTypes DEF QueueInv, EventTypeOK, EventsKept, InOrder, NoneLost

LEMMA QueueInvStep == QueueInv /\ [EventNext]_eventVars => QueueInv'
<1>1. QueueInv /\ UNCHANGED eventVars => QueueInv'
  BY DEF eventVars, QueueInv, EventTypeOK, EventsKept, InOrder, NoneLost, Ascending, coalescible
<1> QED BY <1>1, PushKeeps, PopKeeps DEF EventNext

\* Nothing but navigation is lost, doubled or reordered, whatever is merged and evicted.
THEOREM EventsAreKept == EventSpec => []EventsKept
<1>1. QueueInv => EventsKept
  BY DEF QueueInv
<1> QED BY QueueInvInit, QueueInvStep, <1>1, PTL DEF EventSpec
=============================================================================
