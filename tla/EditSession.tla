----------------------------- MODULE EditSession -----------------------------
(***************************************************************************)
(* Editing parameters from two places, the Brain's screen and the          *)
(* controller: EditLeaseManager, ParameterTransaction and the backend.     *)
(*                                                                         *)
(* Each origin keeps a copy of the lease it was last given.  The calls     *)
(* come in any order, from any origin, with copies that may be stale; a    *)
(* call that is refused and leaves no trace is not a step.  The registry   *)
(* offers the parameters of Parameter, all of them editable.               *)
(***************************************************************************)
EXTENDS ModeAndTime, Integers, FiniteSets

CONSTANTS
    Origin,          \* HmiOrigin: the Brain and the controller
    Domain,          \* EditDomain: "Parameters" and others
    Parameter,       \* parameters that may be edited
    Top,             \* their values are 0..Top, the range of the registry
    Duration, Ttl,   \* of a lease, of a transaction
    MaxChanges,      \* changes one transaction holds
    MaxGeneration, MaxRevision   \* bounds of the model

ASSUME EditAssumption ==
    /\ "Parameters" \in Domain /\ "none" \notin Origin
    /\ Top \in Nat /\ Duration \in Nat \ {0} /\ Ttl \in Nat \ {0}
    /\ MaxChanges \in Nat \ {0} /\ MaxGeneration \in Nat /\ MaxRevision \in Nat

VARIABLES
    leases, generation,  \* EditLeaseManager
    held,                \* each origin's copy of its lease
    transaction,         \* ParameterTransaction, and its history: the values it began
                         \* with, and whether no other origin has held the lease since
    values, revision     \* the backend

leaseVars   == <<leases, generation, held>>
backendVars == <<values, revision>>
editVars    == <<environment, leaseVars, transaction, backendVars>>

-----------------------------------------------------------------------------
NoLease == [owner |-> "none", generation |-> 0, expires |-> 0, epoch |-> 0]
Lease   == [owner : Origin, generation : Nat \ {0}, expires : Nat, epoch : Nat] \cup {NoLease}

NoTransaction == [active |-> FALSE, lease |-> NoLease, expires |-> 0, base |-> 0,
                  changes |-> <<>>, basis |-> <<>>, alone |-> TRUE]

EditInit ==
    /\ EnvironmentInit
    /\ leases = [d \in Domain |-> NoLease] /\ generation = 0
    /\ held = [o \in Origin |-> [d \in Domain |-> NoLease]]
    /\ transaction = NoTransaction
    /\ values = [p \in Parameter |-> 0] /\ revision = 1

-----------------------------------------------------------------------------
(* EditLeaseManager.                                                       *)

Same(l, k) ==
    l # NoLease /\ k # NoLease /\ l.owner = k.owner /\ l.generation = k.generation
                /\ l.epoch = k.epoch

Owns(lease, d) ==
    Same(leases[d], lease) /\ leases[d].epoch = mode.epoch /\ now <= leases[d].expires

\* expire(), also the first thing acquire() does.
Unexpired == [d \in Domain |->
    IF leases[d].epoch # mode.epoch \/ now > leases[d].expires THEN NoLease ELSE leases[d]]

\* acquire(): a new lease, more time for the one there is, or a refusal.
Acquire(o, d) ==
    LET slot == Unexpired[d]
        fresh == [owner |-> o, generation |-> generation + 1,
                  expires |-> now + Duration, epoch |-> mode.epoch]
    IN /\ IF slot = NoLease
          THEN /\ generation < MaxGeneration /\ generation' = generation + 1
               /\ leases' = [Unexpired EXCEPT ![d] = fresh]
          ELSE /\ UNCHANGED generation
               /\ leases' = IF slot.owner = o
                            THEN [Unexpired EXCEPT ![d].expires = now + Duration]
                            ELSE Unexpired
       /\ held' = IF leases'[d].owner = o THEN [held EXCEPT ![o][d] = leases'[d]] ELSE held
       /\ transaction' = IF transaction.active /\ d = "Parameters"
                          THEN [transaction EXCEPT !.alone = @ /\ leases'[d].owner = transaction.lease.owner]
                          ELSE transaction
       /\ UNCHANGED <<environment, backendVars>>

\* Fault: a lease that has run out is given more time.
Refresh_Late(o, d) ==
    /\ Same(leases[d], held[o][d])
    /\ leases' = [leases EXCEPT ![d].expires = now + Duration]
    /\ UNCHANGED <<environment, generation, held, transaction, backendVars>>

\* refresh(): more time for a lease that has not run out.
Refresh(o, d) ==
    /\ Same(leases[d], held[o][d]) /\ now <= leases[d].expires
    /\ leases' = [leases EXCEPT ![d].expires = now + Duration]
    /\ UNCHANGED <<environment, generation, held, transaction, backendVars>>

\* release().
Release(o, d) ==
    /\ Same(leases[d], held[o][d])
    /\ leases' = [leases EXCEPT ![d] = NoLease]
    /\ UNCHANGED <<environment, generation, held, transaction, backendVars>>

\* expire(), called by itself.
Expire ==
    /\ leases' = Unexpired
    /\ UNCHANGED <<environment, generation, held, transaction, backendVars>>

\* releaseOwner().
ReleaseOwner(o) ==
    /\ leases' = [d \in Domain |-> IF leases[d].owner = o THEN NoLease ELSE leases[d]]
    /\ UNCHANGED <<environment, generation, held, transaction, backendVars>>

-----------------------------------------------------------------------------
(* ParameterTransaction.                                                   *)

\* begin(): it looks at the copy it is given only, and drops what was open.
Begin(o) ==
    LET lease == held[o]["Parameters"]
    IN /\ lease # NoLease /\ lease.epoch = mode.epoch /\ now <= lease.expires
       /\ transaction' = [active |-> TRUE, lease |-> lease, expires |-> now + Ttl,
                          base |-> revision, changes |-> <<>>, basis |-> values,
                          alone |-> leases["Parameters"].owner \in {o, NoLease.owner}]
       /\ UNCHANGED <<environment, leaseVars, backendVars>>

\* Fault: the upper bound is not applied.
Clamped_Below(x) == IF x < 0 THEN 0 ELSE x
Clamped(x) == IF x < 0 THEN 0 ELSE IF x > Top THEN Top ELSE x

\* stage(): the first change of a parameter starts from its current value, and
\* stays in the transaction even if the backend does not accept the new one.
Stage(p, up, valid) ==
    LET staged == IF p \in DOMAIN transaction.changes THEN transaction.changes[p] ELSE values[p]
        next   == IF valid THEN Clamped(IF up THEN staged + 1 ELSE staged - 1) ELSE staged
    IN /\ transaction.active
       /\ p \in DOMAIN transaction.changes
             \/ Cardinality(DOMAIN transaction.changes) < MaxChanges
       /\ transaction' = [transaction EXCEPT !.changes =
             [q \in DOMAIN @ \cup {p} |-> IF q = p THEN next ELSE @[q]]]
       /\ UNCHANGED <<environment, leaseVars, backendVars>>

\* hmiPermissionAllows(ApplyParameterTransaction): the bench bits are unlocked,
\* stationary and a fresh model.
Permitted(bench) == ~mode.enabled /\ mode.mode = "Disabled" /\ ~mode.field /\ bench

\* Fault: the revision is not compared.
Accepted_AnyRevision(bench) ==
    /\ Permitted(bench)
    /\ Owns(transaction.lease, "Parameters")
    /\ now <= transaction.expires

\* apply() sets no reject bit.
Accepted(bench) ==
    /\ Permitted(bench)
    /\ Owns(transaction.lease, "Parameters")
    /\ transaction.lease.epoch = mode.epoch
    /\ now <= transaction.expires
    /\ revision = transaction.base

\* apply() with a backend that takes all of it.
Apply(bench) ==
    /\ transaction.active /\ DOMAIN transaction.changes # {}
    /\ Accepted(bench)
    /\ revision < MaxRevision
    /\ values' = [p \in Parameter |-> IF p \in DOMAIN transaction.changes
                                      THEN transaction.changes[p] ELSE values[p]]
    /\ revision' = revision + 1
    /\ transaction' = NoTransaction
    /\ UNCHANGED <<environment, leaseVars>>

\* rollback(), and onModeEpochChanged() if the mode's owner calls it in time.
Rollback ==
    /\ transaction' = NoTransaction
    /\ UNCHANGED <<environment, leaseVars, backendVars>>

\* onOwnerDisconnected().
OwnerDisconnected(o) == transaction.lease.owner = o /\ Rollback

\* The backend's parameters change from elsewhere.
OtherWrite(p, v) ==
    /\ revision < MaxRevision
    /\ values' = [values EXCEPT ![p] = v] /\ revision' = revision + 1
    /\ UNCHANGED <<environment, leaseVars, transaction>>

EditNext ==
    \/ Environment /\ UNCHANGED <<leaseVars, transaction, backendVars>>
    \/ \E o \in Origin, d \in Domain : Acquire(o, d) \/ Refresh(o, d) \/ Release(o, d)
    \/ Expire
    \/ \E o \in Origin : ReleaseOwner(o) \/ OwnerDisconnected(o) \/ Begin(o)
    \/ \E p \in Parameter, up, valid \in BOOLEAN : Stage(p, up, valid)
    \/ \E bench \in BOOLEAN : Apply(bench)
    \/ Rollback
    \/ \E p \in Parameter, v \in 0..Top : OtherWrite(p, v)

EditSpec == EditInit /\ [][EditNext]_editVars

-----------------------------------------------------------------------------
(* Properties.                                                             *)

\* Types of the variables.
EditTypeOK ==
    /\ now \in Nat /\ mode \in ModeSnapshot
    /\ leases \in [Domain -> Lease] /\ generation \in Nat
    /\ held \in [Origin -> [Domain -> Lease]]
    /\ transaction.active \in BOOLEAN /\ transaction.lease \in Lease
    /\ transaction.expires \in Nat /\ transaction.base \in Nat
    /\ DOMAIN transaction.changes \subseteq Parameter
    /\ \A p \in DOMAIN transaction.changes : transaction.changes[p] \in 0..Top
    /\ (transaction.active => transaction.basis \in [Parameter -> 0..Top])
    /\ transaction.alone \in BOOLEAN
    /\ values \in [Parameter -> 0..Top] /\ revision \in Nat

Commits == /\ transaction.active /\ ~transaction'.active
           /\ revision' # revision

\* What is committed was edited alone, on values nobody changed: since its
\* transaction began, the other origin has not held the lease for a moment,
\* whatever lapses, releases, disconnections and new leases of the same owner lie
\* between, and the parameters it is applied to are those it was begun and staged
\* on, though it reads them long before.
EditorAlone  == transaction.alone
NoLostUpdate == values = transaction.basis
CommitIsolated == [][Commits => EditorAlone /\ NoLostUpdate]_editVars

\* A copy of a lease that is void stays void: time, epochs, refreshes and new
\* leases never bring it back.
LeaseStaysVoid ==
    [][\A o \in Origin, d \in Domain :
          held'[o][d] = held[o][d] /\ ~Owns(held[o][d], d) => ~Owns(held[o][d], d)']_editVars
=============================================================================
