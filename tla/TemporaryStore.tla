--------------------------- MODULE TemporaryStore ---------------------------
(***************************************************************************)
(* The per-transaction staging store of the Sui adapter                    *)
(* (sui-adapter/src/temporary_store.rs) and the engine sequence that       *)
(* drives it: the Move runtime's runs are merged into the execution        *)
(* results, native calls mutate, create and delete objects, and after      *)
(* execution the engine forces mutable inputs to be mutated, apportions    *)
(* storage rebates, conserves unmetered rebate into 0x5, checks SUI        *)
(* conservation and freezes the effects.                                   *)
(*                                                                         *)
(* Data is abstracted to what the properties tell apart: an object is its  *)
(* version, its storage_rebate field, its metering size and whether its    *)
(* previous_transaction is this transaction.  Digests of object contents   *)
(* are identified with versions (a (version, digest) pair of a pre-image   *)
(* is its version here).                                                   *)
(***************************************************************************)
EXTENDS Integers, FiniteSets, FiniteSetsExt

CONSTANTS
  Ids,               \* object ids the transaction can see or create
  InputIds,          \* ids of the transaction's input objects
  MutableInputIds,   \* inputs declared mutable (mutable_input_refs)
  GasCoin,           \* the primary gas coin, NoGas for system transactions
  SecondaryGasCoins, \* the other gas coins, smashed into GasCoin
  SystemStateId,     \* SUI_SYSTEM_STATE_OBJECT_ID (0x5)
  SystemStateInnerId,\* the dynamic-field child of 0x5 holding the state
  SystemPackageIds,  \* ids for which is_system_package holds
  Backing,           \* latest object of each id in the backing store
  Sizes,             \* sizes for gas metering that a write may produce
  StoragePrice,      \* storage cost per unit of size
  NonRefundableRate, \* percent of a released rebate kept by the protocol
  MaxVersion,        \* SequenceNumber::MAX
  MaxVMRuns,         \* bound on Move runtime runs in one transaction
  MockTransaction,   \* TRUE: built by new_for_mock_transaction
  DebugAssertions,   \* TRUE: debug_assert! aborts the transaction
  TxDigest,          \* this transaction's digest
  PriorDigest,       \* digest of the transaction that wrote a stored object
  NoObj, NoVer, NoGas

Versions == 0..MaxVersion
Obj == [ver : Versions, rebate : Nat, size : Sizes, prev : {TxDigest, PriorDigest}]
ChildMeta == [ver : Versions, rebate : Nat]

\* A system transaction carries no gas coin and its gas is unmetered.
Metered == GasCoin # NoGas

\* Objects of the backing store that are neither inputs nor system
\* packages: the dynamic-field children the Move runtime may load.
Children == {id \in Ids \ (InputIds \cup SystemPackageIds) : Backing[id] # NoObj}
\* Ids with no stored object, that only a creation can use.
Fresh == {id \in Ids : Backing[id] = NoObj}

\* InputObjects::lamport_timestamp: one more than every input version; the
\* mock variant uses MAX so that any dynamic field is old enough.
Lamport == IF MockTransaction THEN MaxVersion
           ELSE 1 + Max({Backing[i].ver : i \in InputIds})

ASSUME StoreAssumption ==
  /\ InputIds \subseteq Ids /\ MutableInputIds \subseteq InputIds
  /\ Backing \in [Ids -> Obj \cup {NoObj}]
  /\ \A i \in InputIds : Backing[i] # NoObj /\ Backing[i].ver < MaxVersion
  /\ GasCoin \in MutableInputIds \cup {NoGas}
  /\ SecondaryGasCoins \subseteq MutableInputIds \ {GasCoin}
  /\ ~Metered => {SystemStateId, SystemStateInnerId} \subseteq Ids /\ SecondaryGasCoins = {}
  /\ SystemPackageIds \subseteq Ids \ InputIds
  /\ \A p \in SystemPackageIds : Backing[p] # NoObj
  /\ NoObj \notin Obj \cup ChildMeta /\ NoVer \notin Versions /\ NoGas \notin Ids

\* What the proofs use of lamport_timestamp: it is a version.
ASSUME LamportBound == Lamport \in Versions

ASSUME ParameterAssumption ==
  /\ Sizes \subseteq Nat \ {0} /\ Sizes # {}
  /\ StoragePrice \in Nat /\ NonRefundableRate \in 0..100
  /\ MaxVersion \in Nat /\ MaxVMRuns \in Nat
  /\ MockTransaction \in BOOLEAN /\ DebugAssertions \in BOOLEAN

VARIABLES
  written,        \* execution_results.written_objects: id -> post-image
  created,        \* execution_results.created_object_ids
  deleted,        \* execution_results.deleted_object_ids
  modifiedAt,     \* execution_results.objects_modified_at: id -> version
  loadedChildren, \* loaded_child_objects: id -> (version, storage_rebate)
  charger,        \* the GasCharger's per-object storage tracking
  vmRuns,         \* Move runtime runs recorded so far
  phase           \* where the engine is in the transaction

vars == <<written, created, deleted, modifiedAt, loadedChildren, charger, vmRuns, phase>>

Phases == {"execution", "ensured", "collected", "rebated", "checked",
           "committed", "conservation_failed", "panicked"}

Written == {id \in Ids : written[id] # NoObj}
Modified == {id \in Ids : modifiedAt[id] # NoVer}

-----------------------------------------------------------------------------
(* Helpers of the store and of its collaborators.                          *)

\* read_object: the written post-image, else the input pre-image.
ReadObject(id) == IF written[id] # NoObj THEN written[id]
                  ELSE IF id \in InputIds THEN Backing[id] ELSE NoObj

\* read_child_object: the written post-image, else the backing store.
ReadChildObject(id) == IF written[id] # NoObj THEN written[id] ELSE Backing[id]

\* get_input_storage_rebate: input objects first, then loaded child
\* metadata, then the store by exact version; anything else panics.
InputRebateFound(id, v) ==
  \/ id \in InputIds
  \/ loadedChildren[id] # NoObj
  \/ Backing[id] # NoObj /\ Backing[id].ver = v
GetInputStorageRebate(id, v) ==
  IF id \in InputIds THEN Backing[id].rebate
  ELSE IF loadedChildren[id] # NoObj THEN loadedChildren[id].rebate
  ELSE Backing[id].rebate

\* GasCharger::track_storage_mutation: the new object's rebate is its
\* storage cost; an unmetered charger charges nothing.  The charger keeps
\* one entry per tracked object (its per-object storage record).
\* Mutant of TrackStorageMutation: the charger ignores that it is unmetered.
TrackStorageMutationAlwaysMetered(size) == size * StoragePrice
TrackStorageMutation(size) == IF Metered THEN size * StoragePrice ELSE 0
NonRefundable(r) == (r * NonRefundableRate) \div 100
TrackedOf(ch) == {id \in Ids : ch[id] # NoObj}
TrackedCostOf(ch) == MapThenSumSet(LAMBDA id : ch[id].cost, TrackedOf(ch))
TrackedRebateOf(ch) == MapThenSumSet(LAMBDA id : ch[id].rebate, TrackedOf(ch))
TrackedCost == TrackedCostOf(charger)
TrackedRebate == TrackedRebateOf(charger)
\* The storage part of the GasCostSummary, and the unmetered rebate.
GasSummary ==
  IF Metered
  THEN [storage_cost |-> TrackedCost,
        storage_rebate |-> TrackedRebate - NonRefundable(TrackedRebate),
        non_refundable_storage_fee |-> NonRefundable(TrackedRebate)]
  ELSE [storage_cost |-> 0, storage_rebate |-> 0, non_refundable_storage_fee |-> 0]
UnmeteredStorageRebate == IF Metered THEN 0 ELSE TrackedRebate

\* A written object's storage_rebate is a natural number, or the charger's
\* unmetered total once conserve_unmetered_storage_rebate moved it into 0x5.
StoreObj == [ver : Versions, rebate : Nat \cup {UnmeteredStorageRebate},
             size : Sizes, prev : {TxDigest, PriorDigest}]

TypeOK ==
  /\ written \in [Ids -> StoreObj \cup {NoObj}]
  /\ created \subseteq Ids /\ deleted \subseteq Ids
  /\ modifiedAt \in [Ids -> Versions \cup {NoVer}]
  /\ loadedChildren \in [Ids -> ChildMeta \cup {NoObj}]
  /\ charger \in [Ids -> [cost : Nat, rebate : Nat] \cup {NoObj}]
  /\ vmRuns \in 0..MaxVMRuns
  /\ phase \in Phases

\* mutate_input_object as a state change of the results (the unwrap on
\* mutable_input_refs is the caller's guard).
MutateInput(id, obj) ==
  /\ modifiedAt' = [modifiedAt EXCEPT ![id] = Backing[id].ver]
  /\ written' = [written EXCEPT ![id] = obj]

-----------------------------------------------------------------------------
(* Execution phase: the Move runtime and the native calls.                *)

\* What one run of the Move runtime may do to each object: the gas coin,
\* 0x5 and its inner state are only mutated, secondary gas coins were
\* smashed, deleted objects are never read again, fresh ids may be created.
VMMutable == {id \in (MutableInputIds \ SecondaryGasCoins) \cup Children : id \notin deleted}
VMRemovable == VMMutable \ {GasCoin, SystemStateId, SystemStateInnerId}
VMCreatable == Fresh \ created

\* A run ends with save_loaded_child_objects of the children it loaded and
\* record_execution_results, which merges its results: writes overwrite,
\* sets union, the first recorded pre-image version wins.
VMFinish ==
  /\ phase = "execution" /\ vmRuns < MaxVMRuns
  /\ \E M \in SUBSET VMMutable, D \in SUBSET VMRemovable,
        W \in SUBSET VMRemovable, C \in SUBSET VMCreatable :
     /\ M \cap D = {} /\ W \cap (M \cup D) = {}
     /\ \E sz \in [M \cup C -> Sizes] :
          written' = [id \in Ids |->
                        IF id \in M THEN [ReadChildObject(id) EXCEPT !.size = sz[id]]
                        ELSE IF id \in C
                             THEN [ver |-> 0, rebate |-> 0, size |-> sz[id], prev |-> TxDigest]
                        ELSE written[id]]
     /\ created' = created \cup C
     /\ deleted' = deleted \cup D
     /\ modifiedAt' = [id \in Ids |->
                         IF modifiedAt[id] = NoVer /\ id \in M \cup D \cup W
                         THEN ReadChildObject(id).ver ELSE modifiedAt[id]]
     /\ loadedChildren' = [id \in Ids |->
                             IF id \in (M \cup D \cup W) \cap Children
                             THEN [ver |-> ReadChildObject(id).ver,
                                   rebate |-> ReadChildObject(id).rebate]
                             ELSE loadedChildren[id]]
  /\ vmRuns' = vmRuns + 1
  /\ UNCHANGED <<charger, phase>>

\* Gas smashing and gas charging rewrite the primary gas coin through
\* read_object and mutate_input_object.
MutateInputObject(id) ==
  /\ phase = "execution" /\ id = GasCoin /\ id \in MutableInputIds
  /\ DebugAssertions => id \notin deleted
  /\ \E sz \in Sizes : MutateInput(id, [ReadObject(id) EXCEPT !.size = sz])
  /\ UNCHANGED <<created, deleted, loadedChildren, charger, vmRuns, phase>>

\* delete_input_object, called by gas smashing on the secondary coins.
DeleteInputObject(id) ==
  /\ phase = "execution" /\ id \in SecondaryGasCoins
  /\ DebugAssertions => written[id] = NoObj
  /\ modifiedAt' = [modifiedAt EXCEPT ![id] = Backing[id].ver]
  /\ deleted' = deleted \cup {id}
  /\ UNCHANGED <<written, created, loadedChildren, charger, vmRuns, phase>>

\* create_object: a created mutable object carries version MIN.
CreateObject(id) ==
  /\ phase = "execution" /\ id \in Fresh
  /\ \E sz \in Sizes :
       written' = [written EXCEPT ![id] = [ver |-> 0, rebate |-> 0, size |-> sz, prev |-> TxDigest]]
  /\ created' = created \cup {id}
  /\ UNCHANGED <<deleted, modifiedAt, loadedChildren, charger, vmRuns, phase>>

\* mutate_child_object: the old object's metadata becomes a loaded child,
\* its reference the pre-image, and the new object is written.
MutateChildObject(id, old, new) ==
  /\ loadedChildren' = [loadedChildren EXCEPT ![id] = [ver |-> old.ver, rebate |-> old.rebate]]
  /\ modifiedAt' = [modifiedAt EXCEPT ![id] = old.ver]
  /\ written' = [written EXCEPT ![id] = new]

\* advance_epoch_safe_mode: the old inner state comes from the backing
\* store and only its size may change.  The engine calls it right after
\* drop_writes of a failed advance-epoch run, so the results are empty.
AdvanceEpochSafeMode ==
  /\ phase = "execution" /\ ~Metered /\ Backing[SystemStateInnerId] # NoObj
  /\ Written = {} /\ Modified = {}
  /\ LET old == Backing[SystemStateInnerId] IN
     \E sz \in Sizes : MutateChildObject(SystemStateInnerId, old, [old EXCEPT !.size = sz])
  /\ UNCHANGED <<created, deleted, charger, vmRuns, phase>>

\* upgrade_system_package at epoch change: the pre-image is the latest
\* stored package.
UpgradeSystemPackage(id) ==
  /\ phase = "execution" /\ ~Metered /\ id \in SystemPackageIds
  /\ modifiedAt' = [modifiedAt EXCEPT ![id] = Backing[id].ver]
  /\ \E sz \in Sizes : written' = [written EXCEPT ![id] = [Backing[id] EXCEPT !.size = sz]]
  /\ UNCHANGED <<created, deleted, loadedChildren, charger, vmRuns, phase>>

\* Mutant of DropWrites: the deleted ids survive the reset.
DropWritesKeepingDeleted ==
  /\ phase = "execution"
  /\ written' = [id \in Ids |-> NoObj] /\ created' = {}
  /\ modifiedAt' = [id \in Ids |-> NoVer]
  /\ UNCHANGED <<deleted, loadedChildren, charger, vmRuns, phase>>

\* drop_writes / reset: the execution results are cleared.
DropWrites ==
  /\ phase = "execution"
  /\ written' = [id \in Ids |-> NoObj] /\ created' = {} /\ deleted' = {}
  /\ modifiedAt' = [id \in Ids |-> NoVer]
  /\ UNCHANGED <<loadedChildren, charger, vmRuns, phase>>

-----------------------------------------------------------------------------
(* After execution: the engine's sequence of calls on the store.          *)

\* Mutant of EnsureActiveInputsMutated: inputs not yet written are forced.
EnsureActiveInputsWritten ==
  /\ phase = "execution"
  /\ LET toBeUpdated == {id \in MutableInputIds : written[id] = NoObj} IN
     /\ modifiedAt' = [id \in Ids |-> IF id \in toBeUpdated THEN Backing[id].ver ELSE modifiedAt[id]]
     /\ written' = [id \in Ids |-> IF id \in toBeUpdated THEN Backing[id] ELSE written[id]]
  /\ phase' = "ensured"
  /\ UNCHANGED <<created, deleted, loadedChildren, charger, vmRuns>>

\* ensure_active_inputs_mutated: every mutable input without a recorded
\* pre-image is pushed, as its input image, through mutate_input_object.
EnsureActiveInputsMutated ==
  /\ phase = "execution"
  /\ LET toBeUpdated == {id \in MutableInputIds : modifiedAt[id] = NoVer} IN
     /\ modifiedAt' = [id \in Ids |-> IF id \in toBeUpdated THEN Backing[id].ver ELSE modifiedAt[id]]
     /\ written' = [id \in Ids |-> IF id \in toBeUpdated THEN Backing[id] ELSE written[id]]
  /\ phase' = "ensured"
  /\ UNCHANGED <<created, deleted, loadedChildren, charger, vmRuns>>

\* Mutant of OldStorageRebate: only input objects are looked up.
OldStorageRebateInputsOnly(id) ==
  IF modifiedAt[id] # NoVer /\ id \in InputIds THEN Backing[id].rebate ELSE 0

\* The old rebate of a written object: its pre-image's, or 0 if created.
OldStorageRebate(id) ==
  IF modifiedAt[id] # NoVer THEN GetInputStorageRebate(id, modifiedAt[id]) ELSE 0

\* collect_storage_and_rebate: stage the old rebates of the written
\* objects, track each written object at its new size and set its new
\* rebate, then collect_rebate tracks every modified object that is not
\* written at size 0.  A failed rebate lookup panics.
CollectStorageAndRebate ==
  /\ phase = "ensured"
  /\ IF \A id \in Modified : InputRebateFound(id, modifiedAt[id])
     THEN /\ written' = [id \in Ids |->
                           IF written[id] = NoObj THEN NoObj
                           ELSE [written[id] EXCEPT !.rebate = TrackStorageMutation(written[id].size)]]
          /\ charger' = [id \in Ids |->
                           IF id \in Written
                           THEN [cost |-> TrackStorageMutation(written[id].size),
                                 rebate |-> OldStorageRebate(id)]
                           ELSE IF id \in Modified
                           THEN [cost |-> 0, rebate |-> OldStorageRebate(id)]
                           ELSE charger[id]]
          /\ phase' = "collected"
     ELSE /\ phase' = "panicked"
          /\ UNCHANGED <<written, charger>>
  /\ UNCHANGED <<created, deleted, modifiedAt, loadedChildren, vmRuns>>

\* conserve_unmetered_storage_rebate: a nonzero unmetered rebate is put
\* into the storage_rebate of 0x5, which must have been 0.
ConserveUnmeteredStorageRebate ==
  /\ phase = "collected"
  /\ LET amount == UnmeteredStorageRebate
         wrapper == ReadObject(SystemStateId) IN
     IF amount = 0
     THEN phase' = "rebated" /\ UNCHANGED <<written, modifiedAt>>
     ELSE IF \/ wrapper = NoObj
             \/ DebugAssertions /\ SystemStateId \in deleted
             \/ wrapper.rebate # 0
             \/ SystemStateId \notin MutableInputIds
          THEN phase' = "panicked" /\ UNCHANGED <<written, modifiedAt>>
          ELSE /\ MutateInput(SystemStateId, [wrapper EXCEPT !.rebate = amount])
               /\ phase' = "rebated"
  /\ UNCHANGED <<created, deleted, loadedChildren, charger, vmRuns>>

\* The sums of check_sui_conserved over get_modified_objects: every
\* modified object contributes its input rebate, every written object its
\* output rebate.
TotalInputRebate ==
  MapThenSumSet(LAMBDA id : GetInputStorageRebate(id, modifiedAt[id]), Modified)
TotalOutputRebate == MapThenSumSet(LAMBDA id : written[id].rebate, Written)
SuiConserved(s) ==
  IF s.storage_cost = 0
  THEN TotalInputRebate = TotalOutputRebate + s.storage_rebate + s.non_refundable_storage_fee
  ELSE /\ TotalInputRebate = s.storage_rebate + s.non_refundable_storage_fee
       /\ s.storage_cost = TotalOutputRebate

\* check_sui_conserved with simple_conservation_checks enabled.
CheckSuiConserved ==
  /\ phase = "rebated"
  /\ phase' = IF SuiConserved(GasSummary) THEN "checked" ELSE "conservation_failed"
  /\ UNCHANGED <<written, created, deleted, modifiedAt, loadedChildren, charger, vmRuns>>

\* The three debug checks of check_invariants, on the stamped results.
CheckInvariants(w) ==
  /\ \A id \in Ids : w[id] # NoObj => id \notin deleted
  /\ \A id \in MutableInputIds : modifiedAt[id] # NoVer
  /\ \A id \in Ids : w[id] # NoObj => w[id].prev = TxDigest

\* update_version_and_previous_tx on one written object.
UpdateVersionAndPreviousTx(o) == [o EXCEPT !.ver = Lamport, !.prev = TxDigest]

\* into_effects: update_object_version_and_prev_tx stamps every written
\* object (then check_invariants runs in debug builds), and the gas coin's
\* post-image is read by index.
IntoEffects ==
  /\ phase = "checked"
  /\ LET stamped == [id \in Ids |->
                       IF written[id] = NoObj THEN NoObj
                       ELSE UpdateVersionAndPreviousTx(written[id])] IN
     IF \/ DebugAssertions /\ ~CheckInvariants(stamped)
        \/ GasCoin # NoGas /\ written[GasCoin] = NoObj
     THEN phase' = "panicked" /\ UNCHANGED written
     ELSE written' = stamped /\ phase' = "committed"
  /\ UNCHANGED <<created, deleted, modifiedAt, loadedChildren, charger, vmRuns>>

-----------------------------------------------------------------------------
Init ==
  /\ written = [id \in Ids |-> NoObj]
  /\ created = {} /\ deleted = {}
  /\ modifiedAt = [id \in Ids |-> NoVer]
  /\ loadedChildren = [id \in Ids |-> NoObj]
  /\ charger = [id \in Ids |-> NoObj]
  /\ vmRuns = 0
  /\ phase = "execution"

Next ==
  \/ VMFinish
  \/ \E id \in Ids : \/ MutateInputObject(id) \/ DeleteInputObject(id)
                     \/ CreateObject(id) \/ UpgradeSystemPackage(id)
  \/ AdvanceEpochSafeMode
  \/ DropWrites
  \/ EnsureActiveInputsMutated
  \/ CollectStorageAndRebate
  \/ ConserveUnmeteredStorageRebate
  \/ CheckSuiConserved
  \/ IntoEffects

Spec == Init /\ [][Next]_vars

-----------------------------------------------------------------------------
(* Properties.                                                             *)

\* Invariant 1 of the results (spec section 3): no object is both written
\* and deleted, whatever the order of runtime runs and native calls.
WrittenDeletedDisjoint == Written \cap deleted = {}

\* None of the store's modelled panics fires anywhere in the lifecycle: the
\* rebate lookup panic of collect_storage_and_rebate, the 0x5 expect, assert
\* and unwrap of conserve_unmetered_storage_rebate, the gas coin index and
\* the debug check_invariants of into_effects.  The two debug_asserts of
\* get_input_storage_rebate on the version and kind found are not modelled.
NoPanic == phase # "panicked"

\* check_sui_conserved never fails: the storage rebates of the modified
\* objects flow into the summary's rebate and non-refundable fee, and the
\* storage charged flows into the rebates of the written objects (or, for
\* a system transaction, into 0x5).
StorageRebateConserved == phase # "conservation_failed"

=============================================================================
