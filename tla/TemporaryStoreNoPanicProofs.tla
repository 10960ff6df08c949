--------------------- MODULE TemporaryStoreNoPanicProofs ---------------------
(***************************************************************************)
(* NoPanic for every value of the constants that satisfies the store's    *)
(* assumptions, for the transactions the engine builds: a system          *)
(* transaction that pays out an unmetered rebate takes 0x5 as a mutable   *)
(* input (the expect of conserve_unmetered_storage_rebate), and debug      *)
(* assertions meet at most one Move run (merge_two_runs shows two runs    *)
(* trip the written/deleted check of check_invariants).                   *)
(***************************************************************************)
EXTENDS TemporaryStoreProofs

\* A system transaction carries 0x5 as a mutable input.
SystemTxMutatesState == ~Metered => SystemStateId \in MutableInputIds

\* Debug builds run the Move runtime at most once per transaction.
DebugOneRun == DebugAssertions => MaxVMRuns <= 1

\* Every recorded pre-image has a rebate that get_input_storage_rebate finds.
RebateFound == \A id \in Modified : InputRebateFound(id, modifiedAt[id])

\* The gas coin and 0x5, when mutable inputs that are not smashed.
Guarded == ({GasCoin, SystemStateId} \cap MutableInputIds) \ SecondaryGasCoins

\* Until the rebates are moved, a guarded id with a pre-image is written:
\* nothing deletes or wraps it, and every mutation writes it.
GuardedWritten ==
  phase \in {"execution", "ensured", "collected"} =>
     \A id \in Guarded : modifiedAt[id] # NoVer => written[id] \in Obj

\* The gas coin's post-image survives until into_effects reads it.
GasKept == Metered /\ phase \in {"rebated", "checked"} => written[GasCoin] \in Obj

\* Once ensure_active_inputs_mutated ran, every mutable input has a pre-image.
AllModified == phase # "execution" => \A id \in MutableInputIds : modifiedAt[id] # NoVer

\* An unmetered charger leaves every written object with rebate 0.
UnmeteredZero ==
  ~Metered /\ phase = "collected" => \A id \in Written : written[id].rebate = 0

\* The inductive invariant of NoPanic.
PInv ==
  /\ TypeInv /\ NoPanic /\ RebateFound /\ GuardedWritten /\ GasKept
  /\ AllModified /\ UnmeteredZero /\ (DebugAssertions => DInv)

\* What each step must re-establish besides the type invariant and DInv.
PRest == NoPanic /\ RebateFound /\ GuardedWritten /\ GasKept /\ AllModified /\ UnmeteredZero

-----------------------------------------------------------------------------
(* Lemmas on objects and ids.                                              *)

\* Changing the size or the rebate of an object leaves an object, and no
\* object is the absent one.
LEMMA ObjUpdate ==
  ASSUME NEW o \in Obj, NEW sz \in Sizes, NEW r \in Nat
  PROVE  /\ [o EXCEPT !.size = sz] \in Obj /\ [o EXCEPT !.rebate = r] \in Obj
         /\ o # NoObj
BY StoreAssumption DEF Obj

\* A stored input, or what a run reads of an object it may mutate, is an
\* object while the transaction executes.
LEMMA ReadObj ==
  ASSUME TypeInv, ExecPhase, NEW id \in InputIds \cup VMMutable
  PROVE  ReadChildObject(id) \in Obj /\ (id \in InputIds => ReadObject(id) \in Obj)
<1>1. id \in Ids /\ Backing[id] \in Obj
  BY StoreAssumption, VMMutableStored, StoredTyped DEF VMMutable, Children
<1>2. written[id] \in Obj \cup {NoObj}
  BY <1>1 DEF TypeInv, ExecPhase
<1>. QED  BY <1>1, <1>2 DEF ReadObject, ReadChildObject

\* The guarded ids are mutable inputs that no run deletes or wraps, no
\* creation uses and no package upgrade writes.
LEMMA GuardedIds ==
  /\ Guarded \subseteq MutableInputIds /\ Guarded \subseteq InputIds
  /\ Guarded \cap VMRemovable = {} /\ Guarded \cap SecondaryGasCoins = {}
  /\ Guarded \cap Fresh = {} /\ Guarded \cap SystemPackageIds = {}
BY StoreAssumption DEF Guarded, VMRemovable, Fresh

\* The record get_input_storage_rebate reads for a loaded child is present.
LEMMA MetaPresent ==
  ASSUME NEW o \in Obj
  PROVE  [ver |-> o.ver, rebate |-> o.rebate] # NoObj
BY StoreAssumption DEF Obj, ChildMeta

\* An input always has a pre-image version.
LEMMA InputVersion ==
  ASSUME NEW id \in InputIds
  PROVE  Backing[id] \in Obj /\ Backing[id].ver \in Versions /\ Backing[id].ver # NoVer
BY StoreAssumption, StoredTyped DEF Obj

-----------------------------------------------------------------------------
(* The steps of the execution phase.                                       *)

\* A Move run records pre-images only for what it may mutate, which is an
\* input or a loaded child, and writes every guarded id it records.
LEMMA VMFinishRest ==
  ASSUME PInv, VMFinish
  PROVE  PRest'
<1>0. /\ TypeInv /\ phase = "execution" /\ phase' = phase /\ ExecPhase
      /\ RebateFound /\ GuardedWritten
  BY DEF VMFinish, PInv, ExecPhase
<1> PICK M \in SUBSET VMMutable, D \in SUBSET VMRemovable,
         W \in SUBSET VMRemovable, C \in SUBSET VMCreatable :
      /\ M \cap D = {} /\ W \cap (M \cup D) = {}
      /\ \E sz \in [M \cup C -> Sizes] :
           written' = [id \in Ids |->
                         IF id \in M THEN [ReadChildObject(id) EXCEPT !.size = sz[id]]
                         ELSE IF id \in C
                              THEN [ver |-> 0, rebate |-> 0, size |-> sz[id], prev |-> TxDigest]
                         ELSE written[id]]
      /\ created' = created \cup C
      /\ deleted' = deleted \cup D
      /\ modifiedAt' = [id \in Ids |->
                          IF modifiedAt[id] = NoVer /\ id \in M \cup D \cup W
                          THEN ReadChildObject(id).ver ELSE modifiedAt[id]]
      /\ loadedChildren' = [id \in Ids |->
                              IF id \in (M \cup D \cup W) \cap Children
                              THEN [ver |-> ReadChildObject(id).ver,
                                    rebate |-> ReadChildObject(id).rebate]
                              ELSE loadedChildren[id]]
  BY DEF VMFinish
<1>1. PICK sz \in [M \cup C -> Sizes] :
        written' = [id \in Ids |->
                      IF id \in M THEN [ReadChildObject(id) EXCEPT !.size = sz[id]]
                      ELSE IF id \in C
                           THEN [ver |-> 0, rebate |-> 0, size |-> sz[id], prev |-> TxDigest]
                      ELSE written[id]]
  OBVIOUS
<1>2. \A id \in M \cup D \cup W : ReadChildObject(id) \in Obj /\ id \in Ids
  <2> SUFFICES ASSUME NEW id \in M \cup D \cup W
               PROVE  ReadChildObject(id) \in Obj /\ id \in Ids
    OBVIOUS
  <2>1. id \in VMMutable
    BY DEF VMRemovable
  <2>2. id \in Ids
    BY <2>1, StoreAssumption DEF VMMutable, Children
  <2>. QED  BY <1>0, <2>1, <2>2, ReadObj
<1>3. \A id \in Ids : loadedChildren[id] # NoObj => loadedChildren'[id] # NoObj
  BY <1>2, MetaPresent
<1>4. RebateFound'
  <2> SUFFICES ASSUME NEW id \in Ids, modifiedAt'[id] # NoVer
               PROVE  InputRebateFound(id, modifiedAt[id])'
    BY DEF RebateFound, Modified
  <2>1. CASE modifiedAt[id] = NoVer /\ id \in M \cup D \cup W
    <3>1. id \in InputIds \/ id \in Children
      BY <2>1, StoreAssumption DEF VMRemovable, VMMutable
    <3>2. id \in Children => loadedChildren'[id] # NoObj
      BY <1>2, <2>1, MetaPresent
    <3>3. modifiedAt'[id] = ReadChildObject(id).ver
      BY <2>1
    <3>. QED  BY <3>1, <3>2, <3>3 DEF InputRebateFound
  <2>2. CASE ~(modifiedAt[id] = NoVer /\ id \in M \cup D \cup W)
    <3>1. modifiedAt'[id] = modifiedAt[id] /\ modifiedAt[id] # NoVer
      BY <2>2
    <3>2. InputRebateFound(id, modifiedAt[id])
      BY <1>0, <3>1 DEF RebateFound, Modified
    <3>. QED  BY <1>3, <3>1, <3>2 DEF InputRebateFound
  <2>. QED  BY <2>1, <2>2
<1>5. GuardedWritten'
  <2> SUFFICES ASSUME NEW id \in Guarded, modifiedAt'[id] # NoVer
               PROVE  written'[id] \in Obj
    BY <1>0 DEF GuardedWritten
  <2>1. id \in Ids /\ id \notin D \cup W /\ id \notin C
    BY GuardedIds, StoreAssumption DEF VMCreatable
  <2>2. CASE id \in M
    BY <1>1, <1>2, <2>1, <2>2, ObjUpdate
  <2>3. CASE id \notin M
    <3>1. written'[id] = written[id] /\ modifiedAt[id] # NoVer
      BY <1>1, <2>1, <2>3
    <3>. QED  BY <1>0, <3>1 DEF GuardedWritten
  <2>. QED  BY <2>2, <2>3
<1>. QED  BY <1>0, <1>4, <1>5 DEF PRest, NoPanic, GasKept, AllModified, UnmeteredZero

\* Gas smashing and charging rewrite the gas coin, an input, in place.
LEMMA MutateInputObjectRest ==
  ASSUME PInv, NEW g \in Ids, MutateInputObject(g)
  PROVE  PRest'
<1>0. /\ TypeInv /\ phase = "execution" /\ phase' = phase /\ ExecPhase
      /\ RebateFound /\ GuardedWritten /\ g \in InputIds
      /\ loadedChildren' = loadedChildren
  BY StoreAssumption DEF MutateInputObject, PInv, ExecPhase
<1>1. PICK sz \in Sizes : MutateInput(g, [ReadObject(g) EXCEPT !.size = sz])
  BY DEF MutateInputObject
<1>2. written'[g] \in Obj /\ modifiedAt' = [modifiedAt EXCEPT ![g] = Backing[g].ver]
  <2>1. ReadObject(g) \in Obj
    BY <1>0, ReadObj
  <2>2. [ReadObject(g) EXCEPT !.size = sz] \in Obj
    BY <2>1, ObjUpdate
  <2>3. written \in [Ids -> Obj \cup {NoObj}]
    BY <1>0 DEF TypeInv, ExecPhase
  <2>. QED  BY <1>1, <2>2, <2>3 DEF MutateInput
<1>3. \A id \in Ids \ {g} : written'[id] = written[id] /\ modifiedAt'[id] = modifiedAt[id]
  BY <1>1 DEF MutateInput, TypeInv, TypeOK
<1>4. RebateFound'
  BY <1>0, <1>2, <1>3 DEF RebateFound, Modified, InputRebateFound
<1>5. GuardedWritten'
  <2>. SUFFICES ASSUME NEW id \in Guarded, modifiedAt'[id] # NoVer
                PROVE  written'[id] \in Obj
    BY <1>0 DEF GuardedWritten
  <2>1. id \in Ids
    BY GuardedIds, StoreAssumption
  <2>2. CASE id = g
    BY <1>2, <2>2
  <2>3. CASE id # g
    BY <1>0, <1>3, <2>1, <2>3 DEF GuardedWritten
  <2>. QED  BY <2>2, <2>3
<1>. QED  BY <1>0, <1>4, <1>5 DEF PRest, NoPanic, GasKept, AllModified, UnmeteredZero

\* delete_input_object records the pre-image of a smashed coin, an input
\* that is never guarded.
LEMMA DeleteInputObjectRest ==
  ASSUME PInv, NEW x \in Ids, DeleteInputObject(x)
  PROVE  PRest'
<1>0. /\ phase = "execution" /\ phase' = phase
      /\ RebateFound /\ GuardedWritten /\ x \in InputIds /\ x \notin Guarded
      /\ written' = written /\ loadedChildren' = loadedChildren
      /\ modifiedAt' = [modifiedAt EXCEPT ![x] = Backing[x].ver]
      /\ modifiedAt \in [Ids -> Versions \cup {NoVer}]
  BY StoreAssumption, GuardedIds DEF DeleteInputObject, PInv, TypeInv, TypeOK
<1>1. RebateFound'
  BY <1>0 DEF RebateFound, Modified, InputRebateFound
<1>2. GuardedWritten'
  BY <1>0, GuardedIds DEF GuardedWritten
<1>. QED  BY <1>0, <1>1, <1>2 DEF PRest, NoPanic, GasKept, AllModified, UnmeteredZero

\* create_object writes a fresh id, which is never guarded.
LEMMA CreateObjectRest ==
  ASSUME PInv, NEW x \in Ids, CreateObject(x)
  PROVE  PRest'
<1>0. /\ phase = "execution" /\ phase' = phase
      /\ RebateFound /\ GuardedWritten /\ x \notin Guarded
      /\ modifiedAt' = modifiedAt /\ loadedChildren' = loadedChildren
      /\ \A id \in Ids \ {x} : written'[id] = written[id]
  BY GuardedIds DEF CreateObject, PInv, TypeInv, TypeOK
<1>1. RebateFound'
  BY <1>0 DEF RebateFound, Modified, InputRebateFound
<1>2. GuardedWritten'
  BY <1>0, GuardedIds, StoreAssumption DEF GuardedWritten, Guarded
<1>. QED  BY <1>0, <1>1, <1>2 DEF PRest, NoPanic, GasKept, AllModified, UnmeteredZero

\* advance_epoch_safe_mode, on empty results, loads 0x5's inner state as
\* a child and writes it.
LEMMA AdvanceEpochRest ==
  ASSUME PInv, AdvanceEpochSafeMode
  PROVE  PRest'
<1> DEFINE inner == SystemStateInnerId
           old == Backing[SystemStateInnerId]
<1>0. /\ phase = "execution" /\ phase' = phase /\ Modified = {}
      /\ inner \in Ids /\ old \in Obj
  BY StoreAssumption, StoredTyped DEF AdvanceEpochSafeMode, Metered
<1>1. PICK sz \in Sizes : MutateChildObject(inner, old, [old EXCEPT !.size = sz])
  BY DEF AdvanceEpochSafeMode
<1>2. /\ written'[inner] \in Obj /\ loadedChildren'[inner] # NoObj
      /\ \A id \in Ids \ {inner} : modifiedAt'[id] = NoVer
      /\ \A id \in Ids : modifiedAt'[id] # NoVer => id = inner
  BY <1>0, <1>1, ObjUpdate, MetaPresent DEF MutateChildObject, Modified, PInv, TypeInv, TypeOK
<1>3. RebateFound'
  BY <1>2 DEF RebateFound, Modified, InputRebateFound
<1>4. GuardedWritten'
  <2>. SUFFICES ASSUME NEW id \in Guarded, modifiedAt'[id] # NoVer
                PROVE  written'[id] \in Obj
    BY DEF GuardedWritten
  <2>1. id \in Ids
    BY GuardedIds, StoreAssumption
  <2>. QED  BY <1>2, <2>1
<1>. QED  BY <1>0, <1>3, <1>4 DEF PRest, NoPanic, GasKept, AllModified, UnmeteredZero

\* upgrade_system_package records the stored package's version, which the
\* rebate lookup finds by exact version.
LEMMA UpgradeRest ==
  ASSUME PInv, NEW x \in Ids, UpgradeSystemPackage(x)
  PROVE  PRest'
<1>0. /\ phase = "execution" /\ phase' = phase
      /\ RebateFound /\ GuardedWritten /\ x \notin Guarded
      /\ Backing[x] # NoObj /\ loadedChildren' = loadedChildren
      /\ modifiedAt' = [modifiedAt EXCEPT ![x] = Backing[x].ver]
      /\ \A id \in Ids \ {x} : written'[id] = written[id]
      /\ modifiedAt \in [Ids -> Versions \cup {NoVer}]
  BY StoreAssumption, GuardedIds DEF UpgradeSystemPackage, PInv, TypeInv, TypeOK
<1>1. RebateFound'
  BY <1>0 DEF RebateFound, Modified, InputRebateFound
<1>2. GuardedWritten'
  <2>. SUFFICES ASSUME NEW id \in Guarded, modifiedAt'[id] # NoVer
                PROVE  written'[id] \in Obj
    BY <1>0 DEF GuardedWritten
  <2>1. id \in Ids /\ id # x
    BY <1>0, GuardedIds, StoreAssumption
  <2>2. modifiedAt'[id] = modifiedAt[id] /\ written'[id] = written[id]
    BY <1>0, <2>1
  <2>. QED  BY <1>0, <2>2 DEF GuardedWritten
<1>. QED  BY <1>0, <1>1, <1>2 DEF PRest, NoPanic, GasKept, AllModified, UnmeteredZero

\* drop_writes clears every pre-image.
LEMMA DropWritesRest ==
  ASSUME PInv, DropWrites
  PROVE  PRest'
<1>0. phase = "execution" /\ phase' = phase /\ modifiedAt' = [id \in Ids |-> NoVer]
  BY DEF DropWrites
<1>1. Modified' = {}
  BY <1>0 DEF Modified
<1>2. RebateFound'
  BY <1>1 DEF RebateFound
<1>3. GuardedWritten'
  BY <1>0, GuardedIds, StoreAssumption DEF GuardedWritten
<1>. QED  BY <1>0, <1>2, <1>3 DEF PRest, NoPanic, GasKept, AllModified, UnmeteredZero

-----------------------------------------------------------------------------
(* The engine's calls after execution.                                     *)

\* ensure_active_inputs_mutated gives every mutable input a pre-image and
\* writes the ones it forces as their input image.
LEMMA EnsureRest ==
  ASSUME PInv, EnsureActiveInputsMutated
  PROVE  PRest'
<1> DEFINE toBeUpdated == {id \in MutableInputIds : modifiedAt[id] = NoVer}
<1>0. /\ phase = "execution" /\ phase' = "ensured" /\ RebateFound /\ GuardedWritten
      /\ toBeUpdated \subseteq InputIds /\ loadedChildren' = loadedChildren
      /\ modifiedAt' = [id \in Ids |-> IF id \in toBeUpdated THEN Backing[id].ver ELSE modifiedAt[id]]
      /\ written' = [id \in Ids |-> IF id \in toBeUpdated THEN Backing[id] ELSE written[id]]
  BY StoreAssumption DEF EnsureActiveInputsMutated, PInv
<1>1. RebateFound'
  <2>. SUFFICES ASSUME NEW id \in Modified' PROVE InputRebateFound(id, modifiedAt[id])'
    BY DEF RebateFound
  <2>1. id \in Ids
    BY DEF Modified
  <2>2. CASE id \in toBeUpdated
    BY <1>0, <2>2 DEF InputRebateFound
  <2>3. CASE id \notin toBeUpdated
    BY <1>0, <2>1, <2>3 DEF RebateFound, Modified, InputRebateFound
  <2>. QED  BY <2>2, <2>3
<1>2. GuardedWritten'
  <2>. SUFFICES ASSUME NEW id \in Guarded, modifiedAt'[id] # NoVer
                PROVE  written'[id] \in Obj
    BY <1>0 DEF GuardedWritten
  <2>1. id \in Ids
    BY GuardedIds, StoreAssumption
  <2>2. CASE id \in toBeUpdated
    BY <1>0, <2>1, <2>2, InputVersion
  <2>3. CASE id \notin toBeUpdated
    BY <1>0, <2>1, <2>3 DEF GuardedWritten
  <2>. QED  BY <2>2, <2>3
<1>3. AllModified'
  <2>. SUFFICES ASSUME NEW id \in MutableInputIds PROVE modifiedAt'[id] # NoVer
    BY DEF AllModified
  <2>. QED  BY <1>0, InputVersion, StoreAssumption
<1>. QED  BY <1>0, <1>1, <1>2, <1>3 DEF PRest, NoPanic, GasKept, UnmeteredZero

\* collect_storage_and_rebate finds every old rebate and sets the new
\* ones, which an unmetered charger makes 0.
LEMMA CollectRest ==
  ASSUME PInv, CollectStorageAndRebate
  PROVE  PRest'
<1>0. /\ phase = "ensured" /\ RebateFound /\ GuardedWritten /\ AllModified
      /\ written \in [Ids -> Obj \cup {NoObj}]
      /\ UNCHANGED <<modifiedAt, loadedChildren>>
  BY DEF CollectStorageAndRebate, PInv, TypeInv, ExecPhase
<1>1. /\ phase' = "collected"
      /\ written' = [id \in Ids |->
                       IF written[id] = NoObj THEN NoObj
                       ELSE [written[id] EXCEPT !.rebate = TrackStorageMutation(written[id].size)]]
  BY <1>0 DEF CollectStorageAndRebate, RebateFound
<1>2. ASSUME NEW id \in Ids, written[id] # NoObj
      PROVE  /\ written'[id] \in Obj
             /\ ~Metered => written'[id].rebate = 0
  <2>0. written[id] \in Obj
    BY <1>0, <1>2
  <2>1. TrackStorageMutation(written[id].size) \in Nat
    <3>1. written[id].size \in Nat
      BY <2>0, ParameterAssumption DEF Obj
    <3>. QED  BY <3>1, ParameterAssumption DEF TrackStorageMutation
  <2>2. written'[id] = [written[id] EXCEPT !.rebate = TrackStorageMutation(written[id].size)]
    BY <1>1, <1>2
  <2>3. written'[id] \in Obj
    BY <2>0, <2>1, <2>2 DEF Obj
  <2>4. written'[id].rebate = TrackStorageMutation(written[id].size)
    BY <2>0, <2>2 DEF Obj
  <2>. QED  BY <2>3, <2>4 DEF TrackStorageMutation
<1>3. GuardedWritten'
  <2>. SUFFICES ASSUME NEW id \in Guarded, modifiedAt'[id] # NoVer
                PROVE  written'[id] \in Obj
    BY <1>1 DEF GuardedWritten
  <2>1. id \in Ids /\ written[id] # NoObj
    BY <1>0, GuardedIds, StoreAssumption DEF GuardedWritten
  <2>. QED  BY <1>2, <2>1
<1>4. UnmeteredZero'
  <2>. SUFFICES ASSUME ~Metered, NEW id \in Written' PROVE written'[id].rebate = 0
    BY DEF UnmeteredZero
  <2>1. id \in Ids /\ written[id] # NoObj
    BY <1>1 DEF Written
  <2>. QED  BY <1>2, <2>1
<1>. QED  BY <1>0, <1>1, <1>3, <1>4 DEF PRest, NoPanic, RebateFound, Modified, InputRebateFound,
                                        GasKept, AllModified

\* A metered transaction guards its gas coin; a system transaction, 0x5.
LEMMA GuardedMembers ==
  /\ Metered => GasCoin \in Guarded
  /\ SystemTxMutatesState /\ ~Metered => SystemStateId \in Guarded
BY StoreAssumption DEF Guarded, Metered, SystemTxMutatesState

\* Once every input has a pre-image, a guarded id is still written when
\* the rebates are moved.
LEMMA GuardedObj ==
  ASSUME PInv, phase = "collected", NEW id \in Guarded
  PROVE  written[id] \in Obj
<1>1. modifiedAt[id] # NoVer
  BY GuardedIds DEF PInv, AllModified
<1>. QED  BY <1>1 DEF PInv, GuardedWritten

\* conserve_unmetered_storage_rebate finds 0x5 written, not deleted and
\* with rebate 0 whenever there is an unmetered rebate to move.
LEMMA ConserveRest ==
  ASSUME PInv, SystemTxMutatesState, ConserveUnmeteredStorageRebate
  PROVE  PRest'
<1> DEFINE amount == UnmeteredStorageRebate
           wrapper == ReadObject(SystemStateId)
<1>0. /\ phase = "collected" /\ RebateFound /\ AllModified
      /\ modifiedAt \in [Ids -> Versions \cup {NoVer}]
      /\ loadedChildren' = loadedChildren
  BY DEF ConserveUnmeteredStorageRebate, PInv, TypeInv, TypeOK
<1>1. CASE amount = 0
  <2>1. phase' = "rebated" /\ UNCHANGED <<written, modifiedAt>>
    BY <1>0, <1>1 DEF ConserveUnmeteredStorageRebate
  <2>2. GasKept'
    BY <1>0, <2>1, GuardedMembers, GuardedObj DEF GasKept
  <2>. QED  BY <1>0, <2>1, <2>2 DEF PRest, NoPanic, RebateFound, Modified, InputRebateFound,
                                    GuardedWritten, AllModified, UnmeteredZero
<1>2. CASE amount # 0
  <2>1. ~Metered
    BY <1>2 DEF UnmeteredStorageRebate
  <2>2. /\ SystemStateId \in Guarded /\ SystemStateId \in MutableInputIds
        /\ SystemStateId \in InputIds /\ SystemStateId \in Ids
    BY <2>1, GuardedMembers, GuardedIds, StoreAssumption
  <2>3. written[SystemStateId] \in Obj
    BY <1>0, <2>2, GuardedObj
  <2>4. wrapper = written[SystemStateId] /\ wrapper # NoObj
    BY <2>3, StoreAssumption DEF ReadObject
  <2>5. wrapper.rebate = 0
    BY <1>0, <2>1, <2>2, <2>4 DEF PInv, UnmeteredZero, Written
  <2>6. DebugAssertions => SystemStateId \notin deleted
    BY <2>1, StoreAssumption DEF PInv, DInv, DeletedRemovable, Removable
  <2>7. /\ MutateInput(SystemStateId, [wrapper EXCEPT !.rebate = amount])
        /\ phase' = "rebated"
    BY <1>0, <1>2, <2>2, <2>4, <2>5, <2>6 DEF ConserveUnmeteredStorageRebate
  <2>8. modifiedAt' = [modifiedAt EXCEPT ![SystemStateId] = Backing[SystemStateId].ver]
    BY <2>7 DEF MutateInput
  <2>9. AllModified'
    BY <1>0, <2>2, <2>7, <2>8, InputVersion DEF AllModified
  <2>10. RebateFound'
    <3>. SUFFICES ASSUME NEW id \in Modified' PROVE InputRebateFound(id, modifiedAt[id])'
      BY DEF RebateFound
    <3>1. CASE id = SystemStateId
      BY <2>2, <3>1 DEF InputRebateFound
    <3>2. CASE id # SystemStateId
      BY <1>0, <2>8, <3>2 DEF RebateFound, Modified, InputRebateFound
    <3>. QED  BY <3>1, <3>2
  <2>. QED  BY <2>1, <2>7, <2>9, <2>10 DEF PRest, NoPanic, GuardedWritten, GasKept, UnmeteredZero
<1>. QED  BY <1>1, <1>2

\* check_sui_conserved leaves the results alone.
LEMMA CheckSuiConservedRest ==
  ASSUME PInv, CheckSuiConserved
  PROVE  PRest'
<1>0. /\ phase = "rebated" /\ phase' \in {"checked", "conservation_failed"}
      /\ UNCHANGED <<written, modifiedAt, loadedChildren>>
  BY DEF CheckSuiConserved
<1>. QED  BY <1>0 DEF PInv, PRest, NoPanic, RebateFound, Modified, InputRebateFound,
                       GuardedWritten, GasKept, AllModified, UnmeteredZero

\* into_effects stamps what check_invariants accepts and finds the gas
\* coin's post-image.
LEMMA IntoEffectsRest ==
  ASSUME PInv, IntoEffects
  PROVE  PRest'
<1> DEFINE stamped == [id \in Ids |->
                         IF written[id] = NoObj THEN NoObj
                         ELSE UpdateVersionAndPreviousTx(written[id])]
<1>0. /\ phase = "checked" /\ RebateFound /\ AllModified /\ GasKept
      /\ written \in [Ids -> StoreObj \cup {NoObj}]
      /\ UNCHANGED <<modifiedAt, loadedChildren>>
  BY DEF IntoEffects, PInv, TypeInv, TypeOK
<1>1. DebugAssertions => CheckInvariants(stamped)
  <2>. SUFFICES ASSUME DebugAssertions PROVE CheckInvariants(stamped)
    OBVIOUS
  <2>1. \A id \in Ids : stamped[id] # NoObj => id \notin deleted
    BY DEF PInv, DInv, WrittenDeletedDisjoint, Written
  <2>2. \A id \in Ids : stamped[id] # NoObj => stamped[id].prev = TxDigest
    BY <1>0 DEF UpdateVersionAndPreviousTx, StoreObj
  <2>. QED  BY <1>0, <2>1, <2>2 DEF CheckInvariants, AllModified
<1>2. GasCoin # NoGas => written[GasCoin] # NoObj
  BY <1>0, StoreAssumption DEF GasKept, Metered
<1>3. phase' = "committed"
  BY <1>1, <1>2 DEF IntoEffects
<1>. QED  BY <1>0, <1>3 DEF PRest, NoPanic, RebateFound, Modified, InputRebateFound,
                             GuardedWritten, GasKept, AllModified, UnmeteredZero

-----------------------------------------------------------------------------
(* The invariant and the theorem.                                          *)

\* The store starts with empty results.
LEMMA InitPInv == Init => PInv
<1>. SUFFICES ASSUME Init PROVE PInv
  OBVIOUS
<1>1. TypeInv /\ DInv
  BY InitTypeInv, InitDInv
<1>2. Modified = {}
  BY DEF Init, Modified
<1>3. GuardedWritten
  BY GuardedIds, StoreAssumption DEF Init, GuardedWritten
<1>. QED  BY <1>1, <1>2, <1>3 DEF Init, PInv, NoPanic, RebateFound,
                                  GasKept, AllModified, UnmeteredZero

\* Every step of the engine keeps PInv, for the transactions it builds.
LEMMA NextPInv ==
  ASSUME SystemTxMutatesState, DebugOneRun
  PROVE  PInv /\ [Next]_vars => PInv'
<1>. SUFFICES ASSUME PInv, [Next]_vars PROVE PInv'
  OBVIOUS
<1>1. TypeInv'
  BY NextTypeInv DEF PInv
<1>2. (DebugAssertions => DInv)'
  <2>. SUFFICES ASSUME DebugAssertions PROVE DInv'
    OBVIOUS
  <2>. QED  BY NextDInv DEF PInv, DebugOneRun
<1>3. PRest'
  <2>1. CASE VMFinish
    BY <2>1, VMFinishRest
  <2>2. CASE \E id \in Ids : \/ MutateInputObject(id) \/ DeleteInputObject(id)
                             \/ CreateObject(id) \/ UpgradeSystemPackage(id)
    BY <2>2, MutateInputObjectRest, DeleteInputObjectRest, CreateObjectRest, UpgradeRest
  <2>3. CASE AdvanceEpochSafeMode
    BY <2>3, AdvanceEpochRest
  <2>4. CASE DropWrites
    BY <2>4, DropWritesRest
  <2>5. CASE EnsureActiveInputsMutated
    BY <2>5, EnsureRest
  <2>6. CASE CollectStorageAndRebate
    BY <2>6, CollectRest
  <2>7. CASE ConserveUnmeteredStorageRebate
    BY <2>7, ConserveRest
  <2>8. CASE CheckSuiConserved
    BY <2>8, CheckSuiConservedRest
  <2>9. CASE IntoEffects
    BY <2>9, IntoEffectsRest
  <2>10. CASE UNCHANGED vars
    BY <2>10 DEF vars, PInv, PRest, NoPanic, RebateFound, Modified, InputRebateFound,
                 GuardedWritten, GasKept, AllModified, UnmeteredZero, Written
  <2>. QED  BY <2>1, <2>2, <2>3, <2>4, <2>5, <2>6, <2>7, <2>8, <2>9, <2>10 DEF Next
<1>. QED  BY <1>1, <1>2, <1>3 DEF PInv, PRest

\* No call of the engine on the store panics: every rebate lookup of
\* collect_storage_and_rebate succeeds, conserve_unmetered_storage_rebate
\* finds 0x5 fit to take the rebate, and into_effects passes
\* check_invariants and finds the gas coin's post-image.
THEOREM NoPanicHolds ==
  ASSUME SystemTxMutatesState, DebugOneRun
  PROVE  Spec => []NoPanic
<1>1. Init => PInv
  BY InitPInv
<1>2. PInv /\ [Next]_vars => PInv'
  BY NextPInv
<1>3. PInv => NoPanic
  BY DEF PInv
<1>. QED  BY <1>1, <1>2, <1>3, PTL DEF Spec
=============================================================================
