------------------------ MODULE TemporaryStoreProofs -----------------------
(***************************************************************************)
(* Proofs about TemporaryStore for every value of its constants that      *)
(* satisfies its assumptions: the type invariant, and                    *)
(* WrittenDeletedDisjoint for transactions with at most one Move run,     *)
(* which the runs check on small instances.                               *)
(***************************************************************************)
EXTENDS TemporaryStore, TLAPS

\* Every object of the backing store is well typed.
LEMMA StoredTyped ==
  \A id \in Ids : Backing[id] # NoObj => Backing[id] \in Obj
BY StoreAssumption

\* Objects the Move runtime can mutate exist in the store or are written.
LEMMA VMMutableStored ==
  \A id \in VMMutable : Backing[id] # NoObj
BY StoreAssumption DEF VMMutable, Children

\* Stamping a written object with the transaction's version and digest
\* keeps it a well-formed stored object.
LEMMA StampedStoreObj ==
  ASSUME NEW o \in StoreObj
  PROVE  UpdateVersionAndPreviousTx(o) \in StoreObj
<1>1. Lamport \in Versions
  BY LamportBound
<1>2. QED
  BY <1>1 DEF UpdateVersionAndPreviousTx, StoreObj

\* An object with a natural rebate is an object of StoreObj.
LEMMA ObjIsStoreObj == Obj \subseteq StoreObj
BY DEF Obj, StoreObj

-----------------------------------------------------------------------------
(* The type invariant.  TypeOK alone is not inductive: the storage_rebate  *)
(* of a written object is a natural number until collect_storage_and_      *)
(* rebate runs, and only then may 0x5 receive the charger's total.         *)

ExecPhase == phase \in {"execution", "ensured"}

TypeInv ==
  /\ TypeOK
  /\ ExecPhase => written \in [Ids -> Obj \cup {NoObj}]

LEMMA InitTypeInv == Init => TypeInv
BY StoreAssumption, ParameterAssumption
   DEF Init, TypeInv, TypeOK, ExecPhase, Phases, ChildMeta

LEMMA NextTypeInv == TypeInv /\ [Next]_vars => TypeInv'
<1> SUFFICES ASSUME TypeInv, [Next]_vars PROVE TypeInv'
  OBVIOUS
<1> USE StoreAssumption, ParameterAssumption
<1>1. CASE VMFinish
  <2> PICK M \in SUBSET VMMutable, D \in SUBSET VMRemovable,
           W \in SUBSET VMRemovable, C \in SUBSET VMCreatable :
        /\ M \cap D = {} /\ W \cap (M \cup D) = {}
        /\ \E sz \in [M \cup C -> Sizes] :
             written' = [id \in Ids |->
                           IF id \in M THEN [ReadChildObject(id) EXCEPT !.size = sz[id]]
                           ELSE IF id \in C
                                THEN [ver |-> 0, rebate |-> 0, size |-> sz[id], prev |-> TxDigest]
                           ELSE written[id]]
        /\ created' = created \cup C
        /\ deleted' = deleted \cup D
        /\ modifiedAt' = [id \in Ids |->
                            IF modifiedAt[id] = NoVer /\ id \in M \cup D \cup W
                            THEN ReadChildObject(id).ver ELSE modifiedAt[id]]
        /\ loadedChildren' = [id \in Ids |->
                                IF id \in (M \cup D \cup W) \cap Children
                                THEN [ver |-> ReadChildObject(id).ver,
                                      rebate |-> ReadChildObject(id).rebate]
                                ELSE loadedChildren[id]]
    BY <1>1 DEF VMFinish
  <2>0. phase = "execution" /\ phase' = phase /\ vmRuns < MaxVMRuns /\ vmRuns' = vmRuns + 1
        /\ charger' = charger
    BY <1>1 DEF VMFinish
  <2>1. \A id \in M \cup D \cup W : ReadChildObject(id) \in Obj
    <3> SUFFICES ASSUME NEW id \in M \cup D \cup W PROVE ReadChildObject(id) \in Obj
      OBVIOUS
    <3>1. id \in VMMutable /\ id \in Ids
      BY DEF VMRemovable, VMMutable, Children
    <3>2. written[id] \in Obj \cup {NoObj}
      BY <2>0, <3>1 DEF TypeInv, ExecPhase
    <3>3. Backing[id] \in Obj
      BY <3>1, VMMutableStored, StoredTyped
    <3>4. QED
      BY <3>2, <3>3 DEF ReadChildObject
  <2>2. PICK sz \in [M \cup C -> Sizes] :
          written' = [id \in Ids |->
                        IF id \in M THEN [ReadChildObject(id) EXCEPT !.size = sz[id]]
                        ELSE IF id \in C
                             THEN [ver |-> 0, rebate |-> 0, size |-> sz[id], prev |-> TxDigest]
                        ELSE written[id]]
    OBVIOUS
  <2>3. written' \in [Ids -> Obj \cup {NoObj}]
    BY <2>0, <2>1, <2>2 DEF TypeInv, ExecPhase, Obj, Versions
  <2>4. UnmeteredStorageRebate' = UnmeteredStorageRebate
    BY <2>0 DEF UnmeteredStorageRebate, TrackedRebate
  <2>5. StoreObj' = StoreObj
    BY <2>4 DEF StoreObj
  <2>6. loadedChildren' \in [Ids -> ChildMeta \cup {NoObj}]
    BY <2>1 DEF TypeInv, TypeOK, ChildMeta, Obj
  <2>7. modifiedAt' \in [Ids -> Versions \cup {NoVer}]
    BY <2>1 DEF TypeInv, TypeOK, Obj
  <2>8. created' \subseteq Ids /\ deleted' \subseteq Ids /\ vmRuns' \in 0..MaxVMRuns
    BY <2>0 DEF TypeInv, TypeOK, VMCreatable, Fresh, VMRemovable, VMMutable, Children
  <2>9. QED
    BY <2>0, <2>3, <2>5, <2>6, <2>7, <2>8, ObjIsStoreObj DEF TypeInv, TypeOK, ExecPhase
<1>2. ASSUME NEW id \in Ids, MutateInputObject(id) PROVE TypeInv'
  <2>1. PICK sz \in Sizes : MutateInput(id, [ReadObject(id) EXCEPT !.size = sz])
    BY <1>2 DEF MutateInputObject
  <2>2. ReadObject(id) \in Obj
    BY <1>2, StoredTyped DEF MutateInputObject, ReadObject, TypeInv, ExecPhase
  <2>3. written' \in [Ids -> Obj \cup {NoObj}] /\ modifiedAt' \in [Ids -> Versions \cup {NoVer}]
    BY <1>2, <2>1, <2>2, StoredTyped
       DEF MutateInputObject, MutateInput, TypeInv, ExecPhase, TypeOK, Obj
  <2>4. StoreObj' = StoreObj
    BY <1>2 DEF MutateInputObject, StoreObj, UnmeteredStorageRebate, TrackedRebate
  <2>5. QED
    BY <1>2, <2>3, <2>4, ObjIsStoreObj DEF MutateInputObject, TypeInv, TypeOK, ExecPhase
<1>3. ASSUME NEW id \in Ids, DeleteInputObject(id) PROVE TypeInv'
  <2>1. Backing[id] \in Obj
    BY <1>3, StoredTyped DEF DeleteInputObject
  <2>2. StoreObj' = StoreObj
    BY <1>3 DEF DeleteInputObject, StoreObj, UnmeteredStorageRebate, TrackedRebate
  <2>3. QED
    BY <1>3, <2>1, <2>2 DEF DeleteInputObject, TypeInv, TypeOK, ExecPhase, Obj
<1>4. ASSUME NEW id \in Ids, CreateObject(id) PROVE TypeInv'
  <2>1. StoreObj' = StoreObj
    BY <1>4 DEF CreateObject, StoreObj, UnmeteredStorageRebate, TrackedRebate
  <2>2. written' \in [Ids -> Obj \cup {NoObj}]
    BY <1>4 DEF CreateObject, TypeInv, ExecPhase, Obj, Versions
  <2>3. QED
    BY <1>4, <2>1, <2>2, ObjIsStoreObj DEF CreateObject, TypeInv, TypeOK, ExecPhase
<1>5. ASSUME NEW id \in Ids, UpgradeSystemPackage(id) PROVE TypeInv'
  <2>1. Backing[id] \in Obj
    BY <1>5, StoredTyped DEF UpgradeSystemPackage
  <2>2. StoreObj' = StoreObj
    BY <1>5 DEF UpgradeSystemPackage, StoreObj, UnmeteredStorageRebate, TrackedRebate
  <2>3. written' \in [Ids -> Obj \cup {NoObj}]
    BY <1>5, <2>1 DEF UpgradeSystemPackage, TypeInv, ExecPhase, Obj
  <2>4. QED
    BY <1>5, <2>1, <2>2, <2>3, ObjIsStoreObj
       DEF UpgradeSystemPackage, TypeInv, TypeOK, ExecPhase, Obj
<1>6. CASE AdvanceEpochSafeMode
  <2> DEFINE old == Backing[SystemStateInnerId]
  <2>1. old \in Obj
    BY <1>6, StoredTyped DEF AdvanceEpochSafeMode
  <2>2. StoreObj' = StoreObj
    BY <1>6 DEF AdvanceEpochSafeMode, MutateChildObject, StoreObj, UnmeteredStorageRebate, TrackedRebate
  <2>3. written' \in [Ids -> Obj \cup {NoObj}]
    BY <1>6, <2>1 DEF AdvanceEpochSafeMode, MutateChildObject, TypeInv, ExecPhase, Obj
  <2>4. loadedChildren' \in [Ids -> ChildMeta \cup {NoObj}]
    BY <1>6, <2>1 DEF AdvanceEpochSafeMode, MutateChildObject, TypeInv, TypeOK, ChildMeta, Obj
  <2>5. QED
    BY <1>6, <2>1, <2>2, <2>3, <2>4, ObjIsStoreObj
       DEF AdvanceEpochSafeMode, MutateChildObject, TypeInv, TypeOK, ExecPhase, Obj
<1>7. CASE DropWrites
  <2>1. StoreObj' = StoreObj
    BY <1>7 DEF DropWrites, StoreObj, UnmeteredStorageRebate, TrackedRebate
  <2>2. QED
    BY <1>7, <2>1 DEF DropWrites, TypeInv, TypeOK, ExecPhase
<1>8. CASE EnsureActiveInputsMutated
  <2>1. StoreObj' = StoreObj
    BY <1>8 DEF EnsureActiveInputsMutated, StoreObj, UnmeteredStorageRebate, TrackedRebate
  <2>2. written' \in [Ids -> Obj \cup {NoObj}]
    BY <1>8, StoredTyped DEF EnsureActiveInputsMutated, TypeInv, ExecPhase
  <2>3. modifiedAt' \in [Ids -> Versions \cup {NoVer}]
    BY <1>8, StoredTyped DEF EnsureActiveInputsMutated, TypeInv, TypeOK, Obj
  <2>4. QED
    BY <1>8, <2>1, <2>2, <2>3, ObjIsStoreObj
       DEF EnsureActiveInputsMutated, TypeInv, TypeOK, ExecPhase, Phases
<1>9. CASE CollectStorageAndRebate
  <2>1. CASE \A id \in Modified : InputRebateFound(id, modifiedAt[id])
    <3>1. \A id \in Ids : OldStorageRebate(id) \in Nat
      BY <2>1, StoredTyped
         DEF OldStorageRebate, GetInputStorageRebate, InputRebateFound, Modified,
             TypeInv, TypeOK, ChildMeta, Obj
    <3>2. \A sz \in Sizes : TrackStorageMutation(sz) \in Nat
      BY DEF TrackStorageMutation
    <3>3. written' \in [Ids -> StoreObj' \cup {NoObj}]
      <4>1. written' \in [Ids -> Obj \cup {NoObj}]
        BY <1>9, <2>1, <3>2 DEF CollectStorageAndRebate, TypeInv, ExecPhase, Obj
      <4>2. QED
        BY <4>1 DEF Obj, StoreObj
    <3>4. charger' \in [Ids -> [cost : Nat, rebate : Nat] \cup {NoObj}]
      BY <1>9, <2>1, <3>1, <3>2 DEF CollectStorageAndRebate, TypeInv, TypeOK, ExecPhase, Obj, Written
    <3>5. QED
      BY <1>9, <2>1, <3>3, <3>4 DEF CollectStorageAndRebate, TypeInv, TypeOK, ExecPhase, Phases
  <2>2. CASE ~\A id \in Modified : InputRebateFound(id, modifiedAt[id])
    <3>1. StoreObj' = StoreObj
      BY <1>9, <2>2 DEF CollectStorageAndRebate, StoreObj, UnmeteredStorageRebate, TrackedRebate
    <3>2. QED
      BY <1>9, <2>2, <3>1 DEF CollectStorageAndRebate, TypeInv, TypeOK, ExecPhase, Phases
  <2>3. QED
    BY <2>1, <2>2
<1>10. CASE ConserveUnmeteredStorageRebate
  <2> DEFINE amount == UnmeteredStorageRebate
             wrapper == ReadObject(SystemStateId)
  <2>1. StoreObj' = StoreObj
    BY <1>10 DEF ConserveUnmeteredStorageRebate, StoreObj, UnmeteredStorageRebate, TrackedRebate
  <2>2. CASE amount = 0
    BY <1>10, <2>1, <2>2 DEF ConserveUnmeteredStorageRebate, TypeInv, TypeOK, ExecPhase, Phases
  <2>3. CASE amount # 0
    <3>1. SystemStateId \in Ids
      BY <2>3 DEF UnmeteredStorageRebate
    <3>2. wrapper # NoObj => wrapper \in StoreObj
      BY <3>1, StoredTyped, ObjIsStoreObj DEF ReadObject, TypeInv, TypeOK
    <3>3. CASE \/ wrapper = NoObj
               \/ DebugAssertions /\ SystemStateId \in deleted
               \/ wrapper.rebate # 0
               \/ SystemStateId \notin MutableInputIds
      BY <1>10, <2>1, <2>3, <3>3 DEF ConserveUnmeteredStorageRebate, TypeInv, TypeOK, ExecPhase, Phases
    <3>4. CASE ~(\/ wrapper = NoObj
                 \/ DebugAssertions /\ SystemStateId \in deleted
                 \/ wrapper.rebate # 0
                 \/ SystemStateId \notin MutableInputIds)
      <4>1. MutateInput(SystemStateId, [wrapper EXCEPT !.rebate = amount]) /\ phase' = "rebated"
        BY <1>10, <2>3, <3>4 DEF ConserveUnmeteredStorageRebate
      <4>2. [wrapper EXCEPT !.rebate = amount] \in StoreObj
        BY <3>2, <3>4 DEF StoreObj
      <4>3. written' \in [Ids -> StoreObj \cup {NoObj}]
        BY <3>1, <4>1, <4>2 DEF MutateInput, TypeInv, TypeOK
      <4>4. modifiedAt' \in [Ids -> Versions \cup {NoVer}]
        BY <3>1, <3>4, <4>1, StoredTyped DEF MutateInput, TypeInv, TypeOK, Obj
      <4>5. QED
        BY <1>10, <2>1, <4>1, <4>3, <4>4
           DEF ConserveUnmeteredStorageRebate, TypeInv, TypeOK, ExecPhase, Phases
    <3>5. QED
      BY <3>3, <3>4
  <2>4. QED
    BY <2>2, <2>3
<1>11. CASE CheckSuiConserved
  <2>1. StoreObj' = StoreObj
    BY <1>11 DEF CheckSuiConserved, StoreObj, UnmeteredStorageRebate, TrackedRebate
  <2>2. QED
    BY <1>11, <2>1 DEF CheckSuiConserved, TypeInv, TypeOK, ExecPhase, Phases
<1>12. CASE IntoEffects
  <2>1. StoreObj' = StoreObj
    BY <1>12 DEF IntoEffects, StoreObj, UnmeteredStorageRebate, TrackedRebate
  <2> DEFINE stamped == [id \in Ids |->
                           IF written[id] = NoObj THEN NoObj
                           ELSE UpdateVersionAndPreviousTx(written[id])]
  <2>2. stamped \in [Ids -> StoreObj \cup {NoObj}]
    <3> SUFFICES ASSUME NEW id \in Ids, written[id] # NoObj
                 PROVE UpdateVersionAndPreviousTx(written[id]) \in StoreObj
      OBVIOUS
    <3>1. written[id] \in StoreObj
      BY DEF TypeInv, TypeOK
    <3>2. QED
      BY <3>1, StampedStoreObj
  <2>4. written' = stamped \/ written' = written
    BY <1>12 DEF IntoEffects
  <2>5. written' \in [Ids -> StoreObj \cup {NoObj}]
    BY <2>2, <2>4 DEF TypeInv, TypeOK
  <2>3. QED
    BY <1>12, <2>1, <2>5 DEF IntoEffects, TypeInv, TypeOK, ExecPhase, Phases
<1>13. CASE UNCHANGED vars
  <2>1. StoreObj' = StoreObj
    BY <1>13 DEF vars, StoreObj, UnmeteredStorageRebate, TrackedRebate
  <2>2. QED
    BY <1>13, <2>1 DEF vars, TypeInv, TypeOK, ExecPhase
<1>14. QED
  BY <1>1, <1>2, <1>3, <1>4, <1>5, <1>6, <1>7, <1>8, <1>9, <1>10, <1>11, <1>12, <1>13
     DEF Next

\* The store's state is always well typed: written objects, pre-image
\* versions, loaded-child metadata and the charger's per-object records.
THEOREM TypeCorrect == Spec => []TypeOK
<1>1. TypeInv => TypeOK
  BY DEF TypeInv
<1>2. Spec => []TypeInv
  BY InitTypeInv, NextTypeInv, PTL DEF Spec
<1>3. QED
  BY <1>1, <1>2, PTL

-----------------------------------------------------------------------------
(* Written and deleted objects with a single Move run.  merge_two_runs     *)
(* shows that two runs can leave an object both written and deleted; with *)
(* at most one run nothing else can.                                      *)

\* What a Move run may delete or wrap, whatever was deleted before.
Removable == ((MutableInputIds \ SecondaryGasCoins) \cup Children)
               \ {GasCoin, SystemStateId, SystemStateInnerId}

\* What the native calls may write before the Move run.
NativeWritable == {GasCoin, SystemStateInnerId} \cup Fresh \cup SystemPackageIds

\* A deleted object has a recorded pre-image.
DeletedModified == \A id \in deleted : modifiedAt[id] # NoVer
\* Only smashed gas coins and what a Move run may delete are deleted.
DeletedRemovable == deleted \subseteq SecondaryGasCoins \cup Removable
\* Nothing writes a secondary gas coin during execution.
SecondaryUnwritten == phase = "execution" => \A id \in SecondaryGasCoins : written[id] = NoObj
\* Before the Move run only gas coins are deleted, and only native calls wrote.
BeforeRun == phase = "execution" /\ vmRuns = 0 =>
               deleted \subseteq SecondaryGasCoins /\ Written \subseteq NativeWritable

DInv == /\ TypeInv /\ WrittenDeletedDisjoint /\ DeletedModified
        /\ DeletedRemovable /\ SecondaryUnwritten /\ BeforeRun

\* Nothing a Move run may delete is written by a native call.
LEMMA RemovableNotNative == Removable \cap NativeWritable = {}
BY StoreAssumption DEF Removable, NativeWritable, Children, Fresh

\* A fresh id is neither a smashed gas coin nor deletable by a Move run.
LEMMA FreshNotDeletable == Fresh \cap (SecondaryGasCoins \cup Removable) = {}
BY StoreAssumption DEF Removable, Children, Fresh

\* The primary gas coin and system packages are never deleted.
LEMMA NeverDeleted ==
  ({GasCoin} \cup SystemPackageIds) \cap (SecondaryGasCoins \cup Removable) = {}
BY StoreAssumption DEF Removable, Children

LEMMA InitDInv == Init => DInv
<1> SUFFICES ASSUME Init PROVE DInv
  OBVIOUS
<1>1. TypeInv
  BY InitTypeInv
<1>2. deleted = {} /\ phase = "execution" /\ Written = {}
      /\ \A id \in SecondaryGasCoins : written[id] = NoObj
  BY StoreAssumption DEF Init, Written
<1>3. QED
  BY <1>1, <1>2
     DEF DInv, WrittenDeletedDisjoint, DeletedModified, DeletedRemovable,
         SecondaryUnwritten, BeforeRun

\* With at most one Move run, a run starts from no earlier run.
LEMMA OnlyRun ==
  ASSUME MaxVMRuns <= 1, NEW n \in Nat, n < MaxVMRuns, NEW m, m = n + 1
  PROVE  n = 0 /\ m # 0
BY ParameterAssumption

USE DEF WrittenDeletedDisjoint

LEMMA NextDInv ==
  ASSUME MaxVMRuns <= 1
  PROVE  DInv /\ [Next]_vars => DInv'
<1> SUFFICES ASSUME DInv, [Next]_vars PROVE DInv'
  OBVIOUS
<1> USE StoreAssumption, ParameterAssumption
<1>0. TypeInv /\ TypeInv'
  BY NextTypeInv DEF DInv
<1>1. CASE VMFinish
  <2> PICK M \in SUBSET VMMutable, D \in SUBSET VMRemovable,
           W \in SUBSET VMRemovable, C \in SUBSET VMCreatable :
        /\ M \cap D = {} /\ W \cap (M \cup D) = {}
        /\ \E sz \in [M \cup C -> Sizes] :
             written' = [id \in Ids |->
                           IF id \in M THEN [ReadChildObject(id) EXCEPT !.size = sz[id]]
                           ELSE IF id \in C
                                THEN [ver |-> 0, rebate |-> 0, size |-> sz[id], prev |-> TxDigest]
                           ELSE written[id]]
        /\ created' = created \cup C
        /\ deleted' = deleted \cup D
        /\ modifiedAt' = [id \in Ids |->
                            IF modifiedAt[id] = NoVer /\ id \in M \cup D \cup W
                            THEN ReadChildObject(id).ver ELSE modifiedAt[id]]
        /\ loadedChildren' = [id \in Ids |->
                                IF id \in (M \cup D \cup W) \cap Children
                                THEN [ver |-> ReadChildObject(id).ver,
                                      rebate |-> ReadChildObject(id).rebate]
                                ELSE loadedChildren[id]]
    BY <1>1 DEF VMFinish
  <2>a. phase = "execution" /\ vmRuns < MaxVMRuns /\ vmRuns' = vmRuns + 1 /\ phase' = phase
    BY <1>1 DEF VMFinish
  <2>b. vmRuns \in Nat
    BY <1>0 DEF TypeInv, TypeOK
  <2>d. vmRuns = 0 /\ vmRuns' # 0
    BY <2>a, <2>b, OnlyRun
  <2>0. phase = "execution" /\ vmRuns = 0 /\ vmRuns' # 0 /\ phase' = phase
    BY <2>a, <2>d
  <2>1. PICK sz \in [M \cup C -> Sizes] :
          written' = [id \in Ids |->
                        IF id \in M THEN [ReadChildObject(id) EXCEPT !.size = sz[id]]
                        ELSE IF id \in C
                             THEN [ver |-> 0, rebate |-> 0, size |-> sz[id], prev |-> TxDigest]
                             ELSE written[id]]
    OBVIOUS
  <2>2. Written' \subseteq M \cup C \cup Written
    BY <2>1 DEF Written
  <2>3. deleted \subseteq SecondaryGasCoins /\ Written \subseteq NativeWritable
    BY <2>0 DEF DInv, BeforeRun
  <2>c. VMMutable \subseteq ((MutableInputIds \ SecondaryGasCoins) \cup Children) \ deleted
    BY DEF VMMutable
  <2>4. /\ D \subseteq Removable /\ M \cap deleted = {}
        /\ M \cap SecondaryGasCoins = {} /\ C \subseteq Fresh
    <3>1. D \subseteq Removable
      BY <2>c DEF VMRemovable, Removable
    <3>2. M \cap deleted = {} /\ M \cap SecondaryGasCoins = {}
      <4>1. \A id \in M : id \in VMMutable
        OBVIOUS
      <4>2. \A id \in M : id \notin deleted /\ id \notin SecondaryGasCoins
        BY <4>1, <2>c DEF Children
      <4>3. QED
        BY <4>2
    <3>3. C \subseteq Fresh
      BY DEF VMCreatable
    <3>4. QED
      BY <3>1, <3>2, <3>3
  <2>5. WrittenDeletedDisjoint'
    BY <2>2, <2>3, <2>4, RemovableNotNative, FreshNotDeletable DEF DInv
  <2>6. DeletedModified'
    <3> SUFFICES ASSUME NEW id \in deleted' PROVE modifiedAt'[id] # NoVer
      BY DEF DeletedModified
    <3>1. CASE id \in deleted
      BY <3>1 DEF DInv, DeletedModified, TypeInv, TypeOK
    <3>2. CASE id \in D
      <4>1. id \in VMMutable /\ id \in Ids
        BY <3>2 DEF VMRemovable, VMMutable, Children
      <4>2. written[id] \in Obj \cup {NoObj} /\ Backing[id] \in Obj
        BY <2>0, <4>1, VMMutableStored, StoredTyped DEF DInv, TypeInv, ExecPhase
      <4>3. ReadChildObject(id).ver \in Versions
        BY <4>2 DEF ReadChildObject, Obj
      <4>4. QED
        BY <3>2, <4>1, <4>3
    <3>3. QED
      BY <3>1, <3>2
  <2>7. SecondaryUnwritten'
    BY <2>0, <2>1, <2>4, FreshNotDeletable DEF DInv, SecondaryUnwritten
  <2>8. QED
    BY <1>0, <2>0, <2>4, <2>5, <2>6, <2>7 DEF DInv, DeletedRemovable, BeforeRun
<1>2. ASSUME NEW id \in Ids, MutateInputObject(id) PROVE DInv'
  <2>1. PICK sz \in Sizes : MutateInput(id, [ReadObject(id) EXCEPT !.size = sz])
    BY <1>2 DEF MutateInputObject
  <2>2. id = GasCoin /\ id \notin deleted /\ id \notin SecondaryGasCoins /\ Backing[id] \in Obj
    BY <1>2, NeverDeleted, StoredTyped DEF MutateInputObject, DInv, DeletedRemovable
  <2>3. Written' \subseteq Written \cup {id}
    BY <2>1 DEF MutateInput, Written
  <2>4. QED
    BY <1>0, <1>2, <2>1, <2>2, <2>3
       DEF MutateInputObject, MutateInput, DInv, DeletedModified, DeletedRemovable,
           SecondaryUnwritten, BeforeRun, NativeWritable, Obj
<1>3. ASSUME NEW id \in Ids, DeleteInputObject(id) PROVE DInv'
  <2>1. id \in SecondaryGasCoins /\ written[id] = NoObj /\ Backing[id] \in Obj
    BY <1>3, StoredTyped DEF DeleteInputObject, DInv, SecondaryUnwritten
  <2>2. /\ deleted' = deleted \cup {id}
        /\ modifiedAt' = [modifiedAt EXCEPT ![id] = Backing[id].ver]
        /\ UNCHANGED <<written, phase, vmRuns>>
    BY <1>3 DEF DeleteInputObject
  <2>3. WrittenDeletedDisjoint'
    BY <2>1, <2>2 DEF DInv, Written
  <2>4. DeletedModified'
    BY <1>0, <2>1, <2>2 DEF DInv, DeletedModified, TypeInv, TypeOK, Obj
  <2>5. DeletedRemovable' /\ SecondaryUnwritten' /\ BeforeRun'
    BY <2>1, <2>2 DEF DInv, DeletedRemovable, SecondaryUnwritten, BeforeRun, Written
  <2>6. QED
    BY <1>0, <2>3, <2>4, <2>5 DEF DInv
<1>4. ASSUME NEW id \in Ids, CreateObject(id) PROVE DInv'
  <2>1. id \in Fresh /\ id \notin deleted /\ id \notin SecondaryGasCoins
    BY <1>4, FreshNotDeletable DEF CreateObject, DInv, DeletedRemovable
  <2>2. QED
    BY <1>0, <1>4, <2>1
       DEF CreateObject, DInv, DeletedModified, DeletedRemovable,
           SecondaryUnwritten, BeforeRun, Written, NativeWritable
<1>5. ASSUME NEW id \in Ids, UpgradeSystemPackage(id) PROVE DInv'
  <2>1. id \in SystemPackageIds /\ id \notin deleted /\ id \notin SecondaryGasCoins
        /\ Backing[id] \in Obj
    BY <1>5, NeverDeleted, StoredTyped DEF UpgradeSystemPackage, DInv, DeletedRemovable
  <2>2. QED
    BY <1>0, <1>5, <2>1
       DEF UpgradeSystemPackage, DInv, DeletedModified, DeletedRemovable,
           SecondaryUnwritten, BeforeRun, Written, NativeWritable, Obj
<1>6. CASE AdvanceEpochSafeMode
  <2>1. deleted = {} /\ SecondaryGasCoins = {} /\ SystemStateInnerId \in Ids
    BY <1>6 DEF AdvanceEpochSafeMode, DInv, DeletedModified, Modified, TypeInv, TypeOK
  <2>2. QED
    BY <1>0, <1>6, <2>1
       DEF AdvanceEpochSafeMode, MutateChildObject, DInv, DeletedModified, DeletedRemovable,
           SecondaryUnwritten, BeforeRun, Written, NativeWritable
<1>7. CASE DropWrites
  BY <1>0, <1>7 DEF DropWrites, DInv, DeletedModified, DeletedRemovable,
              SecondaryUnwritten, BeforeRun, Written
<1>8. CASE EnsureActiveInputsMutated
  BY <1>0, <1>8 DEF EnsureActiveInputsMutated, DInv, DeletedModified, DeletedRemovable,
                    SecondaryUnwritten, BeforeRun, Written, TypeInv, TypeOK
<1>9. CASE CollectStorageAndRebate
  BY <1>0, <1>9 DEF CollectStorageAndRebate, DInv, DeletedModified, DeletedRemovable,
              SecondaryUnwritten, BeforeRun, Written
<1>10. CASE ConserveUnmeteredStorageRebate
  <2> DEFINE amount == UnmeteredStorageRebate
             wrapper == ReadObject(SystemStateId)
  <2>1. CASE amount # 0 /\ wrapper # NoObj /\ SystemStateId \in MutableInputIds
             /\ ~(DebugAssertions /\ SystemStateId \in deleted) /\ wrapper.rebate = 0
    <3>1. MutateInput(SystemStateId, [wrapper EXCEPT !.rebate = amount]) /\ phase' = "rebated"
      BY <1>10, <2>1 DEF ConserveUnmeteredStorageRebate
    <3>2. ~Metered
      BY <2>1 DEF UnmeteredStorageRebate
    <3>3. SystemStateId \notin deleted /\ SystemStateId \in Ids /\ Backing[SystemStateId] \in Obj
      BY <2>1, <3>2, StoredTyped DEF DInv, DeletedRemovable, Removable
    <3>4. QED
      BY <1>0, <1>10, <3>1, <3>3
         DEF ConserveUnmeteredStorageRebate, MutateInput, DInv, DeletedModified, DeletedRemovable,
             SecondaryUnwritten, BeforeRun, Written, Obj
  <2>2. CASE ~(amount # 0 /\ wrapper # NoObj /\ SystemStateId \in MutableInputIds
               /\ ~(DebugAssertions /\ SystemStateId \in deleted) /\ wrapper.rebate = 0)
    <3>1. UNCHANGED <<written, modifiedAt>> /\ phase' \in {"rebated", "panicked"}
      BY <1>10, <2>2 DEF ConserveUnmeteredStorageRebate
    <3>2. QED
      BY <1>0, <1>10, <3>1
         DEF ConserveUnmeteredStorageRebate, DInv, DeletedModified, DeletedRemovable,
             SecondaryUnwritten, BeforeRun, Written
  <2>3. QED
    BY <2>1, <2>2
<1>11. CASE CheckSuiConserved
  BY <1>0, <1>11 DEF CheckSuiConserved, DInv, DeletedModified, DeletedRemovable,
               SecondaryUnwritten, BeforeRun, Written
<1>12. CASE IntoEffects
  BY <1>0, <1>12
       DEF IntoEffects, DInv, DeletedModified, DeletedRemovable,
           SecondaryUnwritten, BeforeRun, Written
<1>13. CASE UNCHANGED vars
  BY <1>0, <1>13 DEF vars, DInv, DeletedModified, DeletedRemovable,
               SecondaryUnwritten, BeforeRun, Written
<1>14. QED
  BY <1>1, <1>2, <1>3, <1>4, <1>5, <1>6, <1>7, <1>8, <1>9, <1>10, <1>11, <1>12, <1>13
     DEF Next

\* With one Move run per transaction no object is both written and deleted
\* (the debug_assert of check_invariants): native calls write only the gas
\* coin, 0x5's inner state, fresh ids and system packages, which a run
\* never deletes, and a run never mutates what it deletes.
THEOREM SingleRunDisjoint ==
  ASSUME MaxVMRuns <= 1
  PROVE  Spec => []WrittenDeletedDisjoint
<1>1. Spec => []DInv
  BY InitDInv, NextDInv, PTL DEF Spec
<1>2. QED
  BY <1>1, PTL DEF DInv

=============================================================================
