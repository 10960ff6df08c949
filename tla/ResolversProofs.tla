-------------------------- MODULE ResolversProofs --------------------------
(***************************************************************************)
(* Proofs, for every store and every set of ids, of the invariants and of  *)
(* the action property that MCResolvers checks.  Every resolver returns    *)
(* the same object for an id, Current(id): the written object, else the    *)
(* backing store's.  The writes only move Current(id) forward, so the      *)
(* versions the resolvers return never go back.                            *)
(***************************************************************************)
EXTENDS Resolvers, TLAPS

\* The package upgrade_system_package writes for p.
Upgraded(p) == Obj("package", Store[p].ver + 1, TRUE)

\* What every resolver returns for id: the written object, else the store's.
Current(id) == IF written[id] # NoObj THEN written[id] ELSE Store[id]

\* A written object is the store's (a mutated input) or, for a system
\* package only, its upgrade.
WrittenOK ==
  \A id \in Ids :
    \/ written[id] = NoObj
    \/ written[id] = Store[id]
    \/ id \in SystemPackages /\ written[id] = Upgraded(id)

\* Each version a resolver returned is at most the current one.
SeenBelow ==
  \A id \in Ids : seen[id] # None => Current(id) # NoObj /\ seen[id] <= Current(id).ver

\* runtime_packages_loaded_from_db holds only the backing store's objects.
CacheHoldsDbVersions ==
  \A id \in Ids : cache[id] # NoObj => cache[id] = Store[id]

\* get_resource's fallback has never bailed.
NoResourceBail == ~bailed

\* The inductive invariant.
IInv == TypeOK /\ WrittenOK /\ SeenBelow /\ CacheHoldsDbVersions /\ NoResourceBail

\* The step of ResolutionNeverRegresses.
NoRegress == \A id \in Ids : seen[id] # None /\ seen'[id] # None => seen[id] <= seen'[id]

-----------------------------------------------------------------------------
(* Lemmas about the resolvers and the writes.                             *)

\* The assumption's facts about a store entry, as the proofs use them.
LEMMA StoreEntry ==
  ASSUME NEW id \in Ids
  PROVE  /\ Store[id] \in Objects \cup {NoObj}
         /\ NoObj \notin Objects
         /\ id \in Inputs => Store[id] # NoObj
         /\ id \in SystemPackages =>
              Store[id] \in Objects /\ Store[id].kind = "package" /\ Store[id].ver \in 0..2
<1>1. Store[id] \in Objects \cup {NoObj}
  BY ResolverAssumption
<1>2. ASSUME NEW o \in Objects PROVE o.ver \in 0..3 /\ o.kind \in {"package", "move"}
  BY DEF Objects, Obj
<1>3. id \in SystemPackages => Store[id] \in Objects /\ Store[id].kind = "package" /\ Store[id].ver < 3
  BY <1>1, ResolverAssumption
<1>. QED  BY <1>1, <1>2, <1>3, ResolverAssumption

\* read_object, get_package_object, get_module and get_module_by_id agree:
\* every resolver that returns an object for id returns Current(id).
LEMMA ReadObjectCurrent ==
  ASSUME NEW id \in Ids, ReadObject(id) # NoObj
  PROVE  ReadObject(id) = Current(id)
BY DEF ReadObject, Current

\* A resolver step returns Current(id) for id, changes no write, and
\* caches, if anything, the store's object.
LEMMA ResolverStep ==
  ASSUME TypeOK, NEW id \in Ids,
         GetPackageObject(id) \/ GetModule(id) \/ GetModuleById(id) \/ GetResource(id)
  PROVE  /\ Current(id) \in Objects
         /\ seen' = [seen EXCEPT ![id] = Current(id).ver]
         /\ UNCHANGED <<written, modifiedAt, bailed>>
         /\ \/ cache' = cache
            \/ Store[id] \in Objects /\ cache' = [cache EXCEPT ![id] = Store[id]]
<1>1. Current(id) \in Objects \cup {NoObj}
  BY StoreEntry DEF TypeOK, Current
<1>2. CASE GetPackageObject(id)
  BY <1>1, <1>2 DEF GetPackageObject, Saw, Current
<1>3. CASE GetModule(id)
  <2>1. (IF ReadObject(id) # NoObj THEN ReadObject(id) ELSE Store[id]) = Current(id)
    BY StoreEntry DEF ReadObject, Current
  <2>. QED  BY <1>1, <1>3, <2>1 DEF GetModule, Saw
<1>4. CASE GetModuleById(id)
  BY <1>1, <1>4 DEF GetModuleById, Saw, Current
<1>5. CASE GetResource(id)
  <2>1. ReadObject(id) # NoObj
    BY <1>5 DEF GetResource
  <2>2. ReadObject(id) = Current(id)
    BY <2>1, ReadObjectCurrent
  <2>. QED  BY <1>1, <1>5, <2>1, <2>2 DEF GetResource, Saw
<1>. QED  BY <1>2, <1>3, <1>4, <1>5

\* An object's version is a number of 0..3.
LEMMA ObjectVer ==
  ASSUME NEW o \in Objects
  PROVE  o.ver \in 0..3
BY DEF Objects, Obj

\* Obj builds an object from a kind, a version of 0..3 and a flag.
LEMMA ObjIsObject ==
  ASSUME NEW k \in {"package", "move"}, NEW v \in 0..3, NEW i \in BOOLEAN
  PROVE  Obj(k, v, i) \in Objects
BY DEF Objects

\* The lookups preserve the invariant: they change no write, cache only
\* the store's object, and return Current(id), so SeenBelow holds of id
\* with equality.
LEMMA ResolverInv ==
  ASSUME IInv, NEW id \in Ids,
         GetPackageObject(id) \/ GetModule(id) \/ GetModuleById(id) \/ GetResource(id)
  PROVE  IInv'
<1>1. /\ Current(id) \in Objects
      /\ seen' = [seen EXCEPT ![id] = Current(id).ver]
      /\ UNCHANGED <<written, modifiedAt, bailed>>
      /\ \/ cache' = cache
         \/ Store[id] \in Objects /\ cache' = [cache EXCEPT ![id] = Store[id]]
  BY ResolverStep DEF IInv
<1>2. Current(id).ver \in 0..3
  BY <1>1, ObjectVer
<1>3. \A i \in Ids : Current(i)' = Current(i)
  BY <1>1 DEF Current
<1>4. TypeOK'
  BY <1>1, <1>2 DEF IInv, TypeOK
<1>5. WrittenOK'
  BY <1>1 DEF IInv, WrittenOK, Upgraded
<1>6. SeenBelow'
  BY <1>1, <1>2, <1>3, StoreEntry DEF IInv, TypeOK, SeenBelow
<1>7. CacheHoldsDbVersions'
  BY <1>1 DEF IInv, TypeOK, CacheHoldsDbVersions
<1>8. NoResourceBail'
  BY <1>1 DEF IInv, NoResourceBail
<1>. QED  BY <1>4, <1>5, <1>6, <1>7, <1>8 DEF IInv

\* upgrade_system_package preserves the invariant: the new package is an
\* object one version above the store's, which is at least Current(p).
LEMMA UpgradeInv ==
  ASSUME IInv, NEW p \in SystemPackages, UpgradeSystemPackage(p)
  PROVE  IInv'
<1>0. p \in Ids
  BY ResolverAssumption
<1>1. /\ Store[p] \in Objects /\ Store[p].kind = "package" /\ Store[p].ver \in 0..2
      /\ NoObj \notin Objects
  BY <1>0, StoreEntry
<1>2. Upgraded(p) \in Objects /\ Upgraded(p).ver = Store[p].ver + 1
  <2>1. Store[p].ver + 1 \in 0..3
    BY <1>1
  <2>. QED  BY <2>1, ObjIsObject DEF Upgraded, Obj
<1>w. /\ written' = [written EXCEPT ![p] = Upgraded(p)]
      /\ modifiedAt' = [modifiedAt EXCEPT ![p] = Store[p].ver]
      /\ UNCHANGED <<cache, seen, bailed>>
  BY DEF UpgradeSystemPackage, Upgraded
<1>3. Current(p)' = Upgraded(p) /\ Current(p)' # NoObj
  BY <1>0, <1>1, <1>2, <1>w DEF Current, IInv, TypeOK
<1>4. Current(p) \in {Store[p], Upgraded(p)}
  BY <1>0, <1>1 DEF IInv, WrittenOK, Current
<1>5. Current(p).ver <= Current(p)'.ver
  BY <1>1, <1>2, <1>3, <1>4
<1>6. \A i \in Ids \ {p} : Current(i)' = Current(i)
  BY <1>w DEF Current, IInv, TypeOK
<1>7. TypeOK'
  BY <1>0, <1>1, <1>2, <1>w DEF IInv, TypeOK
<1>8. WrittenOK'
  BY <1>0, <1>w DEF IInv, TypeOK, WrittenOK
<1>9. SeenBelow'
  <2>1. seen' = seen
    BY <1>w
  <2>2. seen[p] # None => seen[p] <= Current(p)'.ver
    BY <1>0, <1>1, <1>2, <1>3, <1>4, <1>5, ObjectVer DEF IInv, TypeOK, SeenBelow
  <2>. QED  BY <1>3, <1>6, <2>1, <2>2 DEF IInv, SeenBelow
<1>10. CacheHoldsDbVersions' /\ NoResourceBail'
  BY DEF UpgradeSystemPackage, IInv, CacheHoldsDbVersions, NoResourceBail
<1>. QED  BY <1>7, <1>8, <1>9, <1>10 DEF IInv

\* A write of a mutable input Move object preserves the invariant: it
\* writes the store's own object, which is already Current(id), because a
\* Move object is no system package.
LEMMA WriteInputInv ==
  ASSUME IInv, NEW id \in Inputs, WriteInput(id)
  PROVE  IInv'
<1>0. id \in Ids
  BY ResolverAssumption
<1>1. Store[id] \in Objects /\ Store[id].kind = "move"
  BY <1>0, StoreEntry DEF WriteInput
<1>2. id \notin SystemPackages
  BY <1>0, <1>1, StoreEntry
<1>3. Current(id) = Store[id] /\ Current(id)' = Store[id]
  BY <1>0, <1>2 DEF WriteInput, IInv, TypeOK, WrittenOK, Current
<1>4. \A i \in Ids \ {id} : Current(i)' = Current(i)
  BY DEF WriteInput, Current, IInv, TypeOK
<1>5. TypeOK'
  BY <1>0, <1>1 DEF WriteInput, IInv, TypeOK
<1>6. WrittenOK'
  BY <1>0 DEF WriteInput, IInv, TypeOK, WrittenOK
<1>7. SeenBelow'
  BY <1>3, <1>4, StoreEntry DEF WriteInput, IInv, SeenBelow
<1>8. CacheHoldsDbVersions' /\ NoResourceBail'
  BY DEF WriteInput, IInv, CacheHoldsDbVersions, NoResourceBail
<1>. QED  BY <1>5, <1>6, <1>7, <1>8 DEF IInv

-----------------------------------------------------------------------------
(* The invariant and the properties.                                       *)

\* Nothing is written, cached or returned when the transaction starts.
LEMMA InitIInv == Init => IInv
BY DEF Init, IInv, TypeOK, WrittenOK, SeenBelow, CacheHoldsDbVersions, NoResourceBail

\* Every lookup and every write, in any order, preserves the invariant.
LEMMA NextIInv == IInv /\ [Next]_vars => IInv'
<1> SUFFICES ASSUME IInv, [Next]_vars PROVE IInv'
  OBVIOUS
<1>1. CASE \E p \in SystemPackages : UpgradeSystemPackage(p)
  BY <1>1, UpgradeInv
<1>2. CASE \E id \in Inputs : WriteInput(id)
  BY <1>2, WriteInputInv
<1>3. CASE \E id \in Ids : \/ GetPackageObject(id) \/ GetModule(id)
                          \/ GetModuleById(id) \/ GetResource(id)
  BY <1>3, ResolverInv
<1>4. CASE UNCHANGED vars
  BY <1>4 DEF vars, IInv, TypeOK, WrittenOK, SeenBelow, Current,
              CacheHoldsDbVersions, NoResourceBail
<1>. QED  BY <1>1, <1>2, <1>3, <1>4 DEF Next

\* The invariant holds in every state of every run.
THEOREM ResolversInvariant == Spec => []IInv
BY InitIInv, NextIInv, PTL DEF Spec

\* The resolvers and the writes keep every variable of its type, for every
\* store: in particular upgrade_system_package's version + 1 stays a
\* version (the store's system packages are below the last one).
THEOREM ResolversTypeCorrect == Spec => []TypeOK
BY ResolversInvariant, PTL DEF IInv

\* A step of the invariant's states never returns an older version of an
\* id than one returned before: a lookup returns Current(id), which bounds
\* every earlier answer, and a write returns nothing.
LEMMA StepNoRegress == IInv /\ [Next]_vars => NoRegress
<1> SUFFICES ASSUME IInv, [Next]_vars, NEW id \in Ids, seen[id] # None, seen'[id] # None
             PROVE  seen[id] <= seen'[id]
  BY DEF NoRegress
<1>1. seen[id] \in Nat /\ seen[id] <= Current(id).ver
  BY DEF IInv, TypeOK, SeenBelow
<1>2. CASE \E i \in Ids : \/ GetPackageObject(i) \/ GetModule(i)
                         \/ GetModuleById(i) \/ GetResource(i)
  <2>1. PICK i \in Ids : \/ GetPackageObject(i) \/ GetModule(i)
                         \/ GetModuleById(i) \/ GetResource(i)
    BY <1>2
  <2>2. Current(i) \in Objects /\ seen' = [seen EXCEPT ![i] = Current(i).ver]
    BY <2>1, ResolverStep DEF IInv
  <2>3. CASE i = id
    BY <1>1, <2>2, <2>3, ObjectVer DEF IInv, TypeOK
  <2>4. CASE i # id
    BY <1>1, <2>2, <2>4 DEF IInv, TypeOK
  <2>. QED  BY <2>3, <2>4
<1>3. CASE ~\E i \in Ids : \/ GetPackageObject(i) \/ GetModule(i)
                          \/ GetModuleById(i) \/ GetResource(i)
  <2>1. seen' = seen
    BY <1>3 DEF Next, vars, UpgradeSystemPackage, WriteInput
  <2>. QED  BY <1>1, <2>1
<1>. QED  BY <1>2, <1>3

\* The versions the resolvers return never go back, for every store and
\* every interleaving of lookups with upgrade_system_package and writes.
THEOREM NeverRegresses == Spec => ResolutionNeverRegresses
<1>1. [][NoRegress]_vars => ResolutionNeverRegresses
  BY DEF NoRegress, ResolutionNeverRegresses
<1>. QED  BY <1>1, ResolversInvariant, StepNoRegress, PTL DEF Spec
=============================================================================
