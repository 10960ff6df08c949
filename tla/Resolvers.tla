----------------------------- MODULE Resolvers -----------------------------
(***************************************************************************)
(* The resolvers the Move runtime queries during execution                 *)
(* (temporary_store.rs, BackingPackageStore, ModuleResolver,               *)
(* ResourceResolver and GetModule), interleaved with the native writes     *)
(* that change what they must see: upgrade_system_package and a mutation   *)
(* of an input object.  An object is abstracted to its kind, version and   *)
(* whether it is immutable; the backing store is fixed for the            *)
(* transaction.                                                            *)
(***************************************************************************)
EXTENDS Integers, FiniteSets

CONSTANTS
  Ids,            \* object and package ids
  Inputs,         \* ids of input_objects, loaded from the store
  SystemPackages, \* the packages an epoch change may upgrade
  Store,          \* id -> the backing store's object, or NoObj
  NoObj, None

Obj(k, v, imm) == [kind |-> k, ver |-> v, imm |-> imm]
Objects == {Obj(k, v, i) : k \in {"package", "move"}, v \in 0..3, i \in BOOLEAN}

ASSUME ResolverAssumption ==
  /\ Inputs \subseteq Ids /\ SystemPackages \subseteq Ids
  /\ NoObj \notin Objects
  /\ Store \in [Ids -> Objects \cup {NoObj}]
  /\ \A id \in Inputs : Store[id] # NoObj
  /\ \A p \in SystemPackages : Store[p] # NoObj /\ Store[p].kind = "package"
                               /\ Store[p].ver < 3

VARIABLES
  written,    \* execution_results.written_objects: id -> object or NoObj
  modifiedAt, \* execution_results.objects_modified_at: id -> version or None
  cache,      \* runtime_packages_loaded_from_db: id -> object or NoObj
  seen,       \* (history) id -> the last version a resolver returned, or None
  bailed      \* an ExecutionInvariantViolation was raised by a resolver

vars == <<written, modifiedAt, cache, seen, bailed>>

\* read_object: the written object, else the input object.
ReadObject(id) ==
  IF written[id] # NoObj THEN written[id]
  ELSE IF id \in Inputs THEN Store[id] ELSE NoObj

\* A resolver returned object o for id.
Saw(id, o) == seen' = [seen EXCEPT ![id] = o.ver]

-----------------------------------------------------------------------------
(* The resolvers.                                                          *)

\* Mutant of GetPackageObject: the backing store is asked first.
GetPackageObjectStoreFirst(p) ==
  /\ IF Store[p] # NoObj
     THEN /\ cache' = [cache EXCEPT ![p] = Store[p]]
          /\ Saw(p, Store[p])
     ELSE /\ written[p] # NoObj
          /\ Saw(p, written[p])
          /\ UNCHANGED cache
  /\ UNCHANGED <<written, modifiedAt, bailed>>

\* get_package_object: the written object, else the store's, which is
\* then recorded in runtime_packages_loaded_from_db.  None records nothing.
GetPackageObject(p) ==
  /\ IF written[p] # NoObj
     THEN /\ Saw(p, written[p])
          /\ UNCHANGED cache
     ELSE /\ Store[p] # NoObj
          /\ cache' = [cache EXCEPT ![p] = Store[p]]
          /\ Saw(p, Store[p])
  /\ UNCHANGED <<written, modifiedAt, bailed>>

\* get_module: read_object, else the store's package (not cached); an
\* object that is not a package is a BadObjectType error returned to the
\* runtime.  Only a package's module is a resolution.
GetModule(p) ==
  /\ LET o == IF ReadObject(p) # NoObj THEN ReadObject(p) ELSE Store[p] IN
       /\ o # NoObj /\ o.kind = "package"
       /\ Saw(p, o)
  /\ UNCHANGED <<written, modifiedAt, cache, bailed>>

\* get_module_by_id: the written package, else the store's module.
GetModuleById(p) ==
  /\ LET o == IF written[p] # NoObj THEN written[p] ELSE Store[p] IN
       /\ o # NoObj /\ o.kind = "package"
       /\ Saw(p, o)
  /\ UNCHANGED <<written, modifiedAt, cache, bailed>>

\* get_resource: read_object, and in its None arm read_object again, whose
\* Some arm bails on a mutable object.  A Move object's contents are
\* returned; a package there is unimplemented!, which the runtime never
\* asks for.
GetResource(a) ==
  /\ LET first == ReadObject(a) IN
     IF first # NoObj
     THEN /\ first.kind = "move"
          /\ Saw(a, first)
          /\ UNCHANGED bailed
     ELSE LET second == ReadObject(a) IN
          /\ second # NoObj
          /\ IF second.imm
             THEN Saw(a, second) /\ UNCHANGED bailed
             ELSE bailed' = TRUE /\ UNCHANGED seen
  /\ UNCHANGED <<written, modifiedAt, cache>>

-----------------------------------------------------------------------------
(* The writes the resolvers must see.                                      *)

\* Mutant of UpgradeSystemPackage: the new version is one above the
\* version read through the store, written objects included.
UpgradeOnWritten(p) ==
  /\ modifiedAt' = [modifiedAt EXCEPT ![p] = Store[p].ver]
  /\ written' = [written EXCEPT ![p] = Obj("package", ReadObject(p).ver + 1, TRUE)]
  /\ UNCHANGED <<cache, seen, bailed>>

\* upgrade_system_package: the store's current version becomes the
\* pre-image and the new package, one version up, is written.
UpgradeSystemPackage(p) ==
  /\ modifiedAt' = [modifiedAt EXCEPT ![p] = Store[p].ver]
  /\ written' = [written EXCEPT ![p] = Obj("package", Store[p].ver + 1, TRUE)]
  /\ UNCHANGED <<cache, seen, bailed>>

\* The runtime's results write a mutable input Move object (its version is
\* stamped only by into_effects).
WriteInput(id) ==
  /\ Store[id].kind = "move" /\ ~Store[id].imm
  /\ written' = [written EXCEPT ![id] = Store[id]]
  /\ UNCHANGED <<modifiedAt, cache, seen, bailed>>

Init ==
  /\ written = [id \in Ids |-> NoObj]
  /\ modifiedAt = [id \in Ids |-> None]
  /\ cache = [id \in Ids |-> NoObj]
  /\ seen = [id \in Ids |-> None]
  /\ bailed = FALSE

Next ==
  \/ \E p \in SystemPackages : UpgradeSystemPackage(p)
  \/ \E id \in Inputs : WriteInput(id)
  \/ \E id \in Ids :
       \/ GetPackageObject(id) \/ GetModule(id) \/ GetModuleById(id)
       \/ GetResource(id)

Spec == Init /\ [][Next]_vars

-----------------------------------------------------------------------------
(* Properties.                                                             *)

TypeOK ==
  /\ written \in [Ids -> Objects \cup {NoObj}]
  /\ modifiedAt \in [Ids -> Nat \cup {None}]
  /\ cache \in [Ids -> Objects \cup {NoObj}]
  /\ seen \in [Ids -> Nat \cup {None}]
  /\ bailed \in BOOLEAN

\* Reads reflect in-flight writes: once any resolver has returned a version
\* of an id, no later resolution of it, by the same or another resolver,
\* returns an older one, however lookups and upgrade_system_package
\* interleave.
ResolutionNeverRegresses ==
  [][\A id \in Ids : seen[id] # None /\ seen'[id] # None => seen[id] <= seen'[id]]_vars
=============================================================================
