--------------------------- MODULE OwnershipCheck ---------------------------
(***************************************************************************)
(* check_ownership_invariants of the temporary store                       *)
(* (temporary_store.rs, get_objects_to_authenticate and the worklist that  *)
(* follows it).  The backing store is reduced to the owner of the latest   *)
(* object of each id, or NoObj for an id with no object (the UID of a      *)
(* table or bag); the execution results to the set of modified ids.  Both  *)
(* are fixed by Init, so one run covers every store over the ids.          *)
(***************************************************************************)
EXTENDS Integers, FiniteSets, Sequences, SequencesExt, OwnershipTypes

CONSTANT IdOrder  \* the ids in ObjectID order (BTreeMap iteration order)

ASSUME OwnershipAssumption ==
  /\ Sender \in Addrs /\ Inputs \subseteq Ids /\ GasCoins \subseteq Inputs
  /\ SystemPackages \subseteq Ids /\ IsEpochChange \in BOOLEAN
  /\ IdOrder \in Seq(Ids) /\ ToSet(IdOrder) = Ids /\ IsInjective(IdOrder)
  /\ NoObj \notin Owners /\ NoId \notin Ids

VARIABLES
  store,          \* id -> owner of its latest stored object, or NoObj
  modified,       \* keys of execution_results.objects_modified_at
  toAuthenticate, \* objects_to_authenticate, a stack (Vec push/pop)
  authenticated,  \* authenticated_objects
  covered,        \* covered: id -> the parent that covers it, or NoId
  phase           \* "start", "walk", then "ok", "panicked" or "error"

vars == <<store, modified, toAuthenticate, authenticated, covered, phase>>

Terminal == {"ok", "panicked", "error"}

-----------------------------------------------------------------------------
(* get_objects_to_authenticate.                                            *)

\* An input not owned by the sender fails the assert; an object-owned
\* input is unreachable!.  Gas coins are skipped.
InputPanics ==
  \E id \in Inputs \ GasCoins :
     \/ store[id].kind = "address" /\ store[id].who # Sender
     \/ store[id].kind = "object"

\* Mutant of Roots: immutable inputs are taken as roots too.
RootsWithImmutable == {id \in Inputs \ GasCoins : store[id].kind \in {"address", "shared", "immutable"}}

\* The authenticated roots: address-owned and shared inputs.
Roots == {id \in Inputs \ GasCoins : store[id].kind \in {"address", "shared"}}

\* Modified ids that are neither roots nor gas are looked up in the store.
LookedUp == {id \in modified : id \notin Roots \cup GasCoins}

\* A missing object panics, an address-owned or shared one is unreachable!,
\* an immutable one must be a system package at epoch change.
ModifiedPanics ==
  \E id \in LookedUp :
     \/ store[id] = NoObj
     \/ store[id].kind \in {"address", "shared"}
     \/ store[id].kind = "immutable" /\ ~(IsEpochChange /\ id \in SystemPackages)

\* The elements of s that are in keep, in the order of s (SelectSeq with
\* a set for the test, written as a recursive function of the prefix).
SelectIn(s, keep) ==
  LET F[i \in 0..Len(s)] ==
        IF i = 0 THEN <<>>
        ELSE IF s[i] \in keep THEN Append(F[i - 1], s[i]) ELSE F[i - 1]
  IN F[Len(s)]

GetObjectsToAuthenticate ==
  /\ phase = "start"
  /\ IF InputPanics \/ ModifiedPanics
     THEN phase' = "panicked" /\ UNCHANGED <<toAuthenticate, authenticated>>
     ELSE /\ toAuthenticate' =
               SelectIn(IdOrder, {id \in LookedUp : store[id].kind = "object"})
          /\ authenticated' = Roots
          /\ phase' = "walk"
  /\ UNCHANGED <<store, modified, covered>>

-----------------------------------------------------------------------------
(* The worklist of check_ownership_invariants: one action per iteration.   *)

\* covered.contains_key(&parent) does not hold.
NotCovered(p) == covered[p] = NoId

\* Mutant of Cover: the popped id is authenticated before its parent is.
CoverAuthenticatingFirst(x, p) ==
  /\ authenticated' = authenticated \cup {x}
  /\ toAuthenticate' = IF p \notin authenticated /\ NotCovered(p)
                       THEN Append(Front(toAuthenticate), p) ELSE Front(toAuthenticate)
  /\ covered' = [covered EXCEPT ![x] = p]

\* The popped id x is owned by the object p: x is authenticated if p is,
\* else p is pushed unless covered; p is recorded as covering x.
Cover(x, p) ==
  /\ IF p \in authenticated
     THEN authenticated' = authenticated \cup {x} /\ toAuthenticate' = Front(toAuthenticate)
     ELSE /\ toAuthenticate' = IF NotCovered(p) THEN Append(Front(toAuthenticate), p)
                                                 ELSE Front(toAuthenticate)
          /\ UNCHANGED authenticated
  /\ covered' = [covered EXCEPT ![x] = p]

\* Pop the last id: an object-less id is skipped, an object not owned by
\* an object is an unauthenticated root (panic), any other is covered.
AuthenticateStep ==
  /\ phase = "walk" /\ toAuthenticate # <<>>
  /\ LET x == Last(toAuthenticate)
         rest == Front(toAuthenticate) IN
     IF store[x] = NoObj
     THEN toAuthenticate' = rest /\ UNCHANGED <<authenticated, covered, phase>>
     ELSE IF store[x].kind # "object"
     THEN phase' = "panicked" /\ UNCHANGED <<toAuthenticate, authenticated, covered>>
     ELSE Cover(x, store[x].who) /\ UNCHANGED phase
  /\ UNCHANGED <<store, modified>>

\* The worklist is empty: the check returns Ok(()).
Finish ==
  /\ phase = "walk" /\ toAuthenticate = <<>>
  /\ phase' = "ok"
  /\ UNCHANGED <<store, modified, toAuthenticate, authenticated, covered>>

\* A lookup of the backing store returns an error, which `?` propagates.
StoreError ==
  /\ \/ phase = "start" /\ LookedUp # {}
     \/ phase = "walk" /\ toAuthenticate # <<>>
  /\ phase' = "error"
  /\ UNCHANGED <<store, modified, toAuthenticate, authenticated, covered>>

-----------------------------------------------------------------------------
\* The stores the check can meet: inputs exist and are owned by an address,
\* shared or immutable (invariant 6 of the spec), gas coins are owned by
\* an address (the sender or a sponsor).  Gas charging always mutates
\* the gas coins, so they are among the modified ids.
StoreStates ==
  {s \in [Ids -> Owners \cup {NoObj}] :
     /\ \A id \in Inputs : s[id] # NoObj /\ s[id].kind # "object"
     /\ \A id \in GasCoins : s[id].kind = "address"}

Init ==
  /\ store \in StoreStates
  /\ modified \in {m \in SUBSET Ids : GasCoins \subseteq m}
  /\ toAuthenticate = <<>>
  /\ authenticated = {}
  /\ covered = [id \in Ids |-> NoId]
  /\ phase = "start"

Next ==
  \/ GetObjectsToAuthenticate
  \/ AuthenticateStep
  \/ Finish
  \/ StoreError

\* The check runs to completion on one thread: every step but a store
\* error is taken once it is possible.
Progress == GetObjectsToAuthenticate \/ AuthenticateStep \/ Finish

Spec == Init /\ [][Next]_vars /\ WF_vars(Progress)

-----------------------------------------------------------------------------
(* The abstract specification: the outcome is pending until the check     *)
(* returns, and then is what it returned.                                  *)

Decision == INSTANCE OwnershipDecision
              WITH outcome <- IF phase \in Terminal THEN phase ELSE "pending"

\* Rooted: some chain of ownership from id reaches a root.
Rooted(id) == \E root \in Decision!AuthRoots : Decision!Chain(id, root)

-----------------------------------------------------------------------------
(* Properties.                                                             *)

\* The worklist implements the abstract check: check_ownership_invariants
\* returns Ok exactly when reachability accepts, panics exactly when it
\* does not, fails on a store error only after a lookup, never changes
\* its outcome, and always returns, whatever the order of the stack.
OwnershipRefinement == Decision!Spec

\* Every id in authenticated_objects is a root or owned, through a chain of
\* objects, by a root: the walk never authenticates an object before its
\* parent.
AuthenticatedRooted == \A id \in authenticated : id \in Decision!AuthRoots \/ Rooted(id)

\* Spec section 8: once the check returns Ok, every modified id is owned,
\* directly or transitively, by the sender, a shared input, or is a system
\* package upgraded at epoch change.
OkMeansRooted ==
  phase = "ok" => \A id \in LookedUp : Rooted(id) \/ store[id] = Immutable

\* Spec section 4.4: each id is enqueued at most once, so the worklist
\* never holds an id twice.
EnqueuedOnce == IsInjective(toAuthenticate)

=============================================================================
