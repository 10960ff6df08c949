-------------------------- MODULE OwnershipDecision --------------------------
(***************************************************************************)
(* What check_ownership_invariants promises (spec sections 4.4 and 8),    *)
(* stated without the worklist: in one step the check accepts the         *)
(* transaction exactly when every input may be used by the sender, every  *)
(* looked-up modified object may be modified, and every ownership chain   *)
(* from an object-owned modified id ends at an authenticated root, at an  *)
(* object-less UID, or in a cycle; otherwise it panics.  A store error    *)
(* may end the check instead, but only when something is looked up.      *)
(***************************************************************************)
EXTENDS Integers, FiniteSets, OwnershipTypes

VARIABLES
  store,     \* id -> owner of its latest stored object, or NoObj
  modified,  \* the modified ids
  outcome    \* "pending", then "ok", "panicked" or "error"

avars == <<store, modified, outcome>>

\* The authenticated roots: inputs owned by the sender, and shared inputs.
\* Gas coins and immutable inputs are not roots.
AuthRoots == {id \in Inputs \ GasCoins : store[id] = AddressOwner(Sender) \/ store[id] = Shared}

\* Every non-gas input is the sender's, shared or immutable.
InputsAuthorised ==
  \A id \in Inputs \ GasCoins : store[id] \in {AddressOwner(Sender), Shared, Immutable}

\* The modified ids that are neither roots nor gas coins.
Examined == modified \ (AuthRoots \cup GasCoins)

\* Each of them exists, and is owned by an object or is a system package
\* upgraded at epoch change.
ModifiedAllowed ==
  \A id \in Examined :
     /\ store[id] # NoObj
     /\ \/ store[id].kind = "object"
        \/ store[id] = Immutable /\ IsEpochChange /\ id \in SystemPackages

\* The owner of id when it is an object and id is not a root: the object
\* the walk goes on to from id.
ParentOf(id) == IF id \notin AuthRoots /\ store[id] # NoObj /\ store[id].kind = "object"
                THEN store[id].who ELSE NoId

\* The ids on the chain of owners above x: the walk up[j] goes j steps up
\* from x (NoId past its end).  A chain without a repeat has at most
\* Cardinality(Ids) links.
AncestorsOf(x) ==
  LET up[j \in 0..Cardinality(Ids)] ==
        IF j = 0 THEN x ELSE IF up[j - 1] = NoId THEN NoId ELSE ParentOf(up[j - 1])
  IN {up[j] : j \in 1..Cardinality(Ids)} \ {NoId}

\* y is on the chain of owners above x.
Chain(x, y) == y \in AncestorsOf(x)

\* Every object on an ownership chain that starts at an object-owned
\* examined id, up to the first root.
Explored ==
  LET starts == {id \in Examined : store[id] # NoObj /\ store[id].kind = "object"} IN
  starts \cup UNION {AncestorsOf(x) : x \in starts}

\* The check's verdict by reachability.
AcceptedByReachability ==
  /\ InputsAuthorised /\ ModifiedAllowed
  /\ \A y \in Explored : y \in AuthRoots \/ store[y] = NoObj \/ store[y].kind = "object"

Init ==
  /\ store \in [Ids -> Owners \cup {NoObj}]
  /\ modified \in SUBSET Ids
  /\ outcome = "pending"

\* The check returns Ok(()) or panics, by reachability.
Decide ==
  /\ outcome = "pending"
  /\ outcome' = IF AcceptedByReachability THEN "ok" ELSE "panicked"
  /\ UNCHANGED <<store, modified>>

\* A lookup of the backing store fails; only an examined id is looked up.
Fail ==
  /\ outcome = "pending" /\ Examined # {}
  /\ outcome' = "error"
  /\ UNCHANGED <<store, modified>>

Next == Decide \/ Fail

\* The check is always decided.
Spec == Init /\ [][Next]_avars /\ WF_avars(Decide)
=============================================================================
