------------------------- MODULE MCOwnershipCheck --------------------------
(***************************************************************************)
(* A small instance of OwnershipCheck for TLC: a gas coin g, one more      *)
(* input r, and three ids x, y, u that are not inputs (any of them may be  *)
(* an object-less UID, own another, or be owned by anything).  s is the    *)
(* sender, t another address.                                              *)
(***************************************************************************)
EXTENDS OwnershipCheck

CONSTANTS g, r, x, y, u, s, t

\* ObjectID order of the ids.
MCIdOrder == <<g, r, x, y, u>>

\* The stores of the run: the gas coin is the sender's; r is owned by s, t,
\* shared or immutable; x, y and u may be object-less, owned by s,
\* immutable, or owned by any of the five ids.
MCStoreStates ==
  {st \in [Ids -> Owners \cup {NoObj}] :
     /\ st[g] = AddressOwner(s)
     /\ st[r] \in {AddressOwner(s), AddressOwner(t), Shared, Immutable}
     /\ \A id \in {x, y, u} : st[id] \in {NoObj, AddressOwner(s), Immutable}
                                        \cup {ObjectOwner(p) : p \in Ids}}
=============================================================================
