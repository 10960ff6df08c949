--------------------------- MODULE OwnershipTypes ---------------------------
(***************************************************************************)
(* The constants shared by the ownership check and its abstract           *)
(* specification: the ids and addresses a transaction sees, and the Owner *)
(* enum of sui_types (AddressOwner, ObjectOwner, Shared, Immutable).       *)
(***************************************************************************)
CONSTANTS
  Ids,            \* object ids, including object-less UIDs
  Addrs,          \* addresses
  Sender,         \* the transaction's sender
  Inputs,         \* ids of the input objects
  GasCoins,       \* gas_charger.gas_coins(), all of them inputs
  SystemPackages, \* ids for which is_system_package holds
  IsEpochChange,  \* the is_epoch_change argument
  NoObj, NoId

AddressOwner(a) == [kind |-> "address", who |-> a]
ObjectOwner(p) == [kind |-> "object", who |-> p]
Shared == [kind |-> "shared", who |-> NoId]
Immutable == [kind |-> "immutable", who |-> NoId]
Owners == {AddressOwner(a) : a \in Addrs} \cup {ObjectOwner(p) : p \in Ids}
          \cup {Shared, Immutable}
=============================================================================
