---------------------------- MODULE MCResolvers ----------------------------
(***************************************************************************)
(* A small instance of Resolvers: system package p1 at version 1, an input *)
(* package p2, a mutable input object o1, a mutable object o2 and an       *)
(* immutable object o3 that are not inputs, and an id x the store lacks.   *)
(***************************************************************************)
EXTENDS Resolvers, TLC

CONSTANTS p1, p2, o1, o2, o3, x

MCStore ==
  (p1 :> Obj("package", 1, TRUE)) @@ (p2 :> Obj("package", 0, TRUE))
  @@ (o1 :> Obj("move", 2, FALSE)) @@ (o2 :> Obj("move", 1, FALSE))
  @@ (o3 :> Obj("move", 0, TRUE)) @@ (x :> NoObj)
=============================================================================
