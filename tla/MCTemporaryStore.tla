------------------------- MODULE MCTemporaryStore --------------------------
(***************************************************************************)
(* Small instances of TemporaryStore for TLC.                              *)
(*   User transaction: a primary gas coin g, a secondary gas coin s, a     *)
(*   mutable owned input m, a dynamic-field child c and a fresh id n.      *)
(*   System transaction (epoch change): 0x5 as the mutable shared input w, *)
(*   its inner state child i, a system package p and a fresh id n.        *)
(***************************************************************************)
EXTENDS TemporaryStore, TLC

CONSTANTS g, s, m, c, n, w, i, p

Stored(v, r, sz) == [ver |-> v, rebate |-> r, size |-> sz, prev |-> PriorDigest]

UserIds == {g, s, m, c, n}
UserBacking == (g :> Stored(2, 3, 1) @@ s :> Stored(1, 2, 1) @@ m :> Stored(3, 4, 2)
                @@ c :> Stored(2, 2, 1) @@ n :> NoObj)

SystemIds == {w, i, p, n}
SystemBacking == (w :> Stored(3, 4, 2) @@ i :> Stored(3, 2, 1) @@ p :> Stored(1, 1, 1)
                  @@ n :> NoObj)
=============================================================================
