------------------------- MODULE MCRosettaAccount --------------------------
(***************************************************************************)
(* A small chain for RosettaAccount: three checkpoints; stake s1 is        *)
(* pending at 0, active from 1, s2 active at 0 and 1 and withdrawn at 2;   *)
(* rewards accrue from 1; the balance and the coins change at every        *)
(* checkpoint.  So each kind of answer differs between any two heights.    *)
(***************************************************************************)
EXTENDS RosettaAccount

CONSTANTS s1, s2, v1, v2, c1, c2, c3

MCBalance == [h \in Heights |-> CASE h = 0 -> 100 [] h = 1 -> 90 [] OTHER -> 95]

MCValidator == [s \in StakeIds |-> IF s = s1 THEN v1 ELSE v2]

MCPrincipal == [s \in StakeIds |-> IF s = s1 THEN 10 ELSE 5]

MCStakeStatus ==
  [h \in Heights |-> [s \in StakeIds |->
     CASE s = s1 -> IF h = 0 THEN "pending" ELSE "active"
       [] OTHER  -> IF h = 2 THEN "none" ELSE "active"]]

MCReward == [h \in Heights |-> [s \in StakeIds |-> h]]

MCCoinsAt == [h \in Heights |-> CASE h = 0 -> {c1, c2} [] h = 1 -> {c2} [] OTHER -> {c2, c3}]
=============================================================================
