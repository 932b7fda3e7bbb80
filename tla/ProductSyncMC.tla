---------------------------- MODULE ProductSyncMC ----------------------------
(***************************************************************************)
(* Instances of ProductSync for TLC: a web thread and a worker, each with  *)
(* a category of its own, which share products.  (The category only goes   *)
(* into the rows, so two syncs of one category are no harder.)             *)
(***************************************************************************)
EXTENDS ProductSync

CONSTANTS u1, u2, q, none, c1, c2, s1, s2

Scopes == [s \in Syncs |-> IF s \in Workers THEN {c2} ELSE {c1}]
=============================================================================
