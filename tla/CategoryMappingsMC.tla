-------------------------- MODULE CategoryMappingsMC --------------------------
(***************************************************************************)
(* An instance of CategoryMappings for TLC: a reference store with one     *)
(* category, and another store with two that have the same name once       *)
(* normalized.  Operators also try to map these two to each other.         *)
(***************************************************************************)
EXTENDS CategoryMappings, TLC

CONSTANTS r, t, w1, w2

Shops == {<<r, 1>>, <<t, 1>>, <<t, 2>>}

SameNorm == <<"sticks", "sticks">>

ChosenPairs == {<< <<r, 1>>, <<t, 1>> >>, << <<t, 1>>, <<t, 2>> >>}
=============================================================================
