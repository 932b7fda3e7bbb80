--------------------------- MODULE ComparisonPageMC ---------------------------
(***************************************************************************)
(* An instance of ComparisonPage for TLC: one category has an ambiguous     *)
(* product and one without a match, the other has a suggestion.             *)
(***************************************************************************)
EXTENDS ComparisonPage, TLC

CONSTANTS c1, c2, k1, k2, x, y

Mapping == c1 :> {k1, k2} @@ c2 :> {k2}
RefCategories == <<c1, c1, c2>>
TargetCategories == x :> k1 @@ y :> k2
Scores == <<1, x>> :> 70 @@ <<1, y>> :> 68 @@ <<2, x>> :> 20 @@ <<2, y>> :> 20
            @@ <<3, x>> :> 88 @@ <<3, y>> :> 90
\* All stores, or the one that has the first category.
StoreChoices == {TargetCats, {k1}}
OtherPairs == {<<3, y>>}
=============================================================================
