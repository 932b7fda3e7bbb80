-------------------------- MODULE MatchDecisionsMC --------------------------
(***************************************************************************)
(* Instances of MatchDecisions for TLC: two reference products in one      *)
(* category (1, 2), one in another (3), both mapped to one target category.*)
(* Product 1 has no brand and is near to both x and y.  Product 2 has the  *)
(* brand of x; y has none and is nearly as good, z has another one and the *)
(* title that comes nearest.                                               *)
(***************************************************************************)
EXTENDS MatchDecisions, TLC

CONSTANTS x, y, z, w1, w2, unknown

RefCategories == <<"skates", "skates", "sticks">>
TargetCategories == [t \in Targets |-> "all"]
OneMapped == {<<"skates", "all">>}

Told == {"BAUER", "CCM", "ICE_HOCKEY", "SR", "JR", "D", "EE", "9", "9.5", unknown}
AllTokens == {"VAPOR", "X5", "P28"}

Skates ==
    [brand |-> unknown, sport |-> "ICE_HOCKEY", goalie |-> FALSE, words |-> {"SKATES"},
     extra |-> FALSE, core |-> TRUE, tokens |-> {"VAPOR"}, level |-> unknown,
     flex |-> unknown, hand |-> unknown, curve |-> unknown, fit |-> unknown,
     sizes |-> {}, price |-> unknown]

\* Product 3 is what the page sees of any other one.
RefItems ==
    << [Skates EXCEPT !.level = "SR", !.sizes = {"9"}, !.price = 10050],
       [Skates EXCEPT !.brand = "BAUER", !.fit = "D", !.price = 10000],
       [Skates EXCEPT !.words = {"STICK", "BAG"}, !.extra = TRUE] >>

TargetItems ==
    x :> [Skates EXCEPT !.brand = "BAUER", !.level = "SR", !.fit = "D", !.price = 10999]
 @@ y :> [Skates EXCEPT !.level = "JR", !.tokens = {"VAPOR", "X5"}, !.fit = "EE"]
 @@ z :> [Skates EXCEPT !.brand = "CCM", !.words = {}, !.sizes = {"9.5"}, !.price = 30000]

\* Of 1 with x 72, with y 70, with z less; of 2 with x 84.6, with y 80.
Ratios == [p \in Refs \X Targets |->
    CASE p = <<1, x>> -> 490 [] p = <<1, y>> -> 750 [] p = <<2, x>> -> 556
      [] p = <<2, y>> -> 900 [] p[1] = 2 /\ p[2] = z -> 1000 [] OTHER -> 400]

DecidedPairs == {<<1, x>>, <<2, x>>, <<3, x>>}

\* TLC makes a table of Score when it looks at all of it.
ASSUME ScoresAreNumbers == Score \in [Refs \X Targets -> Int]

ThreadSymmetry == Permutations(Threads)
=============================================================================
