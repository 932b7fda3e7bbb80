----------------------------- MODULE GapReviewMC -----------------------------
(***************************************************************************)
(* An instance of GapReview for TLC: one page and one other client.        *)
(***************************************************************************)
EXTENDS GapReview, TLC

CONSTANTS c1, c2, t1, t2, x1, x2, u1, v1, none

\* Category c1 is mapped to both target categories, c2 to the second.
Mapping == c1 :> {t1, t2} @@ c2 :> {t2}

ProductCats == x1 :> t1 @@ x2 :> t2

\* A decision on x2 may take it out of the gap of c1.
SomeGaps == c1 :> {{x1, x2}, {x1}} @@ c2 :> {{x1, x2}}

DefaultOnly ==
    {[statuses |-> {"new", "in_progress"}, passing |-> {x1, x2}]}

SomePosts == [category : {c1}, product : {x1}, status : Statuses]

Choices == u1 :> {c1, c2, none}

InFlight == u1 :> 2
=============================================================================
