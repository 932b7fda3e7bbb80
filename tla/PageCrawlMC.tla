----------------------------- MODULE PageCrawlMC -----------------------------
(***************************************************************************)
(* An instance of PageCrawl for TLC: two workers crawl a category of two   *)
(* pages; the pager of the second leads back to the first, or nowhere.     *)
(* The home page is the first page.                                        *)
(***************************************************************************)
EXTENDS PageCrawl, TLC

CONSTANTS p1, p2, dead, none, w1, w2

Entry(num, current, label, href) ==
    [num |-> num, current |-> current, label |-> label, href |-> href]

\* Pagers as the shops show them.  By its numbers the second page leads back
\* to the first; its last entry is the disabled "forward".
OnFirst ==
    << Entry(1, TRUE, "number", none), Entry(0, FALSE, "number", none),
       Entry(2, FALSE, "number", p2), Entry(0, FALSE, "forward", p2) >>

OnSecond ==
    << Entry(1, TRUE, "number", none), Entry(2, FALSE, "number", p1),
       Entry(0, FALSE, "forward", none) >>

OneShop == { p1 :> OnFirst @@ p2 :> OnSecond @@ dead :> <<>> }

Limits == [shop \in Shops |-> IF shop = "hockeyworld" THEN 1 ELSE 3]

HomeLinks == [u \in Urls |-> IF u = p2 THEN p1 ELSE none]

Links == [u \in Urls |-> [local |-> u # dead, category |-> u # p1]]

Some == {<<p1, 1>>, <<p2, 2>>}

\* Each worker has crawls of its own; the pages and the cache are the same.
Crawls ==
    [w \in Workers |->
        IF w = w1 THEN {[shop |-> "prohockey", start |-> p2]}
        ELSE {[shop |-> "hockeyshop", start |-> p1], [shop |-> "hockeyworld", start |-> p1],
              [shop |-> "hockeyshans", start |-> p2]}]

Menus == [w \in Workers |-> IF w = w1 THEN {"hockeyshop", "hockeyworld"} ELSE {}]
=============================================================================
