------------------------------ MODULE PairScore ------------------------------
(***************************************************************************)
(* The score of a pair of products: what heuristic_match thinks of the     *)
(* title and price of a reference product and a target product.  A product *)
(* is what _prep makes of its title: words found, attributes or Unknown.   *)
(* How the regular expressions find them is left out, and so is the fuzzy  *)
(* ratio of two titles, which is a parameter.  Scores are in tenths.       *)
(***************************************************************************)
EXTENDS Integers, FiniteSets

CONSTANTS
    Attributes,      \* brands, levels, sizes ... that titles tell
    Unknown,         \* an attribute that the title does not tell
    Tokens,          \* model tokens
    Numeric,         \* tokens with a digit
    Series           \* tokens that name a model series

ASSUME TokensAssumption ==
    /\ IsFiniteSet(Tokens)
    /\ Unknown \in Attributes
    /\ Numeric \subseteq Tokens /\ Series \subseteq Tokens

Point == 10

Known(x) == x # Unknown
Clash(x, y) == Known(x) /\ Known(y) /\ x # y
Agree(x, y) == Known(x) /\ x = y

-----------------------------------------------------------------------------
(* The kind of equipment *)

\* Kinds in the order in which their patterns are tried.
Kinds ==
    << "GOALIE_GLOVE", "GOALIE_BLOCKER", "GOALIE_STICK", "GOALIE_SKATES",
       "GOALIE_HELMET", "GOALIE_PADS", "GOALIE_PANTS", "GOALIE_CHEST",
       "STICK", "SKATES", "GLOVES", "SHIN_GUARDS", "ELBOW_PADS",
       "SHOULDER_PADS", "HELMET", "PANTS", "NECK_GUARD", "JOCK_JILL",
       "WRIST_GUARD", "BAG", "ACCESSORY" >>

Extras == {"BAG", "ACCESSORY"}

\* A title with a word for an extra and none for core equipment.
Accessory(a) == a.extra /\ ~a.core

\* The first pattern found; those of extras count in titles of extras only.
Fitting(a) ==
    {i \in DOMAIN Kinds : Kinds[i] \in a.words /\ (Kinds[i] \in Extras => Accessory(a))}

GoalieKind(kind) ==
    CASE kind = "STICK"  -> "GOALIE_STICK"
      [] kind = "SKATES" -> "GOALIE_SKATES"
      [] kind = "GLOVES" -> "GOALIE_GLOVE"
      [] kind = "HELMET" -> "GOALIE_HELMET"
      [] kind = "PANTS"  -> "GOALIE_PANTS"
      [] OTHER           -> kind

\* _extract_product_type
Kind(a) ==
    IF Fitting(a) = {} THEN Unknown
    ELSE LET kind == Kinds[CHOOSE i \in Fitting(a) : \A j \in Fitting(a) : i <= j]
         IN  IF a.goalie THEN GoalieKind(kind) ELSE kind

Compatible ==
    { {"STICK", "GOALIE_STICK"}, {"SKATES", "GOALIE_SKATES"},
      {"GLOVES", "GOALIE_GLOVE"}, {"HELMET", "GOALIE_HELMET"},
      {"PANTS", "GOALIE_PANTS"} }

-----------------------------------------------------------------------------
(* _pair_score *)

GoalieConflict(a, b) ==
    a.goalie # b.goalie /\ (Known(Kind(a)) \/ Known(Kind(b)))

KindConflict(a, b) ==
    Clash(Kind(a), Kind(b)) /\ {Kind(a), Kind(b)} \notin Compatible

\* Mutant: a conflict of brands is not looked at.
ExcludedOtherwise(a, b) ==
    \/ Clash(a.sport, b.sport)
    \/ GoalieConflict(a, b)
    \/ KindConflict(a, b)
    \/ Accessory(a) # Accessory(b)

\* Hard rejects: such a pair is no match whatever the titles look like.
Excluded(a, b) ==
    \/ Clash(a.brand, b.brand)
    \/ Clash(a.sport, b.sport)
    \/ GoalieConflict(a, b)
    \/ KindConflict(a, b)
    \/ Accessory(a) # Accessory(b)

Costs ==
    [flex |-> 40, hand |-> 60, level |-> 25, curve |-> 20, fit |-> 30, size |-> 15]

Gains ==
    [numeric |-> 10, alpha |-> 4, kind |-> 5, sport |-> 3, goalie |-> 4,
     series |-> 8, curve |-> 6, hand |-> 5, flex |-> 4, fit |-> 6]

Points(condition, n) == IF condition THEN n ELSE 0

Shared(a, b) == a.tokens \cap b.tokens

TokenBonus(a, b) ==
    Gains.numeric * Cardinality(Shared(a, b) \cap Numeric)
        + Gains.alpha * Cardinality(Shared(a, b) \ Numeric)

Penalty(a, b) ==
    Points(Clash(a.level, b.level), Costs.level)
        + Points(Clash(a.flex, b.flex), Costs.flex)
        + Points(Clash(a.hand, b.hand), Costs.hand)
        + Points(Clash(a.curve, b.curve), Costs.curve)
        + Points(Clash(a.fit, b.fit), Costs.fit)
        + Points(a.sizes # {} /\ b.sizes # {} /\ a.sizes \cap b.sizes = {}, Costs.size)

DomainBonus(a, b) ==
    Points(Agree(Kind(a), Kind(b)), Gains.kind)
        + Points(Agree(a.sport, b.sport), Gains.sport)
        + Points(a.goalie /\ b.goalie, Gains.goalie)
        + Gains.series * Cardinality(Shared(a, b) \cap Series)
        + Points(Agree(a.curve, b.curve), Gains.curve)
        + Points(Agree(a.hand, b.hand), Gains.hand)
        + Points(Agree(a.flex, b.flex), Gains.flex)
        + Points(Agree(a.fit, b.fit), Gains.fit)

\* The price in whole units.
Uah(a) == IF Known(a.price) THEN a.price \div 100 ELSE 0

\* Prices within a tenth of each other, or one more than twice the other.
PriceModifier(a, b) ==
    LET low  == IF Uah(a) < Uah(b) THEN Uah(a) ELSE Uah(b)
        high == IF Uah(a) < Uah(b) THEN Uah(b) ELSE Uah(a)
    IN  CASE low > 0 /\ 10 * low >= 9 * high -> 3
          [] low > 0 /\ 2 * low < high       -> -5
          [] OTHER                           -> 0

\* Below every other score; the difference of two scores fits in 32 bits.
Impossible == -1000000000

\* ratio is token_set_ratio of the two titles, in tenths.
PairScore(a, b, ratio) ==
    IF Excluded(a, b) THEN Impossible
    ELSE ratio + Point * (TokenBonus(a, b) + DomainBonus(a, b) - Penalty(a, b)
                              + PriceModifier(a, b))

\* score_percent: rounded, halves to the even number, and cut to 0 .. 100.
Percent(score) ==
    LET whole == score \div Point
        part  == score % Point
        near  == IF part > 5 \/ (part = 5 /\ whole % 2 = 1) THEN whole + 1 ELSE whole
    IN  CASE near < 0   -> 0
          [] near > 100 -> 100
          [] OTHER      -> near

\* Patterns that hold a word for a goalie.  Those for gloves (trapper), blockers,
\* pads and chest protectors need none.
GoalieWords == {"GOALIE_STICK", "GOALIE_SKATES", "GOALIE_HELMET", "GOALIE_PANTS"}

\* A product as _prep leaves it, the price in hundredths.
Items ==
    {a \in [brand : Attributes, sport : Attributes, goalie : BOOLEAN,
            words : SUBSET {Kinds[i] : i \in DOMAIN Kinds},
            extra : BOOLEAN, core : BOOLEAN, tokens : SUBSET Tokens,
            level : Attributes, flex : Attributes, hand : Attributes,
            curve : Attributes, fit : Attributes, sizes : SUBSET Attributes,
            price : Nat \cup {Unknown}] :
        a.words \cap GoalieWords # {} => a.goalie}
=============================================================================
