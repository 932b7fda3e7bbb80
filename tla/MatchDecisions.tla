--------------------------- MODULE MatchDecisions ---------------------------
(***************************************************************************)
(* Decisions on pairs of products and the comparison built from them.      *)
(* Operators confirm, reject and remove pairs (product_mappings) while     *)
(* others look at a comparison or at the gap view of a category.  Every    *)
(* request has its own session; the database shows each statement what is  *)
(* committed when it starts, so other requests commit between any two      *)
(* statements of a request.  A decision is three steps (conflict check,    *)
(* read of the row, write and commit); a comparison is one step per query. *)
(*                                                                         *)
(* The heuristic compares a reference product with the targets of its      *)
(* brand, if there are any, and scores each pair (PairScore).  Only the    *)
(* 25 nearest targets are scored and at most five candidates are listed:   *)
(* the model has no such limits.                                           *)
(***************************************************************************)
EXTENDS PairScore

CONSTANTS
    Refs,            \* ids of products of the reference store
    Targets,         \* ids of products of the target store
    RefCat,          \* category of each reference product
    TgtCat,          \* category of each target product
    Mapped,          \* category_mappings: pairs of categories
    RefItem,         \* what the titles and prices of the products say,
    TgtItem,         \*   for each product of the two stores
    Ratio,           \* fuzzy ratio of the titles of each pair, in tenths
    Pairs,           \* pairs that operators decide on
    Threads          \* web threads

MinCandidateScore == 65 * Point
HighConfidenceScore == 85
MinGap == 6 * Point

RefCats == {RefCat[r] : r \in Refs}
TgtCats == {TgtCat[t] : t \in Targets}

ASSUME ConstantsAssumption ==
    /\ Refs \subseteq Nat
    /\ DOMAIN RefCat = Refs /\ DOMAIN TgtCat = Targets
    /\ Mapped \subseteq RefCats \X TgtCats
    /\ RefItem \in [Refs -> Items] /\ TgtItem \in [Targets -> Items]
    /\ Ratio \in [Refs \X Targets -> 0 .. 100 * Point]
    /\ Pairs \subseteq Refs \X Targets

\* The score that heuristic_match gives to each pair.
Score ==
    [p \in Refs \X Targets |-> PairScore(RefItem[p[1]], TgtItem[p[2]], Ratio[p])]

VARIABLES
    mapping,    \* product_mappings: the status of each pair, or "none"
    request,    \* the decision or comparison that each thread is serving
    news        \* history: pairs written since the thread's request began

vars == <<mapping, request, news>>

Statuses == {"confirmed", "rejected"}

Idle == [step |-> "idle"]

Decision ==
    [step: {"checked", "read"}, pair: Pairs, status: Statuses,
     seen: Statuses \cup {"none"}, gone: BOOLEAN]

View ==
    [step: {"rejected", "saved"}, cat: RefCats, cats: SUBSET TgtCats,
     rejected: SUBSET Pairs, taken: SUBSET Targets, todo: SUBSET Refs,
     saved: SUBSET Pairs]

-----------------------------------------------------------------------------
(* What a comparison shows *)

\* The comparison that a request's snapshots lead to.
RefsOf(v) == {r \in Refs : RefCat[r] = v.cat}
TargetsOf(v) == {t \in Targets : TgtCat[t] \in v.cats}

\* Phase 1: stored decisions, the first reference product wins a target.
Stored(v) ==
    {p \in v.saved : /\ p[1] \in RefsOf(v) /\ p[2] \in TargetsOf(v)
                     /\ \A r \in RefsOf(v) : <<r, p[2]>> \in v.saved => p[1] <= r}

OpenRefs(v) == RefsOf(v) \ {p[1] : p \in Stored(v)}

\* Mutant: targets with a stored match stay in the heuristic phase.
OpenTargetsAll(v) == TargetsOf(v)
OpenTargets(v) == TargetsOf(v) \ {p[2] : p \in Stored(v)}

\* Mutant: the brands of the targets are not looked at.
PoolOfAll(v, r) == OpenTargets(v)

\* Phase 2: the heuristic looks among the targets of the same brand, or among
\* all of them if there is none, ...
Pool(v, r) ==
    LET open == OpenTargets(v)
        own  == {t \in open : Agree(RefItem[r].brand, TgtItem[t].brand)}
    IN  IF own # {} THEN own ELSE open

\* ... and has a clear best one, several near ones, or none.
Candidates(v, r) == {t \in Pool(v, r) : Score[<<r, t>>] >= MinCandidateScore}

\* A target without a brand is in the list of all targets only, which has it
\* twice: it is its own rival.
ClearBest(v, r, t) ==
    LET pool == Pool(v, r) IN
    /\ t \in pool
    /\ Score[<<r, t>>] >= MinCandidateScore
    /\ Known(TgtItem[t].brand)
    /\ \A u \in pool \ {t} : Score[<<r, t>>] - Score[<<r, u>>] >= MinGap

Matched(v) ==
    {p \in OpenRefs(v) \X OpenTargets(v) : ClearBest(v, p[1], p[2])}

Ambiguous(v) ==
    {r \in OpenRefs(v) : /\ Candidates(v, r) # {}
                         /\ \A t \in OpenTargets(v) : ~ClearBest(v, r, t)}

\* Mutant: a rejected pair is still suggested.
HighConfidenceAnyway(v) ==
    {p \in Matched(v) : Percent(Score[p]) >= HighConfidenceScore}

\* Phase 3: suggestions, candidate groups, reference products without match.
HighConfidence(v) ==
    {p \in Matched(v) \ v.rejected : Percent(Score[p]) >= HighConfidenceScore}

Lower(v) ==
    {p \in Matched(v) \ v.rejected : Percent(Score[p]) < HighConfidenceScore}

Near(v) == {p \in Ambiguous(v) \X OpenTargets(v) : p[2] \in Candidates(v, p[1])}

\* The candidates of all groups; a group may be left with none.
Shown(v) == Lower(v) \cup (Near(v) \ v.rejected)

\* Mutant: a candidate confirmed for another product can be accepted.
AcceptableAll(v) == Shown(v)
Acceptable(v) == {p \in Shown(v) : p[2] \notin v.taken}

Groups(v) == {p[1] : p \in Lower(v)} \cup Ambiguous(v)

ReferenceOnly(v) ==
    {r \in OpenRefs(v) : Candidates(v, r) = {}}
        \cup {p[1] : p \in Matched(v) \cap v.rejected}

\* Mutant: the targets of candidate groups are not taken out.
TargetOnlyUnfiltered(v) ==
    TargetsOf(v) \ {p[2] : p \in Stored(v) \cup HighConfidence(v)}

\* Phase 4.  The code takes every near candidate out, shown or not.
TargetOnly(v) ==
    TargetsOf(v) \ {p[2] : p \in Stored(v) \cup HighConfidence(v)
                                  \cup Lower(v) \cup Near(v)}

-----------------------------------------------------------------------------
(* Requests *)

Init ==
    /\ mapping = [p \in Pairs |-> "none"]
    /\ request = [w \in Threads |-> Idle]
    /\ news = [w \in Threads |-> {}]

\* Mutant: the check looks at the pair itself instead of the other ones.
ConflictSame(p) == mapping[p] = "confirmed"

\* Another reference product has this target confirmed.
Conflict(p) ==
    \E q \in Pairs : /\ q[2] = p[2] /\ q[1] # p[1]
                     /\ mapping[q] = "confirmed"

\* A request to confirm a pair is refused (409) on a conflict.  A request to
\* reject is not checked.  Scope validation is optional for the caller, so
\* every pair can arrive here.
DecideCheck(w, p, s) ==
    /\ request[w] = Idle
    /\ s = "confirmed" => ~Conflict(p)
    /\ request' = [request EXCEPT ![w] =
           [step |-> "checked", pair |-> p, status |-> s, seen |-> "none",
            gone |-> FALSE]]
    /\ UNCHANGED <<mapping, news>>

DecideRead(w) ==
    /\ request[w].step = "checked"
    /\ request' = [request EXCEPT ![w].step = "read",
                                    ![w].seen = mapping[request[w].pair]]
    /\ UNCHANGED <<mapping, news>>

\* A write of p is news to every request under way but the writer's own.
Announce(p, writer) ==
    news' = [w \in Threads |->
        IF request[w] # Idle /\ w \notin writer THEN news[w] \cup {p} ELSE {}]

\* The row is inserted, or its changed status is updated by id.
DecideWrite(w) ==
    LET d == request[w] IN
    /\ d.step = "read"
    /\ d.seen = "none" => mapping[d.pair] = "none"
    /\ d.seen # d.status
    /\ ~d.gone
    /\ mapping' = [mapping EXCEPT ![d.pair] = d.status]
    /\ request' = [request EXCEPT ![w] = Idle]
    /\ Announce(d.pair, {w})

\* The request ends without a write: the row says so already, the unique
\* constraint or the vanished row makes the flush fail, or anything else
\* raises and the route rolls back.
DecideEnd(w) ==
    /\ request[w].step \in {"checked", "read"}
    /\ request' = [request EXCEPT ![w] = Idle]
    /\ news' = [news EXCEPT ![w] = {}]
    /\ UNCHANGED mapping

\* DELETE of a row by id.  Who has read the row will update nothing.
DeletePair(p) ==
    /\ mapping[p] # "none"
    /\ mapping' = [mapping EXCEPT ![p] = "none"]
    /\ request' = [w \in Threads |->
           IF request[w].step = "read" /\ request[w].pair = p
                 /\ request[w].seen # "none"
           THEN [request[w] EXCEPT !.gone = TRUE] ELSE request[w]]
    /\ Announce(p, {})

\* The queries of a comparison: rejected pairs of the reference products ...
CompareRejected(w, c, cats) ==
    /\ request[w] = Idle
    /\ cats # {} /\ \A k \in cats : <<c, k>> \in Mapped
    /\ request' = [request EXCEPT ![w] =
           [step |-> "rejected", cat |-> c, cats |-> cats,
            rejected |-> {p \in Pairs : /\ RefCat[p[1]] = c
                                        /\ mapping[p] = "rejected"},
            taken |-> {}, todo |-> {}, saved |-> {}]]
    /\ UNCHANGED <<mapping, news>>

\* ... targets confirmed for any reference product ...
CompareTaken(w) ==
    /\ request[w].step = "rejected"
    /\ request' = [request EXCEPT
           ![w].step = "saved",
           ![w].taken = {t \in TargetsOf(request[w]) :
                             \E p \in Pairs : /\ p[2] = t
                                              /\ mapping[p] = "confirmed"},
           ![w].todo = RefsOf(request[w])]
    /\ UNCHANGED <<mapping, news>>

\* ... and the stored pairs of one reference product after the other.
CompareSaved(w) ==
    /\ request[w].step = "saved"
    /\ \E r \in request[w].todo :
           /\ \A k \in request[w].todo : r <= k
           /\ request' = [request EXCEPT
                  ![w].todo = @ \ {r},
                  ![w].saved = @ \cup {p \in Pairs : /\ p[1] = r
                                                     /\ mapping[p] = "confirmed"}]
    /\ UNCHANGED <<mapping, news>>

\* The comparison is sent, or one of its queries has raised.
CompareEnd(w) ==
    /\ request[w].step \in {"rejected", "saved"}
    /\ request' = [request EXCEPT ![w] = Idle]
    /\ news' = [news EXCEPT ![w] = {}]
    /\ UNCHANGED mapping

Next ==
    \/ \E w \in Threads :
          \/ \E p \in Pairs, s \in Statuses : DecideCheck(w, p, s)
          \/ DecideRead(w)
          \/ DecideWrite(w)
          \/ DecideEnd(w)
          \/ \E c \in RefCats, cats \in SUBSET TgtCats :
                 CompareRejected(w, c, cats)
          \/ CompareTaken(w)
          \/ CompareSaved(w)
          \/ CompareEnd(w)
    \/ \E p \in Pairs : DeletePair(p)

Spec == Init /\ [][Next]_vars

-----------------------------------------------------------------------------
(* Properties *)

\* Every variable has its type.
TypeOK ==
    /\ mapping \in [Pairs -> Statuses \cup {"none"}]
    /\ request \in [Threads -> {Idle} \cup Decision \cup View]
    /\ news \in [Threads -> SUBSET Pairs]

\* The comparisons that are complete and about to be sent.
Complete(w) == request[w].step = "saved" /\ request[w].todo = {}

\* A target is confirmed for a second reference product only by a request
\* that passed its conflict check before the first one was written (the
\* check and the insert of api_comparison_match_decision are apart).
SecondOnlyByRace ==
    [][\A p \in Pairs : mapping[p] # "confirmed" /\ mapping'[p] = "confirmed" =>
           \A q \in Pairs :
               q[2] = p[2] /\ q[1] # p[1] /\ mapping[q] = "confirmed" =>
                   \E w \in Threads : /\ request[w].step = "read"
                                      /\ request[w].pair = p
                                      /\ q \in news[w]]_vars

\* Decisions older than the request are respected by the whole comparison,
\* though its queries see different states: a rejected pair is not suggested,
\* a confirmed one is stored unless its target is stored for another product.
DecisionsRespected ==
    \A w \in Threads : Complete(w) =>
        \A p \in Pairs \ news[w] :
            /\ mapping[p] = "rejected" =>
                   p \notin HighConfidence(request[w]) \cup Shown(request[w])
            /\ /\ mapping[p] = "confirmed"
               /\ p[1] \in RefsOf(request[w]) /\ p[2] \in TargetsOf(request[w])
               => \E q \in Stored(request[w]) : q[2] = p[2]

\* Accepting a candidate that the comparison offers meets no conflict that is
\* older than the request (can_accept agrees with the check of the decision).
OfferAcceptable ==
    \A w \in Threads : Complete(w) =>
        \A p \in Acceptable(request[w]), q \in Pairs \ news[w] :
            mapping[q] = "confirmed" => q[2] # p[2]

\* Each reference product of the category is in exactly one section, and no
\* stored match shares its target with another match of the comparison.
SectionsDisjoint ==
    \A w \in Threads : Complete(w) =>
        LET v == request[w]
            matched == {p[1] : p \in Stored(v) \cup HighConfidence(v)}
        IN  /\ matched \cup Groups(v) \cup ReferenceOnly(v) = RefsOf(v)
            /\ matched \cap Groups(v) = {}
            /\ (matched \cup Groups(v)) \cap ReferenceOnly(v) = {}
            /\ \A p \in Stored(v) :
                   \A q \in Stored(v) \cup HighConfidence(v) \cup Shown(v) :
                       q[2] = p[2] => q = p

\* What the gap view lists is neither confirmed for a product of the category
\* by a decision older than the request, nor matched or offered elsewhere in
\* the same comparison.
GapSound ==
    \A w \in Threads : Complete(w) =>
        \A t \in TargetOnly(request[w]) :
            /\ \A p \in Pairs \ news[w] :
                   p[2] = t /\ p[1] \in RefsOf(request[w]) => mapping[p] # "confirmed"
            /\ \A p \in HighConfidence(request[w]) \cup Shown(request[w]) : p[2] # t

\* No comparison suggests a pair of two brands, of two sports, of a goalie's and
\* a player's equipment, or of two kinds of it, but for a trapper and a glove
\* (both titles may lack a word for a goalie, which decides the kind as well).
\* And a product of a brand is offered a target without one only when no open
\* target of the brand is left: as decisions take them away, the pool grows.
SuggestionsPlausible ==
    \A w \in Threads : Complete(w) =>
        \A p \in HighConfidence(request[w]) \cup Shown(request[w]) :
            LET a == RefItem[p[1]]
                b == TgtItem[p[2]]
            IN  /\ ~Clash(a.brand, b.brand) /\ ~Clash(a.sport, b.sport)
                /\ Clash(Kind(a), Kind(b)) =>
                       /\ {Kind(a), Kind(b)} = {"GLOVES", "GOALIE_GLOVE"}
                       /\ ~a.goalie /\ ~b.goalie
                /\ Known(a.brand) /\ ~Known(b.brand) =>
                       \A t \in OpenTargets(request[w]) : TgtItem[t].brand # a.brand

\* docs/domain/domain_invariants.md: a product of the selected categories is in
\* the gap view when no confirmed pair covers it and no candidate group has it.
GapComplete ==
    \A w \in Threads : Complete(w) =>
        \A t \in TargetsOf(request[w]) :
            \/ t \in TargetOnly(request[w])
            \/ \E p \in Stored(request[w]) \cup HighConfidence(request[w])
                            \cup Shown(request[w]) : p[2] = t
=============================================================================
