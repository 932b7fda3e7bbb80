---------------------------- MODULE ComparisonPage ----------------------------
(***************************************************************************)
(* The comparison page of one manager.  Selecting a reference category asks *)
(* for its mapped target categories, which become the scope of the next     *)
(* comparison; the answer lists suggestions, groups of candidates and       *)
(* reference products without a match; the manager confirms or rejects      *)
(* pairs, or picks a target in a drawer with a search of its own, and the   *)
(* page patches whatever result it shows when a decision has been stored.   *)
(* Requests of all kinds overlap, and others decide at the same time.       *)
(*                                                                         *)
(* How pairs are scored, and how decisions of several servers interleave,   *)
(* is the business of MatchDecisions; here a score is a constant.           *)
(***************************************************************************)
EXTENDS Integers, FiniteSets

CONSTANTS
    RefCats,         \* reference categories
    TargetCats,      \* target categories
    None,            \* nothing selected
    MappedTo,        \* target categories mapped to each reference category
    Stores,          \* choices of target store, each the set of its categories
    Refs,            \* reference products, in the order of their ids
    Targets,         \* target products
    RefCatOf,        \* category of each reference product
    TgtCatOf,        \* category of each target product
    Score,           \* of each pair
    Others,          \* pairs that others decide
    Saves,           \* bound: decisions in flight
    Searches,        \* bound: searches in flight
    MaxEvents        \* bound: what the manager and others do

Pairs == Refs \X Targets
Statuses == {"confirmed", "rejected"}
MinCandidateScore == 65
HighConfidenceScore == 85
MinGap == 6

ASSUME ComparisonAssumption ==
    /\ None \notin RefCats \cup Refs \cup Targets \cup Pairs
    /\ MappedTo \in [RefCats -> SUBSET TargetCats]
    /\ Stores \subseteq SUBSET TargetCats /\ TargetCats \in Stores
    /\ Refs \subseteq Nat
    /\ RefCatOf \in [Refs -> RefCats]
    /\ TgtCatOf \in [Targets -> TargetCats]
    /\ Score \in [Pairs -> Int]
    /\ Others \subseteq Pairs
    /\ Saves \in Nat \ {0} /\ Searches \in Nat \ {0}
    /\ MaxEvents \in Nat

VARIABLES
    mapping,    \* stored decision on each pair
    form,       \* selected category, target store and target categories
    asked,      \* requests for mapped target categories in flight
    cmp,        \* the comparison in flight
    view,       \* the result shown
    save,       \* decisions in flight
    pending,    \* the pair whose buttons are disabled
    drawer,     \* reference product and categories of the open drawer
    picker,     \* search state of the drawer
    search,     \* searches in flight
    events,     \* number of events so far
    news,       \* history: pairs written since the comparison was sent
    mine,       \* history: pairs with a decision of this page stored
    origin      \* history: the result as it was answered

picking == <<drawer, picker, search>>
deciding == <<save, pending>>
scoping == <<form, asked>>
history == <<news, mine, origin>>
vars == <<mapping, scoping, cmp, view, deciding, picking, events, history>>

NoView == [shown |-> FALSE, suggested |-> {}, candidates |-> {}, groups |-> {},
           refOnly |-> {}, taken |-> {}]
NoCompare == [step |-> "none", cat |-> None, cats |-> {}, rejected |-> {},
              taken |-> {}, view |-> NoView]
NoSave == [step |-> "none", pair |-> None, status |-> "rejected", cats |-> {}]
NoDrawer == [ref |-> None, cats |-> {}]
NoPicker == [text |-> FALSE, include |-> FALSE, timer |-> FALSE, listed |-> {},
             chosen |-> None, searching |-> FALSE, error |-> FALSE,
             of |-> None, stray |-> FALSE]
NoSearch == [step |-> "none", ref |-> None, cats |-> {}, include |-> FALSE,
             left |-> FALSE]

Init ==
    /\ mapping = [p \in Pairs |-> "none"]
    /\ form = [cat |-> None, store |-> TargetCats, cats |-> {}]
    /\ asked = {}
    /\ cmp = NoCompare
    /\ view = NoView
    /\ save = [k \in 1 .. Saves |-> NoSave]
    /\ pending = None
    /\ drawer = NoDrawer
    /\ picker = NoPicker
    /\ search = [k \in 1 .. Searches |-> NoSearch]
    /\ events = 0
    /\ news = {}
    /\ mine = {}
    /\ origin = NoView

Event == events < MaxEvents /\ events' = events + 1

\* The open drawer covers the page.
Open == drawer.ref # None
PageEvent == Event /\ ~Open

\* Another manager, or a client of the API, decides or deletes a decision.
DecideElsewhere(p) ==
    /\ Event
    /\ \E s \in Statuses \cup {"none"} :
          s # mapping[p] /\ mapping' = [mapping EXCEPT ![p] = s]
    /\ news' = news \cup {p}
    /\ UNCHANGED <<scoping, cmp, view, deciding, picking, mine, origin>>

-----------------------------------------------------------------------------
(* Scope *)

Ask(c, s) == asked' = asked \cup {[cat |-> c, store |-> s]}

\* The result of the category before stays on the page.
SelectRefCategory(c) ==
    /\ PageEvent
    /\ form' = [form EXCEPT !.cat = c, !.cats = {}]
    /\ Ask(c, form.store)
    /\ UNCHANGED <<mapping, cmp, view, deciding, picking, history>>

SetTargetStore(s) ==
    /\ PageEvent
    /\ s # form.store
    /\ form' = [form EXCEPT !.store = s, !.cats = {}]
    /\ IF form.cat = None THEN UNCHANGED asked ELSE Ask(form.cat, s)
    /\ UNCHANGED <<mapping, cmp, view, deciding, picking, history>>

\* The answer to a, or the error, sets the target categories, whatever is
\* selected by now.
MappedTargets(a) ==
    /\ a \in asked
    /\ asked' = asked \ {a}
    /\ \E cats \in {MappedTo[a.cat] \cap a.store, {}} :
          form' = [form EXCEPT !.cats = cats]
    /\ UNCHANGED <<mapping, cmp, view, deciding, picking, events, history>>

-----------------------------------------------------------------------------
(* Comparison *)

\* The button is disabled while a comparison is in flight; the result shown is
\* cleared at once.
Compare ==
    /\ PageEvent
    /\ cmp.step = "none"
    /\ form.cat # None /\ form.cats # {}
    /\ cmp' = [NoCompare EXCEPT !.step = "sent", !.cat = form.cat, !.cats = form.cats]
    /\ view' = NoView
    /\ origin' = NoView
    /\ news' = {}
    /\ UNCHANGED <<mapping, scoping, deciding, picking, mine>>

Confirmed(p) == mapping[p] = "confirmed"

\* Mutant: the mapping of the target categories is not checked.
ScopeAny(c) == c.cats # {}

\* Every target category must be mapped to the reference category.
InScope(c) == c.cats \subseteq MappedTo[c.cat]

CompareStep == UNCHANGED <<mapping, scoping, view, deciding, picking, events, history>>

\* The queries of the comparison: rejected pairs of the category, ...
ReadRejected ==
    /\ cmp.step = "sent"
    /\ InScope(cmp)
    /\ cmp' = [cmp EXCEPT
           !.step = "rejected",
           !.rejected = {p \in Pairs : /\ RefCatOf[p[1]] = cmp.cat
                                       /\ mapping[p] = "rejected"}]
    /\ CompareStep

\* ... targets confirmed for any reference product, ...
ReadTaken ==
    /\ cmp.step = "rejected"
    /\ cmp' = [cmp EXCEPT !.step = "taken",
                          !.taken = {p[2] : p \in {q \in Pairs : Confirmed(q)}}]
    /\ CompareStep

ScopePairs(c) ==
    {p \in Pairs : RefCatOf[p[1]] = c.cat /\ TgtCatOf[p[2]] \in c.cats}

\* A stored match takes its reference product and its target out; of two
\* matches of one target the first product wins.
OpenRefs(c) ==
    {r \in Refs : /\ RefCatOf[r] = c.cat
                  /\ \A p \in ScopePairs(c) : Confirmed(p) /\ p[1] = r =>
                       \E q \in ScopePairs(c) : Confirmed(q) /\ q[2] = p[2] /\ q[1] < r}

OpenTargets(c) ==
    {t \in Targets : /\ TgtCatOf[t] \in c.cats
                     /\ \A p \in ScopePairs(c) : Confirmed(p) => p[2] # t}

\* heuristic_match: a clear best target, several near ones, or none.
Near(c) ==
    {p \in OpenRefs(c) \X OpenTargets(c) : Score[p] >= MinCandidateScore}

Clear(c) ==
    {p \in Near(c) : \A t \in OpenTargets(c) \ {p[2]} :
        Score[p] - Score[<<p[1], t>>] >= MinGap}

Ambiguous(c) == {p \in Near(c) : \A q \in Clear(c) : q[1] # p[1]}

\* Rejected pairs are taken out of what is listed, not out of the heuristic.
Result(c) ==
    LET matched == Clear(c) \ c.rejected IN
    [shown |-> TRUE,
     suggested  |-> {p \in matched : Score[p] >= HighConfidenceScore},
     candidates |-> {p \in matched : Score[p] < HighConfidenceScore}
                        \cup (Ambiguous(c) \ c.rejected),
     groups     |-> {p[1] : p \in {q \in matched : Score[q] < HighConfidenceScore}}
                        \cup {p[1] : p \in Ambiguous(c)},
     refOnly    |-> {r \in OpenRefs(c) : \A p \in Near(c) : p[1] # r}
                        \cup {p[1] : p \in Clear(c) \cap c.rejected},
     taken      |-> c.taken]

\* ... and the stored matches, from which the result is made.
ReadSaved ==
    /\ cmp.step = "taken"
    /\ cmp' = [NoCompare EXCEPT !.step = "answered", !.cat = cmp.cat, !.cats = cmp.cats,
                                !.view = Result(cmp)]
    /\ CompareStep

\* Refused, or lost in any other way: the page shows an error and no result.
CompareFails ==
    /\ cmp.step # "none"
    /\ cmp' = NoCompare
    /\ CompareStep

ShowResult ==
    /\ cmp.step = "answered"
    /\ view' = cmp.view
    /\ origin' = cmp.view
    /\ cmp' = NoCompare
    /\ UNCHANGED <<mapping, scoping, deciding, picking, events, news, mine>>

-----------------------------------------------------------------------------
(* Decisions *)

Offered(v) == v.suggested \cup v.candidates

\* A decision is sent with the target categories of the moment, and disables
\* the buttons of its pair instead of those of an earlier one.
MakeDecision(p, s) ==
    /\ \E k \in 1 .. Saves :
          /\ save[k].step = "none"
          /\ \A i \in 1 .. k - 1 : save[i].step # "none"
          /\ save' = [save EXCEPT ![k] = [step |-> "sent", pair |-> p, status |-> s,
                                          cats |-> form.cats]]
    /\ pending' = p

\* The buttons of a suggestion or a candidate.
Decide(p, s) ==
    /\ PageEvent
    /\ p \in Offered(view) /\ p # pending
    /\ s = "confirmed" => p \in view.suggested \/ p[2] \notin view.taken
    /\ MakeDecision(p, s)
    /\ UNCHANGED <<mapping, scoping, cmp, view, picking, history>>

\* The request for slot k goes on to step s.
Advance(k, s) ==
    /\ save' = [save EXCEPT ![k].step = s]
    /\ UNCHANGED <<scoping, cmp, view, pending, picking, events, origin>>

Conflict(p) == \E q \in Pairs : q[2] = p[2] /\ q[1] # p[1] /\ Confirmed(q)

\* A confirmation is refused if the target is confirmed for another product,
\* if the list of categories is empty, or if it is not mapped or misses the
\* target.  A rejection is not checked.
Acceptable(d) ==
    \/ d.status = "rejected"
    \/ /\ ~Conflict(d.pair)
       /\ d.cats \subseteq MappedTo[RefCatOf[d.pair[1]]]
       /\ TgtCatOf[d.pair[2]] \in d.cats

CheckDecision(k) ==
    /\ save[k].step = "sent"
    /\ Acceptable(save[k])
    /\ Advance(k, "checked")
    /\ UNCHANGED <<mapping, news, mine>>

StoreDecision(k) ==
    LET d == save[k] IN
    /\ d.step = "checked"
    /\ mapping' = [mapping EXCEPT ![d.pair] = d.status]
    /\ news' = IF mapping[d.pair] = d.status THEN news ELSE news \cup {d.pair}
    /\ mine' = mine \cup {d.pair}
    /\ Advance(k, "stored")

\* Refused, or an error of the server or of the network, before or after the
\* commit.
DecisionFails(k) ==
    /\ save[k].step \in {"sent", "checked", "stored"}
    /\ Advance(k, "failed")
    /\ UNCHANGED <<mapping, news, mine>>

\* Mutant: the pair is looked for among the suggestions only.
PatchSuggested(v, p) ==
    [v EXCEPT !.suggested = @ \ {p}, !.refOnly = @ \ {p[1]}]

\* applyDecisionPatch: every group without candidates is dropped, whichever
\* product was decided on, and the product leaves reference_only whatever the
\* decision was.
Patch(v, p) ==
    LET left == v.candidates \ {p} IN
    [v EXCEPT !.suggested = @ \ {p},
              !.candidates = left,
              !.groups = {r \in @ : \E q \in left : q[1] = r},
              !.refOnly = @ \ {p[1]}]

\* Mutant: the buttons stay disabled.
EndDecisionPending(k) ==
    /\ save' = [save EXCEPT ![k] = NoSave]
    /\ UNCHANGED <<mapping, scoping, cmp, pending, picking, events, mine, origin>>

EndDecision(k) ==
    /\ save' = [save EXCEPT ![k] = NoSave]
    /\ pending' = None
    /\ UNCHANGED <<mapping, scoping, cmp, picking, events, mine, origin>>

\* The answer patches the result that is shown by now, if any; the buttons are
\* enabled, those of a later decision too.
DecisionDone(k) ==
    /\ save[k].step = "stored"
    /\ IF view.shown
       THEN view' = Patch(view, save[k].pair) /\ news' = news \ {save[k].pair}
       ELSE UNCHANGED <<view, news>>
    /\ EndDecision(k)

\* Mutant: an error patches the result as well.
DecisionErrorPatched(k) ==
    /\ save[k].step = "failed"
    /\ IF view.shown THEN view' = Patch(view, save[k].pair) ELSE UNCHANGED view
    /\ UNCHANGED news
    /\ EndDecision(k)

DecisionError(k) ==
    /\ save[k].step = "failed"
    /\ UNCHANGED <<view, news>>
    /\ EndDecision(k)

-----------------------------------------------------------------------------
(* The drawer for picking a target by hand *)

PickerStep == UNCHANGED <<mapping, scoping, cmp, view, deciding, history>>

\* Searches in flight are left over from now on.
Left == [k \in 1 .. Searches |-> [search[k] EXCEPT !.left = @ \/ search[k].step # "none"]]

\* Mutant: the drawer keeps its search state.
OpenDrawerKept(r) ==
    /\ PageEvent
    /\ r \in view.groups \cup view.refOnly
    /\ drawer' = [ref |-> r, cats |-> form.cats]
    /\ search' = Left
    /\ UNCHANGED picker
    /\ PickerStep

\* Opening resets the picker, but not the searches in flight.
OpenDrawer(r) ==
    /\ PageEvent
    /\ r \in view.groups \cup view.refOnly
    /\ drawer' = [ref |-> r, cats |-> form.cats]
    /\ search' = Left
    /\ picker' = NoPicker
    /\ PickerStep

CloseDrawer ==
    /\ Open
    /\ drawer' = NoDrawer
    /\ UNCHANGED <<picker, search, events>>
    /\ PickerStep

\* The text has two characters or more, or fewer; the timer starts again.
SearchInput(long) ==
    /\ Event /\ Open
    /\ picker' = [picker EXCEPT !.text = long, !.timer = TRUE]
    /\ UNCHANGED <<drawer, search>>
    /\ PickerStep

SetIncludeRejected ==
    /\ Event /\ Open
    /\ picker' = [picker EXCEPT !.include = ~@, !.timer = @ \/ picker.text]
    /\ UNCHANGED <<drawer, search>>
    /\ PickerStep

\* The timer may fire after the drawer was closed.
TimerClears ==
    /\ picker.timer /\ ~picker.text
    /\ picker' = [picker EXCEPT !.timer = FALSE, !.listed = {}]
    /\ UNCHANGED <<drawer, search, events>>
    /\ PickerStep

TimerSearches ==
    /\ picker.timer /\ picker.text
    /\ picker' = [picker EXCEPT !.timer = FALSE, !.searching = TRUE, !.error = FALSE]
    /\ \E k \in 1 .. Searches :
          /\ search[k].step = "none"
          /\ \A i \in 1 .. k - 1 : search[i].step # "none"
          /\ search' = [search EXCEPT ![k] =
                 [step |-> "sent", ref |-> drawer.ref, cats |-> drawer.cats,
                  include |-> picker.include, left |-> FALSE]]
    /\ UNCHANGED <<drawer, events>>
    /\ PickerStep

\* search_products_by_categories, before the text and the limit.
Eligible(q) ==
    {t \in Targets :
        /\ TgtCatOf[t] \in q.cats
        /\ \A r \in Refs : ~Confirmed(<<r, t>>)
        /\ q.include \/ mapping[<<q.ref, t>>] # "rejected"}

EndSearch(k) ==
    /\ search' = [search EXCEPT ![k] = NoSearch]
    /\ UNCHANGED <<drawer, events>>
    /\ PickerStep

\* Whichever answer comes last is listed.
SearchAnswers(k) ==
    LET q == search[k] IN
    /\ q.step = "sent"
    /\ q.ref # None /\ q.cats # {}
    /\ q.cats \subseteq MappedTo[RefCatOf[q.ref]]
    /\ \E found \in SUBSET Eligible(q) :
          picker' = [picker EXCEPT !.listed = found, !.searching = FALSE,
                                   !.of = q.ref, !.stray = q.left]
    /\ EndSearch(k)

\* Refused (no product, or categories that are not mapped) or lost.
SearchFails(k) ==
    /\ search[k].step = "sent"
    /\ picker' = [picker EXCEPT !.listed = {}, !.searching = FALSE, !.error = TRUE]
    /\ EndSearch(k)

\* What is chosen stays chosen when the list changes.
Choose(t) ==
    /\ Open
    /\ picker.text /\ ~picker.searching /\ ~picker.error
    /\ t \in picker.listed \ {picker.chosen}
    /\ picker' = [picker EXCEPT !.chosen = t]
    /\ UNCHANGED <<drawer, search, events>>
    /\ PickerStep

Pick ==
    /\ Open
    /\ picker.chosen # None
    /\ MakeDecision(<<drawer.ref, picker.chosen>>, "confirmed")
    /\ drawer' = NoDrawer
    /\ picker' = [picker EXCEPT !.chosen = None]
    /\ UNCHANGED <<mapping, scoping, cmp, view, search, events, history>>

-----------------------------------------------------------------------------

Comparison ==
    ReadRejected \/ ReadTaken \/ ReadSaved \/ CompareFails \/ ShowResult

Serve(k) ==
    CheckDecision(k) \/ StoreDecision(k) \/ DecisionFails(k) \/ DecisionDone(k)
        \/ DecisionError(k)

Search(k) == SearchAnswers(k) \/ SearchFails(k)

Next ==
    \/ \E p \in Others : DecideElsewhere(p)
    \/ \E c \in RefCats : SelectRefCategory(c)
    \/ \E s \in Stores : SetTargetStore(s)
    \/ \E a \in asked : MappedTargets(a)
    \/ Compare \/ Comparison
    \/ \E p \in Pairs, s \in Statuses : Decide(p, s)
    \/ \E k \in 1 .. Saves : Serve(k)
    \/ \E r \in Refs : OpenDrawer(r)
    \/ CloseDrawer
    \/ \E long \in BOOLEAN : SearchInput(long)
    \/ SetIncludeRejected \/ TimerClears \/ TimerSearches
    \/ \E k \in 1 .. Searches : Search(k)
    \/ \E t \in Targets : Choose(t)
    \/ Pick

Spec == Init /\ [][Next]_vars

\* Every request ends with an answer or an error.
FairSpec ==
    /\ Spec
    /\ WF_vars(Comparison)
    /\ \A k \in 1 .. Saves : WF_vars(Serve(k))
    /\ \A k \in 1 .. Searches : WF_vars(Search(k))

-----------------------------------------------------------------------------
(* Properties *)

Views ==
    [shown : BOOLEAN, suggested : SUBSET Pairs, candidates : SUBSET Pairs,
     groups : SUBSET Refs, refOnly : SUBSET Refs, taken : SUBSET Targets]

\* Every variable has its type.
TypeOK ==
    /\ mapping \in [Pairs -> Statuses \cup {"none"}]
    /\ form \in [cat : RefCats \cup {None}, store : SUBSET TargetCats,
                 cats : SUBSET TargetCats]
    /\ asked \subseteq [cat : RefCats, store : SUBSET TargetCats]
    /\ cmp \in [step : {"none", "sent", "rejected", "taken", "answered"},
                cat : RefCats \cup {None}, cats : SUBSET TargetCats,
                rejected : SUBSET Pairs, taken : SUBSET Targets, view : Views]
    /\ view \in Views
    /\ save \in [1 .. Saves ->
           [step : {"none", "sent", "checked", "stored", "failed"},
            pair : Pairs \cup {None}, status : Statuses, cats : SUBSET TargetCats]]
    /\ pending \in Pairs \cup {None}
    /\ drawer \in [ref : Refs \cup {None}, cats : SUBSET TargetCats]
    /\ picker \in [text : BOOLEAN, include : BOOLEAN, timer : BOOLEAN,
                   listed : SUBSET Targets, chosen : Targets \cup {None},
                   searching : BOOLEAN, error : BOOLEAN,
                   of : Refs \cup {None}, stray : BOOLEAN]
    /\ search \in [1 .. Searches ->
           [step : {"none", "sent"}, ref : Refs \cup {None},
            cats : SUBSET TargetCats, include : BOOLEAN, left : BOOLEAN]]
    /\ events \in 0 .. MaxEvents
    /\ news \subseteq Pairs /\ mine \subseteq Pairs
    /\ origin \in Views

\* The page offers a pair that has been decided only if the decision was stored
\* after the comparison was sent and the page has not been told since: once a
\* decision is acknowledged to a shown result the pair is gone from it, and no
\* decision older than the comparison is asked for again (makeDecision), though
\* comparisons and decisions of several people overlap.
OfferedUndecided ==
    \A p \in Offered(view) : mapping[p] = "none" \/ p \in news

\* However late the mapped target categories of another category or store
\* arrive, and whatever comparison they end up in, the pairs on the page lie
\* within the mapping of the reference product's category (loadMappedTargets
\* fills the form for whatever is selected).
OfferedInScope ==
    \A p \in Offered(view) : TgtCatOf[p[2]] \in MappedTo[RefCatOf[p[1]]]

\* What disappears from a result, a pair or a reference product without match,
\* has a decision of this page in the table: a refused, failed or lost request
\* takes nothing away (makeDecision patches after the answer).
VanishedIsStored ==
    view.shown =>
        /\ Offered(origin) \ Offered(view) \subseteq mine
        /\ origin.refOnly \ view.refOnly \subseteq {p[1] : p \in mine}

\* The targets listed in the open drawer were found for its product, and are
\* mapped to its category, unless a search from before it was opened has
\* answered last: closing, reopening and the timer lead to nothing else (reset).
ListedForProduct ==
    Open /\ picker.listed # {} /\ ~picker.stray =>
        /\ picker.of = drawer.ref
        /\ \A t \in picker.listed : TgtCatOf[t] \in MappedTo[RefCatOf[drawer.ref]]

\* The page always comes back: the compare button, the buttons of a pair and
\* the list of the drawer do not wait for ever, whatever becomes of requests.
RequestsEnd ==
    /\ cmp.step # "none" ~> cmp.step = "none"
    /\ pending # None ~> pending = None
    /\ picker.searching ~> ~picker.searching
=============================================================================
