------------------------------ MODULE GapReview ------------------------------
(***************************************************************************)
(* Gap review: managers at their /gap pages look at the target products    *)
(* that a reference category lacks, and take them into work or mark them   *)
(* done.  A page asks for the mapped target categories of a category, then *)
(* for the gap view, and posts a status; it patches the view it shows when *)
(* the status has been stored.  Answers of one page may come in any order. *)
(* The server reads the comparison and the stored statuses in separate     *)
(* queries, and looks a status row up before it inserts or updates it.     *)
(*                                                                         *)
(* There is one target store.  Which products the comparison leaves over   *)
(* is the business of MatchDecisions and ProductSync; here it may change   *)
(* at any time.                                                            *)
(***************************************************************************)
EXTENDS Integers, FiniteSets

CONSTANTS
    Pages,           \* browser pages, one manager each
    Clients,         \* other clients of the API, such as other managers' pages
    RefCats,         \* reference categories
    NoCat,           \* no category selected
    TargetCats,      \* target categories
    Products,        \* target products
    CatOf,           \* target category of each product
    MappedTo,        \* target categories mapped to each reference category
    GapSets,         \* products a comparison may leave over, by reference category
    Filters,         \* [statuses, passing]: the checked statuses, and the
                     \* products that pass the search and the availability
    Posts,           \* what clients post: [category, product, status]
    Selectable,      \* reference categories that each page's user selects
    MaxEvents,       \* what users and others do (a bound)
    MaxLoads         \* gap requests each page has in flight (a bound)

Statuses == {"new", "in_progress", "done"}
Stored == Statuses \ {"new"}

ASSUME GapAssumption ==
    /\ Pages \cap Clients = {}
    /\ NoCat \notin RefCats
    /\ CatOf \in [Products -> TargetCats]
    /\ MappedTo \in [RefCats -> SUBSET TargetCats]
    /\ GapSets \in [RefCats -> SUBSET SUBSET Products]
    /\ Filters \subseteq [statuses : SUBSET Statuses \ {{}}, passing : SUBSET Products]
    /\ Posts \subseteq [category : RefCats, product : Products, status : Statuses]
    /\ \A a \in Posts : CatOf[a.product] \in MappedTo[a.category]
    /\ Selectable \in [Pages -> SUBSET (RefCats \cup {NoCat})]
    /\ MaxLoads \in [Pages -> Nat \ {0}]
    /\ MaxEvents \in Nat
    /\ IsFiniteSet(Products)

VARIABLES
    row,        \* gap_item_statuses by category and product, "new" if no row
    had,        \* history: statuses each row has had
    gap,        \* products that a comparison with each category leaves over
    form,       \* filters of each page
    asked,      \* requests for mapped categories in flight
    load,       \* gap requests of each page
    lastBody,   \* body of the last one, for a reload
    shown,      \* the view each page shows
    action,     \* the status request of each page and client
    strayed,    \* history: products patched by a status of another category
    crossed,    \* history: a status was sent for a category not shown
    events      \* number of events so far

server == <<row, had, gap>>
page == <<form, asked, lastBody, shown, strayed>>
vars == <<server, page, load, action, crossed, events>>

\* The requests of the page's user, and 0 for those it makes of itself.
Slots(u) == 0 .. MaxLoads[u]
Bodies == [category : RefCats \cup {NoCat}, cats : SUBSET TargetCats, filter : Filters]

NoForm == [category |-> NoCat, offered |-> {}, boxes |-> {}, loading |-> FALSE,
           warning |-> FALSE]
\* A view: the visible items with their status, and the summary.
NoView == [category |-> NoCat, items |-> [p \in {} |-> "new"], total |-> 0,
           count |-> [s \in Statuses |-> 0]]
NoBody == [category |-> NoCat, cats |-> {}, filter |-> NoCat]
NoLoad == [step |-> "none", body |-> NoBody, found |-> {}, view |-> NoView]
NoAction == [step |-> "none", category |-> NoCat, product |-> NoCat, status |-> "new"]

Init ==
    /\ row = [c \in RefCats |-> [p \in Products |-> "new"]]
    /\ had = [c \in RefCats |-> [p \in Products |-> {}]]
    /\ gap \in {g \in [RefCats -> SUBSET Products] : \A c \in RefCats : g[c] \in GapSets[c]}
    /\ form = [u \in Pages |-> NoForm]
    /\ asked = [u \in Pages |-> {}]
    /\ load = [u \in Pages |-> [k \in Slots(u) |-> NoLoad]]
    /\ lastBody = [u \in Pages |-> NoBody]
    /\ shown = [u \in Pages |-> NoView]
    /\ action = [u \in Pages \cup Clients |-> NoAction]
    /\ strayed = [u \in Pages |-> {}]
    /\ crossed = [u \in Pages |-> FALSE]
    /\ events = 0

Event == events < MaxEvents /\ events' = events + 1

\* A decision or a synchronisation changes what a comparison leaves over.
Change(c) ==
    /\ Event
    /\ \E G \in GapSets[c] : gap' = [gap EXCEPT ![c] = G]
    /\ UNCHANGED <<row, had, page, load, action, crossed>>

-----------------------------------------------------------------------------
(* Filters *)

\* Selecting a category clears the checkboxes and asks for its mapped ones; a
\* category is selected again only when its earlier answer is there (a bound).
SetRefCategory(u, c) ==
    /\ Event
    /\ c \notin asked[u] /\ c # form[u].category
    /\ form' = [form EXCEPT ![u] =
           [NoForm EXCEPT !.category = c, !.loading = c # NoCat \/ form[u].loading]]
    /\ asked' = [asked EXCEPT ![u] = IF c = NoCat THEN @ ELSE @ \cup {c}]
    /\ UNCHANGED <<server, lastBody, shown, strayed, load, action, crossed>>

\* The answer fills the checkboxes, whatever category is selected by now.
MappedCategories(u, c) ==
    /\ c \in asked[u]
    /\ asked' = [asked EXCEPT ![u] = @ \ {c}]
    /\ form' = [form EXCEPT ![u] =
           [category |-> @.category,
            offered  |-> MappedTo[c],
            boxes    |-> IF MappedTo[c] = {} THEN @.boxes ELSE MappedTo[c],
            loading  |-> FALSE,
            warning  |-> @.warning \/ MappedTo[c] = {}]]
    /\ UNCHANGED <<server, lastBody, shown, strayed, load, action, crossed, events>>

MappedCategoriesFail(u, c) ==
    /\ c \in asked[u]
    /\ asked' = [asked EXCEPT ![u] = @ \ {c}]
    /\ form' = [form EXCEPT ![u] = [@ EXCEPT !.offered = {}, !.loading = FALSE]]
    /\ UNCHANGED <<server, lastBody, shown, strayed, load, action, crossed, events>>

ToggleTargetCat(u, t) ==
    /\ Event
    /\ t \in form[u].offered
    /\ form' = [form EXCEPT ![u].boxes = IF t \in @ THEN @ \ {t} ELSE @ \cup {t}]
    /\ UNCHANGED <<server, asked, lastBody, shown, strayed, load, action, crossed>>

-----------------------------------------------------------------------------
(* The gap view *)

CanLoad(u) == form[u].boxes # {} /\ ~form[u].loading /\ ~form[u].warning

\* The view shown stays until the answer.
LoadGap(u, k, body) ==
    /\ load[u][k].step = "none"
    /\ load' = [load EXCEPT ![u][k] = [NoLoad EXCEPT !.step = "sent", !.body = body]]
    /\ lastBody' = [lastBody EXCEPT ![u] = body]

\* The Enter key loads even while an earlier request is in flight.
HandleLoad(u, f) ==
    /\ Event
    /\ CanLoad(u)
    /\ \E k \in Slots(u) \ {0} :
          /\ \A i \in 1 .. k - 1 : load[u][i].step # "none"
          /\ LoadGap(u, k, [category |-> form[u].category, cats |-> form[u].boxes,
                            filter |-> f])
    /\ UNCHANGED <<server, form, asked, shown, strayed, action, crossed>>

\* Mutant: the mapping of the target categories is not checked.
AnyCategories(body) == body.category \in RefCats

\* There must be a category, and every target category mapped to it.
Validated(body) ==
    body.category \in RefCats /\ body.cats \subseteq MappedTo[body.category]

\* build_gap_view takes the items from the comparison ...
Compare(u, k) ==
    /\ load[u][k].step = "sent"
    /\ Validated(load[u][k].body)
    /\ load' = [load EXCEPT ![u][k] =
           [@ EXCEPT !.step = "compared",
                     !.found = {p \in gap[load[u][k].body.category] : CatOf[p] \in load[u][k].body.cats}]]
    /\ UNCHANGED <<server, page, action, crossed, events>>

Refuse(u, k) ==
    /\ load[u][k].step = "sent"
    /\ ~Validated(load[u][k].body)
    /\ load' = [load EXCEPT ![u][k] = NoLoad]
    /\ UNCHANGED <<server, page, action, crossed, events>>

\* Counted before anything is filtered out.
Summary(status) ==
    [s \in Statuses |-> Cardinality({p \in DOMAIN status : status[p] = s})]

\* What the filter lets through.
Visible(status, f) == {p \in DOMAIN status \cap f.passing : status[p] \in f.statuses}

View(body, status) ==
    [category |-> body.category,
     items    |-> [p \in Visible(status, body.filter) |-> status[p]],
     total    |-> Cardinality(DOMAIN status),
     count    |-> Summary(status)]

\* ... and their statuses from the table, later.
Enrich(u, k) ==
    LET l == load[u][k] IN
    /\ l.step = "compared"
    /\ load' = [load EXCEPT ![u][k] =
           [l EXCEPT !.step = "answered", !.found = {},
                     !.body = NoBody, !.view = View(l.body, [p \in l.found |-> row[l.body.category][p]])]]
    /\ UNCHANGED <<server, page, action, crossed, events>>

\* An error of the server or of the network leaves the view.
LoadFails(u, k) ==
    /\ load[u][k].step # "none"
    /\ load' = [load EXCEPT ![u][k] = NoLoad]
    /\ UNCHANGED <<server, page, action, crossed, events>>

\* Whichever answer comes last is shown.
TakeView(u, k) ==
    /\ load[u][k].step = "answered"
    /\ shown' = [shown EXCEPT ![u] = load[u][k].view]
    /\ strayed' = [strayed EXCEPT ![u] = {}]
    /\ load' = [load EXCEPT ![u][k] = NoLoad]
    /\ UNCHANGED <<server, form, asked, lastBody, action, crossed, events>>

-----------------------------------------------------------------------------
(* Statuses *)

\* The button of a row: it sends the category that is selected now, and there
\* is one request at a time.
HandleAction(u, p) ==
    /\ Event
    /\ action[u].step = "none"
    /\ p \in DOMAIN shown[u].items
    /\ shown[u].items[p] # "done"
    /\ action' = [action EXCEPT ![u] =
           [step |-> "sent", category |-> form[u].category, product |-> p,
            status |-> IF shown[u].items[p] = "new" THEN "in_progress" ELSE "done"]]
    /\ crossed' = [crossed EXCEPT ![u] = @ \/ form[u].category # shown[u].category]
    /\ UNCHANGED <<server, page, load>>

\* A client posts a status, perhaps "new", which the schema lets through.
Post(v, a) ==
    /\ Event
    /\ action[v].step = "none"
    /\ action' = [action EXCEPT ![v] =
           [step |-> "sent", category |-> a.category, product |-> a.product,
            status |-> a.status]]
    /\ UNCHANGED <<server, page, load, crossed>>

\* Request u takes step s.
Advance(u, s) ==
    /\ action' = [action EXCEPT ![u].step = s]
    /\ UNCHANGED <<page, load, crossed, events>>

\* The schema wants a category, the service a status other than new.
Allowed(a) == a.category \in RefCats /\ a.status \in Stored

\* upsert_gap_status looks for the row ...
FindRow(u) ==
    /\ action[u].step = "sent"
    /\ Allowed(action[u])
    /\ Advance(u, IF row[action[u].category][action[u].product] = "new"
                  THEN "missing" ELSE "present")
    /\ UNCHANGED server

RefuseStatus(u) ==
    /\ action[u].step = "sent"
    /\ ~Allowed(action[u])
    /\ Advance(u, "failed")
    /\ UNCHANGED server

\* The row of request u has its status.
Write(u) ==
    LET a == action[u] IN
    /\ row' = [row EXCEPT ![a.category][a.product] = a.status]
    /\ had' = [had EXCEPT ![a.category][a.product] = @ \cup {a.status}]
    /\ UNCHANGED gap

\* ... updates the one it found ...
UpdateRow(u) ==
    /\ action[u].step = "present"
    /\ Write(u)
    /\ Advance(u, "stored")

\* ... or inserts one, unless the unique key is taken by now.
InsertRow(u) ==
    /\ action[u].step = "missing"
    /\ row[action[u].category][action[u].product] = "new"
    /\ Write(u)
    /\ Advance(u, "stored")

\* Mutant: the conflict is swallowed.
InsertIgnored(u) ==
    /\ action[u].step = "missing"
    /\ row[action[u].category][action[u].product] # "new"
    /\ Advance(u, "stored")
    /\ UNCHANGED server

InsertConflict(u) ==
    /\ action[u].step = "missing"
    /\ row[action[u].category][action[u].product] # "new"
    /\ Advance(u, "failed")
    /\ UNCHANGED server

\* Another error of the server, or of the network before or after the commit.
StatusFails(u) ==
    /\ action[u].step \in {"sent", "missing", "present", "stored"}
    /\ Advance(u, "failed")
    /\ UNCHANGED server

\* Mutant: the item is counted with its new status and with its old one.
PatchAdded(view, p, s) ==
    [view EXCEPT !.items[p] = s, !.count[s] = @ + 1]

\* patchGapItemStatus: the summary is counted again from the items shown.
Patch(view, p, s) ==
    LET items == [view.items EXCEPT ![p] = s]
    IN  [view EXCEPT !.items = items, !.count = Summary(items)]

\* The answer patches the view shown by now, ...
PatchShown(u) ==
    LET a == action[u] IN
    /\ u \in Pages
    /\ a.step = "stored"
    /\ a.product \in DOMAIN shown[u].items
    /\ action' = [action EXCEPT ![u] = NoAction]
    /\ shown' = [shown EXCEPT ![u] = Patch(@, a.product, a.status)]
    /\ strayed' = [strayed EXCEPT ![u] =
           IF a.category # shown[u].category THEN @ \cup {a.product} ELSE @ \ {a.product}]
    /\ UNCHANGED <<server, form, asked, lastBody, load, crossed, events>>

\* ... or loads it again if the item is not there.
Reload(u) ==
    /\ u \in Pages
    /\ action[u].step = "stored"
    /\ action[u].product \notin DOMAIN shown[u].items
    /\ action' = [action EXCEPT ![u] = NoAction]
    /\ LoadGap(u, 0, lastBody[u])
    /\ UNCHANGED <<server, form, asked, shown, strayed, crossed, events>>

\* A client does not look at the answer.
ClientEnds(v) ==
    /\ v \in Clients
    /\ action[v].step = "stored"
    /\ action' = [action EXCEPT ![v] = NoAction]
    /\ UNCHANGED <<server, page, load, crossed, events>>

\* Mutant: after an error the request is not forgotten.
ActionErrorKept(u) ==
    /\ action[u].step = "failed"
    /\ UNCHANGED vars

ActionError(u) ==
    /\ action[u].step = "failed"
    /\ action' = [action EXCEPT ![u] = NoAction]
    /\ UNCHANGED <<server, page, load, crossed, events>>

-----------------------------------------------------------------------------

Serve(u) ==
    \/ FindRow(u) \/ RefuseStatus(u)
    \/ UpdateRow(u) \/ InsertRow(u) \/ InsertConflict(u) \/ StatusFails(u)
    \/ PatchShown(u) \/ Reload(u) \/ ActionError(u) \/ ClientEnds(u)

Answer(u, k) ==
    \/ Compare(u, k) \/ Refuse(u, k) \/ Enrich(u, k) \/ LoadFails(u, k)
    \/ TakeView(u, k)

Next ==
    \/ \E c \in RefCats : Change(c)
    \/ \E u \in Pages :
          \/ \E c \in Selectable[u] : SetRefCategory(u, c)
          \/ \E c \in RefCats : MappedCategories(u, c) \/ MappedCategoriesFail(u, c)
          \/ \E t \in TargetCats : ToggleTargetCat(u, t)
          \/ \E f \in Filters : HandleLoad(u, f)
          \/ \E k \in Slots(u) : Answer(u, k)
          \/ \E p \in Products : HandleAction(u, p)
    \/ \E v \in Clients, a \in Posts : Post(v, a)
    \/ \E u \in Pages \cup Clients : Serve(u)

Spec == Init /\ [][Next]_vars

\* Every request of a page ends with an answer or an error.
FairSpec ==
    /\ Spec
    /\ \A u \in Pages \cup Clients : WF_vars(Serve(u))
    /\ \A u \in Pages : \A k \in Slots(u) : WF_vars(Answer(u, k))

-----------------------------------------------------------------------------
(* Properties *)

Counted(view) == view.count["new"] + view.count["in_progress"] + view.count["done"]

Views ==
    [category : RefCats \cup {NoCat},
     items : UNION {[D -> Statuses] : D \in SUBSET Products},
     total : 0 .. Cardinality(Products),
     count : [Statuses -> 0 .. Cardinality(Products)]]

\* Every variable has its type.
TypeOK ==
    /\ row \in [RefCats -> [Products -> Statuses]]
    /\ had \in [RefCats -> [Products -> SUBSET Stored]]
    /\ gap \in [RefCats -> SUBSET Products]
    /\ form \in [Pages -> [category : RefCats \cup {NoCat}, offered : SUBSET TargetCats,
                           boxes : SUBSET TargetCats, loading : BOOLEAN,
                           warning : BOOLEAN]]
    /\ asked \in [Pages -> SUBSET RefCats]
    /\ \A u \in Pages : load[u] \in [Slots(u) ->
           [step : {"none", "sent", "compared", "answered"},
            body : Bodies \cup {NoBody}, found : SUBSET Products, view : Views]]
    /\ lastBody \in [Pages -> Bodies \cup {NoBody}]
    /\ shown \in [Pages -> Views]
    /\ action \in [Pages \cup Clients ->
           [step : {"none", "sent", "present", "missing", "stored", "failed"},
            category : RefCats \cup {NoCat}, product : Products \cup {NoCat},
            status : Statuses]]
    /\ strayed \in [Pages -> SUBSET Products]
    /\ crossed \in [Pages -> BOOLEAN]
    /\ events \in 0 .. MaxEvents

\* A page shows an item as taken or done only if that status has been stored
\* for the item in the category of the view (handleAction patches after the
\* answer): failed and lost requests, lost races for the insert and late views
\* included.  Excepted are items that the page patched with the status of
\* another category, since it posts the selected one and patches what is shown.
ShownIsStored ==
    \A u \in Pages : \A p \in DOMAIN shown[u].items :
        \/ shown[u].items[p] = "new"
        \/ shown[u].items[p] \in had[shown[u].category][p]
        \/ p \in strayed[u]

\* The summary counts every item, hidden ones included, until the page patches
\* it; from then on it counts those shown, and the total stays (_build_summary
\* before the filters, patchGapItemStatus after them).  Never does it count an
\* item twice, or fewer items of a status than are shown.
SummaryCovers ==
    \A u \in Pages :
        /\ Cardinality(DOMAIN shown[u].items) <= shown[u].total
        /\ Counted(shown[u]) \in {shown[u].total, Cardinality(DOMAIN shown[u].items)}
        /\ \A s \in Statuses :
              Cardinality({p \in DOMAIN shown[u].items : shown[u].items[p] = s})
                  <= shown[u].count[s]

\* The items of a view belong to target categories mapped to its category, even
\* if answers for two categories fill the checkboxes in the wrong order; and no
\* status is stored for a product outside the mapping unless a page has sent it
\* for a category other than the one it showed.
ContextLegal ==
    /\ \A u \in Pages : \A p \in DOMAIN shown[u].items :
          CatOf[p] \in MappedTo[shown[u].category]
    /\ \A c \in RefCats, p \in Products :
          \/ row[c][p] = "new" \/ CatOf[p] \in MappedTo[c]
          \/ \E u \in Pages : crossed[u]

\* The buttons of a page, disabled while a status is on its way, become usable
\* again (finally in setStatus), whatever becomes of the request.
ActionEnds == \A u \in Pages : action[u].step # "none" ~> action[u].step = "none"
=============================================================================
