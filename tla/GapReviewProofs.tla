--------------------------- MODULE GapReviewProofs ---------------------------
(***************************************************************************)
(* Theorems about GapReview for any categories, products, filters, pages,  *)
(* clients and number of requests in flight.                               *)
(***************************************************************************)
EXTENDS GapReview, FiniteSetTheorems, TLAPS

-----------------------------------------------------------------------------
(* The inductive invariant *)

\* The numbers of a view fit its items.
Fits(view) ==
    /\ Cardinality(DOMAIN view.items) <= view.total
    /\ Counted(view) \in {view.total, Cardinality(DOMAIN view.items)}
    /\ \A s \in Statuses :
          Cardinality({p \in DOMAIN view.items : view.items[p] = s}) <= view.count[s]

\* Its items belong to target categories mapped to its category.
InContext(view) ==
    \A p \in DOMAIN view.items :
        view.category \in RefCats /\ CatOf[p] \in MappedTo[view.category]

\* Its statuses have been stored, by the history h, but for the excused items.
IsStored(view, excused, h) ==
    \A p \in DOMAIN view.items :
        \/ view.items[p] = "new"
        \/ view.items[p] \in h[view.category][p]
        \/ p \in excused

\* A gap request between its two readings, and after them.
LoadOk(l, h) ==
    /\ l.step = "compared" => Validated(l.body) /\ \A p \in l.found : CatOf[p] \in l.body.cats
    /\ l.step = "answered" => Fits(l.view) /\ InContext(l.view) /\ IsStored(l.view, {}, h)

ShownOk(view, excused, h) == Fits(view) /\ InContext(view) /\ IsStored(view, excused, h)

\* Product p is within the mapping of category c, or a page has sent a status
\* for another category (x).
Within(c, p, x) == CatOf[p] \in MappedTo[c] \/ \E u \in Pages : x[u]

\* A status request.
ActionOk(a, h, x) ==
    /\ a.step # "none" => a.product \in Products
    /\ a.step # "none" /\ a.category \in RefCats => Within(a.category, a.product, x)
    /\ a.step \in {"present", "missing", "stored"} => Allowed(a)
    /\ a.step = "stored" => a.status \in h[a.category][a.product]

RowOk(r, h, x) ==
    \A c \in RefCats, p \in Products :
        r[c][p] # "new" => r[c][p] \in h[c][p] /\ Within(c, p, x)

Loads == DOMAIN load = Pages /\ \A u \in Pages : \A k \in Slots(u) : LoadOk(load[u][k], had)
Shows == \A u \in Pages : ShownOk(shown[u], strayed[u], had)
Actions == \A u \in Pages \cup Clients : ActionOk(action[u], had, crossed)
Rows == RowOk(row, had, crossed)

IInv == TypeOK /\ Loads /\ Shows /\ Actions /\ Rows

-----------------------------------------------------------------------------
(* Counting *)

LEMMA SubsetCard ==
    ASSUME NEW D \in SUBSET Products
    PROVE  /\ IsFiniteSet(D) /\ Cardinality(D) \in 0 .. Cardinality(Products)
           /\ \A S \in SUBSET D : /\ Cardinality(S) \in Nat
                                  /\ Cardinality(S) <= Cardinality(D)
  BY GapAssumption, FS_Subset, FS_CardinalityType

LEMMA DisjointCard ==
    ASSUME NEW S, NEW T, IsFiniteSet(S), IsFiniteSet(T), S \cap T = {}
    PROVE  Cardinality(S \cup T) = Cardinality(S) + Cardinality(T)
  <1>1. Cardinality(S \cap T) = 0
    BY FS_EmptySet
  <1>2. Cardinality(S) \in Nat /\ Cardinality(T) \in Nat
    BY FS_CardinalityType
  <1>3. Cardinality(S \cup T) = Cardinality(S) + Cardinality(T) - Cardinality(S \cap T)
    BY FS_Union
  <1> QED BY <1>1, <1>2, <1>3

\* The summary of statuses counts each item once.
LEMMA SummaryCounts ==
    ASSUME NEW D \in SUBSET Products, NEW f \in [D -> Statuses]
    PROVE  /\ Summary(f) \in [Statuses -> 0 .. Cardinality(Products)]
           /\ Summary(f)["new"] + Summary(f)["in_progress"] + Summary(f)["done"]
                  = Cardinality(D)
           /\ \A s \in Statuses : Summary(f)[s] = Cardinality({p \in D : f[p] = s})
  <1> DEFINE Of(s) == {p \in D : f[p] = s}
  <1>1. \A s \in Statuses : Summary(f)[s] = Cardinality(Of(s))
    BY DEF Summary
  <1>2. \A s \in Statuses : IsFiniteSet(Of(s)) /\ Cardinality(Of(s)) \in 0 .. Cardinality(Products)
    BY SubsetCard
  <1>3. Cardinality(Of("new") \cup Of("in_progress")) = Cardinality(Of("new")) + Cardinality(Of("in_progress"))
    <2>1. IsFiniteSet(Of("new")) /\ IsFiniteSet(Of("in_progress"))
      BY <1>2 DEF Statuses
    <2>2. Of("new") \cap Of("in_progress") = {}
      OBVIOUS
    <2> QED BY <2>1, <2>2, DisjointCard
  <1>4. Cardinality(D) = Cardinality(Of("new")) + Cardinality(Of("in_progress")) + Cardinality(Of("done"))
    <2> DEFINE N == Of("new") \cup Of("in_progress")
    <2>1. IsFiniteSet(N) /\ IsFiniteSet(Of("done"))
      BY SubsetCard
    <2>2. N \cap Of("done") = {} /\ D = N \cup Of("done")
      BY DEF Statuses
    <2>3. Cardinality(N) = Cardinality(Of("new")) + Cardinality(Of("in_progress"))
      BY <1>3
    <2> HIDE DEF Of, N
    <2>4. Cardinality(N \cup Of("done")) = Cardinality(N) + Cardinality(Of("done"))
      BY <2>1, <2>2, DisjointCard
    <2> QED BY <2>2, <2>3, <2>4
  <1>5. Summary(f) \in [Statuses -> 0 .. Cardinality(Products)]
    BY <1>1, <1>2 DEF Summary
  <1>6. /\ Summary(f)["new"] = Cardinality(Of("new"))
        /\ Summary(f)["in_progress"] = Cardinality(Of("in_progress"))
        /\ Summary(f)["done"] = Cardinality(Of("done"))
    BY <1>1 DEF Statuses
  <1> QED BY <1>1, <1>4, <1>5, <1>6

-----------------------------------------------------------------------------
(* Histories *)

LoadType ==
    [step : {"none", "sent", "compared", "answered"},
     body : Bodies \cup {NoBody}, found : SUBSET Products, view : Views]

ActionType ==
    [step : {"none", "sent", "present", "missing", "stored", "failed"},
     category : RefCats \cup {NoCat}, product : Products \cup {NoCat},
     status : Statuses]

\* The histories h and x grow to i and y.
Grows(h, i, x, y) ==
    /\ \A c \in RefCats, p \in Products : h[c][p] \subseteq i[c][p]
    /\ \A u \in Pages : x[u] => y[u]

LEMMA ViewDomain ==
    ASSUME NEW view \in Views
    PROVE  DOMAIN view.items \in SUBSET Products /\ view.items \in [DOMAIN view.items -> Statuses]
  BY DEF Views

LEMMA StoredKept ==
    ASSUME NEW view \in Views, NEW excused, NEW h, NEW i, NEW x, NEW y,
           Grows(h, i, x, y), InContext(view), IsStored(view, excused, h)
    PROVE  IsStored(view, excused, i)
  BY ViewDomain DEF Grows, InContext, IsStored

LEMMA LoadKept ==
    ASSUME NEW l \in LoadType, NEW h, NEW i, NEW x, NEW y,
           Grows(h, i, x, y), LoadOk(l, h)
    PROVE  LoadOk(l, i)
  <1>1. l.view \in Views
    BY DEF LoadType
  <1> QED BY <1>1, StoredKept DEF LoadOk

LEMMA ShownKept ==
    ASSUME NEW view \in Views, NEW excused, NEW h, NEW i, NEW x, NEW y,
           Grows(h, i, x, y), ShownOk(view, excused, h)
    PROVE  ShownOk(view, excused, i)
  BY StoredKept DEF ShownOk

LEMMA ActionKept ==
    ASSUME NEW a \in ActionType, NEW h, NEW i, NEW x, NEW y,
           Grows(h, i, x, y), ActionOk(a, h, x)
    PROVE  ActionOk(a, i, y)
  <1>1. a.step = "stored" => a.category \in RefCats /\ a.product \in Products
    BY DEF ActionOk, Allowed
  <1> QED BY <1>1 DEF ActionOk, Grows, Within

LEMMA RowKept ==
    ASSUME NEW r, NEW h, NEW i, NEW x, NEW y, Grows(h, i, x, y), RowOk(r, h, x)
    PROVE  RowOk(r, i, y)
  BY DEF RowOk, Grows, Within

\* The types of what pages and clients have.
LEMMA Kinds ==
    ASSUME TypeOK
    PROVE  /\ \A u \in Pages : shown[u] \in Views /\ strayed[u] \in SUBSET Products
           /\ \A u \in Pages : load[u] \in [Slots(u) -> LoadType]
           /\ action \in [Pages \cup Clients -> ActionType]
  BY DEF TypeOK, LoadType, ActionType

\* A step that leaves the requests and views alone, or changes one of each for
\* a good one, keeps the invariant if the types are kept.
LEMMA AllKept ==
    ASSUME IInv, TypeOK', Grows(had, had', crossed, crossed'),
           DOMAIN load' = Pages,
           \A u \in Pages : \A k \in Slots(u) :
               load'[u][k] = load[u][k] \/ LoadOk(load'[u][k], had'),
           \A u \in Pages : \/ shown'[u] = shown[u] /\ strayed'[u] = strayed[u]
                            \/ ShownOk(shown'[u], strayed'[u], had'),
           \A u \in Pages \cup Clients :
               \/ action'[u] = action[u]
               \/ ActionOk(action'[u], had', crossed'),
           RowOk(row', had', crossed')
    PROVE  IInv'
  <1>1. Loads'
    <2>1. \A u \in Pages : \A k \in Slots(u) : load[u][k] \in LoadType /\ LoadOk(load[u][k], had)
      BY Kinds DEF IInv, Loads
    <2>2. \A u \in Pages : \A k \in Slots(u) : LoadOk(load[u][k], had')
      BY <2>1, LoadKept
    <2>3. \A u \in Pages : \A k \in Slots(u) : LoadOk(load'[u][k], had')
      BY <2>2
    <2> QED BY <2>3 DEF Loads, Slots
  <1>2. Shows'
    BY Kinds, ShownKept DEF IInv, Shows
  <1>3. Actions'
    BY Kinds, ActionKept DEF IInv, Actions
  <1> QED BY <1>1, <1>2, <1>3 DEF IInv, Rows

-----------------------------------------------------------------------------
(* Filters *)

FormType ==
    [category : RefCats \cup {NoCat}, offered : SUBSET TargetCats,
     boxes : SUBSET TargetCats, loading : BOOLEAN, warning : BOOLEAN]

LEMMA FilterTypes ==
    ASSUME IInv
    PROVE  /\ form \in [Pages -> FormType] /\ asked \in [Pages -> SUBSET RefCats]
           /\ gap \in [RefCats -> SUBSET Products]
  BY DEF IInv, TypeOK, FormType

LEMMA EventType ==
    ASSUME TypeOK, Event \/ UNCHANGED events
    PROVE  events' \in 0 .. MaxEvents
  BY GapAssumption DEF TypeOK, Event

\* A step that concerns neither statuses nor views nor requests for them.
LEMMA FilterKept ==
    ASSUME IInv, UNCHANGED <<row, had, lastBody, shown, strayed, load, action, crossed>>,
           gap' \in [RefCats -> SUBSET Products], form' \in [Pages -> FormType],
           asked' \in [Pages -> SUBSET RefCats], Event \/ UNCHANGED events
    PROVE  IInv'
  <1>1. events' \in 0 .. MaxEvents
    BY EventType DEF IInv
  <1>2. TypeOK'
    BY <1>1 DEF IInv, TypeOK, FormType
  <1>3. Loads' /\ Shows' /\ Actions' /\ Rows'
    BY DEF IInv, Loads, Shows, Actions, Rows
  <1> QED BY <1>2, <1>3 DEF IInv

LEMMA ChangeOk ==
    ASSUME IInv, NEW c \in RefCats, Change(c)
    PROVE  IInv'
  <1>1. gap' \in [RefCats -> SUBSET Products]
    <2>1. PICK G \in GapSets[c] : gap' = [gap EXCEPT ![c] = G]
      BY DEF Change
    <2>2. G \in SUBSET Products
      BY GapAssumption
    <2> QED BY <2>1, <2>2, FilterTypes
  <1>2. form' \in [Pages -> FormType] /\ asked' \in [Pages -> SUBSET RefCats]
    BY DEF IInv, TypeOK, Change, page, FormType
  <1> QED BY <1>1, <1>2, FilterKept DEF Change, page

LEMMA SetRefCategoryOk ==
    ASSUME IInv, NEW u \in Pages, NEW c \in Selectable[u], SetRefCategory(u, c)
    PROVE  IInv'
  <1>1. c \in RefCats \cup {NoCat}
    BY GapAssumption
  <1>2. [NoForm EXCEPT !.category = c, !.loading = c # NoCat \/ form[u].loading] \in FormType
    BY <1>1 DEF IInv, TypeOK, NoForm, FormType
  <1>3. form' \in [Pages -> FormType]
    BY <1>2 DEF IInv, TypeOK, SetRefCategory, FormType
  <1>4. asked' \in [Pages -> SUBSET RefCats]
    BY <1>1 DEF IInv, TypeOK, SetRefCategory
  <1>5. gap' \in [RefCats -> SUBSET Products]
    BY DEF IInv, TypeOK, SetRefCategory, server
  <1> QED BY <1>3, <1>4, <1>5, FilterKept DEF SetRefCategory, server

LEMMA AnsweredOk ==
    ASSUME IInv, NEW u \in Pages, NEW c \in RefCats,
           MappedCategories(u, c) \/ MappedCategoriesFail(u, c)
    PROVE  IInv'
  <1>1. MappedTo[c] \in SUBSET TargetCats
    BY GapAssumption
  <1>2. form' \in [Pages -> FormType]
    <2>1. CASE MappedCategories(u, c)
      <3> DEFINE f == [category |-> form[u].category,
                       offered  |-> MappedTo[c],
                       boxes    |-> IF MappedTo[c] = {} THEN form[u].boxes ELSE MappedTo[c],
                       loading  |-> FALSE,
                       warning  |-> form[u].warning \/ MappedTo[c] = {}]
      <3>1. form' = [form EXCEPT ![u] = f]
        BY <2>1 DEF MappedCategories
      <3>2. f \in FormType
        BY <1>1, FilterTypes DEF FormType
      <3> HIDE DEF f
      <3> QED BY <3>1, <3>2, FilterTypes
    <2>2. CASE MappedCategoriesFail(u, c)
      <3>1. [form[u] EXCEPT !.offered = {}, !.loading = FALSE] \in FormType
        BY FilterTypes DEF FormType
      <3> QED BY <2>2, <3>1, FilterTypes DEF MappedCategoriesFail
    <2> QED BY <2>1, <2>2
  <1>3. asked' \in [Pages -> SUBSET RefCats]
    BY FilterTypes DEF MappedCategories, MappedCategoriesFail
  <1>4. gap' \in [RefCats -> SUBSET Products]
    BY FilterTypes DEF MappedCategories, MappedCategoriesFail, server
  <1> QED BY <1>2, <1>3, <1>4, FilterKept DEF MappedCategories, MappedCategoriesFail, server

LEMMA ToggleOk ==
    ASSUME IInv, NEW u \in Pages, NEW t \in TargetCats, ToggleTargetCat(u, t)
    PROVE  IInv'
  <1>1. form' \in [Pages -> FormType]
    BY FilterTypes DEF ToggleTargetCat, FormType
  <1>2. asked' \in [Pages -> SUBSET RefCats] /\ gap' \in [RefCats -> SUBSET Products]
    BY FilterTypes DEF ToggleTargetCat, server
  <1> QED BY <1>1, <1>2, FilterKept DEF ToggleTargetCat, server

-----------------------------------------------------------------------------
(* Gap requests *)

\* The request k of page u becomes l.
LEMMA LoadSet ==
    ASSUME IInv, NEW u \in Pages, NEW k \in Slots(u), NEW l \in LoadType,
           load' = [load EXCEPT ![u][k] = l]
    PROVE  /\ DOMAIN load' = Pages /\ load'[u][k] = l
           /\ \A v \in Pages : load'[v] \in [Slots(v) -> LoadType]
           /\ \A v \in Pages : \A i \in Slots(v) :
                  v # u \/ i # k => load'[v][i] = load[v][i]
  BY Kinds DEF IInv, Loads

\* A step of one request that concerns nothing else.
LEMMA LoadChange ==
    ASSUME IInv, NEW u \in Pages, NEW k \in Slots(u), NEW l \in LoadType,
           load' = [load EXCEPT ![u][k] = l], LoadOk(l, had),
           UNCHANGED <<server, form, asked, action, crossed>>,
           lastBody' \in [Pages -> Bodies \cup {NoBody}], Event \/ UNCHANGED events,
           shown' \in [Pages -> Views], strayed' \in [Pages -> SUBSET Products],
           \A v \in Pages : \/ shown'[v] = shown[v] /\ strayed'[v] = strayed[v]
                            \/ ShownOk(shown'[v], strayed'[v], had)
    PROVE  IInv'
  <1>1. /\ DOMAIN load' = Pages /\ load'[u][k] = l
        /\ \A v \in Pages : load'[v] \in [Slots(v) -> LoadType]
        /\ \A v \in Pages : \A i \in Slots(v) :
               v # u \/ i # k => load'[v][i] = load[v][i]
    <2>1. DOMAIN load' = Pages /\ load'[u][k] = l
      BY LoadSet
    <2>2. \A v \in Pages : load'[v] \in [Slots(v) -> LoadType]
      BY LoadSet
    <2>3. \A v \in Pages : \A i \in Slots(v) :
              v # u \/ i # k => load'[v][i] = load[v][i]
      BY LoadSet
    <2> QED BY <2>1, <2>2, <2>3
  <1>2. events' \in 0 .. MaxEvents
    BY EventType DEF IInv
  <1>3. UNCHANGED <<row, had, gap, form, asked, action, crossed>>
    BY DEF server
  <1>4. TypeOK'
    BY <1>1, <1>2, <1>3 DEF IInv, TypeOK, LoadType, Slots
  <1>5. Grows(had, had', crossed, crossed') /\ RowOk(row', had', crossed')
    BY <1>3 DEF Grows, IInv, Rows
  <1>6. \A v \in Pages : \A i \in Slots(v) :
            load'[v][i] = load[v][i] \/ LoadOk(load'[v][i], had')
    BY <1>1, <1>3
  <1> QED BY <1>1, <1>3, <1>4, <1>5, <1>6, AllKept

LEMMA NoViewOk ==
    /\ NoView \in Views /\ NoLoad \in LoadType /\ NoAction \in ActionType
    /\ \A excused, h : ShownOk(NoView, excused, h)
    /\ \A h : LoadOk(NoLoad, h)
    /\ \A h, x : ActionOk(NoAction, h, x)
  <1>1. Cardinality(Products) \in Nat
    BY GapAssumption, FS_CardinalityType
  <1>2. DOMAIN NoView.items = {} /\ NoView.total = 0 /\ NoView.count = [s \in Statuses |-> 0]
    BY DEF NoView
  <1>3. NoView.items \in [{} -> Statuses]
    BY DEF NoView
  <1>4. NoView \in Views
    <2>1. NoView.items \in UNION {[D -> Statuses] : D \in SUBSET Products}
      BY <1>3
    <2> QED BY <1>1, <2>1 DEF NoView, Views
  <1>5. NoLoad \in LoadType
    BY <1>4 DEF NoLoad, LoadType
  <1>6. NoAction \in ActionType
    BY DEF NoAction, ActionType, Statuses
  <1>7. Fits(NoView)
    BY <1>2, FS_EmptySet DEF Fits, Counted, Statuses
  <1>8. \A excused, h : ShownOk(NoView, excused, h)
    BY <1>2, <1>7 DEF ShownOk, InContext, IsStored
  <1>9. \A h : LoadOk(NoLoad, h)
    BY DEF LoadOk, NoLoad
  <1>10. \A h, x : ActionOk(NoAction, h, x)
    BY DEF ActionOk, NoAction
  <1> QED BY <1>4, <1>5, <1>6, <1>8, <1>9, <1>10

\* A step of one request that changes no view.
LEMMA LoadOnly ==
    ASSUME IInv, NEW u \in Pages, NEW k \in Slots(u), NEW l \in LoadType,
           load' = [load EXCEPT ![u][k] = l], LoadOk(l, had),
           UNCHANGED <<server, page, action, crossed, events>>
    PROVE  IInv'
  <1>1. /\ lastBody' \in [Pages -> Bodies \cup {NoBody}]
        /\ shown' \in [Pages -> Views] /\ strayed' \in [Pages -> SUBSET Products]
    BY DEF IInv, TypeOK, page
  <1> QED BY <1>1, LoadChange DEF page

LEMMA SentOk ==
    ASSUME NEW body \in Bodies \cup {NoBody}
    PROVE  /\ [NoLoad EXCEPT !.step = "sent", !.body = body] \in LoadType
           /\ \A h : LoadOk([NoLoad EXCEPT !.step = "sent", !.body = body], h)
  BY NoViewOk DEF NoLoad, LoadType, LoadOk

LEMMA HandleLoadOk ==
    ASSUME IInv, NEW u \in Pages, NEW f \in Filters, HandleLoad(u, f)
    PROVE  IInv'
  <1> DEFINE body == [category |-> form[u].category, cats |-> form[u].boxes, filter |-> f]
             l == [NoLoad EXCEPT !.step = "sent", !.body = body]
  <1>1. PICK k \in Slots(u) : LoadGap(u, k, body)
    BY DEF HandleLoad
  <1>2. body \in Bodies
    BY FilterTypes DEF Bodies, FormType
  <1> HIDE DEF body
  <1>3. l \in LoadType /\ LoadOk(l, had)
    BY <1>2, SentOk
  <1>4. load' = [load EXCEPT ![u][k] = l] /\ lastBody' = [lastBody EXCEPT ![u] = body]
    BY <1>1 DEF LoadGap
  <1> HIDE DEF l
  <1>5. /\ lastBody' \in [Pages -> Bodies \cup {NoBody}]
        /\ shown' \in [Pages -> Views] /\ strayed' \in [Pages -> SUBSET Products]
    BY <1>2, <1>4 DEF IInv, TypeOK, HandleLoad
  <1> QED BY <1>3, <1>4, <1>5, LoadChange DEF HandleLoad

\* What is known of a request.
LEMMA LoadAt ==
    ASSUME IInv, NEW u \in Pages, NEW k \in Slots(u)
    PROVE  load[u][k] \in LoadType /\ LoadOk(load[u][k], had)
  BY Kinds DEF IInv, Loads

LEMMA CompareOk ==
    ASSUME IInv, NEW u \in Pages, NEW k \in Slots(u), Compare(u, k)
    PROVE  IInv'
  <1> DEFINE l == load[u][k]
             S == {p \in gap[l.body.category] : CatOf[p] \in l.body.cats}
             m == [l EXCEPT !.step = "compared", !.found = S]
  <1>1. l \in LoadType /\ Validated(l.body)
    BY LoadAt DEF Compare
  <1>2. S \in SUBSET Products
    BY <1>1, FilterTypes DEF Validated
  <1>3. load' = [load EXCEPT ![u][k] = m]
    BY DEF Compare
  <1>4. \A p \in S : CatOf[p] \in l.body.cats
    OBVIOUS
  <1> HIDE DEF l, S
  <1>5. m \in LoadType /\ LoadOk(m, had)
    BY <1>1, <1>2, <1>4 DEF LoadType, LoadOk
  <1> QED BY <1>3, <1>5, LoadOnly DEF Compare

LEMMA EndLoadOk ==
    ASSUME IInv, NEW u \in Pages, NEW k \in Slots(u), Refuse(u, k) \/ LoadFails(u, k)
    PROVE  IInv'
  BY NoViewOk, LoadOnly DEF Refuse, LoadFails

\* The view of products D of a category in context.
LEMMA ViewOk ==
    ASSUME NEW body \in Bodies, Validated(body), NEW D \in SUBSET Products,
           NEW f \in [D -> Statuses], \A p \in D : CatOf[p] \in body.cats, NEW h,
           \A p \in D : f[p] = "new" \/ f[p] \in h[body.category][p]
    PROVE  View(body, f) \in Views /\ ShownOk(View(body, f), {}, h)
  <1> DEFINE view == View(body, f)
             V == Visible(f, body.filter)
  <1>1. V \subseteq D
    BY DEF Visible
  <1>2. /\ view.category = body.category /\ view.total = Cardinality(D)
        /\ view.items = [p \in V |-> f[p]] /\ view.count = Summary(f)
        /\ DOMAIN view.items = V
    BY DEF View
  <1>3. /\ Summary(f) \in [Statuses -> 0 .. Cardinality(Products)]
        /\ Summary(f)["new"] + Summary(f)["in_progress"] + Summary(f)["done"]
               = Cardinality(D)
        /\ \A s \in Statuses : Summary(f)[s] = Cardinality({p \in D : f[p] = s})
    BY SummaryCounts
  <1>4. /\ IsFiniteSet(D) /\ Cardinality(D) \in 0 .. Cardinality(Products)
        /\ Cardinality(V) <= Cardinality(D)
    BY <1>1, SubsetCard
  <1>5. view \in Views
    <2>1. view.items \in [V -> Statuses] /\ V \in SUBSET Products
      BY <1>1, <1>2
    <2>2. view.items \in UNION {[E -> Statuses] : E \in SUBSET Products}
      BY <2>1
    <2>3. view = [category |-> view.category, items |-> view.items,
                  total |-> view.total, count |-> view.count]
      BY DEF View
    <2> HIDE DEF view, V
    <2> QED BY <1>2, <1>3, <1>4, <2>2, <2>3 DEF Views, Validated
  <1>6. Fits(view)
    <2>1. \A s \in Statuses :
              Cardinality({p \in V : view.items[p] = s}) <= view.count[s]
      <3>1. ASSUME NEW s \in Statuses
            PROVE  Cardinality({p \in V : view.items[p] = s}) <= view.count[s]
        <4> DEFINE A == {p \in V : view.items[p] = s}
                   B == {p \in D : f[p] = s}
        <4>1. A \in SUBSET B /\ B \in SUBSET D
          BY <1>1, <1>2
        <4>2. IsFiniteSet(B)
          BY <4>1, SubsetCard
        <4>3. Cardinality(A) <= Cardinality(B)
          BY <4>1, <4>2, FS_Subset
        <4> QED BY <1>2, <1>3, <4>3
      <3> QED BY <3>1
    <2> HIDE DEF view, V
    <2> QED BY <1>2, <1>3, <1>4, <2>1 DEF Fits, Counted
  <1>7. InContext(view)
    BY <1>1, <1>2 DEF InContext, Validated
  <1>8. IsStored(view, {}, h)
    BY <1>1, <1>2 DEF IsStored
  <1> QED BY <1>5, <1>6, <1>7, <1>8 DEF ShownOk

LEMMA EnrichOk ==
    ASSUME IInv, NEW u \in Pages, NEW k \in Slots(u), Enrich(u, k)
    PROVE  IInv'
  <1> DEFINE l == load[u][k]
             f == [p \in l.found |-> row[l.body.category][p]]
             v == View(l.body, f)
             m == [l EXCEPT !.step = "answered", !.found = {}, !.body = NoBody, !.view = v]
  <1>1. l \in LoadType /\ LoadOk(l, had) /\ l.step = "compared"
    BY LoadAt DEF Enrich
  <1>2. load' = [load EXCEPT ![u][k] = m]
    BY DEF Enrich
  <1> HIDE DEF l
  <1>3. /\ Validated(l.body) /\ l.body.category \in RefCats
        /\ l.found \in SUBSET Products /\ \A p \in l.found : CatOf[p] \in l.body.cats
    BY <1>1 DEF LoadOk, LoadType, Validated
  <1>4. l.body \in Bodies
    BY <1>1, <1>3, GapAssumption DEF LoadType, Validated, NoBody
  <1>5. \A p \in l.found : row[l.body.category][p] \in Statuses
    BY <1>3 DEF IInv, TypeOK
  <1>6. f \in [l.found -> Statuses] /\ DOMAIN f = l.found
    BY <1>5
  <1>7. \A p \in l.found : f[p] = "new" \/ f[p] \in had[l.body.category][p]
    BY <1>3 DEF IInv, Rows, RowOk
  <1> HIDE DEF f
  <1>8. v \in Views /\ ShownOk(v, {}, had)
    BY <1>3, <1>4, <1>6, <1>7, ViewOk
  <1> HIDE DEF v
  <1>9. m \in LoadType /\ LoadOk(m, had)
    BY <1>1, <1>8 DEF LoadType, LoadOk, ShownOk
  <1> HIDE DEF m
  <1> QED BY <1>2, <1>9, LoadOnly DEF Enrich

LEMMA TakeViewOk ==
    ASSUME IInv, NEW u \in Pages, NEW k \in Slots(u), TakeView(u, k)
    PROVE  IInv'
  <1>1. /\ load[u][k] \in LoadType /\ LoadOk(load[u][k], had)
        /\ load[u][k].step = "answered"
    BY LoadAt DEF TakeView
  <1>2. /\ load[u][k].view \in Views /\ ShownOk(load[u][k].view, {}, had)
    BY <1>1 DEF LoadType, LoadOk, ShownOk
  <1>3. /\ shown' = [shown EXCEPT ![u] = load[u][k].view]
        /\ strayed' = [strayed EXCEPT ![u] = {}]
        /\ UNCHANGED lastBody
    BY DEF TakeView
  <1>4. /\ lastBody' \in [Pages -> Bodies \cup {NoBody}]
        /\ shown' \in [Pages -> Views] /\ strayed' \in [Pages -> SUBSET Products]
        /\ shown'[u] = load[u][k].view /\ strayed'[u] = {}
        /\ \A w \in Pages \ {u} : shown'[w] = shown[w] /\ strayed'[w] = strayed[w]
    BY <1>2, <1>3 DEF IInv, TypeOK
  <1>5. \A w \in Pages : \/ shown'[w] = shown[w] /\ strayed'[w] = strayed[w]
                         \/ ShownOk(shown'[w], strayed'[w], had)
    BY <1>2, <1>4
  <1>6. load' = [load EXCEPT ![u][k] = NoLoad]
    BY DEF TakeView
  <1> QED BY <1>4, <1>5, <1>6, NoViewOk, LoadChange DEF TakeView

-----------------------------------------------------------------------------
(* Status requests *)

\* A step of one status request.
LEMMA ActionChange ==
    ASSUME IInv, NEW u \in Pages \cup Clients, NEW a \in ActionType,
           action' = [action EXCEPT ![u] = a],
           row' \in [RefCats -> [Products -> Statuses]],
           had' \in [RefCats -> [Products -> SUBSET Stored]],
           crossed' \in [Pages -> BOOLEAN], Event \/ UNCHANGED events,
           UNCHANGED <<gap, page, load>>,
           Grows(had, had', crossed, crossed'),
           ActionOk(a, had', crossed'), RowOk(row', had', crossed')
    PROVE  IInv'
  <1>1. /\ action' \in [Pages \cup Clients -> ActionType] /\ action'[u] = a
        /\ \A v \in Pages \cup Clients : v # u => action'[v] = action[v]
    BY Kinds DEF IInv
  <1>2. events' \in 0 .. MaxEvents
    BY EventType DEF IInv
  <1>3. UNCHANGED <<gap, form, asked, lastBody, shown, strayed, load>>
    BY DEF page
  <1>4. TypeOK'
    BY <1>1, <1>2, <1>3 DEF IInv, TypeOK, ActionType, Slots
  <1>5. DOMAIN load' = Pages
    BY <1>3 DEF IInv, Loads
  <1> QED BY <1>1, <1>3, <1>4, <1>5, AllKept

\* One that stores nothing.
LEMMA ActionOnly ==
    ASSUME IInv, NEW u \in Pages \cup Clients, NEW a \in ActionType,
           action' = [action EXCEPT ![u] = a], UNCHANGED <<server, page, load>>,
           crossed' \in [Pages -> BOOLEAN], Event \/ UNCHANGED events,
           \A v \in Pages : crossed[v] => crossed'[v],
           ActionOk(a, had, crossed')
    PROVE  IInv'
  <1>1. UNCHANGED <<row, had, gap>>
    BY DEF server
  <1>2. Grows(had, had', crossed, crossed')
    BY <1>1 DEF Grows
  <1>3. RowOk(row', had', crossed')
    BY <1>1, <1>2, RowKept DEF IInv, Rows
  <1>4. /\ row' \in [RefCats -> [Products -> Statuses]]
        /\ had' \in [RefCats -> [Products -> SUBSET Stored]]
    BY <1>1 DEF IInv, TypeOK
  <1> QED BY <1>1, <1>2, <1>3, <1>4, ActionChange

LEMMA ActionAt ==
    ASSUME IInv, NEW u \in Pages \cup Clients
    PROVE  action[u] \in ActionType /\ ActionOk(action[u], had, crossed)
  BY Kinds DEF IInv, Actions

LEMMA HandleActionOk ==
    ASSUME IInv, NEW u \in Pages, NEW p \in Products, HandleAction(u, p)
    PROVE  IInv'
  <1> DEFINE a == [step |-> "sent", category |-> form[u].category, product |-> p,
                   status |-> IF shown[u].items[p] = "new" THEN "in_progress" ELSE "done"]
  <1>1. a \in ActionType
    BY FilterTypes DEF FormType, ActionType, Statuses
  <1>2. action' = [action EXCEPT ![u] = a]
    BY DEF HandleAction
  <1>3. /\ crossed' \in [Pages -> BOOLEAN]
        /\ \A v \in Pages : crossed[v] => crossed'[v]
        /\ form[u].category # shown[u].category => crossed'[u]
    BY DEF HandleAction, IInv, TypeOK
  <1>4. CatOf[p] \in MappedTo[shown[u].category]
    BY DEF HandleAction, IInv, Shows, ShownOk, InContext
  <1>5. ActionOk(a, had, crossed')
    BY <1>3, <1>4 DEF ActionOk, Within
  <1> HIDE DEF a
  <1> QED BY <1>1, <1>2, <1>3, <1>5, ActionOnly DEF HandleAction

LEMMA PostOk ==
    ASSUME IInv, NEW v \in Clients, NEW b \in Posts, Post(v, b)
    PROVE  IInv'
  <1> DEFINE a == [step |-> "sent", category |-> b.category, product |-> b.product,
                   status |-> b.status]
  <1>1. /\ b.category \in RefCats /\ b.product \in Products /\ b.status \in Statuses
        /\ CatOf[b.product] \in MappedTo[b.category]
    BY GapAssumption
  <1>2. a \in ActionType /\ ActionOk(a, had, crossed)
    BY <1>1 DEF ActionType, ActionOk, Within
  <1>3. action' = [action EXCEPT ![v] = a]
    BY DEF Post
  <1>4. crossed' \in [Pages -> BOOLEAN]
    BY DEF Post, IInv, TypeOK
  <1> HIDE DEF a
  <1> QED BY <1>2, <1>3, <1>4, ActionOnly DEF Post

\* A request takes a step and keeps the rest.
LEMMA Stepped ==
    ASSUME NEW a \in ActionType, NEW s \in {"none", "sent", "present", "missing", "stored", "failed"}
    PROVE  /\ [a EXCEPT !.step = s] \in ActionType
           /\ [a EXCEPT !.step = s].step = s
           /\ [a EXCEPT !.step = s].category = a.category
           /\ [a EXCEPT !.step = s].product = a.product
           /\ [a EXCEPT !.step = s].status = a.status
  BY DEF ActionType

LEMMA AdvanceOk ==
    ASSUME IInv, NEW u \in Pages \cup Clients, NEW s \in {"present", "missing", "failed"},
           Advance(u, s), UNCHANGED server, action[u].step # "none",
           s # "failed" => Allowed(action[u])
    PROVE  IInv'
  <1> DEFINE a == action[u]
             b == [a EXCEPT !.step = s]
  <1>1. a \in ActionType /\ ActionOk(a, had, crossed) /\ a.step # "none"
    BY ActionAt
  <1>2. action' = [action EXCEPT ![u] = b]
    BY Kinds DEF Advance, IInv
  <1>3. s # "failed" => Allowed(a)
    OBVIOUS
  <1> HIDE DEF a
  <1>4. /\ b \in ActionType /\ b.step = s /\ b.category = a.category
        /\ b.product = a.product /\ b.status = a.status
    <2>1. s \in {"none", "sent", "present", "missing", "stored", "failed"}
      OBVIOUS
    <2> QED BY <1>1, <2>1, Stepped
  <1> HIDE DEF b
  <1>5. ActionOk(b, had, crossed)
    BY <1>1, <1>3, <1>4 DEF ActionOk, Allowed
  <1>6. crossed' \in [Pages -> BOOLEAN]
    BY DEF Advance, IInv, TypeOK
  <1> QED BY <1>2, <1>4, <1>5, <1>6, ActionOnly DEF Advance

LEMMA ReadRowOk ==
    ASSUME IInv, NEW u \in Pages \cup Clients,
           FindRow(u) \/ RefuseStatus(u) \/ InsertConflict(u) \/ StatusFails(u)
    PROVE  IInv'
  <1>1. CASE FindRow(u)
    <2>1. PICK s \in {"present", "missing"} : Advance(u, s)
      BY <1>1 DEF FindRow
    <2> QED BY <1>1, <2>1, AdvanceOk DEF FindRow
  <1>2. CASE RefuseStatus(u) \/ InsertConflict(u) \/ StatusFails(u)
    BY <1>2, AdvanceOk DEF RefuseStatus, InsertConflict, StatusFails
  <1> QED BY <1>1, <1>2

LEMMA WriteOk ==
    ASSUME IInv, NEW u \in Pages \cup Clients, UpdateRow(u) \/ InsertRow(u)
    PROVE  IInv'
  <1> DEFINE a == action[u]
             b == [a EXCEPT !.step = "stored"]
  <1>1. /\ a \in ActionType /\ ActionOk(a, had, crossed)
        /\ a.step \in {"present", "missing"}
    BY ActionAt DEF UpdateRow, InsertRow
  <1>2. /\ row' = [row EXCEPT ![a.category][a.product] = a.status]
        /\ had' = [had EXCEPT ![a.category][a.product] = @ \cup {a.status}]
        /\ action' = [action EXCEPT ![u] = b]
        /\ UNCHANGED <<gap, page, load, crossed, events>>
    BY Kinds DEF UpdateRow, InsertRow, Write, Advance, IInv
  <1> HIDE DEF a
  <1>3. /\ a.category \in RefCats /\ a.product \in Products /\ a.status \in Stored
        /\ a.status \in Statuses /\ Within(a.category, a.product, crossed)
    BY <1>1 DEF ActionOk, Allowed, Stored
  <1>4. /\ b \in ActionType /\ b.step = "stored" /\ b.category = a.category
        /\ b.product = a.product /\ b.status = a.status
    BY <1>1, Stepped
  <1> HIDE DEF b
  <1>5. /\ row \in [RefCats -> [Products -> Statuses]]
        /\ had \in [RefCats -> [Products -> SUBSET Stored]]
        /\ crossed \in [Pages -> BOOLEAN]
    BY DEF IInv, TypeOK
  <1>6. /\ row' \in [RefCats -> [Products -> Statuses]]
        /\ row'[a.category][a.product] = a.status
        /\ \A c \in RefCats, p \in Products :
               c # a.category \/ p # a.product => row'[c][p] = row[c][p]
    BY <1>2, <1>3, <1>5
  <1>7. /\ had' \in [RefCats -> [Products -> SUBSET Stored]]
        /\ a.status \in had'[a.category][a.product]
        /\ \A c \in RefCats, p \in Products : had[c][p] \subseteq had'[c][p]
    BY <1>2, <1>3, <1>5
  <1>8. crossed' = crossed /\ crossed' \in [Pages -> BOOLEAN]
    BY <1>2, <1>5
  <1>9. Grows(had, had', crossed, crossed')
    BY <1>7, <1>8 DEF Grows
  <1>10. RowOk(row', had', crossed')
    BY <1>3, <1>6, <1>7, <1>8 DEF RowOk, IInv, Rows
  <1>11. Allowed(b)
    BY <1>3, <1>4 DEF Allowed
  <1>12. ActionOk(b, had', crossed')
    BY <1>3, <1>4, <1>7, <1>8, <1>11 DEF ActionOk
  <1> QED BY <1>2, <1>4, <1>6, <1>7, <1>8, <1>9, <1>10, <1>12, ActionChange

LEMMA EndActionOk ==
    ASSUME IInv, NEW u \in Pages \cup Clients, ClientEnds(u) \/ ActionError(u)
    PROVE  IInv'
  <1>1. /\ action' = [action EXCEPT ![u] = NoAction]
        /\ UNCHANGED <<server, page, load, crossed, events>>
    BY DEF ClientEnds, ActionError
  <1>2. crossed' \in [Pages -> BOOLEAN]
    BY <1>1 DEF IInv, TypeOK
  <1> QED BY <1>1, <1>2, NoViewOk, ActionOnly

\* The patched view.
LEMMA PatchOk ==
    ASSUME NEW view \in Views, NEW excused, NEW h, ShownOk(view, excused, h),
           NEW p \in DOMAIN view.items, NEW s \in Statuses, NEW now,
           excused \ {p} \subseteq now,
           s \in h[view.category][p] \/ p \in now
    PROVE  Patch(view, p, s) \in Views /\ ShownOk(Patch(view, p, s), now, h)
  <1> DEFINE D == DOMAIN view.items
             items == [view.items EXCEPT ![p] = s]
             new == Patch(view, p, s)
  <1>1. D \in SUBSET Products /\ view.items \in [D -> Statuses]
    BY ViewDomain
  <1>2. items \in [D -> Statuses] /\ DOMAIN items = D
    BY <1>1
  <1>3. new = [view EXCEPT !.items = items, !.count = Summary(items)]
    BY DEF Patch
  <1>4. /\ new.category = view.category /\ new.total = view.total
        /\ new.items = items /\ new.count = Summary(items)
    BY <1>3 DEF Views
  <1>5. /\ Summary(items) \in [Statuses -> 0 .. Cardinality(Products)]
        /\ Summary(items)["new"] + Summary(items)["in_progress"] + Summary(items)["done"]
               = Cardinality(D)
        /\ \A t \in Statuses : Summary(items)[t] = Cardinality({q \in D : items[q] = t})
    BY <1>1, <1>2, SummaryCounts
  <1>6. new \in Views
    <2>1. items \in UNION {[E -> Statuses] : E \in SUBSET Products}
      BY <1>1, <1>2
    <2> HIDE DEF items, D, new
    <2> QED BY <1>3, <1>5, <2>1 DEF Views
  <1>7. Fits(new)
    <2>1. \A t \in Statuses : Cardinality({q \in D : items[q] = t}) \in Nat
      BY <1>1, SubsetCard
    <2>2. Cardinality(D) <= new.total
      BY <1>4 DEF ShownOk, Fits
    <2> HIDE DEF items, D, new
    <2> QED BY <1>2, <1>4, <1>5, <2>1, <2>2 DEF Fits, Counted
  <1>8. InContext(new)
    BY <1>2, <1>4 DEF InContext, ShownOk
  <1>9. IsStored(new, now, h)
    BY <1>1, <1>2, <1>4 DEF IsStored, ShownOk
  <1> QED BY <1>6, <1>7, <1>8, <1>9 DEF ShownOk

LEMMA PatchShownOk ==
    ASSUME IInv, NEW u \in Pages, PatchShown(u)
    PROVE  IInv'
  <1> DEFINE a == action[u]
             view == shown[u]
             now == IF a.category # view.category THEN strayed[u] \cup {a.product}
                    ELSE strayed[u] \ {a.product}
             new == Patch(view, a.product, a.status)
  <1>1. /\ a \in ActionType /\ ActionOk(a, had, crossed) /\ a.step = "stored"
        /\ view \in Views /\ ShownOk(view, strayed[u], had)
        /\ strayed[u] \in SUBSET Products
        /\ a.product \in DOMAIN view.items
    BY ActionAt, Kinds DEF PatchShown, IInv, Shows
  <1>2. /\ action' = [action EXCEPT ![u] = NoAction]
        /\ shown' = [shown EXCEPT ![u] = new]
        /\ strayed' = [strayed EXCEPT ![u] = now]
        /\ UNCHANGED <<row, had, gap, form, asked, lastBody, load, crossed, events>>
    BY DEF PatchShown, server
  <1> HIDE DEF a, view
  <1>3. /\ a.product \in Products /\ a.status \in Statuses
        /\ a.status \in had[a.category][a.product]
    BY <1>1 DEF ActionOk, ActionType
  <1>4. /\ now \in SUBSET Products /\ strayed[u] \ {a.product} \subseteq now
        /\ a.status \in had[view.category][a.product] \/ a.product \in now
    BY <1>1, <1>3
  <1> HIDE DEF now
  <1>5. new \in Views /\ ShownOk(new, now, had)
    BY <1>1, <1>3, <1>4, PatchOk
  <1> HIDE DEF new
  <1>6. /\ shown' \in [Pages -> Views] /\ strayed' \in [Pages -> SUBSET Products]
        /\ shown'[u] = new /\ strayed'[u] = now
        /\ \A v \in Pages : v # u => shown'[v] = shown[v] /\ strayed'[v] = strayed[v]
    BY <1>2, <1>4, <1>5 DEF IInv, TypeOK
  <1>7. /\ action' \in [Pages \cup Clients -> ActionType] /\ action'[u] = NoAction
        /\ \A v \in Pages \cup Clients : v # u => action'[v] = action[v]
    BY <1>2, NoViewOk, Kinds DEF IInv
  <1>8. TypeOK'
    BY <1>2, <1>6, <1>7 DEF IInv, TypeOK, ActionType, Slots
  <1>9. Grows(had, had', crossed, crossed') /\ RowOk(row', had', crossed')
    BY <1>2 DEF Grows, IInv, Rows
  <1>10. DOMAIN load' = Pages /\ had' = had
    BY <1>2 DEF IInv, Loads
  <1> QED BY <1>2, <1>5, <1>6, <1>7, <1>8, <1>9, <1>10, NoViewOk, AllKept

LEMMA ReloadOk ==
    ASSUME IInv, NEW u \in Pages, Reload(u)
    PROVE  IInv'
  <1> DEFINE l == [NoLoad EXCEPT !.step = "sent", !.body = lastBody[u]]
  <1>1. /\ action' = [action EXCEPT ![u] = NoAction]
        /\ load' = [load EXCEPT ![u][0] = l]
        /\ lastBody' = [lastBody EXCEPT ![u] = lastBody[u]]
        /\ UNCHANGED <<row, had, gap, form, asked, shown, strayed, crossed, events>>
    BY DEF Reload, LoadGap, server
  <1>2. lastBody \in [Pages -> Bodies \cup {NoBody}] /\ lastBody' = lastBody
    BY <1>1 DEF IInv, TypeOK
  <1>3. 0 \in Slots(u) /\ l \in LoadType /\ LoadOk(l, had)
    <2>1. 0 \in Slots(u)
      BY GapAssumption DEF Slots
    <2>2. lastBody[u] \in Bodies \cup {NoBody}
      BY <1>2
    <2> QED BY <2>1, <2>2, SentOk
  <1> HIDE DEF l
  <1>4. /\ DOMAIN load' = Pages /\ load'[u][0] = l
        /\ \A v \in Pages : load'[v] \in [Slots(v) -> LoadType]
        /\ \A v \in Pages : \A i \in Slots(v) :
               v # u \/ i # 0 => load'[v][i] = load[v][i]
    BY <1>1, <1>3, LoadSet
  <1>5. /\ action' \in [Pages \cup Clients -> ActionType] /\ action'[u] = NoAction
        /\ \A v \in Pages \cup Clients : v # u => action'[v] = action[v]
    BY <1>1, NoViewOk, Kinds DEF IInv
  <1>6. TypeOK'
    BY <1>1, <1>2, <1>4, <1>5 DEF IInv, TypeOK, ActionType, LoadType, Slots
  <1>7. Grows(had, had', crossed, crossed') /\ RowOk(row', had', crossed')
    BY <1>1 DEF Grows, IInv, Rows
  <1> QED BY <1>1, <1>3, <1>4, <1>5, <1>6, <1>7, NoViewOk, AllKept

-----------------------------------------------------------------------------
(* Theorems *)

LEMMA Initially == Init => IInv
  <1> SUFFICES ASSUME Init PROVE IInv
    OBVIOUS
  <1>1. /\ row = [c \in RefCats |-> [p \in Products |-> "new"]]
        /\ had = [c \in RefCats |-> [p \in Products |-> {}]]
        /\ gap \in [RefCats -> SUBSET Products]
        /\ form = [u \in Pages |-> NoForm]
        /\ asked = [u \in Pages |-> {}]
        /\ load = [u \in Pages |-> [k \in Slots(u) |-> NoLoad]]
        /\ lastBody = [u \in Pages |-> NoBody]
        /\ shown = [u \in Pages |-> NoView]
        /\ action = [u \in Pages \cup Clients |-> NoAction]
        /\ strayed = [u \in Pages |-> {}]
        /\ crossed = [u \in Pages |-> FALSE]
        /\ events = 0
    BY DEF Init
  <1>2. NoForm \in FormType
    BY DEF NoForm, FormType
  <1>3. /\ row \in [RefCats -> [Products -> Statuses]]
        /\ had \in [RefCats -> [Products -> SUBSET Stored]]
        /\ form \in [Pages -> FormType] /\ asked \in [Pages -> SUBSET RefCats]
        /\ strayed \in [Pages -> SUBSET Products] /\ crossed \in [Pages -> BOOLEAN]
    BY <1>1, <1>2 DEF Statuses
  <1>4. /\ \A u \in Pages : load[u] \in [Slots(u) -> LoadType]
        /\ lastBody \in [Pages -> Bodies \cup {NoBody}]
        /\ shown \in [Pages -> Views]
        /\ action \in [Pages \cup Clients -> ActionType]
        /\ events \in 0 .. MaxEvents
    BY <1>1, NoViewOk, GapAssumption
  <1>5. TypeOK
    BY <1>1, <1>3, <1>4 DEF TypeOK, FormType, LoadType, ActionType
  <1>6. Loads
    BY <1>1, NoViewOk DEF Loads
  <1>7. Shows /\ Actions
    BY <1>1, NoViewOk DEF Shows, Actions
  <1>8. Rows
    BY <1>1 DEF Rows, RowOk
  <1> QED BY <1>5, <1>6, <1>7, <1>8 DEF IInv

LEMMA ServeOk ==
    ASSUME IInv, NEW u \in Pages \cup Clients, Serve(u)
    PROVE  IInv'
  <1>1. PatchShown(u) \/ Reload(u) => u \in Pages
    BY DEF PatchShown, Reload
  <1> QED BY <1>1, ReadRowOk, WriteOk, PatchShownOk, ReloadOk, EndActionOk DEF Serve

LEMMA Inductive == IInv /\ [Next]_vars => IInv'
  <1> SUFFICES ASSUME IInv, [Next]_vars PROVE IInv'
    OBVIOUS
  <1>1. ASSUME NEW u \in Pages, NEW k \in Slots(u), Answer(u, k)
        PROVE  IInv'
    BY <1>1, CompareOk, EndLoadOk, EnrichOk, TakeViewOk DEF Answer
  <1>2. CASE UNCHANGED vars
    <2>1. UNCHANGED <<row, had, gap, form, asked, lastBody, shown, strayed, load, action,
                      crossed, events>>
      BY <1>2 DEF vars, server, page
    <2> QED BY <2>1, FilterTypes, FilterKept
  <1>3. CASE \E c \in RefCats : Change(c)
    BY <1>3, ChangeOk
  <1>4. ASSUME NEW u \in Pages,
               \/ \E c \in Selectable[u] : SetRefCategory(u, c)
               \/ \E c \in RefCats : MappedCategories(u, c) \/ MappedCategoriesFail(u, c)
               \/ \E t \in TargetCats : ToggleTargetCat(u, t)
        PROVE  IInv'
    BY <1>4, SetRefCategoryOk, AnsweredOk, ToggleOk
  <1>5. ASSUME NEW u \in Pages,
               \/ \E f \in Filters : HandleLoad(u, f)
               \/ \E p \in Products : HandleAction(u, p)
        PROVE  IInv'
    BY <1>5, HandleLoadOk, HandleActionOk
  <1>6. CASE \E v \in Clients, a \in Posts : Post(v, a)
    BY <1>6, PostOk
  <1>7. CASE \E u \in Pages \cup Clients : Serve(u)
    BY <1>7, ServeOk
  <1> QED BY <1>1, <1>2, <1>3, <1>4, <1>5, <1>6, <1>7 DEF Next

LEMMA Invariant == Spec => []IInv
  BY Initially, Inductive, PTL DEF Spec

\* Every variable has its type.
THEOREM TypeCorrect == Spec => []TypeOK
  <1>1. IInv => TypeOK
    BY DEF IInv
  <1> QED BY <1>1, Invariant, PTL

\* A page shows an item as taken or done only after that status was stored
\* (handleAction, set_gap_item_status, build_gap_view).
THEOREM StoredSafe == Spec => []ShownIsStored
  <1>1. IInv => ShownIsStored
    BY DEF IInv, Shows, ShownOk, IsStored, ShownIsStored
  <1> QED BY <1>1, Invariant, PTL

\* A summary counts no item twice and none too few of those shown
\* (_build_summary, patchGapItemStatus).
THEOREM SummarySafe == Spec => []SummaryCovers
  <1>1. IInv => SummaryCovers
    BY DEF IInv, Shows, ShownOk, Fits, SummaryCovers
  <1> QED BY <1>1, Invariant, PTL

\* Views and stored statuses stay within the mapping of their category, or a
\* page has sent a status for another one (compare, setRefCategory).
THEOREM ContextSafe == Spec => []ContextLegal
  <1>1. IInv => ContextLegal
    BY DEF IInv, Shows, ShownOk, InContext, Rows, RowOk, Within, ContextLegal
  <1> QED BY <1>1, Invariant, PTL

\* A page that shows its categories as loading, and so cannot load a view, has
\* asked for some and not been answered (handleReferenceCategoryChange).
LoadingAsked == \A u \in Pages : form[u].loading => asked[u] # {}

LEMMA LoadingStep == TypeOK /\ LoadingAsked /\ [Next]_vars => LoadingAsked'
  <1> SUFFICES ASSUME TypeOK, LoadingAsked, [Next]_vars PROVE LoadingAsked'
    OBVIOUS
  <1>1. form \in [Pages -> FormType] /\ asked \in [Pages -> SUBSET RefCats]
    BY DEF TypeOK, FormType
  <1>2. ASSUME NEW u \in Pages, NEW c \in Selectable[u], SetRefCategory(u, c)
        PROVE  LoadingAsked'
    <2> DEFINE f == [NoForm EXCEPT !.category = c,
                                   !.loading = c # NoCat \/ form[u].loading]
    <2>1. form' = [form EXCEPT ![u] = f]
      BY <1>2 DEF SetRefCategory
    <2>2. f.loading = (c # NoCat \/ form[u].loading)
      BY DEF NoForm
    <2>3. asked' = [asked EXCEPT ![u] = IF c = NoCat THEN @ ELSE @ \cup {c}]
      BY <1>2 DEF SetRefCategory
    <2> HIDE DEF f
    <2> QED BY <1>1, <2>1, <2>2, <2>3 DEF LoadingAsked
  <1>3. ASSUME NEW u \in Pages, NEW c \in RefCats,
               MappedCategories(u, c) \/ MappedCategoriesFail(u, c)
        PROVE  LoadingAsked'
    <2>1. \A v \in Pages \ {u} : form'[v] = form[v] /\ asked'[v] = asked[v]
      BY <1>1, <1>3 DEF MappedCategories, MappedCategoriesFail
    <2>2. CASE MappedCategories(u, c)
      <3>1. ~form'[u].loading
        BY <1>1, <2>2 DEF MappedCategories
      <3> QED BY <2>1, <3>1 DEF LoadingAsked
    <2>3. CASE MappedCategoriesFail(u, c)
      <3>1. ~[form[u] EXCEPT !.offered = {}, !.loading = FALSE].loading
        BY <1>1 DEF FormType
      <3>2. form'[u] = [form[u] EXCEPT !.offered = {}, !.loading = FALSE]
        BY <1>1, <2>3 DEF MappedCategoriesFail
      <3> QED BY <2>1, <3>1, <3>2 DEF LoadingAsked
    <2> QED BY <1>3, <2>2, <2>3
  <1>4. ASSUME NEW u \in Pages, NEW t \in TargetCats, ToggleTargetCat(u, t)
        PROVE  LoadingAsked'
    BY <1>1, <1>4 DEF ToggleTargetCat, LoadingAsked, FormType
  <1>5. CASE UNCHANGED <<form, asked>>
    BY <1>5 DEF LoadingAsked
  <1>6. ASSUME NEW u \in Pages,
               \/ \E f \in Filters : HandleLoad(u, f)
               \/ \E k \in Slots(u) : Answer(u, k)
               \/ \E p \in Products : HandleAction(u, p)
        PROVE  UNCHANGED <<form, asked>>
    BY <1>6 DEF HandleLoad, Answer, Compare, Refuse, Enrich, LoadFails, TakeView,
                HandleAction, page
  <1>7. ASSUME NEW u \in Pages \cup Clients, Serve(u)
        PROVE  UNCHANGED <<form, asked>>
    BY <1>7 DEF Serve, FindRow, RefuseStatus, UpdateRow, InsertRow, InsertConflict,
                StatusFails, PatchShown, Reload, ActionError, ClientEnds, Advance, page
  <1>8. CASE \/ UNCHANGED vars \/ \E c \in RefCats : Change(c)
             \/ \E v \in Clients, a \in Posts : Post(v, a)
    BY <1>5, <1>8 DEF vars, Change, Post, page
  <1> QED BY <1>2, <1>3, <1>4, <1>5, <1>6, <1>7, <1>8 DEF Next

\* The load button of a page is never off for categories that nobody is
\* fetching, in whatever order the answers for several categories arrive.
THEOREM LoadingEnds == Spec => []LoadingAsked
  <1>1. Init => LoadingAsked
    BY DEF Init, NoForm, LoadingAsked
  <1> QED BY <1>1, TypeCorrect, LoadingStep, PTL DEF Spec

\* A product that has been taken or done stays so or becomes the other: no
\* request makes it new again, as the schema allows and the service refuses
\* (set_gap_item_status).
NeverNewAgain ==
    [][\A c \in RefCats, p \in Products : row[c][p] # "new" => row'[c][p] # "new"]_vars

THEOREM StaysReviewed == Spec => NeverNewAgain
  <1>1. ASSUME IInv, NEW u \in Pages \cup Clients, Write(u),
               action[u].step \in {"present", "missing"}
        PROVE  \A c \in RefCats, p \in Products : row[c][p] # "new" => row'[c][p] # "new"
    <2>1. action[u].status # "new"
      BY <1>1 DEF IInv, Actions, ActionOk, Allowed, Stored
    <2>2. row \in [RefCats -> [Products -> Statuses]]
      BY <1>1 DEF IInv, TypeOK
    <2> QED BY <1>1, <2>1, <2>2 DEF Write
  <1>2. ASSUME IInv, Next
        PROVE  \/ UNCHANGED row
               \/ \E u \in Pages \cup Clients :
                     Write(u) /\ action[u].step \in {"present", "missing"}
    <2>1. ASSUME NEW u \in Pages \cup Clients, Serve(u)
          PROVE  \/ UNCHANGED row
                 \/ Write(u) /\ action[u].step \in {"present", "missing"}
      BY <2>1 DEF Serve, FindRow, RefuseStatus, UpdateRow, InsertRow, InsertConflict,
                  StatusFails, PatchShown, Reload, ActionError, ClientEnds, server
    <2>2. ASSUME NEW u \in Pages,
                 \/ \E c \in Selectable[u] : SetRefCategory(u, c)
                 \/ \E c \in RefCats : MappedCategories(u, c) \/ MappedCategoriesFail(u, c)
                 \/ \E t \in TargetCats : ToggleTargetCat(u, t)
                 \/ \E f \in Filters : HandleLoad(u, f)
                 \/ \E k \in Slots(u) : Answer(u, k)
                 \/ \E p \in Products : HandleAction(u, p)
          PROVE  UNCHANGED row
      BY <2>2 DEF SetRefCategory, MappedCategories, MappedCategoriesFail,
                  ToggleTargetCat, HandleLoad, Answer, Compare, Refuse, Enrich,
                  LoadFails, TakeView, HandleAction, server
    <2>3. CASE (\E c \in RefCats : Change(c)) \/ \E v \in Clients, a \in Posts : Post(v, a)
      BY <2>3 DEF Change, Post, server
    <2> QED BY <1>2, <2>1, <2>2, <2>3 DEF Next
  <1>3. IInv /\ [Next]_vars
            => [\A c \in RefCats, p \in Products : row[c][p] # "new" => row'[c][p] # "new"]_vars
    BY <1>1, <1>2
  <1> QED BY <1>3, Invariant, PTL DEF Spec, NeverNewAgain
=============================================================================
