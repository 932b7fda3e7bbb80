-------------------------- MODULE ProductSyncProofs --------------------------
(***************************************************************************)
(* Theorems about ProductSync for every catalogue, any number of web       *)
(* threads and workers, and any set of prices without an exact form: its   *)
(* history, rows and counters are faithful, and it implements PriceLedger. *)
(***************************************************************************)
EXTENDS ProductSync, FiniteSetTheorems, FunctionTheorems, TLAPS

-----------------------------------------------------------------------------
(* Kinds of values *)

LEMMA RowKinds ==
    /\ \A r \in Row : r # Absent
    /\ \A d \in Draft : d # NoDraft
    /\ \A o \in Item : o # NoItem
    /\ \A w \in Working : w # Idle
    /\ \A r \in RunRow : r # NoRun
  <1>1. \A r \in Row : r.run # 0
    BY ConstantsAssumption DEF Row, Runs
  <1>2. \A r \in Row : r # Absent
    BY <1>1 DEF Absent
  <1>3. \A d \in Draft : d.row # Absent
    BY <1>2 DEF Draft
  <1>4. \A d \in Draft : d # NoDraft
    BY <1>3 DEF NoDraft
  <1>5. \A o \in Item : o # NoItem
    <2>1. \A o \in Item : DOMAIN o = {"url", "price", "seen", "overtaken"}
      BY DEF Item
    <2>2. DOMAIN NoItem = {"url"}
      BY DEF NoItem
    <2> QED BY <2>1, <2>2
  <1>6. \A w \in Working : w.run # 0
    BY ConstantsAssumption DEF Working, Runs
  <1>7. \A w \in Working : w # Idle
    BY <1>6 DEF Idle
  <1>8. \A r \in RunRow : r.status # "none"
    BY DEF RunRow
  <1>9. \A r \in RunRow : r # NoRun
    BY <1>8 DEF NoRun
  <1> QED BY <1>2, <1>4, <1>5, <1>7, <1>9

LEMMA TellsNothing == Tells(<<>>, NoPrice)
  BY DEF Tells, PriceAt

\* A change of the price goes on with the history.
LEMMA TellsChange ==
    ASSUME NEW h \in Seq(HistoryRow), NEW old, Tells(h, old),
           NEW e \in HistoryRow, e.price # old
    PROVE  Tells(Append(h, e), e.price)
  <1> DEFINE g == Append(h, e)
  <1>1. Len(h) \in Nat /\ Len(g) = Len(h) + 1 /\ g[Len(h) + 1] = e
    OBVIOUS
  <1>2. \A i \in 1..Len(h) : g[i] = h[i]
    OBVIOUS
  <1>3. \A i \in 0..Len(h) : PriceAt(g, i) = PriceAt(h, i)
    BY <1>1, <1>2 DEF PriceAt
  <1>4. PriceAt(g, Len(g)) = e.price
    BY <1>1 DEF PriceAt
  <1>5. ASSUME NEW i \in 1..Len(g) PROVE PriceAt(g, i) # PriceAt(g, i - 1)
    <2>1. CASE i = Len(g)
      <3>1. PriceAt(g, i - 1) = old
        BY <2>1, <1>1, <1>3 DEF Tells
      <3> QED BY <3>1, <2>1, <1>4
    <2>2. CASE i # Len(g)
      <3>1. i \in 1..Len(h) /\ i \in 0..Len(h) /\ i - 1 \in 0..Len(h)
        BY <2>2, <1>1
      <3>2. PriceAt(h, i) # PriceAt(h, i - 1)
        BY <3>1 DEF Tells
      <3> QED BY <3>1, <3>2, <1>3
    <2> QED BY <2>1, <2>2
  <1> QED BY <1>4, <1>5 DEF Tells

LEMMA ConcatAppend ==
    ASSUME NEW h \in Seq(HistoryRow), NEW a \in Seq(HistoryRow),
           NEW e \in HistoryRow
    PROVE  /\ h \o <<>> = h
           /\ h \o a \in Seq(HistoryRow)
           /\ h \o Append(a, e) = Append(h \o a, e)
  OBVIOUS

-----------------------------------------------------------------------------
(* Types *)

LEMMA ThreadType ==
    ASSUME TypeOK, NEW s \in Syncs
    PROVE  /\ sync[s] # Idle => sync[s] \in Working
           /\ sync[s] \in Working => sync[s] # Idle
           /\ Between(s) => sync[s] \in Working
           /\ AtWrite(s) => sync[s] \in Working /\ sync[s].item \in Item
  <1>1. sync[s] \in {Idle} \cup Working
    BY DEF TypeOK
  <1>2. \A w \in Working : w.item \in Item \cup {NoItem}
    BY DEF Working
  <1> QED BY <1>1, <1>2, RowKinds DEF Between, AtWrite

LEMMA DraftType ==
    ASSUME TypeOK, NEW s \in Syncs, NEW u \in Urls
    PROVE  /\ Drafted(s, u) => /\ sync[s] \in Working
                               /\ sync[s].drafts[u] \in Draft
                               /\ TableRow(s, u) \in Row
           /\ TableRow(s, u) \in Row \cup {Absent}
           /\ Found(s, u) \subseteq Row \cup {Absent}
           /\ Drafted(s, u) => Found(s, u) \subseteq Row
           /\ Added(s, u) \in Seq(HistoryRow)
  <1>1. product[u] \in Row \cup {Absent}
    BY DEF TypeOK
  <1>2. ASSUME Drafted(s, u)
        PROVE  /\ sync[s] \in Working /\ sync[s].drafts[u] \in Draft
    <2>1. sync[s] \in Working /\ sync[s].drafts[u] # NoDraft
      BY <1>2, ThreadType DEF Drafted
    <2>2. sync[s].drafts \in [Urls -> Draft \cup {NoDraft}]
      BY <2>1 DEF Working
    <2> QED BY <2>1, <2>2
  <1>3. \A d \in Draft : d.row \in Row /\ d.object \in Row /\ d.added \in Seq(HistoryRow)
    BY DEF Draft
  <1>4. <<>> \in Seq(HistoryRow)
    OBVIOUS
  <1> QED BY <1>1, <1>2, <1>3, <1>4 DEF TableRow, Found, Added

\* What each step does to the thread that takes it.
LEMMA StartThread ==
    ASSUME TypeOK, NEW s \in Syncs, NEW c \in Categories, SyncStart(s, c)
    PROVE  /\ sync'[s] \in Working
           /\ sync'[s].run = lastRun + 1 /\ lastRun + 1 \in Runs
           /\ sync'[s].item = NoItem /\ sync'[s].changes = 0
           /\ sync'[s].stale = {}
           /\ \A u \in Urls : sync'[s].drafts[u] = NoDraft
           /\ \A t \in Syncs \ {s} : sync'[t] = sync[t]
           /\ sync' \in [Syncs -> {Idle} \cup Working]
  <1> DEFINE w == [run |-> lastRun + 1, category |-> c, items |-> 0,
                   changes |-> 0, item |-> NoItem,
                   drafts |-> [u \in Urls |-> NoDraft], stale |-> {}]
  <1>1. lastRun + 1 \in Runs
    BY ConstantsAssumption DEF SyncStart, TypeOK, Runs
  <1>2. w \in Working
    BY <1>1, ConstantsAssumption DEF Working
  <1>3. /\ w.run = lastRun + 1 /\ w.item = NoItem /\ w.changes = 0
        /\ w.stale = {}
        /\ \A u \in Urls : w.drafts[u] = NoDraft
    OBVIOUS
  <1>4. sync' = [sync EXCEPT ![s] = w]
    BY DEF SyncStart
  <1> HIDE DEF w
  <1> QED BY <1>1, <1>2, <1>3, <1>4 DEF TypeOK

LEMMA LookupThread ==
    ASSUME TypeOK, NEW s \in Syncs, NEW u \in Urls, NEW p \in Values,
           ItemLookup(s, u, p)
    PROVE  \E row \in Found(s, u) :
           /\ sync[s] \in Working /\ sync'[s] \in Working
           /\ sync'[s].item = [url |-> u, price |-> p, seen |-> row,
                               overtaken |-> FALSE]
           /\ sync'[s].item \in Item
           /\ sync'[s].run = sync[s].run
           /\ sync'[s].category = sync[s].category
           /\ sync'[s].drafts = sync[s].drafts
           /\ sync'[s].stale = sync[s].stale
           /\ sync'[s].changes = sync[s].changes
           /\ \A t \in Syncs \ {s} : sync'[t] = sync[t]
           /\ sync' \in [Syncs -> {Idle} \cup Working]
  <1>1. PICK row \in Found(s, u) : sync' = [sync EXCEPT
               ![s].items = @ + 1,
               ![s].item = [url |-> u, price |-> p, seen |-> row,
                            overtaken |-> FALSE]]
    BY DEF ItemLookup
  <1> DEFINE o == [url |-> u, price |-> p, seen |-> row, overtaken |-> FALSE]
             w == [sync[s] EXCEPT !.items = @ + 1, !.item = o]
  <1>2. sync[s] \in Working /\ sync[s].items < MaxItems
    BY ThreadType DEF ItemLookup
  <1>3. o \in Item
    BY DraftType DEF Item
  <1>4. sync[s].items + 1 \in 0..MaxItems
    BY <1>2, ConstantsAssumption DEF Working
  <1>5. sync' = [sync EXCEPT ![s] = w]
    BY <1>1
  <1> HIDE DEF o
  <1>6. /\ w \in Working
        /\ w.item = o /\ w.run = sync[s].run /\ w.category = sync[s].category
        /\ w.drafts = sync[s].drafts /\ w.stale = sync[s].stale
        /\ w.changes = sync[s].changes
    BY <1>2, <1>3, <1>4 DEF Working
  <1> HIDE DEF w
  <1>7. sync'[s] = w /\ \A t \in Syncs \ {s} : sync'[t] = sync[t]
    BY <1>5 DEF TypeOK
  <1>8. sync' \in [Syncs -> {Idle} \cup Working]
    BY <1>5, <1>6 DEF TypeOK
  <1>9. o = [url |-> u, price |-> p, seen |-> row, overtaken |-> FALSE]
    BY DEF o
  <1> QED BY <1>2, <1>3, <1>6, <1>7, <1>8, <1>9

\* A row that was found is still there when it is updated.
RowStays(s) ==
    AtWrite(s) /\ sync[s].item.seen # Absent => TableRow(s, sync[s].item.url) # Absent

LEMMA NewDraftType ==
    ASSUME TypeOK, NEW s \in Syncs, AtWrite(s), RowStays(s)
    PROVE  /\ NewDraft(s) \in Draft
           /\ NewDraft(s).row.run = sync[s].run
           /\ NewRow(s) \in Row
           /\ [price |-> sync[s].item.price, run |-> sync[s].run] \in HistoryRow
  <1> DEFINE w == sync[s]
             o == w.item
             old == TableRow(s, o.url)
             e == [price |-> o.price, run |-> w.run]
  <1>1. w \in Working /\ o \in Item
    BY ThreadType
  <1>2. /\ w.run \in Runs /\ w.category \in Categories
        /\ o.price \in Values /\ o.url \in Urls /\ o.seen \in Row \cup {Absent}
    BY <1>1 DEF Working, Item
  <1>3. NewRow(s) \in Row /\ NewRow(s).run = w.run
    BY <1>2 DEF NewRow, Row
  <1>4. ASSUME o.seen # Absent
        PROVE  UpdatedRow(s) \in Row /\ UpdatedRow(s).run = w.run
    <2>1. old \in Row
      BY <1>2, <1>4, DraftType DEF RowStays
    <2>2. old.price \in Values /\ old.category \in Categories
      BY <2>1 DEF Row
    <2> QED BY <1>2, <2>2 DEF UpdatedRow, Row
  <1>5. e \in HistoryRow
    BY <1>2 DEF HistoryRow
  <1>6. Added(s, o.url) \in Seq(HistoryRow)
    BY <1>2, DraftType
  <1>7. Append(Added(s, o.url), e) \in Seq(HistoryRow)
    BY <1>5, <1>6
  <1>8. /\ NewDraft(s).row = IF o.seen = Absent THEN NewRow(s) ELSE UpdatedRow(s)
        /\ NewDraft(s) = [row |-> NewDraft(s).row, object |-> NewRow(s),
                          added |-> NewDraft(s).added]
        /\ NewDraft(s).added \in {Append(Added(s, o.url), e), Added(s, o.url)}
    BY DEF NewDraft
  <1>9. NewDraft(s).row \in Row /\ NewDraft(s).row.run = w.run
    BY <1>3, <1>4, <1>8
  <1>10. NewDraft(s).added \in Seq(HistoryRow)
    BY <1>6, <1>7, <1>8
  <1>11. NewDraft(s) \in Draft
    BY <1>3, <1>8, <1>9, <1>10 DEF Draft
  <1> QED BY <1>3, <1>5, <1>9, <1>11

LEMMA WriteThread ==
    ASSUME TypeOK, NEW s \in Syncs, ItemWrite(s), RowStays(s)
    PROVE  /\ sync[s] \in Working /\ sync'[s] \in Working
           /\ sync[s].item \in Item
           /\ sync'[s].item = NoItem
           /\ sync'[s].run = sync[s].run
           /\ sync'[s].category = sync[s].category
           /\ sync'[s].drafts =
                  [sync[s].drafts EXCEPT ![sync[s].item.url] = NewDraft(s)]
           /\ sync'[s].stale = IF sync[s].item.overtaken
                               THEN sync[s].stale \cup {sync[s].item.url}
                               ELSE sync[s].stale
           /\ sync'[s].changes = IF Changes(s) THEN sync[s].changes + 1
                                 ELSE sync[s].changes
           /\ \A t \in Syncs \ {s} : sync'[t] = sync[t]
           /\ sync' \in [Syncs -> {Idle} \cup Working]
  <1> DEFINE u == sync[s].item.url
             n == IF Changes(s) THEN sync[s].changes + 1 ELSE sync[s].changes
             x == IF sync[s].item.overtaken THEN sync[s].stale \cup {u}
                  ELSE sync[s].stale
             d == [sync[s].drafts EXCEPT ![u] = NewDraft(s)]
             w == [sync[s] EXCEPT !.item = NoItem, !.drafts = d,
                                  !.changes = n, !.stale = x]
  <1>1. sync[s] \in Working /\ sync[s].item \in Item /\ u \in Urls
    BY ThreadType DEF ItemWrite, Item
  <1>2. NewDraft(s) \in Draft
    BY NewDraftType DEF ItemWrite
  <1>3. n \in Nat /\ x \in SUBSET Urls
    BY <1>1 DEF Working
  <1>4. d \in [Urls -> Draft \cup {NoDraft}]
    <2>1. sync[s].drafts \in [Urls -> Draft \cup {NoDraft}]
      BY <1>1 DEF Working
    <2> QED BY <2>1, <1>2, <1>1
  <1>5. sync' = [sync EXCEPT ![s] = w]
    BY DEF ItemWrite
  <1> HIDE DEF n, x, d
  <1>6. /\ w \in Working
        /\ w.item = NoItem /\ w.run = sync[s].run
        /\ w.category = sync[s].category /\ w.drafts = d /\ w.stale = x
        /\ w.changes = n
    BY <1>1, <1>3, <1>4 DEF Working
  <1> HIDE DEF w
  <1>7. sync'[s] = w /\ \A t \in Syncs \ {s} : sync'[t] = sync[t]
    BY <1>5 DEF TypeOK
  <1>8. sync' \in [Syncs -> {Idle} \cup Working]
    BY <1>5, <1>6 DEF TypeOK
  <1> QED BY <1>1, <1>6, <1>7, <1>8 DEF d, n, x

LEMMA PublishThreads ==
    ASSUME TypeOK, NEW s \in Syncs, NEW status, NEW changes,
           Publish(s, status, changes)
    PROVE  /\ sync'[s] = Idle
           /\ \A t \in Syncs \ {s} :
                 \/ ~Waits(t, s) /\ sync'[t] = sync[t]
                 \/ /\ Waits(t, s)
                    /\ sync[t] \in Working /\ sync'[t] \in Working
                    /\ sync'[t].item \in Item /\ sync'[t].item.overtaken
                    /\ sync'[t].item.url = sync[t].item.url
                    /\ sync'[t].item.seen = sync[t].item.seen
                    /\ sync'[t].run = sync[t].run
                    /\ sync'[t].category = sync[t].category
                    /\ sync'[t].drafts = sync[t].drafts
                    /\ sync'[t].stale = sync[t].stale
                    /\ sync'[t].changes = sync[t].changes
           /\ sync' \in [Syncs -> {Idle} \cup Working]
  <1> DEFINE o(t) == [sync[t].item EXCEPT !.overtaken = TRUE]
             f(t) == IF t = s THEN Idle
                     ELSE IF Waits(t, s) THEN [sync[t] EXCEPT !.item = o(t)]
                     ELSE sync[t]
  <1>1. sync' = [t \in Syncs |-> f(t)]
    BY DEF Publish
  <1>2. ASSUME NEW t \in Syncs \ {s}, Waits(t, s)
        PROVE  /\ sync[t] \in Working /\ f(t) \in Working
               /\ f(t).item \in Item /\ f(t).item.overtaken
               /\ f(t).item.url = sync[t].item.url
               /\ f(t).item.seen = sync[t].item.seen
               /\ f(t).run = sync[t].run
               /\ f(t).category = sync[t].category
               /\ f(t).drafts = sync[t].drafts
               /\ f(t).stale = sync[t].stale
               /\ f(t).changes = sync[t].changes
    <2>1. sync[t] \in Working /\ sync[t].item \in Item
      BY <1>2, ThreadType DEF Waits
    <2>2. /\ o(t) \in Item /\ o(t).overtaken
          /\ o(t).url = sync[t].item.url /\ o(t).seen = sync[t].item.seen
      BY <2>1 DEF Item
    <2>3. f(t) = [sync[t] EXCEPT !.item = o(t)]
      BY <1>2
    <2> HIDE DEF o, f
    <2>4. /\ f(t) \in Working /\ f(t).item = o(t) /\ f(t).run = sync[t].run
          /\ f(t).category = sync[t].category
          /\ f(t).drafts = sync[t].drafts /\ f(t).stale = sync[t].stale
          /\ f(t).changes = sync[t].changes
      BY <2>1, <2>2, <2>3 DEF Working
    <2> QED BY <2>1, <2>2, <2>4
  <1>3. ASSUME NEW t \in Syncs \ {s}, ~Waits(t, s)
        PROVE  f(t) = sync[t]
    BY <1>3
  <1>4. f(s) = Idle
    OBVIOUS
  <1> HIDE DEF f
  <1>5. \A t \in Syncs : sync'[t] = f(t)
    BY <1>1
  <1>6. \A t \in Syncs : f(t) \in {Idle} \cup Working
    BY <1>2, <1>3, <1>4 DEF TypeOK
  <1> QED BY <1>1, <1>2, <1>3, <1>4, <1>5, <1>6

LEMMA DiscardThread ==
    ASSUME TypeOK, NEW s \in Syncs, Discard(s)
    PROVE  /\ sync'[s] = Idle
           /\ \A t \in Syncs \ {s} : sync'[t] = sync[t]
           /\ sync' \in [Syncs -> {Idle} \cup Working]
  <1> HIDE DEF Idle
  <1> QED BY DEF Discard, TypeOK

LEMMA PublishTyped ==
    ASSUME TypeOK, NEW s \in Syncs, Between(s),
           NEW status \in {"finished", "failed"}, NEW changes \in Nat,
           Publish(s, status, changes)
    PROVE  TypeOK'
  <1>1. product' \in [Urls -> Row \cup {Absent}]
    BY DraftType DEF Publish
  <1>2. history' \in [Urls -> Seq(HistoryRow)]
    <2>1. ASSUME NEW u \in Urls PROVE history[u] \o Added(s, u) \in Seq(HistoryRow)
      <3>1. history[u] \in Seq(HistoryRow) /\ Added(s, u) \in Seq(HistoryRow)
        BY DraftType DEF TypeOK
      <3> QED BY <3>1
    <2> QED BY <2>1 DEF Publish
  <1>3. sync[s] \in Working
    BY ThreadType
  <1>4. runs' \in [Runs -> RunRow \cup {NoRun}]
    <2>1. [category |-> sync[s].category, status |-> status,
           changes |-> changes] \in RunRow
      BY <1>3 DEF Working, RunRow
    <2> QED BY <2>1 DEF Publish, TypeOK
  <1>5. raced' \subseteq Urls
    BY <1>3 DEF Publish, TypeOK, Working
  <1>6. lastRun' \in 0..MaxRuns
    BY DEF Publish, TypeOK
  <1> QED BY <1>1, <1>2, <1>4, <1>5, <1>6, PublishThreads DEF TypeOK

-----------------------------------------------------------------------------
(* The invariant *)

\* A sync at work has a run of its own that is in no record yet.
RunOk(s) ==
    /\ sync[s].run <= lastRun
    /\ runs[sync[s].run] = NoRun
    /\ \A t \in Syncs \ {s} : sync[t] # Idle => sync[t].run # sync[s].run

\* A written row is locked and, unless it was written with an overtaken row,
\* will leave the product whole and its history faithful.
DraftOk(s, u) ==
    LET d == sync[s].drafts[u] IN
    /\ d.row.run = sync[s].run
    /\ \A t \in Syncs \ {s} : ~Drafted(t, u)
    /\ u \notin raced \cup sync[s].stale =>
           /\ d.row.category = sync[s].category
           /\ d.object = d.row
           /\ Tells(history[u] \o d.added, d.row.price)

\* The row that was found is the one that is there, unless it was overtaken.
ItemOk(s) ==
    LET o == sync[s].item IN
    /\ o.seen # Absent => TableRow(s, o.url) # Absent
    /\ Drafted(s, o.url) => o.seen \in Found(s, o.url)
    /\ ~Drafted(s, o.url) /\ ~o.overtaken => o.seen = product[o.url]

SyncOk(s) ==
    /\ sync[s] # Idle => RunOk(s)
    /\ \A u \in Urls : Drafted(s, u) => DraftOk(s, u)
    /\ AtWrite(s) => ItemOk(s)

UnusedRuns == \A r \in Runs : r > lastRun => runs[r] = NoRun

IInv ==
    /\ TypeOK
    /\ UnusedRuns
    /\ \A s \in Syncs : SyncOk(s)
    /\ HistoryFaithful
    /\ RowWhole

LEMMA InitIInv == Init => IInv
  <1> SUFFICES ASSUME Init PROVE IInv
    OBVIOUS
  <1>1. TypeOK
    BY ConstantsAssumption DEF Init, TypeOK
  <1>2. UnusedRuns
    BY DEF Init, UnusedRuns
  <1>3. \A s \in Syncs : SyncOk(s)
    BY DEF Init, SyncOk, Drafted, AtWrite
  <1>4. HistoryFaithful /\ RowWhole
    BY TellsNothing DEF Init, HistoryFaithful, RowWhole, RowPrice
  <1> QED BY <1>1, <1>2, <1>3, <1>4 DEF IInv

\* Nothing changes for a thread while tables and its own record stay.
LEMMA FrameOk ==
    ASSUME NEW t \in Syncs, SyncOk(t), sync'[t] = sync[t],
           product' = product, history' = history, runs' = runs,
           raced' = raced, lastRun' >= lastRun, TypeOK, lastRun' \in Nat,
           \A r \in Syncs \ {t} : sync'[r] # Idle =>
               \/ sync[r] # Idle /\ sync'[r].run = sync[r].run
               \/ sync'[r].run > lastRun,
           \A r \in Syncs \ {t}, u \in Urls :
               Drafted(t, u) /\ Drafted(r, u)' => Drafted(r, u)
    PROVE  SyncOk(t)'
  <1>1. \A u \in Urls : Drafted(t, u)' <=> Drafted(t, u)
    BY DEF Drafted
  <1>2. ASSUME NEW u \in Urls, Drafted(t, u)' PROVE DraftOk(t, u)'
    BY <1>1, <1>2 DEF SyncOk, DraftOk
  <1>3. ASSUME AtWrite(t)' PROVE ItemOk(t)'
    <2>1. AtWrite(t)
      BY <1>3 DEF AtWrite
    <2> QED BY <2>1 DEF SyncOk, ItemOk, Found, TableRow, Drafted
  <1>4. ASSUME sync'[t] # Idle PROVE RunOk(t)'
    <2>1. RunOk(t) /\ sync[t] \in Working
      BY <1>4, ThreadType DEF SyncOk
    <2>2. sync[t].run \in Nat /\ lastRun \in Nat
      BY <2>1, ConstantsAssumption DEF Working, Runs, TypeOK
    <2>3. sync'[t].run <= lastRun'
      BY <2>1, <2>2 DEF RunOk
    <2>4. ASSUME NEW r \in Syncs \ {t}, sync'[r] # Idle
          PROVE  sync'[r].run # sync'[t].run
      BY <2>1, <2>2, <2>4 DEF RunOk
    <2> QED BY <2>1, <2>3, <2>4 DEF RunOk
  <1> QED BY <1>2, <1>3, <1>4 DEF SyncOk

LEMMA TablesStay ==
    ASSUME HistoryFaithful, RowWhole, product' = product, history' = history,
           runs' = runs, raced' = raced
    PROVE  HistoryFaithful' /\ RowWhole'
  BY DEF HistoryFaithful, RowWhole

LEMMA StartStep ==
    ASSUME IInv, NEW s \in Syncs, NEW c \in Scope[s], SyncStart(s, c)
    PROVE  IInv'
  <1>1. c \in Categories
    BY ConstantsAssumption
  <1>2. /\ product' = product /\ history' = history /\ runs' = runs
        /\ raced' = raced /\ lastRun' = lastRun + 1 /\ sync[s] = Idle
    BY DEF SyncStart
  <1>3. lastRun \in Nat /\ lastRun' \in 0..MaxRuns
    BY ConstantsAssumption DEF SyncStart, IInv, TypeOK
  <1>4. TypeOK'
    BY <1>1, <1>2, <1>3, StartThread DEF IInv, TypeOK
  <1>5. UnusedRuns'
    BY <1>2, <1>3, ConstantsAssumption DEF IInv, UnusedRuns, Runs
  <1>6. \A u \in Urls : ~Drafted(s, u) /\ ~Drafted(s, u)'
    BY <1>1, <1>2, StartThread DEF Drafted, IInv
  <1>7. SyncOk(s)'
    <2>1. ~AtWrite(s)'
      BY <1>1, StartThread DEF AtWrite, IInv
    <2>2. RunOk(s)'
      <3>1. sync'[s].run = lastRun + 1 /\ lastRun + 1 \in Runs
        BY <1>1, StartThread DEF IInv
      <3>2. runs[lastRun + 1] = NoRun
        BY <3>1, <1>3 DEF IInv, UnusedRuns
      <3>3. ASSUME NEW t \in Syncs \ {s}, sync'[t] # Idle
            PROVE  sync'[t].run # lastRun + 1
        <4>1. sync'[t] = sync[t] /\ sync[t] \in Working
          BY <3>3, <1>1, StartThread, ThreadType DEF IInv
        <4>2. sync[t].run <= lastRun /\ sync[t].run \in Nat
          BY <4>1, RowKinds, ConstantsAssumption
             DEF IInv, SyncOk, RunOk, Working, Runs
        <4> QED BY <4>1, <4>2, <1>3
      <3> QED BY <3>1, <3>2, <3>3, <1>2, <1>3 DEF RunOk
    <2> QED BY <2>1, <2>2, <1>6 DEF SyncOk
  <1>8. ASSUME NEW t \in Syncs \ {s} PROVE SyncOk(t)'
    <2>1. sync'[t] = sync[t] /\ sync'[s].run > lastRun
      BY <1>1, <1>3, StartThread DEF IInv
    <2>2. \A r \in Syncs \ {s} : sync'[r] = sync[r]
      BY <1>1, StartThread DEF IInv
    <2>3. \A r \in Syncs, u \in Urls : Drafted(r, u)' => Drafted(r, u)
      BY <2>2, <1>6 DEF Drafted
    <2> QED BY <1>2, <1>3, <2>1, <2>2, <2>3, FrameOk DEF IInv
  <1> QED BY <1>2, <1>4, <1>5, <1>7, <1>8, TablesStay DEF IInv

LEMMA DiscardStep ==
    ASSUME IInv, NEW s \in Syncs, Discard(s)
    PROVE  IInv'
  <1>1. /\ product' = product /\ history' = history /\ runs' = runs
        /\ raced' = raced /\ lastRun' = lastRun
    BY DEF Discard
  <1>2. /\ sync'[s] = Idle /\ \A t \in Syncs \ {s} : sync'[t] = sync[t]
        /\ sync' \in [Syncs -> {Idle} \cup Working]
    BY DiscardThread DEF IInv
  <1>3. TypeOK'
    BY <1>1, <1>2 DEF IInv, TypeOK
  <1>4. UnusedRuns'
    BY <1>1 DEF IInv, UnusedRuns
  <1>5. SyncOk(s)'
    BY <1>2 DEF SyncOk, Drafted, AtWrite
  <1>6. ASSUME NEW t \in Syncs \ {s} PROVE SyncOk(t)'
    <2>1. lastRun \in Nat
      BY ConstantsAssumption DEF IInv, TypeOK
    <2>2. \A r \in Syncs, u \in Urls : Drafted(r, u)' => Drafted(r, u)
      BY <1>2 DEF Drafted
    <2> QED BY <1>1, <1>2, <2>1, <2>2, FrameOk DEF IInv
  <1> QED BY <1>1, <1>3, <1>4, <1>5, <1>6, TablesStay DEF IInv

LEMMA LookupStep ==
    ASSUME IInv, NEW s \in Syncs, NEW u \in Urls, NEW p \in Values,
           ItemLookup(s, u, p)
    PROVE  IInv'
  <1> DEFINE o == sync'[s].item
  <1>1. /\ product' = product /\ history' = history /\ runs' = runs
        /\ raced' = raced /\ lastRun' = lastRun
    BY DEF ItemLookup
  <1>2. PICK row \in Found(s, u) :
           /\ sync[s] \in Working /\ sync'[s] \in Working
           /\ o = [url |-> u, price |-> p, seen |-> row, overtaken |-> FALSE]
           /\ sync'[s].run = sync[s].run
           /\ sync'[s].category = sync[s].category
           /\ sync'[s].drafts = sync[s].drafts
           /\ sync'[s].stale = sync[s].stale
           /\ sync'[s].changes = sync[s].changes
           /\ \A t \in Syncs \ {s} : sync'[t] = sync[t]
           /\ sync' \in [Syncs -> {Idle} \cup Working]
    BY LookupThread DEF IInv
  <1> HIDE DEF o
  <1>3. TypeOK'
    BY <1>1, <1>2 DEF IInv, TypeOK
  <1>4. UnusedRuns'
    BY <1>1 DEF IInv, UnusedRuns
  <1>5. sync[s] # Idle /\ sync'[s] # Idle
    BY <1>2, RowKinds
  <1>6. \A t \in Syncs, v \in Urls : Drafted(t, v)' <=> Drafted(t, v)
    BY <1>2, <1>5 DEF Drafted
  <1>7. SyncOk(s)'
    <2>1. RunOk(s)'
      BY <1>1, <1>2, <1>5 DEF IInv, SyncOk, RunOk
    <2>2. ASSUME NEW v \in Urls, Drafted(s, v)' PROVE DraftOk(s, v)'
      BY <1>1, <1>2, <1>6, <2>2 DEF IInv, SyncOk, DraftOk
    <2>3. ItemOk(s)'
      <3>1. o.url = u /\ o.seen = row /\ o = sync'[s].item
        BY <1>2 DEF o
      <3>2. Found(s, u)' = Found(s, u) /\ TableRow(s, u)' = TableRow(s, u)
        BY <1>1, <1>2, <1>6 DEF Found, TableRow
      <3>3. Drafted(s, u) => row # Absent /\ TableRow(s, u) # Absent
        BY DraftType, RowKinds DEF IInv
      <3>4. ~Drafted(s, u) => row = product[u] /\ TableRow(s, u) = product[u]
        BY DEF Found, TableRow
      <3> QED BY <1>1, <1>6, <3>1, <3>2, <3>3, <3>4 DEF ItemOk
    <2> QED BY <2>1, <2>2, <2>3 DEF SyncOk
  <1>8. ASSUME NEW t \in Syncs \ {s} PROVE SyncOk(t)'
    <2>1. lastRun \in Nat
      BY ConstantsAssumption DEF IInv, TypeOK
    <2> QED BY <1>1, <1>2, <1>5, <1>6, <2>1, FrameOk DEF IInv
  <1> QED BY <1>1, <1>3, <1>4, <1>7, <1>8, TablesStay DEF IInv

\* What is written with a row that was not overtaken is the offer itself, and
\* the history goes on from the row that was there.
LEMMA FreshDraft ==
    ASSUME IInv, NEW s \in Syncs, AtWrite(s), ~sync[s].item.overtaken,
           sync[s].item.url \notin raced \cup sync[s].stale
    PROVE  LET d == NewDraft(s) IN
           /\ d.row = NewRow(s) /\ d.object = d.row
           /\ d.row.category = sync[s].category
           /\ Tells(history[sync[s].item.url] \o d.added, d.row.price)
  <1> DEFINE o == sync[s].item
             u == o.url
             old == TableRow(s, u)
             h == history[u] \o Added(s, u)
             e == [price |-> o.price, run |-> sync[s].run]
  <1>1. o \in Item /\ u \in Urls /\ sync[s] \in Working
    BY ThreadType DEF IInv, Item
  <1>2. ItemOk(s) /\ (Drafted(s, u) => DraftOk(s, u))
    BY <1>1 DEF IInv, SyncOk
  <1>3. history[u] \in Seq(HistoryRow) /\ Added(s, u) \in Seq(HistoryRow)
    BY <1>1, DraftType DEF IInv, TypeOK
  <1>4. h \in Seq(HistoryRow) /\ history[u] \o <<>> = history[u]
    BY <1>3
  <1>5. o.seen = old /\ Tells(h, RowPrice(old))
    <2>1. CASE Drafted(s, u)
      <3>1. sync[s].drafts[u].object = sync[s].drafts[u].row
        BY <2>1, <1>2 DEF DraftOk
      <3>2. o.seen = old /\ old \in Row
        BY <1>1, <1>2, <2>1, <3>1, DraftType DEF ItemOk, Found, TableRow, IInv
      <3>3. RowPrice(old) = sync[s].drafts[u].row.price
        BY <2>1, <3>2, RowKinds DEF RowPrice, TableRow
      <3> QED BY <1>2, <2>1, <3>2, <3>3 DEF DraftOk, Added
    <2>2. CASE ~Drafted(s, u)
      <3>1. o.seen = old /\ old = product[u] /\ Added(s, u) = <<>>
        BY <1>2, <2>2 DEF ItemOk, TableRow, Added
      <3>2. Tells(history[u], RowPrice(product[u]))
        BY <1>1 DEF IInv, HistoryFaithful
      <3> QED BY <1>4, <3>1, <3>2
    <2> QED BY <2>1, <2>2
  <1>6. NewDraft(s).row = NewRow(s) /\ NewDraft(s).object = NewRow(s)
    <2>1. o.seen # Absent => UpdatedRow(s) = NewRow(s)
      BY <1>5 DEF UpdatedRow, NewRow
    <2> QED BY <2>1 DEF NewDraft
  <1>7. /\ NewRow(s).price = o.price
        /\ NewRow(s).category = sync[s].category
    BY DEF NewRow
  <1>8. e \in HistoryRow
    BY <1>1 DEF Item, Working, HistoryRow
  <1>9. Tells(history[u] \o NewDraft(s).added, o.price)
    <2>1. CASE o.price # RowPrice(o.seen)
      <3>1. NewDraft(s).added = Append(Added(s, u), e)
        BY <2>1 DEF NewDraft, Changes, PriceChanged
      <3>2. history[u] \o NewDraft(s).added = Append(h, e)
        <4>1. \A g, a \in Seq(HistoryRow), x \in HistoryRow :
                  g \o Append(a, x) = Append(g \o a, x)
          BY ConcatAppend
        <4>2. history[u] \o Append(Added(s, u), e) = Append(h, e)
          <5> HIDE DEF e, u
          <5> QED BY <4>1, <1>3, <1>8
        <4> QED BY <4>2, <3>1
      <3>3. Tells(Append(h, e), e.price)
        <4> HIDE DEF h
        <4> QED BY <2>1, <1>4, <1>5, <1>8, TellsChange
      <3> QED BY <3>2, <3>3
    <2>2. CASE o.price = RowPrice(o.seen)
      <3>1. NewDraft(s).added = Added(s, u)
        BY <2>2 DEF NewDraft, Changes, PriceChanged
      <3> QED BY <3>1, <2>2, <1>5
    <2> QED BY <2>1, <2>2
  <1> QED BY <1>6, <1>7, <1>9

LEMMA WriteStep ==
    ASSUME IInv, NEW s \in Syncs, ItemWrite(s)
    PROVE  IInv'
  <1>1. /\ product' = product /\ history' = history /\ runs' = runs
        /\ raced' = raced /\ lastRun' = lastRun /\ AtWrite(s)
        /\ \A t \in Syncs : ~Waits(s, t)
    BY DEF ItemWrite
  <1>2. RowStays(s)
    BY DEF IInv, SyncOk, ItemOk, RowStays
  <1>3. PICK u \in Urls : u = sync[s].item.url
    BY <1>1, ThreadType DEF IInv, Item
  <1>4. /\ sync[s] \in Working /\ sync'[s] \in Working /\ sync[s].item \in Item
        /\ sync'[s].item = NoItem
        /\ sync'[s].run = sync[s].run
        /\ sync'[s].category = sync[s].category
        /\ sync'[s].drafts = [sync[s].drafts EXCEPT ![u] = NewDraft(s)]
        /\ sync'[s].stale = IF sync[s].item.overtaken THEN sync[s].stale \cup {u}
                            ELSE sync[s].stale
        /\ \A t \in Syncs \ {s} : sync'[t] = sync[t]
        /\ sync' \in [Syncs -> {Idle} \cup Working]
    BY <1>2, <1>3, WriteThread DEF IInv
  <1>5. TypeOK'
    BY <1>1, <1>4 DEF IInv, TypeOK
  <1>6. UnusedRuns'
    BY <1>1 DEF IInv, UnusedRuns
  <1>7. sync[s] # Idle /\ sync'[s] # Idle
    BY <1>4, RowKinds
  <1>8. /\ NewDraft(s) \in Draft
        /\ NewDraft(s).row.run = sync[s].run
    BY <1>1, <1>2, NewDraftType DEF IInv
  <1>9. /\ sync'[s].drafts[u] = NewDraft(s)
        /\ \A v \in Urls \ {u} : sync'[s].drafts[v] = sync[s].drafts[v]
    BY <1>4, <1>8 DEF Working
  <1>10. \A t \in Syncs \ {s} : ~Drafted(t, u)
    BY <1>1, <1>3 DEF Waits
  <1>11. /\ \A t \in Syncs \ {s}, v \in Urls : Drafted(t, v)' <=> Drafted(t, v)
         /\ \A v \in Urls \ {u} : Drafted(s, v)' <=> Drafted(s, v)
    BY <1>4, <1>7, <1>9 DEF Drafted
  <1>12. SyncOk(s)'
    <2>1. RunOk(s)'
      BY <1>1, <1>4, <1>7 DEF IInv, SyncOk, RunOk
    <2>2. ~AtWrite(s)'
      BY <1>4 DEF AtWrite
    <2>3. ASSUME NEW v \in Urls \ {u}, Drafted(s, v)' PROVE DraftOk(s, v)'
      <3>1. DraftOk(s, v)
        BY <1>11, <2>3 DEF IInv, SyncOk
      <3>2. v \notin sync'[s].stale => v \notin sync[s].stale
        BY <1>4
      <3> QED BY <1>1, <1>4, <1>9, <1>11, <3>1, <3>2 DEF DraftOk
    <2>4. DraftOk(s, u)'
      <3>1. u \notin raced \cup sync'[s].stale =>
                ~sync[s].item.overtaken /\ u \notin raced \cup sync[s].stale
        BY <1>4
      <3>2. \A t \in Syncs \ {s} : ~Drafted(t, u)'
        BY <1>4, <1>10 DEF Drafted
      <3> QED BY <1>1, <1>3, <1>4, <1>8, <1>9, <3>1, <3>2, FreshDraft DEF DraftOk
    <2> QED BY <2>1, <2>2, <2>3, <2>4 DEF SyncOk
  <1>13. ASSUME NEW t \in Syncs \ {s} PROVE SyncOk(t)'
    <2>1. lastRun \in Nat
      BY ConstantsAssumption DEF IInv, TypeOK
    <2>2. \A r \in Syncs \ {t}, v \in Urls :
              Drafted(t, v) /\ Drafted(r, v)' => Drafted(r, v)
      <3>1. ASSUME NEW r \in Syncs \ {t}, NEW v \in Urls,
                   Drafted(t, v), Drafted(r, v)'
            PROVE  Drafted(r, v)
        <4>1. CASE r = s /\ v = u
          BY <4>1, <3>1, <1>10
        <4>2. CASE r = s /\ v # u
          BY <4>2, <3>1, <1>11
        <4>3. CASE r # s
          BY <4>3, <3>1, <1>11
        <4> QED BY <4>1, <4>2, <4>3
      <3> QED BY <3>1
    <2>3. \A r \in Syncs \ {t} : sync'[r] # Idle =>
              sync[r] # Idle /\ sync'[r].run = sync[r].run
      BY <1>4, <1>7
    <2> QED BY <1>1, <1>4, <2>1, <2>2, <2>3, FrameOk DEF IInv
  <1> QED BY <1>1, <1>5, <1>6, <1>12, <1>13, TablesStay DEF IInv

LEMMA PublishStep ==
    ASSUME IInv, NEW s \in Syncs, Between(s),
           NEW status \in {"finished", "failed"}, NEW changes \in Nat,
           Publish(s, status, changes)
    PROVE  IInv'
  <1> DEFINE record == [category |-> sync[s].category, status |-> status,
                        changes |-> changes]
  <1>1. TypeOK /\ TypeOK'
    BY PublishTyped DEF IInv
  <1>2. PICK run \in Runs : run = sync[s].run
    BY ThreadType DEF IInv, Working
  <1>3. /\ \A u \in Urls : product'[u] = TableRow(s, u)
        /\ \A u \in Urls : history'[u] = history[u] \o Added(s, u)
        /\ \A r \in Runs \ {run} : runs'[r] = runs[r]
        /\ runs'[run] = record
        /\ raced' = raced \cup sync[s].stale
        /\ lastRun' = lastRun
    BY <1>1, <1>2 DEF Publish, TypeOK
  <1>4. record # NoRun /\ record.category = sync[s].category
    <2>1. record.status # "none"
      OBVIOUS
    <2> QED BY <2>1 DEF NoRun
  <1>5. sync[s] # Idle /\ sync'[s] = Idle /\ SyncOk(s) /\ RunOk(s)
    BY PublishThreads DEF IInv, Between, SyncOk
  <1>6. \A u \in Urls : ~Drafted(s, u) =>
            product'[u] = product[u] /\ history'[u] = history[u]
    <2>1. ASSUME NEW u \in Urls, ~Drafted(s, u)
          PROVE  product'[u] = product[u] /\ history'[u] = history[u]
      <3>1. TableRow(s, u) = product[u] /\ Added(s, u) = <<>>
        BY <2>1 DEF TableRow, Added
      <3>2. history[u] \o <<>> = history[u]
        BY <1>1 DEF TypeOK
      <3> QED BY <1>3, <3>1, <3>2
    <2> QED BY <2>1
  <1>7. UnusedRuns'
    <2>1. run <= lastRun
      BY <1>2, <1>5 DEF RunOk
    <2>2. ASSUME NEW r \in Runs, r > lastRun PROVE runs'[r] = NoRun
      <3>1. r # run
        BY <2>1, <2>2, <1>1, ConstantsAssumption DEF Runs, TypeOK
      <3> QED BY <2>2, <3>1, <1>3 DEF IInv, UnusedRuns
    <2> QED BY <2>2, <1>3 DEF UnusedRuns
  <1>8. HistoryFaithful'
    <2>1. ASSUME NEW u \in Urls, u \notin raced'
          PROVE  Tells(history'[u], RowPrice(product'[u]))
      <3>1. CASE Drafted(s, u)
        <4>1. DraftOk(s, u) /\ u \notin raced \cup sync[s].stale
          BY <1>3, <1>5, <2>1, <3>1 DEF SyncOk
        <4>2. product'[u] = sync[s].drafts[u].row /\ product'[u] # Absent
          BY <1>1, <1>3, <3>1, DraftType, RowKinds DEF TableRow
        <4>3. history'[u] = history[u] \o sync[s].drafts[u].added
          BY <1>3, <3>1 DEF Added
        <4> QED BY <4>1, <4>2, <4>3 DEF DraftOk, RowPrice
      <3>2. CASE ~Drafted(s, u)
        BY <1>3, <1>6, <2>1, <3>2 DEF IInv, HistoryFaithful
      <3> QED BY <3>1, <3>2
    <2> QED BY <2>1 DEF HistoryFaithful, RowPrice
  <1>9. RowWhole'
    <2>1. ASSUME NEW u \in Urls, product'[u] # Absent
          PROVE  /\ runs'[product'[u].run] # NoRun
                 /\ u \notin raced' =>
                        product'[u].category = runs'[product'[u].run].category
      <3>1. CASE Drafted(s, u)
        <4>1. product'[u] = sync[s].drafts[u].row /\ DraftOk(s, u)
          BY <1>3, <1>5, <3>1 DEF TableRow, SyncOk
        <4>2. product'[u].run = run
          BY <4>1, <1>2 DEF DraftOk
        <4>3. u \notin raced' => product'[u].category = sync[s].category
          BY <4>1, <1>3 DEF DraftOk
        <4> HIDE DEF record
        <4> QED BY <4>2, <4>3, <1>3, <1>4
      <3>2. CASE ~Drafted(s, u)
        <4>1. product'[u] = product[u] /\ product[u] \in Row
          BY <1>1, <1>6, <2>1, <3>2 DEF TypeOK
        <4>2. /\ product[u].run \in Runs /\ runs[product[u].run] # NoRun
              /\ u \notin raced =>
                     product[u].category = runs[product[u].run].category
          BY <2>1, <4>1 DEF IInv, RowWhole, Row
        <4>3. product[u].run # run
          BY <4>2, <1>2, <1>5 DEF RunOk
        <4> QED BY <1>3, <4>1, <4>2, <4>3
      <3> QED BY <3>1, <3>2
    <2> QED BY <2>1 DEF RowWhole
  <1>10. SyncOk(s)'
    BY <1>5 DEF SyncOk, Drafted, AtWrite
  <1>11. ASSUME NEW t \in Syncs \ {s} PROVE SyncOk(t)'
    <2>1. /\ sync'[t] # Idle <=> sync[t] # Idle
          /\ sync[t] # Idle => sync'[t].run = sync[t].run
      BY PublishThreads, RowKinds, <1>1
    <2>2. \A r \in Syncs \ {s} : sync'[r] # Idle =>
              sync[r] # Idle /\ sync'[r].run = sync[r].run
      BY PublishThreads, RowKinds, <1>1
    <2>3. /\ \A v \in Urls : Drafted(t, v)' <=> Drafted(t, v)
          /\ \A r \in Syncs, v \in Urls : Drafted(r, v)' => Drafted(r, v)
      <3>1. \A r \in Syncs \ {s} : sync'[r] # Idle =>
                sync[r] # Idle /\ sync'[r].drafts = sync[r].drafts
        BY PublishThreads, RowKinds, <1>1
      <3>2. sync[t] # Idle => sync'[t].drafts = sync[t].drafts
        BY PublishThreads, <1>1
      <3> QED BY <2>1, <3>1, <3>2, <1>5 DEF Drafted
    <2>4. ASSUME sync'[t] # Idle PROVE RunOk(t)'
      <3>1. RunOk(t) /\ sync[t] # Idle /\ sync'[t].run = sync[t].run
        BY <2>1, <2>4 DEF IInv, SyncOk
      <3>2. sync[t].run \in Runs /\ sync[t].run # run
        BY <3>1, <1>1, <1>2, <1>5, ThreadType DEF RunOk, Working
      <3>3. ASSUME NEW r \in Syncs \ {t}, sync'[r] # Idle
            PROVE  sync'[r].run # sync'[t].run
        BY <3>1, <3>3, <2>2, <1>5 DEF RunOk
      <3> QED BY <1>3, <3>1, <3>2, <3>3 DEF RunOk
    <2>5. ASSUME NEW u \in Urls, Drafted(t, u)' PROVE DraftOk(t, u)'
      <3>1. Drafted(t, u) /\ DraftOk(t, u)
        BY <2>3, <2>5 DEF IInv, SyncOk
      <3>2. ~Drafted(s, u)
        BY <3>1 DEF DraftOk
      <3>3. history'[u] = history[u]
        BY <1>6, <3>2
      <3>4. /\ sync'[t].drafts = sync[t].drafts /\ sync'[t].stale = sync[t].stale
            /\ sync'[t].category = sync[t].category
            /\ sync'[t].run = sync[t].run
        BY <3>1, PublishThreads, <1>1 DEF Drafted
      <3>5. \A r \in Syncs \ {t} : ~Drafted(r, u)'
        BY <2>3, <3>1 DEF DraftOk
      <3> QED BY <1>3, <3>1, <3>3, <3>4, <3>5 DEF DraftOk
    <2>6. ASSUME AtWrite(t)' PROVE ItemOk(t)'
      <3>1. AtWrite(t) /\ ItemOk(t) /\ sync[t].item.url \in Urls
        <4>1. AtWrite(t)
          BY <2>6, PublishThreads, <1>1, RowKinds DEF AtWrite, Waits
        <4> QED BY <4>1, ThreadType, <1>1 DEF IInv, SyncOk, Item
      <3>2. PICK u \in Urls : u = sync[t].item.url
        BY <3>1
      <3>3. sync'[t].item.url = u /\ sync'[t].item.seen = sync[t].item.seen
        BY <3>2, PublishThreads, <1>1
      <3>4. sync[t].item.seen # Absent => TableRow(t, u) # Absent
        BY <3>1, <3>2 DEF ItemOk
      <3>5. CASE Waits(t, s)
        <4>1. Drafted(s, u) /\ sync'[t].item.overtaken
          BY <3>2, <3>5, PublishThreads, <1>1 DEF Waits
        <4>2. ~Drafted(t, u) /\ ~Drafted(t, u)'
          BY <4>1, <1>5, <2>3 DEF SyncOk, DraftOk
        <4>3. product'[u] # Absent
          BY <4>1, <1>1, <1>3, DraftType, RowKinds
        <4> QED BY <3>3, <4>1, <4>2, <4>3 DEF ItemOk, TableRow
      <3>6. CASE ~Waits(t, s)
        <4>1. ~Drafted(s, u) /\ sync'[t] = sync[t]
          BY <3>1, <3>2, <3>6, PublishThreads, <1>1 DEF Waits
        <4>2. product'[u] = product[u]
          BY <1>6, <4>1
        <4>3. Drafted(t, u)' <=> Drafted(t, u)
          BY <4>1 DEF Drafted
        <4>4. TableRow(t, u)' = TableRow(t, u) /\ Found(t, u)' = Found(t, u)
          BY <4>1, <4>2, <4>3 DEF TableRow, Found
        <4> QED BY <3>1, <3>2, <3>3, <4>1, <4>2, <4>3, <4>4 DEF ItemOk
      <3> QED BY <3>5, <3>6
    <2> QED BY <2>4, <2>5, <2>6 DEF SyncOk
  <1> QED BY <1>1, <1>7, <1>8, <1>9, <1>10, <1>11 DEF IInv

LEMMA StutterIInv == IInv /\ UNCHANGED vars => IInv'
  <1> SUFFICES ASSUME IInv, UNCHANGED vars PROVE IInv'
    OBVIOUS
  <1>1. TypeOK'
    BY DEF IInv, TypeOK, vars
  <1>2. UnusedRuns'
    BY DEF IInv, UnusedRuns, vars
  <1>3. ASSUME NEW t \in Syncs PROVE SyncOk(t)'
    BY DEF IInv, SyncOk, RunOk, DraftOk, ItemOk, Drafted, AtWrite, Found,
           TableRow, vars
  <1>4. HistoryFaithful' /\ RowWhole'
    BY TablesStay DEF IInv, vars
  <1> QED BY <1>1, <1>2, <1>3, <1>4 DEF IInv

LEMMA NextIInv == IInv /\ [Next]_vars => IInv'
  <1> SUFFICES ASSUME IInv, [Next]_vars PROVE IInv'
    OBVIOUS
  <1>1. CASE UNCHANGED vars
    BY <1>1, StutterIInv
  <1>2. ASSUME NEW s \in Syncs, NEW c \in Scope[s], SyncStart(s, c)
        PROVE  IInv'
    BY <1>2, StartStep
  <1>3. ASSUME NEW s \in Syncs, NEW u \in Urls, NEW p \in Values,
               ItemLookup(s, u, p)
        PROVE  IInv'
    BY <1>3, LookupStep
  <1>4. ASSUME NEW s \in Syncs, ItemWrite(s) PROVE IInv'
    BY <1>4, WriteStep
  <1>5. ASSUME NEW s \in Syncs, SyncFinish(s) PROVE IInv'
    <2>1. sync[s].changes \in Nat
      BY <1>5, ThreadType DEF SyncFinish, IInv, Working
    <2> QED BY <2>1, <1>5, PublishStep DEF SyncFinish
  <1>6. ASSUME NEW s \in Syncs, SyncFail(s) PROVE IInv'
    BY <1>6, PublishStep, DiscardStep DEF SyncFail
  <1>7. ASSUME NEW s \in Syncs, WriteFails(s) \/ SyncCrash(s) PROVE IInv'
    BY <1>7, DiscardStep DEF WriteFails, SyncCrash
  <1> QED BY <1>1, <1>2, <1>3, <1>4, <1>5, <1>6, <1>7 DEF Next, SyncStep

-----------------------------------------------------------------------------
(* Theorems *)

LEMMA Invariance == Spec => []IInv
  <1> QED BY InitIInv, NextIInv, PTL DEF Spec

\* Every variable keeps its type.
THEOREM TypeCorrect == Spec => []TypeOK
  <1>1. IInv => TypeOK
    BY DEF IInv
  <1> QED BY <1>1, Invariance, PTL

\* The price history of a product is faithful unless syncs raced on it,
\* whatever failed or crashed in between.
THEOREM HistorySafe == Spec => []HistoryFaithful
  <1>1. IInv => HistoryFaithful
    BY DEF IInv
  <1> QED BY <1>1, Invariance, PTL

\* A product names a recorded run and is not a mixture of two syncs unless
\* they raced on it.
THEOREM RowSafe == Spec => []RowWhole
  <1>1. IInv => RowWhole
    BY DEF IInv
  <1> QED BY <1>1, Invariance, PTL

-----------------------------------------------------------------------------
(* The counter of price changes.  A sync at work has counted the rows of the *)
(* history that it has not committed, and they name its run.                *)

DraftRows(s) == UNION {{u} \X (1..Len(Added(s, u))) : u \in Urls}

Counted(s) ==
    /\ IsFiniteSet(DraftRows(s))
    /\ Cardinality(DraftRows(s)) = sync[s].changes
    /\ \A u \in Urls : \A i \in 1..Len(Added(s, u)) :
           Added(s, u)[i].run = sync[s].run

CountInv ==
    /\ \A s \in Syncs : sync[s] # Idle => Counted(s)
    /\ CountersAgree

LEMMA RowSets ==
    /\ \A s, x : x \in DraftRows(s) <=>
           \E u \in Urls : \E i \in 1..Len(Added(s, u)) : x = <<u, i>>
    /\ \A r, x : x \in HistoryOf(r) <=>
           \E u \in Urls : \E i \in 1..Len(history[u]) :
               x = <<u, i>> /\ history[u][i].run = r
  BY DEF DraftRows, HistoryOf

\* A sync whose drafts stay is counted as before.
LEMMA CountFrame ==
    ASSUME CountInv, NEW t \in Syncs,
           \/ sync'[t] = Idle
           \/ /\ sync[t] # Idle /\ sync'[t] # Idle
              /\ sync'[t].drafts = sync[t].drafts
              /\ sync'[t].changes = sync[t].changes
              /\ sync'[t].run = sync[t].run
    PROVE  sync'[t] # Idle => Counted(t)'
  <1> SUFFICES ASSUME sync'[t] # Idle PROVE Counted(t)'
    OBVIOUS
  <1>1. /\ sync[t] # Idle /\ sync'[t].drafts = sync[t].drafts
        /\ sync'[t].changes = sync[t].changes /\ sync'[t].run = sync[t].run
    OBVIOUS
  <1>2. \A u \in Urls : Added(t, u)' = Added(t, u)
    BY <1>1 DEF Added, Drafted
  <1>3. DraftRows(t)' = DraftRows(t)
    BY <1>2 DEF DraftRows
  <1> QED BY <1>1, <1>2, <1>3 DEF CountInv, Counted

LEMMA CountersStay ==
    ASSUME CountersAgree, history' = history, runs' = runs
    PROVE  CountersAgree'
  BY DEF CountersAgree, HistoryOf

LEMMA StartCount ==
    ASSUME TypeOK, CountInv, NEW s \in Syncs, NEW c \in Categories, SyncStart(s, c)
    PROVE  CountInv'
  <1>1. /\ history' = history /\ runs' = runs /\ sync'[s].changes = 0
        /\ \A u \in Urls : sync'[s].drafts[u] = NoDraft
        /\ \A t \in Syncs \ {s} : sync'[t] = sync[t]
    BY StartThread DEF SyncStart
  <1>2. \A u \in Urls : Added(s, u)' = <<>>
    BY <1>1 DEF Added, Drafted
  <1>3. \A u \in Urls : 1..Len(Added(s, u)') = {}
    BY <1>2
  <1>4. DraftRows(s)' = {}
    BY <1>3 DEF DraftRows
  <1>5. Counted(s)'
    BY <1>1, <1>3, <1>4, FS_EmptySet DEF Counted
  <1> QED BY <1>1, <1>5, CountFrame, CountersStay DEF CountInv

LEMMA LookupCount ==
    ASSUME TypeOK, CountInv, NEW s \in Syncs, NEW u \in Urls, NEW p \in Values,
           ItemLookup(s, u, p)
    PROVE  CountInv'
  <1>1. /\ history' = history /\ runs' = runs
        /\ sync[s] # Idle /\ sync'[s] # Idle
        /\ sync'[s].drafts = sync[s].drafts
        /\ sync'[s].changes = sync[s].changes
        /\ sync'[s].run = sync[s].run
        /\ \A t \in Syncs \ {s} : sync'[t] = sync[t]
    <2>1. history' = history /\ runs' = runs
      BY DEF ItemLookup
    <2>2. /\ sync[s] \in Working /\ sync'[s] \in Working
          /\ sync'[s].drafts = sync[s].drafts
          /\ sync'[s].changes = sync[s].changes
          /\ sync'[s].run = sync[s].run
          /\ \A t \in Syncs \ {s} : sync'[t] = sync[t]
      BY LookupThread
    <2> QED BY <2>1, <2>2, RowKinds
  <1> QED BY <1>1, CountFrame, CountersStay DEF CountInv

LEMMA DiscardCount ==
    ASSUME TypeOK, CountInv, NEW s \in Syncs, Discard(s)
    PROVE  CountInv'
  <1>1. /\ history' = history /\ runs' = runs /\ sync'[s] = Idle
        /\ \A t \in Syncs \ {s} : sync'[t] = sync[t]
    BY DiscardThread DEF Discard
  <1> QED BY <1>1, CountFrame, CountersStay DEF CountInv

\* The write that appends a row to the history counts it.
LEMMA WriteCount ==
    ASSUME IInv, CountInv, NEW s \in Syncs, ItemWrite(s)
    PROVE  CountInv'
  <1>1. /\ TypeOK /\ history' = history /\ runs' = runs /\ AtWrite(s)
        /\ RowStays(s)
    BY DEF ItemWrite, IInv, SyncOk, ItemOk, RowStays
  <1>2. PICK u \in Urls : u = sync[s].item.url
    BY <1>1, ThreadType DEF Item
  <1>3. /\ sync[s] \in Working /\ sync'[s] \in Working
        /\ sync'[s].run = sync[s].run
        /\ sync'[s].drafts = [sync[s].drafts EXCEPT ![u] = NewDraft(s)]
        /\ sync'[s].changes = IF Changes(s) THEN sync[s].changes + 1
                              ELSE sync[s].changes
        /\ \A t \in Syncs \ {s} : sync'[t] = sync[t]
    BY <1>1, <1>2, WriteThread
  <1>4. sync[s] # Idle /\ sync'[s] # Idle /\ Counted(s)
        /\ NewDraft(s) \in Draft /\ NewDraft(s) # NoDraft
    BY <1>1, <1>3, RowKinds, NewDraftType DEF CountInv
  <1>5. /\ sync'[s].drafts[u] = NewDraft(s)
        /\ \A v \in Urls \ {u} : sync'[s].drafts[v] = sync[s].drafts[v]
    BY <1>3, <1>4 DEF Working
  <1>6. /\ Added(s, u)' = NewDraft(s).added
        /\ \A v \in Urls \ {u} : Added(s, v)' = Added(s, v)
    BY <1>4, <1>5 DEF Added, Drafted
  <1> DEFINE e == [price |-> sync[s].item.price, run |-> sync[s].run]
             a == Added(s, u)
  <1>7. a \in Seq(HistoryRow) /\ e \in HistoryRow /\ e.run = sync[s].run
    BY <1>1, DraftType, NewDraftType
  <1>8. NewDraft(s).added = IF Changes(s) THEN Append(a, e) ELSE a
    BY <1>2 DEF NewDraft
  <1> HIDE DEF e
  <1>9. CASE ~Changes(s)
    <2>1. \A v \in Urls : Added(s, v)' = Added(s, v)
      BY <1>6, <1>8, <1>9
    <2>2. DraftRows(s)' = DraftRows(s)
      BY <2>1 DEF DraftRows
    <2>3. Counted(s)'
      BY <1>3, <1>4, <1>9, <2>1, <2>2 DEF Counted
    <2> QED BY <1>1, <1>3, <2>3, CountFrame, CountersStay DEF CountInv
  <1>10. CASE Changes(s)
    <2> DEFINE n == Len(a) + 1
    <2>1. /\ Added(s, u)' = Append(a, e) /\ Len(a) \in Nat
          /\ Len(Added(s, u)') = n /\ Added(s, u)'[n] = e
          /\ \A i \in 1..Len(a) : Added(s, u)'[i] = a[i]
          /\ 1..n = (1..Len(a)) \cup {n} /\ n \notin 1..Len(a)
      BY <1>6, <1>7, <1>8, <1>10
    <2>2. DraftRows(s)' = DraftRows(s) \cup {<<u, n>>}
      <3>1. \A x : x \in DraftRows(s)' <=>
              \E v \in Urls : \E i \in 1..Len(Added(s, v)') : x = <<v, i>>
        BY DEF DraftRows
      <3>2. \A v \in Urls : \A i : i \in 1..Len(Added(s, v)') <=>
                \/ i \in 1..Len(Added(s, v))
                \/ v = u /\ i = n
        <4> HIDE DEF n
        <4> QED BY <1>6, <2>1
      <3> HIDE DEF n
      <3>3. \A x : x \in DraftRows(s)' <=> x \in DraftRows(s) \/ x = <<u, n>>
        BY <3>1, <3>2, RowSets
      <3> QED BY <3>3
    <2>3. <<u, n>> \notin DraftRows(s)
      <3> HIDE DEF n
      <3> QED BY <2>1, RowSets
    <2>4. Cardinality(DraftRows(s)') = sync[s].changes + 1
          /\ IsFiniteSet(DraftRows(s)')
      BY <1>4, <2>2, <2>3, FS_AddElement DEF Counted
    <2>5. ASSUME NEW v \in Urls, NEW i \in 1..Len(Added(s, v)')
          PROVE  Added(s, v)'[i].run = sync'[s].run
      <3>1. CASE v = u /\ i = n
        BY <1>3, <1>7, <2>1, <3>1
      <3>2. CASE v = u /\ i # n
        <4>1. i \in 1..Len(a)
          BY <2>1, <2>5, <3>2
        <4> QED BY <1>3, <1>4, <2>1, <3>2, <4>1 DEF Counted
      <3>3. CASE v # u
        BY <1>3, <1>4, <1>6, <2>5, <3>3 DEF Counted
      <3> QED BY <3>1, <3>2, <3>3
    <2>6. Counted(s)'
      BY <1>3, <1>10, <2>4, <2>5 DEF Counted
    <2> QED BY <1>1, <1>3, <2>6, CountFrame, CountersStay DEF CountInv
  <1> QED BY <1>9, <1>10

LEMMA ConcatElements ==
    ASSUME NEW h \in Seq(HistoryRow), NEW a \in Seq(HistoryRow)
    PROVE  /\ Len(h) \in Nat /\ Len(a) \in Nat /\ Len(h \o a) = Len(h) + Len(a)
           /\ \A i \in 1..Len(h) : (h \o a)[i] = h[i]
           /\ \A i \in 1..Len(a) : (h \o a)[Len(h) + i] = a[i]
           /\ \A i \in 1..Len(h \o a) :
                  i \in 1..Len(h) \/ i - Len(h) \in 1..Len(a)
  OBVIOUS

\* A commit adds the rows of its session and no others, each for its run.
LEMMA CommittedRows ==
    ASSUME TypeOK, NEW s \in Syncs, Counted(s), NEW r,
           \A u \in Urls : history'[u] = history[u] \o Added(s, u)
    PROVE  \A x : x \in HistoryOf(r)' <=>
               \/ x \in HistoryOf(r)
               \/ /\ r = sync[s].run
                  /\ \E u \in Urls : \E i \in 1..Len(Added(s, u)) :
                        x = <<u, Len(history[u]) + i>>
  <1>1. \A u \in Urls : history[u] \in Seq(HistoryRow) /\ Added(s, u) \in Seq(HistoryRow)
    BY DraftType DEF TypeOK
  <1>2. ASSUME NEW u \in Urls, NEW i
        PROVE  i \in 1..Len(history'[u]) /\ history'[u][i].run = r <=>
                 \/ i \in 1..Len(history[u]) /\ history[u][i].run = r
                 \/ r = sync[s].run /\ \E k \in 1..Len(Added(s, u)) :
                                          i = Len(history[u]) + k
    <2> DEFINE h == history[u]
               a == Added(s, u)
    <2>1. /\ Len(h) \in Nat /\ Len(a) \in Nat /\ Len(h \o a) = Len(h) + Len(a)
          /\ \A k \in 1..Len(h) : (h \o a)[k] = h[k]
          /\ \A k \in 1..Len(a) : (h \o a)[Len(h) + k] = a[k]
          /\ \A k \in 1..Len(h \o a) : k \in 1..Len(h) \/ k - Len(h) \in 1..Len(a)
      BY <1>1, ConcatElements
    <2>2. \A k \in 1..Len(a) : a[k].run = sync[s].run
      BY DEF Counted
    <2>3. history'[u] = h \o a
      OBVIOUS
    <2> HIDE DEF h, a
    <2>4. ASSUME i \in 1..Len(h \o a), (h \o a)[i].run = r
          PROVE  \/ i \in 1..Len(h) /\ h[i].run = r
                 \/ r = sync[s].run /\ \E k \in 1..Len(a) : i = Len(h) + k
      <3>1. CASE i \in 1..Len(h)
        BY <2>1, <2>4, <3>1
      <3>2. CASE i - Len(h) \in 1..Len(a)
        <4> DEFINE k == i - Len(h)
        <4>1. k \in 1..Len(a) /\ i = Len(h) + k
          BY <2>1, <2>4, <3>2
        <4> HIDE DEF k
        <4> QED BY <2>1, <2>2, <2>4, <4>1
      <3> QED BY <2>1, <2>4, <3>1, <3>2
    <2>5. ASSUME i \in 1..Len(h), h[i].run = r
          PROVE  i \in 1..Len(h \o a) /\ (h \o a)[i].run = r
      BY <2>1, <2>5
    <2>6. ASSUME r = sync[s].run, NEW k \in 1..Len(a), i = Len(h) + k
          PROVE  i \in 1..Len(h \o a) /\ (h \o a)[i].run = r
      <3>1. (h \o a)[i].run = r
        BY <2>1, <2>2, <2>6
      <3> QED BY <2>1, <2>6, <3>1
    <2>7. (i \in 1..Len(h \o a) /\ (h \o a)[i].run = r) <=>
                 \/ i \in 1..Len(h) /\ h[i].run = r
                 \/ r = sync[s].run /\ \E k \in 1..Len(a) : i = Len(h) + k
      BY <2>4, <2>5, <2>6
    <2> QED BY <2>3, <2>7 DEF h, a
  <1>3. \A x : x \in HistoryOf(r)' <=>
           \E u \in Urls : \E i : x = <<u, i>> /\ i \in 1..Len(history'[u])
                              /\ history'[u][i].run = r
    BY DEF HistoryOf
  <1>4. \A x : x \in HistoryOf(r) <=>
           \E u \in Urls : \E i : x = <<u, i>> /\ i \in 1..Len(history[u])
                              /\ history[u][i].run = r
    BY DEF HistoryOf
  <1>5. ASSUME NEW x, x \in HistoryOf(r)'
        PROVE  \/ x \in HistoryOf(r)
               \/ /\ r = sync[s].run
                  /\ \E u \in Urls : \E i \in 1..Len(Added(s, u)) :
                        x = <<u, Len(history[u]) + i>>
    <2> PICK u \in Urls : \E i : /\ x = <<u, i>> /\ i \in 1..Len(history'[u])
                                /\ history'[u][i].run = r
      BY <1>3, <1>5
    <2>1. PICK i : /\ x = <<u, i>> /\ i \in 1..Len(history'[u])
                   /\ history'[u][i].run = r
      OBVIOUS
    <2>2. CASE i \in 1..Len(history[u]) /\ history[u][i].run = r
      BY <1>4, <2>1, <2>2
    <2>3. CASE r = sync[s].run /\ \E k \in 1..Len(Added(s, u)) :
                                      i = Len(history[u]) + k
      BY <2>1, <2>3
    <2> QED BY <1>2, <2>1, <2>2, <2>3
  <1>6. ASSUME NEW x, x \in HistoryOf(r) PROVE x \in HistoryOf(r)'
    <2> PICK u \in Urls : \E i : /\ x = <<u, i>> /\ i \in 1..Len(history[u])
                                /\ history[u][i].run = r
      BY <1>4, <1>6
    <2>1. PICK i : /\ x = <<u, i>> /\ i \in 1..Len(history[u])
                   /\ history[u][i].run = r
      OBVIOUS
    <2> QED BY <1>2, <1>3, <2>1
  <1>7. ASSUME NEW x, r = sync[s].run,
               \E u \in Urls : \E i \in 1..Len(Added(s, u)) :
                   x = <<u, Len(history[u]) + i>>
        PROVE  x \in HistoryOf(r)'
    <2>1. PICK u \in Urls : \E i \in 1..Len(Added(s, u)) :
                               x = <<u, Len(history[u]) + i>>
      BY <1>7
    <2>2. PICK i \in 1..Len(Added(s, u)) : x = <<u, Len(history[u]) + i>>
      BY <2>1
    <2> DEFINE n == Len(history[u]) + i
    <2>3. n \in 1..Len(history'[u]) /\ history'[u][n].run = r
      BY <1>2, <1>7, <2>2
    <2>4. x = <<u, n>>
      BY <2>2
    <2> HIDE DEF n
    <2> QED BY <1>3, <2>3, <2>4
  <1> QED BY <1>5, <1>6, <1>7

\* As many as the sync has counted.
LEMMA CommittedCount ==
    ASSUME TypeOK, NEW s \in Syncs, Counted(s), HistoryOf(sync[s].run) = {},
           \A u \in Urls : history'[u] = history[u] \o Added(s, u),
           NEW r, r = sync[s].run
    PROVE  Cardinality(HistoryOf(r)') = sync[s].changes
  <1> DEFINE S == DraftRows(s)
             T == HistoryOf(r)'
             f == [x \in S |-> <<x[1], Len(history[x[1]]) + x[2]>>]
  <1>1. \A x : x \in S <=>
           \E u \in Urls : \E i \in 1..Len(Added(s, u)) : x = <<u, i>>
    BY RowSets
  <1>2. \A x : x \in T <=>
           \E u \in Urls : \E i \in 1..Len(Added(s, u)) :
               x = <<u, Len(history[u]) + i>>
    BY CommittedRows
  <1>3. ASSUME NEW u \in Urls, NEW i \in 1..Len(Added(s, u))
        PROVE  /\ <<u, i>> \in S /\ i \in Nat /\ Len(history[u]) \in Nat
               /\ f[<<u, i>>] = <<u, Len(history[u]) + i>>
    <2>1. <<u, i>> \in S
      BY <1>1
    <2>2. i \in Nat /\ Len(history[u]) \in Nat
      BY DraftType DEF TypeOK
    <2> HIDE DEF S
    <2> QED BY <2>1, <2>2
  <1>4. f \in [S -> T]
    <2>1. ASSUME NEW x \in S PROVE f[x] \in T
      <3>1. PICK u \in Urls : \E i \in 1..Len(Added(s, u)) : x = <<u, i>>
        BY <1>1
      <3>2. PICK i \in 1..Len(Added(s, u)) : x = <<u, i>>
        BY <3>1
      <3> HIDE DEF S, T, f
      <3> QED BY <1>2, <1>3, <3>2
    <2>2. f = [x \in S |-> f[x]]
      OBVIOUS
    <2> HIDE DEF S, T, f
    <2> QED BY <2>1, <2>2
  <1> HIDE DEF S, T, f
  <1>5. \A x, y \in S : f[x] = f[y] => x = y
    <2> SUFFICES ASSUME NEW x \in S, NEW y \in S, f[x] = f[y] PROVE x = y
      OBVIOUS
    <2>1. PICK u \in Urls : \E i \in 1..Len(Added(s, u)) : x = <<u, i>>
      BY <1>1
    <2>2. PICK i \in 1..Len(Added(s, u)) : x = <<u, i>>
      BY <2>1
    <2>3. PICK v \in Urls : \E k \in 1..Len(Added(s, v)) : y = <<v, k>>
      BY <1>1
    <2>4. PICK k \in 1..Len(Added(s, v)) : y = <<v, k>>
      BY <2>3
    <2>5. <<u, Len(history[u]) + i>> = <<v, Len(history[v]) + k>>
      BY <1>3, <2>2, <2>4
    <2>6. u = v /\ Len(history[u]) + i = Len(history[v]) + k
      BY <2>5
    <2>7. i = k
      BY <1>3, <2>6
    <2> QED BY <2>2, <2>4, <2>6, <2>7
  <1>6. \A y \in T : \E x \in S : f[x] = y
    <2> SUFFICES ASSUME NEW y \in T PROVE \E x \in S : f[x] = y
      OBVIOUS
    <2>1. PICK u \in Urls : \E i \in 1..Len(Added(s, u)) :
                               y = <<u, Len(history[u]) + i>>
      BY <1>2
    <2>2. PICK i \in 1..Len(Added(s, u)) : y = <<u, Len(history[u]) + i>>
      BY <2>1
    <2> QED BY <1>3, <2>2
  <1>7. f \in Bijection(S, T)
    BY <1>4, <1>5, <1>6, Fun_IsBij
  <1>8. ExistsBijection(S, T)
    BY <1>7, Fun_ExistsBij
  <1>9. IsFiniteSet(S) /\ Cardinality(S) = sync[s].changes
    BY DEF S, Counted
  <1> QED BY <1>8, <1>9, FS_Bijection DEF T

LEMMA PublishCount ==
    ASSUME IInv, CountInv, NEW s \in Syncs, Between(s),
           NEW status \in {"finished", "failed"}, NEW changes \in Nat,
           Publish(s, status, changes),
           status = "finished" => changes = sync[s].changes
    PROVE  CountInv'
  <1>1. TypeOK /\ sync[s] \in Working /\ sync[s] # Idle /\ RunOk(s) /\ Counted(s)
    BY ThreadType DEF IInv, Between, SyncOk, CountInv
  <1>2. PICK run \in Runs : run = sync[s].run
    BY <1>1 DEF Working
  <1> DEFINE record == [category |-> sync[s].category, status |-> status,
                        changes |-> changes]
  <1>3. /\ \A u \in Urls : history'[u] = history[u] \o Added(s, u)
        /\ \A r \in Runs \ {run} : runs'[r] = runs[r]
        /\ runs'[run] = record
    BY <1>1, <1>2 DEF Publish, TypeOK
  <1>4. record # NoRun /\ record.status = status /\ record.changes = changes
    <2>1. record.status # "none"
      OBVIOUS
    <2> QED BY <2>1 DEF NoRun
  <1> HIDE DEF record
  <1>5. HistoryOf(run) = {}
    BY <1>1, <1>2 DEF RunOk, CountInv, CountersAgree
  <1>6. ASSUME NEW r \in Runs
        PROVE  /\ runs'[r].status = "finished" =>
                      runs'[r].changes = Cardinality(HistoryOf(r)')
               /\ runs'[r] = NoRun => HistoryOf(r)' = {}
    <2>1. CASE r = run
      <3>1. Cardinality(HistoryOf(r)') = sync[s].changes
        BY <1>1, <1>2, <1>3, <1>5, <2>1, CommittedCount
      <3> QED BY <1>3, <1>4, <2>1, <3>1
    <2>2. CASE r # run
      <3>1. HistoryOf(r)' = HistoryOf(r)
        <4>1. \A x : x \in HistoryOf(r)' <=> x \in HistoryOf(r)
          BY <1>1, <1>2, <1>3, <2>2, CommittedRows
        <4> QED BY <4>1
      <3> QED BY <1>3, <2>2, <3>1 DEF CountInv, CountersAgree
    <2> QED BY <2>1, <2>2
  <1>7. ASSUME NEW t \in Syncs PROVE sync'[t] # Idle => Counted(t)'
    BY <1>1, PublishThreads, RowKinds, CountFrame
  <1> QED BY <1>6, <1>7 DEF CountInv, CountersAgree

LEMMA CountInit == Init => CountInv
  <1> SUFFICES ASSUME Init PROVE CountInv
    OBVIOUS
  <1>1. \A u \in Urls : 1..Len(history[u]) = {}
    BY DEF Init
  <1>2. \A r : HistoryOf(r) = {}
    BY <1>1 DEF HistoryOf
  <1>3. \A r \in Runs : runs[r].status # "finished"
    BY DEF Init, NoRun
  <1> QED BY <1>2, <1>3 DEF Init, CountInv, CountersAgree

LEMMA CountStep ==
    ASSUME IInv, CountInv, [Next]_vars
    PROVE  CountInv'
  <1>1. CASE UNCHANGED vars
    BY <1>1, CountFrame, CountersStay DEF vars, CountInv
  <1>2. ASSUME NEW s \in Syncs, NEW c \in Scope[s], SyncStart(s, c)
        PROVE  CountInv'
    <2>1. c \in Categories
      BY <1>2, ConstantsAssumption
    <2> QED BY <1>2, <2>1, StartCount DEF IInv
  <1>3. ASSUME NEW s \in Syncs, NEW u \in Urls, NEW p \in Values,
               ItemLookup(s, u, p)
        PROVE  CountInv'
    BY <1>3, LookupCount DEF IInv
  <1>4. ASSUME NEW s \in Syncs, ItemWrite(s) PROVE CountInv'
    BY <1>4, WriteCount
  <1>5. ASSUME NEW s \in Syncs, SyncFinish(s) PROVE CountInv'
    <2>1. sync[s].changes \in Nat
      BY <1>5, ThreadType DEF SyncFinish, IInv, Working
    <2> QED BY <2>1, <1>5, PublishCount DEF SyncFinish
  <1>6. ASSUME NEW s \in Syncs, SyncFail(s) PROVE CountInv'
    BY <1>6, PublishCount, DiscardCount DEF SyncFail, IInv
  <1>7. ASSUME NEW s \in Syncs, WriteFails(s) \/ SyncCrash(s) PROVE CountInv'
    BY <1>7, DiscardCount DEF WriteFails, SyncCrash, IInv
  <1> QED BY <1>1, <1>2, <1>3, <1>4, <1>5, <1>6, <1>7 DEF Next, SyncStep

\* The counter of price changes of a finished run (price_changes_detected) is
\* the number of committed rows of the history that name it, and a run that is
\* not recorded has none, races between syncs included.
THEOREM CountersSafe == Spec => []CountersAgree
  <1>1. IInv /\ CountInv /\ [Next]_vars => CountInv'
    BY CountStep
  <1>2. CountInv => CountersAgree
    BY DEF CountInv
  <1> QED BY <1>1, <1>2, CountInit, Invariance, PTL DEF Spec
-----------------------------------------------------------------------------
(* The ledger.  Only a product that is there can be overtaken, and what a    *)
(* session notes as stale it has written.                                   *)

StaleOk(s) ==
    /\ \A u \in sync[s].stale : Drafted(s, u) /\ product[u] # Absent
    /\ AtWrite(s) /\ sync[s].item.overtaken => product[sync[s].item.url] # Absent

StaleInv == \A s \in Syncs : sync[s] # Idle => StaleOk(s)

LEMMA ProductsStay ==
    ASSUME TypeOK, NEW s \in Syncs, NEW status, NEW changes,
           Publish(s, status, changes), NEW u \in Urls
    PROVE  /\ product[u] # Absent \/ Drafted(s, u) => product'[u] # Absent
           /\ ~Drafted(s, u) => product'[u] = product[u]
  <1>1. product'[u] = TableRow(s, u)
    BY DEF Publish
  <1> QED BY <1>1, DraftType, RowKinds DEF TableRow

\* A thread whose session stays, while no product goes.
LEMMA StaleFrame ==
    ASSUME TypeOK, StaleInv, NEW t \in Syncs, sync'[t] = sync[t],
           \A u \in Urls : product[u] # Absent => product'[u] # Absent
    PROVE  sync'[t] # Idle => StaleOk(t)'
  <1> SUFFICES ASSUME sync[t] # Idle PROVE StaleOk(t)'
    OBVIOUS
  <1>1. sync[t].stale \subseteq Urls
    BY ThreadType DEF Working
  <1>2. AtWrite(t) => sync[t].item.url \in Urls
    BY ThreadType DEF Item
  <1> QED BY <1>1, <1>2 DEF StaleInv, StaleOk, Drafted, AtWrite

LEMMA StaleDiscard ==
    ASSUME TypeOK, StaleInv, NEW s \in Syncs, Discard(s)
    PROVE  StaleInv'
  <1>1. UNCHANGED product
    BY DEF Discard
  <1> QED BY <1>1, DiscardThread, StaleFrame DEF StaleInv

LEMMA StalePublish ==
    ASSUME TypeOK, StaleInv, NEW s \in Syncs, NEW status, NEW changes,
           Publish(s, status, changes)
    PROVE  StaleInv'
  <1>1. \A u \in Urls : product[u] # Absent => product'[u] # Absent
    BY ProductsStay
  <1>2. ASSUME NEW t \in Syncs \ {s}, Waits(t, s), sync'[t] # Idle
        PROVE  StaleOk(t)'
    <2>1. /\ sync[t] # Idle /\ sync[t] \in Working /\ sync[t].item \in Item
          /\ sync[t].stale \subseteq Urls /\ sync[t].item.url \in Urls
      BY <1>2, ThreadType DEF Waits, AtWrite, Working, Item
    <2>2. /\ sync'[t].drafts = sync[t].drafts /\ sync'[t].stale = sync[t].stale
          /\ sync'[t].item.url = sync[t].item.url
      BY <1>2, PublishThreads
    <2>3. product'[sync[t].item.url] # Absent
      BY <1>2, <2>1, ProductsStay DEF Waits
    <2> QED BY <1>1, <1>2, <2>1, <2>2, <2>3 DEF StaleInv, StaleOk, Drafted
  <1>3. ASSUME NEW t \in Syncs, sync'[t] # Idle
        PROVE  StaleOk(t)'
    BY <1>1, <1>2, <1>3, PublishThreads, StaleFrame
  <1> QED BY <1>3 DEF StaleInv

LEMMA StaleWrite ==
    ASSUME IInv, StaleInv, NEW s \in Syncs, ItemWrite(s)
    PROVE  StaleInv'
  <1>1. TypeOK /\ AtWrite(s) /\ RowStays(s) /\ StaleOk(s) /\ product' = product
    BY DEF IInv, SyncOk, ItemOk, RowStays, ItemWrite, AtWrite, StaleInv
  <1> DEFINE u == sync[s].item.url
  <1>2. /\ sync[s] \in Working /\ u \in Urls /\ NewDraft(s) # NoDraft
        /\ sync[s].drafts \in [Urls -> Draft \cup {NoDraft}]
    BY <1>1, ThreadType, NewDraftType, RowKinds DEF Working, Item
  <1>3. /\ sync'[s].item = NoItem /\ sync'[s] # Idle
        /\ sync'[s].drafts = [sync[s].drafts EXCEPT ![u] = NewDraft(s)]
        /\ sync'[s].stale \subseteq sync[s].stale \cup {u}
        /\ sync[s].item.overtaken \/ sync'[s].stale = sync[s].stale
        /\ \A t \in Syncs \ {s} : sync'[t] = sync[t]
    BY <1>1, WriteThread, RowKinds
  <1>4. ASSUME NEW v \in sync'[s].stale
        PROVE  Drafted(s, v)' /\ product[v] # Absent
    <2>1. CASE v = u
      BY <1>1, <1>2, <1>3, <1>4, <2>1 DEF Drafted, StaleOk
    <2>2. CASE v # u
      <3>1. v \in sync[s].stale /\ v \in Urls
        BY <1>2, <1>3, <1>4, <2>2 DEF Working
      <3> QED BY <1>1, <1>2, <1>3, <2>2, <3>1 DEF Drafted, StaleOk
    <2> QED BY <2>1, <2>2
  <1>5. StaleOk(s)'
    BY <1>1, <1>3, <1>4 DEF StaleOk, AtWrite
  <1> QED BY <1>1, <1>3, <1>5, StaleFrame DEF StaleInv

LEMMA StaleStep ==
    ASSUME IInv, StaleInv, [Next]_vars
    PROVE  StaleInv'
  <1> USE DEF IInv
  <1>1. CASE UNCHANGED vars
    BY <1>1, StaleFrame DEF vars, StaleInv
  <1>2. ASSUME NEW s \in Syncs, NEW c \in Scope[s], SyncStart(s, c)
        PROVE  StaleInv'
    <2>1. c \in Categories
      BY <1>2, ConstantsAssumption
    <2>2. StaleOk(s)' /\ product' = product
      BY <1>2, <2>1, StartThread DEF StaleOk, AtWrite, SyncStart
    <2> QED BY <1>2, <2>1, <2>2, StartThread, StaleFrame DEF StaleInv
  <1>3. ASSUME NEW s \in Syncs, NEW u \in Urls, NEW p \in Values,
               ItemLookup(s, u, p)
        PROVE  StaleInv'
    <2>1. PICK row \in Found(s, u) :
          /\ sync'[s] \in Working
          /\ sync'[s].item = [url |-> u, price |-> p, seen |-> row,
                              overtaken |-> FALSE]
          /\ sync'[s].drafts = sync[s].drafts /\ sync'[s].stale = sync[s].stale
          /\ \A t \in Syncs \ {s} : sync'[t] = sync[t]
      BY <1>3, LookupThread
    <2>2. sync[s] # Idle /\ product' = product
      BY <1>3 DEF ItemLookup, Between
    <2>3. sync'[s] # Idle /\ ~sync'[s].item.overtaken
      BY <2>1, RowKinds
    <2>4. StaleOk(s)'
      BY <2>1, <2>2, <2>3 DEF StaleInv, StaleOk, Drafted
    <2> QED BY <2>1, <2>2, <2>4, StaleFrame DEF StaleInv
  <1>4. ASSUME NEW s \in Syncs, ItemWrite(s) PROVE StaleInv'
    BY <1>4, StaleWrite
  <1>5. ASSUME NEW s \in Syncs, SyncFinish(s) \/ SyncFail(s) PROVE StaleInv'
    BY <1>5, StalePublish, StaleDiscard DEF SyncFinish, SyncFail
  <1>6. ASSUME NEW s \in Syncs, WriteFails(s) \/ SyncCrash(s) PROVE StaleInv'
    BY <1>6, StaleDiscard DEF WriteFails, SyncCrash
  <1> QED BY <1>1, <1>2, <1>3, <1>4, <1>5, <1>6 DEF Next, SyncStep

LedgerVars == <<product, history, runs, raced>>

\* What a committing session makes of a product is the next entry of its run.
LEMMA LedgerWritten ==
    ASSUME IInv, IInv', StaleInv, CountInv, NEW s \in Syncs, sync[s] # Idle,
           NEW status, NEW changes, Publish(s, status, changes),
           NEW run, run = sync[s].run, runs'[run].category = sync[s].category,
           NEW u \in Urls
    PROVE  Ledger!Untouched(u) \/ Ledger!Written(u, run)
  <1>1. TypeOK /\ TypeOK' /\ SyncOk(s) /\ StaleOk(s) /\ Counted(s)
    BY DEF IInv, StaleInv, CountInv
  <1>2. /\ history'[u] = history[u] \o Added(s, u)
        /\ product'[u] = TableRow(s, u) /\ raced' = raced \cup sync[s].stale
    BY DEF Publish
  <1>3. history[u] \in Seq(HistoryRow) /\ Added(s, u) \in Seq(HistoryRow)
    BY <1>1, DraftType DEF TypeOK
  <1>4. CASE ~Drafted(s, u)
    <2>1. product'[u] = product[u] /\ history'[u] = history[u]
      BY <1>2, <1>3, <1>4 DEF TableRow, Added
    <2>2. u \in raced' => u \in raced
      BY <1>1, <1>2, <1>4 DEF StaleOk
    <2> QED BY <2>1, <2>2 DEF Ledger!Untouched
  <1>5. CASE Drafted(s, u)
    <2>1. /\ product'[u] = sync[s].drafts[u].row /\ product'[u] # Absent
          /\ product'[u].run = run
      BY <1>1, <1>2, <1>5, DraftType, RowKinds DEF TableRow, SyncOk, DraftOk
    <2>2. /\ Len(history[u]) <= Len(history'[u])
          /\ \A i \in 1..Len(history[u]) : history'[u][i] = history[u][i]
      BY <1>2, <1>3
    <2>3. ASSUME NEW i \in Ledger!Fresh(u) PROVE history'[u][i].run = run
      <3>1. PICK k \in 1..Len(Added(s, u)) : i = Len(history[u]) + k
        <4>1. i \in Len(history[u]) + 1 .. Len(history[u]) + Len(Added(s, u))
          BY <1>2, <1>3 DEF Ledger!Fresh
        <4>2. Len(history[u]) \in Nat /\ Len(Added(s, u)) \in Nat
          BY <1>3
        <4>3. /\ i - Len(history[u]) \in 1..Len(Added(s, u))
              /\ i = Len(history[u]) + (i - Len(history[u]))
          BY <4>1, <4>2
        <4> QED BY <4>3
      <3>2. history'[u][i] = Added(s, u)[k]
        BY <1>2, <1>3, <3>1, ConcatElements
      <3> QED BY <1>1, <3>1, <3>2 DEF Counted
    <2>4. ASSUME u \notin raced'
          PROVE  /\ product'[u].category = runs'[run].category
                 /\ Ledger!Told(history'[u], product'[u].price)
      <3>1. DraftOk(s, u) /\ u \notin raced \cup sync[s].stale
        BY <1>1, <1>2, <1>5, <2>4 DEF SyncOk
      <3>2. product'[u].category = sync[s].category
        BY <2>1, <3>1 DEF DraftOk
      <3>3. Tells(history'[u], product'[u].price)
        BY <1>2, <1>5, <2>1, <3>1 DEF DraftOk, Added
      <3>4. Len(history'[u]) \in Nat
        BY <1>2, <1>3
      <3> QED BY <3>2, <3>3, <3>4
              DEF Tells, PriceAt, Ledger!Told, Ledger!Before
    <2>5. u \in raced' \ raced => product[u] # Absent
      BY <1>1, <1>2 DEF StaleOk
    <2> QED BY <2>1, <2>2, <2>3, <2>4, <2>5 DEF Ledger!Written
  <1> QED BY <1>4, <1>5

\* The entries of a run are the rows of the history that name it.
LEMMA LedgerEntries ==
    ASSUME TypeOK, NEW s \in Syncs, Counted(s), NEW run, run = sync[s].run,
           HistoryOf(run) = {},
           \A u \in Urls : history'[u] = history[u] \o Added(s, u)
    PROVE  UNION {{u} \X Ledger!Fresh(u) : u \in Urls} = HistoryOf(run)'
  <1>1. ASSUME NEW u \in Urls
        PROVE  /\ \A k \in 1..Len(Added(s, u)) :
                     Len(history[u]) + k \in Ledger!Fresh(u)
               /\ \A i \in Ledger!Fresh(u) :
                     \E k \in 1..Len(Added(s, u)) : i = Len(history[u]) + k
    <2>1. history[u] \in Seq(HistoryRow) /\ Added(s, u) \in Seq(HistoryRow)
      BY DraftType DEF TypeOK
    <2>2. Ledger!Fresh(u) =
            Len(history[u]) + 1 .. Len(history[u]) + Len(Added(s, u))
      BY <2>1 DEF Ledger!Fresh
    <2>3. ASSUME NEW i \in Ledger!Fresh(u)
          PROVE  i - Len(history[u]) \in 1..Len(Added(s, u))
      BY <2>1, <2>2, <2>3
    <2>4. ASSUME NEW i \in Ledger!Fresh(u)
          PROVE  i = Len(history[u]) + (i - Len(history[u]))
      BY <2>1, <2>2, <2>4
    <2>5. \A k \in 1..Len(Added(s, u)) : Len(history[u]) + k \in Ledger!Fresh(u)
      BY <2>1, <2>2
    <2> QED BY <2>3, <2>4, <2>5
  <1>2. \A x : x \in UNION {{u} \X Ledger!Fresh(u) : u \in Urls} <=>
                 \E u \in Urls : \E i \in Ledger!Fresh(u) : x = <<u, i>>
    OBVIOUS
  <1>3. \A x : x \in HistoryOf(run)' <=>
                 \E u \in Urls : \E k \in 1..Len(Added(s, u)) :
                    x = <<u, Len(history[u]) + k>>
    BY CommittedRows
  <1> QED BY <1>1, <1>2, <1>3

\* The ledger counts with a FiniteSets of its own.
LEMMA SameCount == \A S : Ledger!Cardinality(S) = Cardinality(S)
  BY DEF Ledger!Cardinality, Cardinality

LEMMA LedgerEnter ==
    ASSUME IInv, IInv', StaleInv, CountInv, CountInv', NEW s \in Syncs, Between(s),
           NEW status, NEW changes, Publish(s, status, changes)
    PROVE  Ledger!Next
  <1>1. TypeOK /\ TypeOK' /\ sync[s] \in Working /\ sync[s] # Idle /\ RunOk(s)
    BY ThreadType DEF IInv, Between, SyncOk
  <1>2. PICK run \in Runs : run = sync[s].run
    BY <1>1 DEF Working
  <1> DEFINE new == [category |-> sync[s].category, status |-> status,
                     changes |-> changes]
  <1>3. new # NoRun /\ new.category = sync[s].category
    <2>1. DOMAIN new = {"category", "status", "changes"}
      OBVIOUS
    <2>2. DOMAIN NoRun = {"status"}
      BY DEF NoRun
    <2>3. new # NoRun
      BY <2>1, <2>2
    <2> QED BY <2>3
  <1> HIDE DEF new
  <1>4. runs' = [runs EXCEPT ![run] = new] /\ runs'[run] = new
    BY <1>1, <1>2 DEF Publish, TypeOK, new
  <1>5. runs[run] = NoRun /\ runs'[run] # NoRun
    BY <1>1, <1>2, <1>3, <1>4 DEF RunOk
  <1>6. \A u \in Urls : Ledger!Untouched(u) \/ Ledger!Written(u, run)
    BY <1>1, <1>2, <1>3, <1>4, LedgerWritten
  <1>7. runs'[run].status = "finished" =>
          runs'[run].changes =
            Cardinality(UNION {{u} \X Ledger!Fresh(u) : u \in Urls})
    <2>1. Counted(s) /\ HistoryOf(run) = {}
      BY <1>1, <1>5 DEF CountInv, CountersAgree
    <2>2. \A u \in Urls : history'[u] = history[u] \o Added(s, u)
      BY DEF Publish
    <2>3. UNION {{u} \X Ledger!Fresh(u) : u \in Urls} = HistoryOf(run)'
      BY <1>1, <1>2, <2>1, <2>2, LedgerEntries
    <2> QED BY <2>3 DEF CountInv, CountersAgree
  <1>8. /\ product' = [u \in Urls |-> product'[u]]
        /\ history' = [u \in Urls |-> history'[u]]
    BY <1>1 DEF TypeOK
  <1>9. raced \subseteq raced'
    BY DEF Publish
  <1>10. Ledger!Enter(run)
    BY <1>4, <1>5, <1>6, <1>7, <1>8, <1>9, SameCount DEF Ledger!Enter
  <1> QED BY <1>10 DEF Ledger!Next

LEMMA LedgerStep ==
    ASSUME IInv, IInv', StaleInv, CountInv, CountInv', [Next]_vars
    PROVE  [Ledger!Next]_LedgerVars
  <1>1. CASE UNCHANGED vars
    BY <1>1 DEF vars, LedgerVars
  <1>2. ASSUME NEW s \in Syncs, NEW c, SyncStart(s, c)
        PROVE  UNCHANGED LedgerVars
    BY <1>2 DEF SyncStart, LedgerVars
  <1>3. ASSUME NEW s \in Syncs, NEW u, NEW p, ItemLookup(s, u, p)
        PROVE  UNCHANGED LedgerVars
    BY <1>3 DEF ItemLookup, LedgerVars
  <1>4. ASSUME NEW s \in Syncs, ItemWrite(s)
        PROVE  UNCHANGED LedgerVars
    BY <1>4 DEF ItemWrite, LedgerVars
  <1>5. ASSUME NEW s \in Syncs, Discard(s)
        PROVE  UNCHANGED LedgerVars
    BY <1>5 DEF Discard, LedgerVars
  <1>6. ASSUME NEW s \in Syncs, SyncFinish(s) \/ SyncFail(s)
        PROVE  Ledger!Next \/ UNCHANGED LedgerVars
    BY <1>5, <1>6, LedgerEnter DEF SyncFinish, SyncFail
  <1>7. ASSUME NEW s \in Syncs, WriteFails(s) \/ SyncCrash(s)
        PROVE  UNCHANGED LedgerVars
    BY <1>5, <1>7 DEF WriteFails, SyncCrash
  <1> QED BY <1>1, <1>2, <1>3, <1>4, <1>6, <1>7 DEF Next, SyncStep

\* The synchronisations implement the ledger, for any catalogue and any number
\* of threads: what their sessions do before they commit, and whatever fails,
\* shows to nobody (sync_category_products, upsert_product, run_loop).
THEOREM SyncImplementsLedger == Spec => ImplementsPriceLedger
  <1>1. Init => Ledger!Init
    BY DEF Init, Ledger!Init
  <1>2. Init => StaleInv /\ CountInv
    BY CountInit DEF Init, StaleInv
  <1>3. IInv /\ StaleInv /\ CountInv /\ [Next]_vars => StaleInv' /\ CountInv'
    BY StaleStep, CountStep
  <1>4. IInv /\ IInv' /\ StaleInv /\ CountInv /\ CountInv' /\ [Next]_vars
          => [Ledger!Next]_<<product, history, runs, raced>>
    BY LedgerStep DEF LedgerVars
  <1> QED BY <1>1, <1>2, <1>3, <1>4, Invariance, PTL
          DEF Spec, ImplementsPriceLedger, Ledger!Spec
=============================================================================
