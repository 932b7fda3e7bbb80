----------------------------- MODULE ProductSync -----------------------------
(***************************************************************************)
(* Synchronisation of products of one store.  A sync reads the offers of a *)
(* category from the shop and, in one transaction, enters or updates each  *)
(* product under its URL, records changed prices, and writes the record of *)
(* the run.  Requests of the web (which roll back on failure) and workers  *)
(* (which commit whatever the failed service left) do this concurrently.   *)
(*                                                                         *)
(* The database is PostgreSQL: a row that a transaction has written stays  *)
(* locked until its end, a look-up sees what is committed, a cycle of      *)
(* waiting transactions is broken by failing one.  On SQLite the record of *)
(* the run, written first, locks out every other sync.                     *)
(*                                                                         *)
(* The ORM writes the columns that differ from the row it has read.  It    *)
(* compares a price read (a Decimal) with the new one (a float), so equal  *)
(* prices without an exact binary form count as different: Inexact.        *)
(***************************************************************************)
EXTENDS Naturals, FiniteSets, Sequences

CONSTANTS
    Urls,         \* URLs of products
    Prices,       \* prices other than "no price"
    Inexact,      \* prices without an exact binary form
    NoPrice,
    Categories,
    Syncs,        \* web threads and workers
    Workers,      \* those of Syncs that are workers
    Scope,        \* the categories that each of Syncs is asked to synchronise
    MaxRuns,      \* bound on the number of runs
    MaxItems      \* bound on the number of offers of a category

ASSUME ConstantsAssumption ==
    /\ Inexact \subseteq Prices
    /\ NoPrice \notin Prices
    /\ Workers \subseteq Syncs
    /\ Scope \in [Syncs -> SUBSET Categories]
    /\ MaxRuns \in Nat /\ MaxItems \in Nat

VARIABLES
    product,    \* products: the committed row of each URL, or Absent
    history,    \* product_price_history: the committed rows of each product
    runs,       \* scrape_runs: the committed record of each run, or NoRun
    lastRun,    \* the id sequence of scrape_runs
    sync,       \* what each request or worker is doing
    raced       \* history: URLs written by a sync after an overtaken look-up

vars == <<product, history, runs, lastRun, sync, raced>>

Runs == 1..MaxRuns
Values == Prices \cup {NoPrice}

Row == [price: Values, category: Categories, run: Runs]
Absent == [run |-> 0]

HistoryRow == [price: Values, run: Runs]

\* What a transaction has written for a URL: the row and its history as the
\* database has them, and the object as the session has it.
Draft == [row: Row, object: Row, added: Seq(HistoryRow)]
NoDraft == [row |-> Absent]

RunRow == [category: Categories, status: {"finished", "failed"}, changes: Nat]
NoRun == [status |-> "none"]

\* An offer that has been looked up, with the row that was found.
Item == [url: Urls, price: Values, seen: Row \cup {Absent}, overtaken: BOOLEAN]
NoItem == [url |-> "none"]

Working ==
    [run: Runs, category: Categories,
     items: 0..MaxItems, changes: Nat, item: Item \cup {NoItem},
     drafts: [Urls -> Draft \cup {NoDraft}], stale: SUBSET Urls]
Idle == [run |-> 0]

-----------------------------------------------------------------------------
(* The database and the session of a sync *)

Drafted(s, u) == sync[s] # Idle /\ sync[s].drafts[u] # NoDraft

\* The row as the transaction of s sees it.
TableRow(s, u) == IF Drafted(s, u) THEN sync[s].drafts[u].row ELSE product[u]

\* What a look-up may return: the row, or the object of the same product that
\* the session may still hold and does not refresh.
Found(s, u) ==
    IF Drafted(s, u) THEN {sync[s].drafts[u].row, sync[s].drafts[u].object}
    ELSE {product[u]}

Added(s, u) == IF Drafted(s, u) THEN sync[s].drafts[u].added ELSE <<>>

\* s is between two offers, or about to write the offer it has looked up.
Between(s) == sync[s] # Idle /\ sync[s].item = NoItem
AtWrite(s) == sync[s] # Idle /\ sync[s].item # NoItem

\* s waits for t to end: t has written the row that s is about to write.
Waits(s, t) == s # t /\ AtWrite(s) /\ Drafted(t, sync[s].item.url)

\* s is one of a cycle of waiting transactions.
Deadlocked(s) ==
    \E D \in SUBSET Syncs :
        /\ s \in D
        /\ \A t \in D : (\E r \in D : Waits(t, r)) /\ (\E r \in D : Waits(r, t))

\* The price of a row that may be absent.
RowPrice(row) == IF row = Absent THEN NoPrice ELSE row.price

\* Mutant: a price that appears later is no change.
PriceChangedKnown(old, new) == old # NoPrice /\ old # new
PriceChanged(old, new) == old # new

-----------------------------------------------------------------------------
(* Actions *)

Init ==
    /\ product = [u \in Urls |-> Absent]
    /\ history = [u \in Urls |-> <<>>]
    /\ runs = [r \in Runs |-> NoRun]
    /\ lastRun = 0
    /\ sync = [s \in Syncs |-> Idle]
    /\ raced = {}

\* The record of the run is written, which takes an id for good.
SyncStart(s, c) ==
    /\ sync[s] = Idle
    /\ lastRun < MaxRuns
    /\ lastRun' = lastRun + 1
    /\ sync' = [sync EXCEPT ![s] =
           [run |-> lastRun + 1, category |-> c, items |-> 0, changes |-> 0,
            item |-> NoItem,
            drafts |-> [u \in Urls |-> NoDraft], stale |-> {}]]
    /\ UNCHANGED <<product, history, runs, raced>>

\* The next offer is looked up by its URL.
ItemLookup(s, u, p) ==
    /\ Between(s)
    /\ sync[s].items < MaxItems
    /\ \E row \in Found(s, u) :
           sync' = [sync EXCEPT
               ![s].items = @ + 1,
               ![s].item = [url |-> u, price |-> p, seen |-> row,
                            overtaken |-> FALSE]]
    /\ UNCHANGED <<product, history, runs, lastRun, raced>>

\* The columns that differ from the row that was read are written.
UpdatedRow(s) ==
    LET w == sync[s] o == w.item old == TableRow(s, o.url) IN
    [price |-> IF o.price \in Inexact \/ o.price # o.seen.price
               THEN o.price ELSE old.price,
     category |-> IF w.category # o.seen.category
                  THEN w.category ELSE old.category,
     run |-> w.run]

NewRow(s) ==
    [price |-> sync[s].item.price, category |-> sync[s].category,
     run |-> sync[s].run]

\* A product that is new counts as changed when it has a price.
Changes(s) == PriceChanged(RowPrice(sync[s].item.seen), sync[s].item.price)

NewDraft(s) ==
    LET w == sync[s] added == Added(s, w.item.url) IN
    [row |-> IF w.item.seen = Absent THEN NewRow(s) ELSE UpdatedRow(s),
     object |-> NewRow(s),
     added |-> IF Changes(s)
               THEN Append(added, [price |-> w.item.price, run |-> w.run])
               ELSE added]

\* upsert_product: the product is inserted or updated, a changed price enters
\* the history.
ItemWrite(s) ==
    LET o == sync[s].item IN
    /\ AtWrite(s)
    /\ \A t \in Syncs : ~Waits(s, t)
    /\ o.seen = Absent => TableRow(s, o.url) = Absent
    /\ sync' = [sync EXCEPT
           ![s].item = NoItem,
           ![s].drafts[o.url] = NewDraft(s),
           ![s].changes = IF Changes(s) THEN @ + 1 ELSE @,
           ![s].stale = IF o.overtaken THEN @ \cup {o.url} ELSE @]
    /\ UNCHANGED <<product, history, runs, lastRun, raced>>

\* Mutant: each statement has been committed by itself.
DiscardAutocommitted(s) ==
    /\ product' = [u \in Urls |-> TableRow(s, u)]
    /\ history' = [u \in Urls |-> history[u] \o Added(s, u)]
    /\ sync' = [sync EXCEPT ![s] = Idle]
    /\ UNCHANGED <<runs, lastRun, raced>>

\* The transaction of s ends and leaves nothing.
Discard(s) ==
    /\ sync' = [sync EXCEPT ![s] = Idle]
    /\ UNCHANGED <<product, history, runs, lastRun, raced>>

\* The transaction of s ends and leaves its rows and the record of its run.
Publish(s, status, changes) ==
    LET w == sync[s] IN
    /\ product' = [u \in Urls |-> TableRow(s, u)]
    /\ history' = [u \in Urls |-> history[u] \o Added(s, u)]
    /\ runs' = [runs EXCEPT ![w.run] =
           [category |-> w.category, status |-> status, changes |-> changes]]
    /\ raced' = raced \cup w.stale
    /\ sync' = [t \in Syncs |->
           IF t = s THEN Idle
           ELSE IF Waits(t, s) THEN [sync[t] EXCEPT !.item.overtaken = TRUE]
           ELSE sync[t]]
    /\ UNCHANGED lastRun

\* Mutant: the counter of price changes is left out.
SyncFinishUncounted(s) ==
    /\ Between(s)
    /\ Publish(s, "finished", 0)

\* All offers are processed: counters, status and commit.
SyncFinish(s) ==
    /\ Between(s)
    /\ Publish(s, "finished", sync[s].changes)

\* The shop, or an offer, raises an exception.  The service marks the run as
\* failed and raises it again.  The route rolls back; the runner turns the
\* exception into an outcome, which the worker commits.
SyncFail(s) ==
    /\ Between(s)
    /\ IF s \in Workers THEN Publish(s, "failed", 0) ELSE Discard(s)

\* Mutant: an insert of a URL that is there by now is tried for ever.
WriteFailsDeadlocked(s) == AtWrite(s) /\ Deadlocked(s) /\ Discard(s)

\* The database refuses the write: the URL has been entered meanwhile, or the
\* transaction is the victim of a deadlock.  Nothing can be written any more,
\* and route and worker loop roll back.
WriteFails(s) ==
    /\ AtWrite(s)
    /\ \/ Deadlocked(s)
       \/ /\ \A t \in Syncs : ~Waits(s, t)
          /\ sync[s].item.seen = Absent
          /\ TableRow(s, sync[s].item.url) # Absent
    /\ Discard(s)

\* The process dies, or its connection breaks.
SyncCrash(s) ==
    /\ sync[s] # Idle
    /\ Discard(s)

SyncStep(s) ==
    \/ \E u \in Urls, p \in Values : ItemLookup(s, u, p)
    \/ ItemWrite(s)
    \/ SyncFinish(s)
    \/ SyncFail(s)
    \/ WriteFails(s)

Next ==
    \E s \in Syncs :
        \/ \E c \in Scope[s] : SyncStart(s, c)
        \/ SyncStep(s)
        \/ SyncCrash(s)

Spec == Init /\ [][Next]_vars

\* The list of offers is finite and the database serves who waits for a row.
FairSpec == Spec /\ \A s \in Syncs : WF_vars(SyncStep(s))

-----------------------------------------------------------------------------
(* Properties *)

\* Every variable has its type.
TypeOK ==
    /\ product \in [Urls -> Row \cup {Absent}]
    /\ history \in [Urls -> Seq(HistoryRow)]
    /\ runs \in [Runs -> RunRow \cup {NoRun}]
    /\ lastRun \in 0..MaxRuns
    /\ sync \in [Syncs -> {Idle} \cup Working]
    /\ raced \subseteq Urls

\* A history that tells every change of a price, from no price to this one.
PriceAt(h, i) == IF i = 0 THEN NoPrice ELSE h[i].price

Tells(h, price) ==
    /\ \A i \in 1..Len(h) : PriceAt(h, i) # PriceAt(h, i - 1)
    /\ price = PriceAt(h, Len(h))

\* The history of a product records each change of its price once and ends with
\* the current one, failed runs and crashes included, unless a sync wrote it
\* with a row that another sync had replaced since it was read.
HistoryFaithful == \A u \in Urls \ raced : Tells(history[u], RowPrice(product[u]))

\* A product names a recorded run and, unless syncs raced, is in the category
\* of that run: a row is never a mixture of two syncs.
RowWhole ==
    \A u \in Urls : product[u] # Absent =>
        /\ runs[product[u].run] # NoRun
        /\ u \notin raced => product[u].category = runs[product[u].run].category

\* The counter of price changes of a finished run is the number of rows of the
\* history that name it.
HistoryOf(r) ==
    UNION {{u} \X {i \in 1..Len(history[u]) : history[u][i].run = r} : u \in Urls}

CountersAgree ==
    \A r \in Runs :
        /\ runs[r].status = "finished" => runs[r].changes = Cardinality(HistoryOf(r))
        /\ runs[r] = NoRun => HistoryOf(r) = {}

\* A sync that has begun ends, though syncs wait for each other's rows.
SyncEnds == \A s \in Syncs : sync[s] # Idle ~> sync[s] = Idle

\* docs/domain/state_models.md and docs/operations/sync_lifecycle.md: the
\* failure of a sync is in the run history.
FailureRecorded ==
    [][\A s \in Syncs : SyncFail(s) => runs'[sync[s].run].status = "failed"]_vars

-----------------------------------------------------------------------------
(* What a reader may rely on, see PriceLedger. *)

Ledger == INSTANCE PriceLedger WITH row <- product, record <- runs,
              overtaken <- raced, NoRow <- Absent, NoRecord <- NoRun

\* To a reader the syncs of web threads and workers, with their deadlocks, lost
\* connections and half-failed runs, are whole runs entered one after another:
\* no product, history row or record shows without the others, none of another
\* run is touched, and no history is ever rewritten.
ImplementsPriceLedger == Ledger!Spec
=============================================================================
