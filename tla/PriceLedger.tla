----------------------------- MODULE PriceLedger -----------------------------
(***************************************************************************)
(* What the synchronisations of a store promise to whoever reads products, *)
(* price histories and run records, without sessions, locks or deadlocks:  *)
(* each run is entered once and as a whole, with its record, its products  *)
(* and its part of their histories, and touches nothing else.              *)
(***************************************************************************)
EXTENDS Naturals, FiniteSets, Sequences

CONSTANTS Urls, Runs, NoRow, NoPrice, NoRecord

VARIABLES
    row,        \* row[u]: the product, or NoRow
    history,    \* history[u]: its price changes, each with the run
    record,     \* record[r]: the record of run r, or NoRecord
    overtaken   \* products that a run wrote without having seen the last row

Init ==
    /\ row = [u \in Urls |-> NoRow]
    /\ history = [u \in Urls |-> <<>>]
    /\ record = [r \in Runs |-> NoRecord]
    /\ overtaken = {}

Before(h, i) == IF i = 1 THEN NoPrice ELSE h[i - 1].price

\* h tells how the price came to be what it is.
Told(h, price) ==
    /\ \A i \in 1..Len(h) : h[i].price # Before(h, i)
    /\ price = Before(h, Len(h) + 1)

Fresh(u) == Len(history[u]) + 1 .. Len(history'[u])

Untouched(u) ==
    /\ row'[u] = row[u]
    /\ history'[u] = history[u]
    /\ u \in overtaken' => u \in overtaken

\* Run r writes a product and goes on with its history.
Written(u, r) ==
    /\ row'[u] # NoRow /\ row'[u].run = r
    /\ Len(history[u]) <= Len(history'[u])
    /\ \A i \in 1..Len(history[u]) : history'[u][i] = history[u][i]
    /\ \A i \in Fresh(u) : history'[u][i].run = r
    /\ u \notin overtaken' =>
         /\ row'[u].category = record'[r].category
         /\ Told(history'[u], row'[u].price)
    /\ u \in overtaken' \ overtaken => row[u] # NoRow

Enter(r) ==
    /\ record[r] = NoRecord /\ record'[r] # NoRecord
    /\ record' = [record EXCEPT ![r] = record'[r]]
    /\ overtaken \subseteq overtaken'
    /\ \A u \in Urls : Untouched(u) \/ Written(u, r)
    /\ record'[r].status = "finished" =>
         record'[r].changes = Cardinality(UNION {{u} \X Fresh(u) : u \in Urls})
    /\ row' = [u \in Urls |-> row'[u]]
    /\ history' = [u \in Urls |-> history'[u]]

Next == \E r \in Runs : Enter(r)

Spec == Init /\ [][Next]_<<row, history, record, overtaken>>
=============================================================================
