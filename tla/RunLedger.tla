------------------------------ MODULE RunLedger ------------------------------
(***************************************************************************)
(* What the scrape queue promises to whoever reads scrape_runs, without    *)
(* transactions, ticks, clocks or locks: a set of runs is entered at once, *)
(* each run is completed at most once and keeps its outcome, and a retry   *)
(* names a failed run that no other retry names.                           *)
(***************************************************************************)
EXTENDS Integers

CONSTANTS Runs, Outcomes

VARIABLES
    state,    \* state[r]: "absent", "queued" or an outcome
    source    \* source[r]: the failed run that r retries, 0 for none

Init ==
    /\ state = [r \in Runs |-> "absent"]
    /\ source = [r \in Runs |-> 0]

Enter(S) ==
    /\ \A r \in S : state[r] = "absent"
    /\ state' = [r \in Runs |-> IF r \in S THEN "queued" ELSE state[r]]
    /\ \A r \in Runs \ S : source'[r] = source[r]
    /\ source' = [r \in Runs |-> source'[r]]
    /\ \A r \in S : source'[r] # 0 =>
         /\ source'[r] \in Runs
         /\ state[source'[r]] = "failed"
         /\ \A k \in Runs \ {r} : source'[k] # source'[r]

Complete(r) ==
    /\ state[r] = "queued"
    /\ \E outcome \in Outcomes : state' = [state EXCEPT ![r] = outcome]
    /\ UNCHANGED source

Next == (\E S \in SUBSET Runs : Enter(S)) \/ (\E r \in Runs : Complete(r))

Spec == Init /\ [][Next]_<<state, source>>
=============================================================================
