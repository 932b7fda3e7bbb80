---------------------------- MODULE ScrapeQueueMC ----------------------------
(***************************************************************************)
(* Instances of ScrapeQueue for TLC.                                       *)
(***************************************************************************)
EXTENDS ScrapeQueue, TLC

CONSTANTS j1, j2, w1, w2, q1, q2

OneJob == {j1}
TwoJobs == {j1, j2}
EqualPriority == [j \in Jobs |-> 0]
FirstJobPriority == [j \in Jobs |-> IF j = j1 THEN 1 ELSE 0]

WorkerSymmetry == Permutations(Workers)
=============================================================================
