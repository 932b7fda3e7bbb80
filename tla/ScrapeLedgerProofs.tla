------------------------- MODULE ScrapeLedgerProofs -------------------------
(***************************************************************************)
(* Where a claim excludes every other - on PostgreSQL with any number of   *)
(* workers, on SQLite with one - no run is executed twice at a time or      *)
(* completed twice, every retry has the lineage it claims and starts no     *)
(* earlier than its backoff allows, an outcome is final, and what the       *)
(* database shows to its readers is a behaviour of RunLedger.  The          *)
(* inductive invariant joins what the workers hold (ClaimInv) with what the *)
(* session of the tick relies on (SessionInv), because a retry candidate    *)
(* stays a candidate only if no worker can touch a run that has an outcome.*)
(*                                                                         *)
(* The last section does without that condition: executions are exclusive  *)
(* on SQLite with several workers, too.                                    *)
(***************************************************************************)
EXTENDS ScrapeQueueProofs

\* Where a claim excludes every other: PostgreSQL skips locked rows, and on
\* SQLite, whose plain SELECT locks nothing, there is one worker.
SoleClaimant == Backend = "postgresql" \/ \A v, w \in Workers : v = w

\* What a worker has selected is still queued when it flushes its UPDATE,
\* which does not look at the status again.
ClaimInv ==
    /\ ClaimExclusive
    /\ \A w \in Workers : worker[w].pc = "selected" =>
         /\ Backend = "sqlite"
         /\ Visible(worker[w].run) /\ runs[worker[w].run].status = "queued"

LineageInv == SessionInv /\ RetryLineage /\ SingleRetryChild

IInv == TypeInv /\ ClaimInv /\ LineageInv

-----------------------------------------------------------------------------
(* Claims.                                                                  *)

\* Any step that leaves the claimed rows queued and visible and the workers
\* alone keeps the claims.
LEMMA ClaimFrame ==
    ASSUME TypeInv, ClaimInv, UNCHANGED worker,
           \A r \in RunIds : Visible(r) /\ runs[r].status = "queued" =>
             Visible(r)' /\ runs'[r].status = "queued"
    PROVE  ClaimInv'
    BY DEF TypeInv, TypeOK, ClaimInv, ClaimExclusive, Executing

\* A step that only adds rows keeps what every committed row says.
LEMMA InsertKeepsVisible ==
    ASSUME TypeInv, NEW r \in RunIds, IsNextId(r), NEW row,
           runs' = [runs EXCEPT ![r] = row],
           tick'.inserted \subseteq tick.inserted \cup {r}
    PROVE  \A s \in RunIds : Visible(s) => Visible(s)' /\ runs'[s] = runs[s]
  <1>1. ~Present(r)
    BY NextIdFresh
  <1> QED BY <1>1 DEF TypeInv, TypeOK, Visible, Present

LEMMA AdminClaim ==
    ASSUME TypeInv, ClaimInv, ClockTick \/ Admin
    PROVE  ClaimInv'
  <1>1. CASE ClockTick
    BY <1>1, ClaimFrame DEF ClockTick, Visible, Present
  <1>2. ASSUME NEW j \in Jobs, CreateJob(j) \/ PatchJob(j) \/ PutSchedule(j)
        PROVE  ClaimInv'
    <2>1. UNCHANGED <<runs, tick, worker>>
      BY <1>2 DEF CreateJob, PatchJob, PutSchedule
    <2> QED BY <2>1, ClaimFrame DEF Visible, Present
  <1>3. ASSUME NEW q \in Requests,
               (\E j \in Jobs : ManualCheck(q, j)) \/ ManualFail(q)
        PROVE  ClaimInv'
    <2>1. UNCHANGED <<runs, tick, worker>>
      BY <1>3 DEF ManualCheck, ManualFail
    <2> QED BY <2>1, ClaimFrame DEF Visible, Present
  <1>4. ASSUME NEW q \in Requests, ManualEnqueue(q)
        PROVE  ClaimInv'
    <2>1. PICK j \in request[q], r \in RunIds :
            /\ IsNextId(r)
            /\ runs' = [runs EXCEPT ![r] = QueuedRow(j, "manual", 1, NoRun)]
      BY <1>4 DEF ManualEnqueue
    <2>2. UNCHANGED <<tick, worker>>
      BY <1>4 DEF ManualEnqueue
    <2>3. \A s \in RunIds : Visible(s) => Visible(s)' /\ runs'[s] = runs[s]
      BY <2>1, <2>2, InsertKeepsVisible
    <2> QED BY <2>2, <2>3, ClaimFrame
  <1> QED BY <1>1, <1>2, <1>3, <1>4 DEF Admin

LEMMA TickClaim ==
    ASSUME TypeInv, ClaimInv, TickStep \/ TickCrash
    PROVE  ClaimInv'
  <1> USE DEF TypeInv
  <1>1. CASE TickStart
    <2>1. PICK due \in SUBSET DueJobs(clock) :
            tick' = [IdleTick EXCEPT !.pc = "jobs", !.now = clock, !.due = due,
                                     !.seen = [j \in due |-> jobs[j]]]
      BY <1>1 DEF TickStart
    <2>2. tick'.inserted = {}
      BY <2>1 DEF IdleTick
    <2> QED BY <1>1, <2>2, ClaimFrame DEF TickStart, Visible, Present
  <1>2. CASE TickListRetries
    <2>1. tick'.inserted = tick.inserted
      BY <1>2 DEF TickListRetries, TypeOK, TickSession
    <2> QED BY <1>2, <2>1, ClaimFrame DEF TickListRetries, Visible, Present
  <1>3. CASE TickCommit
    <2>1. \A r \in RunIds : runs'[r].status = runs[r].status
      <3> SUFFICES ASSUME NEW r \in RunIds
                   PROVE  runs'[r].status = runs[r].status
        OBVIOUS
      <3>1. runs[r] \in RunRow
        BY DEF TypeOK
      <3>2. PICK p \in BOOLEAN, e \in BOOLEAN :
              runs'[r] = [runs[r] EXCEPT !.retryProcessed = p,
                                         !.retryExhausted = e]
        BY <1>3, Zenon DEF TickCommit
      <3> QED BY <3>1, <3>2 DEF RunRow
    <2>2. tick'.inserted = {} /\ UNCHANGED worker
      BY <1>3, IdleTickTyped DEF TickCommit
    <2> QED BY <2>1, <2>2, ClaimFrame DEF Visible, Present
  <1>4. CASE TickCrash \/ TickLockTimeout
    <2>1. TickRollback
      BY <1>4 DEF TickCrash, TickLockTimeout
    <2>2. tick'.inserted = {} /\ UNCHANGED worker
      BY <2>1, IdleTickTyped DEF TickRollback
    <2>3. \A r \in RunIds : Visible(r) => runs'[r] = runs[r]
      BY <2>1 DEF TickRollback, Visible
    <2> QED BY <2>2, <2>3, ClaimFrame DEF Visible, Present
  <1>5. ASSUME NEW j \in Jobs, TickJob(j)
        PROVE  ClaimInv'
    <2>1. UNCHANGED worker
      BY <1>5 DEF TickJob
    <2>2. CASE TickSkipOverlap(j) \/ TickSkipUnscheduled(j)
      <3>1. UNCHANGED runs /\ tick'.inserted = tick.inserted
        BY <2>2 DEF TickSkipOverlap, TickSkipUnscheduled, TypeOK, TickSession
      <3> QED BY <2>1, <3>1, ClaimFrame DEF Visible, Present
    <2>3. CASE TickEnqueue(j)
      <3>1. PICK r \in RunIds, jitter \in 0..Jitter :
              /\ IsNextId(r)
              /\ runs' = [runs EXCEPT ![r] = QueuedRow(j, "scheduled", 1, NoRun)]
              /\ \/ tick' = [tick EXCEPT
                      !.due = @ \ {j}, !.inserted = @ \cup {r},
                      !.dirty = @ \cup {j},
                      !.seen[j].nextRunAt = AdvanceNextRun(@, tick.now, jitter)]
                 \/ tick' = [tick EXCEPT !.due = @ \ {j},
                                         !.inserted = @ \cup {r}]
        BY <2>3 DEF TickEnqueue
      <3>2. tick'.inserted = tick.inserted \cup {r}
        BY <3>1 DEF TypeOK, TickSession
      <3>3. \A s \in RunIds : Visible(s) => Visible(s)' /\ runs'[s] = runs[s]
        BY <3>1, <3>2, InsertKeepsVisible
      <3> QED BY <2>1, <3>3, ClaimFrame
    <2> QED BY <1>5, <2>2, <2>3 DEF TickJob
  <1>6. ASSUME NEW r \in RunIds, TickRetry(r)
        PROVE  ClaimInv'
    <2>1. UNCHANGED worker
      BY <1>6 DEF TickRetry
    <2>2. CASE RetryDisabled(r) \/ RetryExhaust(r) \/ RetryLater(r)
      <3>1. UNCHANGED runs /\ tick'.inserted = tick.inserted
        BY <2>2 DEF RetryDisabled, RetryExhaust, RetryLater, TypeOK, TickSession
      <3> QED BY <2>1, <3>1, ClaimFrame DEF Visible, Present
    <2>3. CASE RetryEnqueue(r)
      <3>1. PICK c \in RunIds :
              /\ IsNextId(c)
              /\ runs' = [runs EXCEPT ![c] =
                   QueuedRow(runs[r].job, "retry", runs[r].attempt + 1, r)]
              /\ tick' = [tick EXCEPT !.cands = @ \ {r},
                                      !.processed = @ \cup {r},
                                      !.inserted = @ \cup {c}]
        BY <2>3 DEF RetryEnqueue
      <3>2. tick'.inserted = tick.inserted \cup {c}
        BY <3>1 DEF TypeOK, TickSession
      <3>3. \A s \in RunIds : Visible(s) => Visible(s)' /\ runs'[s] = runs[s]
        BY <3>1, <3>2, InsertKeepsVisible
      <3> QED BY <2>1, <3>3, ClaimFrame
    <2> QED BY <1>6, <2>2, <2>3 DEF TickRetry
  <1> QED BY <1>1, <1>2, <1>3, <1>4, <1>5, <1>6 DEF TickStep

LEMMA WorkerClaimInv ==
    ASSUME SoleClaimant, TypeInv, ClaimInv,
           NEW w \in Workers, WorkerStep(w) \/ WorkerCrash(w)
    PROVE  ClaimInv'
  <1> USE DEF TypeInv
  <1>1. ASSUME WorkerClaim(w)
        PROVE  ClaimInv'
    <2>1. PICK r \in RunIds :
            /\ Visible(r) /\ runs[r].status = "queued" /\ r \notin LockedRuns
            /\ worker' = [worker EXCEPT ![w] = [pc |-> "executing", run |-> r]]
      BY <1>1 DEF WorkerClaim, ClaimOldest, OldestOf
    <2>2. \A v \in Workers : Executing(v) => worker[v].run # r
      BY <2>1 DEF LockedRuns
    <2>3. UNCHANGED <<runs, tick>>
      BY <1>1 DEF WorkerClaim, ClaimOldest
    <2>4. /\ worker'[w] = [pc |-> "executing", run |-> r]
          /\ \A v \in Workers \ {w} : worker'[v] = worker[v]
      BY <2>1 DEF TypeOK
    <2> QED BY <2>1, <2>2, <2>3, <2>4
            DEF ClaimInv, ClaimExclusive, Executing, Visible, Present
  <1>2. ASSUME WorkerSelect(w)
        PROVE  ClaimInv'
    <2>1. PICK r \in RunIds :
            /\ Visible(r) /\ runs[r].status = "queued"
            /\ worker' = [worker EXCEPT ![w] = [pc |-> "selected", run |-> r]]
      BY <1>2 DEF WorkerSelect, SelectOldest, OldestOf
    <2>2. Backend = "sqlite" /\ UNCHANGED <<runs, tick>>
      BY <1>2 DEF WorkerSelect, SelectOldest
    <2>3. /\ worker'[w] = [pc |-> "selected", run |-> r]
          /\ \A v \in Workers \ {w} : worker'[v] = worker[v]
      BY <2>1 DEF TypeOK
    <2> QED BY <2>1, <2>2, <2>3
            DEF ClaimInv, ClaimExclusive, Executing, Visible, Present
  <1>3. ASSUME WorkerFlush(w)
        PROVE  ClaimInv'
    <2>1. \A v \in Workers : v = w
      BY <1>3 DEF WorkerFlush, ClaimInv, SoleClaimant
    <2>2. /\ worker'[w] = [worker[w] EXCEPT !.pc = "executing"]
          /\ UNCHANGED <<runs, tick>>
      BY <1>3 DEF WorkerFlush, TypeOK
    <2>3. worker'[w].pc = "executing" /\ worker'[w].run = worker[w].run
      BY <2>2 DEF TypeOK
    <2>4. Visible(worker[w].run) /\ runs[worker[w].run].status = "queued"
      BY <1>3 DEF WorkerFlush, ClaimInv
    <2> QED BY <2>1, <2>2, <2>3, <2>4
            DEF ClaimInv, ClaimExclusive, Executing, Visible, Present
  <1>4. ASSUME WorkerRollback(w) \/ WorkerLockTimeout(w)
        PROVE  ClaimInv'
    <2>1. /\ worker'[w].pc = "idle"
          /\ \A v \in Workers \ {w} : worker'[v] = worker[v]
          /\ UNCHANGED <<runs, tick>>
      BY <1>4 DEF WorkerRollback, WorkerLockTimeout, IdleWorker, TypeOK
    <2> QED BY <2>1 DEF ClaimInv, ClaimExclusive, Executing, Visible, Present
  <1>5. ASSUME WorkerFinish(w)
        PROVE  ClaimInv'
    <2>1. /\ worker'[w].pc = "idle"
          /\ \A v \in Workers \ {w} : worker'[v] = worker[v]
          /\ UNCHANGED tick
          /\ \A s \in RunIds \ {worker[w].run} : runs'[s] = runs[s]
      BY <1>5 DEF WorkerFinish, IdleWorker, TypeOK
    <2>2. \A v \in Workers \ {w} :
             Executing(v) \/ worker[v].pc = "selected"
               => worker[v].run # worker[w].run
      BY <1>5, ConstantsAssumption
         DEF WorkerFinish, ClaimInv, ClaimExclusive, SoleClaimant
    <2> QED BY <2>1, <2>2
            DEF ClaimInv, ClaimExclusive, Executing, Visible, Present, TypeOK
  <1> QED BY <1>1, <1>2, <1>3, <1>4, <1>5
          DEF WorkerStep, WorkerPoisoned, WorkerCrash

-----------------------------------------------------------------------------
(* Lineage: one lemma per way in which rows and the session change.         *)

\* What the lemmas below use of the type invariant.
LEMMA SessionTyped ==
    ASSUME TypeInv
    PROVE  /\ NoRun \notin RunIds
           /\ \A c \in RunIds : runs[c].retryOf \in RunIds \cup {NoRun}
           /\ tick.cands \subseteq RunIds /\ tick.inserted \subseteq RunIds
           /\ tick.processed \subseteq RunIds
           /\ tick.exhausted \subseteq RunIds
    BY DEF TypeInv, TypeOK, TickSession, RunRow, NoRun, RunIds

\* A child stays one as long as neither row changes and the source stays
\* visible: a child is not made visible by any step but the commit.
LEMMA ChildKept ==
    ASSUME LineageInv, NEW c \in RunIds, Present(c), NEW s \in RunIds,
           runs[c].retryOf = s,
           runs'[c] = runs[c], Visible(c)' => Visible(c),
           \A k \in RunIds : Visible(k) /\ runs[k].status = "failed" =>
                               Visible(k)' /\ runs'[k] = runs[k]
    PROVE  IsRetryOf(c, s)'
  <1>1. IsRetryOf(c, s)
    BY DEF LineageInv, RetryLineage
  <1>2. Visible(s)' /\ runs'[s] = runs[s]
    BY <1>1 DEF IsRetryOf
  <1> QED BY <1>1, <1>2 DEF IsRetryOf

LEMMA LineageFrame ==
    ASSUME LineageInv, UNCHANGED <<runs, tick>>
    PROVE  LineageInv'
    BY DEF LineageInv, SessionInv, RetryLineage, SingleRetryChild, IsRetryOf,
           Visible, Present

\* A step of the session that inserts and changes no row.
LEMMA LineageSession ==
    ASSUME LineageInv, UNCHANGED runs, tick'.inserted = tick.inserted,
           SessionInv'
    PROVE  LineageInv'
  <1>1. \A r \in RunIds : (Present(r)' <=> Present(r))
                          /\ (Visible(r)' <=> Visible(r))
    BY DEF Visible, Present
  <1>2. RetryLineage'
    <2> SUFFICES ASSUME NEW c \in RunIds, NEW s \in RunIds, Present(c)',
                        runs'[c].retryOf = s
                 PROVE  IsRetryOf(c, s)'
      BY DEF RetryLineage
    <2>1. IsRetryOf(c, s)
      BY <1>1 DEF LineageInv, RetryLineage
    <2> QED BY <2>1 DEF IsRetryOf, Visible, Present
  <1>3. SingleRetryChild'
    BY <1>1 DEF LineageInv, SingleRetryChild
  <1> QED BY <1>2, <1>3 DEF LineageInv

\* An initial run, manual or scheduled, has no source.
LEMMA LineageInsert ==
    ASSUME TypeInv, LineageInv, NEW r, IsNextId(r),
           NEW j \in Jobs, NEW trigger \in {"scheduled", "manual"},
           runs' = [runs EXCEPT ![r] = QueuedRow(j, trigger, 1, NoRun)],
           tick'.pc = tick.pc, tick'.cands = tick.cands,
           tick'.processed = tick.processed, tick'.exhausted = tick.exhausted,
           \/ tick'.inserted = tick.inserted
           \/ tick.pc # "idle" /\ tick'.inserted = tick.inserted \cup {r}
    PROVE  LineageInv'
  <1> DEFINE row == QueuedRow(j, trigger, 1, NoRun)
  <1>1. /\ r \in RunIds /\ ~Present(r)
        /\ \A s \in RunIds : Present(s) => s < r
    BY NextIdFresh
  <1>2. row.retryOf = NoRun /\ row.status = "queued"
    BY DEF QueuedRow
  <1> HIDE DEF row
  <1>3. /\ \A s \in RunIds \ {r} : runs'[s] = runs[s]
        /\ runs'[r] = row
    BY <1>1 DEF TypeInv, TypeOK, row
  <1>4. \A s \in RunIds : Present(s)' /\ runs'[s].retryOf # NoRun =>
           s # r /\ Present(s) /\ runs'[s] = runs[s]
    BY <1>2, <1>3 DEF Present
  <1>5. \A s \in RunIds : Visible(s) => Visible(s)' /\ runs'[s] = runs[s]
    BY <1>1, <1>3 DEF Visible, Present
  <1>6. \A s \in RunIds : s # r /\ Visible(s)' => Visible(s)
    BY <1>3 DEF Visible, Present
  <1>8. SessionInv'
    <2>1. \A s \in tick.cands \cup tick.exhausted, c \in RunIds :
             Present(c)' => runs'[c].retryOf # s
      BY <1>4, SessionTyped DEF LineageInv, SessionInv
    <2>2. \A c \in tick'.inserted :
             runs'[c].retryOf # NoRun => runs'[c].retryOf \in tick.processed
      <3> SUFFICES ASSUME NEW c \in tick'.inserted, runs'[c].retryOf # NoRun
                   PROVE  runs'[c].retryOf \in tick.processed
        OBVIOUS
      <3>1. c # r
        BY <1>2, <1>3
      <3>2. c \in tick.inserted /\ runs'[c] = runs[c]
        BY <3>1, <1>3, SessionTyped
      <3> QED BY <3>2 DEF LineageInv, SessionInv
    <2>3. \A s \in tick.cands : Visible(s)' /\ runs'[s] = runs[s]
      BY <1>5, SessionTyped DEF LineageInv, SessionInv
    <2> QED BY <2>1, <2>2, <2>3 DEF LineageInv, SessionInv
  <1>9. RetryLineage'
    <2> SUFFICES ASSUME NEW c \in RunIds, NEW s \in RunIds, Present(c)',
                        runs'[c].retryOf = s
                 PROVE  IsRetryOf(c, s)'
      BY DEF RetryLineage
    <2>1. Present(c) /\ runs'[c] = runs[c] /\ c # r
      BY <1>4, SessionTyped
    <2> QED BY <1>5, <1>6, <2>1, ChildKept
  <1>10. SingleRetryChild'
    BY <1>4 DEF LineageInv, SingleRetryChild
  <1> QED BY <1>8, <1>9, <1>10 DEF LineageInv

\* A retry: its source is a candidate, so nobody has retried it.
LEMMA LineageRetry ==
    ASSUME TypeInv, LineageInv, NEW r \in RunIds, TickRetry(r), RetryEnqueue(r)
    PROVE  LineageInv'
  <1>1. PICK c \in RunIds :
          /\ IsNextId(c)
          /\ runs' = [runs EXCEPT ![c] =
               QueuedRow(runs[r].job, "retry", runs[r].attempt + 1, r)]
          /\ tick' = [tick EXCEPT !.cands = @ \ {r}, !.processed = @ \cup {r},
                                  !.inserted = @ \cup {c}]
    BY DEF RetryEnqueue
  <1>2. /\ ~Present(c) /\ \A s \in RunIds : Present(s) => s < c
    BY <1>1, NextIdFresh
  <1>3. /\ tick'.pc = tick.pc /\ tick.pc = "retries"
        /\ tick'.cands = tick.cands \ {r}
        /\ tick'.processed = tick.processed \cup {r}
        /\ tick'.inserted = tick.inserted \cup {c}
        /\ tick'.exhausted = tick.exhausted
        /\ r \in tick.cands
    BY <1>1 DEF TickRetry, TypeInv, TypeOK, TickSession
  <1> DEFINE row == QueuedRow(runs[r].job, "retry", runs[r].attempt + 1, r)
  <1>4. /\ row.retryOf = r /\ row.status = "queued" /\ row.job = runs[r].job
        /\ row.attempt = runs[r].attempt + 1
    BY DEF QueuedRow
  <1>5. runs'[c] = row /\ \A s \in RunIds \ {c} : runs'[s] = runs[s]
    BY <1>1 DEF TypeInv, TypeOK
  <1> HIDE DEF row
  <1>6. /\ Visible(r) /\ runs[r].status = "failed" /\ runs[r].retryable
        /\ ~runs[r].retryExhausted /\ r \notin tick.processed
        /\ \A s \in RunIds : Present(s) => runs[s].retryOf # r
    BY <1>3 DEF LineageInv, SessionInv
  <1>7. r # c /\ r < c
    BY <1>2, <1>6 DEF Visible
  <1>8. \A s \in RunIds : s # c /\ Present(s)' => Present(s) /\ runs'[s] = runs[s]
    BY <1>5 DEF Present
  <1>9. \A s \in RunIds : Visible(s) => Visible(s)' /\ runs'[s] = runs[s]
    BY <1>2, <1>3, <1>5 DEF Visible, Present
  <1>10. \A s \in RunIds : Visible(s)' => s # c /\ Visible(s)
    BY <1>3, <1>5 DEF Visible, Present
  <1>12. SessionInv'
    <2>1. \A s \in tick'.cands : Visible(s)' /\ runs'[s] = runs[s]
                                 /\ s \notin tick'.processed
      BY <1>3, <1>9, SessionTyped DEF LineageInv, SessionInv
    <2>2. r \notin tick.exhausted
      BY <1>6 DEF LineageInv, SessionInv
    <2>3. \A s \in tick'.cands \cup tick'.exhausted, k \in RunIds :
             Present(k)' => runs'[k].retryOf # s
      BY <1>3, <1>4, <1>5, <1>8, <2>2 DEF LineageInv, SessionInv
    <2>4. \A k \in tick'.inserted : runs'[k].retryOf # NoRun =>
             runs'[k].retryOf \in tick'.processed
      BY <1>3, <1>4, <1>5, SessionTyped DEF LineageInv, SessionInv
    <2>5. tick'.exhausted \subseteq tick'.processed
      BY <1>3 DEF LineageInv, SessionInv
    <2>6. \A s \in tick'.cands :
             /\ runs[s].status = "failed" /\ runs[s].retryable
             /\ ~runs[s].retryProcessed /\ ~runs[s].retryExhausted
      BY <1>3 DEF LineageInv, SessionInv
    <2> QED BY <1>3, <2>1, <2>3, <2>4, <2>5, <2>6 DEF SessionInv
  <1>13. RetryLineage'
    <2> SUFFICES ASSUME NEW k \in RunIds, NEW s \in RunIds, Present(k)',
                        runs'[k].retryOf = s
                 PROVE  IsRetryOf(k, s)'
      BY DEF RetryLineage
    <2>1. CASE k = c
      <3>1. ~Visible(c)'
        BY <1>3 DEF Visible
      <3>2. Visible(r)' /\ runs'[r] = runs[r]
        BY <1>6, <1>9
      <3>3. IsRetryOf(c, r)'
        BY <3>1, <3>2, <1>4, <1>5, <1>6, <1>7 DEF IsRetryOf
      <3> QED BY <2>1, <3>3, <1>4, <1>5
    <2>2. CASE k # c
      <3>1. Present(k) /\ runs'[k] = runs[k]
        BY <2>2, <1>8
      <3> QED BY <1>9, <1>10, <3>1, ChildKept
    <2> QED BY <2>1, <2>2
  <1>14. SingleRetryChild'
    BY <1>4, <1>5, <1>6, <1>8 DEF LineageInv, SingleRetryChild
  <1> QED BY <1>12, <1>13, <1>14 DEF LineageInv

\* The steps of the tick that read, mark and skip.
LEMMA LineageBookkeeping ==
    ASSUME TypeInv, LineageInv,
           \/ TickStart
           \/ TickListRetries
           \/ \E j \in Jobs : TickJob(j) /\ (TickSkipOverlap(j)
                                             \/ TickSkipUnscheduled(j))
           \/ \E r \in RunIds : TickRetry(r) /\ (\/ RetryDisabled(r)
                                                 \/ RetryExhaust(r)
                                                 \/ RetryLater(r))
    PROVE  LineageInv'
  <1>1. CASE TickStart
    <2>1. PICK due \in SUBSET DueJobs(clock) :
            tick' = [IdleTick EXCEPT !.pc = "jobs", !.now = clock, !.due = due,
                                     !.seen = [j \in due |-> jobs[j]]]
      BY <1>1 DEF TickStart
    <2>2. /\ tick'.pc = "jobs" /\ tick'.cands = {} /\ tick'.inserted = {}
          /\ tick'.processed = {} /\ tick'.exhausted = {}
      BY <2>1 DEF IdleTick
    <2>3. tick.inserted = {} /\ UNCHANGED runs
      BY <1>1 DEF TickStart, LineageInv, SessionInv
    <2>4. SessionInv'
      BY <2>2 DEF SessionInv
    <2> QED BY <2>2, <2>3, <2>4, LineageSession
  <1>2. CASE TickListRetries
    <2>1. PICK cands \in SUBSET RetryCandidates :
            tick' = [tick EXCEPT !.pc = "retries", !.cands = cands]
      BY <1>2 DEF TickListRetries
    <2>2. /\ tick'.pc = "retries" /\ tick'.cands = cands
          /\ tick'.inserted = tick.inserted
          /\ tick'.processed = tick.processed
          /\ tick'.exhausted = tick.exhausted
      BY <2>1 DEF TypeInv, TypeOK, TickSession
    <2>3. /\ UNCHANGED runs /\ tick.processed = {} /\ tick.exhausted = {}
      BY <1>2 DEF TickListRetries, LineageInv, SessionInv
    <2>4. \A r \in cands :
            /\ r \in RunIds /\ Visible(r)
            /\ runs[r].status = "failed" /\ runs[r].retryable
            /\ ~runs[r].retryProcessed /\ ~runs[r].retryExhausted
            /\ \A c \in RunIds : Present(c) => runs[c].retryOf # r
      <3> SUFFICES ASSUME NEW r \in cands
                   PROVE  /\ r \in RunIds /\ Visible(r)
                          /\ runs[r].status = "failed" /\ runs[r].retryable
                          /\ ~runs[r].retryProcessed /\ ~runs[r].retryExhausted
                          /\ \A c \in RunIds : Present(c) => runs[c].retryOf # r
        OBVIOUS
      <3>1. /\ r \in RunIds /\ runs[r].status = "failed" /\ runs[r].retryable
            /\ ~runs[r].retryProcessed /\ ~runs[r].retryExhausted
        BY DEF RetryCandidates
      <3>2. Visible(r)
        BY <3>1 DEF TypeInv, TypeOK, Visible, Present
      <3>3. ASSUME NEW c \in RunIds, Present(c), runs[c].retryOf = r
            PROVE  FALSE
        <4>1. runs[c].retryOf # NoRun
          BY <3>1, <3>3, SessionTyped
        <4>2. IsRetryOf(c, r)
          BY <3>1, <3>3 DEF LineageInv, RetryLineage
        <4>3. c \in tick.inserted
          BY <4>2, <3>1, <3>3 DEF IsRetryOf, Visible
        <4> QED BY <4>1, <4>3, <2>3 DEF LineageInv, SessionInv
      <3> QED BY <3>1, <3>2, <3>3
    <2>5. SessionInv'
      <3>1. \A r \in tick'.cands : Visible(r)'
        BY <2>2, <2>3, <2>4 DEF Visible, Present
      <3>2. \A c \in tick'.inserted :
               runs'[c].retryOf # NoRun => runs'[c].retryOf \in tick'.processed
        BY <2>2, <2>3 DEF LineageInv, SessionInv
      <3> QED BY <2>2, <2>3, <2>4, <3>1, <3>2 DEF SessionInv, Present
    <2> QED BY <2>2, <2>3, <2>5, LineageSession
  <1>3. ASSUME NEW j \in Jobs, TickJob(j),
               TickSkipOverlap(j) \/ TickSkipUnscheduled(j)
        PROVE  LineageInv'
    <2>1. /\ tick'.pc = tick.pc /\ tick'.cands = tick.cands
          /\ tick'.inserted = tick.inserted
          /\ tick'.processed = tick.processed
          /\ tick'.exhausted = tick.exhausted
          /\ UNCHANGED runs
      BY <1>3 DEF TickSkipOverlap, TickSkipUnscheduled, TypeInv, TypeOK,
                  TickSession
    <2>2. SessionInv'
      BY <2>1 DEF LineageInv, SessionInv, Visible, Present
    <2> QED BY <2>1, <2>2, LineageSession
  <1>4. ASSUME NEW r \in RunIds, TickRetry(r),
               RetryDisabled(r) \/ RetryExhaust(r) \/ RetryLater(r)
        PROVE  LineageInv'
    <2>1. /\ tick.pc = "retries" /\ tick'.pc = tick.pc
          /\ tick'.cands = tick.cands \ {r} /\ r \in tick.cands
          /\ tick'.inserted = tick.inserted
          /\ tick'.processed \in {tick.processed, tick.processed \cup {r}}
          /\ \/ tick'.exhausted = tick.exhausted
             \/ /\ tick'.exhausted = tick.exhausted \cup {r}
                /\ tick'.processed = tick.processed \cup {r}
          /\ UNCHANGED runs
      BY <1>4 DEF TickRetry, RetryDisabled, RetryExhaust, RetryLater, TypeInv,
                  TypeOK, TickSession
    <2>2. SessionInv'
      BY <2>1 DEF LineageInv, SessionInv, Visible, Present
    <2> QED BY <2>1, <2>2, LineageSession
  <1> QED BY <1>1, <1>2, <1>3, <1>4

\* The commit: what the session inserted becomes visible together with the
\* marks that justify it.
LEMMA LineageCommit ==
    ASSUME TypeInv, LineageInv, TickCommit
    PROVE  LineageInv'
  <1>1. /\ tick' = IdleTick /\ tick'.pc = "idle" /\ tick'.cands = {}
        /\ tick'.inserted = {} /\ tick'.processed = {} /\ tick'.exhausted = {}
    BY IdleTickTyped DEF TickCommit
  <1>2. ASSUME NEW r \in RunIds
        PROVE  /\ runs'[r].job = runs[r].job
               /\ runs'[r].status = runs[r].status
               /\ runs'[r].attempt = runs[r].attempt
               /\ runs'[r].retryOf = runs[r].retryOf
               /\ runs'[r].retryable = runs[r].retryable
    <2>1. runs[r] \in RunRow
      BY DEF TypeInv, TypeOK
    <2>2. PICK p \in BOOLEAN, e \in BOOLEAN :
            runs'[r] = [runs[r] EXCEPT !.retryProcessed = p,
                                       !.retryExhausted = e]
      BY Zenon DEF TickCommit
    <2> QED BY <2>1, <2>2 DEF RunRow
  <1>3. ASSUME NEW r \in RunIds
        PROVE  /\ r \in tick.processed => runs'[r].retryProcessed
               /\ runs[r].retryProcessed => runs'[r].retryProcessed
               /\ runs'[r].retryExhausted
                    => r \in tick.exhausted \/ runs[r].retryExhausted
    <2>1. runs[r] \in RunRow
      BY DEF TypeInv, TypeOK
    <2> DEFINE p == runs[r].retryProcessed \/ r \in tick.processed
               e == runs[r].retryExhausted \/ r \in tick.exhausted
    <2>2. runs'[r] = [runs[r] EXCEPT !.retryProcessed = p,
                                     !.retryExhausted = e]
      BY Zenon DEF TickCommit
    <2>3. p \in BOOLEAN /\ e \in BOOLEAN
      BY Zenon
    <2> HIDE DEF p, e
    <2>4. runs'[r].retryProcessed = p /\ runs'[r].retryExhausted = e
      BY <2>1, <2>2, <2>3 DEF RunRow
    <2> QED BY <2>4, Zenon DEF p, e
  <1>4. \A r \in RunIds : (Present(r)' <=> Present(r))
    BY <1>2 DEF Present
  <1>5. \A r \in RunIds : (Visible(r)' <=> Present(r))
    BY <1>1, <1>4 DEF Visible
  <1>6. SessionInv'
    BY <1>1 DEF SessionInv
  <1>7. RetryLineage'
    <2> SUFFICES ASSUME NEW c \in RunIds, NEW s \in RunIds, Present(c)',
                        runs'[c].retryOf = s
                 PROVE  IsRetryOf(c, s)'
      BY DEF RetryLineage
    <2>1. Present(c) /\ runs[c].retryOf = s
      BY <1>2, <1>4
    <2>2. IsRetryOf(c, s)
      BY <2>1 DEF LineageInv, RetryLineage
    <2>3. ~runs'[s].retryExhausted
      <3>1. s \notin tick.exhausted
        BY <2>1 DEF LineageInv, SessionInv
      <3> QED BY <3>1, <2>2, <1>3 DEF IsRetryOf
    <2>4. runs'[s].retryProcessed
      <3>1. CASE Visible(c)
        BY <3>1, <2>2, <1>3 DEF IsRetryOf
      <3>2. CASE ~Visible(c)
        <4>1. c \in tick.inserted /\ s # NoRun
          BY <3>2, <2>1, SessionTyped DEF Visible
        <4>2. s \in tick.processed
          BY <4>1, <2>1 DEF LineageInv, SessionInv
        <4> QED BY <4>2, <1>3
      <3> QED BY <3>1, <3>2
    <2>5. Visible(s)'
      BY <2>2, <1>5 DEF IsRetryOf, Visible
    <2> QED BY <1>2, <2>2, <2>3, <2>4, <2>5 DEF IsRetryOf
  <1>8. SingleRetryChild'
    BY <1>2, <1>4 DEF LineageInv, SingleRetryChild
  <1> QED BY <1>6, <1>7, <1>8 DEF LineageInv

\* The rollback takes the inserted rows with it, and with them the marks that
\* were never written.
LEMMA LineageRollback ==
    ASSUME TypeInv, LineageInv, TickRollback
    PROVE  LineageInv'
  <1>1. /\ tick'.pc = "idle" /\ tick'.cands = {} /\ tick'.inserted = {}
        /\ tick'.processed = {} /\ tick'.exhausted = {}
    BY IdleTickTyped DEF TickRollback
  <1>2. \A r \in RunIds : Present(r)' => Visible(r)
    BY NoRunRowTyped DEF TickRollback, Present, Visible
  <1>3. \A r \in RunIds : Visible(r) => Visible(r)' /\ runs'[r] = runs[r]
    <2>1. \A r \in RunIds : Visible(r) => runs'[r] = runs[r]
      BY DEF TickRollback, Visible
    <2> QED BY <1>1, <2>1 DEF Visible, Present
  <1>4. SessionInv'
    BY <1>1 DEF SessionInv
  <1>5. RetryLineage'
    <2> SUFFICES ASSUME NEW c \in RunIds, NEW s \in RunIds, Present(c)',
                        runs'[c].retryOf = s
                 PROVE  IsRetryOf(c, s)'
      BY DEF RetryLineage
    <2>1. Visible(c) /\ Present(c) /\ runs'[c] = runs[c]
      BY <1>2, <1>3 DEF Visible
    <2> QED BY <1>3, <2>1, ChildKept
  <1>6. SingleRetryChild'
    BY <1>2, <1>3 DEF LineageInv, SingleRetryChild, Visible
  <1> QED BY <1>4, <1>5, <1>6 DEF LineageInv

\* A worker writes an outcome only over a queued row, so never over a source.
LEMMA LineageFinish ==
    ASSUME TypeInv, ClaimInv, LineageInv, NEW w \in Workers, WorkerFinish(w)
    PROVE  LineageInv'
  <1> DEFINE r == worker[w].run
  <1>1. /\ r \in RunIds /\ Visible(r) /\ runs[r].status = "queued"
        /\ UNCHANGED tick
    BY DEF WorkerFinish, TypeInv, TypeOK, Executing, ClaimInv, ClaimExclusive
  <1>2. PICK status \in Terminal, retryable \in BOOLEAN :
          runs' = [runs EXCEPT ![r] =
                     [@ EXCEPT !.status = status, !.finishedAt = clock,
                               !.retryable = retryable]]
    BY Zenon DEF WorkerFinish
  <1> HIDE DEF r
  <1>3. \A s \in RunIds \ {r} : runs'[s] = runs[s]
    BY <1>2 DEF TypeInv, TypeOK
  <1>4. /\ runs'[r].job = runs[r].job /\ runs'[r].attempt = runs[r].attempt
        /\ runs'[r].retryOf = runs[r].retryOf
        /\ runs'[r].status \in Terminal
    <2>1. runs[r] \in RunRow
      BY <1>1 DEF TypeInv, TypeOK
    <2>2. runs'[r] = [runs[r] EXCEPT !.status = status, !.finishedAt = clock,
                                     !.retryable = retryable]
      BY <1>1, <1>2 DEF TypeInv, TypeOK
    <2> QED BY <2>1, <2>2 DEF RunRow
  <1>5. \A s \in RunIds : Present(s)' <=> Present(s)
    BY <1>1, <1>3, <1>4 DEF Present, Visible, Terminal
  <1>6. \A s \in RunIds : Visible(s)' <=> Visible(s)
    BY <1>1, <1>5 DEF Visible
  <1>7. \A s \in RunIds : /\ runs'[s].retryOf = runs[s].retryOf
                          /\ runs'[s].job = runs[s].job
                          /\ runs'[s].attempt = runs[s].attempt
    BY <1>3, <1>4
  <1>8. \A s \in RunIds : runs[s].status = "failed" => runs'[s] = runs[s]
    BY <1>1, <1>3
  <1>9. SessionInv'
    <2>1. \A s \in tick.cands : Visible(s)' /\ runs'[s] = runs[s]
      BY <1>6, <1>8, SessionTyped DEF LineageInv, SessionInv
    <2>2. \A s \in tick.cands \cup tick.exhausted, c \in RunIds :
             Present(c)' => runs'[c].retryOf # s
      BY <1>5, <1>7 DEF LineageInv, SessionInv
    <2>3. \A c \in tick.inserted :
             runs'[c].retryOf # NoRun => runs'[c].retryOf \in tick.processed
      BY <1>7, SessionTyped DEF LineageInv, SessionInv
    <2> QED BY <1>1, <2>1, <2>2, <2>3 DEF LineageInv, SessionInv
  <1>10. RetryLineage'
    <2> SUFFICES ASSUME NEW c \in RunIds, NEW s \in RunIds, Present(c)',
                        runs'[c].retryOf = s
                 PROVE  IsRetryOf(c, s)'
      BY DEF RetryLineage
    <2>1. IsRetryOf(c, s)
      BY <1>5, <1>7 DEF LineageInv, RetryLineage
    <2>2. runs'[s] = runs[s]
      BY <2>1, <1>8 DEF IsRetryOf
    <2> QED BY <1>6, <1>7, <2>1, <2>2 DEF IsRetryOf
  <1>11. SingleRetryChild'
    BY <1>5, <1>7 DEF LineageInv, SingleRetryChild
  <1> QED BY <1>9, <1>10, <1>11 DEF LineageInv

LEMMA LineageInit == Init => LineageInv
  <1> SUFFICES ASSUME Init PROVE LineageInv
    OBVIOUS
  <1>1. /\ tick.pc = "idle" /\ tick.cands = {} /\ tick.inserted = {}
        /\ tick.processed = {} /\ tick.exhausted = {}
    BY IdleTickTyped DEF Init
  <1>2. \A r \in RunIds : ~Present(r)
    BY NoRunRowTyped DEF Init, Present
  <1> QED BY <1>1, <1>2 DEF LineageInv, SessionInv, RetryLineage,
                            SingleRetryChild

LEMMA LineageAdmin ==
    ASSUME TypeInv, LineageInv, ClockTick \/ Admin
    PROVE  LineageInv'
  <1>1. ASSUME NEW q \in Requests, ManualEnqueue(q)
        PROVE  LineageInv'
    <2>1. PICK j \in request[q] : \E r \in RunIds :
            /\ IsNextId(r)
            /\ runs' = [runs EXCEPT ![r] = QueuedRow(j, "manual", 1, NoRun)]
      BY <1>1 DEF ManualEnqueue
    <2>2. PICK r \in RunIds :
            /\ IsNextId(r)
            /\ runs' = [runs EXCEPT ![r] = QueuedRow(j, "manual", 1, NoRun)]
      BY <2>1
    <2>3. UNCHANGED tick /\ j \in Jobs
      BY <1>1 DEF ManualEnqueue, TypeInv, TypeOK
    <2> QED BY <2>2, <2>3, LineageInsert
  <1> QED BY <1>1, LineageFrame DEF ClockTick, Admin, CreateJob, PatchJob,
                                    PutSchedule, ManualCheck, ManualFail

LEMMA LineageTick ==
    ASSUME TypeInv, LineageInv, TickStep \/ TickCrash
    PROVE  LineageInv'
  <1>1. ASSUME NEW j \in Jobs, TickJob(j)
        PROVE  LineageInv'
    <2>1. CASE TickEnqueue(j)
      <3>1. PICK r \in RunIds, jitter \in 0..Jitter :
              /\ IsNextId(r)
              /\ runs' = [runs EXCEPT ![r] = QueuedRow(j, "scheduled", 1, NoRun)]
              /\ \/ tick' = [tick EXCEPT
                      !.due = @ \ {j}, !.inserted = @ \cup {r},
                      !.dirty = @ \cup {j},
                      !.seen[j].nextRunAt = AdvanceNextRun(@, tick.now, jitter)]
                 \/ tick' = [tick EXCEPT !.due = @ \ {j},
                                         !.inserted = @ \cup {r}]
        BY <2>1 DEF TickEnqueue
      <3>2. /\ tick'.pc = tick.pc /\ tick.pc # "idle"
            /\ tick'.cands = tick.cands
            /\ tick'.processed = tick.processed
            /\ tick'.exhausted = tick.exhausted
            /\ tick'.inserted = tick.inserted \cup {r}
        BY <1>1, <3>1 DEF TickJob, TypeInv, TypeOK, TickSession
      <3> QED BY <3>1, <3>2, LineageInsert
    <2> QED BY <1>1, <2>1, LineageBookkeeping DEF TickJob
  <1>2. ASSUME NEW r \in RunIds, TickRetry(r)
        PROVE  LineageInv'
    BY <1>2, LineageRetry, LineageBookkeeping DEF TickRetry
  <1> QED BY <1>1, <1>2, LineageBookkeeping, LineageCommit, LineageRollback
          DEF TickStep, TickCrash, TickLockTimeout

LEMMA LineageWorker ==
    ASSUME TypeInv, ClaimInv, LineageInv,
           NEW w \in Workers, WorkerStep(w) \/ WorkerCrash(w)
    PROVE  LineageInv'
    BY LineageFrame, LineageFinish
       DEF WorkerStep, WorkerClaim, ClaimOldest, WorkerSelect, SelectOldest,
           WorkerFlush, WorkerLockTimeout, WorkerPoisoned, WorkerCrash,
           WorkerRollback

-----------------------------------------------------------------------------
(* The theorems.                                                            *)

LEMMA IInvInit == Init => IInv
  <1> SUFFICES ASSUME Init PROVE IInv
    OBVIOUS
  <1>1. ClaimInv
    BY DEF Init, IdleWorker, ClaimInv, ClaimExclusive, Executing
  <1> QED BY <1>1, TypeInit, LineageInit DEF IInv

LEMMA IInvStep ==
    ASSUME SoleClaimant, IInv, [Next]_vars
    PROVE  IInv'
  <1>1. TypeInv'
    BY TypeStep DEF IInv
  <1>2. CASE UNCHANGED vars
    <2>1. ClaimInv'
      BY <1>2, ClaimFrame DEF IInv, vars, Visible, Present
    <2> QED BY <1>1, <1>2, <2>1, LineageFrame DEF IInv, vars
  <1>3. CASE ClockTick \/ Admin
    BY <1>1, <1>3, AdminClaim, LineageAdmin DEF IInv
  <1>4. CASE TickStep \/ TickCrash
    BY <1>1, <1>4, TickClaim, LineageTick DEF IInv
  <1>5. ASSUME NEW w \in Workers, WorkerStep(w) \/ WorkerCrash(w)
        PROVE  IInv'
    BY <1>1, <1>5, WorkerClaimInv, LineageWorker DEF IInv
  <1> QED BY <1>2, <1>3, <1>4, <1>5 DEF Next

LEMMA IInvHolds ==
    ASSUME SoleClaimant
    PROVE  Spec => []IInv
  <1>1. IInv /\ [Next]_vars => IInv'
    BY IInvStep
  <1> QED BY <1>1, IInvInit, PTL DEF Spec

\* No two workers execute the same run, and what a worker executes is a
\* committed run without outcome (claim_next_queued_run).
THEOREM ClaimSafe ==
    ASSUME SoleClaimant
    PROVE  Spec => []ClaimExclusive
  <1>1. IInv => ClaimExclusive
    BY DEF IInv, ClaimInv
  <1> QED BY <1>1, IInvHolds, PTL

\* Every retry run descends from a failed retryable run of its job, marked as
\* processed, with the next attempt number (_process_retry_candidates).
THEOREM LineageSafe ==
    ASSUME SoleClaimant
    PROVE  Spec => []RetryLineage
  <1>1. IInv => RetryLineage
    BY DEF IInv, LineageInv
  <1> QED BY <1>1, IInvHolds, PTL

\* No run is retried twice, whatever ticks crash or are rolled back.
THEOREM SingleChildSafe ==
    ASSUME SoleClaimant
    PROVE  Spec => []SingleRetryChild
  <1>1. IInv => SingleRetryChild
    BY DEF IInv, LineageInv
  <1> QED BY <1>1, IInvHolds, PTL

\* What a tick has read stays true until it acts on it (run_tick).
THEOREM SessionSafe ==
    ASSUME SoleClaimant
    PROVE  Spec => []SessionInv
  <1>1. IInv => SessionInv
    BY DEF IInv, LineageInv
  <1> QED BY <1>1, IInvHolds, PTL

-----------------------------------------------------------------------------
(* What readers see.  A worker writes over a queued row only, and the rows   *)
(* that a commit of the tick makes visible have one failed source each.      *)


\* What every step but the commit of a tick and the end of a run does to the
\* rows that readers see: nothing, or it adds one that it makes visible.
LEMMA RowsFrame ==
    ASSUME IInv, [Next]_vars, ~TickCommit,
           \A w \in Workers : ~WorkerFinish(w),
           \A q \in Requests : ~ManualEnqueue(q)
    PROVE  /\ \A r \in RunIds : Visible(r)' <=> Visible(r)
           /\ \A r \in RunIds : Visible(r) => runs'[r] = runs[r]
  <1> USE DEF IInv, TypeInv
  <1> DEFINE Goal == /\ \A r \in RunIds : Visible(r)' <=> Visible(r)
                     /\ \A r \in RunIds : Visible(r) => runs'[r] = runs[r]
  <1>1. ASSUME UNCHANGED runs, tick'.inserted = tick.inserted
        PROVE  Goal
    BY <1>1 DEF Visible, Present
  <1>2. ASSUME NEW r \in RunIds, IsNextId(r), NEW row,
               runs' = [runs EXCEPT ![r] = row],
               tick'.inserted = tick.inserted \cup {r}
        PROVE  Goal
    <2>1. ~Present(r) /\ \A s \in RunIds \ {r} : runs'[s] = runs[s]
      BY <1>2, NextIdFresh DEF TypeOK
    <2> QED BY <1>2, <2>1 DEF Visible, Present
  <1>3. CASE UNCHANGED vars \/ ClockTick \/ Admin
    <2>1. UNCHANGED <<runs, tick>>
      BY <1>3 DEF vars, ClockTick, Admin, CreateJob, PatchJob, PutSchedule,
                  ManualCheck, ManualFail
    <2> QED BY <2>1, <1>1
  <1>4. CASE TickStart
    <2>1. PICK due \in SUBSET DueJobs(clock) :
            tick' = [IdleTick EXCEPT !.pc = "jobs", !.now = clock, !.due = due,
                                     !.seen = [j \in due |-> jobs[j]]]
      BY <1>4 DEF TickStart
    <2>2. tick'.inserted = {} /\ tick.inserted = {} /\ UNCHANGED runs
      BY <1>4, <2>1 DEF TickStart, IdleTick, LineageInv, SessionInv
    <2> QED BY <2>2, <1>1
  <1>5. CASE TickListRetries
    <2>1. tick'.inserted = tick.inserted /\ UNCHANGED runs
      BY <1>5 DEF TickListRetries, TypeOK, TickSession
    <2> QED BY <2>1, <1>1
  <1>6. ASSUME NEW j \in Jobs, TickJob(j)
        PROVE  Goal
    <2>1. CASE TickSkipOverlap(j) \/ TickSkipUnscheduled(j)
      <3>1. tick'.inserted = tick.inserted /\ UNCHANGED runs
        BY <2>1 DEF TickSkipOverlap, TickSkipUnscheduled, TypeOK, TickSession
      <3> QED BY <3>1, <1>1
    <2>2. CASE TickEnqueue(j)
      <3>1. PICK r \in RunIds, jitter \in 0..Jitter :
              /\ IsNextId(r)
              /\ runs' = [runs EXCEPT ![r] = QueuedRow(j, "scheduled", 1, NoRun)]
              /\ \/ tick' = [tick EXCEPT
                      !.due = @ \ {j}, !.inserted = @ \cup {r},
                      !.dirty = @ \cup {j},
                      !.seen[j].nextRunAt = AdvanceNextRun(@, tick.now, jitter)]
                 \/ tick' = [tick EXCEPT !.due = @ \ {j},
                                         !.inserted = @ \cup {r}]
        BY <2>2 DEF TickEnqueue
      <3>2. tick'.inserted = tick.inserted \cup {r}
        BY <3>1 DEF TypeOK, TickSession
      <3> QED BY <3>1, <3>2, <1>2
    <2> QED BY <1>6, <2>1, <2>2 DEF TickJob
  <1>7. ASSUME NEW r \in RunIds, TickRetry(r)
        PROVE  Goal
    <2>1. CASE RetryDisabled(r) \/ RetryExhaust(r) \/ RetryLater(r)
      <3>1. tick'.inserted = tick.inserted /\ UNCHANGED runs
        BY <2>1 DEF RetryDisabled, RetryExhaust, RetryLater, TypeOK, TickSession
      <3> QED BY <3>1, <1>1
    <2>2. CASE RetryEnqueue(r)
      <3>1. PICK c \in RunIds :
              /\ IsNextId(c)
              /\ runs' = [runs EXCEPT ![c] =
                   QueuedRow(runs[r].job, "retry", runs[r].attempt + 1, r)]
              /\ tick' = [tick EXCEPT !.cands = @ \ {r},
                                      !.processed = @ \cup {r},
                                      !.inserted = @ \cup {c}]
        BY <2>2 DEF RetryEnqueue
      <3>2. tick'.inserted = tick.inserted \cup {c}
        BY <3>1 DEF TypeOK, TickSession
      <3> QED BY <3>1, <3>2, <1>2
    <2> QED BY <1>7, <2>1, <2>2 DEF TickRetry
  <1>8. CASE TickCrash \/ TickLockTimeout
    <2>1. TickRollback
      BY <1>8 DEF TickCrash, TickLockTimeout
    <2>2. tick'.inserted = {}
      BY <2>1, IdleTickTyped DEF TickRollback
    <2>3. \A r \in RunIds : /\ Visible(r) => runs'[r] = runs[r]
                            /\ Present(r)' => Visible(r)
      BY <2>1, NoRunRowTyped DEF TickRollback, Visible, Present
    <2> QED BY <2>2, <2>3 DEF Visible, Present
  <1>9. ASSUME NEW w \in Workers, WorkerStep(w) \/ WorkerCrash(w)
        PROVE  Goal
    <2>1. UNCHANGED <<runs, tick>>
      BY <1>9 DEF WorkerStep, WorkerCrash, WorkerClaim, ClaimOldest,
                  WorkerSelect, SelectOldest, WorkerFlush, WorkerLockTimeout,
                  WorkerPoisoned, WorkerRollback
    <2> QED BY <2>1, <1>1
  <1> QED BY <1>3, <1>4, <1>5, <1>6, <1>7, <1>8, <1>9 DEF Next, TickStep

\* What the commit does to a row.
LEMMA CommitRow ==
    ASSUME TypeInv, TickCommit, NEW r \in RunIds
    PROVE  \E p, e \in BOOLEAN :
             /\ runs'[r] = [runs[r] EXCEPT !.retryProcessed = p,
                                           !.retryExhausted = e]
             /\ runs[r].retryProcessed => p
             /\ runs[r].retryExhausted => e
    BY Zenon DEF TickCommit

-----------------------------------------------------------------------------
(* An outcome is final.                                                     *)

OutcomeKept(r) ==
    /\ runs'[r] = [runs[r] EXCEPT
                     !.retryProcessed = runs'[r].retryProcessed,
                     !.retryExhausted = runs'[r].retryExhausted]
    /\ runs[r].retryProcessed => runs'[r].retryProcessed
    /\ runs[r].retryExhausted => runs'[r].retryExhausted

LEMMA OutcomeStep ==
    ASSUME SoleClaimant, IInv, [Next]_vars,
           NEW r \in RunIds, Present(r), runs[r].status \in Terminal
    PROVE  OutcomeKept(r)
  <1>1. Visible(r) /\ runs[r].status # "queued" /\ runs[r] \in RunRow
    BY DEF IInv, TypeInv, TypeOK, Visible, Terminal
  <1>2. ASSUME runs'[r] = runs[r]
        PROVE  OutcomeKept(r)
    BY <1>1, <1>2 DEF OutcomeKept, RunRow
  <1>3. CASE TickCommit
    <2>1. PICK p, e \in BOOLEAN :
             /\ runs'[r] = [runs[r] EXCEPT !.retryProcessed = p,
                                           !.retryExhausted = e]
             /\ runs[r].retryProcessed => p
             /\ runs[r].retryExhausted => e
      BY <1>3, CommitRow DEF IInv
    <2>2. runs'[r].retryProcessed = p /\ runs'[r].retryExhausted = e
      BY <1>1, <2>1 DEF RunRow
    <2>3. runs[r].retryProcessed => runs'[r].retryProcessed
      BY <2>1, <2>2, Zenon
    <2>4. runs[r].retryExhausted => runs'[r].retryExhausted
      BY <2>1, <2>2, Zenon
    <2> QED BY <2>1, <2>2, <2>3, <2>4, Zenon DEF OutcomeKept
  <1>4. ASSUME NEW w \in Workers, WorkerFinish(w)
        PROVE  OutcomeKept(r)
    <2>1. worker[w].run # r /\ worker[w].run \in RunIds
      BY <1>1, <1>4 DEF WorkerFinish, IInv, ClaimInv, ClaimExclusive, TypeInv,
                        TypeOK, Executing
    <2>2. runs'[r] = runs[r]
      BY <1>4, <2>1 DEF WorkerFinish, IInv, TypeInv, TypeOK
    <2> QED BY <2>2, <1>2
  <1>5. ASSUME NEW q \in Requests, ManualEnqueue(q)
        PROVE  OutcomeKept(r)
    <2>1. PICK j \in request[q] : \E k \in RunIds :
            /\ IsNextId(k)
            /\ runs' = [runs EXCEPT ![k] = QueuedRow(j, "manual", 1, NoRun)]
      BY <1>5 DEF ManualEnqueue
    <2>2. PICK k \in RunIds :
            /\ IsNextId(k)
            /\ runs' = [runs EXCEPT ![k] = QueuedRow(j, "manual", 1, NoRun)]
      BY <2>1
    <2>3. r # k
      BY <2>2, NextIdFresh
    <2>4. runs'[r] = runs[r]
      BY <2>2, <2>3 DEF IInv, TypeInv, TypeOK
    <2> QED BY <2>4, <1>2
  <1>6. CASE /\ ~TickCommit /\ \A w \in Workers : ~WorkerFinish(w)
             /\ \A q \in Requests : ~ManualEnqueue(q)
    BY <1>1, <1>2, <1>6, RowsFrame
  <1> QED BY <1>3, <1>4, <1>5, <1>6

\* A run whose outcome is committed keeps it for good; the scheduler only
\* annotates it with its retry flags (complete_run, claim_next_queued_run).
THEOREM TerminalSafe ==
    ASSUME SoleClaimant
    PROVE  Spec => TerminalImmutable
  <1>1. IInv /\ [Next]_vars =>
          \A r \in RunIds : Present(r) /\ runs[r].status \in Terminal =>
            OutcomeKept(r)
    BY OutcomeStep
  <1>2. IInv /\ [Next]_vars =>
          [\A r \in RunIds : Present(r) /\ runs[r].status \in Terminal =>
             /\ runs'[r] = [runs[r] EXCEPT
                              !.retryProcessed = runs'[r].retryProcessed,
                              !.retryExhausted = runs'[r].retryExhausted]
             /\ runs[r].retryProcessed => runs'[r].retryProcessed
             /\ runs[r].retryExhausted => runs'[r].retryExhausted]_vars
    BY <1>1, Zenon DEF OutcomeKept
  <1> QED BY <1>2, IInvHolds, PTL DEF Spec, TerminalImmutable

-----------------------------------------------------------------------------
(* The backoff.                                                             *)

\* A run with an outcome keeps the time it finished at.
LEMMA FinishTimeKept ==
    ASSUME SoleClaimant, IInv, [Next]_vars,
           NEW r \in RunIds, Present(r), runs[r].status \in Terminal
    PROVE  runs'[r].finishedAt = runs[r].finishedAt
  <1>1. runs[r] \in RunRow
    BY DEF IInv, TypeInv, TypeOK
  <1> QED BY <1>1, OutcomeStep DEF OutcomeKept, RunRow

LEMMA BackoffStep ==
    ASSUME SoleClaimant, IInv, WindowInv, RetryAfterBackoff, [Next]_vars
    PROVE  RetryAfterBackoff'
  <1> SUFFICES ASSUME NEW c \in RunIds, Present(c)', runs'[c].retryOf # NoRun
               PROVE  runs'[runs'[c].retryOf].finishedAt + Backoff <= clock'
    BY DEF RetryAfterBackoff
  <1>1. /\ TypeInv /\ clock \in Nat /\ clock' \in Nat /\ clock' >= clock
        /\ tick.now \in Nat /\ tick.now <= clock /\ Backoff \in Nat
    BY ClockGrows, ConstantsAssumption
       DEF IInv, TypeInv, TypeOK, TickSession, WindowInv
  <1>2. ASSUME Present(c), runs'[c].retryOf = runs[c].retryOf
        PROVE  runs'[runs'[c].retryOf].finishedAt + Backoff <= clock'
    <2> DEFINE s == runs[c].retryOf
    <2>1. runs[c] \in RunRow /\ s # NoRun /\ s \in RunIds
      BY <1>1, <1>2 DEF TypeInv, TypeOK, RunRow
    <2>2. IsRetryOf(c, s)
      BY <1>2, <2>1 DEF IInv, LineageInv, RetryLineage
    <2>3. Present(s) /\ runs[s].status \in Terminal
      BY <2>2 DEF IsRetryOf, Visible, Terminal
    <2>4. runs'[s].finishedAt = runs[s].finishedAt
      BY <2>1, <2>3, FinishTimeKept
    <2>5. runs[s].finishedAt + Backoff <= clock
      BY <1>2, <2>1 DEF RetryAfterBackoff
    <2>6. runs[s].finishedAt \in Int
      <3>1. runs[s] \in RunRow
        BY <1>1, <2>1 DEF TypeInv, TypeOK
      <3> QED BY <3>1 DEF RunRow, Time, NoTime
    <2> HIDE DEF s
    <2>7. runs'[s].finishedAt + Backoff <= clock'
      BY <1>1, <2>4, <2>5, <2>6
    <2> QED BY <1>2, <2>7 DEF s
  <1>3. CASE ~Inserting
    <2>1. RowKept(c)
      BY <1>1, <1>3, RowsKept, NoRunRowTyped DEF Present
    <2> QED BY <1>2, <2>1 DEF RowKept, Entry
  <1>4. CASE Inserting
    <2>1. ASSUME NEW k \in RunIds, IsNextId(k), NEW row,
                 runs' = [runs EXCEPT ![k] = row], c # k
          PROVE  Present(c) /\ runs'[c].retryOf = runs[c].retryOf
      <3>1. runs'[c] = runs[c]
        BY <1>1, <2>1, RowInserted
      <3> QED BY <3>1 DEF Present
    <2>2. ASSUME NEW k \in RunIds, IsNextId(k), NEW j, NEW trigger,
                 runs' = [runs EXCEPT ![k] = QueuedRow(j, trigger, 1, NoRun)]
          PROVE  c # k
      <3>1. runs'[k] = QueuedRow(j, trigger, 1, NoRun)
        BY <1>1, <2>2, RowInserted
      <3>2. runs'[k].retryOf = NoRun
        BY <3>1 DEF QueuedRow
      <3> QED BY <3>2
    <2>3. ASSUME NEW s \in RunIds, TickRetry(s), RetryEnqueue(s), IsNextId(c),
                 runs' = [runs EXCEPT ![c] =
                   QueuedRow(runs[s].job, "retry", runs[s].attempt + 1, s)]
          PROVE  runs'[runs'[c].retryOf].finishedAt + Backoff <= clock'
      <3>1. Present(s)
        BY <2>3 DEF TickRetry, IInv, LineageInv, SessionInv, Visible
      <3>2. /\ s # c /\ runs'[s] = runs[s]
            /\ runs'[c] = QueuedRow(runs[s].job, "retry", runs[s].attempt + 1, s)
        BY <1>1, <2>3, <3>1, RowInserted
      <3>3. runs'[c].retryOf = s
        BY <3>2 DEF QueuedRow
      <3>4. runs[s].finishedAt + Backoff <= tick.now
        BY <2>3 DEF RetryEnqueue, BackoffElapsed
      <3>5. runs[s].finishedAt \in Int
        <4>1. runs[s] \in RunRow
          BY <1>1 DEF TypeInv, TypeOK
        <4> QED BY <4>1 DEF RunRow, Time, NoTime
      <3> QED BY <1>1, <3>2, <3>3, <3>4, <3>5
    <2> QED BY <1>1, <1>2, <1>4, <2>1, <2>2, <2>3, InsertKinds
  <1> QED BY <1>3, <1>4

\* No retry is enqueued before the backoff of its source has passed
\* (_process_retries), although the tick works with a "now" of its own and the
\* workers write finished_at by theirs.
THEOREM BackoffSafe ==
    ASSUME SoleClaimant
    PROVE  Spec => []RetryAfterBackoff
  <1>1. Init => RetryAfterBackoff
    BY NoRunRowTyped DEF Init, RetryAfterBackoff, Present
  <1>2. IInv /\ WindowInv /\ RetryAfterBackoff /\ [Next]_vars => RetryAfterBackoff'
    BY BackoffStep
  <1> QED BY <1>1, <1>2, IInvHolds, WindowHolds, PTL DEF Spec

-----------------------------------------------------------------------------
(* The ledger.                                                              *)

LedgerVars == <<CommittedStatus, CommittedSource>>

\* Rows that do not change for the readers are a stutter of the ledger.
LEMMA LedgerStutter ==
    ASSUME \A r \in RunIds : Visible(r)' <=> Visible(r),
           \A r \in RunIds : Visible(r) => /\ runs'[r].status = runs[r].status
                                           /\ runs'[r].retryOf = runs[r].retryOf
    PROVE  UNCHANGED LedgerVars
    BY DEF LedgerVars, CommittedStatus, CommittedSource

LEMMA LedgerManual ==
    ASSUME IInv, NEW q \in Requests, ManualEnqueue(q)
    PROVE  Ledger!Next
  <1> USE DEF IInv, TypeInv
  <1>1. PICK j \in request[q] : \E k \in RunIds :
          /\ IsNextId(k)
          /\ runs' = [runs EXCEPT ![k] = QueuedRow(j, "manual", 1, NoRun)]
    BY DEF ManualEnqueue
  <1>2. PICK r \in RunIds :
          /\ IsNextId(r)
          /\ runs' = [runs EXCEPT ![r] = QueuedRow(j, "manual", 1, NoRun)]
    BY <1>1
  <1>3. /\ ~Present(r) /\ r \notin tick.inserted /\ UNCHANGED tick
        /\ \A s \in RunIds \ {r} : runs'[s] = runs[s]
        /\ runs'[r].status = "queued" /\ runs'[r].retryOf = 0
    BY <1>2, NextIdFresh DEF ManualEnqueue, TypeOK, Present, QueuedRow, NoRun
  <1>4. /\ ~Visible(r) /\ Visible(r)'
        /\ \A s \in RunIds \ {r} : Visible(s)' <=> Visible(s)
    BY <1>3 DEF Visible, Present
  <1>5. /\ CommittedStatus' = [s \in RunIds |->
                                 IF s \in {r} THEN "queued" ELSE CommittedStatus[s]]
        /\ CommittedStatus[r] = "absent"
    BY <1>3, <1>4 DEF CommittedStatus
  <1>6. /\ CommittedSource' = [s \in RunIds |-> CommittedSource'[s]]
        /\ \A s \in RunIds \ {r} : CommittedSource'[s] = CommittedSource[s]
        /\ CommittedSource'[r] = 0
    BY <1>3, <1>4 DEF CommittedSource
  <1>7. Ledger!Enter({r})
    BY <1>5, <1>6 DEF Ledger!Enter
  <1>8. {r} \in SUBSET RunIds
    BY <1>2
  <1> QED BY <1>7, <1>8 DEF Ledger!Next

\* The commit of a tick enters its whole batch at once.
LEMMA LedgerCommit ==
    ASSUME IInv, IInv', TickCommit
    PROVE  Ledger!Next
  <1> USE DEF IInv
  <1> DEFINE S == tick.inserted
  <1>1. S \in SUBSET RunIds
    BY SessionTyped
  <1>2. tick'.inserted = {}
    BY IdleTickTyped DEF TickCommit
  <1>3. \A r \in RunIds : /\ runs'[r].status = runs[r].status
                          /\ runs'[r].retryOf = runs[r].retryOf
    <2> SUFFICES ASSUME NEW r \in RunIds
                 PROVE  /\ runs'[r].status = runs[r].status
                        /\ runs'[r].retryOf = runs[r].retryOf
      OBVIOUS
    <2>1. runs[r] \in RunRow
      BY DEF TypeInv, TypeOK
    <2>2. PICK p, e \in BOOLEAN :
             runs'[r] = [runs[r] EXCEPT !.retryProcessed = p,
                                        !.retryExhausted = e]
      BY CommitRow
    <2> QED BY <2>1, <2>2 DEF RunRow
  <1>4. \A r \in RunIds : Visible(r)' <=> Present(r)
    BY <1>2, <1>3 DEF Visible, Present
  <1>5. \A r \in S : /\ runs[r].status = "queued" /\ Present(r) /\ ~Visible(r)
                     /\ r \in RunIds
    BY <1>1 DEF TypeInv, TypeOK, Present, Visible
  <1>6. \A r \in RunIds \ S : Visible(r) <=> Present(r)
    BY DEF Visible
  <1>7. /\ \A r \in S : CommittedStatus[r] = "absent"
        /\ CommittedStatus' =
             [r \in RunIds |-> IF r \in S THEN "queued" ELSE CommittedStatus[r]]
    BY <1>3, <1>4, <1>5, <1>6 DEF CommittedStatus
  <1>8. /\ CommittedSource' = [r \in RunIds |-> CommittedSource'[r]]
        /\ \A r \in RunIds \ S : CommittedSource'[r] = CommittedSource[r]
        /\ \A r \in S : CommittedSource'[r] = runs[r].retryOf
    BY <1>3, <1>4, <1>5, <1>6 DEF CommittedSource
  <1>9. ASSUME NEW r \in S, CommittedSource'[r] # 0
        PROVE  /\ CommittedSource'[r] \in RunIds
               /\ CommittedStatus[CommittedSource'[r]] = "failed"
               /\ \A k \in RunIds \ {r} : CommittedSource'[k] # CommittedSource'[r]
    <2> DEFINE s == runs[r].retryOf
    <2>1. s \in RunIds /\ CommittedSource'[r] = s /\ r \in RunIds /\ s # NoRun
      BY <1>5, <1>8, <1>9, SessionTyped DEF NoRun
    <2>2. IsRetryOf(r, s)
      BY <1>5, <2>1 DEF LineageInv, RetryLineage
    <2>3. CommittedStatus[s] = "failed"
      BY <2>1, <2>2 DEF CommittedStatus, IsRetryOf
    <2>4. ASSUME NEW k \in RunIds \ {r}, CommittedSource'[k] = s
          PROVE  FALSE
      <3>1. Visible(k)' /\ runs'[k].retryOf = s
        BY <2>1, <2>4 DEF CommittedSource
      <3>2. Present(k) /\ runs[k].retryOf = s
        BY <1>3, <1>4, <3>1
      <3> QED BY <1>5, <2>1, <3>2 DEF LineageInv, SingleRetryChild
    <2> QED BY <2>1, <2>3, <2>4
  <1> HIDE DEF S
  <1>10. Ledger!Enter(S)
    BY <1>1, <1>7, <1>8, <1>9 DEF Ledger!Enter
  <1> QED BY <1>1, <1>10 DEF Ledger!Next

LEMMA LedgerFinish ==
    ASSUME IInv, NEW w \in Workers, WorkerFinish(w)
    PROVE  Ledger!Next
  <1> DEFINE r == worker[w].run
  <1>1. /\ r \in RunIds /\ Visible(r) /\ runs[r].status = "queued"
        /\ UNCHANGED tick
    BY DEF WorkerFinish, IInv, TypeInv, TypeOK, Executing, ClaimInv,
           ClaimExclusive
  <1>2. PICK status \in Terminal, b \in BOOLEAN :
          runs' = [runs EXCEPT ![r] =
                     [@ EXCEPT !.status = status, !.finishedAt = clock,
                               !.retryable = b]]
    BY Zenon DEF WorkerFinish
  <1> HIDE DEF r
  <1>3. \A s \in RunIds \ {r} : runs'[s] = runs[s]
    BY <1>2 DEF IInv, TypeInv, TypeOK
  <1>4. runs'[r].status = status /\ runs'[r].retryOf = runs[r].retryOf
    <2>1. runs[r] \in RunRow
      BY <1>1 DEF IInv, TypeInv, TypeOK
    <2>2. runs'[r] = [runs[r] EXCEPT !.status = status, !.finishedAt = clock,
                                     !.retryable = b]
      BY <1>1, <1>2 DEF IInv, TypeInv, TypeOK
    <2> QED BY <2>1, <2>2 DEF RunRow
  <1>5. \A s \in RunIds : Visible(s)' <=> Visible(s)
    BY <1>1, <1>3, <1>4 DEF Visible, Present, Terminal
  <1>6. /\ CommittedStatus[r] = "queued"
        /\ CommittedStatus' = [CommittedStatus EXCEPT ![r] = status]
        /\ UNCHANGED CommittedSource
    BY <1>1, <1>3, <1>4, <1>5 DEF CommittedStatus, CommittedSource
  <1>7. Ledger!Complete(r)
    BY <1>6 DEF Ledger!Complete
  <1> QED BY <1>1, <1>7 DEF Ledger!Next

LEMMA LedgerInit == Init => Ledger!Init
  <1> SUFFICES ASSUME Init PROVE Ledger!Init
    OBVIOUS
  <1>1. \A r \in RunIds : ~Visible(r)
    BY NoRunRowTyped DEF Init, Present, Visible
  <1> QED BY <1>1 DEF Ledger!Init, CommittedStatus, CommittedSource, NoRun

LEMMA LedgerStep ==
    ASSUME IInv, IInv', [Next]_vars
    PROVE  [Ledger!Next]_LedgerVars
  <1>1. CASE /\ ~TickCommit /\ \A w \in Workers : ~WorkerFinish(w)
             /\ \A q \in Requests : ~ManualEnqueue(q)
    BY <1>1, RowsFrame, LedgerStutter
  <1> QED BY <1>1, LedgerManual, LedgerCommit, LedgerFinish

\* The queue implements the ledger: runs appear in whole batches, each is
\* completed at most once, and a retry names a failed run of its own.
THEOREM QueueImplementsLedger ==
    ASSUME SoleClaimant
    PROVE  Spec => ImplementsLedger
  <1>1. IInv /\ IInv' /\ [Next]_vars
          => [Ledger!Next]_<<CommittedStatus, CommittedSource>>
    BY LedgerStep DEF LedgerVars
  <1> QED BY <1>1, LedgerInit, IInvHolds, PTL
          DEF Spec, ImplementsLedger, Ledger!Spec

-----------------------------------------------------------------------------
(* Executions.  With several workers on SQLite a claim may take a run that   *)
(* another worker has completed since it was selected, and its outcome is    *)
(* written twice.  Even then nobody disturbs an execution.                   *)

\* No two workers execute the same run at a time.
SoleExecutor ==
    \A v, w \in Workers :
        Executing(v) /\ Executing(w) /\ worker[v].run = worker[w].run => v = w

\* From the claim of a run on its row belongs to the worker that executes it.
RowOfExecutor ==
    [][\A w \in Workers :
         Executing(w) /\ runs'[worker[w].run] # runs[worker[w].run]
             => WorkerFinish(w)]_vars

\* What a tick gives up it also marks, and it marks failed runs only.
MarksInv ==
    /\ tick.exhausted \subseteq tick.processed
    /\ SoleClaimant => \A r \in tick.processed : runs[r].status = "failed"

\* A row that readers see is changed by a commit of the tick or the end of a run.
LEMMA VisibleKept ==
    ASSUME TypeInv, [Next]_vars, NEW r \in RunIds, Visible(r), ~TickCommit,
           \A w \in Workers : ~WorkerFinish(w)
    PROVE  runs'[r] = runs[r]
  <1>1. CASE Inserting
    <2>1. PICK k \in RunIds : IsNextId(k) /\ \E row : runs' = [runs EXCEPT ![k] = row]
      BY <1>1, InsertKinds
    <2>2. PICK row : runs' = [runs EXCEPT ![k] = row]
      BY <2>1
    <2>3. ~Present(k) /\ \A s \in RunIds \ {k} : runs'[s] = runs[s]
      BY <2>1, <2>2, RowInserted
    <2> QED BY <2>3 DEF Visible
  <1>2. CASE UNCHANGED vars \/ ClockTick \/ Admin
    BY <1>2, <1>1 DEF vars, ClockTick, Admin, CreateJob, PatchJob, PutSchedule,
                      ManualCheck, ManualFail, Inserting
  <1>3. CASE TickStart \/ TickListRetries
    BY <1>3 DEF TickStart, TickListRetries
  <1>4. ASSUME NEW j \in Jobs, TickJob(j), ~Inserting PROVE runs' = runs
    BY <1>4 DEF TickJob, TickSkipOverlap, TickSkipUnscheduled, Inserting
  <1>5. ASSUME NEW s \in RunIds, TickRetry(s), ~Inserting PROVE runs' = runs
    BY <1>5 DEF TickRetry, RetryDisabled, RetryExhaust, RetryLater, Inserting
  <1>6. CASE TickRollback
    BY <1>6 DEF TickRollback, Visible
  <1>7. ASSUME NEW w \in Workers, WorkerStep(w) \/ WorkerCrash(w)
        PROVE  runs' = runs
    BY <1>7 DEF WorkerStep, WorkerCrash, WorkerClaim, ClaimOldest, WorkerSelect,
                SelectOldest, WorkerFlush, WorkerLockTimeout, WorkerPoisoned,
                WorkerRollback
  <1> QED BY <1>1, <1>2, <1>3, <1>4, <1>5, <1>6, <1>7
          DEF Next, TickStep, TickCrash, TickLockTimeout

LEMMA SoleExecutorNow ==
    ASSUME TypeInv, LockInv, SoleClaimant => IInv
    PROVE  SoleExecutor
  <1>1. CASE Backend = "sqlite"
    BY <1>1 DEF LockInv, SoleExecutor
  <1>2. CASE Backend # "sqlite"
    <2>1. SoleClaimant
      BY <1>2, ConstantsAssumption DEF SoleClaimant
    <2> QED BY <2>1 DEF IInv, ClaimInv, ClaimExclusive, SoleExecutor
  <1> QED BY <1>1, <1>2

\* A step of the tick marks candidates, which have failed.
LEMMA MarksStep ==
    ASSUME TypeInv, MarksInv, SoleClaimant => IInv, [Next]_vars
    PROVE  MarksInv'
  <1>1. \/ tick'.processed = {} /\ tick'.exhausted = {}
        \/ tick'.processed = tick.processed /\ tick'.exhausted = tick.exhausted
        \/ \E r \in tick.cands :
              /\ tick'.processed = tick.processed \cup {r}
              /\ tick'.exhausted \subseteq tick.exhausted \cup {r}
    <2>1. CASE TickStart
      <3>1. PICK due \in SUBSET DueJobs(clock) :
              tick' = [IdleTick EXCEPT !.pc = "jobs", !.now = clock, !.due = due,
                                       !.seen = [j \in due |-> jobs[j]]]
        BY <2>1 DEF TickStart
      <3> QED BY <3>1 DEF IdleTick
    <2>2. CASE TickListRetries
      BY <2>2 DEF TickListRetries, TypeInv, TypeOK, TickSession
    <2>3. CASE TickCommit \/ TickRollback
      <3>1. tick' = IdleTick
        BY <2>3 DEF TickCommit, TickRollback
      <3> QED BY <3>1, IdleTickTyped
    <2>4. ASSUME NEW j \in Jobs, TickJob(j)
          PROVE  tick'.processed = tick.processed /\ tick'.exhausted = tick.exhausted
      BY <2>4 DEF TickJob, TickSkipOverlap, TickSkipUnscheduled, TickEnqueue,
                  TypeInv, TypeOK, TickSession
    <2>5. ASSUME NEW r \in RunIds, TickRetry(r)
          PROVE  \/ tick'.processed = tick.processed /\ tick'.exhausted = tick.exhausted
                 \/ /\ tick'.processed = tick.processed \cup {r}
                    /\ tick'.exhausted \subseteq tick.exhausted \cup {r}
      <3>1. CASE RetryLater(r)
        BY <3>1 DEF RetryLater, TypeInv, TypeOK, TickSession
      <3>2. CASE RetryDisabled(r) \/ RetryExhaust(r)
        BY <3>2 DEF RetryDisabled, RetryExhaust, TypeInv, TypeOK, TickSession
      <3>3. CASE RetryEnqueue(r)
        BY <3>3 DEF RetryEnqueue, TypeInv, TypeOK, TickSession
      <3> QED BY <2>5, <3>1, <3>2, <3>3 DEF TickRetry
    <2>6. \A r \in RunIds : TickRetry(r) => r \in tick.cands
      BY DEF TickRetry
    <2>7. CASE UNCHANGED tick
      BY <2>7
    <2>8. CASE UNCHANGED vars \/ ClockTick \/ Admin
      BY <2>7, <2>8 DEF vars, ClockTick, Admin, CreateJob, PatchJob, PutSchedule,
                        ManualCheck, ManualEnqueue, ManualFail
    <2>9. ASSUME NEW w \in Workers, WorkerStep(w) \/ WorkerCrash(w)
          PROVE  UNCHANGED tick
      BY <2>9 DEF WorkerStep, WorkerCrash, WorkerClaim, ClaimOldest, WorkerSelect,
                  SelectOldest, WorkerFlush, WorkerLockTimeout, WorkerPoisoned,
                  WorkerRollback, WorkerFinish
    <2> QED BY <2>1, <2>2, <2>3, <2>4, <2>5, <2>6, <2>7, <2>8, <2>9
            DEF Next, TickStep, TickCrash, TickLockTimeout
  <1>2. tick'.exhausted \subseteq tick'.processed
    BY <1>1 DEF MarksInv
  <1>3. ASSUME SoleClaimant, NEW r \in tick'.processed
        PROVE  runs'[r].status = "failed"
    <2>1. r \in tick.processed \/ r \in tick.cands
      BY <1>1, <1>3
    <2>2. r \in RunIds /\ runs[r].status = "failed"
      BY <1>3, <2>1, SessionTyped DEF MarksInv, IInv, LineageInv, SessionInv
    <2>3. OutcomeKept(r)
      BY <1>3, <2>2, OutcomeStep DEF Present, Terminal
    <2>4. runs[r] \in RunRow
      BY <2>2 DEF TypeInv, TypeOK
    <2> QED BY <2>2, <2>3, <2>4 DEF OutcomeKept, RunRow
  <1> QED BY <1>2, <1>3 DEF MarksInv

LEMMA RowOfExecutorNow ==
    ASSUME TypeInv, LockInv, MarksInv, SoleClaimant => IInv, [Next]_vars,
           NEW w \in Workers, Executing(w),
           runs'[worker[w].run] # runs[worker[w].run]
    PROVE  WorkerFinish(w)
  <1> DEFINE r == worker[w].run
  <1>1. r \in RunIds /\ Visible(r) /\ runs[r] \in RunRow
    BY DEF TypeInv, TypeOK, HeldVisible, Executing
  <1>2. CASE TickCommit
    <2>1. r \notin tick.processed /\ r \notin tick.exhausted
      <3>1. CASE Backend = "sqlite"
        <4>1. lock = w /\ lock # "scheduler"
          BY <3>1, ConstantsAssumption DEF LockInv
        <4> QED BY <3>1, <4>1 DEF LockInv, TickWrites, MarksInv
      <3>2. CASE Backend # "sqlite"
        <4>1. SoleClaimant
          BY <3>2, ConstantsAssumption DEF SoleClaimant
        <4>2. runs[r].status = "queued"
          BY <4>1 DEF IInv, ClaimInv, ClaimExclusive
        <4> QED BY <4>1, <4>2 DEF MarksInv
      <3> QED BY <3>1, <3>2
    <2>2. runs'[r] = [runs[r] EXCEPT
                        !.retryProcessed = runs[r].retryProcessed \/ r \in tick.processed,
                        !.retryExhausted = runs[r].retryExhausted \/ r \in tick.exhausted]
      BY <1>1, <1>2, Zenon DEF TickCommit
    <2>3. runs[r].retryProcessed \in BOOLEAN /\ runs[r].retryExhausted \in BOOLEAN
      BY <1>1 DEF RunRow
    <2>4. /\ (runs[r].retryProcessed \/ r \in tick.processed) = runs[r].retryProcessed
          /\ (runs[r].retryExhausted \/ r \in tick.exhausted) = runs[r].retryExhausted
      BY <2>1, <2>3
    <2>5. runs'[r] = [runs[r] EXCEPT !.retryProcessed = runs[r].retryProcessed,
                                     !.retryExhausted = runs[r].retryExhausted]
      BY <2>2, <2>4
    <2>6. runs'[r] = runs[r]
      BY <1>1, <2>5 DEF RunRow
    <2> QED BY <2>6
  <1>3. ASSUME NEW v \in Workers, WorkerFinish(v), v # w
        PROVE  FALSE
    <2>1. Executing(v) /\ worker[v].run # r
      BY <1>3, SoleExecutorNow DEF WorkerFinish, SoleExecutor
    <2>2. worker[v].run \in RunIds
      BY <2>1 DEF TypeInv, TypeOK, Executing
    <2>3. runs'[r] = runs[r]
      BY <1>1, <1>3, <2>1, <2>2 DEF WorkerFinish, TypeInv, TypeOK
    <2> QED BY <2>3
  <1>4. CASE ~TickCommit /\ \A v \in Workers : ~WorkerFinish(v)
    BY <1>1, <1>4, VisibleKept
  <1> QED BY <1>2, <1>3, <1>4

\* On both backends and with any number of workers, nobody else works on a run that
\* is being executed, nor touches its row until the outcome is written or the claim
\* rolled back: a run is done twice only one time after the other, by a worker on
\* SQLite that selected it before the first outcome was there.
THEOREM ExecutionAlone == Spec => []SoleExecutor /\ RowOfExecutor
  <1> DEFINE All == TypeInv /\ LockInv /\ MarksInv /\ (SoleClaimant => IInv)
  <1>1. Init => All
    <2>1. Init => LockInv
      BY LockInit
    <2>2. Init => MarksInv
      BY IdleTickTyped DEF Init, MarksInv, IdleTick
    <2> QED BY <2>1, <2>2, TypeInit, IInvInit
  <1>2. All /\ [Next]_vars => All'
    <2>1. SoleClaimant /\ IInv /\ [Next]_vars => IInv'
      BY IInvStep
    <2> QED BY <2>1, TypeStep, LockStep, MarksStep
  <1>3. All => SoleExecutor
    BY SoleExecutorNow
  <1>4. All /\ [Next]_vars =>
          [\A w \in Workers :
             Executing(w) /\ runs'[worker[w].run] # runs[worker[w].run]
                 => WorkerFinish(w)]_vars
    BY RowOfExecutorNow
  <1> QED BY <1>1, <1>2, <1>3, <1>4, PTL DEF Spec, RowOfExecutor
=============================================================================
