------------------------- MODULE ScrapeQueueProofs -------------------------
(***************************************************************************)
(* Theorems about ScrapeQueue for every set of jobs, workers and requests  *)
(* and every value of the bounds.                                          *)
(***************************************************************************)
EXTENDS ScrapeQueue, FiniteSetTheorems, TLAPS

-----------------------------------------------------------------------------
(* Type correctness.  What a worker holds is a committed row: without that  *)
(* a worker could complete a row that the tick has only inserted, and the   *)
(* typing of tick.inserted would be lost.                                   *)

HeldVisible ==
    \A w \in Workers : worker[w].pc # "idle" => Visible(worker[w].run)

TypeInv == TypeOK /\ HeldVisible

\* Every row a session can insert is a typed, queued row.
LEMMA QueuedRowTyped ==
    ASSUME NEW j \in Jobs, NEW t \in {"scheduled", "manual", "retry"},
           NEW n \in Nat, NEW p \in RunIds \cup {NoRun}
    PROVE  /\ QueuedRow(j, t, n, p) \in RunRow
           /\ QueuedRow(j, t, n, p).status = "queued"
    BY DEF QueuedRow, RunRow, Time, NoTime

LEMMA NoRunRowTyped == NoRunRow \in RunRow /\ NoRunRow.status = "absent"
  <1>1. (CHOOSE j \in Jobs : TRUE) \in Jobs
    BY ConstantsAssumption
  <1> QED BY <1>1 DEF NoRunRow, QueuedRow, RunRow, Time, NoTime, NoRun

\* advance_next_run never returns a time before the epoch of the model.
LEMMA AdvanceTyped ==
    ASSUME NEW current \in Time, NEW now \in Nat, NEW jitter \in 0..Jitter
    PROVE  AdvanceNextRun(current, now, jitter) \in Nat
    BY ConstantsAssumption DEF AdvanceNextRun, Time, NoTime

LEMMA IdleTickTyped ==
    /\ IdleTick.pc = "idle" /\ IdleTick.now = 0 /\ IdleTick.due = {}
    /\ IdleTick.seen = <<>> /\ IdleTick.dirty = {} /\ IdleTick.cands = {}
    /\ IdleTick.inserted = {} /\ IdleTick.processed = {}
    /\ IdleTick.exhausted = {}
    BY DEF IdleTick

LEMMA TypeInit == Init => TypeInv
  <1> SUFFICES ASSUME Init PROVE TypeInv
    OBVIOUS
  <1>1. NoJobRow \in JobRow
    BY DEF NoJobRow, JobRow, Time, NoTime, ScheduleKinds
  <1>2. jobs \in [Jobs -> JobRow] /\ runs \in [RunIds -> RunRow]
    BY <1>1, NoRunRowTyped DEF Init
  <1>3. tick \in TickSession /\ DOMAIN tick.seen = {}
    BY DEF Init, IdleTick, TickSession
  <1>4. /\ tick.seen \in [DOMAIN tick.seen -> JobRow]
        /\ tick.inserted = {} /\ tick.due = {} /\ tick.dirty = {}
    BY <1>3 DEF Init, IdleTick
  <1>5. /\ worker \in [Workers -> [pc: {"idle", "selected", "executing"},
                                   run: RunIds \cup {NoRun}]]
        /\ \A w \in Workers : worker[w].pc = "idle"
    BY DEF Init, IdleWorker
  <1> QED BY <1>2, <1>3, <1>4, <1>5 DEF Init, TypeInv, TypeOK, HeldVisible

\* A new id is unused and above every id in use.
LEMMA NextIdFresh ==
    ASSUME NEW r, IsNextId(r)
    PROVE  /\ r \in RunIds /\ ~Present(r)
           /\ \A s \in RunIds : Present(s) => s < r
    BY ConstantsAssumption DEF IsNextId, RunIds

\* The routes and the clock.
LEMMA AdminType ==
    ASSUME TypeInv, ClockTick \/ Admin
    PROVE  TypeInv'
  <1> USE DEF TypeInv
  <1>1. CASE ClockTick
    <2>1. clock' \in Nat
      BY <1>1 DEF ClockTick, TypeOK
    <2> QED BY <1>1, <2>1 DEF ClockTick, TypeOK, TickSession, HeldVisible,
                              Visible, Present
  <1>2. ASSUME NEW j \in Jobs, CreateJob(j) \/ PatchJob(j) \/ PutSchedule(j)
        PROVE  TypeInv'
    <2>1. CASE CreateJob(j)
      <3>1. PICK overlap \in OverlapChoices, retries \in 0..MaxRetries,
                 schedule \in ScheduleChoices \cup {"none"},
                 jitter \in 0..Jitter :
              jobs' = [jobs EXCEPT ![j] =
                [exists |-> TRUE, enabled |-> TRUE, allowOverlap |-> overlap,
                 maxRetries |-> retries, schedule |-> schedule,
                 nextRunAt |-> IF schedule \in {"valid", "disabled"}
                               THEN clock + Interval + jitter ELSE NoTime]]
        BY <2>1 DEF CreateJob
      <3>2. clock + Interval + jitter \in Nat
        BY ConstantsAssumption DEF TypeOK
      <3>3. retries \in Nat /\ overlap \in BOOLEAN
            /\ schedule \in ScheduleKinds \cup {"none"}
        BY ConstantsAssumption
      <3>4. jobs' \in [Jobs -> JobRow]
        BY <3>1, <3>2, <3>3 DEF TypeOK, JobRow, Time
      <3> QED BY <2>1, <3>4 DEF CreateJob, TypeOK, TickSession, HeldVisible,
                                Visible, Present
    <2>2. CASE PatchJob(j)
      <3>1. jobs' \in [Jobs -> JobRow]
        <4>1. PICK on \in BOOLEAN, overlap \in OverlapChoices,
                   retries \in 0..MaxRetries :
                jobs' = [jobs EXCEPT ![j] =
                  [jobs[j] EXCEPT !.enabled = on, !.allowOverlap = overlap,
                                  !.maxRetries = retries]]
          BY <2>2 DEF PatchJob
        <4>2. retries \in Nat /\ overlap \in BOOLEAN
          BY ConstantsAssumption
        <4> DEFINE row == [jobs[j] EXCEPT !.enabled = on,
                             !.allowOverlap = overlap, !.maxRetries = retries]
        <4>3. row \in JobRow
          <5>1. jobs[j] \in JobRow
            BY DEF TypeOK
          <5> QED BY <4>2, <5>1 DEF JobRow
        <4>4. jobs' = [jobs EXCEPT ![j] = row]
          BY <4>1
        <4> HIDE DEF row
        <4> QED BY <4>3, <4>4 DEF TypeOK
      <3> QED BY <2>2, <3>1 DEF PatchJob, TypeOK, TickSession, HeldVisible,
                                Visible, Present
    <2>3. CASE PutSchedule(j)
      <3>1. jobs' \in [Jobs -> JobRow]
        BY <2>3, ConstantsAssumption DEF PutSchedule, TypeOK, JobRow
      <3> QED BY <2>3, <3>1 DEF PutSchedule, TypeOK, TickSession, HeldVisible,
                                Visible, Present
    <2> QED BY <1>2, <2>1, <2>2, <2>3
  <1>3. ASSUME NEW q \in Requests, NEW j \in Jobs, ManualCheck(q, j)
        PROVE  TypeInv'
    BY <1>3 DEF ManualCheck, TypeOK, TickSession, HeldVisible, Visible, Present
  <1>4. ASSUME NEW q \in Requests, ManualEnqueue(q)
        PROVE  TypeInv'
    <2>1. PICK j \in request[q], r \in RunIds :
            /\ IsNextId(r)
            /\ runs' = [runs EXCEPT ![r] = QueuedRow(j, "manual", 1, NoRun)]
      BY <1>4 DEF ManualEnqueue
    <2>2. j \in Jobs
      BY <1>4 DEF TypeOK
    <2>3. QueuedRow(j, "manual", 1, NoRun) \in RunRow
          /\ QueuedRow(j, "manual", 1, NoRun).status = "queued"
      BY <2>2, QueuedRowTyped
    <2>4. runs' \in [RunIds -> RunRow]
      BY <2>1, <2>3 DEF TypeOK
    <2>5. \A s \in RunIds : runs[s].status = "queued" => runs'[s].status = "queued"
      BY <2>1, <2>3 DEF TypeOK
    <2>6. \A s \in RunIds : Visible(s) => Visible(s)'
      BY <1>4, <2>1, <2>3 DEF ManualEnqueue, TypeOK, Visible, Present
    <2> QED BY <1>4, <2>4, <2>5, <2>6
            DEF ManualEnqueue, TypeOK, TickSession, HeldVisible
  <1>5. ASSUME NEW q \in Requests, ManualFail(q)
        PROVE  TypeInv'
    BY <1>5 DEF ManualFail, TypeOK, TickSession, HeldVisible, Visible, Present
  <1> QED BY <1>1, <1>2, <1>3, <1>4, <1>5 DEF Admin

\* Moving next_run_at of a loaded job keeps the loaded jobs typed.
LEMMA SeenTyped ==
    ASSUME TypeOK, NEW j \in DOMAIN tick.seen, NEW jitter \in 0..Jitter,
           NEW seen,
           seen = [tick.seen EXCEPT ![j].nextRunAt =
                     AdvanceNextRun(@, tick.now, jitter)]
    PROVE  seen \in [DOMAIN tick.seen -> JobRow] /\ DOMAIN seen = DOMAIN tick.seen
  <1> DEFINE n == AdvanceNextRun(tick.seen[j].nextRunAt, tick.now, jitter)
             row == [tick.seen[j] EXCEPT !.nextRunAt = n]
  <1>1. tick.seen[j] \in JobRow /\ tick.now \in Nat
    BY DEF TypeOK, TickSession
  <1>2. n \in Nat
    BY <1>1, AdvanceTyped DEF JobRow
  <1>3. row \in JobRow
    BY <1>1, <1>2 DEF JobRow, Time
  <1>4. seen = [tick.seen EXCEPT ![j] = row]
    OBVIOUS
  <1> HIDE DEF row
  <1> QED BY <1>3, <1>4 DEF TypeOK

\* What a step of the tick that inserts at most the row r has to show.
LEMMA TickInsertType ==
    ASSUME TypeInv,
           UNCHANGED <<clock, jobs, worker, request>>, crashes' \in Nat,
           lock' \in Workers \cup {"free", "scheduler"},
           runs' \in [RunIds -> RunRow],
           \A s \in RunIds : Present(s) => runs'[s].status = runs[s].status,
           tick' \in TickSession',
           tick'.seen \in [DOMAIN tick'.seen -> JobRow],
           DOMAIN tick'.seen \subseteq Jobs,
           tick'.due \cup tick'.dirty \subseteq DOMAIN tick'.seen,
           \A s \in tick'.inserted \ tick.inserted :
             ~Present(s) /\ runs'[s].status = "queued"
    PROVE  TypeInv'
  <1>1. \A s \in RunIds : Visible(s) => Visible(s)'
    BY DEF Visible, Present, TypeInv, TypeOK, TickSession
  <1>2. tick'.inserted \subseteq RunIds
    BY DEF TickSession
  <1>3. \A s \in tick'.inserted : runs'[s].status = "queued"
    <2> SUFFICES ASSUME NEW s \in tick'.inserted PROVE runs'[s].status = "queued"
      OBVIOUS
    <2>1. CASE s \in tick.inserted
      BY <2>1, <1>2 DEF TypeInv, TypeOK, Present
    <2> QED BY <2>1
  <1>4. HeldVisible'
    BY <1>1 DEF TypeInv, TypeOK, HeldVisible
  <1> QED BY <1>3, <1>4 DEF TypeInv, TypeOK

LEMMA LockTyped ==
    ASSUME NEW w \in Workers \cup {"scheduler"}, TypeOK,
           lock' = Holding(w) \/ ReleaseBy(w) \/ UNCHANGED lock
    PROVE  lock' \in Workers \cup {"free", "scheduler"}
    BY DEF TypeOK, Holding, ReleaseBy

LEMMA TickJobType ==
    ASSUME TypeInv, NEW j \in Jobs, TickJob(j)
    PROVE  TypeInv'
  <1> USE DEF TypeInv
  <1>1. j \in DOMAIN tick.seen
    BY DEF TickJob, TypeOK
  <1>2. lock' \in Workers \cup {"free", "scheduler"}
    BY LockTyped DEF TickJob, TickSkipOverlap, TickSkipUnscheduled, TickEnqueue
  <1>3. 0 \in 0..Jitter
    BY ConstantsAssumption
  <1>4. CASE TickSkipOverlap(j) \/ TickSkipUnscheduled(j)
    <2>1. \/ tick' = [tick EXCEPT !.due = @ \ {j}]
          \/ tick' = [tick EXCEPT !.due = @ \ {j}, !.dirty = @ \cup {j},
                        !.seen[j].nextRunAt = AdvanceNextRun(@, tick.now, 0)]
      BY <1>4 DEF TickSkipOverlap, TickSkipUnscheduled
    <2>2. runs' = runs
      BY <1>4 DEF TickSkipOverlap, TickSkipUnscheduled
    <2>3. CASE tick' = [tick EXCEPT !.due = @ \ {j}]
      BY <2>2, <2>3, <1>2, TickInsertType DEF TickJob, TypeOK, TickSession
    <2>4. CASE tick' = [tick EXCEPT !.due = @ \ {j}, !.dirty = @ \cup {j},
                          !.seen[j].nextRunAt = AdvanceNextRun(@, tick.now, 0)]
      <3>1. tick'.seen = [tick.seen EXCEPT ![j].nextRunAt =
                            AdvanceNextRun(@, tick.now, 0)]
        BY <2>4 DEF TypeOK, TickSession
      <3>2. tick'.seen \in [DOMAIN tick.seen -> JobRow]
            /\ DOMAIN tick'.seen = DOMAIN tick.seen
        BY <1>1, <1>3, <3>1, SeenTyped
      <3>3. /\ tick' \in TickSession' /\ tick'.inserted = tick.inserted
            /\ tick'.due \cup tick'.dirty \subseteq DOMAIN tick.seen
        BY <2>4, <1>1 DEF TypeOK, TickSession
      <3> QED BY <2>2, <1>2, <3>2, <3>3, TickInsertType DEF TickJob, TypeOK
    <2> QED BY <2>1, <2>3, <2>4
  <1>5. CASE TickEnqueue(j)
    <2>1. PICK r \in RunIds, jitter \in 0..Jitter :
            /\ IsNextId(r)
            /\ runs' = [runs EXCEPT ![r] = QueuedRow(j, "scheduled", 1, NoRun)]
            /\ \/ tick' = [tick EXCEPT
                    !.due = @ \ {j}, !.inserted = @ \cup {r},
                    !.dirty = @ \cup {j},
                    !.seen[j].nextRunAt = AdvanceNextRun(@, tick.now, jitter)]
               \/ tick' = [tick EXCEPT !.due = @ \ {j}, !.inserted = @ \cup {r}]
      BY <1>5 DEF TickEnqueue
    <2>2. QueuedRow(j, "scheduled", 1, NoRun) \in RunRow
          /\ QueuedRow(j, "scheduled", 1, NoRun).status = "queued"
      BY QueuedRowTyped
    <2>3. ~Present(r)
      BY <2>1, NextIdFresh
    <2>4. /\ runs' \in [RunIds -> RunRow] /\ runs'[r].status = "queued"
          /\ \A s \in RunIds : Present(s) => runs'[s].status = runs[s].status
      BY <2>1, <2>2, <2>3 DEF TypeOK
    <2>5. CASE tick' = [tick EXCEPT !.due = @ \ {j}, !.inserted = @ \cup {r}]
      BY <2>3, <2>4, <2>5, <1>2, TickInsertType DEF TickJob, TypeOK, TickSession
    <2>6. CASE tick' = [tick EXCEPT
                  !.due = @ \ {j}, !.inserted = @ \cup {r},
                  !.dirty = @ \cup {j},
                  !.seen[j].nextRunAt = AdvanceNextRun(@, tick.now, jitter)]
      <3>1. tick'.seen = [tick.seen EXCEPT ![j].nextRunAt =
                            AdvanceNextRun(@, tick.now, jitter)]
        BY <2>6 DEF TypeOK, TickSession
      <3>2. tick'.seen \in [DOMAIN tick.seen -> JobRow]
            /\ DOMAIN tick'.seen = DOMAIN tick.seen
        BY <1>1, <3>1, SeenTyped
      <3>3. /\ tick' \in TickSession' /\ tick'.inserted = tick.inserted \cup {r}
            /\ tick'.due \cup tick'.dirty \subseteq DOMAIN tick.seen
        BY <2>6, <1>1 DEF TypeOK, TickSession
      <3> QED BY <2>3, <2>4, <1>2, <3>2, <3>3, TickInsertType DEF TickJob, TypeOK
    <2> QED BY <2>1, <2>5, <2>6
  <1> QED BY <1>4, <1>5 DEF TickJob

LEMMA TickRetryType ==
    ASSUME TypeInv, NEW r \in RunIds, TickRetry(r)
    PROVE  TypeInv'
  <1> USE DEF TypeInv
  <1>1. lock' \in Workers \cup {"free", "scheduler"}
    BY LockTyped DEF TickRetry, RetryDisabled, RetryExhaust, RetryLater,
                     RetryEnqueue
  <1>2. CASE RetryDisabled(r) \/ RetryExhaust(r) \/ RetryLater(r)
    <2>1. \/ tick' = [tick EXCEPT !.cands = @ \ {r}]
          \/ tick' = [tick EXCEPT !.cands = @ \ {r}, !.processed = @ \cup {r}]
          \/ tick' = [tick EXCEPT !.cands = @ \ {r}, !.processed = @ \cup {r},
                                  !.exhausted = @ \cup {r}]
      BY <1>2 DEF RetryDisabled, RetryExhaust, RetryLater
    <2>2. runs' = runs
      BY <1>2 DEF RetryDisabled, RetryExhaust, RetryLater
    <2>3. /\ tick' \in TickSession' /\ tick'.inserted = tick.inserted
          /\ tick'.seen = tick.seen
          /\ tick'.due = tick.due /\ tick'.dirty = tick.dirty
      <3>1. CASE tick' = [tick EXCEPT !.cands = @ \ {r}]
        BY <3>1 DEF TypeOK, TickSession
      <3>2. CASE tick' = [tick EXCEPT !.cands = @ \ {r},
                                      !.processed = @ \cup {r}]
        BY <3>2 DEF TypeOK, TickSession
      <3>3. CASE tick' = [tick EXCEPT !.cands = @ \ {r},
                                      !.processed = @ \cup {r},
                                      !.exhausted = @ \cup {r}]
        BY <3>3 DEF TypeOK, TickSession
      <3> QED BY <2>1, <3>1, <3>2, <3>3
    <2> QED BY <1>1, <2>2, <2>3, TickInsertType DEF TickRetry, TypeOK
  <1>3. CASE RetryEnqueue(r)
    <2>1. PICK c \in RunIds :
            /\ IsNextId(c)
            /\ runs' = [runs EXCEPT ![c] =
                 QueuedRow(runs[r].job, "retry", runs[r].attempt + 1, r)]
            /\ tick' = [tick EXCEPT !.cands = @ \ {r},
                                    !.processed = @ \cup {r},
                                    !.inserted = @ \cup {c}]
      BY <1>3 DEF RetryEnqueue
    <2> DEFINE row == QueuedRow(runs[r].job, "retry", runs[r].attempt + 1, r)
    <2>2. row \in RunRow /\ row.status = "queued"
      <3>1. runs[r].job \in Jobs /\ runs[r].attempt + 1 \in Nat
        BY DEF TypeOK, RunRow
      <3> QED BY <3>1, QueuedRowTyped
    <2>3. ~Present(c)
      BY <2>1, NextIdFresh
    <2> HIDE DEF row
    <2>4. /\ runs' \in [RunIds -> RunRow] /\ runs'[c].status = "queued"
          /\ \A s \in RunIds : Present(s) => runs'[s].status = runs[s].status
      BY <2>1, <2>2, <2>3 DEF TypeOK, row
    <2>5. /\ tick' \in TickSession' /\ tick'.inserted = tick.inserted \cup {c}
          /\ tick'.seen = tick.seen
          /\ tick'.due = tick.due /\ tick'.dirty = tick.dirty
      BY <2>1 DEF TypeOK, TickSession
    <2> QED BY <1>1, <2>3, <2>4, <2>5, TickInsertType DEF TickRetry, TypeOK
  <1> QED BY <1>2, <1>3 DEF TickRetry

LEMMA TickRollbackType ==
    ASSUME TypeInv, TickRollback, crashes' \in Nat
    PROVE  TypeInv'
  <1> USE DEF TypeInv
  <1>1. runs' \in [RunIds -> RunRow]
    BY NoRunRowTyped DEF TickRollback, TypeOK
  <1>2. \A s \in RunIds : Visible(s) => Visible(s)'
    BY IdleTickTyped DEF TickRollback, TypeOK, Visible, Present
  <1>3. /\ tick' \in TickSession' /\ tick'.seen \in [DOMAIN tick'.seen -> JobRow]
        /\ DOMAIN tick'.seen = {} /\ tick'.inserted = {}
        /\ tick'.due = {} /\ tick'.dirty = {}
    BY DEF TickRollback, IdleTick, TickSession
  <1>4. lock' \in Workers \cup {"free", "scheduler"}
    BY LockTyped DEF TickRollback
  <1> QED BY <1>1, <1>2, <1>3, <1>4 DEF TickRollback, TypeOK, HeldVisible

LEMMA TickType ==
    ASSUME TypeInv, TickStep \/ TickCrash
    PROVE  TypeInv'
  <1> USE DEF TypeInv
  <1>1. CASE TickStart
    <2>1. PICK due \in SUBSET DueJobs(clock) :
            tick' = [IdleTick EXCEPT !.pc = "jobs", !.now = clock, !.due = due,
                                     !.seen = [j \in due |-> jobs[j]]]
      BY <1>1 DEF TickStart
    <2>2. due \subseteq Jobs
      BY DEF DueJobs
    <2>3. /\ tick' \in TickSession' /\ tick'.inserted = {}
          /\ tick'.due = due /\ tick'.dirty = {}
          /\ tick'.seen = [j \in due |-> jobs[j]]
      BY <2>1, <2>2 DEF IdleTick, TickSession, TypeOK
    <2> QED BY <1>1, <2>2, <2>3, TickInsertType DEF TickStart, TypeOK
  <1>2. CASE TickListRetries
    <2>1. PICK cands \in SUBSET RetryCandidates :
            tick' = [tick EXCEPT !.pc = "retries", !.cands = cands]
      BY <1>2 DEF TickListRetries
    <2>2. cands \subseteq RunIds
      BY DEF RetryCandidates
    <2> QED BY <1>2, <2>1, <2>2, TickInsertType DEF TickListRetries, TypeOK,
                                                    TickSession
  <1>3. CASE TickCommit
    <2>1. jobs' \in [Jobs -> JobRow]
      <3> SUFFICES ASSUME NEW j \in Jobs, j \in tick.dirty
                   PROVE  [jobs[j] EXCEPT !.nextRunAt = tick.seen[j].nextRunAt]
                            \in JobRow
        BY <1>3 DEF TickCommit, TypeOK
      <3>1. jobs[j] \in JobRow /\ tick.seen[j].nextRunAt \in Time
        BY DEF TypeOK, JobRow
      <3> QED BY <3>1 DEF JobRow
    <2>2. \A r \in RunIds :
             runs'[r] = [runs[r] EXCEPT
                           !.retryProcessed = @ \/ r \in tick.processed,
                           !.retryExhausted = @ \/ r \in tick.exhausted]
      BY <1>3 DEF TickCommit
    <2>3. \A r \in RunIds :
             runs'[r] \in RunRow /\ runs'[r].status = runs[r].status
      <3> SUFFICES ASSUME NEW r \in RunIds
                   PROVE  runs'[r] \in RunRow /\ runs'[r].status = runs[r].status
        OBVIOUS
      <3>1. runs[r] \in RunRow
        BY DEF TypeOK
      <3>2. PICK p \in BOOLEAN, e \in BOOLEAN :
              runs'[r] = [runs[r] EXCEPT !.retryProcessed = p,
                                         !.retryExhausted = e]
        BY <2>2, Zenon
      <3> QED BY <3>1, <3>2 DEF RunRow
    <2>4. runs' \in [RunIds -> RunRow]
      BY <1>3, <2>3 DEF TickCommit
    <2>5. /\ tick' \in TickSession'
          /\ tick'.seen \in [DOMAIN tick'.seen -> JobRow]
          /\ DOMAIN tick'.seen = {} /\ tick'.inserted = {}
          /\ tick'.due = {} /\ tick'.dirty = {}
      <3>1. tick' = IdleTick
        BY <1>3 DEF TickCommit
      <3> QED BY <3>1 DEF IdleTick, TickSession
    <2>6. \A s \in RunIds : Visible(s) => Visible(s)'
      BY <2>3, <2>5 DEF Visible, Present
    <2>7. lock' \in Workers \cup {"free", "scheduler"}
      BY <1>3, LockTyped DEF TickCommit
    <2> QED BY <1>3, <2>1, <2>4, <2>5, <2>6, <2>7
            DEF TickCommit, TypeOK, HeldVisible
  <1>4. CASE TickCrash \/ TickLockTimeout
    <2>1. crashes' \in Nat
      BY <1>4 DEF TickCrash, TickLockTimeout, TypeOK
    <2> QED BY <1>4, <2>1, TickRollbackType DEF TickCrash, TickLockTimeout
  <1>5. ASSUME NEW j \in Jobs, TickJob(j) PROVE TypeInv'
    BY <1>5, TickJobType
  <1>6. ASSUME NEW r \in RunIds, TickRetry(r) PROVE TypeInv'
    BY <1>6, TickRetryType
  <1> QED BY <1>1, <1>2, <1>3, <1>4, <1>5, <1>6 DEF TickStep

\* What is left of a worker's step that leaves the rows alone.
LEMMA WorkerOnlyType ==
    ASSUME TypeInv, NEW w \in Workers,
           UNCHANGED <<clock, jobs, runs, tick, request>>, crashes' \in Nat,
           lock' \in Workers \cup {"free", "scheduler"},
           NEW pc \in {"idle", "selected", "executing"},
           NEW r \in RunIds \cup {NoRun},
           worker' = [worker EXCEPT ![w] = [pc |-> pc, run |-> r]],
           pc # "idle" => r \in RunIds /\ Visible(r)
    PROVE  TypeInv'
  <1> USE DEF TypeInv
  <1>1. worker' \in [Workers -> [pc: {"idle", "selected", "executing"},
                                 run: RunIds \cup {NoRun}]]
    BY DEF TypeOK
  <1>2. \A v \in Workers : worker'[v].pc # "idle" =>
           worker'[v].run \in RunIds /\ Visible(worker'[v].run)
    BY DEF TypeOK, HeldVisible
  <1>3. \A s \in RunIds : Visible(s) => Visible(s)'
    BY DEF Visible, Present
  <1>4. tick \in TickSession'
    BY DEF TypeOK, TickSession
  <1> QED BY <1>1, <1>2, <1>3, <1>4 DEF TypeOK, HeldVisible

LEMMA WorkerFinishType ==
    ASSUME TypeInv, NEW w \in Workers, WorkerFinish(w)
    PROVE  TypeInv'
  <1> USE DEF TypeInv
  <1> DEFINE r == worker[w].run
  <1>1. r \in RunIds /\ Visible(r)
    BY DEF WorkerFinish, Executing, TypeOK, HeldVisible
  <1>2. PICK status \in Terminal, b \in BOOLEAN :
          runs' = [runs EXCEPT ![r] =
                    [runs[r] EXCEPT !.status = status, !.finishedAt = clock,
                                    !.retryable = b]]
    BY Zenon DEF WorkerFinish
  <1> DEFINE row == [runs[r] EXCEPT !.status = status, !.finishedAt = clock,
                                    !.retryable = b]
  <1>3. row \in RunRow /\ row.status = status
    <2>1. runs[r] \in RunRow /\ clock \in Time
      BY <1>1 DEF TypeOK, Time
    <2> QED BY <2>1 DEF RunRow
  <1> HIDE DEF row, r
  <1>4. runs' = [runs EXCEPT ![r] = row]
    BY <1>2 DEF row, r
  <1>5. /\ runs' \in [RunIds -> RunRow]
        /\ \A s \in RunIds \ {r} : runs'[s] = runs[s]
        /\ runs'[r].status \in Terminal
    BY <1>1, <1>3, <1>4 DEF TypeOK
  <1>6. \A s \in RunIds : Visible(s) => Visible(s)'
    BY <1>1, <1>5 DEF WorkerFinish, Visible, Present, Terminal
  <1>7. \A s \in tick.inserted : runs'[s].status = "queued"
    BY <1>1, <1>5 DEF Visible, TypeOK, TickSession
  <1>8. worker' \in [Workers -> [pc: {"idle", "selected", "executing"},
                                 run: RunIds \cup {NoRun}]]
        /\ \A v \in Workers : worker'[v].pc # "idle" => worker'[v] = worker[v]
    BY DEF WorkerFinish, IdleWorker, TypeOK
  <1>9. lock' \in Workers \cup {"free", "scheduler"}
    BY LockTyped DEF WorkerFinish
  <1> QED BY <1>5, <1>6, <1>7, <1>8, <1>9
          DEF WorkerFinish, TypeOK, TickSession, HeldVisible

LEMMA WorkerType ==
    ASSUME TypeInv, NEW w \in Workers, WorkerStep(w) \/ WorkerCrash(w)
    PROVE  TypeInv'
  <1> USE DEF TypeInv
  <1>1. ASSUME WorkerClaim(w) \/ WorkerSelect(w)
        PROVE  TypeInv'
    <2>1. PICK r \in RunIds, pc \in {"selected", "executing"} :
            /\ Visible(r)
            /\ worker' = [worker EXCEPT ![w] = [pc |-> pc, run |-> r]]
      BY <1>1 DEF WorkerClaim, WorkerSelect, ClaimOldest, SelectOldest, OldestOf
    <2>2. UNCHANGED <<clock, jobs, runs, tick, request, lock, crashes>>
      BY <1>1 DEF WorkerClaim, WorkerSelect, ClaimOldest, SelectOldest
    <2> QED BY <2>1, <2>2, WorkerOnlyType DEF TypeOK
  <1>2. ASSUME WorkerFlush(w)
        PROVE  TypeInv'
    <2>1. worker[w].run \in RunIds /\ Visible(worker[w].run)
      BY <1>2 DEF WorkerFlush, TypeOK, HeldVisible
    <2>2. worker' = [worker EXCEPT ![w] =
                       [pc |-> "executing", run |-> worker[w].run]]
      <3>1. worker[w] \in [pc: {"idle", "selected", "executing"},
                           run: RunIds \cup {NoRun}]
        BY DEF TypeOK
      <3>2. [worker[w] EXCEPT !.pc = "executing"]
              = [pc |-> "executing", run |-> worker[w].run]
        BY <3>1
      <3>3. worker' = [worker EXCEPT ![w] =
                         [worker[w] EXCEPT !.pc = "executing"]]
        BY <1>2 DEF WorkerFlush
      <3> QED BY <3>2, <3>3, Zenon
    <2> QED BY <1>2, <2>1, <2>2, WorkerOnlyType DEF WorkerFlush, TypeOK
  <1>3. ASSUME WorkerLockTimeout(w) \/ WorkerRollback(w), crashes' \in Nat
        PROVE  TypeInv'
    <2>1. worker' = [worker EXCEPT ![w] = [pc |-> "idle", run |-> NoRun]]
      BY <1>3 DEF WorkerLockTimeout, WorkerRollback, IdleWorker
    <2>2. lock' \in Workers \cup {"free", "scheduler"}
      BY <1>3, LockTyped DEF WorkerLockTimeout, WorkerRollback
    <2> QED BY <1>3, <2>1, <2>2, WorkerOnlyType
            DEF WorkerLockTimeout, WorkerRollback, TypeOK
  <1>4. ASSUME WorkerCrash(w) \/ WorkerPoisoned(w) \/ WorkerLockTimeout(w)
        PROVE  crashes' \in Nat
    BY <1>4 DEF WorkerCrash, WorkerPoisoned, WorkerLockTimeout, TypeOK
  <1> QED BY <1>1, <1>2, <1>3, <1>4, WorkerFinishType
          DEF WorkerStep, WorkerCrash, WorkerPoisoned

LEMMA TypeStep == TypeInv /\ [Next]_vars => TypeInv'
  <1> SUFFICES ASSUME TypeInv, [Next]_vars PROVE TypeInv'
    OBVIOUS
  <1>1. CASE UNCHANGED vars
    BY <1>1 DEF vars, TypeInv, TypeOK, TickSession, HeldVisible, Visible, Present
  <1> QED BY <1>1, AdminType, TickType, WorkerType DEF Next

\* The rows and the sessions keep their types, whatever processes crash,
\* roll back or time out, on either backend.
THEOREM TypeCorrect == Spec => []TypeOK
  <1>1. TypeInv => TypeOK
    BY DEF TypeInv
  <1> QED BY <1>1, TypeInit, TypeStep, PTL DEF Spec

-----------------------------------------------------------------------------
(* What a step does to the rows and to the jobs.                            *)

\* What a run was entered as.
Entry(r) == <<runs[r].job, runs[r].trigger, runs[r].attempt, runs[r].retryOf>>

Inserting ==
    \/ \E q \in Requests : ManualEnqueue(q)
    \/ \E j \in Jobs : TickJob(j) /\ TickEnqueue(j)
    \/ \E r \in RunIds : TickRetry(r) /\ RetryEnqueue(r)

RowKept(r) ==
    /\ Entry(r)' = Entry(r)
    /\ Present(r)' <=> Present(r)
    /\ runs'[r].status = "queued" => runs[r].status = "queued"

\* The commit of a tick and the end of a run set other columns.
LEMMA CommitKeeps ==
    ASSUME TypeInv, TickCommit, NEW r \in RunIds
    PROVE  RowKept(r) /\ runs'[r].finishedAt = runs[r].finishedAt
  <1>1. runs[r] \in RunRow
    BY DEF TypeInv, TypeOK
  <1>2. PICK p \in BOOLEAN, e \in BOOLEAN :
          runs'[r] = [runs[r] EXCEPT !.retryProcessed = p, !.retryExhausted = e]
    BY Zenon DEF TickCommit
  <1> QED BY <1>1, <1>2 DEF RowKept, Entry, Present, RunRow

LEMMA FinishKeeps ==
    ASSUME TypeInv, NEW w \in Workers, WorkerFinish(w), NEW r \in RunIds
    PROVE  RowKept(r)
  <1> DEFINE f == worker[w].run
  <1>1. f \in RunIds /\ Present(f)
    BY DEF WorkerFinish, TypeInv, TypeOK, Executing, HeldVisible, Visible
  <1>2. PICK status \in Terminal, retryable \in BOOLEAN :
          runs' = [runs EXCEPT ![f] =
                     [@ EXCEPT !.status = status, !.finishedAt = clock,
                               !.retryable = retryable]]
    BY Zenon DEF WorkerFinish
  <1> HIDE DEF f
  <1>3. CASE r = f
    <2>1. runs[f] \in RunRow
      BY <1>1 DEF TypeInv, TypeOK
    <2>2. runs'[f] = [runs[f] EXCEPT !.status = status, !.finishedAt = clock,
                                     !.retryable = retryable]
      BY <1>1, <1>2 DEF TypeInv, TypeOK
    <2> QED BY <1>1, <1>3, <2>1, <2>2
            DEF RowKept, Entry, Present, RunRow, Terminal
  <1>4. CASE r # f
    BY <1>2, <1>4 DEF TypeInv, TypeOK, RowKept, Entry, Present
  <1> QED BY <1>3, <1>4

\* Every other step leaves the rows alone or takes back what the tick inserted.
LEMMA RowsKept ==
    ASSUME TypeInv, [Next]_vars, ~Inserting, NEW r \in RunIds
    PROVE  RowKept(r) \/ (TickRollback /\ r \in tick.inserted /\ runs'[r] = NoRunRow)
  <1>1. ASSUME UNCHANGED runs PROVE RowKept(r)
    BY <1>1 DEF RowKept, Entry, Present
  <1>2. CASE UNCHANGED vars \/ ClockTick \/ Admin
    BY <1>1, <1>2 DEF vars, ClockTick, Admin, CreateJob, PatchJob, PutSchedule,
                      ManualCheck, ManualFail, Inserting
  <1>3. CASE TickStart \/ TickListRetries
    BY <1>1, <1>3 DEF TickStart, TickListRetries
  <1>4. ASSUME NEW j \in Jobs, TickJob(j) PROVE RowKept(r)
    BY <1>1, <1>4 DEF TickJob, TickSkipOverlap, TickSkipUnscheduled, Inserting
  <1>5. ASSUME NEW s \in RunIds, TickRetry(s) PROVE RowKept(r)
    BY <1>1, <1>5 DEF TickRetry, RetryDisabled, RetryExhaust, RetryLater, Inserting
  <1>6. CASE TickRollback
    BY <1>6 DEF TickRollback, RowKept, Entry, Present
  <1>7. ASSUME NEW w \in Workers, WorkerStep(w) \/ WorkerCrash(w)
        PROVE  RowKept(r)
    BY <1>1, <1>7, FinishKeeps
       DEF WorkerStep, WorkerCrash, WorkerClaim, ClaimOldest, WorkerSelect,
           SelectOldest, WorkerFlush, WorkerLockTimeout, WorkerPoisoned,
           WorkerRollback
  <1> QED BY <1>2, <1>3, <1>4, <1>5, <1>6, <1>7, CommitKeeps
          DEF Next, TickStep, TickCrash, TickLockTimeout

\* An inserted row is new, and the others stay as they are.
LEMMA RowInserted ==
    ASSUME TypeInv, NEW r, IsNextId(r), NEW row, runs' = [runs EXCEPT ![r] = row]
    PROVE  /\ r \in RunIds /\ ~Present(r) /\ runs'[r] = row
           /\ \A s \in RunIds \ {r} : runs'[s] = runs[s]
    BY NextIdFresh DEF TypeInv, TypeOK

\* What the steps that insert have in common.
LEMMA InsertKinds ==
    ASSUME TypeInv, Inserting
    PROVE  \E r \in RunIds :
             /\ IsNextId(r)
             /\ \/ \E q \in Requests, j \in Jobs :
                      /\ ManualEnqueue(q)
                      /\ runs' = [runs EXCEPT ![r] = QueuedRow(j, "manual", 1, NoRun)]
                      /\ tick' = tick
                \/ \E j \in Jobs :
                      /\ TickJob(j) /\ TickEnqueue(j)
                      /\ runs' = [runs EXCEPT ![r] = QueuedRow(j, "scheduled", 1, NoRun)]
                      /\ tick'.inserted = tick.inserted \cup {r}
                      /\ tick'.now = tick.now
                \/ \E s \in RunIds :
                      /\ TickRetry(s) /\ RetryEnqueue(s)
                      /\ runs' = [runs EXCEPT ![r] =
                           QueuedRow(runs[s].job, "retry", runs[s].attempt + 1, s)]
                      /\ tick'.inserted = tick.inserted \cup {r}
                      /\ tick'.now = tick.now
                      /\ tick'.seen = tick.seen /\ tick'.dirty = tick.dirty
                      /\ tick'.due = tick.due
  <1>1. ASSUME NEW q \in Requests, ManualEnqueue(q)
        PROVE  \E r \in RunIds, j \in Jobs :
                 /\ IsNextId(r) /\ tick' = tick
                 /\ runs' = [runs EXCEPT ![r] = QueuedRow(j, "manual", 1, NoRun)]
    BY <1>1 DEF ManualEnqueue, TypeInv, TypeOK
  <1>2. ASSUME NEW j \in Jobs, TickJob(j), TickEnqueue(j)
        PROVE  \E r \in RunIds :
                 /\ IsNextId(r)
                 /\ runs' = [runs EXCEPT ![r] = QueuedRow(j, "scheduled", 1, NoRun)]
                 /\ tick'.inserted = tick.inserted \cup {r}
                 /\ tick'.now = tick.now
    <2>1. PICK r \in RunIds, jitter \in 0..Jitter :
            /\ IsNextId(r)
            /\ runs' = [runs EXCEPT ![r] = QueuedRow(j, "scheduled", 1, NoRun)]
            /\ \/ tick' = [tick EXCEPT
                    !.due = @ \ {j}, !.inserted = @ \cup {r},
                    !.dirty = @ \cup {j},
                    !.seen[j].nextRunAt = AdvanceNextRun(@, tick.now, jitter)]
               \/ tick' = [tick EXCEPT !.due = @ \ {j}, !.inserted = @ \cup {r}]
      BY <1>2 DEF TickEnqueue
    <2>2. tick'.inserted = tick.inserted \cup {r} /\ tick'.now = tick.now
      BY <2>1 DEF TypeInv, TypeOK, TickSession
    <2> QED BY <2>1, <2>2
  <1>3. ASSUME NEW s \in RunIds, TickRetry(s), RetryEnqueue(s)
        PROVE  \E r \in RunIds :
                 /\ IsNextId(r)
                 /\ runs' = [runs EXCEPT ![r] =
                      QueuedRow(runs[s].job, "retry", runs[s].attempt + 1, s)]
                 /\ tick'.inserted = tick.inserted \cup {r}
                 /\ tick'.now = tick.now
                 /\ tick'.seen = tick.seen /\ tick'.dirty = tick.dirty
                 /\ tick'.due = tick.due
    <2>1. PICK r \in RunIds :
            /\ IsNextId(r)
            /\ runs' = [runs EXCEPT ![r] =
                 QueuedRow(runs[s].job, "retry", runs[s].attempt + 1, s)]
            /\ tick' = [tick EXCEPT !.cands = @ \ {s}, !.processed = @ \cup {s},
                                    !.inserted = @ \cup {r}]
      BY <1>3 DEF RetryEnqueue
    <2> QED BY <2>1 DEF TypeInv, TypeOK, TickSession
  <1> QED BY <1>1, <1>2, <1>3, Zenon DEF Inserting

\* Operators choose among the values of the constants, and a tick works with
\* objects that hold such values, too.
Chosen(row) ==
    row.maxRetries <= MaxRetries /\ row.allowOverlap \in OverlapChoices \cup {FALSE}

SettingsInv ==
    /\ \A j \in Jobs : Chosen(jobs[j])
    /\ \A j \in DOMAIN tick.seen : Chosen(tick.seen[j])

\* What an iteration of the first loop does to the session.
LEMMA TickJobSession ==
    ASSUME TypeInv, NEW j \in Jobs, TickJob(j)
    PROVE  /\ tick'.now = tick.now /\ tick'.due = tick.due \ {j}
           /\ j \in DOMAIN tick.seen /\ j \in tick.due
           /\ DOMAIN tick'.seen = DOMAIN tick.seen
           /\ \A i \in DOMAIN tick.seen \ {j} : tick'.seen[i] = tick.seen[i]
           /\ \/ tick'.seen = tick.seen /\ tick'.dirty = tick.dirty
                 /\ ~(TickEnqueue(j) /\ jobs[j].schedule = "valid")
              \/ \E jitter \in 0 .. Jitter :
                    /\ tick'.dirty = tick.dirty \cup {j}
                    /\ tick'.seen[j] = [tick.seen[j] EXCEPT !.nextRunAt =
                                           AdvanceNextRun(@, tick.now, jitter)]
  <1> DEFINE Moved ==
               /\ tick'.now = tick.now /\ tick'.due = tick.due \ {j}
               /\ DOMAIN tick'.seen = DOMAIN tick.seen
               /\ \A i \in DOMAIN tick.seen \ {j} : tick'.seen[i] = tick.seen[i]
               /\ \E jitter \in 0 .. Jitter :
                    /\ tick'.dirty = tick.dirty \cup {j}
                    /\ tick'.seen[j] = [tick.seen[j] EXCEPT !.nextRunAt =
                                           AdvanceNextRun(@, tick.now, jitter)]
  <1> USE DEF TypeInv
  <1>1. j \in DOMAIN tick.seen /\ j \in tick.due /\ 0 \in 0 .. Jitter
    BY ConstantsAssumption DEF TickJob, TypeOK
  <1>2. ASSUME NEW jitter \in 0 .. Jitter, NEW ins,
               tick' = [tick EXCEPT !.due = @ \ {j}, !.dirty = @ \cup {j},
                          !.inserted = ins,
                          !.seen[j].nextRunAt = AdvanceNextRun(@, tick.now, jitter)]
        PROVE  Moved
    <2> DEFINE row == [tick.seen[j] EXCEPT !.nextRunAt =
                          AdvanceNextRun(@, tick.now, jitter)]
    <2>1. /\ tick'.now = tick.now /\ tick'.due = tick.due \ {j}
          /\ tick'.dirty = tick.dirty \cup {j}
          /\ tick'.seen = [tick.seen EXCEPT ![j] = row]
      BY <1>2 DEF TypeOK, TickSession
    <2> HIDE DEF row
    <2>2. /\ DOMAIN tick'.seen = DOMAIN tick.seen /\ tick'.seen[j] = row
          /\ \A i \in DOMAIN tick.seen \ {j} : tick'.seen[i] = tick.seen[i]
      BY <1>1, <2>1 DEF TypeOK
    <2> QED BY <2>1, <2>2 DEF row
  <1>5. ASSUME Moved
        PROVE  /\ tick'.now = tick.now /\ tick'.due = tick.due \ {j}
               /\ j \in DOMAIN tick.seen /\ j \in tick.due
               /\ DOMAIN tick'.seen = DOMAIN tick.seen
               /\ \A i \in DOMAIN tick.seen \ {j} : tick'.seen[i] = tick.seen[i]
               /\ \/ tick'.seen = tick.seen /\ tick'.dirty = tick.dirty
                     /\ ~(TickEnqueue(j) /\ jobs[j].schedule = "valid")
                  \/ \E jitter \in 0 .. Jitter :
                        /\ tick'.dirty = tick.dirty \cup {j}
                        /\ tick'.seen[j] = [tick.seen[j] EXCEPT !.nextRunAt =
                                               AdvanceNextRun(@, tick.now, jitter)]
    BY <1>1, <1>5
  <1> HIDE DEF Moved
  <1>3. CASE TickSkipOverlap(j) \/ TickSkipUnscheduled(j)
    <2>1. CASE tick' = [tick EXCEPT !.due = @ \ {j}]
      <3>1. ~(TickEnqueue(j) /\ jobs[j].schedule = "valid")
        BY <1>3 DEF TickSkipOverlap, TickSkipUnscheduled, TickEnqueue
      <3> QED BY <1>1, <2>1, <3>1 DEF TypeOK, TickSession
    <2>2. CASE tick' = [tick EXCEPT !.due = @ \ {j}, !.dirty = @ \cup {j},
                          !.seen[j].nextRunAt = AdvanceNextRun(@, tick.now, 0)]
      <3>1. tick' = [tick EXCEPT !.due = @ \ {j}, !.dirty = @ \cup {j},
                          !.inserted = tick.inserted,
                          !.seen[j].nextRunAt = AdvanceNextRun(@, tick.now, 0)]
        BY <2>2 DEF TypeOK, TickSession
      <3> QED BY <1>1, <1>2, <1>5, <3>1
    <2> QED BY <1>3, <2>1, <2>2 DEF TickSkipOverlap, TickSkipUnscheduled
  <1>4. CASE TickEnqueue(j)
    <2>1. PICK r \in RunIds, jitter \in 0..Jitter :
            IF jobs[j].schedule = "valid"
            THEN tick' = [tick EXCEPT
                   !.due = @ \ {j}, !.inserted = @ \cup {r},
                   !.dirty = @ \cup {j},
                   !.seen[j].nextRunAt = AdvanceNextRun(@, tick.now, jitter)]
            ELSE tick' = [tick EXCEPT !.due = @ \ {j}, !.inserted = @ \cup {r}]
      BY <1>4 DEF TickEnqueue
    <2>2. CASE jobs[j].schedule # "valid"
      BY <1>1, <2>1, <2>2 DEF TypeOK, TickSession
    <2>3. CASE jobs[j].schedule = "valid"
      <3>1. tick' = [tick EXCEPT !.due = @ \ {j}, !.dirty = @ \cup {j},
                          !.inserted = tick.inserted \cup {r},
                          !.seen[j].nextRunAt = AdvanceNextRun(@, tick.now, jitter)]
        BY <2>1, <2>3 DEF TypeOK, TickSession
      <3> QED BY <1>1, <1>2, <1>5, <3>1
    <2> QED BY <2>2, <2>3
  <1> QED BY <1>3, <1>4 DEF TickJob

\* The other steps of the tick leave what it has loaded alone, or forget it.
LEMMA TickSessionKept ==
    ASSUME TypeInv, [Next]_vars, ~TickStart, \A j \in Jobs : ~TickJob(j)
    PROVE  \/ /\ tick'.now = tick.now /\ tick'.due = tick.due
              /\ tick'.seen = tick.seen /\ tick'.dirty = tick.dirty
           \/ tick' = IdleTick /\ (TickCommit \/ TickRollback)
  <1>1. CASE TickListRetries
    BY <1>1 DEF TickListRetries, TypeInv, TypeOK, TickSession
  <1>2. ASSUME NEW r \in RunIds, TickRetry(r)
        PROVE  /\ tick'.now = tick.now /\ tick'.due = tick.due
               /\ tick'.seen = tick.seen /\ tick'.dirty = tick.dirty
    <2>1. CASE RetryDisabled(r) \/ RetryExhaust(r) \/ RetryLater(r)
      BY <2>1 DEF RetryDisabled, RetryExhaust, RetryLater, TypeInv, TypeOK,
                  TickSession
    <2>2. CASE RetryEnqueue(r)
      BY <1>2, <2>2, InsertKinds DEF Inserting, RetryEnqueue, TypeInv, TypeOK,
                                     TickSession
    <2> QED BY <1>2, <2>1, <2>2 DEF TickRetry
  <1>3. CASE TickCommit \/ TickCrash \/ TickLockTimeout
    BY <1>3 DEF TickCommit, TickCrash, TickLockTimeout, TickRollback
  <1>4. CASE UNCHANGED vars \/ ClockTick \/ Admin
    BY <1>4 DEF vars, ClockTick, Admin, CreateJob, PatchJob, PutSchedule,
                ManualCheck, ManualEnqueue, ManualFail
  <1>5. ASSUME NEW w \in Workers, WorkerStep(w) \/ WorkerCrash(w)
        PROVE  UNCHANGED tick
    BY <1>5 DEF WorkerStep, WorkerCrash, WorkerClaim, ClaimOldest, WorkerSelect,
                SelectOldest, WorkerFlush, WorkerLockTimeout, WorkerPoisoned,
                WorkerRollback, WorkerFinish
  <1> QED BY <1>1, <1>2, <1>3, <1>4, <1>5 DEF Next, TickStep

\* Jobs are changed by operators, and by the commit, which sets due times only.
LEMMA JobsChange ==
    ASSUME TypeInv, [Next]_vars, NEW j \in Jobs
    PROVE  \/ jobs'[j] = jobs[j]
           \/ /\ CreateJob(j) \/ PatchJob(j) \/ PutSchedule(j)
              /\ UNCHANGED <<clock, runs, tick>>
           \/ /\ TickCommit /\ j \in tick.dirty
              /\ jobs'[j] = [jobs[j] EXCEPT !.nextRunAt = tick.seen[j].nextRunAt]
  <1>1. CASE UNCHANGED jobs
    BY <1>1
  <1>2. ASSUME NEW i \in Jobs, CreateJob(i) \/ PatchJob(i) \/ PutSchedule(i),
               i # j
        PROVE  jobs'[j] = jobs[j]
    <2>1. PICK row : jobs' = [jobs EXCEPT ![i] = row]
      BY <1>2, Zenon DEF CreateJob, PatchJob, PutSchedule
    <2> QED BY <1>2, <2>1 DEF TypeInv, TypeOK
  <1>3. CASE CreateJob(j) \/ PatchJob(j) \/ PutSchedule(j)
    BY <1>3 DEF CreateJob, PatchJob, PutSchedule
  <1>4. CASE TickCommit
    BY <1>4, Zenon DEF TickCommit
  <1>5. ASSUME NEW w \in Workers, WorkerStep(w) \/ WorkerCrash(w)
        PROVE  UNCHANGED jobs
    BY <1>5 DEF WorkerStep, WorkerCrash, WorkerClaim, ClaimOldest, WorkerSelect,
                SelectOldest, WorkerFlush, WorkerLockTimeout, WorkerPoisoned,
                WorkerRollback, WorkerFinish
  <1>6. CASE UNCHANGED vars \/ ClockTick \/ \E q \in Requests :
                (\E i \in Jobs : ManualCheck(q, i)) \/ ManualEnqueue(q) \/ ManualFail(q)
    BY <1>1, <1>6 DEF vars, ClockTick, ManualCheck, ManualEnqueue, ManualFail
  <1>7. CASE TickStart \/ TickListRetries \/ TickLockTimeout \/ TickCrash
    BY <1>1, <1>7 DEF TickStart, TickListRetries, TickLockTimeout, TickCrash, TickRollback
  <1>8. CASE (\E i \in Jobs : TickJob(i)) \/ \E r \in RunIds : TickRetry(r)
    BY <1>1, <1>8 DEF TickJob, TickRetry
  <1> QED BY <1>1, <1>2, <1>3, <1>4, <1>5, <1>6, <1>7, <1>8
          DEF Next, Admin, TickStep

LEMMA SettingsInit == Init => SettingsInv
  <1> SUFFICES ASSUME Init PROVE SettingsInv
    OBVIOUS
  <1>1. Chosen(NoJobRow)
    BY ConstantsAssumption DEF Chosen, NoJobRow
  <1> QED BY <1>1, IdleTickTyped DEF Init, SettingsInv

LEMMA ChosenRow ==
    ASSUME NEW overlap \in OverlapChoices, NEW retries \in 0..MaxRetries, NEW row,
           row.allowOverlap = overlap, row.maxRetries = retries
    PROVE  Chosen(row)
  <1>1. retries <= MaxRetries
    BY ConstantsAssumption
  <1>2. overlap \in OverlapChoices \cup {FALSE}
    BY Zenon
  <1> QED BY <1>1, <1>2, Zenon DEF Chosen

LEMMA SettingsStep ==
    ASSUME TypeInv, SettingsInv, [Next]_vars
    PROVE  SettingsInv'
  <1>1. ASSUME NEW j \in Jobs PROVE Chosen(jobs'[j])
    <2>0. jobs[j] \in JobRow /\ Chosen(jobs[j])
      BY DEF TypeInv, TypeOK, SettingsInv
    <2>1. CASE jobs'[j] = jobs[j]
      BY <2>0, <2>1
    <2>2. CASE CreateJob(j)
      <3>1. PICK overlap \in OverlapChoices, retries \in 0..MaxRetries,
                 schedule \in ScheduleChoices \cup {"none"}, jitter \in 0..Jitter :
              jobs' = [jobs EXCEPT ![j] =
                [exists |-> TRUE, enabled |-> TRUE, allowOverlap |-> overlap,
                 maxRetries |-> retries, schedule |-> schedule,
                 nextRunAt |-> IF schedule \in {"valid", "disabled"}
                               THEN clock + Interval + jitter ELSE NoTime]]
        BY <2>2 DEF CreateJob
      <3>2. jobs'[j].maxRetries = retries /\ jobs'[j].allowOverlap = overlap
        BY <3>1 DEF TypeInv, TypeOK
      <3> QED BY <3>2, ChosenRow
    <2>3. CASE PatchJob(j)
      <3>1. PICK on \in BOOLEAN, overlap \in OverlapChoices, retries \in 0..MaxRetries :
              jobs' = [jobs EXCEPT ![j] =
                [@ EXCEPT !.enabled = on, !.allowOverlap = overlap,
                          !.maxRetries = retries]]
        BY <2>3 DEF PatchJob
      <3>2. jobs'[j] = [jobs[j] EXCEPT !.enabled = on, !.allowOverlap = overlap,
                                       !.maxRetries = retries]
        BY <3>1 DEF TypeInv, TypeOK
      <3>3. jobs'[j].maxRetries = retries /\ jobs'[j].allowOverlap = overlap
        BY <2>0, <3>2, ConstantsAssumption DEF JobRow
      <3> QED BY <3>3, ChosenRow
    <2>4. CASE PutSchedule(j)
      <3>1. PICK schedule \in ScheduleChoices :
              jobs' = [jobs EXCEPT ![j] = [jobs[j] EXCEPT !.schedule = schedule]]
        BY <2>4 DEF PutSchedule
      <3> DEFINE row == [jobs[j] EXCEPT !.schedule = schedule]
      <3>2. row.maxRetries = jobs[j].maxRetries /\ row.allowOverlap = jobs[j].allowOverlap
        BY <2>0 DEF JobRow
      <3> HIDE DEF row
      <3>3. jobs'[j] = row
        BY <3>1 DEF TypeInv, TypeOK, row
      <3> QED BY <2>0, <3>2, <3>3 DEF Chosen
    <2>5. ASSUME NEW n, jobs'[j] = [jobs[j] EXCEPT !.nextRunAt = n]
          PROVE  Chosen(jobs'[j])
      BY <2>0, <2>5 DEF Chosen, JobRow
    <2> QED BY <2>1, <2>2, <2>3, <2>4, <2>5, JobsChange
  <1>2. ASSUME NEW j \in DOMAIN tick'.seen PROVE Chosen(tick'.seen[j])
    <2>1. CASE TickStart
      <3>1. PICK due \in SUBSET DueJobs(clock) :
              tick' = [IdleTick EXCEPT !.pc = "jobs", !.now = clock, !.due = due,
                                       !.seen = [i \in due |-> jobs[i]]]
        BY <2>1 DEF TickStart
      <3>2. tick'.seen = [i \in due |-> jobs[i]] /\ due \subseteq Jobs
        BY <3>1 DEF IdleTick, DueJobs
      <3> QED BY <1>2, <3>2 DEF SettingsInv
    <2>2. ASSUME NEW i \in Jobs, TickJob(i) PROVE Chosen(tick'.seen[j])
      <3>1. CASE tick'.seen[j] = tick.seen[j] /\ j \in DOMAIN tick.seen
        BY <3>1 DEF SettingsInv
      <3>2. ASSUME NEW n, tick'.seen[j] = [tick.seen[j] EXCEPT !.nextRunAt = n],
                   j \in DOMAIN tick.seen
            PROVE  Chosen(tick'.seen[j])
        <4>1. tick.seen[j] \in JobRow /\ Chosen(tick.seen[j])
          BY <3>2 DEF TypeInv, TypeOK, SettingsInv
        <4> QED BY <3>2, <4>1 DEF Chosen, JobRow
      <3> QED BY <1>2, <2>2, <3>1, <3>2, TickJobSession
    <2> QED BY <1>2, <2>1, <2>2, TickSessionKept, IdleTickTyped DEF SettingsInv
  <1> QED BY <1>1, <1>2 DEF SettingsInv

-----------------------------------------------------------------------------
(* Windows of the schedule.  A tick is not ahead of the clock, and a due     *)
(* time that it has moved is past its own time.                             *)

WindowInv ==
    /\ tick.now <= clock
    /\ \A j \in tick.dirty : tick.seen[j].nextRunAt > tick.now

\* advance_next_run goes to the future, by one interval at least.
LEMMA AdvanceBeyond ==
    ASSUME NEW current \in Nat, NEW now \in Nat, NEW jitter \in 0..Jitter
    PROVE  /\ AdvanceNextRun(current, now, jitter) > now
           /\ current <= now => AdvanceNextRun(current, now, jitter) >= current + Interval
    BY ConstantsAssumption DEF AdvanceNextRun

LEMMA AdvancePast ==
    ASSUME NEW current \in Time, NEW now \in Nat, NEW jitter \in 0..Jitter
    PROVE  AdvanceNextRun(current, now, jitter) > now
    BY ConstantsAssumption DEF AdvanceNextRun, Time, NoTime

LEMMA ClockGrows ==
    ASSUME TypeInv, [Next]_vars
    PROVE  clock' \in Nat /\ clock' >= clock
  <1>1. ASSUME NEW w \in Workers, WorkerStep(w) \/ WorkerCrash(w)
        PROVE  UNCHANGED clock
    BY <1>1 DEF WorkerStep, WorkerCrash, WorkerClaim, ClaimOldest, WorkerSelect,
                SelectOldest, WorkerFlush, WorkerLockTimeout, WorkerPoisoned,
                WorkerRollback, WorkerFinish
  <1>2. ASSUME Admin PROVE UNCHANGED clock
    BY <1>2 DEF Admin, CreateJob, PatchJob, PutSchedule, ManualCheck,
                ManualEnqueue, ManualFail
  <1>3. ASSUME TickStep \/ TickCrash PROVE UNCHANGED clock
    BY <1>3 DEF TickStep, TickStart, TickListRetries, TickCommit, TickCrash,
                TickLockTimeout, TickRollback, TickJob, TickRetry
  <1>4. CASE ClockTick
    BY <1>4 DEF ClockTick, TypeInv, TypeOK
  <1>5. CASE UNCHANGED clock
    BY <1>5 DEF TypeInv, TypeOK
  <1> QED BY <1>1, <1>2, <1>3, <1>4, <1>5 DEF Next, vars

LEMMA WindowStep ==
    ASSUME TypeInv, WindowInv, [Next]_vars
    PROVE  WindowInv'
  <1>1. clock' \in Nat /\ clock \in Nat /\ clock' >= clock /\ tick.now \in Nat
    BY ClockGrows DEF TypeInv, TypeOK, TickSession
  <1>2. CASE TickStart
    <2>1. PICK due \in SUBSET DueJobs(clock) :
            tick' = [IdleTick EXCEPT !.pc = "jobs", !.now = clock, !.due = due,
                                     !.seen = [i \in due |-> jobs[i]]]
      BY <1>2 DEF TickStart
    <2>2. tick'.now = clock /\ tick'.dirty = {}
      BY <2>1 DEF IdleTick
    <2> QED BY <1>1, <2>2 DEF WindowInv
  <1>3. ASSUME NEW j \in Jobs, TickJob(j) PROVE WindowInv'
    <2>1. ASSUME NEW i \in tick'.dirty PROVE tick'.seen[i].nextRunAt > tick.now
      <3>1. CASE i \in tick.dirty /\ tick'.seen[i] = tick.seen[i]
        BY <3>1 DEF WindowInv
      <3>2. CASE \E jitter \in 0 .. Jitter :
                   tick'.seen[i] = [tick.seen[i] EXCEPT !.nextRunAt =
                                       AdvanceNextRun(@, tick.now, jitter)]
                   /\ i \in DOMAIN tick.seen
        <4>1. PICK jitter \in 0 .. Jitter :
                   tick'.seen[i] = [tick.seen[i] EXCEPT !.nextRunAt =
                                       AdvanceNextRun(@, tick.now, jitter)]
          BY <3>2
        <4> DEFINE n == AdvanceNextRun(tick.seen[i].nextRunAt, tick.now, jitter)
        <4>2. tick.seen[i] \in JobRow /\ tick.seen[i].nextRunAt \in Time
          BY <3>2 DEF TypeInv, TypeOK, JobRow
        <4>3. n > tick.now
          BY <1>1, <4>2, AdvancePast
        <4>4. tick'.seen[i] = [tick.seen[i] EXCEPT !.nextRunAt = n]
          BY <4>1
        <4> HIDE DEF n
        <4>5. tick'.seen[i].nextRunAt = n
          BY <4>2, <4>4 DEF JobRow
        <4> QED BY <4>3, <4>5
      <3>3. tick.dirty \subseteq DOMAIN tick.seen
        BY DEF TypeInv, TypeOK
      <3> QED BY <1>3, <2>1, <3>1, <3>2, <3>3, TickJobSession
    <2>2. tick'.now = tick.now
      BY <1>3, TickJobSession
    <2> QED BY <1>1, <2>1, <2>2 DEF WindowInv
  <1>4. CASE ~TickStart /\ \A j \in Jobs : ~TickJob(j)
    <2>1. CASE /\ tick'.now = tick.now /\ tick'.seen = tick.seen
               /\ tick'.dirty = tick.dirty
      BY <1>1, <2>1 DEF WindowInv
    <2>2. CASE tick' = IdleTick
      BY <1>1, <2>2, IdleTickTyped DEF WindowInv
    <2> QED BY <1>4, <2>1, <2>2, TickSessionKept
  <1> QED BY <1>2, <1>3, <1>4

LEMMA WindowHolds == Spec => [](TypeInv /\ WindowInv)
  <1>1. Init => WindowInv
    BY IdleTickTyped DEF Init, WindowInv
  <1>2. TypeInv /\ WindowInv /\ [Next]_vars => WindowInv'
    BY WindowStep
  <1> QED BY <1>1, <1>2, TypeInit, TypeStep, PTL DEF Spec

\* Operators do not touch the due time of a job that exists.
LEMMA EditKeeps ==
    ASSUME TypeInv, NEW j \in Jobs, PatchJob(j) \/ PutSchedule(j)
    PROVE  /\ jobs'[j].nextRunAt = jobs[j].nextRunAt
           /\ jobs'[j].exists = jobs[j].exists
           /\ jobs'[j].schedule \in ScheduleChoices \cup {jobs[j].schedule}
  <1>1. jobs[j] \in JobRow
    BY DEF TypeInv, TypeOK
  <1>2. CASE PatchJob(j)
    <2>1. PICK on \in BOOLEAN, overlap \in OverlapChoices, retries \in 0..MaxRetries :
            jobs' = [jobs EXCEPT ![j] =
              [jobs[j] EXCEPT !.enabled = on, !.allowOverlap = overlap,
                              !.maxRetries = retries]]
      BY <1>2 DEF PatchJob
    <2> DEFINE row == [jobs[j] EXCEPT !.enabled = on, !.allowOverlap = overlap,
                                      !.maxRetries = retries]
    <2>2. /\ row.nextRunAt = jobs[j].nextRunAt /\ row.exists = jobs[j].exists
          /\ row.schedule = jobs[j].schedule
      BY <1>1 DEF JobRow
    <2> HIDE DEF row
    <2>3. jobs'[j] = row
      BY <2>1 DEF TypeInv, TypeOK, row
    <2> QED BY <2>2, <2>3
  <1>3. CASE PutSchedule(j)
    <2>1. PICK schedule \in ScheduleChoices :
            jobs' = [jobs EXCEPT ![j] = [jobs[j] EXCEPT !.schedule = schedule]]
      BY <1>3 DEF PutSchedule
    <2> DEFINE row == [jobs[j] EXCEPT !.schedule = schedule]
    <2>2. /\ row.nextRunAt = jobs[j].nextRunAt /\ row.exists = jobs[j].exists
          /\ row.schedule = schedule
      BY <1>1 DEF JobRow
    <2> HIDE DEF row
    <2>3. jobs'[j] = row
      BY <2>1 DEF TypeInv, TypeOK, row
    <2> QED BY <2>2, <2>3
  <1> QED BY <1>2, <1>3

\* A tick moves next_run_at past its own time (advance_next_run), whatever
\* schedule, jitter and delay.
THEOREM WindowsSafe == Spec => WindowsConsumed
  <1>1. ASSUME TypeInv, WindowInv, [Next]_vars, NEW j \in Jobs,
               jobs[j].exists, jobs'[j].nextRunAt # jobs[j].nextRunAt
        PROVE  jobs'[j].nextRunAt > tick.now
    <2>1. jobs[j] \in JobRow
      BY <1>1 DEF TypeInv, TypeOK
    <2>2. ~CreateJob(j)
      BY <1>1 DEF CreateJob
    <2>3. CASE PatchJob(j) \/ PutSchedule(j)
      BY <1>1, <2>3, EditKeeps
    <2>4. CASE /\ TickCommit /\ j \in tick.dirty
               /\ jobs'[j] = [jobs[j] EXCEPT !.nextRunAt = tick.seen[j].nextRunAt]
      <3>1. jobs'[j].nextRunAt = tick.seen[j].nextRunAt
        BY <2>1, <2>4 DEF JobRow
      <3> QED BY <1>1, <2>4, <3>1 DEF WindowInv
    <2> QED BY <1>1, <2>2, <2>3, <2>4, JobsChange
  <1>2. TypeInv /\ WindowInv /\ [Next]_vars =>
          [\A j \in Jobs :
             jobs[j].exists /\ jobs'[j].nextRunAt # jobs[j].nextRunAt
               => jobs'[j].nextRunAt > tick.now]_vars
    BY <1>1
  <1> QED BY <1>2, WindowHolds, PTL DEF Spec, WindowsConsumed

-----------------------------------------------------------------------------
(* The retry budget.                                                        *)

WithinBudget(row) ==
    /\ row.attempt \in 1..(MaxRetries + 1)
    /\ row.attempt = 1 <=> row.retryOf = NoRun

BudgetInv == \A r \in RunIds : WithinBudget(runs[r])

LEMMA FreshWithinBudget ==
    /\ WithinBudget(NoRunRow)
    /\ \A j, trigger : WithinBudget(QueuedRow(j, trigger, 1, NoRun))
  BY ConstantsAssumption DEF WithinBudget, NoRunRow, QueuedRow, NoRun

\* The job that the tick works with is one with settings an operator chose.
LEMMA JobOfChosen ==
    ASSUME TypeInv, SettingsInv, NEW s \in RunIds
    PROVE  JobOf(s) \in JobRow /\ Chosen(JobOf(s))
  <1>1. runs[s].job \in Jobs
    BY DEF TypeInv, TypeOK, RunRow
  <1> QED BY <1>1 DEF JobOf, TypeInv, TypeOK, SettingsInv

LEMMA BudgetStep ==
    ASSUME TypeInv, SettingsInv, BudgetInv, [Next]_vars
    PROVE  BudgetInv'
  <1> SUFFICES ASSUME NEW r \in RunIds PROVE WithinBudget(runs'[r])
    BY DEF BudgetInv
  <1>1. WithinBudget(runs[r])
    BY DEF BudgetInv
  <1>2. ASSUME Entry(r)' = Entry(r) PROVE WithinBudget(runs'[r])
    BY <1>1, <1>2 DEF Entry, WithinBudget
  <1>3. CASE ~Inserting
    BY <1>2, <1>3, RowsKept, FreshWithinBudget DEF RowKept
  <1>4. CASE Inserting
    <2>1. ASSUME NEW c \in RunIds, IsNextId(c), NEW row,
                 runs' = [runs EXCEPT ![c] = row], WithinBudget(row)
          PROVE  WithinBudget(runs'[r])
      BY <1>1, <2>1, RowInserted
    <2>2. ASSUME NEW s \in RunIds, RetryEnqueue(s)
          PROVE  WithinBudget(QueuedRow(runs[s].job, "retry", runs[s].attempt + 1, s))
      <3>1. /\ JobOf(s).maxRetries \in Nat /\ JobOf(s).maxRetries <= MaxRetries
        BY JobOfChosen DEF Chosen, JobRow
      <3>2. runs[s].attempt \in 1..(MaxRetries + 1)
        BY DEF BudgetInv, WithinBudget
      <3>3. runs[s].attempt - 1 < JobOf(s).maxRetries
        BY <2>2, <3>1, <3>2, ConstantsAssumption DEF RetryEnqueue, BudgetUsed
      <3> HIDE DEF JobOf
      <3>4. runs[s].attempt + 1 \in 1..(MaxRetries + 1) /\ runs[s].attempt + 1 # 1
        BY <3>1, <3>2, <3>3, ConstantsAssumption
      <3>5. s # NoRun
        BY DEF RunIds, NoRun
      <3> QED BY <3>4, <3>5 DEF WithinBudget, QueuedRow
    <2> QED BY <1>4, <2>1, <2>2, InsertKinds, FreshWithinBudget
  <1> QED BY <1>3, <1>4

\* The attempts along a lineage stay within the budget (_process_retries),
\* however the settings of the job change in the meantime.
THEOREM BudgetSafe == Spec => []RetryBudget
  <1>1. Init => BudgetInv
    BY FreshWithinBudget DEF Init, BudgetInv
  <1>2. TypeInv /\ SettingsInv /\ BudgetInv /\ [Next]_vars
          => SettingsInv' /\ BudgetInv'
    BY SettingsStep, BudgetStep
  <1>3. TypeInv /\ BudgetInv => RetryBudget
    BY ConstantsAssumption DEF BudgetInv, WithinBudget, RetryBudget
  <1> QED BY <1>1, <1>2, <1>3, TypeInit, TypeStep, SettingsInit, PTL DEF Spec

-----------------------------------------------------------------------------
(* The write lock of SQLite.  Whoever has something to commit holds it, and  *)
(* it is given back with every commit and every rollback.                    *)

TickWrites == tick.inserted # {} \/ tick.dirty # {} \/ tick.processed # {}

LockInv ==
    IF Backend = "sqlite"
    THEN /\ \A w \in Workers : Executing(w) <=> lock = w
         /\ TickWrites => lock = "scheduler"
         /\ lock = "scheduler" => tick.pc # "idle"
    ELSE lock = "free" /\ \A w \in Workers : worker[w].pc # "selected"

\* At most one session has something to commit, and nobody keeps the lock who
\* is not in a transaction.
OneWriter ==
    Backend = "sqlite" =>
        /\ \A v, w \in Workers : Executing(v) /\ Executing(w) => v = w
        /\ \A w \in Workers : Executing(w) => ~TickWrites
        /\ lock = "free" \/ tick.pc # "idle" \/ \E w \in Workers : Executing(w)

LEMMA TickLock ==
    ASSUME TypeInv, LockInv, TickStep \/ TickCrash
    PROVE  LockInv'
  <1> USE ConstantsAssumption DEF TypeInv
  <1>1. UNCHANGED worker
    BY DEF TickStep, TickCrash, TickStart, TickListRetries, TickCommit,
           TickLockTimeout, TickRollback, TickJob, TickRetry
  <1>2. ASSUME MayWrite("scheduler"), lock' = Holding("scheduler"),
               tick.pc # "idle", tick'.pc = tick.pc
        PROVE  LockInv'
    BY <1>1, <1>2 DEF MayWrite, Holding, LockInv, TickWrites, Executing, TypeOK
  <1>3. ASSUME tick'.inserted = tick.inserted, tick'.dirty = tick.dirty,
               tick'.processed = tick.processed, UNCHANGED lock,
               tick'.pc # "idle"
        PROVE  LockInv'
    BY <1>1, <1>3 DEF LockInv, TickWrites, Executing
  <1>4. ASSUME tick' = IdleTick, ReleaseBy("scheduler")
        PROVE  LockInv'
    BY <1>1, <1>4, IdleTickTyped DEF ReleaseBy, LockInv, TickWrites, Executing
  <1>5. CASE TickStart
    <2>1. PICK due \in SUBSET DueJobs(clock) :
            tick' = [IdleTick EXCEPT !.pc = "jobs", !.now = clock, !.due = due,
                                     !.seen = [j \in due |-> jobs[j]]]
      BY <1>5 DEF TickStart
    <2>2. ~TickWrites' /\ tick'.pc = "jobs" /\ UNCHANGED lock
      BY <1>5, <2>1 DEF TickStart, TickWrites, IdleTick
    <2> QED BY <1>1, <2>2 DEF LockInv, Executing
  <1>6. CASE TickListRetries
    BY <1>3, <1>6 DEF TickListRetries, TypeOK, TickSession
  <1>7. CASE TickCommit \/ TickLockTimeout \/ TickCrash
    BY <1>4, <1>7 DEF TickCommit, TickLockTimeout, TickCrash, TickRollback
  <1>8. ASSUME NEW j \in Jobs, TickJob(j)
        PROVE  LockInv'
    <2>1. tick.pc = "jobs" /\ tick'.pc = tick.pc
      BY <1>8 DEF TickJob, TickSkipOverlap, TickSkipUnscheduled, TickEnqueue,
                  TypeOK, TickSession
    <2>2. \/ MayWrite("scheduler") /\ lock' = Holding("scheduler")
          \/ /\ tick' = [tick EXCEPT !.due = @ \ {j}]
             /\ UNCHANGED lock
      BY <1>8 DEF TickJob, TickSkipOverlap, TickSkipUnscheduled, TickEnqueue
    <2>3. ASSUME tick' = [tick EXCEPT !.due = @ \ {j}]
          PROVE  /\ tick'.inserted = tick.inserted /\ tick'.dirty = tick.dirty
                 /\ tick'.processed = tick.processed
      BY <2>3 DEF TypeOK, TickSession
    <2> QED BY <1>2, <1>3, <2>1, <2>2, <2>3
  <1>9. ASSUME NEW r \in RunIds, TickRetry(r)
        PROVE  LockInv'
    <2>1. tick.pc = "retries" /\ tick'.pc = tick.pc
      BY <1>9 DEF TickRetry, RetryDisabled, RetryExhaust, RetryLater,
                  RetryEnqueue, TypeOK, TickSession
    <2>2. \/ MayWrite("scheduler") /\ lock' = Holding("scheduler")
          \/ RetryLater(r)
      BY <1>9 DEF TickRetry, RetryDisabled, RetryExhaust, RetryEnqueue
    <2>3. ASSUME RetryLater(r)
          PROVE  /\ tick'.inserted = tick.inserted /\ tick'.dirty = tick.dirty
                 /\ tick'.processed = tick.processed /\ UNCHANGED lock
      BY <2>3 DEF RetryLater, TypeOK, TickSession
    <2> QED BY <1>2, <1>3, <2>1, <2>2, <2>3
  <1> QED BY <1>5, <1>6, <1>7, <1>8, <1>9 DEF TickStep

LEMMA WorkerLock ==
    ASSUME TypeInv, LockInv, NEW w \in Workers, WorkerStep(w) \/ WorkerCrash(w)
    PROVE  LockInv'
  <1> USE ConstantsAssumption
  <1>1. UNCHANGED tick
    BY DEF WorkerStep, WorkerClaim, ClaimOldest, WorkerSelect, SelectOldest,
           WorkerFlush, WorkerLockTimeout, WorkerFinish, WorkerPoisoned,
           WorkerCrash, WorkerRollback
  <1>2. ASSUME NEW row, worker' = [worker EXCEPT ![w] = row]
        PROVE  /\ worker'[w] = row
               /\ \A v \in Workers : v # w => worker'[v] = worker[v]
    BY <1>2 DEF TypeInv, TypeOK
  <1>3. ASSUME WorkerClaim(w)
        PROVE  LockInv'
    <2>1. PICK r \in RunIds :
            worker' = [worker EXCEPT ![w] = [pc |-> "executing", run |-> r]]
      BY <1>3 DEF WorkerClaim, ClaimOldest
    <2>2. Backend = "postgresql" /\ UNCHANGED lock
      BY <1>3 DEF WorkerClaim, ClaimOldest
    <2> QED BY <1>2, <2>1, <2>2 DEF LockInv
  <1>4. ASSUME WorkerSelect(w)
        PROVE  LockInv'
    <2>1. PICK r \in RunIds :
            worker' = [worker EXCEPT ![w] = [pc |-> "selected", run |-> r]]
      BY <1>4 DEF WorkerSelect, SelectOldest
    <2>2. /\ Backend = "sqlite" /\ worker[w].pc = "idle" /\ UNCHANGED lock
      BY <1>4 DEF WorkerSelect, SelectOldest
    <2> QED BY <1>1, <1>2, <2>1, <2>2 DEF LockInv, TickWrites, Executing
  <1>5. ASSUME WorkerFlush(w)
        PROVE  LockInv'
    <2>1. Backend = "sqlite" /\ lock = "free" /\ lock' = w
      BY <1>5 DEF WorkerFlush, LockInv
    <2>2. worker' = [worker EXCEPT ![w] = [worker[w] EXCEPT !.pc = "executing"]]
      BY <1>5 DEF WorkerFlush
    <2>3. worker'[w].pc = "executing"
      BY <1>2, <2>2 DEF TypeInv, TypeOK
    <2> QED BY <1>1, <1>2, <2>1, <2>2, <2>3 DEF LockInv, TickWrites, Executing
  <1>6. ASSUME worker[w].pc # "executing", UNCHANGED lock,
               worker' = [worker EXCEPT ![w] = IdleWorker]
        PROVE  LockInv'
    BY <1>1, <1>2, <1>6 DEF LockInv, TickWrites, Executing, IdleWorker
  <1>7. ASSUME Executing(w), ReleaseBy(w),
               worker' = [worker EXCEPT ![w] = IdleWorker]
        PROVE  LockInv'
    <2>1. /\ ~Executing(w)' /\ worker'[w].pc = "idle"
          /\ \A v \in Workers : v # w => worker'[v] = worker[v]
      <3>1. /\ worker'[w] = IdleWorker
            /\ \A v \in Workers : v # w => worker'[v] = worker[v]
        BY <1>2, <1>7
      <3>2. IdleWorker.pc = "idle"
        BY DEF IdleWorker
      <3>3. worker'[w].pc = "idle"
        BY <3>1, <3>2
      <3> QED BY <3>1, <3>3 DEF Executing
    <2>2. CASE Backend = "sqlite"
      <3>1. lock = w /\ lock' = "free" /\ lock # "scheduler" /\ ~TickWrites
        BY <1>7, <2>2 DEF LockInv, ReleaseBy
      <3> QED BY <1>1, <2>1, <2>2, <3>1 DEF LockInv, TickWrites, Executing
    <2>3. CASE Backend # "sqlite"
      BY <1>7, <2>1, <2>3 DEF LockInv, ReleaseBy
    <2> QED BY <2>2, <2>3
  <1>8. CASE WorkerLockTimeout(w)
    BY <1>6, <1>8 DEF WorkerLockTimeout
  <1>9. CASE WorkerFinish(w) \/ WorkerRollback(w)
    BY <1>7, <1>9 DEF WorkerFinish, WorkerRollback
  <1> QED BY <1>3, <1>4, <1>5, <1>8, <1>9
          DEF WorkerStep, WorkerPoisoned, WorkerCrash

LEMMA LockInit == Init => LockInv
  BY IdleTickTyped, ConstantsAssumption
     DEF Init, LockInv, TickWrites, Executing, IdleWorker

LEMMA LockStep ==
    ASSUME TypeInv, LockInv, [Next]_vars
    PROVE  LockInv'
  <1>1. ASSUME UNCHANGED <<tick, worker, lock>>
        PROVE  LockInv'
    BY <1>1 DEF LockInv, TickWrites, Executing
  <1>2. CASE UNCHANGED vars \/ ClockTick \/ Admin
    BY <1>1, <1>2
       DEF vars, ClockTick, Admin, CreateJob, PatchJob, PutSchedule,
           ManualCheck, ManualEnqueue, ManualFail
  <1> QED BY <1>2, TickLock, WorkerLock DEF Next

\* On SQLite writers are serialised: sessions of workers and of the tick never
\* hold uncommitted changes at the same time, and the lock is always given back.
THEOREM WritersSerialised == Spec => []OneWriter
  <1>1. TypeInv /\ LockInv /\ [Next]_vars => LockInv'
    BY LockStep
  <1>2. TypeInv /\ LockInv => OneWriter
    BY ConstantsAssumption DEF TypeInv, TypeOK, LockInv, OneWriter
  <1> QED BY <1>1, <1>2, LockInit, TypeInit, TypeStep, PTL DEF Spec

-----------------------------------------------------------------------------
(* The overlap guard of the tick.  A job keeps the allow_overlap it was      *)
(* created with, and the tick works with that value.                        *)

JobsInv ==
    /\ \A j \in Jobs : jobs[j].exists \/ jobs[j] = NoJobRow
    /\ \A j \in DOMAIN tick.seen : jobs[j].exists

GuardInv ==
    /\ \A j \in DOMAIN tick.seen : tick.seen[j].allowOverlap = jobs[j].allowOverlap
    /\ OverlapOnlyManual

LEMMA JobStays ==
    ASSUME TypeInv, JobsInv, [Next]_vars, NEW j \in Jobs
    PROVE  /\ jobs'[j].exists \/ jobs'[j] = NoJobRow
           /\ jobs[j].exists => jobs'[j].exists
  <1>1. jobs[j] \in JobRow
    BY DEF TypeInv, TypeOK
  <1>2. CASE CreateJob(j)
    BY <1>2 DEF CreateJob, TypeInv, TypeOK
  <1>3. CASE PatchJob(j) \/ PutSchedule(j)
    BY <1>3, EditKeeps DEF PatchJob, PutSchedule
  <1>4. ASSUME TickCommit, j \in tick.dirty,
               jobs'[j] = [jobs[j] EXCEPT !.nextRunAt = tick.seen[j].nextRunAt]
        PROVE  jobs'[j].exists
    <2>1. jobs[j].exists
      BY <1>4 DEF JobsInv, TypeInv, TypeOK
    <2> QED BY <1>1, <1>4, <2>1 DEF JobRow
  <1> QED BY <1>2, <1>3, <1>4, JobsChange DEF JobsInv

LEMMA DueExists ==
    ASSUME TypeInv, JobsInv, NEW j \in DueJobs(clock)
    PROVE  j \in Jobs /\ jobs[j].exists
  BY DEF DueJobs, JobsInv, NoJobRow

LEMMA JobsStep ==
    ASSUME TypeInv, JobsInv, [Next]_vars
    PROVE  JobsInv'
  <1>1. ASSUME NEW j \in Jobs PROVE jobs'[j].exists \/ jobs'[j] = NoJobRow
    BY <1>1, JobStays
  <1>2. ASSUME NEW j \in DOMAIN tick'.seen PROVE jobs'[j].exists
    <2>1. CASE j \in DOMAIN tick.seen
      BY <2>1, JobStays DEF JobsInv, TypeInv, TypeOK
    <2>2. CASE TickStart
      <3>1. PICK due \in SUBSET DueJobs(clock) :
              tick' = [IdleTick EXCEPT !.pc = "jobs", !.now = clock, !.due = due,
                                       !.seen = [i \in due |-> jobs[i]]]
        BY <2>2 DEF TickStart
      <3>2. j \in DueJobs(clock)
        BY <1>2, <3>1 DEF IdleTick
      <3> QED BY <3>2, DueExists, JobStays
    <2> QED BY <1>2, <2>1, <2>2, TickJobSession, TickSessionKept, IdleTickTyped
  <1> QED BY <1>1, <1>2 DEF JobsInv

LEMMA OverlapKept ==
    ASSUME TypeInv, JobsInv, [Next]_vars, "allow_overlap" \notin Patchable,
           NEW j \in Jobs
    PROVE  \/ jobs'[j].allowOverlap = jobs[j].allowOverlap
           \/ ~jobs[j].exists /\ ~jobs[j].allowOverlap
  <1>1. jobs[j] \in JobRow
    BY DEF TypeInv, TypeOK
  <1>2. CASE CreateJob(j)
    BY <1>2 DEF CreateJob, JobsInv, NoJobRow
  <1>3. CASE PatchJob(j)
    <2>1. PICK on \in BOOLEAN, overlap \in OverlapChoices, retries \in 0..MaxRetries :
            /\ overlap = jobs[j].allowOverlap
            /\ jobs' = [jobs EXCEPT ![j] =
                 [jobs[j] EXCEPT !.enabled = on, !.allowOverlap = overlap,
                                 !.maxRetries = retries]]
      BY <1>3 DEF PatchJob
    <2> DEFINE row == [jobs[j] EXCEPT !.enabled = on, !.allowOverlap = overlap,
                                      !.maxRetries = retries]
    <2>2. row.allowOverlap = jobs[j].allowOverlap
      BY <1>1, <2>1 DEF JobRow
    <2> HIDE DEF row
    <2>3. jobs'[j] = row
      BY <2>1 DEF TypeInv, TypeOK, row
    <2> QED BY <2>2, <2>3
  <1>4. CASE PutSchedule(j)
    <2>1. PICK schedule \in ScheduleChoices :
            jobs' = [jobs EXCEPT ![j] = [jobs[j] EXCEPT !.schedule = schedule]]
      BY <1>4 DEF PutSchedule
    <2> DEFINE row == [jobs[j] EXCEPT !.schedule = schedule]
    <2>2. row.allowOverlap = jobs[j].allowOverlap
      BY <1>1 DEF JobRow
    <2> HIDE DEF row
    <2>3. jobs'[j] = row
      BY <2>1 DEF TypeInv, TypeOK, row
    <2> QED BY <2>2, <2>3
  <1>5. ASSUME NEW n, jobs'[j] = [jobs[j] EXCEPT !.nextRunAt = n]
        PROVE  jobs'[j].allowOverlap = jobs[j].allowOverlap
    BY <1>1, <1>5 DEF JobRow
  <1> QED BY <1>2, <1>3, <1>4, <1>5, JobsChange

\* The tick keeps the value it has loaded.
LEMMA SeenOverlap ==
    ASSUME TypeInv, JobsInv, GuardInv, [Next]_vars, "allow_overlap" \notin Patchable,
           NEW j \in DOMAIN tick'.seen
    PROVE  tick'.seen[j].allowOverlap = jobs'[j].allowOverlap
  <1>1. CASE TickStart
    <2>1. PICK due \in SUBSET DueJobs(clock) :
            tick' = [IdleTick EXCEPT !.pc = "jobs", !.now = clock, !.due = due,
                                     !.seen = [i \in due |-> jobs[i]]]
      BY <1>1 DEF TickStart
    <2>2. tick'.seen[j] = jobs[j]
      BY <2>1 DEF IdleTick
    <2> QED BY <1>1, <2>2 DEF TickStart
  <1>2. ASSUME j \in DOMAIN tick.seen,
               tick'.seen[j].allowOverlap = tick.seen[j].allowOverlap
        PROVE  tick'.seen[j].allowOverlap = jobs'[j].allowOverlap
    <2>1. j \in Jobs /\ jobs[j].exists
      BY <1>2 DEF JobsInv, TypeInv, TypeOK
    <2> QED BY <1>2, <2>1, OverlapKept DEF GuardInv
  <1>3. ASSUME NEW i \in Jobs, TickJob(i)
        PROVE  tick'.seen[j].allowOverlap = jobs'[j].allowOverlap
    <2>1. ASSUME NEW n, tick'.seen[j] = [tick.seen[j] EXCEPT !.nextRunAt = n],
                 j \in DOMAIN tick.seen
          PROVE  tick'.seen[j].allowOverlap = tick.seen[j].allowOverlap
      <3>1. tick.seen[j] \in JobRow
        BY <2>1 DEF TypeInv, TypeOK
      <3> QED BY <2>1, <3>1 DEF JobRow
    <2> QED BY <1>2, <1>3, <2>1, TickJobSession
  <1> QED BY <1>1, <1>2, <1>3, TickSessionKept, IdleTickTyped

\* An insert that the guard has let pass is the only active run of its job, and
\* a manual run is excepted.
LEMMA GuardedInsert ==
    ASSUME TypeInv, OverlapOnlyManual, NEW c \in RunIds, IsNextId(c), NEW row,
           runs' = [runs EXCEPT ![c] = row], UNCHANGED jobs,
           \/ row.trigger = "manual"
           \/ jobs[row.job].allowOverlap \/ ~HasActiveRun(row.job, tick.inserted)
    PROVE  OverlapOnlyManual'
  <1> SUFFICES ASSUME NEW r \in RunIds, NEW s \in RunIds,
                      runs'[r].status = "queued", runs'[s].status = "queued",
                      runs'[r].job = runs'[s].job, ~jobs[runs'[r].job].allowOverlap,
                      runs'[r].trigger # "manual", runs'[s].trigger # "manual"
               PROVE  r = s
    BY DEF OverlapOnlyManual
  <1>1. ASSUME NEW k \in RunIds \ {c}, runs[k].status = "queued", runs[k].job = row.job
        PROVE  HasActiveRun(row.job, tick.inserted)
    BY <1>1 DEF HasActiveRun, Visible, Present
  <1>2. runs'[c] = row /\ \A k \in RunIds \ {c} : runs'[k] = runs[k]
    BY RowInserted
  <1>3. CASE r # c /\ s # c
    BY <1>2, <1>3 DEF OverlapOnlyManual
  <1>4. CASE r = c \/ s = c
    BY <1>1, <1>2, <1>4
  <1> QED BY <1>3, <1>4

LEMMA GuardStep ==
    ASSUME TypeInv, JobsInv, GuardInv, [Next]_vars, "allow_overlap" \notin Patchable
    PROVE  GuardInv'
  <1>1. CASE Inserting
    <2>1. PICK c \in RunIds :
            /\ IsNextId(c)
            /\ \/ \E q \in Requests, j \in Jobs :
                    /\ ManualEnqueue(q)
                    /\ runs' = [runs EXCEPT ![c] = QueuedRow(j, "manual", 1, NoRun)]
               \/ \E j \in Jobs :
                    /\ TickJob(j) /\ TickEnqueue(j)
                    /\ runs' = [runs EXCEPT ![c] = QueuedRow(j, "scheduled", 1, NoRun)]
               \/ \E s \in RunIds :
                    /\ TickRetry(s) /\ RetryEnqueue(s)
                    /\ runs' = [runs EXCEPT ![c] =
                         QueuedRow(runs[s].job, "retry", runs[s].attempt + 1, s)]
      BY <1>1, InsertKinds
    <2>2. ASSUME NEW j \in Jobs, TickJob(j), TickEnqueue(j)
          PROVE  /\ UNCHANGED jobs
                 /\ jobs[j].allowOverlap \/ ~HasActiveRun(j, tick.inserted)
      <3>1. j \in DOMAIN tick.seen
        BY <2>2, TickJobSession
      <3> QED BY <2>2, <3>1 DEF TickJob, TickEnqueue, TickBlocked, GuardInv
    <2>3. ASSUME NEW s \in RunIds, TickRetry(s), RetryEnqueue(s)
          PROVE  /\ UNCHANGED jobs
                 /\ \/ jobs[runs[s].job].allowOverlap
                    \/ ~HasActiveRun(runs[s].job, tick.inserted)
      <3>1. JobOf(s).allowOverlap = jobs[runs[s].job].allowOverlap
        BY DEF JobOf, GuardInv
      <3> QED BY <2>3, <3>1 DEF TickRetry, RetryEnqueue, RetryBlocked
    <2>4. \A j, trigger, attempt, source :
            /\ QueuedRow(j, trigger, attempt, source).job = j
            /\ QueuedRow(j, trigger, attempt, source).trigger = trigger
      BY DEF QueuedRow
    <2>5. ASSUME NEW q \in Requests, ManualEnqueue(q)
          PROVE  UNCHANGED jobs
      BY <2>5 DEF ManualEnqueue
    <2>6. OverlapOnlyManual'
      BY <2>1, <2>2, <2>3, <2>4, <2>5, GuardedInsert DEF GuardInv
    <2> QED BY <2>6, SeenOverlap DEF GuardInv
  <1>2. CASE ~Inserting
    <2>1. ASSUME NEW r \in RunIds, runs'[r].status = "queued"
          PROVE  /\ runs[r].status = "queued" /\ runs'[r].job = runs[r].job
                 /\ runs'[r].trigger = runs[r].trigger
      BY <1>2, <2>1, RowsKept, NoRunRowTyped DEF RowKept, Entry
    <2>2. ASSUME NEW r \in RunIds, ~jobs'[runs[r].job].allowOverlap
          PROVE  ~jobs[runs[r].job].allowOverlap
      <3>1. runs[r].job \in Jobs
        BY DEF TypeInv, TypeOK, RunRow
      <3> QED BY <2>2, <3>1, OverlapKept
    <2>3. OverlapOnlyManual'
      BY <2>1, <2>2 DEF GuardInv, OverlapOnlyManual
    <2> QED BY <2>3, SeenOverlap DEF GuardInv
  <1> QED BY <1>1, <1>2

\* With requests at work: of two active runs of a job that does not allow
\* overlap one was started by hand, whatever ticks, workers and operators do
\* beside, as long as nobody edits the option (_process_due_jobs,
\* _process_retries, run_job).
THEOREM OverlapSafe ==
    ASSUME "allow_overlap" \notin Patchable
    PROVE  Spec => []OverlapOnlyManual
  <1>1. Init => JobsInv /\ GuardInv
    <2>1. NoRunRow.status # "queued"
      BY NoRunRowTyped
    <2> QED BY <2>1, IdleTickTyped
            DEF Init, JobsInv, GuardInv, OverlapOnlyManual
  <1>2. TypeInv /\ JobsInv /\ GuardInv /\ [Next]_vars => JobsInv' /\ GuardInv'
    BY JobsStep, GuardStep
  <1>3. GuardInv => OverlapOnlyManual
    BY DEF GuardInv
  <1> QED BY <1>1, <1>2, <1>3, TypeInit, TypeStep, PTL DEF Spec

NoneManual ==
    \A r \in RunIds : runs[r].status = "queued" => runs[r].trigger # "manual"

LEMMA NoneManualStep ==
    ASSUME Requests = {}, TypeInv, NoneManual, [Next]_vars
    PROVE  NoneManual'
  <1> SUFFICES ASSUME NEW r \in RunIds, runs'[r].status = "queued"
               PROVE  runs'[r].trigger # "manual"
    BY DEF NoneManual
  <1>1. CASE ~Inserting
    BY <1>1, RowsKept, NoRunRowTyped DEF NoneManual, RowKept, Entry
  <1>2. CASE Inserting
    <2>1. PICK c \in RunIds : \E row :
            /\ IsNextId(c) /\ row.trigger # "manual"
            /\ runs' = [runs EXCEPT ![c] = row]
      BY <1>2, InsertKinds DEF QueuedRow
    <2>2. PICK row : /\ row.trigger # "manual"
                     /\ runs' = [runs EXCEPT ![c] = row]
      BY <2>1
    <2> QED BY <2>1, <2>2, RowInserted DEF NoneManual
  <1> QED BY <1>1, <1>2

\* Ticks alone, scheduled and retry runs together, never give a job two active
\* runs it does not allow: what breaks the promise is the manual route, and an
\* operator who withdraws the option.
THEOREM GuardSafe ==
    ASSUME Requests = {}, "allow_overlap" \notin Patchable
    PROVE  Spec => []NoOverlap
  <1>1. Init => NoneManual
    BY NoRunRowTyped DEF Init, NoneManual
  <1>2. TypeInv /\ NoneManual /\ [Next]_vars => NoneManual'
    BY NoneManualStep
  <1>3. NoneManual /\ OverlapOnlyManual => NoOverlap
    BY DEF NoneManual, OverlapOnlyManual, NoOverlap
  <1> QED BY <1>1, <1>2, <1>3, OverlapSafe, TypeInit, TypeStep, PTL DEF Spec

-----------------------------------------------------------------------------
(* One scheduled run per interval.  The next due time of a job stays ahead   *)
(* of the intervals its runs have used, in the rows and in the session.     *)

Entered(j) == {r \in RunIds : /\ Present(r) /\ runs[r].job = j
                              /\ runs[r].trigger = "scheduled"}
Committed(j) == {r \in Entered(j) : r \notin tick.inserted}

InsertedInv == tick.pc = "idle" => tick.inserted = {}

JobAhead(j) ==
    /\ jobs[j].schedule # "invalid"
    /\ jobs[j].nextRunAt = NoTime => Committed(j) = {}
    /\ jobs[j].nextRunAt # NoTime =>
         (Cardinality(Committed(j)) + 1) * Interval <= jobs[j].nextRunAt

SessionAhead(j) ==
    /\ tick.seen[j].nextRunAt \in Nat
    /\ (Cardinality(Entered(j)) + 1) * Interval <= tick.seen[j].nextRunAt
    /\ j \in tick.due => tick.seen[j].nextRunAt <= tick.now

BacklogInv ==
    /\ InsertedInv
    /\ \A j \in Jobs : JobAhead(j)
    /\ \A j \in DOMAIN tick.seen : SessionAhead(j)
    /\ \A j \in Jobs \ tick.dirty : Entered(j) = Committed(j)
    /\ NoBacklogExplosion

LEMMA EnteredFinite ==
    ASSUME NEW j
    PROVE  /\ IsFiniteSet(Entered(j)) /\ Cardinality(Entered(j)) \in Nat
           /\ IsFiniteSet(Committed(j)) /\ Cardinality(Committed(j)) \in Nat
           /\ Cardinality(Committed(j)) <= Cardinality(Entered(j))
  <1>1. IsFiniteSet(RunIds)
    BY FS_Interval, ConstantsAssumption DEF RunIds
  <1>2. Entered(j) \subseteq RunIds /\ Committed(j) \subseteq Entered(j)
    BY DEF Entered, Committed
  <1> QED BY <1>1, <1>2, FS_Subset, FS_CardinalityType

\* What happens to the inserts of the session.
LEMMA InsertedKept ==
    ASSUME TypeInv, [Next]_vars, ~Inserting
    PROVE  \/ tick'.inserted = tick.inserted /\ ~TickRollback
           \/ TickStart /\ tick'.inserted = {}
           \/ TickCommit /\ tick'.inserted = {}
           \/ TickRollback /\ tick'.inserted = {}
  <1>1. CASE TickRollback \/ TickCommit
    BY <1>1, IdleTickTyped DEF TickRollback, TickCommit, IdleTick
  <1>2. CASE TickStart
    BY <1>2 DEF TickStart, IdleTick
  <1>3. CASE UNCHANGED tick
    BY <1>3, <1>1
  <1>4. CASE UNCHANGED vars \/ ClockTick \/ Admin
    BY <1>3, <1>4 DEF vars, ClockTick, Admin, CreateJob, PatchJob, PutSchedule,
                ManualCheck, ManualEnqueue, ManualFail
  <1>5. ASSUME NEW w \in Workers, WorkerStep(w) \/ WorkerCrash(w)
        PROVE  UNCHANGED tick
    BY <1>5 DEF WorkerStep, WorkerCrash, WorkerClaim, ClaimOldest, WorkerSelect,
                SelectOldest, WorkerFlush, WorkerLockTimeout, WorkerPoisoned,
                WorkerRollback, WorkerFinish
  <1>6. CASE TickListRetries
    BY <1>1, <1>6 DEF TickListRetries, TypeInv, TypeOK, TickSession
  <1>7. ASSUME NEW s \in RunIds, TickRetry(s) PROVE tick'.inserted = tick.inserted
    BY <1>7 DEF TickRetry, RetryDisabled, RetryExhaust, RetryLater, Inserting,
                TypeInv, TypeOK, TickSession
  <1>8. ASSUME NEW j \in Jobs, TickJob(j) PROVE tick'.inserted = tick.inserted
    BY <1>8 DEF TickJob, TickSkipOverlap, TickSkipUnscheduled, Inserting,
                TypeInv, TypeOK, TickSession
  <1> QED BY <1>1, <1>2, <1>3, <1>4, <1>5, <1>6, <1>7, <1>8
          DEF Next, TickStep, TickCrash, TickLockTimeout

LEMMA EnteredKept ==
    ASSUME TypeInv, [Next]_vars, NEW j \in Jobs, ~(TickJob(j) /\ TickEnqueue(j))
    PROVE  \/ Entered(j)' = Entered(j)
           \/ TickRollback /\ Entered(j)' = Committed(j)
  <1>1. CASE Inserting
    <2>1. ASSUME NEW c \in RunIds, IsNextId(c), NEW row,
                 runs' = [runs EXCEPT ![c] = row],
                 row.job # j \/ row.trigger # "scheduled"
          PROVE  Entered(j)' = Entered(j)
      <3>1. /\ runs'[c] = row /\ ~Present(c)
            /\ \A s \in RunIds \ {c} : runs'[s] = runs[s]
        BY <2>1, RowInserted
      <3> QED BY <2>1, <3>1 DEF Entered, Present
    <2>2. ASSUME NEW i, NEW trigger, NEW attempt, NEW source,
                 i # j \/ trigger # "scheduled"
          PROVE  LET row == QueuedRow(i, trigger, attempt, source)
                 IN  row.job # j \/ row.trigger # "scheduled"
      BY <2>2 DEF QueuedRow
    <2>3. \A i \in Jobs : TickJob(i) /\ TickEnqueue(i) => i # j
      OBVIOUS
    <2> QED BY <1>1, <2>1, <2>2, <2>3, InsertKinds
  <1>2. CASE ~Inserting /\ ~TickRollback
    <2>1. \A r \in RunIds : RowKept(r)
      BY <1>2, RowsKept
    <2> QED BY <2>1 DEF RowKept, Entry, Entered
  <1>3. CASE TickRollback
    <2>1. \A r \in RunIds : runs'[r] = IF r \in tick.inserted THEN NoRunRow ELSE runs[r]
      BY <1>3 DEF TickRollback
    <2> QED BY <1>3, <2>1, NoRunRowTyped DEF Entered, Committed, Present
  <1> QED BY <1>1, <1>2, <1>3

LEMMA CommittedKept ==
    ASSUME TypeInv, InsertedInv, [Next]_vars, NEW j \in Jobs, ~TickCommit
    PROVE  Committed(j)' = Committed(j)
  <1>1. CASE Inserting
    <2>1. ASSUME NEW c \in RunIds, IsNextId(c), NEW row,
                 runs' = [runs EXCEPT ![c] = row],
                 \/ tick'.inserted = tick.inserted /\ row.trigger # "scheduled"
                 \/ tick'.inserted = tick.inserted \cup {c}
          PROVE  Committed(j)' = Committed(j)
      <3>1. /\ runs'[c] = row /\ ~Present(c)
            /\ \A s \in RunIds \ {c} : runs'[s] = runs[s]
        BY <2>1, RowInserted
      <3> QED BY <2>1, <3>1 DEF Committed, Entered, Present
    <2>2. \A i, attempt, source :
            QueuedRow(i, "manual", attempt, source).trigger # "scheduled"
      BY DEF QueuedRow
    <2> QED BY <1>1, <2>1, <2>2, InsertKinds
  <1>2. CASE ~Inserting /\ ~TickRollback
    <2>1. \A r \in RunIds : RowKept(r)
      BY <1>2, RowsKept
    <2>2. tick'.inserted = tick.inserted
      BY <1>2, InsertedKept DEF TickStart, InsertedInv
    <2> QED BY <2>1, <2>2 DEF RowKept, Entry, Entered, Committed
  <1>3. CASE TickRollback
    <2>1. \A r \in RunIds : runs'[r] = IF r \in tick.inserted THEN NoRunRow ELSE runs[r]
      BY <1>3 DEF TickRollback
    <2>2. tick'.inserted = {}
      BY <1>3 DEF TickRollback, IdleTick
    <2> QED BY <2>1, <2>2, NoRunRowTyped DEF Entered, Committed, Present
  <1> QED BY <1>1, <1>2, <1>3

LEMMA CommitEnters ==
    ASSUME TypeInv, TickCommit, NEW j \in Jobs
    PROVE  Entered(j)' = Entered(j) /\ Committed(j)' = Entered(j)
  <1>1. \A r \in RunIds : RowKept(r)
    BY CommitKeeps
  <1>2. tick'.inserted = {}
    BY DEF TickCommit, IdleTick
  <1> QED BY <1>1, <1>2 DEF RowKept, Entry, Entered, Committed

LEMMA InsertedStep ==
    ASSUME TypeInv, InsertedInv, [Next]_vars
    PROVE  InsertedInv'
  <1>1. ASSUME NEW j \in Jobs, TickJob(j) PROVE tick'.pc # "idle"
    <2>1. tick'.pc = tick.pc
      BY <1>1 DEF TickJob, TickSkipOverlap, TickSkipUnscheduled, TickEnqueue,
                  TypeInv, TypeOK, TickSession
    <2> QED BY <1>1, <2>1 DEF TickJob
  <1>2. ASSUME NEW s \in RunIds, TickRetry(s) PROVE tick'.pc # "idle"
    BY <1>2 DEF TickRetry, RetryDisabled, RetryExhaust, RetryLater, RetryEnqueue,
                TypeInv, TypeOK, TickSession
  <1>3. CASE TickStart \/ TickListRetries
    <2>1. tick'.pc # "idle"
      BY <1>3 DEF TickStart, TickListRetries, IdleTick, TypeInv, TypeOK, TickSession
    <2> QED BY <2>1 DEF InsertedInv
  <1>4. CASE TickRollback \/ TickCommit
    <2>1. tick' = IdleTick
      BY <1>4 DEF TickRollback, TickCommit
    <2>2. tick'.inserted = {}
      BY <2>1 DEF IdleTick
    <2> QED BY <2>2 DEF InsertedInv
  <1>5. CASE UNCHANGED tick
    BY <1>5 DEF InsertedInv
  <1>6. CASE UNCHANGED vars \/ ClockTick \/ Admin
    BY <1>5, <1>6 DEF vars, ClockTick, Admin, CreateJob, PatchJob, PutSchedule,
                ManualCheck, ManualEnqueue, ManualFail
  <1>7. ASSUME NEW w \in Workers, WorkerStep(w) \/ WorkerCrash(w)
        PROVE  UNCHANGED tick
    BY <1>7 DEF WorkerStep, WorkerCrash, WorkerClaim, ClaimOldest, WorkerSelect,
                SelectOldest, WorkerFlush, WorkerLockTimeout, WorkerPoisoned,
                WorkerRollback, WorkerFinish
  <1> QED BY <1>1, <1>2, <1>3, <1>4, <1>5, <1>6, <1>7
          DEF Next, TickStep, TickCrash, TickLockTimeout, InsertedInv

LEMMA IntervalArithmetic ==
    ASSUME NEW n \in Nat, NEW m \in Nat, m <= n
    PROVE  /\ n * Interval \in Nat /\ m * Interval <= n * Interval
           /\ (n + 1) * Interval = n * Interval + Interval
           /\ (m + 1) * Interval <= (n + 1) * Interval
  <1>1. Interval \in Nat
    BY ConstantsAssumption
  <1>2. PICK d \in Nat : n = m + d
    BY n - m \in Nat
  <1>3. n * Interval = m * Interval + d * Interval /\ d * Interval \in Nat
        /\ m * Interval \in Nat
    BY <1>1, <1>2
  <1>4. (n + 1) * Interval = n * Interval + Interval
        /\ (m + 1) * Interval = m * Interval + Interval
    BY <1>1
  <1> QED BY <1>1, <1>3, <1>4

\* The rows and the due time of a job outside of a commit.
LEMMA AheadStep ==
    ASSUME TypeInv, JobsInv, BacklogInv, [Next]_vars, NEW j \in Jobs,
           "invalid" \notin ScheduleChoices
    PROVE  JobAhead(j)'
  <1>1. /\ jobs[j] \in JobRow /\ JobAhead(j) /\ clock \in Nat
        /\ Cardinality(Committed(j)) \in Nat /\ Interval \in Nat
    BY EnteredFinite, ConstantsAssumption DEF TypeInv, TypeOK, BacklogInv
  <1>2. CASE TickCommit
    <2>1. Committed(j)' = Entered(j)
      BY <1>2, CommitEnters
    <2>2. CASE jobs'[j] = jobs[j] /\ j \notin tick.dirty
      <3>1. Committed(j)' = Committed(j)
        BY <2>1, <2>2 DEF BacklogInv
      <3> QED BY <1>1, <2>2, <3>1 DEF JobAhead
    <2>3. CASE j \in tick.dirty
      <3>1. j \in DOMAIN tick.seen /\ SessionAhead(j)
        BY <2>3 DEF BacklogInv, TypeInv, TypeOK
      <3> DEFINE n == tick.seen[j].nextRunAt
      <3>2. jobs'[j] = [jobs[j] EXCEPT !.nextRunAt = n]
        BY <1>2, <2>3, Zenon DEF TickCommit
      <3>3. n \in Nat /\ (Cardinality(Entered(j)) + 1) * Interval <= n
        BY <3>1 DEF SessionAhead
      <3> HIDE DEF n
      <3>4. jobs'[j].nextRunAt = n /\ jobs'[j].schedule = jobs[j].schedule
        BY <1>1, <3>2 DEF JobRow
      <3>5. n # NoTime
        BY <3>3 DEF NoTime
      <3> QED BY <1>1, <2>1, <3>3, <3>4, <3>5 DEF JobAhead
    <2> QED BY <1>2, <2>2, <2>3, Zenon DEF TickCommit
  <1>3. CASE ~TickCommit
    <2>1. Committed(j)' = Committed(j)
      BY <1>3, CommittedKept DEF BacklogInv
    <2>2. CASE jobs'[j] = jobs[j]
      BY <1>1, <2>1, <2>2 DEF JobAhead
    <2>3. CASE PatchJob(j) \/ PutSchedule(j)
      BY <1>1, <2>1, <2>3, EditKeeps DEF JobAhead
    <2>4. CASE CreateJob(j)
      <3>1. jobs[j].nextRunAt = NoTime
        BY <2>4 DEF CreateJob, JobsInv, NoJobRow
      <3>2. Committed(j)' = {}
        BY <1>1, <2>1, <3>1 DEF JobAhead
      <3>3. Cardinality(Committed(j)') = 0
        BY <3>2, FS_EmptySet
      <3>4. PICK overlap \in OverlapChoices, retries \in 0..MaxRetries,
                 schedule \in ScheduleChoices \cup {"none"}, jitter \in 0..Jitter :
              jobs' = [jobs EXCEPT ![j] =
                [exists |-> TRUE, enabled |-> TRUE, allowOverlap |-> overlap,
                 maxRetries |-> retries, schedule |-> schedule,
                 nextRunAt |-> IF schedule \in {"valid", "disabled"}
                               THEN clock + Interval + jitter ELSE NoTime]]
        BY <2>4 DEF CreateJob
      <3>5. /\ jobs'[j].schedule = schedule /\ schedule # "invalid"
            /\ jobs'[j].nextRunAt \in {NoTime, clock + Interval + jitter}
        BY <3>4 DEF TypeInv, TypeOK
      <3>6. (0 + 1) * Interval <= clock + Interval + jitter
        BY <1>1, ConstantsAssumption
      <3> QED BY <3>2, <3>3, <3>5, <3>6 DEF JobAhead
    <2> QED BY <1>3, <2>2, <2>3, <2>4, JobsChange
  <1> QED BY <1>2, <1>3

\* A job that the tick handles has its due time in the past, so that the
\* interval it uses up is over, and it is moved by an interval at least.
LEMMA EnqueueAhead ==
    ASSUME TypeInv, WindowInv, BacklogInv, NEW j \in Jobs, TickJob(j), TickEnqueue(j)
    PROVE  /\ (Cardinality(Entered(j)') + 1) * Interval <= tick'.seen[j].nextRunAt
           /\ tick'.seen[j].nextRunAt \in Nat /\ j \in tick'.dirty
           /\ Cardinality(Entered(j)') * Interval <= clock
  <1> DEFINE n == tick.seen[j].nextRunAt
             k == Cardinality(Entered(j))
  <1>1. /\ j \in DOMAIN tick.seen /\ j \in tick.due /\ tick.seen[j] \in JobRow
        /\ tick.now \in Nat /\ clock \in Nat /\ tick.now <= clock
    BY TickJobSession DEF TypeInv, TypeOK, TickSession, WindowInv
  <1>2. n \in Nat /\ n <= tick.now /\ (k + 1) * Interval <= n /\ k \in Nat
    BY <1>1, EnteredFinite DEF BacklogInv, SessionAhead
  <1>3. jobs[j].schedule = "valid"
    BY DEF TickEnqueue, BacklogInv, JobAhead
  <1>4. PICK jitter \in 0 .. Jitter :
          /\ tick'.dirty = tick.dirty \cup {j}
          /\ tick'.seen[j] = [tick.seen[j] EXCEPT !.nextRunAt =
                                 AdvanceNextRun(@, tick.now, jitter)]
    BY <1>3, TickJobSession
  <1> DEFINE m == AdvanceNextRun(n, tick.now, jitter)
  <1>5. m >= n + Interval /\ m > tick.now /\ m \in Nat
    <2>1. m \in Int
      BY <1>1, <1>2, ConstantsAssumption DEF AdvanceNextRun
    <2> QED BY <1>1, <1>2, <2>1, AdvanceBeyond
  <1>6. tick'.seen[j] = [tick.seen[j] EXCEPT !.nextRunAt = m]
    BY <1>4
  <1>7. Cardinality(Entered(j)') = k + 1
    <2>1. PICK c \in RunIds :
            /\ IsNextId(c)
            /\ runs' = [runs EXCEPT ![c] = QueuedRow(j, "scheduled", 1, NoRun)]
      BY DEF TickEnqueue
    <2>2. /\ runs'[c] = QueuedRow(j, "scheduled", 1, NoRun) /\ ~Present(c)
          /\ \A s \in RunIds \ {c} : runs'[s] = runs[s]
      BY <2>1, RowInserted
    <2>3. /\ runs'[c].job = j /\ runs'[c].trigger = "scheduled"
          /\ runs'[c].status # "absent"
      BY <2>2 DEF QueuedRow
    <2>4. Entered(j)' = Entered(j) \cup {c} /\ c \notin Entered(j)
      BY <2>2, <2>3 DEF Entered, Present
    <2> QED BY <2>4, EnteredFinite, FS_AddElement
  <1> HIDE DEF n, k, m
  <1>8. tick'.seen[j].nextRunAt = m
    BY <1>1, <1>6 DEF JobRow
  <1>9. ((k + 1) + 1) * Interval = (k + 1) * Interval + Interval
        /\ (k + 1) * Interval \in Nat /\ Interval \in Nat
    BY <1>2, IntervalArithmetic, ConstantsAssumption
  <1> QED BY <1>1, <1>2, <1>4, <1>5, <1>7, <1>8, <1>9

LEMMA SkipAhead ==
    ASSUME TypeInv, BacklogInv, NEW j \in Jobs, TickJob(j), ~TickEnqueue(j),
           [Next]_vars
    PROVE  /\ Entered(j)' = Entered(j)
           /\ (Cardinality(Entered(j)) + 1) * Interval <= tick'.seen[j].nextRunAt
           /\ tick'.seen[j].nextRunAt \in Nat
  <1> DEFINE n == tick.seen[j].nextRunAt
  <1>1. /\ j \in DOMAIN tick.seen /\ j \in tick.due /\ tick.seen[j] \in JobRow
        /\ tick.now \in Nat
    BY TickJobSession DEF TypeInv, TypeOK, TickSession
  <1>2. /\ n \in Nat /\ n <= tick.now
        /\ (Cardinality(Entered(j)) + 1) * Interval <= n
        /\ (Cardinality(Entered(j)) + 1) * Interval \in Nat
    <2>1. Cardinality(Entered(j)) \in Nat /\ Cardinality(Entered(j)) + 1 \in Nat
      BY EnteredFinite
    <2>2. (Cardinality(Entered(j)) + 1) * Interval \in Nat
      BY <2>1, IntervalArithmetic
    <2> QED BY <1>1, <2>2 DEF BacklogInv, SessionAhead
  <1>3. Entered(j)' = Entered(j)
    <2>1. tick.pc = "jobs" /\ tick'.pc = "jobs"
      BY DEF TickJob, TickSkipOverlap, TickSkipUnscheduled, TypeInv, TypeOK,
             TickSession
    <2>2. ~TickRollback
      BY <2>1 DEF TickRollback, IdleTick
    <2> QED BY <2>2, EnteredKept
  <1>4. CASE tick'.seen = tick.seen
    BY <1>2, <1>3, <1>4
  <1>5. ASSUME NEW jitter \in 0 .. Jitter,
               tick'.seen[j] = [tick.seen[j] EXCEPT !.nextRunAt =
                                   AdvanceNextRun(@, tick.now, jitter)]
        PROVE  tick'.seen[j].nextRunAt >= n /\ tick'.seen[j].nextRunAt \in Nat
    <2> DEFINE m == AdvanceNextRun(n, tick.now, jitter)
    <2>1. m \in Int
      BY <1>1, <1>2, ConstantsAssumption DEF AdvanceNextRun
    <2>2. m >= n + Interval /\ m > tick.now /\ m \in Nat
      BY <1>1, <1>2, <2>1, AdvanceBeyond
    <2>3. tick'.seen[j] = [tick.seen[j] EXCEPT !.nextRunAt = m]
      BY <1>5
    <2> HIDE DEF m
    <2>4. tick'.seen[j].nextRunAt = m
      BY <1>1, <2>3 DEF JobRow
    <2> QED BY <1>2, <2>2, <2>4, ConstantsAssumption
  <1>6. CASE \E jitter \in 0 .. Jitter :
                 tick'.seen[j] = [tick.seen[j] EXCEPT !.nextRunAt =
                                   AdvanceNextRun(@, tick.now, jitter)]
    <2> HIDE DEF n
    <2> QED BY <1>2, <1>3, <1>5, <1>6
  <1> QED BY <1>4, <1>6, TickJobSession

LEMMA SessionStep ==
    ASSUME TypeInv, WindowInv, JobsInv, BacklogInv, [Next]_vars,
           NEW j \in DOMAIN tick'.seen
    PROVE  SessionAhead(j)'
  <1>1. CASE TickStart
    <2>1. PICK due \in SUBSET DueJobs(clock) :
            tick' = [IdleTick EXCEPT !.pc = "jobs", !.now = clock, !.due = due,
                                     !.seen = [i \in due |-> jobs[i]]]
      BY <1>1 DEF TickStart
    <2>2. /\ tick'.now = clock /\ tick'.seen[j] = jobs[j] /\ j \in DueJobs(clock)
      BY <2>1 DEF IdleTick
    <2>3. j \in Jobs /\ jobs[j].nextRunAt # NoTime /\ jobs[j].nextRunAt <= clock
      BY <2>2 DEF DueJobs
    <2>4. JobAhead(j) /\ Entered(j) = Committed(j) /\ jobs[j].nextRunAt \in Nat
      <3>1. tick.inserted = {} /\ jobs[j] \in JobRow
        BY <1>1, <2>3 DEF TickStart, BacklogInv, InsertedInv, TypeInv, TypeOK
      <3>2. Entered(j) = Committed(j)
        BY <3>1 DEF Committed
      <3> QED BY <2>3, <3>1, <3>2 DEF BacklogInv, JobRow, Time
    <2>5. Entered(j)' = Entered(j)
      BY <1>1 DEF TickStart, Entered, Present
    <2> QED BY <2>2, <2>3, <2>4, <2>5 DEF JobAhead, SessionAhead
  <1>2. ASSUME NEW i \in Jobs, TickJob(i) PROVE SessionAhead(j)'
    <2>1. /\ j \in DOMAIN tick.seen /\ j \in Jobs /\ SessionAhead(j)
      BY <1>2, TickJobSession DEF BacklogInv, TypeInv, TypeOK
    <2>2. CASE i = j
      <3>1. j \notin tick'.due
        BY <1>2, <2>2, TickJobSession
      <3>2. (Cardinality(Entered(j)') + 1) * Interval <= tick'.seen[j].nextRunAt
            /\ tick'.seen[j].nextRunAt \in Nat
        BY <1>2, <2>2, EnqueueAhead, SkipAhead
      <3> QED BY <3>1, <3>2 DEF SessionAhead
    <2>3. CASE i # j
      <3>1. /\ tick'.seen[j] = tick.seen[j] /\ tick'.now = tick.now
            /\ tick'.due \subseteq tick.due
        BY <1>2, <2>1, <2>3, TickJobSession
      <3>2. Entered(j)' = Entered(j)
        <4>1. ~TickRollback
          <5>1. tick'.pc = tick.pc /\ tick.pc = "jobs"
            BY <1>2 DEF TickJob, TickSkipOverlap, TickSkipUnscheduled, TickEnqueue,
                        TypeInv, TypeOK, TickSession
          <5> QED BY <5>1 DEF TickRollback, IdleTick
        <4>2. ~TickJob(j)
          <5>1. i \in tick.due /\ tick'.due = tick.due \ {i}
            BY <1>2, TickJobSession
          <5>2. TickJob(j) => tick'.due = tick.due \ {j}
            BY <2>1, TickJobSession
          <5> QED BY <2>3, <5>1, <5>2
        <4> QED BY <2>1, <4>1, <4>2, EnteredKept
      <3> QED BY <2>1, <3>1, <3>2 DEF SessionAhead
    <2> QED BY <2>2, <2>3
  <1>3. CASE ~TickStart /\ \A i \in Jobs : ~TickJob(i)
    <2>1. /\ tick'.now = tick.now /\ tick'.due = tick.due /\ tick'.seen = tick.seen
          /\ tick' # IdleTick
      BY <1>3, TickSessionKept, IdleTickTyped
    <2>2. j \in DOMAIN tick.seen /\ j \in Jobs /\ SessionAhead(j)
      BY <2>1 DEF BacklogInv, TypeInv, TypeOK
    <2>3. ~TickRollback
      BY <2>1 DEF TickRollback
    <2>4. Entered(j)' = Entered(j)
      BY <1>3, <2>2, <2>3, EnteredKept
    <2> QED BY <2>1, <2>2, <2>4 DEF SessionAhead
  <1> QED BY <1>1, <1>2, <1>3

\* What the session has entered for a job that it has not moved is nothing.
LEMMA CleanStep ==
    ASSUME TypeInv, WindowInv, JobsInv, BacklogInv, [Next]_vars,
           NEW j \in Jobs, j \notin tick'.dirty
    PROVE  Entered(j)' = Committed(j)'
  <1>1. CASE TickCommit
    BY <1>1, CommitEnters
  <1>2. CASE TickRollback \/ TickStart
    <2>1. tick'.inserted = {}
      <3>1. CASE TickRollback
        BY <3>1 DEF TickRollback, IdleTick
      <3>2. CASE TickStart
        BY <3>2 DEF TickStart, IdleTick
      <3> QED BY <1>2, <3>1, <3>2
    <2> QED BY <2>1 DEF Committed
  <1>3. CASE ~TickCommit /\ ~TickRollback /\ ~TickStart
    <2>1. ~(TickJob(j) /\ TickEnqueue(j))
      BY EnqueueAhead
    <2>2. Entered(j)' = Entered(j) /\ Committed(j)' = Committed(j)
      BY <1>3, <2>1, EnteredKept, CommittedKept DEF BacklogInv
    <2>3. j \notin tick.dirty
      <3>1. ASSUME NEW i \in Jobs, TickJob(i) PROVE tick.dirty \subseteq tick'.dirty
        BY <3>1, TickJobSession
      <3> QED BY <1>3, <3>1, TickSessionKept
    <2> QED BY <2>2, <2>3 DEF BacklogInv
  <1> QED BY <1>1, <1>2, <1>3

LEMMA BacklogStep ==
    ASSUME TypeInv, WindowInv, JobsInv, BacklogInv, [Next]_vars,
           "invalid" \notin ScheduleChoices
    PROVE  BacklogInv'
  <1>1. NoBacklogExplosion'
    <2> SUFFICES ASSUME NEW j \in Jobs
                 PROVE  Cardinality(Entered(j)') * Interval <= clock'
      BY DEF NoBacklogExplosion, Entered, Present
    <2>1. /\ clock \in Nat /\ clock' \in Nat /\ clock' >= clock
          /\ Cardinality(Entered(j)) * Interval <= clock
      BY ClockGrows DEF BacklogInv, NoBacklogExplosion, Entered, TypeInv, TypeOK
    <2>2. CASE TickJob(j) /\ TickEnqueue(j)
      <3>1. Cardinality(Entered(j)') * Interval <= clock
        BY <2>2, EnqueueAhead
      <3>2. clock' = clock
        BY <2>2 DEF TickJob
      <3> QED BY <3>1, <3>2
    <2>3. CASE Entered(j)' = Entered(j)
      <3>1. Cardinality(Entered(j)) * Interval \in Nat
        BY EnteredFinite, IntervalArithmetic
      <3> QED BY <2>1, <2>3, <3>1
    <2>4. CASE Entered(j)' = Committed(j)
      <3>1. /\ Cardinality(Committed(j)) * Interval \in Nat
            /\ Cardinality(Entered(j)) * Interval \in Nat
            /\ Cardinality(Committed(j)) * Interval
                 <= Cardinality(Entered(j)) * Interval
        BY EnteredFinite, IntervalArithmetic
      <3> QED BY <2>1, <2>4, <3>1
    <2> QED BY <2>2, <2>3, <2>4, EnteredKept
  <1>2. \A j \in Jobs : JobAhead(j)'
    BY AheadStep
  <1>3. \A j \in DOMAIN tick'.seen : SessionAhead(j)'
    BY SessionStep
  <1>4. \A j \in Jobs \ tick'.dirty : Entered(j)' = Committed(j)'
    BY CleanStep
  <1>5. InsertedInv'
    BY InsertedStep DEF BacklogInv
  <1> QED BY <1>1, <1>2, <1>3, <1>4, <1>5 DEF BacklogInv

LEMMA BacklogInit == Init => JobsInv /\ BacklogInv
  <1> SUFFICES ASSUME Init PROVE JobsInv /\ BacklogInv
    OBVIOUS
  <1>1. /\ tick.inserted = {} /\ tick.dirty = {} /\ DOMAIN tick.seen = {}
        /\ clock = 0
    BY IdleTickTyped DEF Init, IdleTick
  <1>2. \A j : Entered(j) = {} /\ Committed(j) = {}
    BY NoRunRowTyped DEF Init, Entered, Committed, Present
  <1>3. \A j \in Jobs : jobs[j] = NoJobRow /\ NoJobRow.schedule # "invalid"
                        /\ NoJobRow.nextRunAt = NoTime
    BY DEF Init, NoJobRow
  <1>4. NoBacklogExplosion
    <2>1. \A j \in Jobs : Cardinality(Entered(j)) * Interval <= clock
      BY <1>1, <1>2, FS_EmptySet, ConstantsAssumption
    <2> QED BY <2>1 DEF NoBacklogExplosion, Entered
  <1> QED BY <1>1, <1>2, <1>3, <1>4
          DEF JobsInv, BacklogInv, InsertedInv, JobAhead

\* However late ticks come and however often they are lost between inserting a
\* run and committing the new due time (run_tick), a job gets one scheduled run
\* per interval at most, as long as its schedules can be computed.
THEOREM BacklogSafe ==
    ASSUME "invalid" \notin ScheduleChoices
    PROVE  Spec => []NoBacklogExplosion
  <1>1. Init => WindowInv
    BY IdleTickTyped DEF Init, WindowInv
  <1>2. TypeInv /\ WindowInv /\ JobsInv /\ BacklogInv /\ [Next]_vars
          => WindowInv' /\ JobsInv' /\ BacklogInv'
    BY WindowStep, JobsStep, BacklogStep
  <1>3. BacklogInv => NoBacklogExplosion
    BY DEF BacklogInv
  <1> QED BY <1>1, <1>2, <1>3, TypeInit, TypeStep, BacklogInit, PTL DEF Spec
=============================================================================
