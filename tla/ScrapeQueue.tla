---------------------------- MODULE ScrapeQueue ----------------------------
(***************************************************************************)
(* The persistent scrape queue: the admin routes that create and edit      *)
(* jobs and enqueue manual runs, the scheduler tick that enqueues due and  *)
(* retry runs, and the workers that claim and execute runs.  The processes *)
(* share only the database, so the unit of atomicity is the transaction:   *)
(*                                                                         *)
(*   - a worker claims, executes and completes a run in ONE transaction,   *)
(*     so "running" lives in the worker (variable worker) and the row      *)
(*     stays "queued" for everybody else until the commit;                 *)
(*   - a tick is one transaction; the rows it has inserted are             *)
(*     tick.inserted, the columns it has set are tick.seen / processed /   *)
(*     exhausted, and all of them take effect at its commit;               *)
(*   - a manual request reads in one statement and inserts in a later one. *)
(*                                                                         *)
(* Backend "postgresql" is READ COMMITTED with row locks; "sqlite" has one *)
(* writer at a time (variable lock), whose competitors time out with       *)
(* "database is locked".                                                   *)
(***************************************************************************)
EXTENDS Integers, FiniteSets

CONSTANTS
    Jobs,            \* ids of scrape jobs
    Workers,         \* worker processes
    Requests,        \* web threads serving the manual-run endpoint
    Backend,         \* "postgresql" or "sqlite"
    Priority,        \* ScrapeJob.priority of every job
    OverlapChoices,  \* values of allow_overlap that operators use
    ScheduleChoices, \* schedules that operators write, see ScheduleKinds
    Patchable,       \* fields that PATCH /jobs/<id> changes
    MaxRetries,      \* largest max_retries of a job
    Interval,        \* interval_sec of the valid schedules
    Jitter,          \* jitter_sec of the valid schedules
    Backoff,         \* retry_backoff_sec (0 has become the default already)
    TickLimit,       \* rows one tick takes from each of its two queries
    Poison,          \* runs whose execution leaves the session unusable
    MaxRuns,         \* bound: rows of scrape_runs
    MaxManual,       \* bound: manual runs
    MaxTime,         \* bound: the clock
    MaxCrashes       \* bound: process crashes

ScheduleKinds == {"valid", "invalid", "disabled"}

ASSUME ConstantsAssumption ==
    /\ Backend \in {"postgresql", "sqlite"}
    /\ Priority \in [Jobs -> Int]
    /\ OverlapChoices \subseteq BOOLEAN
    /\ ScheduleChoices \subseteq ScheduleKinds
    /\ Patchable \subseteq {"enabled", "allow_overlap", "max_retries"}
    /\ MaxRetries \in Nat /\ Interval \in Nat \ {0} /\ Jitter \in Nat
    /\ Backoff \in Nat \ {0} /\ TickLimit \in Nat \ {0}
    /\ MaxRuns \in Nat /\ MaxManual \in Nat /\ MaxTime \in Nat
    /\ MaxCrashes \in Nat
    /\ Poison \subseteq 1..MaxRuns
    /\ {"free", "scheduler"} \cap Workers = {}
    /\ Jobs # {}

VARIABLES
    clock,      \* wall clock, in the unit of Interval and Backoff
    jobs,       \* scrape_jobs and the enabled row of scrape_schedules
    runs,       \* scrape_runs, uncommitted inserts of the tick included
    tick,       \* the scheduler and its session
    worker,     \* what each worker is doing
    request,    \* what each web thread is doing
    lock,       \* holder of the SQLite write lock
    crashes     \* crashes so far

vars == <<clock, jobs, runs, tick, worker, request, lock, crashes>>

-----------------------------------------------------------------------------
(* Rows *)

RunIds == 1..MaxRuns
NoRun == 0           \* retry_of_run_id IS NULL
NoTime == -1         \* next_run_at, finished_at IS NULL
Time == Nat \cup {NoTime}
Terminal == {"success", "partial", "failed"}

JobRow == [exists: BOOLEAN, enabled: BOOLEAN, allowOverlap: BOOLEAN,
           maxRetries: Nat, nextRunAt: Time,
           schedule: ScheduleKinds \cup {"none"}]

RunRow == [job: Jobs, status: {"absent", "queued"} \cup Terminal,
           trigger: {"scheduled", "manual", "retry"}, attempt: Nat,
           retryOf: RunIds \cup {NoRun}, finishedAt: Time, retryable: BOOLEAN,
           retryProcessed: BOOLEAN, retryExhausted: BOOLEAN]

NoJobRow == [exists |-> FALSE, enabled |-> FALSE, allowOverlap |-> FALSE,
             maxRetries |-> 0, nextRunAt |-> NoTime, schedule |-> "none"]

QueuedRow(j, trigger, attempt, source) ==
    [job |-> j, status |-> "queued", trigger |-> trigger, attempt |-> attempt,
     retryOf |-> source, finishedAt |-> NoTime, retryable |-> FALSE,
     retryProcessed |-> FALSE, retryExhausted |-> FALSE]

NoRunRow == [QueuedRow(CHOOSE j \in Jobs : TRUE, "manual", 1, NoRun)
                EXCEPT !.status = "absent"]

Present(r) == runs[r].status # "absent"
Visible(r) == Present(r) /\ r \notin tick.inserted

\* Queued runs are claimed by queued_at, then id.  Both grow in the order of
\* the inserts, so the model keeps the id alone.
IsNextId(r) ==
    /\ r \in RunIds
    /\ r > 1 => Present(r - 1)
    /\ \A k \in RunIds : k >= r => ~Present(k)

\* Mutant: the guard does not see what its own session inserted (no flush).
HasActiveRunUnflushed(j, own) ==
    \E r \in RunIds : Visible(r) /\ runs[r].job = j /\ runs[r].status = "queued"

\* A queued run or one that a worker is executing, as seen by the session
\* that inserted the rows in "own".
HasActiveRun(j, own) ==
    \E r \in RunIds : /\ Visible(r) \/ r \in own
                      /\ runs[r].job = j
                      /\ runs[r].status = "queued"

MayWrite(who) == Backend = "sqlite" => lock \in {"free", who}
Holding(who) == IF Backend = "sqlite" THEN who ELSE "free"

IdleTick == [pc |-> "idle", now |-> 0, due |-> {}, seen |-> <<>>,
             dirty |-> {}, cands |-> {}, inserted |-> {}, processed |-> {},
             exhausted |-> {}]

IdleWorker == [pc |-> "idle", run |-> NoRun]
Executing(w) == worker[w].pc = "executing"

Init ==
    /\ clock = 0
    /\ jobs = [j \in Jobs |-> NoJobRow]
    /\ runs = [r \in RunIds |-> NoRunRow]
    /\ tick = IdleTick
    /\ worker = [w \in Workers |-> IdleWorker]
    /\ request = [q \in Requests |-> {}]
    /\ lock = "free"
    /\ crashes = 0

ClockTick ==
    /\ clock < MaxTime
    /\ clock' = clock + 1
    /\ UNCHANGED <<jobs, runs, tick, worker, request, lock, crashes>>

-----------------------------------------------------------------------------
(* Admin routes *)

\* POST /api/admin/scrape/jobs.  next_run_at is computed only from a schedule
\* given with the job; a schedule that cannot be computed is kept, with
\* next_run_at left NULL; a schedule created disabled still sets it.
CreateJob(j) ==
    /\ ~jobs[j].exists
    /\ MayWrite("web")
    /\ \E overlap \in OverlapChoices, retries \in 0..MaxRetries,
          schedule \in ScheduleChoices \cup {"none"}, jitter \in 0..Jitter :
         jobs' = [jobs EXCEPT ![j] =
             [exists |-> TRUE, enabled |-> TRUE, allowOverlap |-> overlap,
              maxRetries |-> retries, schedule |-> schedule,
              nextRunAt |-> IF schedule \in {"valid", "disabled"}
                            THEN clock + Interval + jitter ELSE NoTime]]
    /\ UNCHANGED <<clock, runs, tick, worker, request, lock, crashes>>

\* PATCH /api/admin/scrape/jobs/<id>: any of the fields, next_run_at never.
PatchJob(j) ==
    /\ jobs[j].exists
    /\ MayWrite("web")
    /\ \E on \in BOOLEAN, overlap \in OverlapChoices, retries \in 0..MaxRetries :
         /\ on = jobs[j].enabled \/ "enabled" \in Patchable
         /\ overlap = jobs[j].allowOverlap \/ "allow_overlap" \in Patchable
         /\ retries = jobs[j].maxRetries \/ "max_retries" \in Patchable
         /\ jobs' = [jobs EXCEPT ![j] =
              [@ EXCEPT !.enabled = on, !.allowOverlap = overlap,
                        !.maxRetries = retries]]
    /\ UNCHANGED <<clock, runs, tick, worker, request, lock, crashes>>

\* PUT /api/admin/scrape/jobs/<id>/schedule: updates the enabled schedule or
\* creates one.  Neither path touches scrape_jobs.next_run_at.
PutSchedule(j) ==
    /\ jobs[j].exists
    /\ MayWrite("web")
    /\ \E schedule \in ScheduleChoices :
         jobs' = [jobs EXCEPT ![j].schedule = schedule]
    /\ UNCHANGED <<clock, runs, tick, worker, request, lock, crashes>>

\* POST /api/admin/scrape/jobs/<id>/run, up to the overlap guard.  The 409
\* answer changes nothing.
ManualCheck(q, j) ==
    /\ request[q] = {}
    /\ jobs[j].exists
    /\ jobs[j].allowOverlap \/ ~HasActiveRun(j, {})
    /\ request' = [request EXCEPT ![q] = {j}]
    /\ UNCHANGED <<clock, jobs, runs, tick, worker, lock, crashes>>

\* The rest of the route: insert and commit, with no second look.
ManualEnqueue(q) ==
    /\ MayWrite("web")
    /\ Cardinality({r \in RunIds : Present(r) /\ runs[r].trigger = "manual"})
         < MaxManual
    /\ \E j \in request[q], r \in RunIds :
         /\ IsNextId(r)
         /\ runs' = [runs EXCEPT ![r] = QueuedRow(j, "manual", 1, NoRun)]
    /\ request' = [request EXCEPT ![q] = {}]
    /\ UNCHANGED <<clock, jobs, tick, worker, lock, crashes>>

\* The insert fails ("database is locked", lost connection): rolled back, 400.
ManualFail(q) ==
    /\ request[q] # {}
    /\ request' = [request EXCEPT ![q] = {}]
    /\ UNCHANGED <<clock, jobs, runs, tick, worker, lock, crashes>>

-----------------------------------------------------------------------------
(* The scheduler tick *)

\* Mutant: one step and no catch-up.
AdvanceOneStep(current, now, jitter) == current + Interval + jitter

\* advance_next_run for an interval schedule: one step from the current
\* value, and from now when that step does not reach the future.  Jitter is
\* added to the first step only.
AdvanceNextRun(current, now, jitter) ==
    IF current + Interval + jitter > now
    THEN current + Interval + jitter
    ELSE now + Interval

\* S is what "ORDER BY ... LIMIT n" may return of T.
IsLimited(S, T, n, Before(_, _)) ==
    /\ S \subseteq T
    /\ Cardinality(S) = IF Cardinality(T) < n THEN Cardinality(T) ELSE n
    /\ \A x \in S, y \in T \ S : Before(x, y)

\* Mutant: a falsy priority is taken for a missing one.
DueJobsPrioritised(now) == {j \in Jobs : /\ jobs[j].enabled
                                         /\ jobs[j].nextRunAt # NoTime
                                         /\ jobs[j].nextRunAt <= now
                                         /\ Priority[j] # 0}

DueJobs(now) == {j \in Jobs : /\ jobs[j].enabled
                              /\ jobs[j].nextRunAt # NoTime
                              /\ jobs[j].nextRunAt <= now}

JobBefore(i, j) ==
    \/ Priority[i] > Priority[j]
    \/ Priority[i] = Priority[j] /\ jobs[i].nextRunAt <= jobs[j].nextRunAt

\* The tick loads its due jobs and works on the loaded objects (tick.seen).
TickStart ==
    /\ tick.pc = "idle"
    /\ \E due \in SUBSET DueJobs(clock) :
         /\ IsLimited(due, DueJobs(clock), TickLimit, JobBefore)
         /\ tick' = [IdleTick EXCEPT !.pc = "jobs", !.now = clock, !.due = due,
                                     !.seen = [j \in due |-> jobs[j]]]
    /\ UNCHANGED <<clock, jobs, runs, worker, request, lock, crashes>>

FirstDue(j) ==
    \A k \in tick.due : \/ Priority[j] > Priority[k]
                        \/ /\ Priority[j] = Priority[k]
                           /\ tick.seen[j].nextRunAt <= tick.seen[k].nextRunAt

\* Mutant: only a schedule that can be advanced is worth the look.
TickBlockedIfValid(j) ==
    /\ jobs[j].schedule = "valid"
    /\ ~tick.seen[j].allowOverlap
    /\ HasActiveRun(j, tick.inserted)

TickBlocked(j) == ~tick.seen[j].allowOverlap /\ HasActiveRun(j, tick.inserted)

\* Overlap guard: no run, but next_run_at advances if its schedule allows.
TickSkipOverlap(j) ==
    /\ TickBlocked(j)
    /\ IF jobs[j].schedule = "valid"
       THEN /\ MayWrite("scheduler")
            /\ lock' = Holding("scheduler")
            /\ tick' = [tick EXCEPT
                 !.due = @ \ {j}, !.dirty = @ \cup {j},
                 !.seen[j].nextRunAt = AdvanceNextRun(@, tick.now, 0)]
       ELSE /\ tick' = [tick EXCEPT !.due = @ \ {j}]
            /\ UNCHANGED lock
    /\ UNCHANGED runs

\* A job whose schedules are all disabled is skipped and stays due.
TickSkipUnscheduled(j) ==
    /\ ~TickBlocked(j)
    /\ jobs[j].schedule \in {"none", "disabled"}
    /\ tick' = [tick EXCEPT !.due = @ \ {j}]
    /\ UNCHANGED <<runs, lock>>

\* Mutant: the run is inserted and next_run_at is left alone.
TickEnqueueOnly(j) ==
    /\ ~TickBlocked(j)
    /\ jobs[j].schedule \in {"valid", "invalid"}
    /\ MayWrite("scheduler")
    /\ lock' = Holding("scheduler")
    /\ \E r \in RunIds :
         /\ IsNextId(r)
         /\ runs' = [runs EXCEPT ![r] = QueuedRow(j, "scheduled", 1, NoRun)]
         /\ tick' = [tick EXCEPT !.due = @ \ {j}, !.inserted = @ \cup {r}]

\* The run is inserted before advance_next_run is called, and an exception of
\* advance_next_run is swallowed: the run stays and next_run_at does too.
TickEnqueue(j) ==
    /\ ~TickBlocked(j)
    /\ jobs[j].schedule \in {"valid", "invalid"}
    /\ MayWrite("scheduler")
    /\ lock' = Holding("scheduler")
    /\ \E r \in RunIds, jitter \in 0..Jitter :
         /\ IsNextId(r)
         /\ runs' = [runs EXCEPT ![r] = QueuedRow(j, "scheduled", 1, NoRun)]
         /\ IF jobs[j].schedule = "valid"
            THEN tick' = [tick EXCEPT
                   !.due = @ \ {j}, !.inserted = @ \cup {r},
                   !.dirty = @ \cup {j},
                   !.seen[j].nextRunAt = AdvanceNextRun(@, tick.now, jitter)]
            ELSE tick' = [tick EXCEPT !.due = @ \ {j}, !.inserted = @ \cup {r}]

TickJob(j) ==
    /\ tick.pc = "jobs"
    /\ j \in tick.due
    /\ FirstDue(j)
    /\ TickSkipOverlap(j) \/ TickSkipUnscheduled(j) \/ TickEnqueue(j)
    /\ UNCHANGED <<clock, jobs, worker, request, crashes>>

\* Mutant: the failures that must not be retried too.
RetryCandidatesAny ==
    {r \in RunIds : /\ runs[r].status = "failed"
                    /\ ~runs[r].retryProcessed /\ ~runs[r].retryExhausted
                    /\ \A c \in RunIds : Present(c) => runs[c].retryOf # r}

\* Mutant: neither the flags nor the lineage of the children is looked at.
RetryCandidatesUnguarded ==
    {r \in RunIds : runs[r].status = "failed" /\ runs[r].retryable}

\* list_retry_candidates, in the session of the tick.
RetryCandidates ==
    {r \in RunIds : /\ runs[r].status = "failed" /\ runs[r].retryable
                    /\ ~runs[r].retryProcessed /\ ~runs[r].retryExhausted
                    /\ \A c \in RunIds : Present(c) => runs[c].retryOf # r}

FinishedBefore(r, s) == runs[r].finishedAt <= runs[s].finishedAt

TickListRetries ==
    /\ tick.pc = "jobs"
    /\ tick.due = {}
    /\ \E cands \in SUBSET RetryCandidates :
         /\ IsLimited(cands, RetryCandidates, TickLimit, FinishedBefore)
         /\ tick' = [tick EXCEPT !.pc = "retries", !.cands = cands]
    /\ UNCHANGED <<clock, jobs, runs, worker, request, lock, crashes>>

\* session.get: the object loaded for a due job is not read again.
JobOf(r) == IF runs[r].job \in DOMAIN tick.seen
            THEN tick.seen[runs[r].job] ELSE jobs[runs[r].job]

\* Mutant: one retry too many.
BudgetUsedOffByOne(r) == runs[r].attempt - 1 > JobOf(r).maxRetries

BudgetUsed(r) == runs[r].attempt - 1 >= JobOf(r).maxRetries

\* Mutant: due as soon as it has finished.
BackoffIgnored(r) == Backend # "sqlite" /\ runs[r].finishedAt <= tick.now

\* SQLite gives timestamps back without a time zone, and comparing one with
\* the aware "now" raises TypeError, which the loop swallows.
BackoffElapsed(r) ==
    /\ Backend # "sqlite"
    /\ runs[r].finishedAt + Backoff <= tick.now

\* Mutant: every run of the job counts, whatever its status.
RetryBlockedByAny(r) ==
    /\ ~JobOf(r).allowOverlap
    /\ \E s \in RunIds : Present(s) /\ runs[s].job = runs[r].job

RetryBlocked(r) ==
    ~JobOf(r).allowOverlap /\ HasActiveRun(runs[r].job, tick.inserted)

RetryDisabled(r) ==
    /\ ~JobOf(r).enabled
    /\ MayWrite("scheduler")
    /\ lock' = Holding("scheduler")
    /\ tick' = [tick EXCEPT !.cands = @ \ {r}, !.processed = @ \cup {r}]
    /\ UNCHANGED runs

RetryExhaust(r) ==
    /\ JobOf(r).enabled
    /\ BudgetUsed(r)
    /\ MayWrite("scheduler")
    /\ lock' = Holding("scheduler")
    /\ tick' = [tick EXCEPT !.cands = @ \ {r}, !.processed = @ \cup {r},
                            !.exhausted = @ \cup {r}]
    /\ UNCHANGED runs

RetryLater(r) ==
    /\ JobOf(r).enabled
    /\ ~BudgetUsed(r)
    /\ ~BackoffElapsed(r) \/ RetryBlocked(r)
    /\ tick' = [tick EXCEPT !.cands = @ \ {r}]
    /\ UNCHANGED <<runs, lock>>

\* Mutant: the source of the new run is not marked as processed.
RetryEnqueueUnmarked(r) ==
    /\ JobOf(r).enabled /\ ~BudgetUsed(r) /\ BackoffElapsed(r)
    /\ ~RetryBlocked(r) /\ MayWrite("scheduler")
    /\ lock' = Holding("scheduler")
    /\ \E c \in RunIds :
         /\ IsNextId(c)
         /\ runs' = [runs EXCEPT ![c] =
              QueuedRow(runs[r].job, "retry", runs[r].attempt + 1, r)]
         /\ tick' = [tick EXCEPT !.cands = @ \ {r}, !.inserted = @ \cup {c}]

\* Mutant: the failed run itself is put back on the queue.
RetryEnqueueInPlace(r) ==
    /\ JobOf(r).enabled /\ ~BudgetUsed(r) /\ BackoffElapsed(r)
    /\ ~RetryBlocked(r) /\ MayWrite("scheduler")
    /\ lock' = Holding("scheduler")
    /\ runs' = [runs EXCEPT ![r].status = "queued", ![r].attempt = @ + 1]
    /\ tick' = [tick EXCEPT !.cands = @ \ {r}, !.processed = @ \cup {r}]

RetryEnqueue(r) ==
    /\ JobOf(r).enabled
    /\ ~BudgetUsed(r)
    /\ BackoffElapsed(r)
    /\ ~RetryBlocked(r)
    /\ MayWrite("scheduler")
    /\ lock' = Holding("scheduler")
    /\ \E c \in RunIds :
         /\ IsNextId(c)
         /\ runs' = [runs EXCEPT ![c] =
              QueuedRow(runs[r].job, "retry", runs[r].attempt + 1, r)]
         /\ tick' = [tick EXCEPT !.cands = @ \ {r}, !.processed = @ \cup {r},
                                 !.inserted = @ \cup {c}]

TickRetry(r) ==
    /\ tick.pc = "retries"
    /\ r \in tick.cands
    /\ \A s \in tick.cands : FinishedBefore(r, s)
    /\ RetryDisabled(r) \/ RetryExhaust(r) \/ RetryLater(r) \/ RetryEnqueue(r)
    /\ UNCHANGED <<clock, jobs, worker, request, crashes>>

\* Mutant: the session of the tick is not closed.
ReleaseByWorkersOnly(who) ==
    lock' = IF lock = who /\ who \in Workers THEN "free" ELSE lock

ReleaseBy(who) == lock' = IF lock = who THEN "free" ELSE lock

TickCommit ==
    /\ tick.pc = "retries"
    /\ tick.cands = {}
    /\ jobs' = [j \in Jobs |-> IF j \in tick.dirty
                  THEN [jobs[j] EXCEPT !.nextRunAt = tick.seen[j].nextRunAt]
                  ELSE jobs[j]]
    /\ runs' = [r \in RunIds |-> [runs[r] EXCEPT
                  !.retryProcessed = @ \/ r \in tick.processed,
                  !.retryExhausted = @ \/ r \in tick.exhausted]]
    /\ tick' = IdleTick
    /\ ReleaseBy("scheduler")
    /\ UNCHANGED <<clock, worker, request, crashes>>

TickRollback ==
    /\ tick.pc # "idle"
    /\ runs' = [r \in RunIds |->
                  IF r \in tick.inserted THEN NoRunRow ELSE runs[r]]
    /\ tick' = IdleTick
    /\ ReleaseBy("scheduler")
    /\ UNCHANGED <<clock, jobs, worker, request>>

TickCrash == TickRollback /\ crashes < MaxCrashes /\ crashes' = crashes + 1

\* A flush of the tick waits for the write lock in vain.  The session is
\* unusable from then on, every later statement raises, and the loop rolls
\* the whole tick back.
TickLockTimeout ==
    /\ ~MayWrite("scheduler")
    /\ TickRollback
    /\ UNCHANGED crashes

-----------------------------------------------------------------------------
(* Workers *)

OldestOf(S, r) == r \in S /\ \A s \in S : r <= s

\* PostgreSQL: SELECT ... FOR UPDATE SKIP LOCKED and the update of the row.
LockedRuns == {worker[w].run : w \in {v \in Workers : Executing(v)}}

ClaimOldest(w, S) ==
    /\ Backend = "postgresql"
    /\ worker[w].pc = "idle"
    /\ \E r \in RunIds :
         /\ OldestOf(S, r)
         /\ worker' = [worker EXCEPT ![w] = [pc |-> "executing", run |-> r]]
    /\ UNCHANGED <<clock, jobs, runs, tick, request, lock, crashes>>

\* Mutant: no SKIP LOCKED, and no lock.
WorkerClaimUnlocked(w) ==
    ClaimOldest(w, {s \in RunIds : Visible(s) /\ runs[s].status = "queued"})

\* Mutant: reads rows that nobody has committed.
WorkerClaimUncommitted(w) ==
    ClaimOldest(w, {s \in RunIds : /\ runs[s].status = "queued"
                                   /\ s \notin LockedRuns})

\* Mutant: retry runs have no claimant.
WorkerClaimNoRetries(w) ==
    ClaimOldest(w, {s \in RunIds : /\ Visible(s) /\ runs[s].status = "queued"
                                   /\ s \notin LockedRuns
                                   /\ runs[s].trigger # "retry"})

WorkerClaim(w) ==
    ClaimOldest(w, {s \in RunIds : /\ Visible(s) /\ runs[s].status = "queued"
                                   /\ s \notin LockedRuns})

SelectOldest(w, S) ==
    /\ Backend = "sqlite"
    /\ worker[w].pc = "idle"
    /\ \E r \in RunIds :
         /\ OldestOf(S, r)
         /\ worker' = [worker EXCEPT ![w] = [pc |-> "selected", run |-> r]]
    /\ UNCHANGED <<clock, jobs, runs, tick, request, lock, crashes>>

\* Mutant: no look at the status.
WorkerSelectAny(w) == SelectOldest(w, {s \in RunIds : Visible(s)})

\* Mutant: reads rows that nobody has committed.
WorkerSelectUncommitted(w) ==
    SelectOldest(w, {s \in RunIds : runs[s].status = "queued"})

\* SQLite: a plain SELECT ...
WorkerSelect(w) ==
    SelectOldest(w, {s \in RunIds : Visible(s) /\ runs[s].status = "queued"})

\* ... and an UPDATE by id, which waits for the write lock and does not look
\* at the status again.  The lock is kept until the run is committed.
WorkerFlush(w) ==
    /\ worker[w].pc = "selected"
    /\ lock = "free"
    /\ lock' = w
    /\ worker' = [worker EXCEPT ![w].pc = "executing"]
    /\ UNCHANGED <<clock, jobs, runs, tick, request, crashes>>

WorkerLockTimeout(w) ==
    /\ worker[w].pc = "selected"
    /\ lock # "free"
    /\ worker' = [worker EXCEPT ![w] = IdleWorker]
    /\ UNCHANGED <<clock, jobs, runs, tick, request, lock, crashes>>

\* The runner returns (or raises, which is a failure without retry), the
\* outcome is written over whatever the row holds, and the loop commits.  The
\* session writes only what it changed: retryable was FALSE when it was loaded.
WorkerFinish(w) ==
    /\ Executing(w)
    /\ worker[w].run \notin Poison
    /\ \E status \in Terminal, retryable \in BOOLEAN :
         runs' = [runs EXCEPT ![worker[w].run] =
                    [@ EXCEPT !.status = status, !.finishedAt = clock,
                              !.retryable = @ \/ (retryable /\ status = "failed")]]
    /\ worker' = [worker EXCEPT ![w] = IdleWorker]
    /\ ReleaseBy(w)
    /\ UNCHANGED <<clock, jobs, tick, request, crashes>>

WorkerRollback(w) ==
    /\ Executing(w)
    /\ worker' = [worker EXCEPT ![w] = IdleWorker]
    /\ ReleaseBy(w)
    /\ UNCHANGED <<clock, jobs, runs, tick, request>>

WorkerCrash(w) ==
    WorkerRollback(w) /\ crashes < MaxCrashes /\ crashes' = crashes + 1

\* A database error inside the runner (a value a column refuses, a unique
\* key) leaves the session in a failed transaction: complete_run raises too,
\* and the loop rolls back the claim with everything else.
WorkerPoisoned(w) ==
    /\ worker[w].run \in Poison
    /\ WorkerRollback(w)
    /\ UNCHANGED crashes

-----------------------------------------------------------------------------

Admin ==
    \/ \E j \in Jobs : CreateJob(j) \/ PatchJob(j) \/ PutSchedule(j)
    \/ \E q \in Requests : \/ \E j \in Jobs : ManualCheck(q, j)
                           \/ ManualEnqueue(q) \/ ManualFail(q)

TickStep ==
    \/ TickStart \/ TickListRetries \/ TickCommit \/ TickLockTimeout
    \/ \E j \in Jobs : TickJob(j)
    \/ \E r \in RunIds : TickRetry(r)

WorkerStep(w) ==
    \/ WorkerClaim(w) \/ WorkerSelect(w) \/ WorkerFlush(w)
    \/ WorkerLockTimeout(w) \/ WorkerFinish(w) \/ WorkerPoisoned(w)

Next ==
    \/ ClockTick
    \/ Admin
    \/ TickStep
    \/ TickCrash
    \/ \E w \in Workers : WorkerStep(w) \/ WorkerCrash(w)

Spec == Init /\ [][Next]_vars

\* The scheduler and worker loops never stop by themselves and time passes;
\* operators owe nothing.  Crashes are finitely many, so a loop that is
\* restarted completes its transaction.
Fairness ==
    /\ WF_vars(ClockTick)
    /\ WF_vars(TickStep)
    /\ \A w \in Workers : WF_vars(WorkerStep(w))

FairSpec == Spec /\ Fairness

-----------------------------------------------------------------------------
(* Properties *)

TickSession ==
    [pc: {"idle", "jobs", "retries"}, now: Nat, due: SUBSET Jobs,
     seen: {tick.seen}, dirty: SUBSET Jobs, cands: SUBSET RunIds,
     inserted: SUBSET RunIds, processed: SUBSET RunIds,
     exhausted: SUBSET RunIds]

\* The type invariant, over the columns of models.py and the sessions.
TypeOK ==
    /\ clock \in Nat
    /\ jobs \in [Jobs -> JobRow]
    /\ runs \in [RunIds -> RunRow]
    /\ tick \in TickSession
    /\ tick.seen \in [DOMAIN tick.seen -> JobRow]
    /\ DOMAIN tick.seen \subseteq Jobs
    /\ tick.due \cup tick.dirty \subseteq DOMAIN tick.seen
    /\ \A r \in tick.inserted : runs[r].status = "queued"
    /\ worker \in [Workers -> [pc: {"idle", "selected", "executing"},
                               run: RunIds \cup {NoRun}]]
    /\ \A w \in Workers : worker[w].pc # "idle" => worker[w].run \in RunIds
    /\ request \in [Requests -> SUBSET Jobs]
    /\ lock \in Workers \cup {"free", "scheduler"}
    /\ crashes \in Nat

\* Run c says of itself that it retries run s: rightly so?
IsRetryOf(c, s) ==
    /\ s < c
    /\ Visible(s)
    /\ runs[s].status = "failed" /\ runs[s].retryable
    /\ ~runs[s].retryExhausted
    /\ runs[c].job = runs[s].job
    /\ runs[c].attempt = runs[s].attempt + 1
    /\ Visible(c) => runs[s].retryProcessed

\* Whatever the interleaving of ticks, crashes, rollbacks and workers, a retry
\* run descends from an earlier failed retryable run of the same job, which
\* nobody has given up, with the next attempt number, and a committed retry
\* finds its source marked as processed (scheduler.py: the child and the mark
\* share one transaction).
RetryLineage ==
    \A c, s \in RunIds : Present(c) /\ runs[c].retryOf = s => IsRetryOf(c, s)

\* No second retry child is created from a source run, whether the first is
\* committed, still in the session of the tick, or was lost in a rollback
\* (models.py, retry_processed).
SingleRetryChild ==
    \A c, d \in RunIds :
        /\ Present(c) /\ Present(d)
        /\ runs[c].retryOf = runs[d].retryOf /\ runs[c].retryOf # NoRun
        => c = d

\* What a tick has read is still true when it acts on it: its candidates are
\* failed, unmarked and childless until it has handled them itself, a child in
\* its session has its source marked in the same session, and a run it gives up
\* has no child, although workers and requests commit in between.
SessionInv ==
    /\ tick.pc = "idle" => tick.inserted = {}
    /\ tick.pc # "retries" =>
         tick.cands = {} /\ tick.processed = {} /\ tick.exhausted = {}
    /\ \A r \in tick.cands :
         /\ Visible(r) /\ runs[r].status = "failed" /\ runs[r].retryable
         /\ ~runs[r].retryProcessed /\ ~runs[r].retryExhausted
         /\ r \notin tick.processed
    /\ \A r \in tick.cands \cup tick.exhausted, c \in RunIds :
         Present(c) => runs[c].retryOf # r
    /\ tick.exhausted \subseteq tick.processed
    /\ \A c \in tick.inserted :
         runs[c].retryOf # NoRun => runs[c].retryOf \in tick.processed

\* The attempts along a lineage stay within the largest max_retries the job
\* ever had, the initial run not counted; only retries count as attempts.
RetryBudget ==
    \A r \in RunIds : Present(r) =>
        /\ runs[r].attempt <= MaxRetries + 1
        /\ runs[r].attempt = 1 <=> runs[r].retryOf = NoRun

\* A retry is never enqueued before retry_backoff_sec has passed since its
\* source finished, although the tick works with a "now" of its own.
RetryAfterBackoff ==
    \A c \in RunIds : Present(c) /\ runs[c].retryOf # NoRun =>
        runs[runs[c].retryOf].finishedAt + Backoff <= clock

\* Unless a job allows overlap, it never has two active runs, the one a tick
\* is about to commit included (ADR 0007, 4.5).
NoOverlap ==
    \A r, s \in RunIds :
        /\ runs[r].status = "queued" /\ runs[s].status = "queued"
        /\ runs[r].job = runs[s].job /\ ~jobs[runs[r].job].allowOverlap
        => r = s

\* Of two active runs of a job that does not allow overlap one was started by
\* hand: the tick looks before each run it inserts, the ones of its own session
\* and of a job that an invalid schedule keeps due included (_process_due_jobs,
\* _process_retries), and only the manual route can pass its guard too early.
OverlapOnlyManual ==
    \A r, s \in RunIds :
        /\ runs[r].status = "queued" /\ runs[s].status = "queued"
        /\ runs[r].job = runs[s].job /\ ~jobs[runs[r].job].allowOverlap
        /\ runs[r].trigger # "manual" /\ runs[s].trigger # "manual"
        => r = s

\* No two workers execute the same run, and what a worker executes is a
\* committed run that nobody has completed (claim_next_queued_run).
ClaimExclusive ==
    \A w \in Workers : Executing(w) =>
        /\ Visible(worker[w].run) /\ runs[worker[w].run].status = "queued"
        /\ \A v \in Workers : Executing(v) /\ worker[v].run = worker[w].run
                                => v = w

\* A run whose outcome is committed keeps it for good; the scheduler only
\* annotates it with its retry flags, and never takes one back.
TerminalImmutable ==
    [][\A r \in RunIds : Present(r) /\ runs[r].status \in Terminal =>
         /\ runs'[r] = [runs[r] EXCEPT
                          !.retryProcessed = runs'[r].retryProcessed,
                          !.retryExhausted = runs'[r].retryExhausted]
         /\ runs[r].retryProcessed => runs'[r].retryProcessed
         /\ runs[r].retryExhausted => runs'[r].retryExhausted]_vars

\* However late ticks come and however often they crash between inserting a run
\* and advancing next_run_at, a job gets at most one scheduled run per interval
\* of elapsed time (run_tick: both share one transaction).
NoBacklogExplosion ==
    \A j \in Jobs :
        Cardinality({r \in RunIds : /\ Present(r) /\ runs[r].job = j
                                    /\ runs[r].trigger = "scheduled"})
          * Interval <= clock

\* A tick that moves next_run_at moves it past the time of the tick: windows
\* missed in the meantime are dropped and none is fired by the next tick at once
\* (advance_next_run, misfire policy "skip").
WindowsConsumed ==
    [][\A j \in Jobs :
         jobs[j].exists /\ jobs'[j].nextRunAt # jobs[j].nextRunAt
           => jobs'[j].nextRunAt > tick.now]_vars

\* Every committed queued run is eventually completed.
QueuedEventuallyCompleted ==
    \A r \in RunIds : (Visible(r) /\ runs[r].status = "queued")
                        ~> (Present(r) /\ runs[r].status \in Terminal)

\* Every retryable failure whose backoff the clock reaches is eventually
\* evaluated: a retry run exists or the run is marked as not to be retried.
RetryEventuallyProcessed ==
    \A r \in RunIds :
        (/\ runs[r].status = "failed" /\ runs[r].retryable
         /\ runs[r].finishedAt + Backoff <= MaxTime)
        ~> runs[r].retryProcessed

Due(j) == /\ jobs[j].enabled /\ jobs[j].schedule = "valid"
          /\ jobs[j].nextRunAt # NoTime /\ jobs[j].nextRunAt <= clock

\* A due job is eventually taken up by a tick, which moves next_run_at past
\* the clock, whether it enqueues a run or skips it because of overlap.
DueEventuallyAdvanced == \A j \in Jobs : Due(j) ~> ~Due(j)

-----------------------------------------------------------------------------
(* What the queue promises: a ledger in which a batch of runs is entered at *)
(* once and every run is completed at most once.                            *)

CommittedStatus ==
    [r \in RunIds |-> IF Visible(r) THEN runs[r].status ELSE "absent"]

CommittedSource == [r \in RunIds |-> IF Visible(r) THEN runs[r].retryOf ELSE NoRun]

Ledger == INSTANCE RunLedger WITH Runs <- RunIds, Outcomes <- Terminal,
                                  state <- CommittedStatus,
                                  source <- CommittedSource

\* What a reader of scrape_runs sees is a behaviour of the ledger, whatever the
\* sessions of ticks, requests and workers do between their commits.
ImplementsLedger == Ledger!Spec
=============================================================================
