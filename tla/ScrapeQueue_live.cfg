SPECIFICATION FairSpec
CONSTANTS
    j1 = j1
    j2 = j2
    w1 = w1
    w2 = w2
    q1 = q1
    q2 = q2
    Jobs <- TwoJobs
    Workers = {w1}
    Requests = {}
    Backend = "postgresql"
    Priority <- FirstJobPriority
    OverlapChoices = {FALSE}
    ScheduleChoices = {"valid"}
    Patchable = {}
    MaxRetries = 1
    Interval = 2
    Jitter = 1
    Backoff = 1
    TickLimit = 1
    Poison = {}
    MaxRuns = 4
    MaxManual = 0
    MaxTime = 3
    MaxCrashes = 1
INVARIANTS
    NoBacklogExplosion
PROPERTIES
    RetryEventuallyProcessed
    DueEventuallyAdvanced
