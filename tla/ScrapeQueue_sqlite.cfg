SPECIFICATION FairSpec
CONSTANTS
    j1 = j1
    j2 = j2
    w1 = w1
    w2 = w2
    q1 = q1
    q2 = q2
    Jobs <- OneJob
    Workers = {w1}
    Requests = {q1}
    Backend = "sqlite"
    Priority <- EqualPriority
    OverlapChoices = {TRUE, FALSE}
    ScheduleChoices = {"valid", "invalid"}
    Patchable = {}
    MaxRetries = 1
    Interval = 2
    Jitter = 0
    Backoff = 1
    TickLimit = 2
    Poison = {}
    MaxRuns = 3
    MaxManual = 1
    MaxTime = 2
    MaxCrashes = 1
INVARIANTS
    OverlapOnlyManual
PROPERTIES
    ImplementsLedger
    QueuedEventuallyCompleted
