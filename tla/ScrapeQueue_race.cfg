SPECIFICATION Spec
CONSTANTS
    j1 = j1
    j2 = j2
    w1 = w1
    w2 = w2
    q1 = q1
    q2 = q2
    Jobs <- OneJob
    Workers = {w1}
    Requests = {q1}
    Backend = "postgresql"
    Priority <- EqualPriority
    OverlapChoices = {FALSE}
    ScheduleChoices = {"valid"}
    Patchable = {}
    MaxRetries = 1
    Interval = 2
    Jitter = 0
    Backoff = 1
    TickLimit = 2
    Poison = {}
    MaxRuns = 4
    MaxManual = 1
    MaxTime = 4
    MaxCrashes = 1
INVARIANTS
    NoOverlap
