SPECIFICATION Spec
CONSTANTS
    j1 = j1
    j2 = j2
    w1 = w1
    w2 = w2
    q1 = q1
    q2 = q2
    Jobs <- OneJob
    Workers = {w1, w2}
    Requests = {}
    Backend = "postgresql"
    Priority <- EqualPriority
    OverlapChoices = {FALSE}
    ScheduleChoices = {"valid", "disabled"}
    Patchable = {"enabled", "max_retries"}
    MaxRetries = 1
    Interval = 2
    Jitter = 0
    Backoff = 1
    TickLimit = 2
    Poison = {4}
    MaxRuns = 4
    MaxManual = 0
    MaxTime = 5
    MaxCrashes = 1
INVARIANTS
    RetryLineage
    SingleRetryChild
    
    RetryAfterBackoff
    NoOverlap
    ClaimExclusive
PROPERTIES
    TerminalImmutable
    WindowsConsumed
    ImplementsLedger
SYMMETRY WorkerSymmetry
