SPECIFICATION Spec
CONSTANTS
    u1 = u1
    u2 = u2
    q = q
    none = none
    c1 = c1
    c2 = c2
    s1 = s1
    s2 = s2
    Urls = {u1, u2}
    Prices = {q}
    Inexact = {q}
    NoPrice = none
    Categories = {c1, c2}
    Syncs = {s1, s2}
    Workers = {s2}
    Scope <- Scopes
    MaxRuns = 1
    MaxItems = 1
PROPERTIES
    FailureRecorded
CHECK_DEADLOCK FALSE
