SPECIFICATION Spec
CONSTANTS
    p1 = p1
    p2 = p2
    dead = dead
    none = none
    w1 = w1
    w2 = w2
    Unset = Unset
    Garbled = Garbled
    Workers = {w1, w2}
    Urls = {p1, p2, dead}
    NoPage = none
    Root = p1
    Sites <- OneShop
    Dead = {dead}
    Numbered = {p1}
    NotNumbered = dead
    Found <- HomeLinks
    Matching <- Some
    Menu <- Links
    Jobs <- Crawls
    MenuShops <- Menus
    LastChunk = 2
    PageLimit <- Limits
    TtlSeconds = 0
    TtlDays = Unset
    SecondsPerDay = 86400
    DefaultTtl = 300
INVARIANTS
    CacheSettles
    CrawlWhole
PROPERTIES
    CrawlAdvances
CHECK_DEADLOCK FALSE
