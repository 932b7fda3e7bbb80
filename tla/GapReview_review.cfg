SPECIFICATION FairSpec
CONSTANTS
    c1 = c1
    c2 = c2
    t1 = t1
    t2 = t2
    x1 = x1
    x2 = x2
    u1 = u1
    v1 = v1
    none = none
    Pages = {u1}
    Clients = {v1}
    Posts <- SomePosts
    RefCats = {c1, c2}
    NoCat = none
    TargetCats = {t1, t2}
    Products = {x1, x2}
    CatOf <- ProductCats
    MappedTo <- Mapping
    GapSets <- SomeGaps
    Filters <- DefaultOnly
    Selectable <- Choices
    MaxEvents = 6
    MaxLoads <- InFlight
INVARIANTS
    ShownIsStored
    
    
PROPERTIES
    ActionEnds
CHECK_DEADLOCK FALSE
