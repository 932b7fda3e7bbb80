SPECIFICATION FairSpec
CONSTANTS
    c1 = c1
    c2 = c2
    k1 = k1
    k2 = k2
    x = x
    y = y
    None = None
    RefCats = {c1, c2}
    TargetCats = {k1, k2}
    MappedTo <- Mapping
    Stores <- StoreChoices
    Refs = {1, 2, 3}
    Targets = {x, y}
    RefCatOf <- RefCategories
    TgtCatOf <- TargetCategories
    Score <- Scores
    Others <- OtherPairs
    Saves = 2
    Searches = 2
    MaxEvents = 5
INVARIANTS
    OfferedUndecided
    OfferedInScope
    VanishedIsStored
    ListedForProduct
PROPERTIES
    RequestsEnd
CHECK_DEADLOCK FALSE
