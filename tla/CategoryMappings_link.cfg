CONSTANTS
    r = r
    t = t
    w1 = w1
    w2 = w2
    Stores = {r, t}
    Reference = {r}
    Names = {1, 2}
    Category <- Shops
    Norm <- SameNorm
    NoNorm = ""
    Choices <- ChosenPairs
    Entered = {"manual"}
    Threads = {w1, w2}
SPECIFICATION FairSpec
INVARIANTS
    MappingsLegal
PROPERTIES
    LinkKeepsOlder
    LinkFaithful
    RequestEnds
