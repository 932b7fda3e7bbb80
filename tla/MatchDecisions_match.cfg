SPECIFICATION Spec
CONSTANTS
    x = x
    y = y
    z = z
    unknown = unknown
    w1 = w1
    w2 = w2
    Refs = {1, 2, 3}
    Targets = {x, y, z}
    RefCat <- RefCategories
    TgtCat <- TargetCategories
    Mapped <- OneMapped
    RefItem <- RefItems
    TgtItem <- TargetItems
    Ratio <- Ratios
    Attributes <- Told
    Unknown = unknown
    Tokens <- AllTokens
    Numeric = {"X5", "P28"}
    Series = {"VAPOR"}
    Pairs <- DecidedPairs
    Threads = {w1, w2}
INVARIANTS
    DecisionsRespected
    OfferAcceptable
    GapSound
    SuggestionsPlausible
PROPERTIES
    SecondOnlyByRace
SYMMETRY ThreadSymmetry
