SPECIFICATION FairSpec
CONSTANTS
    Rows <- MCRows
    Listings = {"orders", "catalog"}
    Pages <- MCPages
    Sizes <- MCSizes
    DefaultSize = 2
    MaxSize = 3
    MaxInt32 = 7
INVARIANTS
    WalkMissesNothing
PROPERTIES
    AnswerIsWindow
    WalkEnds
