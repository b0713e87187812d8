\* Two times and four ids, so that rows of one time are told apart by id.
CONSTANTS
    Time = {1, 2}
    Id = {1, 2, 3, 4}
    MaxLimit = 2
    MayCut = FALSE
    None = None
SPECIFICATION FairSpec
INVARIANTS
    TypeOK
    PagesDescend
    NothingSkipped
PROPERTIES
    WalkEnds
CHECK_DEADLOCK FALSE
