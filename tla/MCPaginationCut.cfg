\* A lost connection while two rows are read.
CONSTANTS
    Time = {1}
    Id = {1, 2}
    MaxLimit = 2
    MayCut = TRUE
    None = None
SPECIFICATION Spec
INVARIANTS
    EndIsTheEnd
CHECK_DEADLOCK FALSE
