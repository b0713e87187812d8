\* Two deletions and two connections.
CONSTANTS
    Conn = {k1, k2}
    Request = {r1, r2}
    Deleter = {r1, r2}
    None = None
SPECIFICATION FairSpec
PROPERTIES
    DeletionsComplete
CHECK_DEADLOCK FALSE
