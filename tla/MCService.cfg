\* As many deletions as connections, and a request of another kind.
CONSTANTS
    Conn = {k1, k2}
    Request = {r1, r2, r3}
    Deleter = {r1, r2}
    None = None
SPECIFICATION FairService
INVARIANTS
    TypeOK
    ServiceTypeOK
    ConnsAccounted
    GoodbyeIsHonest
PROPERTIES
    JamLastsUntilStopped
    ServedUntilStopped
    StopsInTheEnd
\* The process ends.
CHECK_DEADLOCK FALSE
