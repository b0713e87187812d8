\* One request in flight when the signal comes.
CONSTANTS
    Conn = {k1}
    Request = {r1}
    Deleter = {}
    None = None
SPECIFICATION ServiceSpec
INVARIANTS
    RequestsMayFinish
CHECK_DEADLOCK FALSE
