\* Two users, one of them with capitals in the name, and two requests.
CONSTANTS
    User = {u1, u2}
    LowerCase = {u1}
    Login = {l1, l2, l3}
    Request = {r1, r2}
    Value = {v1}
    NoProfile = NoProfile
    Life = 2
    MaxFaults = 2
    None = None
SPECIFICATION Spec
SYMMETRY Symmetry
INVARIANTS
    TypeOK
    LastWordStands
PROPERTIES
    KeepsPromise
