\* Two servers, so that invites and updates of a deleted one meet another;
\* two requests.
CONSTANTS
    Server = {s1, s2}
    User = {u1, u2}
    Code = {c1, c2}
    Column = {name, description}
    Value = {v1, v2}
    Request = {r1, r2}
    None = None
    MaxFaults = 1
SYMMETRY Names
SPECIFICATION Spec
INVARIANTS
    TypeOK
    MembersAreOwners
PROPERTIES
    CodesKeepTheirServer
    OwnersDecide
    KeepsPromise
