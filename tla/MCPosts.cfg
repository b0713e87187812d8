\* Two requests of any kinds on two posts and two comments.
CONSTANTS
    s1 = s1
    s2 = s2
    u1 = u1
    u2 = u2
    Server = {s1, s2}
    User = {u1, u2}
    Membership <- Owners
    Post = {p1, p2}
    Comment = {c1, c2}
    Caption = {t1, t2}
    Request = {r1, r2}
    MaxFaults = 1
    None = None
SPECIFICATION Spec
SYMMETRY Symmetry
INVARIANTS
    TypeOK
    PostsAreServed
    StorageAccounted
    RepliesStayInThread
    LikesBounded
PROPERTIES
    AuthorsDecide
    KeepsPromise
CHECK_DEADLOCK FALSE
