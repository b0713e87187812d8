\* Two likes of one post at the same time.
CONSTANTS
    s1 = s1
    s2 = s2
    u1 = u1
    u2 = u2
    Server = {s1, s2}
    User = {u1, u2}
    Membership <- Owners
    Post = {p1}
    Comment = {c1}
    Caption = {t1}
    Request = {r1, r2}
    MaxFaults = 0
    None = None
SPECIFICATION Spec
INVARIANTS
    LikedOnce
CHECK_DEADLOCK FALSE
