\* Three requests on one post, so that deletions meet; no symmetry.
CONSTANTS
    s1 = s1
    s2 = s2
    u1 = u1
    u2 = u2
    Server = {s1, s2}
    User = {u1, u2}
    Membership <- Owners
    Post = {p1}
    Comment = {}
    Caption = {t1}
    Request = {r1, r2, r3}
    MaxFaults = 1
    None = None
SPECIFICATION FairSpec
PROPERTIES
    WithdrawnImagesGo
CHECK_DEADLOCK FALSE
