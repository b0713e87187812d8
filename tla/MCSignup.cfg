\* Two requests of any kinds, two addresses, two names, two sessions.
CONSTANTS
    Email = {e1, e2}
    Username = {u1, u2}
    Session = {s1, s2}
    Request = {r1, r2}
    MaxFaults = 1
    None = None
SPECIFICATION Spec
SYMMETRY Symmetry
INVARIANTS
    TypeOK
    AccountsAreVerified
    AccountsAreDistinct
    KnownSessionsExpire
    PointerMatchesMail
    NoOtpLimbo
PROPERTIES
    SessionsLiveOnce
    KeepsPromise
\* Users, names and session ids run out: the system may come to rest.
CHECK_DEADLOCK FALSE
