\* One address, so that the runs of the two requests meet; no symmetry.
CONSTANTS
    Email = {e1}
    Username = {u1}
    Session = {s1, s2}
    Request = {r1, r2}
    MaxFaults = 1
    None = None
SPECIFICATION FairSpec
PROPERTIES
    SessionsDrain
CHECK_DEADLOCK FALSE
