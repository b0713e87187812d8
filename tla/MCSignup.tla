------------------------------ MODULE MCSignup ------------------------------
(* Instances of Signup for TLC.                                            *)
EXTENDS Signup, TLC

(* Requests, sessions, addresses and usernames are only compared with each *)
(* other; the runs that use the symmetry check safety properties.          *)
Symmetry ==
    Permutations(Request) \cup Permutations(Session)
        \cup Permutations(Email) \cup Permutations(Username)

=============================================================================
