---------------------------- MODULE MCAuthTokens ----------------------------
(* Instances of AuthTokens for TLC.                                        *)
EXTENDS AuthTokens, TLC

(* Requests are only compared with each other, and no property is about    *)
(* liveness.  Uuids are chosen, and the users' names differ in their case. *)
Symmetry == Permutations(Request)

=============================================================================
