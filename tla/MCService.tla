------------------------------ MODULE MCService ------------------------------
(* Instances of Service for TLC.  The liveness properties rule symmetry    *)
(* out.                                                                    *)
EXTENDS Service

=============================================================================
