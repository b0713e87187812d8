----------------------------- MODULE MCConnPool -----------------------------
(* Instances of ConnPool for TLC.  The liveness properties rule symmetry   *)
(* out.                                                                    *)
EXTENDS ConnPool

=============================================================================
