------------------------------ MODULE MCServers ------------------------------
(* Instances of Servers for TLC.                                           *)
EXTENDS Servers, TLC

(* Servers, users, codes, values and requests are told apart by nothing    *)
(* but their names, and no property is about liveness.                     *)
Names == Permutations(User) \cup Permutations(Code) \cup Permutations(Request)
            \cup Permutations(Server)

=============================================================================
