---------------------------- MODULE Registration ----------------------------
(***************************************************************************)
(* What the signup of UserUsecase promises, whatever happens between its   *)
(* requests: an address is proved to be its owner's before an account      *)
(* carries it, accounts are never removed, never share an address or a     *)
(* name, and change nothing but their name.                                *)
(***************************************************************************)
CONSTANTS Email, Username

VARIABLES
    verified,   \* addresses whose owner has typed back an OTP mailed to it
    accounts

vars == <<verified, accounts>>

Free(u, others) == \A a \in others : a.username # u

Init == verified = {} /\ accounts = {}

Verify(e) ==
    /\ verified' = verified \cup {e}
    /\ UNCHANGED accounts

Register(e, u) ==
    /\ e \in verified
    /\ Free(u, accounts)
    /\ \A a \in accounts : a.email # e
    /\ accounts' = accounts \cup {[email |-> e, username |-> u]}
    /\ UNCHANGED verified

Rename(a, u) ==
    /\ Free(u, accounts \ {a})
    /\ accounts' = (accounts \ {a}) \cup {[email |-> a.email, username |-> u]}
    /\ UNCHANGED verified

Next ==
    \/ \E e \in Email : Verify(e)
    \/ \E e \in Email, u \in Username : Register(e, u)
    \/ \E a \in accounts, u \in Username : Rename(a, u)

Spec == Init /\ [][Next]_vars

=============================================================================
