------------------------------ MODULE Sessions ------------------------------
(***************************************************************************)
(* What the tokens of UserUsecase promise: a registered user has at most   *)
(* one session.  A login opens it; it ends when it is Life old, however    *)
(* much it is used, by the next login, or by a logout.  A protected        *)
(* handler is entered in an open session only, and nothing but a handler   *)
(* that was let in closes a session or changes a profile, and then that of *)
(* its own user.                                                           *)
(***************************************************************************)
EXTENDS Naturals

CONSTANTS User, Request, Value, NoProfile, Life, None

VARIABLES
    registered, \* users with an account
    age,        \* of each user's session; Life when there is none
    inside,     \* the user on whose behalf a request runs, or None
    profile     \* what the users have told of themselves

vars == <<registered, age, inside, profile>>

Init ==
    /\ registered = {}
    /\ age = [u \in User |-> Life]
    /\ inside = [r \in Request |-> None]
    /\ profile = [u \in User |-> NoProfile]

Register(u) ==
    /\ registered' = registered \cup {u}
    /\ UNCHANGED <<age, inside, profile>>

(* The session counts from the check of the password, so that a slow login *)
(* opens one of which some time, or all of it, is gone.                    *)
Open(u) ==
    /\ u \in registered
    /\ \E a \in 0..Life : age' = [age EXCEPT ![u] = a]
    /\ UNCHANGED <<registered, inside, profile>>

Tick ==
    /\ age' = [u \in User |-> IF age[u] < Life THEN age[u] + 1 ELSE Life]
    /\ UNCHANGED <<registered, inside, profile>>

Enter(r, u) ==
    /\ age[u] < Life
    /\ inside[r] = None
    /\ inside' = [inside EXCEPT ![r] = u]
    /\ UNCHANGED <<registered, age, profile>>

Close(r) ==
    /\ inside[r] # None
    /\ age' = [age EXCEPT ![inside[r]] = Life]
    /\ UNCHANGED <<registered, inside, profile>>

(* A handler ends, having changed the profile of its user or not.          *)
Leave(r) ==
    /\ inside[r] # None
    /\ inside' = [inside EXCEPT ![r] = None]
    /\ \/ UNCHANGED profile
       \/ \E v \in Value : profile' = [profile EXCEPT ![inside[r]] = v]
    /\ UNCHANGED <<registered, age>>

Next ==
    \/ Tick
    \/ \E u \in User : Register(u) \/ Open(u)
    \/ \E r \in Request, u \in User : Enter(r, u)
    \/ \E r \in Request : Close(r) \/ Leave(r)

Spec == Init /\ [][Next]_vars

=============================================================================
