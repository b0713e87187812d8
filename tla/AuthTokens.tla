----------------------------- MODULE AuthTokens -----------------------------
(***************************************************************************)
(* Login, Logout, the tokens of VerifyPassword and the middleware of the   *)
(* protected routes.  A login mints an access token, a JWT that says whose *)
(* it is and in which second it was minted, and a refresh token, a uuid;   *)
(* Redis holds the hash of either under a key of the user.  The middleware *)
(* compares the token it is shown with the first key, once, before the     *)
(* handler; nothing reads the second.  Two access tokens minted for a user *)
(* in one second are the same string, so a token is a user and an age.     *)
(* One action is one Redis or SQL command.                                 *)
(***************************************************************************)
EXTENDS Naturals, FiniteSets

CONSTANTS
    User,
    LowerCase,  \* users whose name has no capitals: Login finds no other.
                \* A rename may change that: LowerCase = User, where anybody
                \* may log in at any time, takes in every history of names
    Login,      \* uuids of refresh tokens, one of each login
    Request,    \* concurrent requests
    Value, NoProfile,
    Life,       \* AccessTokenDuration and the time to live of both keys
    MaxFaults,  \* bound on requests cut short and commands sent again
    None

ASSUME LowerCaseAssumption == LowerCase \subseteq User
ASSUME NoneAssumption == None \notin User \cup Login
ASSUME LifeAssumption == Life \in Nat \ {0}
ASSUME FaultsAssumption == MaxFaults \in Nat

VARIABLES
    users,      \* rows of users
    access,     \* auth:acccessToken:<user>, by user
    refresh,    \* auth:refreshToken:<user>, by user
    held,       \* access tokens that clients were given, while they live
    profile,    \* fullname and bio in the rows of users
    settled,    \* history: users whose keys were last worked on by a request
                \* that met no other at work on them and was not cut short,
    last,       \* and what such a request left: the key of its login, or None
    rq,         \* the requests in progress
    faults

vars == <<users, access, refresh, held, profile, settled, last, rq, faults>>

keys == <<access, refresh>>
words == <<settled, last>>

-----------------------------------------------------------------------------
(* Tokens and keys.                                                        *)

(* What a key holds: the token of a login, and how long ago that was.      *)
Key == [login : Login, age : 0..Life]

ASSUME KeyAssumption == None \notin Key

Token == [user : User, age : 0..Life-1]

Alive(k) == k # None /\ k.age < Life

Older(k) == IF Alive(k) THEN [k EXCEPT !.age = @ + 1] ELSE k

(* Mutant: the middleware believes every JWT that has not expired.         *)
AcceptedUnseen(t) == t.user \in users

(* GetAccessToken compares the hashes of the token shown and of the cached.*)
Accepted(t) == access[t.user] # None /\ access[t.user].age = t.age

-----------------------------------------------------------------------------
(* The requests.                                                           *)

(* Those that work on the keys of their user.                              *)
Writing == {"set_access", "set_refresh", "del_access", "del_refresh"}

Label == Writing \cup {"idle", "handler"}

Local == [at : Label, user : User \cup {None}, key : Key \cup {None},
          alone : BOOLEAN]

Idle == [at |-> "idle", user |-> None, key |-> None, alone |-> FALSE]

At(r, label) == rq[r].at = label

Goto(r, label) == rq' = [rq EXCEPT ![r].at = label]

Writers(u) == {r \in Request : rq[r].at \in Writing /\ rq[r].user = u}

(* A request joins those at work on the keys of u: none is alone then.     *)
Join(r, label, u, key) ==
    rq' = [q \in Request |->
        IF q = r
        THEN [at |-> label, user |-> u, key |-> key, alone |-> Writers(u) = {}]
        ELSE [rq[q] EXCEPT !.alone = @ /\ q \notin Writers(u)]]

(* The client library sends a command again when its answer is late,       *)
(* although it may have taken effect: MaxRetries of NewRedisClient.  Those *)
(* of others may come between.  A first attempt that Redis executes only   *)
(* after the second, or after its request has ended, is left out.          *)
Resend ==
    /\ faults < MaxFaults
    /\ faults' = faults + 1
    /\ UNCHANGED rq

Answered(r, label) == Goto(r, label) /\ UNCHANGED faults

(* A request that was alone from its beginning has the last word.          *)
Finish(r) ==
    LET u == rq[r].user
    IN  /\ rq' = [rq EXCEPT ![r] = Idle]
        /\ settled' = IF rq[r].alone THEN settled \cup {u} ELSE settled \ {u}
        /\ last' = [last EXCEPT ![u] = IF rq[r].alone THEN rq[r].key ELSE None]

InUse(u) ==
    {k.login : k \in ({access[u], refresh[u], last[u]}
                        \cup {rq[r].key : r \in Writers(u)}) \ {None}}

-----------------------------------------------------------------------------
Init ==
    /\ users = {} /\ held = {}
    /\ access = [u \in User |-> None]
    /\ refresh = [u \in User |-> None]
    /\ profile = [u \in User |-> NoProfile]
    /\ settled = User
    /\ last = [u \in User |-> None]
    /\ rq = [r \in Request |-> Idle]
    /\ faults = 0

-----------------------------------------------------------------------------
(* Login, and the end of VerifyPassword.                                   *)

(* GenerateTokenPair.  One fresh uuid is as good as another.               *)
Mint(r, u) ==
    LET fresh == Login \ InUse(u)
    IN  /\ At(r, "idle")
        /\ fresh # {}
        /\ Join(r, "set_access", u,
                [login |-> CHOOSE l \in fresh : TRUE, age |-> 0])
        /\ UNCHANGED <<keys, held, profile, words, faults>>

(* GetUserAuth finds no name with capitals, since Login lowers what was    *)
(* typed and VerifyUsername and UpdateUsername store it as it was typed.   *)
LgCheckPassword(r) ==
    /\ \E u \in users \cap LowerCase : Mint(r, u)
    /\ UNCHANGED users

(* The INSERT of VerifyPassword.                                           *)
VpRegister(r) ==
    \E u \in User \ users :
        /\ users' = users \cup {u}
        /\ Mint(r, u)

(* Mutant: SETNX, which leaves the token of an earlier login.              *)
SetAccessOnce(r) ==
    /\ At(r, "set_access")
    /\ access' = [access EXCEPT ![rq[r].user] = IF @ = None THEN rq[r].key ELSE @]
    /\ Answered(r, "set_refresh") \/ Resend
    /\ UNCHANGED <<users, refresh, held, profile, words>>

SetAccess(r) ==
    /\ At(r, "set_access")
    /\ access' = [access EXCEPT ![rq[r].user] = rq[r].key]
    /\ Answered(r, "set_refresh") \/ Resend
    /\ UNCHANGED <<users, refresh, held, profile, words>>

(* The second SET; its answer given, the client gets the pair.             *)
SetRefresh(r) ==
    /\ At(r, "set_refresh")
    /\ refresh' = [refresh EXCEPT ![rq[r].user] = rq[r].key]
    /\ \/ /\ Finish(r)
          /\ held' = held \cup
                {t \in Token : t.user = rq[r].user /\ t.age = rq[r].key.age}
          /\ UNCHANGED faults
       \/ Resend /\ UNCHANGED <<held, words>>
    /\ UNCHANGED <<users, access, profile>>

-----------------------------------------------------------------------------
(* The protected routes.                                                   *)

(* The middleware lets a request in, to Logout or to another handler.      *)
ProtectedRoute(r) ==
    /\ At(r, "idle")
    /\ \E t \in held :
        /\ Accepted(t)
        /\ \/ Join(r, "del_access", t.user, None)
           \/ rq' = [rq EXCEPT ![r] =
                        [Idle EXCEPT !.at = "handler", !.user = t.user]]
    /\ UNCHANGED <<users, keys, held, profile, words, faults>>

(* UpdateFullname, UpdateBio: one UPDATE of a column in the user's row.    *)
UpdateProfile(r) ==
    /\ At(r, "handler")
    /\ \E v \in Value : profile' = [profile EXCEPT ![rq[r].user] = v]
    /\ rq' = [rq EXCEPT ![r] = Idle]
    /\ UNCHANGED <<users, keys, held, words, faults>>

(* GetUserInfo and the handlers of the other modules; an error return.     *)
EndHandler(r) ==
    /\ At(r, "handler")
    /\ rq' = [rq EXCEPT ![r] = Idle]
    /\ UNCHANGED <<users, keys, held, profile, words, faults>>

(* Mutant: Logout forgets the first key.                                   *)
DelNothing(r) ==
    /\ At(r, "del_access")
    /\ Answered(r, "del_refresh")
    /\ UNCHANGED <<users, keys, held, profile, words>>

(* Logout removes whatever token is cached now, and not the one that let   *)
(* it in.                                                                  *)
DelAccess(r) ==
    /\ At(r, "del_access")
    /\ access' = [access EXCEPT ![rq[r].user] = None]
    /\ Answered(r, "del_refresh") \/ Resend
    /\ UNCHANGED <<users, refresh, held, profile, words>>

DelRefresh(r) ==
    /\ At(r, "del_refresh")
    /\ refresh' = [refresh EXCEPT ![rq[r].user] = None]
    /\ \/ Finish(r) /\ UNCHANGED faults
       \/ Resend /\ UNCHANGED words
    /\ UNCHANGED <<users, access, held, profile>>

-----------------------------------------------------------------------------
(* The environment.                                                        *)

(* A command fails for good, or the process dies: nobody gets an answer.   *)
Fail(r) ==
    /\ faults < MaxFaults
    /\ rq[r].at \in Writing
    /\ rq' = [rq EXCEPT ![r] = Idle]
    /\ settled' = settled \ {rq[r].user}
    /\ last' = [last EXCEPT ![rq[r].user] = None]
    /\ faults' = faults + 1
    /\ UNCHANGED <<users, keys, held, profile>>

(* Mutant: the JWT carries no time of expiry.                              *)
TickKeeping ==
    /\ access' = [u \in User |-> Older(access[u])]
    /\ refresh' = [u \in User |-> Older(refresh[u])]
    /\ last' = [u \in User |-> Older(last[u])]
    /\ held' = {[t EXCEPT !.age = @ + 1] : t \in held}
    /\ UNCHANGED <<users, profile, settled, rq, faults>>

(* A second goes by.                                                       *)
Tick ==
    /\ access' = [u \in User |-> Older(access[u])]
    /\ refresh' = [u \in User |-> Older(refresh[u])]
    /\ last' = [u \in User |-> Older(last[u])]
    /\ held' = {t \in Token : \E s \in held : s.user = t.user /\ s.age + 1 = t.age}
    /\ rq' = [r \in Request |-> [rq[r] EXCEPT !.key = Older(@)]]
    /\ UNCHANGED <<users, profile, settled, faults>>

(* Redis drops a key when its time is up, which is not before that of the  *)
(* token in it: the token was minted before it was stored.                 *)
AccessExpires(u) ==
    /\ access[u] # None /\ ~Alive(access[u])
    /\ access' = [access EXCEPT ![u] = None]
    /\ UNCHANGED <<users, refresh, held, profile, words, rq, faults>>

RefreshExpires(u) ==
    /\ refresh[u] # None /\ ~Alive(refresh[u])
    /\ refresh' = [refresh EXCEPT ![u] = None]
    /\ UNCHANGED <<users, access, held, profile, words, rq, faults>>

-----------------------------------------------------------------------------
Signin(r) ==
    LgCheckPassword(r) \/ VpRegister(r) \/ SetAccess(r) \/ SetRefresh(r)

Protected(r) == ProtectedRoute(r) \/ UpdateProfile(r) \/ EndHandler(r)

Logout(r) == DelAccess(r) \/ DelRefresh(r)

Expire(u) == AccessExpires(u) \/ RefreshExpires(u)

Next ==
    \/ \E r \in Request : Signin(r) \/ Protected(r) \/ Logout(r) \/ Fail(r)
    \/ \E u \in User : Expire(u)
    \/ Tick

Spec == Init /\ [][Next]_vars

-----------------------------------------------------------------------------
(* Properties.                                                             *)

TypeOK ==
    /\ users \subseteq User
    /\ access \in [User -> Key \cup {None}]
    /\ refresh \in [User -> Key \cup {None}]
    /\ held \subseteq Token
    /\ profile \in [User -> Value \cup {NoProfile}]
    /\ settled \subseteq User
    /\ last \in [User -> Key \cup {None}]
    /\ rq \in [Request -> Local]
    /\ faults \in 0..MaxFaults

(* The last login or logout of a user that met no other has the last word, *)
(* whatever overlapped, was cut short or sent again before it: when nobody *)
(* is at work on the two keys they are both of that login, or both gone,   *)
(* and an expired one may be gone before the other.  A command that Redis  *)
(* executes after its client gave it up could still speak after it.        *)
LastWordStands ==
    \A u \in settled : Writers(u) = {} =>
        \A k \in {access[u], refresh[u]} :
            k = last[u] \/ (k = None /\ ~Alive(last[u]))

Inside == {"handler", "del_access", "del_refresh"}

Promise == INSTANCE Sessions WITH
    registered <- users,
    age        <- [u \in User |-> IF access[u] = None THEN Life ELSE access[u].age],
    inside     <- [r \in Request |-> IF rq[r].at \in Inside THEN rq[r].user
                                     ELSE None]

(* The token cache keeps the promise of Sessions: sessions end in time, a  *)
(* handler is entered in an open session only, and what it does reaches no *)
(* other user, although the middleware looks once and the session may be   *)
(* replaced, closed or over before the handler acts.                       *)
KeepsPromise == Promise!Spec

=============================================================================
