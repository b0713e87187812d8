-------------------------- MODULE AuthTokensProofs --------------------------
(***************************************************************************)
(* Proofs about AuthTokens, for any numbers of users, logins, requests,    *)
(* seconds of life and faults.                                             *)
(***************************************************************************)
EXTENDS AuthTokens, TLAPS

-----------------------------------------------------------------------------
(* TypeOK is not inductive: a request needs the user and key it goes on    *)
(* with.                                                                   *)

HasLocals ==
    \A r \in Request :
        /\ rq[r].at # "idle" => rq[r].user \in User
        /\ rq[r].at \in {"set_access", "set_refresh"} => rq[r].key \in Key
        /\ rq[r].at \in {"del_access", "del_refresh"} => rq[r].key = None
        /\ rq[r].at \in Writing => rq[r].user \in users

(* The session of a user who has no row would be nobody's.                 *)
KeysOfUsers == \A u \in User : access[u] # None => u \in users

TypeInv == TypeOK /\ HasLocals /\ KeysOfUsers

(* A key that grows older is a key still, and None stays None.             *)
LEMMA OlderType ==
    ASSUME NEW k \in Key \cup {None}
    PROVE  /\ Older(k) \in Key \cup {None}
           /\ k = None <=> Older(k) = None
           /\ k # None => Older(k) \in Key
           /\ ~Alive(k) => Older(k) = k
           /\ ~Alive(k) <=> (k = None \/ k.age = Life)
<1>1. \A key \in Key : key # None
  BY KeyAssumption
<1>2. CASE k = None
  BY <1>2 DEF Older, Alive
<1>3. CASE k \in Key
  <2>1. k.age \in 0..Life /\ k.login \in Login
    BY <1>3 DEF Key
  <2>2. k.age < Life => [k EXCEPT !.age = @ + 1] \in Key
    BY <1>3, <2>1, LifeAssumption DEF Key
  <2> QED
    BY <1>1, <1>3, <2>1, <2>2, LifeAssumption DEF Older, Alive
<1> QED
  BY <1>2, <1>3

(* The locals of a request that joins the others or moves on.              *)
LEMMA LocalTypes ==
    ASSUME TypeInv, NEW r \in Request
    PROVE  /\ \A label \in Label : Goto(r, label) =>
                /\ rq' \in [Request -> Local]
                /\ rq'[r].at = label /\ rq'[r].user = rq[r].user
                /\ rq'[r].key = rq[r].key /\ rq'[r].alone = rq[r].alone
                /\ \A q \in Request \ {r} : rq'[q] = rq[q]
           /\ \A label \in Label, u \in User, key \in Key \cup {None} :
                Join(r, label, u, key) =>
                    /\ rq' \in [Request -> Local]
                    /\ rq'[r].at = label /\ rq'[r].user = u
                    /\ rq'[r].key = key
                    /\ rq'[r].alone <=> Writers(u) = {}
                    /\ \A q \in Request \ {r} :
                        /\ rq'[q].at = rq[q].at /\ rq'[q].user = rq[q].user
                        /\ rq'[q].key = rq[q].key
                        /\ rq'[q].alone <=> rq[q].alone /\ q \notin Writers(u)
           /\ rq' = [rq EXCEPT ![r] = Idle] =>
                /\ rq' \in [Request -> Local]
                /\ rq'[r] = Idle
                /\ \A q \in Request \ {r} : rq'[q] = rq[q]
<1> USE DEF TypeInv, TypeOK
<1>1. ASSUME NEW label \in Label, Goto(r, label)
      PROVE  /\ rq' \in [Request -> Local]
             /\ rq'[r].at = label /\ rq'[r].user = rq[r].user
             /\ rq'[r].key = rq[r].key /\ rq'[r].alone = rq[r].alone
             /\ \A q \in Request \ {r} : rq'[q] = rq[q]
  <2>1. rq[r] \in Local /\ rq' = [rq EXCEPT ![r] = [rq[r] EXCEPT !.at = label]]
    BY <1>1 DEF Goto
  <2>2. [rq[r] EXCEPT !.at = label] \in Local
    BY <2>1 DEF Local
  <2> QED
    BY <2>1, <2>2 DEF Local
<1>2. ASSUME NEW label \in Label, NEW u \in User, NEW key \in Key \cup {None},
             Join(r, label, u, key)
      PROVE  /\ rq' \in [Request -> Local]
             /\ rq'[r].at = label /\ rq'[r].user = u
             /\ rq'[r].key = key
             /\ rq'[r].alone <=> Writers(u) = {}
             /\ \A q \in Request \ {r} :
                    /\ rq'[q].at = rq[q].at /\ rq'[q].user = rq[q].user
                    /\ rq'[q].key = rq[q].key
                    /\ rq'[q].alone <=> rq[q].alone /\ q \notin Writers(u)
  <2> DEFINE New == [at |-> label, user |-> u, key |-> key,
                     alone |-> Writers(u) = {}]
             Kept(q) == [rq[q] EXCEPT !.alone = @ /\ q \notin Writers(u)]
  <2>1. New \in Local
    BY DEF Local
  <2>2. \A q \in Request : Kept(q) \in Local
    BY DEF Local
  <2>3. rq' = [q \in Request |-> IF q = r THEN New ELSE Kept(q)]
    BY <1>2 DEF Join
  <2>4. \A q \in Request \ {r} : rq'[q] = Kept(q) /\ rq[q] \in Local
    BY <2>3
  <2> QED
    BY <2>1, <2>2, <2>3, <2>4 DEF Local
<1>3. ASSUME rq' = [rq EXCEPT ![r] = Idle]
      PROVE  /\ rq' \in [Request -> Local]
             /\ rq'[r] = Idle
             /\ \A q \in Request \ {r} : rq'[q] = rq[q]
  BY <1>3 DEF Idle, Local, Label
<1> QED
  BY <1>1, <1>2, <1>3

-----------------------------------------------------------------------------
(* Type correctness.                                                       *)

(* Nobody is registered, logged in or at work at first.                    *)
LEMMA InitTypeInv == Init => TypeInv
<1> SUFFICES ASSUME Init PROVE TypeInv
  OBVIOUS
<1>1. Idle \in Local /\ Idle.at = "idle"
  BY DEF Idle, Local, Label
<1>2. TypeOK
  BY <1>1, FaultsAssumption DEF Init, TypeOK
<1>3. HasLocals /\ KeysOfUsers
  BY <1>1 DEF Init, HasLocals, KeysOfUsers, Writing
<1> QED
  BY <1>2, <1>3 DEF TypeInv

(* A login joins the writers with the key it minted.                       *)
LEMMA MintJoins ==
    ASSUME NEW r \in Request, NEW u \in User, Mint(r, u)
    PROVE  /\ At(r, "idle")
           /\ \E key \in Key : Join(r, "set_access", u, key)
           /\ UNCHANGED <<keys, held, profile, words, faults>>
<1> DEFINE key == [login |-> CHOOSE l \in Login \ InUse(u) : TRUE, age |-> 0]
<1>1. \E l \in Login \ InUse(u) : TRUE
  BY DEF Mint
<1>2. (CHOOSE l \in Login \ InUse(u) : TRUE) \in Login
  BY <1>1
<1>3. key \in Key /\ Join(r, "set_access", u, key)
  BY <1>2, LifeAssumption DEF Mint, Key
<1> HIDE DEF key
<1> QED
  BY <1>3 DEF Mint

(* Its user is in the table by then.                                       *)
LEMMA MintTypes ==
    ASSUME TypeInv, NEW r \in Request, NEW u \in User, Mint(r, u),
           users' \subseteq User, users \subseteq users', u \in users'
    PROVE  TypeInv'
<1>1. PICK key \in Key : Join(r, "set_access", u, key)
  BY MintJoins
<1>2. UNCHANGED <<keys, held, profile, words, faults>>
  BY MintJoins
<1>3. "set_access" \in Label /\ key \in Key \cup {None}
  BY DEF Label, Writing
<1>4. /\ rq' \in [Request -> Local]
      /\ rq'[r].at = "set_access" /\ rq'[r].user = u /\ rq'[r].key = key
      /\ \A q \in Request \ {r} :
            /\ rq'[q].at = rq[q].at /\ rq'[q].user = rq[q].user
            /\ rq'[q].key = rq[q].key
  BY <1>1, <1>3, LocalTypes
<1>5. TypeOK'
  BY <1>2, <1>4 DEF TypeInv, TypeOK, keys, words
<1>6. HasLocals' /\ KeysOfUsers'
  BY <1>1, <1>2, <1>4 DEF TypeInv, HasLocals, KeysOfUsers, keys
<1> QED
  BY <1>5, <1>6 DEF TypeInv

(* What a request writes to a key is the key of its login, or None.        *)
LEMMA WritesTypes ==
    ASSUME TypeInv, NEW r \in Request,
           SetAccess(r) \/ SetRefresh(r) \/ DelAccess(r) \/ DelRefresh(r)
    PROVE  TypeInv'
<1> USE DEF TypeInv, TypeOK
<1>1. rq[r].key \in Key \cup {None} /\ rq[r].user \in User
  BY DEF HasLocals, SetAccess, SetRefresh, DelAccess, DelRefresh, At, Local
<1>2. /\ access' \in [User -> Key \cup {None}]
      /\ refresh' \in [User -> Key \cup {None}]
      /\ held' \subseteq Token
      /\ UNCHANGED <<users, profile>>
  BY <1>1 DEF SetAccess, SetRefresh, DelAccess, DelRefresh
<1>3. faults' \in 0..MaxFaults
  BY FaultsAssumption
     DEF SetAccess, SetRefresh, DelAccess, DelRefresh, Answered, Resend
<1>4. /\ settled' \subseteq User
      /\ last' \in [User -> Key \cup {None}]
  BY <1>1 DEF SetAccess, SetRefresh, DelAccess, DelRefresh, words, Finish
<1>5. \/ UNCHANGED rq
      \/ rq' = [rq EXCEPT ![r] = Idle]
      \/ At(r, "set_access") /\ Goto(r, "set_refresh")
      \/ At(r, "del_access") /\ Goto(r, "del_refresh")
  BY DEF SetAccess, SetRefresh, DelAccess, DelRefresh, Answered, Resend, Finish
<1>6. rq' \in [Request -> Local] /\ HasLocals'
  <2>1. CASE UNCHANGED rq
    BY <1>2, <2>1 DEF HasLocals
  <2>2. CASE rq' = [rq EXCEPT ![r] = Idle]
    BY <1>2, <2>2, LocalTypes DEF HasLocals, Idle, Writing
  <2>3. CASE At(r, "set_access") /\ Goto(r, "set_refresh")
    <3>1. "set_refresh" \in Label
      BY DEF Label, Writing
    <3> QED
      BY <1>2, <2>3, <3>1, LocalTypes DEF HasLocals, At, Writing
  <2>4. CASE At(r, "del_access") /\ Goto(r, "del_refresh")
    <3>1. "del_refresh" \in Label
      BY DEF Label, Writing
    <3> QED
      BY <1>2, <2>4, <3>1, LocalTypes DEF HasLocals, At, Writing
  <2> QED
    BY <1>5, <2>1, <2>2, <2>3, <2>4
<1>7. KeysOfUsers'
  BY <1>2 DEF KeysOfUsers, HasLocals, SetAccess, SetRefresh, DelAccess,
              DelRefresh, At, Writing
<1> QED
  BY <1>2, <1>3, <1>4, <1>6, <1>7

(* A request enters for the user of a token, and returns with no locals.   *)
LEMMA HandlersTypes ==
    ASSUME TypeInv, NEW r \in Request, Protected(r) \/ Fail(r)
    PROVE  TypeInv'
<1> USE DEF TypeInv, TypeOK
<1>1. CASE UpdateProfile(r) \/ EndHandler(r) \/ Fail(r)
  <2>1. rq' = [rq EXCEPT ![r] = Idle]
    BY <1>1 DEF UpdateProfile, EndHandler, Fail
  <2>2. rq' \in [Request -> Local] /\ HasLocals'
    BY <1>1, <2>1, LocalTypes
       DEF HasLocals, Idle, Writing, UpdateProfile, EndHandler, Fail
  <2>3. rq[r].user \in User \cup {None}
    BY DEF Local
  <2>4. /\ UNCHANGED <<users, access, refresh, held>>
        /\ settled' \subseteq User
        /\ profile' \in [User -> Value \cup {NoProfile}]
        /\ last' \in [User -> Key \cup {None}]
        /\ faults' \in 0..MaxFaults
    BY <1>1, <2>3, FaultsAssumption
       DEF UpdateProfile, EndHandler, Fail, keys, words
  <2> QED
    BY <2>2, <2>4 DEF KeysOfUsers
<1>2. CASE ProtectedRoute(r)
  <2>1. PICK t \in held :
          /\ Accepted(t)
          /\ \/ Join(r, "del_access", t.user, None)
             \/ rq' = [rq EXCEPT ![r] =
                            [Idle EXCEPT !.at = "handler", !.user = t.user]]
    BY <1>2 DEF ProtectedRoute
  <2>2. t.user \in User
    BY DEF Token
  <2>3. UNCHANGED <<users, access, refresh, held, profile, settled, last, faults>>
    BY <1>2 DEF ProtectedRoute, keys, words
  <2>4. CASE Join(r, "del_access", t.user, None)
    <3>1. t.user \in users
      BY <2>1, <2>2 DEF Accepted, KeysOfUsers
    <3>2. "del_access" \in Label
      BY DEF Label, Writing
    <3> QED
      BY <2>2, <2>3, <2>4, <3>1, <3>2, LocalTypes DEF HasLocals, KeysOfUsers
  <2>5. CASE rq' = [rq EXCEPT ![r] = [Idle EXCEPT !.at = "handler", !.user = t.user]]
    BY <2>2, <2>3, <2>5 DEF HasLocals, KeysOfUsers, Idle, Local, Label, Writing
  <2> QED
    BY <2>1, <2>4, <2>5
<1> QED
  BY <1>1, <1>2 DEF Protected

(* The clock and the expiry of keys.                                       *)
LEMMA TimeTypes ==
    ASSUME TypeInv, Tick \/ \E u \in User : Expire(u)
    PROVE  TypeInv'
<1> USE DEF TypeInv, TypeOK
<1>1. CASE Tick
  <2>1. /\ access' \in [User -> Key \cup {None}]
        /\ refresh' \in [User -> Key \cup {None}]
        /\ last' \in [User -> Key \cup {None}]
    BY <1>1, OlderType DEF Tick
  <2>2. \A r \in Request :
            /\ rq[r] \in Local
            /\ rq'[r] = [rq[r] EXCEPT !.key = Older(rq[r].key)]
            /\ rq[r].key \in Key \cup {None}
    BY <1>1 DEF Tick, Local
  <2>3. \A r \in Request :
            /\ rq'[r] \in Local
            /\ rq'[r].at = rq[r].at /\ rq'[r].user = rq[r].user
            /\ rq'[r].key = Older(rq[r].key)
    <3> SUFFICES ASSUME NEW r \in Request
                 PROVE  /\ rq'[r] \in Local
                        /\ rq'[r].at = rq[r].at /\ rq'[r].user = rq[r].user
                        /\ rq'[r].key = Older(rq[r].key)
      OBVIOUS
    <3>1. Older(rq[r].key) \in Key \cup {None}
      BY <2>2, OlderType
    <3> HIDE DEF TypeInv, TypeOK
    <3> QED
      BY <2>2, <3>1 DEF Local
  <2>4. rq' \in [Request -> Local]
    BY <1>1, <2>3 DEF Tick
  <2>5. HasLocals'
    <3>1. \A r \in Request :
            /\ rq[r].key = None <=> Older(rq[r].key) = None
            /\ rq[r].key # None => Older(rq[r].key) \in Key
      BY <2>2, OlderType
    <3>2. users' = users
      BY <1>1 DEF Tick
    <3>3. HasLocals
      OBVIOUS
    <3> HIDE DEF TypeInv, TypeOK
    <3> QED
      BY <2>3, <3>1, <3>2, <3>3, KeyAssumption DEF HasLocals
  <2>6. KeysOfUsers'
    BY <1>1, OlderType DEF Tick, KeysOfUsers
  <2>7. held' \subseteq Token /\ UNCHANGED <<users, profile, settled, faults>>
    BY <1>1 DEF Tick
  <2> QED
    BY <2>1, <2>4, <2>5, <2>6, <2>7
<1>2. ASSUME NEW u \in User, Expire(u) PROVE TypeInv'
  BY <1>2 DEF Expire, AccessExpires, RefreshExpires, words, HasLocals, KeysOfUsers
<1> QED
  BY <1>1, <1>2

(* Every step keeps the types.                                             *)
LEMMA NextTypeInv == TypeInv /\ [Next]_vars => TypeInv'
<1> SUFFICES ASSUME TypeInv, [Next]_vars PROVE TypeInv'
  OBVIOUS
<1>1. ASSUME NEW r \in Request, LgCheckPassword(r) PROVE TypeInv'
  <2>1. PICK u \in users \cap LowerCase : Mint(r, u)
    BY <1>1 DEF LgCheckPassword
  <2>2. u \in User /\ users' = users /\ users \subseteq User
    BY <1>1 DEF LgCheckPassword, TypeInv, TypeOK
  <2> QED
    BY <2>1, <2>2, MintTypes
<1>2. ASSUME NEW r \in Request, VpRegister(r) PROVE TypeInv'
  <2>1. PICK u \in User : users' = users \cup {u} /\ Mint(r, u)
    BY <1>2 DEF VpRegister
  <2>2. users' \subseteq User
    BY <2>1 DEF TypeInv, TypeOK
  <2> QED
    BY <2>1, <2>2, MintTypes
<1>3. ASSUME NEW r \in Request, SetAccess(r) \/ SetRefresh(r) \/ Logout(r)
      PROVE  TypeInv'
  BY <1>3, WritesTypes DEF Logout
<1>4. ASSUME NEW r \in Request, Protected(r) \/ Fail(r) PROVE TypeInv'
  BY <1>4, HandlersTypes
<1>5. CASE Tick \/ \E u \in User : Expire(u)
  BY <1>5, TimeTypes
<1>6. CASE UNCHANGED vars
  BY <1>6 DEF vars, TypeInv, TypeOK, HasLocals, KeysOfUsers
<1> QED
  BY <1>1, <1>2, <1>3, <1>4, <1>5, <1>6 DEF Next, Signin

(* The keys, the tokens and the requests are well-typed.                   *)
THEOREM TypeCorrect == Spec => []TypeOK
<1>1. Spec => []TypeInv
  BY InitTypeInv, NextTypeInv, PTL DEF Spec
<1>2. TypeInv => TypeOK
  BY DEF TypeInv
<1> QED
  BY <1>1, <1>2, PTL

-----------------------------------------------------------------------------
(* The promise of Sessions.  What Sessions sees of the keys and requests:  *)

SessionAge == [u \in User |-> IF access[u] = None THEN Life ELSE access[u].age]

Acting == [r \in Request |-> IF rq[r].at \in Inside THEN rq[r].user ELSE None]

(* A step of one request, or of none, seen from Sessions.                  *)
LEMMA Seen ==
    /\ Promise!vars = <<users, SessionAge, Acting, profile>>
    /\ Promise!vars' = <<users', SessionAge', Acting', profile'>>
    /\ TypeInv => \A r \in Request :
        /\ rq[r].at \in Inside => Acting[r] = rq[r].user /\ Acting[r] \in User
        /\ rq[r].at \notin Inside => Acting[r] = None
    /\ None \notin User
<1>1. ASSUME TypeInv, NEW r \in Request, rq[r].at \in Inside
      PROVE  rq[r].user \in User
  BY <1>1 DEF TypeInv, HasLocals, Inside
<1> QED
  BY <1>1, NoneAssumption DEF Promise!vars, SessionAge, Acting

(* A request that gets from label to label without crossing the threshold  *)
(* of the protected routes is not seen, and the others are not either.     *)
LEMMA NotSeen ==
    ASSUME NEW r \in Request, rq' \in [Request -> Local],
           \A q \in Request \ {r} :
                rq'[q].at = rq[q].at /\ rq'[q].user = rq[q].user,
           \/ rq[r].at \notin Inside /\ rq'[r].at \notin Inside
           \/ /\ rq[r].at \in Inside /\ rq'[r].at \in Inside
              /\ rq'[r].user = rq[r].user
    PROVE  Acting' = Acting
BY DEF Acting, Inside

(* A request that is through leaves, and nobody else does.                 *)
LEMMA LeavesOrNotSeen ==
    ASSUME TypeInv, NEW r \in Request, rq' = [rq EXCEPT ![r] = Idle]
    PROVE  /\ Acting' = [Acting EXCEPT ![r] = None]
           /\ rq[r].at \notin Inside => Acting' = Acting
<1>1. /\ rq' \in [Request -> Local] /\ rq'[r].at = "idle"
      /\ \A q \in Request \ {r} : rq'[q] = rq[q]
  BY LocalTypes DEF Idle
<1>2. \A q \in Request : Acting'[q] = IF q = r THEN None ELSE Acting[q]
  BY <1>1 DEF Acting, Inside
<1> QED
  BY <1>1, <1>2, NotSeen DEF Acting, Inside

(* A login joins those at work on the keys, outside the protected routes.  *)
LEMMA MintNotSeen ==
    ASSUME TypeInv, NEW r \in Request, NEW u \in User, Mint(r, u)
    PROVE  UNCHANGED <<SessionAge, Acting, profile>>
<1>1. PICK key \in Key : Join(r, "set_access", u, key)
  BY MintJoins
<1>2. "set_access" \in Label /\ key \in Key \cup {None}
  BY DEF Label, Writing
<1>3. /\ rq' \in [Request -> Local] /\ rq'[r].at = "set_access"
      /\ \A q \in Request \ {r} :
            rq'[q].at = rq[q].at /\ rq'[q].user = rq[q].user
  BY <1>1, <1>2, LocalTypes
<1>4. rq[r].at = "idle" /\ access' = access /\ profile' = profile
  BY MintJoins DEF At, keys
<1>5. Acting' = Acting
  BY <1>3, <1>4, NotSeen DEF Inside
<1> QED
  BY <1>4, <1>5 DEF SessionAge

(* The INSERT registers.                                                   *)
LEMMA SigninPromise ==
    ASSUME TypeInv, NEW r \in Request, LgCheckPassword(r) \/ VpRegister(r)
    PROVE  [Promise!Next]_(Promise!vars)
<1>1. CASE LgCheckPassword(r)
  <2>1. PICK u \in users : Mint(r, u)
    BY <1>1 DEF LgCheckPassword
  <2>2. u \in User /\ users' = users
    BY <1>1 DEF LgCheckPassword, TypeInv, TypeOK
  <2> QED
    BY <2>1, <2>2, MintNotSeen, Seen
<1>2. CASE VpRegister(r)
  <2>1. PICK u \in User : users' = users \cup {u} /\ Mint(r, u)
    BY <1>2 DEF VpRegister
  <2>2. Promise!Register(u)
    BY <2>1, MintNotSeen DEF Promise!Register, SessionAge, Acting
  <2> QED
    BY <2>2 DEF Promise!Next
<1> QED
  BY <1>1, <1>2

(* The first SET opens a session, however late; the second is not seen.    *)
LEMMA SetPromise ==
    ASSUME TypeInv, NEW r \in Request, SetAccess(r) \/ SetRefresh(r)
    PROVE  [Promise!Next]_(Promise!vars)
<1>1. CASE SetAccess(r)
  <2>1. PICK u \in User :
            /\ u = rq[r].user /\ u \in users
            /\ rq[r].key # None /\ rq[r].key.age \in 0..Life
            /\ rq[r].at = "set_access"
    BY <1>1, KeyAssumption
       DEF TypeInv, TypeOK, HasLocals, SetAccess, At, Writing, Key
  <2>2. SessionAge' = [SessionAge EXCEPT ![u] = rq[r].key.age]
    BY <1>1, <2>1 DEF SetAccess, SessionAge, TypeInv, TypeOK
  <2>3. Acting' = Acting
    <3>1. CASE UNCHANGED rq
      BY <3>1 DEF Acting
    <3>2. CASE Goto(r, "set_refresh")
      <4>1. "set_refresh" \in Label
        BY DEF Label, Writing
      <4> QED
        BY <2>1, <3>2, <4>1, LocalTypes, NotSeen DEF Inside
    <3> QED
      BY <1>1, <3>1, <3>2 DEF SetAccess, Answered, Resend
  <2>4. users' = users /\ profile' = profile
    BY <1>1 DEF SetAccess
  <2>5. Promise!Open(u)
    BY <2>1, <2>2, <2>3, <2>4 DEF Promise!Open, SessionAge, Acting
  <2> QED
    BY <2>5 DEF Promise!Next
<1>2. CASE SetRefresh(r)
  <2>1. Acting' = Acting
    <3>1. CASE UNCHANGED rq
      BY <3>1 DEF Acting
    <3>2. CASE rq' = [rq EXCEPT ![r] = Idle]
      BY <1>2, <3>2, LeavesOrNotSeen DEF SetRefresh, At, Inside
    <3> QED
      BY <1>2, <3>1, <3>2 DEF SetRefresh, Finish, Resend
  <2>2. UNCHANGED <<users, SessionAge, profile>>
    BY <1>2 DEF SetRefresh, SessionAge
  <2> QED
    BY <2>1, <2>2, Seen
<1> QED
  BY <1>1, <1>2

(* The token that lets a request in is that of the session its user has.   *)
LEMMA ProtectedRoutePromise ==
    ASSUME TypeInv, NEW r \in Request, ProtectedRoute(r)
    PROVE  Promise!Next
<1>1. PICK t \in held :
        /\ Accepted(t)
        /\ \/ Join(r, "del_access", t.user, None)
           \/ rq' = [rq EXCEPT ![r] =
                            [Idle EXCEPT !.at = "handler", !.user = t.user]]
  BY DEF ProtectedRoute
<1>2. t.user \in User /\ t.age \in 0..Life-1
  BY DEF TypeInv, TypeOK, Token
<1>3. SessionAge[t.user] < Life
  BY <1>1, <1>2, LifeAssumption DEF Accepted, SessionAge
<1>4. rq[r].at = "idle"
  BY DEF ProtectedRoute, At
<1>5. /\ rq'[r].at \in Inside /\ rq'[r].user = t.user
      /\ \A q \in Request \ {r} :
            rq'[q].at = rq[q].at /\ rq'[q].user = rq[q].user
  <2>1. CASE Join(r, "del_access", t.user, None)
    <3>1. "del_access" \in Label
      BY DEF Label, Writing
    <3> QED
      BY <1>2, <2>1, <3>1, LocalTypes DEF Inside
  <2>2. CASE rq' = [rq EXCEPT ![r] = [Idle EXCEPT !.at = "handler", !.user = t.user]]
    BY <2>2 DEF Inside, Idle, TypeInv, TypeOK
  <2> QED
    BY <1>1, <2>1, <2>2
<1>6. Acting' = [Acting EXCEPT ![r] = t.user] /\ Acting[r] = None
  BY <1>4, <1>5 DEF Acting, Inside
<1>7. UNCHANGED <<users, SessionAge, profile>>
  BY DEF ProtectedRoute, keys, SessionAge
<1>8. Promise!Enter(r, t.user)
  BY <1>3, <1>6, <1>7 DEF Promise!Enter, SessionAge, Acting
<1> QED
  BY <1>2, <1>8 DEF Promise!Next

(* A handler ends, or a logout does: finished, failed or dead.             *)
LEMMA LeavePromise ==
    ASSUME TypeInv, NEW r \in Request, rq[r].at \in Inside,
           rq' = [rq EXCEPT ![r] = Idle], UNCHANGED <<users, access>>,
           \/ UNCHANGED profile
           \/ \E v \in Value : profile' = [profile EXCEPT ![rq[r].user] = v]
    PROVE  Promise!Next
<1>1. Acting[r] = rq[r].user /\ Acting[r] # None
  BY Seen
<1>2. Acting' = [Acting EXCEPT ![r] = None] /\ SessionAge' = SessionAge
  BY LeavesOrNotSeen DEF SessionAge
<1>3. Promise!Leave(r)
  BY <1>1, <1>2 DEF Promise!Leave, SessionAge, Acting
<1> QED
  BY <1>3 DEF Promise!Next

(* Logout closes the session there is, and leaves.                         *)
LEMMA LogoutPromise ==
    ASSUME TypeInv, NEW r \in Request, Logout(r)
    PROVE  [Promise!Next]_(Promise!vars)
<1>1. CASE DelAccess(r)
  <2>1. rq[r].at = "del_access" /\ rq[r].at \in Inside /\ rq[r].user \in User
    BY <1>1 DEF DelAccess, At, Inside, TypeInv, HasLocals
  <2>2. Acting[r] = rq[r].user /\ Acting[r] # None
    BY <2>1, Seen
  <2>3. SessionAge' = [SessionAge EXCEPT ![rq[r].user] = Life]
    BY <1>1, <2>1 DEF DelAccess, SessionAge, TypeInv, TypeOK
  <2>4. Acting' = Acting
    <3>1. CASE UNCHANGED rq
      BY <3>1 DEF Acting
    <3>2. CASE Goto(r, "del_refresh")
      <4>1. "del_refresh" \in Label /\ "del_refresh" \in Inside
        BY DEF Label, Writing, Inside
      <4> QED
        BY <2>1, <3>2, <4>1, LocalTypes, NotSeen
    <3> QED
      BY <1>1, <3>1, <3>2 DEF DelAccess, Answered, Resend
  <2>5. users' = users /\ profile' = profile
    BY <1>1 DEF DelAccess
  <2>6. Promise!Close(r)
    BY <2>2, <2>3, <2>4, <2>5 DEF Promise!Close, SessionAge, Acting
  <2> QED
    BY <2>6 DEF Promise!Next
<1>2. CASE DelRefresh(r)
  <2>1. rq[r].at \in Inside /\ UNCHANGED <<users, access, profile>>
    BY <1>2 DEF DelRefresh, At, Inside
  <2>2. CASE rq' = [rq EXCEPT ![r] = Idle]
    BY <2>1, <2>2, LeavePromise
  <2>3. CASE UNCHANGED rq
    BY <2>1, <2>3, Seen DEF SessionAge, Acting
  <2> QED
    BY <1>2, <2>2, <2>3 DEF DelRefresh, Finish, Resend
<1> QED
  BY <1>1, <1>2 DEF Logout

(* Sessions grow older together, and an expired one is gone in both views. *)
LEMMA TimePromise ==
    ASSUME TypeInv, Tick \/ \E u \in User : Expire(u)
    PROVE  [Promise!Next]_(Promise!vars)
<1>1. CASE Tick
  <2>1. ASSUME NEW u \in User
        PROVE  SessionAge'[u] = IF SessionAge[u] < Life THEN SessionAge[u] + 1
                                ELSE Life
    <3>1. access[u] \in Key \cup {None} /\ access'[u] = Older(access[u])
      BY <1>1 DEF Tick, TypeInv, TypeOK
    <3>2. CASE access[u] = None
      BY <3>1, <3>2, OlderType, LifeAssumption DEF SessionAge
    <3>3. CASE access[u] # None
      <4>1. access[u].age \in 0..Life /\ access'[u] # None
        BY <3>1, <3>3, OlderType DEF Key
      <4>2. access'[u].age = IF access[u].age < Life THEN access[u].age + 1
                             ELSE access[u].age
        BY <3>1, <3>3 DEF Older, Alive, Key
      <4> QED
        BY <3>3, <4>1, <4>2, LifeAssumption DEF SessionAge
    <3> QED
      BY <3>2, <3>3
  <2>2. SessionAge' = [u \in User |-> IF SessionAge[u] < Life
                                      THEN SessionAge[u] + 1 ELSE Life]
    BY <2>1 DEF SessionAge
  <2>3. \A r \in Request : rq'[r].at = rq[r].at /\ rq'[r].user = rq[r].user
    <3>1. \A r \in Request : /\ rq[r] \in Local
                             /\ rq'[r] = [rq[r] EXCEPT !.key = Older(rq[r].key)]
      BY <1>1 DEF Tick, TypeInv, TypeOK
    <3> HIDE DEF TypeInv
    <3> QED
      BY <3>1 DEF Local
  <2>4. Acting' = Acting /\ users' = users /\ profile' = profile
    BY <1>1, <2>3 DEF Tick, Acting
  <2>5. Promise!Tick
    BY <2>2, <2>4 DEF Promise!Tick, SessionAge, Acting
  <2> QED
    BY <2>5 DEF Promise!Next
<1>2. ASSUME NEW u \in User, Expire(u) PROVE UNCHANGED Promise!vars
  <2>1. access[u] \in Key \cup {None}
    BY DEF TypeInv, TypeOK
  <2>2. CASE AccessExpires(u)
    <3>1. access[u] # None /\ access[u].age = Life
      BY <2>1, <2>2, OlderType DEF AccessExpires
    <3>2. SessionAge' = SessionAge
      BY <2>2, <3>1 DEF AccessExpires, SessionAge, TypeInv, TypeOK
    <3> QED
      BY <2>2, <3>2, Seen DEF AccessExpires, Acting
  <2>3. CASE RefreshExpires(u)
    BY <2>3, Seen DEF RefreshExpires, SessionAge, Acting
  <2> QED
    BY <1>2, <2>2, <2>3 DEF Expire
<1> QED
  BY <1>1, <1>2

(* Every step is one that Sessions allows, or a stutter.                   *)
LEMMA NextPromise == TypeInv /\ [Next]_vars => [Promise!Next]_(Promise!vars)
<1> SUFFICES ASSUME TypeInv, [Next]_vars
             PROVE  [Promise!Next]_(Promise!vars)
  OBVIOUS
<1>1. ASSUME NEW r \in Request, Signin(r)
      PROVE  [Promise!Next]_(Promise!vars)
  BY <1>1, SigninPromise, SetPromise DEF Signin
<1>2. ASSUME NEW r \in Request, Protected(r)
      PROVE  [Promise!Next]_(Promise!vars)
  <2>1. CASE UpdateProfile(r) \/ EndHandler(r)
    <3>1. /\ rq[r].at \in Inside /\ rq' = [rq EXCEPT ![r] = Idle]
          /\ UNCHANGED <<users, access>>
          /\ \/ UNCHANGED profile
             \/ \E v \in Value : profile' = [profile EXCEPT ![rq[r].user] = v]
      BY <2>1 DEF UpdateProfile, EndHandler, At, Inside, keys
    <3> QED
      BY <3>1, LeavePromise
  <2> QED
    BY <1>2, <2>1, ProtectedRoutePromise DEF Protected
<1>3. ASSUME NEW r \in Request, Logout(r)
      PROVE  [Promise!Next]_(Promise!vars)
  BY <1>3, LogoutPromise
<1>4. ASSUME NEW r \in Request, Fail(r)
      PROVE  [Promise!Next]_(Promise!vars)
  <2>1. rq' = [rq EXCEPT ![r] = Idle] /\ UNCHANGED <<users, access, profile>>
    BY <1>4 DEF Fail, keys
  <2>2. CASE rq[r].at \in Inside
    BY <2>1, <2>2, LeavePromise
  <2>3. CASE rq[r].at \notin Inside
    BY <2>1, <2>3, LeavesOrNotSeen, Seen DEF SessionAge
  <2> QED
    BY <2>2, <2>3
<1>5. CASE Tick \/ \E u \in User : Expire(u)
  BY <1>5, TimePromise
<1>6. CASE UNCHANGED vars
  BY <1>6, Seen DEF vars, SessionAge, Acting
<1> QED
  BY <1>1, <1>2, <1>3, <1>4, <1>5, <1>6 DEF Next

(* The token cache implements Sessions: sessions end in time, a handler is *)
(* entered in an open session only, and reaches nobody but its user.       *)
THEOREM AuthKeepsPromise == Spec => KeepsPromise
<1>1. Init => Promise!Init
  BY DEF Init, Promise!Init, Idle, Inside
<1>2. Spec => []TypeInv
  BY InitTypeInv, NextTypeInv, PTL DEF Spec
<1> QED
  BY <1>1, <1>2, NextPromise, PTL DEF Spec, KeepsPromise, Promise!Spec

-----------------------------------------------------------------------------
(* The last word.  It is on its way from the first command of the request  *)
(* that will have it: alone, it is the only one at work on the keys of its *)
(* user, and halfway through, the first of them is as it leaves it, or has *)
(* expired since.                                                          *)

IsOrWas(k, l) == k = l \/ (k = None /\ ~Alive(l))

AloneMeansAlone ==
    \A r \in Request :
        rq[r].at \in Writing /\ rq[r].alone => Writers(rq[r].user) = {r}

HalfwayInv ==
    \A r \in Request :
        rq[r].at \in {"set_refresh", "del_refresh"} /\ rq[r].alone =>
            IsOrWas(access[rq[r].user], rq[r].key)

WordStands ==
    \A u \in settled : Writers(u) = {} =>
        IsOrWas(access[u], last[u]) /\ IsOrWas(refresh[u], last[u])

WordInv == TypeInv /\ AloneMeansAlone /\ HalfwayInv /\ WordStands

(* At first the keys and the words are None.                               *)
LEMMA InitWordInv == Init => WordInv
<1> SUFFICES ASSUME Init PROVE WordInv
  OBVIOUS
<1>1. \A r \in Request : rq[r].at = "idle"
  BY DEF Init, Idle
<1>2. AloneMeansAlone /\ HalfwayInv
  BY <1>1 DEF AloneMeansAlone, HalfwayInv, Writing
<1>3. WordStands
  BY DEF Init, WordStands, IsOrWas
<1> QED
  BY <1>2, <1>3, InitTypeInv DEF WordInv

(* A request that joins is not halfway, and alone if it found nobody.      *)
LEMMA JoinWord ==
    ASSUME WordInv, NEW r \in Request, NEW label \in {"set_access", "del_access"},
           NEW u \in User, NEW key \in Key \cup {None},
           At(r, "idle"), Join(r, label, u, key), UNCHANGED <<keys, words>>
    PROVE  AloneMeansAlone' /\ HalfwayInv' /\ WordStands'
<1>1. label \in Label /\ label \in Writing
  BY DEF Label, Writing
<1>2. /\ rq'[r].at = label /\ rq'[r].user = u
      /\ rq'[r].alone <=> Writers(u) = {}
      /\ \A q \in Request \ {r} :
            /\ rq'[q].at = rq[q].at /\ rq'[q].user = rq[q].user
            /\ rq'[q].key = rq[q].key
            /\ rq'[q].alone <=> rq[q].alone /\ q \notin Writers(u)
  BY <1>1, LocalTypes DEF WordInv
<1>3. UNCHANGED <<access, refresh, settled, last>>
  BY DEF keys, words
<1>4. rq[r].at \notin Writing
  BY DEF At, Writing
<1>5. \A v : Writers(v)' = IF v = u THEN Writers(v) \cup {r} ELSE Writers(v)
  BY <1>1, <1>2, <1>4 DEF Writers
<1>6. AloneMeansAlone'
  <2> SUFFICES ASSUME NEW q \in Request, rq'[q].at \in Writing, rq'[q].alone,
                      NEW v, v = rq'[q].user
               PROVE  Writers(v)' = {q}
    BY DEF AloneMeansAlone, Writers
  <2>1. CASE q = r
    BY <1>2, <1>5, <2>1
  <2>2. CASE q # r
    <3>1. /\ rq[q].at \in Writing /\ rq[q].alone /\ q \notin Writers(u)
          /\ rq'[q].user = rq[q].user
      BY <1>2, <2>2
    <3>2. rq[q].user # u /\ Writers(rq[q].user) = {q}
      BY <3>1 DEF Writers, WordInv, AloneMeansAlone
    <3> QED
      BY <1>5, <3>1, <3>2
  <2> QED
    BY <2>1, <2>2
<1>7. HalfwayInv'
  BY <1>2, <1>3 DEF HalfwayInv, WordInv
<1>8. WordStands'
  BY <1>3, <1>5 DEF WordStands, WordInv
<1> QED
  BY <1>6, <1>7, <1>8

(* A request that is not at work on keys, before or after, changes nothing.*)
LEMMA OutsideWord ==
    ASSUME WordInv, NEW r \in Request, rq[r].at \notin Writing,
           rq'[r].at \notin Writing, \A q \in Request \ {r} : rq'[q] = rq[q],
           UNCHANGED <<keys, words>>
    PROVE  AloneMeansAlone' /\ HalfwayInv' /\ WordStands'
<1>1. UNCHANGED <<access, refresh, settled, last>>
  BY DEF keys, words
<1>2. \A v : Writers(v)' = Writers(v)
  BY DEF Writers
<1>3. AloneMeansAlone'
  BY <1>2 DEF AloneMeansAlone, WordInv
<1>4. HalfwayInv'
  BY <1>1 DEF HalfwayInv, WordInv, Writing
<1>5. WordStands'
  BY <1>1, <1>2 DEF WordStands, WordInv
<1> QED
  BY <1>3, <1>4, <1>5

(* A command sent again, or the first one answered.                        *)
LEMMA OnTheWayWord ==
    ASSUME WordInv, NEW r \in Request, rq[r].at \in Writing,
           \/ UNCHANGED rq
           \/ /\ rq'[r].at \in Writing /\ rq'[r].user = rq[r].user
              /\ rq'[r].key = rq[r].key /\ rq'[r].alone = rq[r].alone
              /\ \A q \in Request \ {r} : rq'[q] = rq[q],
           \/ access' = access
           \/ access' = [access EXCEPT ![rq[r].user] = rq[r].key],
           \/ refresh' = refresh
           \/ refresh' = [refresh EXCEPT ![rq[r].user] = rq[r].key],
           rq'[r].at \in {"set_refresh", "del_refresh"} =>
                IsOrWas(access'[rq[r].user], rq[r].key) \/ ~rq[r].alone,
           UNCHANGED words
    PROVE  AloneMeansAlone' /\ HalfwayInv' /\ WordStands'
<1>1. UNCHANGED <<settled, last>>
  BY DEF words
<1>2. /\ rq'[r].at \in Writing
      /\ \A q \in Request : /\ rq'[q].user = rq[q].user
                            /\ rq'[q].key = rq[q].key
                            /\ rq'[q].alone = rq[q].alone
      /\ \A q \in Request \ {r} : rq'[q] = rq[q]
  OBVIOUS
<1>3. \A v : Writers(v)' = Writers(v)
  BY <1>2 DEF Writers
<1>4. r \in Writers(rq[r].user)
  BY DEF Writers
<1>5. \A v \in User \ {rq[r].user} :
        access'[v] = access[v] /\ refresh'[v] = refresh[v]
  BY DEF WordInv, TypeInv, TypeOK
<1>6. AloneMeansAlone'
  BY <1>2, <1>3 DEF AloneMeansAlone, WordInv
<1>7. HalfwayInv'
  <2> SUFFICES ASSUME NEW q \in Request, rq'[q].alone,
                      rq'[q].at \in {"set_refresh", "del_refresh"}
               PROVE  IsOrWas(access[rq[q].user], rq[q].key)'
    BY DEF HalfwayInv
  <2>1. CASE q = r
    BY <1>2, <2>1 DEF IsOrWas
  <2>2. CASE q # r
    <3>1. /\ rq[q].alone /\ rq[q].at \in {"set_refresh", "del_refresh"}
          /\ rq'[q] = rq[q]
      BY <1>2, <2>2
    <3>2. rq[q].at \in Writing
      BY <3>1 DEF Writing
    <3>3. Writers(rq[q].user) = {q} /\ rq[q].user \in User
      BY <3>1, <3>2 DEF WordInv, AloneMeansAlone, TypeInv, HasLocals
    <3>4. access'[rq[q].user] = access[rq[q].user]
      BY <1>4, <1>5, <2>2, <3>3
    <3> QED
      BY <3>1, <3>4 DEF WordInv, HalfwayInv, IsOrWas
  <2> QED
    BY <2>1, <2>2
<1>8. WordStands'
  BY <1>1, <1>3, <1>4, <1>5 DEF WordStands, WordInv, TypeInv, TypeOK
<1> QED
  BY <1>6, <1>7, <1>8

(* A request that is through: with the last word, without, or cut short.   *)
LEMMA FinishWord ==
    ASSUME WordInv, NEW r \in Request, rq[r].at \in Writing,
           rq' = [rq EXCEPT ![r] = Idle], access' = access,
           \/ /\ rq[r].at \in {"set_refresh", "del_refresh"}
              /\ refresh' = [refresh EXCEPT ![rq[r].user] = rq[r].key]
              /\ Finish(r)
           \/ /\ refresh' = refresh
              /\ settled' = settled \ {rq[r].user}
              /\ last' = [last EXCEPT ![rq[r].user] = None]
    PROVE  AloneMeansAlone' /\ HalfwayInv' /\ WordStands'
<1> DEFINE u == rq[r].user
<1>1. /\ rq'[r].at \notin Writing /\ rq'[r].at = "idle"
      /\ \A q \in Request \ {r} : rq'[q] = rq[q]
  BY LocalTypes DEF Idle, Writing, WordInv
<1>2. u \in User
  BY DEF WordInv, TypeInv, HasLocals, Writing
<1>3. \A v : Writers(v)' = Writers(v) \ {r}
  BY <1>1 DEF Writers
<1>4. AloneMeansAlone'
  <2> SUFFICES ASSUME NEW q \in Request, rq'[q].at \in Writing, rq'[q].alone,
                      NEW v, v = rq'[q].user
               PROVE  Writers(v)' = {q}
    BY DEF AloneMeansAlone, Writers
  <2>1. q # r /\ rq'[q] = rq[q]
    BY <1>1
  <2>2. Writers(rq[q].user) = {q}
    BY <2>1 DEF WordInv, AloneMeansAlone
  <2> QED
    BY <1>3, <2>1, <2>2
<1>5. HalfwayInv'
  BY <1>1 DEF HalfwayInv, WordInv
<1>6. \A v \in User \ {u} :
        /\ refresh'[v] = refresh[v] /\ last'[v] = last[v]
        /\ v \in settled' <=> v \in settled
        /\ Writers(v)' = Writers(v)
  <2>1. \A v \in User \ {u} : r \notin Writers(v)
    BY DEF Writers
  <2> QED
    BY <1>2, <1>3, <2>1 DEF Finish, WordInv, TypeInv, TypeOK
<1>7. u \in settled' => /\ IsOrWas(access'[u], last'[u])
                        /\ IsOrWas(refresh'[u], last'[u])
  <2>1. SUFFICES ASSUME u \in settled'
                 PROVE  /\ IsOrWas(access'[u], last'[u])
                        /\ IsOrWas(refresh'[u], last'[u])
    OBVIOUS
  <2>2. /\ rq[r].at \in {"set_refresh", "del_refresh"} /\ rq[r].alone
        /\ last'[u] = rq[r].key /\ refresh'[u] = rq[r].key
    BY <1>2, <2>1 DEF Finish, WordInv, TypeInv, TypeOK
  <2>3. IsOrWas(access[u], rq[r].key)
    BY <2>2 DEF WordInv, HalfwayInv
  <2> QED
    BY <2>2, <2>3 DEF IsOrWas
<1>8. settled' \subseteq User
  BY <1>2 DEF Finish, WordInv, TypeInv, TypeOK
<1> HIDE DEF u
<1>9. WordStands'
  BY <1>6, <1>7, <1>8 DEF WordStands, WordInv, IsOrWas
<1> QED
  BY <1>4, <1>5, <1>9

(* What is written and what it came from grow older together.              *)
LEMMA OlderWord ==
    ASSUME NEW k \in Key \cup {None}, NEW l \in Key \cup {None}, IsOrWas(k, l)
    PROVE  IsOrWas(Older(k), Older(l))
<1>1. CASE k = l
  BY <1>1 DEF IsOrWas
<1>2. CASE k = None /\ ~Alive(l)
  BY <1>2, OlderType DEF IsOrWas
<1> QED
  BY <1>1, <1>2 DEF IsOrWas

(* A second that goes by, and a key that expires, say nothing new.         *)
LEMMA TimeWord ==
    ASSUME WordInv, Tick \/ \E u \in User : Expire(u)
    PROVE  AloneMeansAlone' /\ HalfwayInv' /\ WordStands'
<1>1. /\ access \in [User -> Key \cup {None}]
      /\ refresh \in [User -> Key \cup {None}]
      /\ last \in [User -> Key \cup {None}]
      /\ settled \subseteq User
      /\ \A r \in Request : rq[r] \in Local /\ rq[r].key \in Key \cup {None}
  BY DEF WordInv, TypeInv, TypeOK, Local
<1>2. \A r \in Request :
        rq[r].at \in {"set_refresh", "del_refresh"} => rq[r].user \in User
  BY DEF WordInv, TypeInv, HasLocals
<1>3. CASE Tick
  <2>1. \A r \in Request : rq'[r] = [rq[r] EXCEPT !.key = Older(rq[r].key)]
    BY <1>3 DEF Tick
  <2>2. \A r \in Request :
            /\ rq'[r].at = rq[r].at /\ rq'[r].user = rq[r].user
            /\ rq'[r].alone = rq[r].alone
            /\ rq'[r].key = Older(rq[r].key)
    BY <1>1, <2>1 DEF Local
  <2>3. /\ \A u \in User : /\ access'[u] = Older(access[u])
                           /\ refresh'[u] = Older(refresh[u])
                           /\ last'[u] = Older(last[u])
        /\ settled' = settled
    BY <1>3 DEF Tick
  <2>4. \A v : Writers(v)' = Writers(v)
    BY <2>2 DEF Writers
  <2>5. AloneMeansAlone'
    BY <2>2, <2>4 DEF AloneMeansAlone, WordInv
  <2>6. HalfwayInv'
    <3> SUFFICES ASSUME NEW r \in Request, rq[r].alone,
                        rq[r].at \in {"set_refresh", "del_refresh"}
                 PROVE  IsOrWas(access'[rq[r].user], Older(rq[r].key))
      BY <2>2 DEF HalfwayInv, IsOrWas
    <3>1. IsOrWas(access[rq[r].user], rq[r].key)
      BY DEF WordInv, HalfwayInv
    <3>2. access[rq[r].user] \in Key \cup {None}
      BY <1>1, <1>2
    <3> QED
      BY <1>1, <1>2, <2>3, <3>1, <3>2, OlderWord
  <2>7. WordStands'
    <3> SUFFICES ASSUME NEW u \in settled, Writers(u) = {}
                 PROVE  /\ IsOrWas(access'[u], last'[u])
                        /\ IsOrWas(refresh'[u], last'[u])
      BY <2>3, <2>4 DEF WordStands, IsOrWas
    <3>1. IsOrWas(access[u], last[u]) /\ IsOrWas(refresh[u], last[u])
      BY DEF WordInv, WordStands
    <3>2. /\ u \in User /\ access[u] \in Key \cup {None}
          /\ refresh[u] \in Key \cup {None} /\ last[u] \in Key \cup {None}
      BY <1>1
    <3> QED
      BY <2>3, <3>1, <3>2, OlderWord
  <2> QED
    BY <2>5, <2>6, <2>7
<1>4. ASSUME NEW u \in User, Expire(u)
      PROVE  AloneMeansAlone' /\ HalfwayInv' /\ WordStands'
  <2>1. UNCHANGED <<rq, settled, last>>
    BY <1>4 DEF Expire, AccessExpires, RefreshExpires, words
  <2>2. \A v \in User, l \in Key \cup {None} :
            /\ IsOrWas(access[v], l) => IsOrWas(access'[v], l)
            /\ IsOrWas(refresh[v], l) => IsOrWas(refresh'[v], l)
    BY <1>1, <1>4 DEF Expire, AccessExpires, RefreshExpires, IsOrWas
  <2>3. AloneMeansAlone'
    BY <2>1 DEF AloneMeansAlone, WordInv, Writers
  <2>4. HalfwayInv'
    <3> SUFFICES ASSUME NEW r \in Request, rq[r].alone,
                        rq[r].at \in {"set_refresh", "del_refresh"}
                 PROVE  IsOrWas(access'[rq[r].user], rq[r].key)
      BY <2>1 DEF HalfwayInv, IsOrWas
    <3>1. IsOrWas(access[rq[r].user], rq[r].key)
      BY DEF WordInv, HalfwayInv
    <3> QED
      BY <1>1, <1>2, <2>2, <3>1
  <2>5. WordStands'
    <3> SUFFICES ASSUME NEW v \in settled, Writers(v) = {}
                 PROVE  /\ IsOrWas(access'[v], last[v])
                        /\ IsOrWas(refresh'[v], last[v])
      BY <2>1 DEF WordStands, IsOrWas, Writers
    <3>1. IsOrWas(access[v], last[v]) /\ IsOrWas(refresh[v], last[v])
      BY DEF WordInv, WordStands
    <3>2. v \in User /\ last[v] \in Key \cup {None}
      BY <1>1
    <3> QED
      BY <2>2, <3>1, <3>2
  <2> QED
    BY <2>3, <2>4, <2>5
<1> QED
  BY <1>3, <1>4

(* The four commands.                                                      *)
LEMMA WritesWord ==
    ASSUME WordInv, NEW r \in Request,
           SetAccess(r) \/ SetRefresh(r) \/ DelAccess(r) \/ DelRefresh(r)
    PROVE  AloneMeansAlone' /\ HalfwayInv' /\ WordStands'
<1> DEFINE u == rq[r].user
<1>1. /\ rq[r].at \in Writing /\ u \in User
      /\ access \in [User -> Key \cup {None}]
      /\ rq[r].at \in {"del_access", "del_refresh"} => rq[r].key = None
  BY DEF SetAccess, SetRefresh, DelAccess, DelRefresh, At, Writing, WordInv,
         TypeInv, TypeOK, HasLocals
<1>2. CASE SetAccess(r) \/ DelAccess(r)
  <2>1. /\ access' = [access EXCEPT ![u] = rq[r].key]
        /\ refresh' = refresh /\ UNCHANGED words
        /\ rq[r].at \in {"set_access", "del_access"}
    BY <1>1, <1>2 DEF SetAccess, DelAccess, At
  <2>2. IsOrWas(access'[u], rq[r].key)
    BY <1>1, <2>1 DEF IsOrWas
  <2>3. \/ UNCHANGED rq
        \/ Goto(r, "set_refresh") \/ Goto(r, "del_refresh")
    BY <1>2 DEF SetAccess, DelAccess, Answered, Resend
  <2>4. {"set_refresh", "del_refresh"} \subseteq Label \cap Writing
    BY DEF Label, Writing
  <2>5. \/ UNCHANGED rq
        \/ /\ rq'[r].at \in Writing /\ rq'[r].user = rq[r].user
           /\ rq'[r].key = rq[r].key /\ rq'[r].alone = rq[r].alone
           /\ \A q \in Request \ {r} : rq'[q] = rq[q]
    <3>1. TypeInv
      BY DEF WordInv
    <3>2. CASE Goto(r, "set_refresh")
      BY <2>4, <3>1, <3>2, LocalTypes
    <3>3. CASE Goto(r, "del_refresh")
      BY <2>4, <3>1, <3>3, LocalTypes
    <3> QED
      BY <2>3, <3>2, <3>3
  <2> QED
    BY <1>1, <2>1, <2>2, <2>5, OnTheWayWord
<1>3. CASE SetRefresh(r) \/ DelRefresh(r)
  <2>1. /\ refresh' = [refresh EXCEPT ![u] = rq[r].key]
        /\ access' = access
        /\ rq[r].at \in {"set_refresh", "del_refresh"}
    BY <1>1, <1>3 DEF SetRefresh, DelRefresh, At
  <2>2. CASE UNCHANGED <<rq, words>>
    <3>1. rq[r].alone => IsOrWas(access[u], rq[r].key)
      BY <2>1 DEF WordInv, HalfwayInv
    <3> QED
      BY <1>1, <2>1, <2>2, <3>1, OnTheWayWord DEF IsOrWas
  <2>3. CASE Finish(r)
    BY <1>1, <2>1, <2>3, FinishWord DEF Finish
  <2> QED
    BY <1>3, <2>2, <2>3 DEF SetRefresh, DelRefresh, Resend
<1> QED
  BY <1>2, <1>3

(* Every step keeps the last word.                                         *)
LEMMA NextWordInv == WordInv /\ [Next]_vars => WordInv'
<1> SUFFICES ASSUME WordInv, [Next]_vars
             PROVE  AloneMeansAlone' /\ HalfwayInv' /\ WordStands'
  BY NextTypeInv DEF WordInv
<1>1. TypeInv
  BY DEF WordInv
<1>2. ASSUME NEW r \in Request, NEW u \in User, Mint(r, u)
      PROVE  AloneMeansAlone' /\ HalfwayInv' /\ WordStands'
  <2>1. /\ At(r, "idle") /\ UNCHANGED <<keys, words>>
        /\ \E key \in Key : Join(r, "set_access", u, key)
    BY <1>2, MintJoins
  <2> QED
    BY <2>1, JoinWord
<1>3. ASSUME NEW r \in Request, LgCheckPassword(r) \/ VpRegister(r)
      PROVE  AloneMeansAlone' /\ HalfwayInv' /\ WordStands'
  <2>1. PICK u \in User : Mint(r, u)
    BY <1>1, <1>3 DEF LgCheckPassword, VpRegister, TypeInv, TypeOK
  <2> QED
    BY <1>2, <2>1
<1>4. ASSUME NEW r \in Request, SetAccess(r) \/ SetRefresh(r) \/ Logout(r)
      PROVE  AloneMeansAlone' /\ HalfwayInv' /\ WordStands'
  BY <1>4, WritesWord DEF Logout
<1>5. ASSUME NEW r \in Request, ProtectedRoute(r)
      PROVE  AloneMeansAlone' /\ HalfwayInv' /\ WordStands'
  <2>1. PICK t \in held :
          \/ Join(r, "del_access", t.user, None)
          \/ rq' = [rq EXCEPT ![r] =
                        [Idle EXCEPT !.at = "handler", !.user = t.user]]
    BY <1>5 DEF ProtectedRoute
  <2>2. t.user \in User
    BY <1>1 DEF TypeInv, TypeOK, Token
  <2>3. At(r, "idle") /\ UNCHANGED <<keys, words>>
    BY <1>5 DEF ProtectedRoute
  <2>4. CASE Join(r, "del_access", t.user, None)
    BY <2>2, <2>3, <2>4, JoinWord
  <2>5. CASE rq' = [rq EXCEPT ![r] = [Idle EXCEPT !.at = "handler", !.user = t.user]]
    <3>1. /\ rq[r].at \notin Writing /\ rq'[r].at \notin Writing
          /\ \A q \in Request \ {r} : rq'[q] = rq[q]
      BY <1>1, <2>3, <2>5 DEF At, Idle, Writing, TypeInv, TypeOK
    <3> QED
      BY <2>3, <3>1, OutsideWord
  <2> QED
    BY <2>1, <2>4, <2>5
<1>6. ASSUME NEW r \in Request, UpdateProfile(r) \/ EndHandler(r)
      PROVE  AloneMeansAlone' /\ HalfwayInv' /\ WordStands'
  <2>1. /\ rq[r].at \notin Writing /\ rq' = [rq EXCEPT ![r] = Idle]
        /\ UNCHANGED <<keys, words>>
    BY <1>6 DEF UpdateProfile, EndHandler, At, Writing
  <2>2. rq'[r].at \notin Writing /\ \A q \in Request \ {r} : rq'[q] = rq[q]
    BY <1>1, <2>1, LocalTypes DEF Idle, Writing
  <2> QED
    BY <2>1, <2>2, OutsideWord
<1>7. ASSUME NEW r \in Request, Fail(r)
      PROVE  AloneMeansAlone' /\ HalfwayInv' /\ WordStands'
  <2>1. /\ rq[r].at \in Writing /\ rq' = [rq EXCEPT ![r] = Idle]
        /\ access' = access /\ refresh' = refresh
        /\ settled' = settled \ {rq[r].user}
        /\ last' = [last EXCEPT ![rq[r].user] = None]
    BY <1>7 DEF Fail, keys
  <2> QED
    BY <2>1, FinishWord
<1>8. CASE Tick \/ \E u \in User : Expire(u)
  BY <1>8, TimeWord
<1>9. CASE UNCHANGED vars
  BY <1>9 DEF vars, WordInv, AloneMeansAlone, HalfwayInv, WordStands, Writers,
              IsOrWas
<1> QED
  BY <1>3, <1>4, <1>5, <1>6, <1>7, <1>8, <1>9 DEF Next, Signin, Protected

(* The last login or logout that met no other has the last word.           *)
THEOREM LastWordCorrect == Spec => []LastWordStands
<1>1. Spec => []WordInv
  BY InitWordInv, NextWordInv, PTL DEF Spec
<1>2. WordInv => LastWordStands
  BY DEF WordInv, WordStands, LastWordStands, IsOrWas
<1> QED
  BY <1>1, <1>2, PTL

=============================================================================
