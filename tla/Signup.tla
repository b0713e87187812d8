------------------------------- MODULE Signup -------------------------------
(***************************************************************************)
(* The four-request signup of UserUsecase: start (mail an OTP), verify the *)
(* OTP, choose a username, choose a password, plus the rename of an        *)
(* existing account.  Between requests the state lives in Redis, as a hash *)
(* "signup:<session>" and a pointer "signup_email:<email>" to the session  *)
(* of an address; accounts live in PostgreSQL.                             *)
(*                                                                         *)
(* A request is a goroutine.  Each of its Redis or SQL commands is atomic, *)
(* nothing holds two of them together, and any of them may fail or be cut  *)
(* short (Fail), so one action is one command and the local variables of   *)
(* the handler are the record rq[r].  A request rejected before its first  *)
(* write leaves no trace: its early return is a guard of the action that   *)
(* begins it.                                                              *)
(***************************************************************************)
EXTENDS Naturals

CONSTANTS
    Email,      \* addresses, after strings.ToLower
    Username,
    Session,    \* the uuids that StartSignup may draw
    Request,    \* concurrent requests
    None,       \* an absent field, key or row
    MaxFaults   \* bound on commands that fail or requests that are cut short

ASSUME KeysAssumption == Email \cap Session = {}
ASSUME FaultsAssumption == MaxFaults \in Nat

VARIABLES
    session,    \* Redis hashes signup:<session>
    pointer,    \* Redis strings signup_email:<email>
    users,      \* rows of the table users
    mailed,     \* the address each session's OTP was sent to
    issued,     \* sessions returned to a client
    proved,     \* sessions whose OTP some request compared equal
    rq,         \* the requests in progress
    faults

vars == <<session, pointer, users, mailed, issued, proved, rq, faults>>

-----------------------------------------------------------------------------
(* The stored data.  A hash is the record of the fields the handlers read: *)
(* "live" and "late" say on which side of otp_expires_at the clock is, and *)
(* ttl whether the key has a time to live.                                 *)

Step == {"start_signup", "otp_verified", "username_set"}

ASSUME NoneAssumption ==
    None \notin Email \cup Username \cup Session \cup Step \cup {"live", "late"}

Hash == [email : Email \cup {None}, otp : {"live", "late", None},
         step : Step \cup {None}, username : Username \cup {None},
         ttl : BOOLEAN]

NoHash == [email |-> None, otp |-> None, step |-> None,
           username |-> None, ttl |-> FALSE]

Row == [email : Email \cup {None}, username : Username \cup {None}]

NoRow == [email |-> None, username |-> None]

(* "SELECT username,email ... WHERE username=$1 OR email=$2 LIMIT 1": any  *)
(* one of the matching rows, and two empty strings when there is none.     *)
CheckUsernameOrEmailUnique(u, e) ==
    LET hits == {a \in users : a.username = u \/ a.email = e}
    IN  IF hits = {} THEN {NoRow} ELSE hits

UsernameTaken(u) == \E a \in users : a.username = u
EmailTaken(e)    == \E a \in users : a.email = e

-----------------------------------------------------------------------------
(* The requests.                                                           *)

Label == {"idle",
          "ss_pointer", "ss_delPointer", "ss_delSession", "ss_mail",
          "ss_hset", "ss_expire", "ss_setPointer",
          "vo_hdel", "vo_hset",
          "vu_unique", "vu_hset",
          "vp_check", "vp_dropSession", "vp_dropPointer",
          "vp_delSession", "vp_delPointer", "vp_insert",
          "uu_update"}

Local == [at : Label, s : Session \cup {None},
          e : Email \cup {None}, u : Username \cup {None}]

Idle == [at |-> "idle", s |-> None, e |-> None, u |-> None]

At(r, label)   == rq[r].at = label
Goto(r, label) == rq' = [rq EXCEPT ![r].at = label]
Finish(r)      == rq' = [rq EXCEPT ![r] = Idle]
Begin(r, local) == At(r, "idle") /\ rq' = [rq EXCEPT ![r] = local]

SetHash(s, h) == session' = [session EXCEPT ![s] = h]

(* DEL signup_email:<name>, whatever the name is.                          *)
DeleteEmailSignupSession(name) ==
    pointer' = [e \in Email |-> IF e = name THEN None ELSE pointer[e]]

redis == <<session, pointer>>
ghosts == <<mailed, issued, proved>>

-----------------------------------------------------------------------------
Init ==
    /\ session = [s \in Session |-> NoHash]
    /\ pointer = [e \in Email |-> None]
    /\ users = {}
    /\ mailed = [s \in Session |-> None]
    /\ issued = {}
    /\ proved = {}
    /\ rq = [r \in Request |-> Idle]
    /\ faults = 0

-----------------------------------------------------------------------------
(* StartSignup                                                             *)

SsCheckEmail(r) ==
    \E e \in Email :
        /\ ~EmailTaken(e)
        /\ Begin(r, [at |-> "ss_pointer", s |-> None, e |-> e, u |-> None])
        /\ UNCHANGED <<redis, users, ghosts, faults>>

SsReadPointer(r) ==
    LET old == pointer[rq[r].e]
    IN  /\ At(r, "ss_pointer")
        /\ \/ /\ old = None
              /\ Goto(r, "ss_mail")
           \/ /\ old # None
              /\ rq' = [rq EXCEPT ![r].at = "ss_delPointer", ![r].s = old]
        /\ UNCHANGED <<redis, users, ghosts, faults>>

(* The code passes the session's id where the key is named by the address. *)
SsDelPointer(r) ==
    /\ At(r, "ss_delPointer")
    /\ DeleteEmailSignupSession(rq[r].s)
    /\ Goto(r, "ss_delSession")
    /\ UNCHANGED <<session, users, ghosts, faults>>

SsDelSession(r) ==
    /\ At(r, "ss_delSession")
    /\ SetHash(rq[r].s, NoHash)
    /\ Goto(r, "ss_mail")
    /\ UNCHANGED <<pointer, users, ghosts, faults>>

(* Mutant: the OTP is mailed again under a session that already exists.    *)
SsMailReusing(r) ==
    /\ At(r, "ss_mail")
    /\ \E s \in Session :
        /\ mailed' = [mailed EXCEPT ![s] = rq[r].e]
        /\ rq' = [rq EXCEPT ![r].at = "ss_hset", ![r].s = s]
    /\ UNCHANGED <<redis, users, issued, proved, faults>>

(* The OTP and the session's uuid are drawn and the mail leaves before     *)
(* anything is stored.                                                     *)
SsMail(r) ==
    /\ At(r, "ss_mail")
    /\ \E s \in Session :
        /\ mailed[s] = None
        /\ mailed' = [mailed EXCEPT ![s] = rq[r].e]
        /\ rq' = [rq EXCEPT ![r].at = "ss_hset", ![r].s = s]
    /\ UNCHANGED <<redis, users, issued, proved, faults>>

(* Mutant: the EXPIRE after the HSET is forgotten.                         *)
SsStoreForever(r) ==
    /\ At(r, "ss_hset")
    /\ SetHash(rq[r].s, [session[rq[r].s] EXCEPT !.email = rq[r].e,
                            !.otp = "live", !.step = "start_signup"])
    /\ Goto(r, "ss_setPointer")
    /\ UNCHANGED <<pointer, users, ghosts, faults>>

SsStoreSession(r) ==
    /\ At(r, "ss_hset")
    /\ SetHash(rq[r].s, [session[rq[r].s] EXCEPT !.email = rq[r].e,
                            !.otp = "live", !.step = "start_signup"])
    /\ Goto(r, "ss_expire")
    /\ UNCHANGED <<pointer, users, ghosts, faults>>

(* EXPIRE of a key that is gone does nothing and is not an error.          *)
SsExpire(r) ==
    /\ At(r, "ss_expire")
    /\ LET h == session[rq[r].s]
       IN  SetHash(rq[r].s, IF h = NoHash THEN h ELSE [h EXCEPT !.ttl = TRUE])
    /\ Goto(r, "ss_setPointer")
    /\ UNCHANGED <<pointer, users, ghosts, faults>>

SsSetPointer(r) ==
    /\ At(r, "ss_setPointer")
    /\ pointer' = [pointer EXCEPT ![rq[r].e] = rq[r].s]
    /\ issued' = issued \cup {rq[r].s}
    /\ Finish(r)
    /\ UNCHANGED <<session, users, mailed, proved, faults>>

-----------------------------------------------------------------------------
(* VerifyOtp.  A wrong OTP, an absent one and a late one are all rejected  *)
(* on the fields read by one HMGET, before anything is written.            *)

(* Mutant: the OTP is consumed before it is compared.                      *)
VoConsumeFirst(r) ==
    \E s \in issued :
        /\ session[s].otp = "live"
        /\ \/ /\ proved' = proved \cup {s}
              /\ Begin(r, [at |-> "vo_hset", s |-> s, e |-> None, u |-> None])
           \/ UNCHANGED <<proved, rq>>
        /\ SetHash(s, [session[s] EXCEPT !.otp = None])
        /\ UNCHANGED <<pointer, users, mailed, issued, faults>>

VoCompare(r) ==
    \E s \in issued :
        /\ session[s].otp = "live"
        /\ proved' = proved \cup {s}
        /\ Begin(r, [at |-> "vo_hdel", s |-> s, e |-> None, u |-> None])
        /\ UNCHANGED <<redis, users, mailed, issued, faults>>

VoDeleteOtp(r) ==
    /\ At(r, "vo_hdel")
    /\ SetHash(rq[r].s, [session[rq[r].s] EXCEPT !.otp = None])
    /\ Goto(r, "vo_hset")
    /\ UNCHANGED <<pointer, users, ghosts, faults>>

(* HSET creates the key, without a time to live, when it is gone.          *)
VoSetStep(r) ==
    /\ At(r, "vo_hset")
    /\ SetHash(rq[r].s, [session[rq[r].s] EXCEPT !.step = "otp_verified"])
    /\ Finish(r)
    /\ UNCHANGED <<pointer, users, ghosts, faults>>

-----------------------------------------------------------------------------
(* VerifyUsername                                                          *)

(* Mutant: a session still in its first step is let through.               *)
VuReadAnyStep(r) ==
    \E s \in issued, u \in Username :
        /\ session[s].step # None
        /\ Begin(r, [at |-> "vu_unique", s |-> s, e |-> None, u |-> u])
        /\ UNCHANGED <<redis, users, ghosts, faults>>

VuReadStep(r) ==
    \E s \in issued, u \in Username :
        /\ session[s].step \notin {None, "start_signup"}
        /\ Begin(r, [at |-> "vu_unique", s |-> s, e |-> None, u |-> u])
        /\ UNCHANGED <<redis, users, ghosts, faults>>

VuCheckUnique(r) ==
    /\ At(r, "vu_unique")
    /\ IF UsernameTaken(rq[r].u) THEN Finish(r) ELSE Goto(r, "vu_hset")
    /\ UNCHANGED <<redis, users, ghosts, faults>>

(* Mutant: the step recorded is SignupStepPasswordSet.                     *)
VuSetPasswordStep(r) ==
    /\ At(r, "vu_hset")
    /\ SetHash(rq[r].s, [session[rq[r].s] EXCEPT !.step = "password_set",
                                                 !.username = rq[r].u])
    /\ Finish(r)
    /\ UNCHANGED <<pointer, users, ghosts, faults>>

VuSetUsername(r) ==
    /\ At(r, "vu_hset")
    /\ SetHash(rq[r].s, [session[rq[r].s] EXCEPT !.step = "username_set",
                                                 !.username = rq[r].u])
    /\ Finish(r)
    /\ UNCHANGED <<pointer, users, ghosts, faults>>

-----------------------------------------------------------------------------
(* VerifyPassword.  Both exits delete the session and its pointer, in that *)
(* order: "drop" on the way to the rejection, "del" on the way to INSERT.  *)

VpReadSession(r) ==
    \E s \in issued :
        /\ session[s].step = "username_set"
        /\ Begin(r, [at |-> "vp_check", s |-> s,
                     e |-> session[s].email, u |-> session[s].username])
        /\ UNCHANGED <<redis, users, ghosts, faults>>

(* Mutant: when no row matches there is nothing to compare.                *)
VpCheckRowsOnly(r) ==
    /\ At(r, "vp_check")
    /\ \E row \in CheckUsernameOrEmailUnique(rq[r].u, rq[r].e) :
        \/ row.username = rq[r].u /\ Finish(r)
        \/ /\ row.username # rq[r].u
           /\ row # NoRow /\ row.email = rq[r].e
           /\ Goto(r, "vp_dropSession")
        \/ /\ row.username # rq[r].u
           /\ row = NoRow \/ row.email # rq[r].e
           /\ Goto(r, "vp_delSession")
    /\ UNCHANGED <<redis, users, ghosts, faults>>

VpCheckUnique(r) ==
    /\ At(r, "vp_check")
    /\ \E row \in CheckUsernameOrEmailUnique(rq[r].u, rq[r].e) :
        \/ row.username = rq[r].u /\ Finish(r)
        \/ /\ row.username # rq[r].u
           /\ row.email = rq[r].e
           /\ Goto(r, "vp_dropSession")
        \/ /\ row.username # rq[r].u
           /\ row.email # rq[r].e
           /\ Goto(r, "vp_delSession")
    /\ UNCHANGED <<redis, users, ghosts, faults>>

(* The key deleted is named by the session id as the client spelled it:    *)
(* uuid.Parse also reads capitals, braces and a urn, and DEL of a key that *)
(* is not there is no error, so such a client's session lives on.          *)
VpDelSession(r) ==
    /\ \/ At(r, "vp_dropSession") /\ Goto(r, "vp_dropPointer")
       \/ At(r, "vp_delSession") /\ Goto(r, "vp_delPointer")
    /\ SetHash(rq[r].s, NoHash) \/ UNCHANGED session
    /\ UNCHANGED <<pointer, users, ghosts, faults>>

VpDelPointer(r) ==
    /\ \/ At(r, "vp_dropPointer") /\ Finish(r)
       \/ At(r, "vp_delPointer") /\ Goto(r, "vp_insert")
    /\ DeleteEmailSignupSession(rq[r].e)
    /\ UNCHANGED <<session, users, ghosts, faults>>

(* Mutant: without unique indexes only the earlier check protects names.   *)
VpInsertUnindexed(r) ==
    /\ At(r, "vp_insert")
    /\ users' = users \cup {[email |-> rq[r].e, username |-> rq[r].u]}
    /\ Finish(r)
    /\ UNCHANGED <<redis, ghosts, faults>>

(* The unique indexes on users.username and users.email refuse the row.    *)
(* The tokens that follow are not part of this module.                     *)
VpInsert(r) ==
    /\ At(r, "vp_insert")
    /\ users' = IF UsernameTaken(rq[r].u) \/ EmailTaken(rq[r].e) THEN users
                ELSE users \cup {[email |-> rq[r].e, username |-> rq[r].u]}
    /\ Finish(r)
    /\ UNCHANGED <<redis, ghosts, faults>>

-----------------------------------------------------------------------------
(* UpdateUsername.  An account never changes its address and is never      *)
(* deleted, so the address stands for the account's id.                    *)

UuCheckUnique(r) ==
    \E a \in users, u \in Username :
        /\ ~UsernameTaken(u)
        /\ Begin(r, [at |-> "uu_update", s |-> None, e |-> a.email, u |-> u])
        /\ UNCHANGED <<redis, users, ghosts, faults>>

UuUpdate(r) ==
    /\ At(r, "uu_update")
    /\ users' = LET others == {a \in users : a.email # rq[r].e}
                IN  IF \E a \in others : a.username = rq[r].u THEN users
                    ELSE others \cup {[email |-> rq[r].e, username |-> rq[r].u]}
    /\ Finish(r)
    /\ UNCHANGED <<redis, ghosts, faults>>

-----------------------------------------------------------------------------
(* The environment.                                                        *)

(* A command fails, or the process dies: the handler returns where it is.  *)
Fail(r) ==
    /\ faults < MaxFaults
    /\ ~At(r, "idle")
    /\ Finish(r)
    /\ faults' = faults + 1
    /\ UNCHANGED <<redis, users, ghosts>>

(* Five minutes after it was drawn an OTP is late.                         *)
OtpDeadline(s) ==
    /\ session[s].otp = "live"
    /\ SetHash(s, [session[s] EXCEPT !.otp = "late"])
    /\ UNCHANGED <<pointer, users, ghosts, rq, faults>>

SessionExpires(s) ==
    /\ session[s].ttl
    /\ SetHash(s, NoHash)
    /\ UNCHANGED <<pointer, users, ghosts, rq, faults>>

PointerExpires(e) ==
    /\ pointer[e] # None
    /\ pointer' = [pointer EXCEPT ![e] = None]
    /\ UNCHANGED <<session, users, ghosts, rq, faults>>

-----------------------------------------------------------------------------
StartSignup(r) ==
    \/ SsCheckEmail(r) \/ SsReadPointer(r) \/ SsDelPointer(r)
    \/ SsDelSession(r) \/ SsMail(r) \/ SsStoreSession(r)
    \/ SsExpire(r) \/ SsSetPointer(r)

VerifyOtp(r) == VoCompare(r) \/ VoDeleteOtp(r) \/ VoSetStep(r)

VerifyUsername(r) == VuReadStep(r) \/ VuCheckUnique(r) \/ VuSetUsername(r)

VerifyPassword(r) ==
    \/ VpReadSession(r) \/ VpCheckUnique(r) \/ VpDelSession(r)
    \/ VpDelPointer(r) \/ VpInsert(r)

UpdateUsername(r) == UuCheckUnique(r) \/ UuUpdate(r)

Next ==
    \/ \E r \in Request :
        \/ StartSignup(r) \/ VerifyOtp(r) \/ VerifyUsername(r)
        \/ VerifyPassword(r) \/ UpdateUsername(r) \/ Fail(r)
    \/ \E s \in Session : OtpDeadline(s) \/ SessionExpires(s)
    \/ \E e \in Email : PointerExpires(e)

Spec == Init /\ [][Next]_vars

-----------------------------------------------------------------------------
(* Properties.                                                             *)

TypeOK ==
    /\ session \in [Session -> Hash]
    /\ pointer \in [Email -> Session \cup {None}]
    /\ users \subseteq Row
    /\ mailed \in [Session -> Email \cup {None}]
    /\ issued \subseteq Session
    /\ proved \subseteq Session
    /\ rq \in [Request -> Local]
    /\ faults \in 0..MaxFaults

(* Every account has an address, and somebody typed back an OTP that was   *)
(* mailed to that very address.  VerifyPassword relies for this on fields  *)
(* three earlier requests left in a hash that other requests delete,       *)
(* expire and recreate meanwhile; a recreated hash has no address at all.  *)
AccountsAreVerified ==
    \A a \in users : \E s \in proved : a.email = mailed[s] /\ a.email # None

(* Two accounts never share an address or a username, and none has an      *)
(* empty username, although every check for a free name is one query and   *)
(* the INSERT or UPDATE that relies on it a later one.                     *)
AccountsAreDistinct ==
    /\ \A a, b \in users :
            a.email = b.email \/ a.username = b.username => a = b
    /\ \A a \in users : a.username # None

(* A session that a client knows and that holds an address has a time to   *)
(* live: HSET and EXPIRE are two commands, and the id is returned only     *)
(* after both.                                                             *)
KnownSessionsExpire ==
    \A s \in issued : session[s].email # None => session[s].ttl

(* The pointer of an address names a session whose OTP went to that        *)
(* address, so restarting a signup deletes nobody else's session.          *)
PointerMatchesMail ==
    \A e \in Email : pointer[e] # None => mailed[pointer[e]] = e

(* VerifyOtp consumes the OTP before it records the success.  A session    *)
(* waits for an OTP it no longer has only while a request stands between   *)
(* the two commands, or because one was cut short there.                   *)
NoOtpLimbo ==
    \A s \in Session :
        session[s].step = "start_signup" /\ session[s].otp = None
            => \/ faults > 0
               \/ \E r \in Request : At(r, "vo_hset") /\ rq[r].s = s

(* A session lives once: an address that left a known session's hash does  *)
(* not come back, and a session past its first step, or gone, never waits  *)
(* for an OTP again, whatever late HSETs hit it.                           *)
SessionsLiveOnce ==
    [][\A s \in issued :
        /\ session[s].email = None => session'[s].email = None
        /\ session[s].step # "start_signup"
                => session'[s].step # "start_signup"]_vars

-----------------------------------------------------------------------------
(* Fairness: the runtime schedules every goroutine, and Redis expires keys *)
(* that have a time to live.  Clients owe nobody another request.          *)

Proceed(r) == ~At(r, "idle") /\ (StartSignup(r) \/ VerifyOtp(r)
                \/ VerifyUsername(r) \/ VerifyPassword(r) \/ UpdateUsername(r))

FairSpec ==
    /\ Spec
    /\ \A r \in Request : WF_vars(Proceed(r))
    /\ \A s \in Session : WF_vars(SessionExpires(s))

(* Every address a known session holds is dropped in the end, even when    *)
(* requests fail half way and nobody finishes the signup.                  *)
SessionsDrain ==
    \A s \in Session : s \in issued ~> session[s].email = None

-----------------------------------------------------------------------------
(* The promise of the signup, with the addresses to which a matching OTP   *)
(* was mailed for the verified ones and the table for the accounts.        *)
Promise == INSTANCE Registration
           WITH verified <- {mailed[s] : s \in proved}, accounts <- users

(* Every step of every request is a verification, a registration or a      *)
(* rename that the promise allows, or changes nothing it speaks of.        *)
KeepsPromise == Promise!Spec

=============================================================================
