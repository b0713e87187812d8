---------------------------- MODULE SignupProofs ----------------------------
(***************************************************************************)
(* Proofs about Signup, for any numbers of addresses, usernames, sessions, *)
(* requests and faults.                                                    *)
(***************************************************************************)
EXTENDS Signup, TLAPS

-----------------------------------------------------------------------------
(* The types of what the handlers' helpers assign.                         *)

(* A handler that returns, moves on or begins leaves well-typed locals.    *)
LEMMA LocalTypes ==
    ASSUME rq \in [Request -> Local], NEW r \in Request
    PROVE  /\ Finish(r) => rq' \in [Request -> Local]
           /\ \A l \in Label : Goto(r, l) => rq' \in [Request -> Local]
           /\ \A local \in Local : Begin(r, local) => rq' \in [Request -> Local]
<1>1. Idle \in Local
  BY DEF Idle, Local, Label
<1>2. ASSUME NEW l \in Label PROVE [rq[r] EXCEPT !.at = l] \in Local
  BY DEF Local
<1> QED
  BY <1>1, <1>2 DEF Finish, Goto, Begin

(* Writing a well-typed hash keeps Redis well-typed.                       *)
LEMMA HashTypes ==
    ASSUME session \in [Session -> Hash], NEW s \in Session, NEW h \in Hash,
           SetHash(s, h)
    PROVE  session' \in [Session -> Hash]
BY DEF SetHash

(* The empty hash is well-typed.                                           *)
LEMMA NoHashType == NoHash \in Hash
BY DEF Hash, NoHash

(* So is a hash some of whose fields a command has set.                    *)
LEMMA HashFields ==
    ASSUME NEW h \in Hash
    PROVE  /\ \A o \in {"live", "late", None} : [h EXCEPT !.otp = o] \in Hash
           /\ \A st \in Step : [h EXCEPT !.step = st] \in Hash
           /\ \A st \in Step, u \in Username :
                [h EXCEPT !.step = st, !.username = u] \in Hash
           /\ \A e \in Email, st \in Step :
                [h EXCEPT !.email = e, !.otp = "live", !.step = st] \in Hash
           /\ [h EXCEPT !.ttl = TRUE] \in Hash
BY DEF Hash, Step

(* SsReadPointer and SsMail also remember a session.                       *)
LEMMA LocalSessionTypes ==
    ASSUME rq \in [Request -> Local], NEW r \in Request,
           NEW l \in Label, NEW s \in Session,
           rq' = [rq EXCEPT ![r].at = l, ![r].s = s]
    PROVE  rq' \in [Request -> Local]
<1>1. [rq[r] EXCEPT !.at = l, !.s = s] \in Local
  BY DEF Local
<1> QED
  BY <1>1

-----------------------------------------------------------------------------
(* Type correctness.                                                       *)

(* The session, address and username a request works on, by where it is.   *)
HasLocals(r) ==
    /\ rq[r].at \in {"ss_pointer", "ss_delPointer", "ss_delSession", "ss_mail",
                     "ss_hset", "ss_expire", "ss_setPointer"}
            => rq[r].e \in Email
    /\ rq[r].at \in {"ss_delPointer", "ss_delSession", "ss_hset", "ss_expire",
                     "ss_setPointer", "vo_hdel", "vo_hset", "vu_unique",
                     "vu_hset", "vp_check", "vp_dropSession", "vp_dropPointer",
                     "vp_delSession", "vp_delPointer", "vp_insert"}
            => rq[r].s \in Session
    /\ rq[r].at \in {"vu_unique", "vu_hset", "uu_update"}
            => rq[r].u \in Username

TypeInv == TypeOK /\ \A r \in Request : HasLocals(r)

(* Empty stores and idle requests are well-typed.                          *)
LEMMA InitTypeInv == Init => TypeInv
<1> SUFFICES ASSUME Init PROVE TypeInv
  OBVIOUS
<1>1. Idle \in Local
  BY DEF Idle, Local, Label
<1>2. TypeOK
  BY <1>1, FaultsAssumption, NoHashType DEF Init, TypeOK
<1>3. \A r \in Request : HasLocals(r)
  BY DEF Init, HasLocals, Idle
<1> QED
  BY <1>2, <1>3 DEF TypeInv

(* A step that moves request r keeps the locals of the others.             *)
LEMMA OthersKeepLocals ==
    ASSUME \A q \in Request : HasLocals(q),
           NEW r \in Request, \A q \in Request \ {r} : rq'[q] = rq[q],
           HasLocals(r)'
    PROVE  \A q \in Request : HasLocals(q)'
BY DEF HasLocals

(* StartSignup keeps the types.                                            *)
LEMMA StartSignupTypeInv ==
    ASSUME TypeInv, NEW r \in Request, StartSignup(r)
    PROVE  TypeInv'
<1>1. CASE SsCheckEmail(r)
  <2>1. PICK e \in Email : Begin(r, [at |-> "ss_pointer", s |-> None, e |-> e, u |-> None])
    BY <1>1 DEF SsCheckEmail
  <2>2. [at |-> "ss_pointer", s |-> None, e |-> e, u |-> None] \in Local
    BY DEF Local, Label
  <2>3. TypeOK'
    BY <1>1, <2>1, <2>2, LocalTypes DEF TypeInv, TypeOK, SsCheckEmail, redis, ghosts
  <2>4. /\ \A q \in Request \ {r} : rq'[q] = rq[q]
        /\ HasLocals(r)'
    BY <2>1 DEF TypeInv, TypeOK, Begin, HasLocals
  <2> QED
    BY <2>3, <2>4, OthersKeepLocals DEF TypeInv
<1>2. CASE SsReadPointer(r)
  <2>1. TypeOK'
    BY <1>2, LocalTypes, LocalSessionTypes
       DEF TypeInv, TypeOK, SsReadPointer, redis, ghosts, Label, HasLocals, At
  <2>2. /\ \A q \in Request \ {r} : rq'[q] = rq[q]
        /\ HasLocals(r)'
    BY <1>2
       DEF TypeInv, TypeOK, SsReadPointer, Goto, Finish, Idle, At, HasLocals, Local
  <2> QED
    BY <2>1, <2>2, OthersKeepLocals DEF TypeInv
<1>3. CASE SsDelPointer(r)
  <2>1. TypeOK'
    BY <1>3, LocalTypes
       DEF TypeInv, TypeOK, SsDelPointer, redis, ghosts, Label, HasLocals, At, DeleteEmailSignupSession
  <2>2. /\ \A q \in Request \ {r} : rq'[q] = rq[q]
        /\ HasLocals(r)'
    BY <1>3
       DEF TypeInv, TypeOK, SsDelPointer, Goto, Finish, Idle, At, HasLocals, Local
  <2> QED
    BY <2>1, <2>2, OthersKeepLocals DEF TypeInv
<1>4. CASE SsDelSession(r)
  <2>1. rq[r].s \in Session /\ NoHash \in Hash
    BY <1>4, NoHashType, HashFields
       DEF TypeInv, TypeOK, HasLocals, At, Step, SsDelSession
  <2>2. TypeOK'
    BY <1>4, <2>1, LocalTypes, HashTypes
       DEF TypeInv, TypeOK, SsDelSession, redis, ghosts, Label, HasLocals, At
  <2>3. /\ \A q \in Request \ {r} : rq'[q] = rq[q]
        /\ HasLocals(r)'
    BY <1>4
       DEF TypeInv, TypeOK, SsDelSession, Goto, Finish, Idle, At, HasLocals, Local
  <2> QED
    BY <2>2, <2>3, OthersKeepLocals DEF TypeInv
<1>5. CASE SsMail(r)
  <2>1. TypeOK'
    BY <1>5, LocalTypes, LocalSessionTypes
       DEF TypeInv, TypeOK, SsMail, redis, ghosts, Label, HasLocals, At
  <2>2. /\ \A q \in Request \ {r} : rq'[q] = rq[q]
        /\ HasLocals(r)'
    BY <1>5
       DEF TypeInv, TypeOK, SsMail, Goto, Finish, Idle, At, HasLocals, Local
  <2> QED
    BY <2>1, <2>2, OthersKeepLocals DEF TypeInv
<1>6. CASE SsStoreSession(r)
  <2>1. rq[r].s \in Session /\ [session[rq[r].s] EXCEPT !.email = rq[r].e,
               !.otp = "live", !.step = "start_signup"] \in Hash
    BY <1>6, NoHashType, HashFields
       DEF TypeInv, TypeOK, HasLocals, At, Step, SsStoreSession
  <2>2. TypeOK'
    BY <1>6, <2>1, LocalTypes, HashTypes
       DEF TypeInv, TypeOK, SsStoreSession, redis, ghosts, Label, HasLocals, At
  <2>3. /\ \A q \in Request \ {r} : rq'[q] = rq[q]
        /\ HasLocals(r)'
    BY <1>6
       DEF TypeInv, TypeOK, SsStoreSession, Goto, Finish, Idle, At, HasLocals, Local
  <2> QED
    BY <2>2, <2>3, OthersKeepLocals DEF TypeInv
<1>7. CASE SsExpire(r)
  <2>1. rq[r].s \in Session /\ [session[rq[r].s] EXCEPT !.ttl = TRUE] \in Hash
    BY <1>7, NoHashType, HashFields
       DEF TypeInv, TypeOK, HasLocals, At, Step, SsExpire
  <2>2. TypeOK'
    BY <1>7, <2>1, LocalTypes, HashTypes, NoHashType
       DEF TypeInv, TypeOK, SsExpire, redis, ghosts, Label, HasLocals, At
  <2>3. /\ \A q \in Request \ {r} : rq'[q] = rq[q]
        /\ HasLocals(r)'
    BY <1>7
       DEF TypeInv, TypeOK, SsExpire, Goto, Finish, Idle, At, HasLocals, Local
  <2> QED
    BY <2>2, <2>3, OthersKeepLocals DEF TypeInv
<1>8. CASE SsSetPointer(r)
  <2>1. TypeOK'
    BY <1>8, LocalTypes
       DEF TypeInv, TypeOK, SsSetPointer, redis, ghosts, Label, HasLocals, At
  <2>2. /\ \A q \in Request \ {r} : rq'[q] = rq[q]
        /\ HasLocals(r)'
    BY <1>8
       DEF TypeInv, TypeOK, SsSetPointer, Goto, Finish, Idle, At, HasLocals, Local
  <2> QED
    BY <2>1, <2>2, OthersKeepLocals DEF TypeInv
<1> QED
  BY <1>1, <1>2, <1>3, <1>4, <1>5, <1>6, <1>7, <1>8 DEF StartSignup

(* VerifyOtp keeps the types.                                              *)
LEMMA VerifyOtpTypeInv ==
    ASSUME TypeInv, NEW r \in Request, VerifyOtp(r)
    PROVE  TypeInv'
<1>1. CASE VoCompare(r)
  <2>1. PICK s \in issued : Begin(r, [at |-> "vo_hdel", s |-> s, e |-> None, u |-> None])
    BY <1>1 DEF VoCompare
  <2>2. [at |-> "vo_hdel", s |-> s, e |-> None, u |-> None] \in Local
    BY DEF Local, Label, TypeInv, TypeOK
  <2>3. TypeOK'
    BY <1>1, <2>1, <2>2, LocalTypes DEF TypeInv, TypeOK, VoCompare, redis, ghosts
  <2>4. /\ \A q \in Request \ {r} : rq'[q] = rq[q]
        /\ HasLocals(r)'
    BY <2>1 DEF TypeInv, TypeOK, Begin, HasLocals
  <2> QED
    BY <2>3, <2>4, OthersKeepLocals DEF TypeInv
<1>2. CASE VoDeleteOtp(r)
  <2>1. rq[r].s \in Session /\ [session[rq[r].s] EXCEPT !.otp = None] \in Hash
    BY <1>2, NoHashType, HashFields
       DEF TypeInv, TypeOK, HasLocals, At, Step, VoDeleteOtp
  <2>2. TypeOK'
    BY <1>2, <2>1, LocalTypes, HashTypes
       DEF TypeInv, TypeOK, VoDeleteOtp, redis, ghosts, Label, HasLocals, At
  <2>3. /\ \A q \in Request \ {r} : rq'[q] = rq[q]
        /\ HasLocals(r)'
    BY <1>2
       DEF TypeInv, TypeOK, VoDeleteOtp, Goto, Finish, Idle, At, HasLocals, Local
  <2> QED
    BY <2>2, <2>3, OthersKeepLocals DEF TypeInv
<1>3. CASE VoSetStep(r)
  <2>1. rq[r].s \in Session /\ [session[rq[r].s] EXCEPT !.step = "otp_verified"] \in Hash
    BY <1>3, NoHashType, HashFields
       DEF TypeInv, TypeOK, HasLocals, At, Step, VoSetStep
  <2>2. TypeOK'
    BY <1>3, <2>1, LocalTypes, HashTypes
       DEF TypeInv, TypeOK, VoSetStep, redis, ghosts, Label, HasLocals, At
  <2>3. /\ \A q \in Request \ {r} : rq'[q] = rq[q]
        /\ HasLocals(r)'
    BY <1>3
       DEF TypeInv, TypeOK, VoSetStep, Goto, Finish, Idle, At, HasLocals, Local
  <2> QED
    BY <2>2, <2>3, OthersKeepLocals DEF TypeInv
<1> QED
  BY <1>1, <1>2, <1>3 DEF VerifyOtp

(* VerifyUsername keeps the types.                                         *)
LEMMA VerifyUsernameTypeInv ==
    ASSUME TypeInv, NEW r \in Request, VerifyUsername(r)
    PROVE  TypeInv'
<1>1. CASE VuReadStep(r)
  <2>1. PICK s \in issued, u \in Username : Begin(r, [at |-> "vu_unique", s |-> s, e |-> None, u |-> u])
    BY <1>1 DEF VuReadStep
  <2>2. [at |-> "vu_unique", s |-> s, e |-> None, u |-> u] \in Local
    BY DEF Local, Label, TypeInv, TypeOK
  <2>3. TypeOK'
    BY <1>1, <2>1, <2>2, LocalTypes DEF TypeInv, TypeOK, VuReadStep, redis, ghosts
  <2>4. /\ \A q \in Request \ {r} : rq'[q] = rq[q]
        /\ HasLocals(r)'
    BY <2>1 DEF TypeInv, TypeOK, Begin, HasLocals
  <2> QED
    BY <2>3, <2>4, OthersKeepLocals DEF TypeInv
<1>2. CASE VuCheckUnique(r)
  <2>1. TypeOK'
    BY <1>2, LocalTypes
       DEF TypeInv, TypeOK, VuCheckUnique, redis, ghosts, Label, HasLocals, At
  <2>2. /\ \A q \in Request \ {r} : rq'[q] = rq[q]
        /\ HasLocals(r)'
    BY <1>2
       DEF TypeInv, TypeOK, VuCheckUnique, Goto, Finish, Idle, At, HasLocals, Local
  <2> QED
    BY <2>1, <2>2, OthersKeepLocals DEF TypeInv
<1>3. CASE VuSetUsername(r)
  <2>1. rq[r].s \in Session /\ [session[rq[r].s] EXCEPT !.step = "username_set",
                                       !.username = rq[r].u] \in Hash
    BY <1>3, NoHashType, HashFields
       DEF TypeInv, TypeOK, HasLocals, At, Step, VuSetUsername
  <2>2. TypeOK'
    BY <1>3, <2>1, LocalTypes, HashTypes
       DEF TypeInv, TypeOK, VuSetUsername, redis, ghosts, Label, HasLocals, At
  <2>3. /\ \A q \in Request \ {r} : rq'[q] = rq[q]
        /\ HasLocals(r)'
    BY <1>3
       DEF TypeInv, TypeOK, VuSetUsername, Goto, Finish, Idle, At, HasLocals, Local
  <2> QED
    BY <2>2, <2>3, OthersKeepLocals DEF TypeInv
<1> QED
  BY <1>1, <1>2, <1>3 DEF VerifyUsername

(* VerifyPassword keeps the types.                                         *)
LEMMA VerifyPasswordTypeInv ==
    ASSUME TypeInv, NEW r \in Request, VerifyPassword(r)
    PROVE  TypeInv'
<1>1. CASE VpReadSession(r)
  <2>1. PICK s \in issued : Begin(r, [at |-> "vp_check", s |-> s,
         e |-> session[s].email, u |-> session[s].username])
    BY <1>1 DEF VpReadSession
  <2>2. [at |-> "vp_check", s |-> s,
         e |-> session[s].email, u |-> session[s].username] \in Local
    BY DEF Local, Label, TypeInv, TypeOK, Hash
  <2>3. TypeOK'
    BY <1>1, <2>1, <2>2, LocalTypes DEF TypeInv, TypeOK, VpReadSession, redis, ghosts
  <2>4. /\ \A q \in Request \ {r} : rq'[q] = rq[q]
        /\ HasLocals(r)'
    BY <2>1 DEF TypeInv, TypeOK, Begin, HasLocals
  <2> QED
    BY <2>3, <2>4, OthersKeepLocals DEF TypeInv
<1>2. CASE VpCheckUnique(r)
  <2>1. TypeOK'
    BY <1>2, LocalTypes
       DEF TypeInv, TypeOK, VpCheckUnique, redis, ghosts, Label, HasLocals, At
  <2>2. /\ \A q \in Request \ {r} : rq'[q] = rq[q]
        /\ HasLocals(r)'
    BY <1>2
       DEF TypeInv, TypeOK, VpCheckUnique, Goto, Finish, Idle, At, HasLocals, Local
  <2> QED
    BY <2>1, <2>2, OthersKeepLocals DEF TypeInv
<1>3. CASE VpDelSession(r)
  <2>1. rq[r].s \in Session /\ NoHash \in Hash
    BY <1>3, NoHashType, HashFields
       DEF TypeInv, TypeOK, HasLocals, At, Step, VpDelSession
  <2>2. TypeOK'
    BY <1>3, <2>1, LocalTypes, HashTypes
       DEF TypeInv, TypeOK, VpDelSession, redis, ghosts, Label, HasLocals, At
  <2>3. /\ \A q \in Request \ {r} : rq'[q] = rq[q]
        /\ HasLocals(r)'
    BY <1>3
       DEF TypeInv, TypeOK, VpDelSession, Goto, Finish, Idle, At, HasLocals, Local
  <2> QED
    BY <2>2, <2>3, OthersKeepLocals DEF TypeInv
<1>4. CASE VpDelPointer(r)
  <2>1. TypeOK'
    BY <1>4, LocalTypes
       DEF TypeInv, TypeOK, VpDelPointer, redis, ghosts, Label, HasLocals, At, DeleteEmailSignupSession
  <2>2. /\ \A q \in Request \ {r} : rq'[q] = rq[q]
        /\ HasLocals(r)'
    BY <1>4
       DEF TypeInv, TypeOK, VpDelPointer, Goto, Finish, Idle, At, HasLocals, Local
  <2> QED
    BY <2>1, <2>2, OthersKeepLocals DEF TypeInv
<1>5. CASE VpInsert(r)
  <2>1. TypeOK'
    BY <1>5, LocalTypes
       DEF TypeInv, TypeOK, VpInsert, redis, ghosts, Label, HasLocals, At, Row, Local
  <2>2. /\ \A q \in Request \ {r} : rq'[q] = rq[q]
        /\ HasLocals(r)'
    BY <1>5
       DEF TypeInv, TypeOK, VpInsert, Goto, Finish, Idle, At, HasLocals, Local
  <2> QED
    BY <2>1, <2>2, OthersKeepLocals DEF TypeInv
<1> QED
  BY <1>1, <1>2, <1>3, <1>4, <1>5 DEF VerifyPassword

(* UpdateUsername keeps the types.                                         *)
LEMMA UpdateUsernameTypeInv ==
    ASSUME TypeInv, NEW r \in Request, UpdateUsername(r)
    PROVE  TypeInv'
<1>1. CASE UuCheckUnique(r)
  <2>1. PICK a \in users, u \in Username : Begin(r, [at |-> "uu_update", s |-> None, e |-> a.email, u |-> u])
    BY <1>1 DEF UuCheckUnique
  <2>2. [at |-> "uu_update", s |-> None, e |-> a.email, u |-> u] \in Local
    BY DEF Local, Label, TypeInv, TypeOK, Row
  <2>3. TypeOK'
    BY <1>1, <2>1, <2>2, LocalTypes DEF TypeInv, TypeOK, UuCheckUnique, redis, ghosts
  <2>4. /\ \A q \in Request \ {r} : rq'[q] = rq[q]
        /\ HasLocals(r)'
    BY <2>1 DEF TypeInv, TypeOK, Begin, HasLocals
  <2> QED
    BY <2>3, <2>4, OthersKeepLocals DEF TypeInv
<1>2. CASE UuUpdate(r)
  <2>1. TypeOK'
    BY <1>2, LocalTypes
       DEF TypeInv, TypeOK, UuUpdate, redis, ghosts, Label, HasLocals, At, Row, Local
  <2>2. /\ \A q \in Request \ {r} : rq'[q] = rq[q]
        /\ HasLocals(r)'
    BY <1>2
       DEF TypeInv, TypeOK, UuUpdate, Goto, Finish, Idle, At, HasLocals, Local
  <2> QED
    BY <2>1, <2>2, OthersKeepLocals DEF TypeInv
<1> QED
  BY <1>1, <1>2 DEF UpdateUsername

(* A failing request and the passing of time keep the types.               *)
LEMMA EnvironmentTypeInv ==
    ASSUME TypeInv,
           \/ \E r \in Request : Fail(r)
           \/ \E s \in Session : OtpDeadline(s) \/ SessionExpires(s)
           \/ \E e \in Email : PointerExpires(e)
    PROVE  TypeInv'
<1>1. ASSUME NEW r \in Request, Fail(r) PROVE TypeInv'
  <2>1. TypeOK'
    BY <1>1, LocalTypes, FaultsAssumption
       DEF TypeInv, TypeOK, Fail, redis, ghosts
  <2>2. /\ \A q \in Request \ {r} : rq'[q] = rq[q]
        /\ HasLocals(r)'
    BY <1>1 DEF TypeInv, TypeOK, Fail, Finish, Idle, HasLocals
  <2> QED
    BY <2>1, <2>2, OthersKeepLocals DEF TypeInv
<1>2. ASSUME NEW s \in Session, OtpDeadline(s) \/ SessionExpires(s)
      PROVE  TypeInv'
  <2>1. NoHash \in Hash /\ [session[s] EXCEPT !.otp = "late"] \in Hash
    BY NoHashType, HashFields DEF TypeInv, TypeOK
  <2>2. TypeOK'
    BY <1>2, <2>1, HashTypes
       DEF TypeInv, TypeOK, OtpDeadline, SessionExpires, ghosts
  <2> QED
    BY <1>2, <2>2 DEF TypeInv, HasLocals, OtpDeadline, SessionExpires
<1>3. ASSUME NEW e \in Email, PointerExpires(e) PROVE TypeInv'
  BY <1>3 DEF TypeInv, TypeOK, HasLocals, PointerExpires, ghosts
<1> QED
  BY <1>1, <1>2, <1>3

(* Every step keeps the types.                                             *)
LEMMA NextTypeInv == TypeInv /\ [Next]_vars => TypeInv'
<1>1. TypeInv /\ UNCHANGED vars => TypeInv'
  BY DEF TypeInv, TypeOK, HasLocals, vars
<1> QED
  BY <1>1, StartSignupTypeInv, VerifyOtpTypeInv, VerifyUsernameTypeInv,
     VerifyPasswordTypeInv, UpdateUsernameTypeInv, EnvironmentTypeInv
     DEF Next

(* Whatever the requests interleave and whichever commands fail, the two   *)
(* stores and every handler's local variables stay in their types.         *)
THEOREM TypeCorrect == Spec => []TypeOK
<1>1. TypeInv => TypeOK
  BY DEF TypeInv
<1> QED
  BY <1>1, InitTypeInv, NextTypeInv, PTL DEF Spec

-----------------------------------------------------------------------------
(* Provenance: the inductive invariant behind every safety property.       *)

(* A hash holds no address but the one its OTP went to, and says that the  *)
(* OTP was verified only if it was.                                        *)
HonestHashes ==
    \A s \in Session :
        /\ session[s].email \in {None, mailed[s]}
        /\ session[s].step \in {"otp_verified", "username_set"} => s \in proved

(* Clients prove sessions they know, and know sessions that were mailed.   *)
KnownWereMailed ==
    /\ proved \subseteq issued
    /\ \A s \in issued : mailed[s] # None

(* What a request carries between two commands is still true at the next.  *)
Vouched(r) ==
    /\ rq[r].at \in {"ss_hset", "ss_expire", "ss_setPointer"}
            => mailed[rq[r].s] = rq[r].e
    /\ rq[r].at \in {"vo_hdel", "vo_hset", "vu_unique", "vu_hset", "vp_check",
                     "vp_dropSession", "vp_dropPointer", "vp_delSession",
                     "vp_delPointer", "vp_insert"}
            => rq[r].s \in proved
    /\ rq[r].at \in {"vp_check", "vp_dropSession", "vp_dropPointer",
                     "vp_delSession", "vp_delPointer", "vp_insert"}
            => rq[r].e \in {None, mailed[rq[r].s]}
    /\ rq[r].at \in {"vp_delSession", "vp_delPointer", "vp_insert"}
            => rq[r].e # None /\ rq[r].u # None
    /\ rq[r].at = "uu_update" => \E a \in users : a.email = rq[r].e

(* A session between SendEmail and the answer belongs to one request, no   *)
(* client knows it, and once EXPIRE is done it has a time to live.         *)
Storing(r) == rq[r].at \in {"ss_hset", "ss_expire", "ss_setPointer"}

StoredAlone ==
    /\ \A r \in Request : Storing(r) => rq[r].s \notin issued
    /\ \A r, q \in Request :
            Storing(r) /\ Storing(q) /\ rq[r].s = rq[q].s => r = q
    /\ \A r \in Request :
            rq[r].at = "ss_setPointer" /\ session[rq[r].s].email # None
                => session[rq[r].s].ttl

Accounts == AccountsAreVerified /\ AccountsAreDistinct

SignupInv ==
    /\ TypeInv
    /\ HonestHashes
    /\ KnownWereMailed
    /\ PointerMatchesMail
    /\ \A r \in Request : Vouched(r)
    /\ StoredAlone
    /\ KnownSessionsExpire
    /\ Accounts

(* Empty stores and idle requests satisfy the invariant.                   *)
LEMMA InitSignupInv == Init => SignupInv
<1> SUFFICES ASSUME Init PROVE SignupInv
  OBVIOUS
<1>1. TypeInv
  BY InitTypeInv
<1>2. \A r \in Request : rq[r].at = "idle"
  BY DEF Init, Idle
<1>3. (\A r \in Request : Vouched(r)) /\ StoredAlone
  BY <1>2 DEF Vouched, StoredAlone, Storing
<1>4. HonestHashes /\ KnownSessionsExpire
  BY NoneAssumption
     DEF Init, HonestHashes, KnownSessionsExpire, NoHash, Step
<1>5. KnownWereMailed /\ PointerMatchesMail /\ Accounts
  BY DEF Init, KnownWereMailed, PointerMatchesMail, Accounts,
     AccountsAreVerified, AccountsAreDistinct
<1> QED
  BY <1>1, <1>3, <1>4, <1>5 DEF SignupInv

(* What a step does not touch it does not disturb.                         *)
LEMMA Undisturbed ==
    ASSUME SignupInv
    PROVE  /\ UNCHANGED <<session, mailed, proved>> => HonestHashes'
           /\ UNCHANGED <<mailed, issued, proved>> => KnownWereMailed'
           /\ UNCHANGED <<pointer, mailed>> => PointerMatchesMail'
           /\ UNCHANGED <<session, issued>> => KnownSessionsExpire'
           /\ UNCHANGED <<users, mailed, proved>> => Accounts'
BY DEF SignupInv, HonestHashes, KnownWereMailed, PointerMatchesMail,
   KnownSessionsExpire, Accounts, AccountsAreVerified, AccountsAreDistinct

(* A step of request r leaves the others vouched for, provided it unsends  *)
(* no mail, unproves no session and closes no account.                     *)
LEMMA OthersStayVouched ==
    ASSUME SignupInv, NEW r \in Request, Vouched(r)',
           \A q \in Request \ {r} : rq'[q] = rq[q],
           \A s \in Session : mailed[s] # None => mailed'[s] = mailed[s],
           proved \subseteq proved',
           \A a \in users : \E b \in users' : b.email = a.email
    PROVE  \A q \in Request : Vouched(q)'
<1> SUFFICES ASSUME NEW q \in Request \ {r} PROVE Vouched(q)'
  OBVIOUS
<1>1. rq'[q] = rq[q] /\ Vouched(q) /\ HasLocals(q)
  BY DEF SignupInv, TypeInv
<1>2. rq[q].e \in Email => rq[q].e # None
  BY NoneAssumption
<1> QED
  BY <1>1, <1>2 DEF Vouched, HasLocals, SignupInv, KnownWereMailed

(* A request that is not storing a session, or goes on storing its own,    *)
(* leaves it alone with it.                                                *)
LEMMA StaysAlone ==
    ASSUME SignupInv, NEW r \in Request,
           \A q \in Request \ {r} : rq'[q] = rq[q],
           Storing(r)' => Storing(r) /\ rq'[r].s = rq[r].s,
           UNCHANGED issued,
           \A s \in Session : session'[s].email # None /\ s \notin issued
                => session'[s].ttl \/ (~session[s].ttl /\ session[s].email # None),
           rq'[r].at = "ss_setPointer" /\ session'[rq'[r].s].email # None
                => session'[rq'[r].s].ttl
    PROVE  StoredAlone'
<1>1. \A q \in Request : Storing(q) => rq[q].s \in Session /\ rq[q].s \notin issued
  BY DEF SignupInv, TypeInv, HasLocals, StoredAlone, Storing
<1>2. \A q \in Request \ {r} : Storing(q)' <=> Storing(q)
  BY DEF Storing
<1>3. ASSUME NEW q \in Request, rq'[q].at = "ss_setPointer",
             session'[rq'[q].s].email # None
      PROVE  session'[rq'[q].s].ttl
  <2>1. CASE q = r
    BY <1>3, <2>1
  <2>2. CASE q # r
    BY <1>1, <1>3, <2>2 DEF SignupInv, StoredAlone, Storing
  <2> QED
    BY <2>1, <2>2
<1> QED
  BY <1>1, <1>2, <1>3 DEF SignupInv, StoredAlone

(* StartSignup.                                                            *)

(* StartSignup begins with an address and no session to vouch for.         *)
LEMMA SsCheckEmailInv ==
    ASSUME SignupInv, NEW r \in Request, SsCheckEmail(r)
    PROVE  SignupInv'
<1>1. TypeInv'
  BY StartSignupTypeInv DEF SignupInv, StartSignup
<1>2. \A q \in Request \ {r} : rq'[q] = rq[q]
  BY DEF SignupInv, TypeInv, TypeOK, SsCheckEmail, At, Goto, Finish, Begin, Idle
<1>3. Vouched(r)'
  BY NoneAssumption
     DEF SignupInv, TypeInv, TypeOK, HasLocals, SsCheckEmail, Vouched, HonestHashes, KnownWereMailed,
         At, Goto, Finish, Begin, Idle, redis, ghosts
<1>4. \A q \in Request : Vouched(q)'
  BY <1>2, <1>3, OthersStayVouched DEF SsCheckEmail, redis, ghosts
<1>5. StoredAlone'
  BY <1>2, StaysAlone
     DEF SignupInv, TypeInv, TypeOK, HasLocals, SsCheckEmail, StoredAlone, Storing, At, Goto, Finish, Begin, Idle, redis, ghosts
<1> QED
  BY <1>1, <1>4, <1>5, Undisturbed
     DEF SignupInv, SsCheckEmail, redis, ghosts

(* The pointer read is remembered only to delete what it names.            *)
LEMMA SsReadPointerInv ==
    ASSUME SignupInv, NEW r \in Request, SsReadPointer(r)
    PROVE  SignupInv'
<1>1. TypeInv'
  BY StartSignupTypeInv DEF SignupInv, StartSignup
<1>2. \A q \in Request \ {r} : rq'[q] = rq[q]
  BY DEF SignupInv, TypeInv, TypeOK, SsReadPointer, At, Goto, Finish, Begin, Idle
<1>3. rq'[r].at \in {"ss_mail", "ss_delPointer"}
  BY DEF SignupInv, TypeInv, TypeOK, SsReadPointer, Goto, Local
<1>v. Vouched(r)' /\ ~Storing(r)'
  BY <1>3 DEF Vouched, Storing
<1>4. \A q \in Request : Vouched(q)'
  BY <1>2, <1>v, OthersStayVouched DEF SsReadPointer, redis, ghosts
<1>5. StoredAlone'
  BY <1>2, <1>v, StaysAlone
     DEF SignupInv, SsReadPointer, StoredAlone, Storing, redis, ghosts
<1> QED
  BY <1>1, <1>4, <1>5, Undisturbed
     DEF SignupInv, SsReadPointer, redis, ghosts

(* Deleting pointers breaks none.                                          *)
LEMMA SsDelPointerInv ==
    ASSUME SignupInv, NEW r \in Request, SsDelPointer(r)
    PROVE  SignupInv'
<1>1. TypeInv'
  BY StartSignupTypeInv DEF SignupInv, StartSignup
<1>2. \A q \in Request \ {r} : rq'[q] = rq[q]
  BY DEF SignupInv, TypeInv, TypeOK, SsDelPointer, At, Goto, Finish, Begin, Idle
<1>3. Vouched(r)'
  BY NoneAssumption
     DEF SignupInv, TypeInv, TypeOK, HasLocals, SsDelPointer, Vouched, HonestHashes, KnownWereMailed,
         At, Goto, Finish, Begin, Idle, redis, ghosts
<1>4. \A q \in Request : Vouched(q)'
  BY <1>2, <1>3, OthersStayVouched DEF SsDelPointer, redis, ghosts
<1>5. StoredAlone'
  BY <1>2, StaysAlone
     DEF SignupInv, TypeInv, TypeOK, HasLocals, SsDelPointer, StoredAlone, Storing, At, Goto, Finish, Begin, Idle, redis, ghosts
<1>6. PointerMatchesMail'
  BY NoneAssumption
     DEF SignupInv, DeleteEmailSignupSession, TypeInv, TypeOK, HasLocals, SsDelPointer, PointerMatchesMail, KnownWereMailed, Vouched,
         At, redis, ghosts
<1> QED
  BY <1>1, <1>4, <1>5, <1>6, Undisturbed
     DEF SignupInv, SsDelPointer, redis, ghosts

(* A deleted hash holds nothing that would need a reason.                  *)
LEMMA SsDelSessionInv ==
    ASSUME SignupInv, NEW r \in Request, SsDelSession(r)
    PROVE  SignupInv'
<1>1. TypeInv'
  BY StartSignupTypeInv DEF SignupInv, StartSignup
<1>2. \A q \in Request \ {r} : rq'[q] = rq[q]
  BY DEF SignupInv, TypeInv, TypeOK, SsDelSession, At, Goto, Finish, Begin, Idle
<1>3. /\ \A s \in Session \ {rq[r].s} : session'[s] = session[s]
      /\ rq[r].s \in Session
  BY DEF SignupInv, TypeInv, TypeOK, HasLocals, SsDelSession, SetHash, At
<1>4. session'[rq[r].s] = NoHash
  BY <1>3 DEF SignupInv, TypeInv, TypeOK, HasLocals, SsDelSession, SetHash, At, Hash, NoHash
<1>5. Vouched(r)'
  BY <1>3, <1>4, NoneAssumption
     DEF SignupInv, TypeInv, TypeOK, HasLocals, SsDelSession, Vouched, HonestHashes, KnownWereMailed,
         At, Goto, Finish, Begin, Idle, redis, ghosts
<1>6. \A q \in Request : Vouched(q)'
  BY <1>2, <1>5, OthersStayVouched DEF SsDelSession, redis, ghosts
<1>7. StoredAlone'
  BY <1>2, <1>3, <1>4, StaysAlone
     DEF SignupInv, NoHash, Step, TypeInv, TypeOK, HasLocals, SsDelSession, StoredAlone, Storing, At, Goto, Finish, Begin, Idle, redis, ghosts
<1>8. HonestHashes'
  BY <1>3, <1>4, NoneAssumption
     DEF SignupInv, NoHash, Step, TypeInv, TypeOK, HasLocals, SsDelSession, HonestHashes, Vouched, KnownWereMailed,
         At, redis, ghosts
<1>9. KnownSessionsExpire'
  BY <1>3, <1>4, NoneAssumption
     DEF SignupInv, NoHash, Step, TypeInv, TypeOK, HasLocals, SsDelSession, KnownSessionsExpire, StoredAlone, Storing, Vouched,
         At, redis, ghosts
<1> QED
  BY <1>1, <1>6, <1>7, <1>8, <1>9, Undisturbed
     DEF SignupInv, SsDelSession, redis, ghosts

(* The session mailed to is new: no client, pointer or request has it yet. *)
LEMMA SsMailInv ==
    ASSUME SignupInv, NEW r \in Request, SsMail(r)
    PROVE  SignupInv'
<1>1. TypeInv'
  BY StartSignupTypeInv DEF SignupInv, StartSignup
<1>2. \A q \in Request \ {r} : rq'[q] = rq[q]
  BY DEF SignupInv, TypeInv, TypeOK, SsMail, At, Goto, Finish, Begin, Idle
<1>3. PICK s \in Session :
        /\ mailed[s] = None
        /\ mailed' = [mailed EXCEPT ![s] = rq[r].e]
        /\ rq' = [rq EXCEPT ![r].at = "ss_hset", ![r].s = s]
  BY DEF SsMail
<1>a. /\ rq[r].e \in Email /\ rq[r].e # None
      /\ rq'[r].at = "ss_hset" /\ rq'[r].s = s /\ rq'[r].e = rq[r].e
      /\ mailed'[s] = rq[r].e
      /\ \A t \in Session \ {s} : mailed'[t] = mailed[t]
  BY <1>3, NoneAssumption
     DEF SignupInv, TypeInv, TypeOK, HasLocals, SsMail, At, Local
<1>b. s \notin issued /\ s \notin proved
  BY <1>3 DEF SignupInv, KnownWereMailed
<1>v. Vouched(r)'
  BY <1>a DEF Vouched
<1>4. \A q \in Request : Vouched(q)'
  <2>1. \A t \in Session : mailed[t] # None => mailed'[t] = mailed[t]
    BY <1>3, <1>a
  <2> QED
    BY <1>2, <1>v, <2>1, OthersStayVouched DEF SsMail
<1>5. StoredAlone'
  <2>1. ASSUME NEW q \in Request \ {r}, Storing(q)'
        PROVE  Storing(q) /\ rq[q].s # s /\ rq'[q] = rq[q]
    <3>1. rq'[q] = rq[q] /\ Storing(q)
      BY <1>2, <2>1 DEF Storing
    <3>2. mailed[rq[q].s] = rq[q].e /\ rq[q].e \in Email
      BY <3>1 DEF SignupInv, TypeInv, HasLocals, Vouched, Storing
    <3> QED
      BY <1>3, <3>1, <3>2, NoneAssumption
  <2>2. UNCHANGED <<session, issued>>
    BY DEF SsMail, redis
  <2>3. \A q \in Request : Storing(q)' => rq'[q].s \notin issued'
    BY <1>a, <1>b, <2>1, <2>2 DEF SignupInv, StoredAlone
  <2>4. ASSUME NEW p \in Request, NEW q \in Request,
               Storing(p)', Storing(q)', rq'[p].s = rq'[q].s
        PROVE  p = q
    <3>1. CASE p = r \/ q = r
      BY <1>a, <2>1, <2>4, <3>1
    <3>2. CASE p # r /\ q # r
      BY <2>1, <2>4, <3>2 DEF SignupInv, StoredAlone
    <3> QED
      BY <3>1, <3>2
  <2>5. ASSUME NEW q \in Request, rq'[q].at = "ss_setPointer",
               session'[rq'[q].s].email # None
        PROVE  session'[rq'[q].s].ttl
    BY <1>2, <1>a, <2>2, <2>5 DEF SignupInv, StoredAlone
  <2> QED
    BY <2>3, <2>4, <2>5 DEF StoredAlone
<1>6. HonestHashes'
  BY NoneAssumption
     DEF SignupInv, TypeInv, TypeOK, HasLocals, SsMail, HonestHashes, Vouched, KnownWereMailed,
         At, redis, ghosts
<1>7. KnownWereMailed'
  BY NoneAssumption
     DEF SignupInv, TypeInv, TypeOK, HasLocals, SsMail, KnownWereMailed, Vouched,
         At, redis, ghosts
<1>8. PointerMatchesMail'
  BY NoneAssumption
     DEF SignupInv, TypeInv, TypeOK, HasLocals, SsMail, PointerMatchesMail, KnownWereMailed, Vouched,
         At, redis, ghosts
<1>9. Accounts'
  BY NoneAssumption
     DEF SignupInv, TypeInv, TypeOK, HasLocals, SsMail, Accounts, AccountsAreVerified, AccountsAreDistinct, Vouched, KnownWereMailed,
         At, redis, ghosts
<1> QED
  BY <1>1, <1>4, <1>5, <1>6, <1>7, <1>8, <1>9, Undisturbed
     DEF SignupInv, SsMail, redis, ghosts

(* The hash stored holds the address the mail went to.                     *)
LEMMA SsStoreSessionInv ==
    ASSUME SignupInv, NEW r \in Request, SsStoreSession(r)
    PROVE  SignupInv'
<1>1. TypeInv'
  BY StartSignupTypeInv DEF SignupInv, StartSignup
<1>2. \A q \in Request \ {r} : rq'[q] = rq[q]
  BY DEF SignupInv, TypeInv, TypeOK, SsStoreSession, At, Goto, Finish, Begin, Idle
<1>3. /\ \A s \in Session \ {rq[r].s} : session'[s] = session[s]
      /\ rq[r].s \in Session
  BY DEF SignupInv, TypeInv, TypeOK, HasLocals, SsStoreSession, SetHash, At
<1>4. /\ session'[rq[r].s].email = rq[r].e
      /\ session'[rq[r].s].step = "start_signup"
  BY <1>3 DEF SignupInv, TypeInv, TypeOK, HasLocals, SsStoreSession, SetHash, At, Hash, NoHash
<1>5. Vouched(r)'
  BY <1>3, <1>4, NoneAssumption
     DEF SignupInv, TypeInv, TypeOK, HasLocals, SsStoreSession, Vouched, HonestHashes, KnownWereMailed,
         At, Goto, Finish, Begin, Idle, redis, ghosts
<1>6. \A q \in Request : Vouched(q)'
  BY <1>2, <1>5, OthersStayVouched DEF SsStoreSession, redis, ghosts
<1>7. StoredAlone'
  BY <1>2, <1>3, <1>4, StaysAlone
     DEF SignupInv, TypeInv, TypeOK, HasLocals, SsStoreSession, StoredAlone, Storing, At, Goto, Finish, Begin, Idle, redis, ghosts
<1>8. HonestHashes'
  BY <1>3, <1>4, NoneAssumption
     DEF SignupInv, TypeInv, TypeOK, HasLocals, SsStoreSession, HonestHashes, Vouched, KnownWereMailed,
         At, redis, ghosts
<1>9. KnownSessionsExpire'
  BY <1>3, <1>4, NoneAssumption
     DEF SignupInv, TypeInv, TypeOK, HasLocals, SsStoreSession, KnownSessionsExpire, StoredAlone, Storing, Vouched,
         At, redis, ghosts
<1> QED
  BY <1>1, <1>6, <1>7, <1>8, <1>9, Undisturbed
     DEF SignupInv, SsStoreSession, redis, ghosts

(* EXPIRE gives the session its time to live before anybody knows it.      *)
LEMMA SsExpireInv ==
    ASSUME SignupInv, NEW r \in Request, SsExpire(r)
    PROVE  SignupInv'
<1>1. TypeInv'
  BY StartSignupTypeInv DEF SignupInv, StartSignup
<1>2. \A q \in Request \ {r} : rq'[q] = rq[q]
  BY DEF SignupInv, TypeInv, TypeOK, SsExpire, At, Goto, Finish, Begin, Idle
<1>3. /\ \A s \in Session \ {rq[r].s} : session'[s] = session[s]
      /\ rq[r].s \in Session
  BY DEF SignupInv, TypeInv, TypeOK, HasLocals, SsExpire, SetHash, At
<1>4. /\ session'[rq[r].s].email = session[rq[r].s].email
      /\ session'[rq[r].s].step = session[rq[r].s].step
      /\ session[rq[r].s].email # None => session'[rq[r].s].ttl
  BY <1>3 DEF SignupInv, TypeInv, TypeOK, HasLocals, SsExpire, SetHash, At, Hash, NoHash
<1>5. Vouched(r)'
  BY <1>3, <1>4, NoneAssumption
     DEF SignupInv, TypeInv, TypeOK, HasLocals, SsExpire, Vouched, HonestHashes, KnownWereMailed,
         At, Goto, Finish, Begin, Idle, redis, ghosts
<1>6. \A q \in Request : Vouched(q)'
  BY <1>2, <1>5, OthersStayVouched DEF SsExpire, redis, ghosts
<1>7. StoredAlone'
  BY <1>2, <1>3, <1>4, StaysAlone
     DEF SignupInv, TypeInv, TypeOK, HasLocals, SsExpire, StoredAlone, Storing, At, Goto, Finish, Begin, Idle, redis, ghosts
<1>8. HonestHashes'
  BY <1>3, <1>4, NoneAssumption
     DEF SignupInv, TypeInv, TypeOK, HasLocals, SsExpire, HonestHashes, Vouched, KnownWereMailed,
         At, redis, ghosts
<1>9. KnownSessionsExpire'
  BY <1>3, <1>4, NoneAssumption
     DEF SignupInv, TypeInv, TypeOK, HasLocals, SsExpire, KnownSessionsExpire, StoredAlone, Storing, Vouched,
         At, redis, ghosts
<1> QED
  BY <1>1, <1>6, <1>7, <1>8, <1>9, Undisturbed
     DEF SignupInv, SsExpire, redis, ghosts

(* The session told to the client expires, and was mailed to its address.  *)
LEMMA SsSetPointerInv ==
    ASSUME SignupInv, NEW r \in Request, SsSetPointer(r)
    PROVE  SignupInv'
<1>1. TypeInv'
  BY StartSignupTypeInv DEF SignupInv, StartSignup
<1>2. \A q \in Request \ {r} : rq'[q] = rq[q]
  BY DEF SignupInv, TypeInv, TypeOK, SsSetPointer, At, Goto, Finish, Begin, Idle
<1>3. Vouched(r)'
  BY NoneAssumption
     DEF SignupInv, TypeInv, TypeOK, HasLocals, SsSetPointer, Vouched, HonestHashes, KnownWereMailed,
         At, Goto, Finish, Begin, Idle, redis, ghosts
<1>4. \A q \in Request : Vouched(q)'
  BY <1>2, <1>3, OthersStayVouched DEF SsSetPointer, redis, ghosts
<1>5. StoredAlone'
  BY <1>2, StaysAlone
     DEF SignupInv, TypeInv, TypeOK, HasLocals, SsSetPointer, StoredAlone, Storing, At, Goto, Finish, Begin, Idle, redis, ghosts
<1>6. KnownWereMailed'
  BY NoneAssumption
     DEF SignupInv, TypeInv, TypeOK, HasLocals, SsSetPointer, KnownWereMailed, Vouched,
         At, redis, ghosts
<1>7. PointerMatchesMail'
  BY NoneAssumption
     DEF SignupInv, TypeInv, TypeOK, HasLocals, SsSetPointer, PointerMatchesMail, KnownWereMailed, Vouched,
         At, redis, ghosts
<1>8. KnownSessionsExpire'
  BY NoneAssumption
     DEF SignupInv, TypeInv, TypeOK, HasLocals, SsSetPointer, KnownSessionsExpire, StoredAlone, Storing, Vouched,
         At, redis, ghosts
<1> QED
  BY <1>1, <1>4, <1>5, <1>6, <1>7, <1>8, Undisturbed
     DEF SignupInv, SsSetPointer, redis, ghosts

(* VerifyOtp.                                                              *)

(* Only a session told to a client, and mailed before, is proved.          *)
LEMMA VoCompareInv ==
    ASSUME SignupInv, NEW r \in Request, VoCompare(r)
    PROVE  SignupInv'
<1>1. TypeInv'
  BY VerifyOtpTypeInv DEF SignupInv, VerifyOtp
<1>2. \A q \in Request \ {r} : rq'[q] = rq[q]
  BY DEF SignupInv, TypeInv, TypeOK, VoCompare, At, Goto, Finish, Begin, Idle
<1>3. Vouched(r)'
  BY NoneAssumption
     DEF SignupInv, TypeInv, TypeOK, HasLocals, VoCompare, Vouched, HonestHashes, KnownWereMailed,
         At, Goto, Finish, Begin, Idle, redis, ghosts
<1>4. \A q \in Request : Vouched(q)'
  BY <1>2, <1>3, OthersStayVouched DEF VoCompare, redis, ghosts
<1>5. StoredAlone'
  BY <1>2, StaysAlone
     DEF SignupInv, TypeInv, TypeOK, HasLocals, VoCompare, StoredAlone, Storing, At, Goto, Finish, Begin, Idle, redis, ghosts
<1>6. HonestHashes'
  BY NoneAssumption
     DEF SignupInv, TypeInv, TypeOK, HasLocals, VoCompare, HonestHashes, Vouched, KnownWereMailed,
         At, redis, ghosts
<1>7. KnownWereMailed'
  BY NoneAssumption
     DEF SignupInv, TypeInv, TypeOK, HasLocals, VoCompare, KnownWereMailed, Vouched,
         At, redis, ghosts
<1>8. Accounts'
  BY NoneAssumption
     DEF SignupInv, TypeInv, TypeOK, HasLocals, VoCompare, Accounts, AccountsAreVerified, AccountsAreDistinct, Vouched, KnownWereMailed,
         At, redis, ghosts
<1> QED
  BY <1>1, <1>4, <1>5, <1>6, <1>7, <1>8, Undisturbed
     DEF SignupInv, VoCompare, redis, ghosts

(* Deleting an OTP leaves address and step of the hash alone.              *)
LEMMA VoDeleteOtpInv ==
    ASSUME SignupInv, NEW r \in Request, VoDeleteOtp(r)
    PROVE  SignupInv'
<1>1. TypeInv'
  BY VerifyOtpTypeInv DEF SignupInv, VerifyOtp
<1>2. \A q \in Request \ {r} : rq'[q] = rq[q]
  BY DEF SignupInv, TypeInv, TypeOK, VoDeleteOtp, At, Goto, Finish, Begin, Idle
<1>3. /\ \A s \in Session \ {rq[r].s} : session'[s] = session[s]
      /\ rq[r].s \in Session
  BY DEF SignupInv, TypeInv, TypeOK, HasLocals, VoDeleteOtp, SetHash, At
<1>4. /\ session'[rq[r].s].email = session[rq[r].s].email
      /\ session'[rq[r].s].step = session[rq[r].s].step
      /\ session'[rq[r].s].ttl = session[rq[r].s].ttl
  BY <1>3 DEF SignupInv, TypeInv, TypeOK, HasLocals, VoDeleteOtp, SetHash, At, Hash, NoHash
<1>5. Vouched(r)'
  BY <1>3, <1>4, NoneAssumption
     DEF SignupInv, TypeInv, TypeOK, HasLocals, VoDeleteOtp, Vouched, HonestHashes, KnownWereMailed,
         At, Goto, Finish, Begin, Idle, redis, ghosts
<1>6. \A q \in Request : Vouched(q)'
  BY <1>2, <1>5, OthersStayVouched DEF VoDeleteOtp, redis, ghosts
<1>7. StoredAlone'
  BY <1>2, <1>3, <1>4, StaysAlone
     DEF SignupInv, TypeInv, TypeOK, HasLocals, VoDeleteOtp, StoredAlone, Storing, At, Goto, Finish, Begin, Idle, redis, ghosts
<1>8. HonestHashes'
  BY <1>3, <1>4, NoneAssumption
     DEF SignupInv, TypeInv, TypeOK, HasLocals, VoDeleteOtp, HonestHashes, Vouched, KnownWereMailed,
         At, redis, ghosts
<1>9. KnownSessionsExpire'
  BY <1>3, <1>4, NoneAssumption
     DEF SignupInv, TypeInv, TypeOK, HasLocals, VoDeleteOtp, KnownSessionsExpire, StoredAlone, Storing, Vouched,
         At, redis, ghosts
<1> QED
  BY <1>1, <1>6, <1>7, <1>8, <1>9, Undisturbed
     DEF SignupInv, VoDeleteOtp, redis, ghosts

(* The step recorded is true even of a session that is gone.               *)
LEMMA VoSetStepInv ==
    ASSUME SignupInv, NEW r \in Request, VoSetStep(r)
    PROVE  SignupInv'
<1>1. TypeInv'
  BY VerifyOtpTypeInv DEF SignupInv, VerifyOtp
<1>2. \A q \in Request \ {r} : rq'[q] = rq[q]
  BY DEF SignupInv, TypeInv, TypeOK, VoSetStep, At, Goto, Finish, Begin, Idle
<1>3. /\ \A s \in Session \ {rq[r].s} : session'[s] = session[s]
      /\ rq[r].s \in Session
  BY DEF SignupInv, TypeInv, TypeOK, HasLocals, VoSetStep, SetHash, At
<1>4. /\ session'[rq[r].s].email = session[rq[r].s].email
      /\ session'[rq[r].s].ttl = session[rq[r].s].ttl
  BY <1>3 DEF SignupInv, TypeInv, TypeOK, HasLocals, VoSetStep, SetHash, At, Hash, NoHash
<1>5. Vouched(r)'
  BY <1>3, <1>4, NoneAssumption
     DEF SignupInv, TypeInv, TypeOK, HasLocals, VoSetStep, Vouched, HonestHashes, KnownWereMailed,
         At, Goto, Finish, Begin, Idle, redis, ghosts
<1>6. \A q \in Request : Vouched(q)'
  BY <1>2, <1>5, OthersStayVouched DEF VoSetStep, redis, ghosts
<1>7. StoredAlone'
  BY <1>2, <1>3, <1>4, StaysAlone
     DEF SignupInv, TypeInv, TypeOK, HasLocals, VoSetStep, StoredAlone, Storing, At, Goto, Finish, Begin, Idle, redis, ghosts
<1>8. HonestHashes'
  BY <1>3, <1>4, NoneAssumption
     DEF SignupInv, TypeInv, TypeOK, HasLocals, VoSetStep, HonestHashes, Vouched, KnownWereMailed,
         At, redis, ghosts
<1>9. KnownSessionsExpire'
  BY <1>3, <1>4, NoneAssumption
     DEF SignupInv, TypeInv, TypeOK, HasLocals, VoSetStep, KnownSessionsExpire, StoredAlone, Storing, Vouched,
         At, redis, ghosts
<1> QED
  BY <1>1, <1>6, <1>7, <1>8, <1>9, Undisturbed
     DEF SignupInv, VoSetStep, redis, ghosts

(* VerifyUsername.                                                         *)

(* A session past its first step was proved.                               *)
LEMMA VuReadStepInv ==
    ASSUME SignupInv, NEW r \in Request, VuReadStep(r)
    PROVE  SignupInv'
<1>1. TypeInv'
  BY VerifyUsernameTypeInv DEF SignupInv, VerifyUsername
<1>2. \A q \in Request \ {r} : rq'[q] = rq[q]
  BY DEF SignupInv, TypeInv, TypeOK, VuReadStep, At, Goto, Finish, Begin, Idle
<1>3. Vouched(r)'
  <2>1. PICK s \in issued, u \in Username :
            /\ session[s].step \notin {None, "start_signup"}
            /\ Begin(r, [at |-> "vu_unique", s |-> s, e |-> None, u |-> u])
    BY DEF VuReadStep
  <2>2. s \in Session /\ session[s] \in Hash
    BY DEF SignupInv, TypeInv, TypeOK
  <2>3. s \in proved
    BY <2>1, <2>2 DEF SignupInv, HonestHashes, Hash, Step
  <2> QED
    BY <2>1, <2>3
       DEF SignupInv, TypeInv, TypeOK, VuReadStep, Begin, Vouched, ghosts
<1>4. \A q \in Request : Vouched(q)'
  BY <1>2, <1>3, OthersStayVouched DEF VuReadStep, redis, ghosts
<1>5. StoredAlone'
  BY <1>2, StaysAlone
     DEF SignupInv, TypeInv, TypeOK, HasLocals, VuReadStep, StoredAlone, Storing, At, Goto, Finish, Begin, Idle, redis, ghosts
<1> QED
  BY <1>1, <1>4, <1>5, Undisturbed
     DEF SignupInv, VuReadStep, redis, ghosts

(* The check of a username carries nothing new.                            *)
LEMMA VuCheckUniqueInv ==
    ASSUME SignupInv, NEW r \in Request, VuCheckUnique(r)
    PROVE  SignupInv'
<1>1. TypeInv'
  BY VerifyUsernameTypeInv DEF SignupInv, VerifyUsername
<1>2. \A q \in Request \ {r} : rq'[q] = rq[q]
  BY DEF SignupInv, TypeInv, TypeOK, VuCheckUnique, At, Goto, Finish, Begin, Idle
<1>3. /\ rq[r].at = "vu_unique"
      /\ \/ rq'[r].at = "idle"
         \/ rq'[r].at = "vu_hset" /\ rq'[r].s = rq[r].s
  BY DEF SignupInv, TypeInv, TypeOK, VuCheckUnique, At, Goto, Finish, Idle,
         Local
<1>v. Vouched(r)' /\ ~Storing(r)'
  BY <1>3 DEF SignupInv, VuCheckUnique, Vouched, Storing, redis, ghosts
<1>4. \A q \in Request : Vouched(q)'
  BY <1>2, <1>v, OthersStayVouched DEF VuCheckUnique, redis, ghosts
<1>5. StoredAlone'
  BY <1>2, <1>v, StaysAlone
     DEF SignupInv, VuCheckUnique, StoredAlone, Storing, redis, ghosts
<1> QED
  BY <1>1, <1>4, <1>5, Undisturbed
     DEF SignupInv, VuCheckUnique, redis, ghosts

(* The step recorded was earned, whatever has become of the hash.          *)
LEMMA VuSetUsernameInv ==
    ASSUME SignupInv, NEW r \in Request, VuSetUsername(r)
    PROVE  SignupInv'
<1>1. TypeInv'
  BY VerifyUsernameTypeInv DEF SignupInv, VerifyUsername
<1>2. \A q \in Request \ {r} : rq'[q] = rq[q]
  BY DEF SignupInv, TypeInv, TypeOK, VuSetUsername, At, Goto, Finish, Begin, Idle
<1>3. /\ \A s \in Session \ {rq[r].s} : session'[s] = session[s]
      /\ rq[r].s \in Session
  BY DEF SignupInv, TypeInv, TypeOK, HasLocals, VuSetUsername, SetHash, At
<1>4. /\ session'[rq[r].s].email = session[rq[r].s].email
      /\ session'[rq[r].s].ttl = session[rq[r].s].ttl
  BY <1>3 DEF SignupInv, TypeInv, TypeOK, HasLocals, VuSetUsername, SetHash, At, Hash, NoHash
<1>5. Vouched(r)'
  BY <1>3, <1>4, NoneAssumption
     DEF SignupInv, TypeInv, TypeOK, HasLocals, VuSetUsername, Vouched, HonestHashes, KnownWereMailed,
         At, Goto, Finish, Begin, Idle, redis, ghosts
<1>6. \A q \in Request : Vouched(q)'
  BY <1>2, <1>5, OthersStayVouched DEF VuSetUsername, redis, ghosts
<1>7. StoredAlone'
  BY <1>2, <1>3, <1>4, StaysAlone
     DEF SignupInv, TypeInv, TypeOK, HasLocals, VuSetUsername, StoredAlone, Storing, At, Goto, Finish, Begin, Idle, redis, ghosts
<1>8. HonestHashes'
  BY <1>3, <1>4, NoneAssumption
     DEF SignupInv, TypeInv, TypeOK, HasLocals, VuSetUsername, HonestHashes, Vouched, KnownWereMailed,
         At, redis, ghosts
<1>9. KnownSessionsExpire'
  BY <1>3, <1>4, NoneAssumption
     DEF SignupInv, TypeInv, TypeOK, HasLocals, VuSetUsername, KnownSessionsExpire, StoredAlone, Storing, Vouched,
         At, redis, ghosts
<1> QED
  BY <1>1, <1>6, <1>7, <1>8, <1>9, Undisturbed
     DEF SignupInv, VuSetUsername, redis, ghosts

(* VerifyPassword.                                                         *)

(* The copy of the hash holds no address but the one mailed to.            *)
LEMMA VpReadSessionInv ==
    ASSUME SignupInv, NEW r \in Request, VpReadSession(r)
    PROVE  SignupInv'
<1>1. TypeInv'
  BY VerifyPasswordTypeInv DEF SignupInv, VerifyPassword
<1>2. \A q \in Request \ {r} : rq'[q] = rq[q]
  BY DEF SignupInv, TypeInv, TypeOK, VpReadSession, At, Goto, Finish, Begin, Idle
<1>3. Vouched(r)'
  BY NoneAssumption
     DEF SignupInv, TypeInv, TypeOK, HasLocals, VpReadSession, Vouched, HonestHashes, KnownWereMailed,
         At, Goto, Finish, Begin, Idle, redis, ghosts
<1>4. \A q \in Request : Vouched(q)'
  BY <1>2, <1>3, OthersStayVouched DEF VpReadSession, redis, ghosts
<1>5. StoredAlone'
  BY <1>2, StaysAlone
     DEF SignupInv, TypeInv, TypeOK, HasLocals, VpReadSession, StoredAlone, Storing, At, Goto, Finish, Begin, Idle, redis, ghosts
<1> QED
  BY <1>1, <1>4, <1>5, Undisturbed
     DEF SignupInv, VpReadSession, redis, ghosts

(* An empty address or username does not pass: the empty row equals it.    *)
LEMMA VpCheckUniqueInv ==
    ASSUME SignupInv, NEW r \in Request, VpCheckUnique(r)
    PROVE  SignupInv'
<1>1. TypeInv'
  BY VerifyPasswordTypeInv DEF SignupInv, VerifyPassword
<1>2. \A q \in Request \ {r} : rq'[q] = rq[q]
  BY DEF SignupInv, TypeInv, TypeOK, VpCheckUnique, At, Goto, Finish, Begin, Idle
<1>3. /\ rq[r].at = "vp_check"
      /\ \/ rq'[r].at = "idle"
         \/ /\ rq'[r].at = "vp_dropSession"
            /\ rq'[r].s = rq[r].s /\ rq'[r].e = rq[r].e
         \/ /\ rq'[r].at = "vp_delSession"
            /\ rq'[r].s = rq[r].s /\ rq'[r].e = rq[r].e /\ rq'[r].u = rq[r].u
            /\ rq[r].e # None /\ rq[r].u # None
  <2>1. PICK row \in CheckUsernameOrEmailUnique(rq[r].u, rq[r].e) :
            \/ Finish(r)
            \/ Goto(r, "vp_dropSession")
            \/ /\ row.username # rq[r].u
               /\ row.email # rq[r].e
               /\ Goto(r, "vp_delSession")
    BY DEF VpCheckUnique
  <2>2. row.username # rq[r].u /\ row.email # rq[r].e => row = NoRow
    BY DEF CheckUsernameOrEmailUnique
  <2>3. rq[r].at = "vp_check"
    BY DEF VpCheckUnique, At
  <2>4. CASE Finish(r)
    BY <2>3, <2>4 DEF SignupInv, TypeInv, TypeOK, Finish, Idle
  <2>5. CASE Goto(r, "vp_dropSession")
    BY <2>3, <2>5 DEF SignupInv, TypeInv, TypeOK, Goto, Local
  <2>6. CASE /\ row.username # rq[r].u
             /\ row.email # rq[r].e
             /\ Goto(r, "vp_delSession")
    BY <2>2, <2>3, <2>6
       DEF SignupInv, TypeInv, TypeOK, Goto, Local, NoRow
  <2> QED
    BY <2>1, <2>4, <2>5, <2>6
<1>v. Vouched(r)' /\ ~Storing(r)'
  BY <1>3 DEF SignupInv, VpCheckUnique, Vouched, Storing, redis, ghosts
<1>4. \A q \in Request : Vouched(q)'
  BY <1>2, <1>v, OthersStayVouched DEF VpCheckUnique, redis, ghosts
<1>5. StoredAlone'
  BY <1>2, <1>v, StaysAlone
     DEF SignupInv, VpCheckUnique, StoredAlone, Storing, redis, ghosts
<1> QED
  BY <1>1, <1>4, <1>5, Undisturbed
     DEF SignupInv, VpCheckUnique, redis, ghosts

(* Deleting the session, or a key that is not there instead, loses nothing *)
(* the request still needs.                                                *)
LEMMA VpDelSessionInv ==
    ASSUME SignupInv, NEW r \in Request, VpDelSession(r)
    PROVE  SignupInv'
<1>1. TypeInv'
  BY VerifyPasswordTypeInv DEF SignupInv, VerifyPassword
<1>2. \A q \in Request \ {r} : rq'[q] = rq[q]
  BY DEF SignupInv, TypeInv, TypeOK, VpDelSession, At, Goto, Finish, Begin, Idle
<1>3. /\ \A s \in Session \ {rq[r].s} : session'[s] = session[s]
      /\ rq[r].s \in Session
  BY DEF SignupInv, TypeInv, TypeOK, HasLocals, VpDelSession, SetHash, At
<1>4. \A s \in Session : session'[s] \in {session[s], NoHash}
  BY <1>3 DEF SignupInv, TypeInv, TypeOK, VpDelSession, SetHash
<1>5. /\ rq'[r].s = rq[r].s /\ rq'[r].e = rq[r].e /\ rq'[r].u = rq[r].u
      /\ \/ rq[r].at = "vp_dropSession" /\ rq'[r].at = "vp_dropPointer"
         \/ rq[r].at = "vp_delSession" /\ rq'[r].at = "vp_delPointer"
  BY DEF SignupInv, TypeInv, TypeOK, VpDelSession, At, Goto, Local
<1>v. Vouched(r)' /\ ~Storing(r)'
  BY <1>5 DEF SignupInv, VpDelSession, Vouched, Storing, ghosts
<1>6. \A q \in Request : Vouched(q)'
  BY <1>2, <1>v, OthersStayVouched DEF VpDelSession, redis, ghosts
<1>7. StoredAlone'
  BY <1>2, <1>3, <1>4, <1>v, StaysAlone
     DEF SignupInv, VpDelSession, StoredAlone, Storing, NoHash, ghosts
<1>8. HonestHashes'
  BY <1>3, <1>4, NoneAssumption
     DEF SignupInv, NoHash, Step, TypeInv, TypeOK, HasLocals, VpDelSession, HonestHashes, Vouched, KnownWereMailed,
         At, redis, ghosts
<1>9. KnownSessionsExpire'
  BY <1>3, <1>4, NoneAssumption
     DEF SignupInv, NoHash, Step, TypeInv, TypeOK, HasLocals, VpDelSession, KnownSessionsExpire, StoredAlone, Storing, Vouched,
         At, redis, ghosts
<1> QED
  BY <1>1, <1>6, <1>7, <1>8, <1>9, Undisturbed
     DEF SignupInv, VpDelSession, redis, ghosts

(* Deleting a pointer breaks none, even that of a newer session.           *)
LEMMA VpDelPointerInv ==
    ASSUME SignupInv, NEW r \in Request, VpDelPointer(r)
    PROVE  SignupInv'
<1>1. TypeInv'
  BY VerifyPasswordTypeInv DEF SignupInv, VerifyPassword
<1>2. \A q \in Request \ {r} : rq'[q] = rq[q]
  BY DEF SignupInv, TypeInv, TypeOK, VpDelPointer, At, Goto, Finish, Begin, Idle
<1>3. \/ rq'[r].at = "idle"
      \/ /\ rq'[r].s = rq[r].s /\ rq'[r].e = rq[r].e /\ rq'[r].u = rq[r].u
         /\ rq[r].at = "vp_delPointer" /\ rq'[r].at = "vp_insert"
  BY DEF SignupInv, TypeInv, TypeOK, VpDelPointer, At, Goto, Finish, Idle, Local
<1>v. Vouched(r)' /\ ~Storing(r)'
  BY <1>3 DEF SignupInv, VpDelPointer, Vouched, Storing, ghosts
<1>4. \A q \in Request : Vouched(q)'
  BY <1>2, <1>v, OthersStayVouched DEF VpDelPointer, redis, ghosts
<1>5. StoredAlone'
  BY <1>2, <1>v, StaysAlone
     DEF SignupInv, VpDelPointer, StoredAlone, Storing, redis, ghosts
<1>6. PointerMatchesMail'
  BY NoneAssumption
     DEF SignupInv, DeleteEmailSignupSession, TypeInv, TypeOK, HasLocals, VpDelPointer, PointerMatchesMail, KnownWereMailed, Vouched,
         At, redis, ghosts
<1> QED
  BY <1>1, <1>4, <1>5, <1>6, Undisturbed
     DEF SignupInv, VpDelPointer, redis, ghosts

(* The account is of a proved address, and the indexes keep it distinct.   *)
LEMMA VpInsertInv ==
    ASSUME SignupInv, NEW r \in Request, VpInsert(r)
    PROVE  SignupInv'
<1>1. TypeInv'
  BY VerifyPasswordTypeInv DEF SignupInv, VerifyPassword
<1>2. \A q \in Request \ {r} : rq'[q] = rq[q]
  BY DEF SignupInv, TypeInv, TypeOK, VpInsert, At, Goto, Finish, Begin, Idle
<1>3. Vouched(r)'
  BY NoneAssumption
     DEF SignupInv, TypeInv, TypeOK, HasLocals, VpInsert, Vouched, HonestHashes, KnownWereMailed,
         At, Goto, Finish, Begin, Idle, redis, ghosts
<1>4. \A q \in Request : Vouched(q)'
  BY <1>2, <1>3, OthersStayVouched DEF VpInsert, redis, ghosts
<1>5. StoredAlone'
  BY <1>2, StaysAlone
     DEF SignupInv, TypeInv, TypeOK, HasLocals, VpInsert, StoredAlone, Storing, At, Goto, Finish, Begin, Idle, redis, ghosts
<1>6. Accounts'
  <2>1. /\ rq[r].s \in proved /\ rq[r].e = mailed[rq[r].s]
        /\ rq[r].e # None /\ rq[r].u # None
    BY DEF SignupInv, Vouched, VpInsert, At
  <2>2. CASE UsernameTaken(rq[r].u) \/ EmailTaken(rq[r].e)
    BY <2>2, Undisturbed DEF VpInsert, ghosts
  <2>3. CASE ~UsernameTaken(rq[r].u) /\ ~EmailTaken(rq[r].e)
    <3>1. users' = users \cup {[email |-> rq[r].e, username |-> rq[r].u]}
      BY <2>3 DEF VpInsert
    <3> QED
      BY <2>1, <2>3, <3>1
         DEF SignupInv, VpInsert, Accounts, AccountsAreVerified,
             AccountsAreDistinct, UsernameTaken, EmailTaken, ghosts
  <2> QED
    BY <2>2, <2>3
<1> QED
  BY <1>1, <1>4, <1>5, <1>6, Undisturbed
     DEF SignupInv, VpInsert, redis, ghosts

(* UpdateUsername.                                                         *)

(* A rename begins from an account that is there.                          *)
LEMMA UuCheckUniqueInv ==
    ASSUME SignupInv, NEW r \in Request, UuCheckUnique(r)
    PROVE  SignupInv'
<1>1. TypeInv'
  BY UpdateUsernameTypeInv DEF SignupInv, UpdateUsername
<1>2. \A q \in Request \ {r} : rq'[q] = rq[q]
  BY DEF SignupInv, TypeInv, TypeOK, UuCheckUnique, At, Goto, Finish, Begin, Idle
<1>3. Vouched(r)'
  BY NoneAssumption
     DEF SignupInv, TypeInv, TypeOK, HasLocals, UuCheckUnique, Vouched, HonestHashes, KnownWereMailed,
         At, Goto, Finish, Begin, Idle, redis, ghosts
<1>4. \A q \in Request : Vouched(q)'
  BY <1>2, <1>3, OthersStayVouched DEF UuCheckUnique, redis, ghosts
<1>5. StoredAlone'
  BY <1>2, StaysAlone
     DEF SignupInv, TypeInv, TypeOK, HasLocals, UuCheckUnique, StoredAlone, Storing, At, Goto, Finish, Begin, Idle, redis, ghosts
<1> QED
  BY <1>1, <1>4, <1>5, Undisturbed
     DEF SignupInv, UuCheckUnique, redis, ghosts

(* A rename keeps the address, and the index keeps the names distinct.     *)
LEMMA UuUpdateInv ==
    ASSUME SignupInv, NEW r \in Request, UuUpdate(r)
    PROVE  SignupInv'
<1>1. TypeInv'
  BY UpdateUsernameTypeInv DEF SignupInv, UpdateUsername
<1>2. \A q \in Request \ {r} : rq'[q] = rq[q]
  BY DEF SignupInv, TypeInv, TypeOK, UuUpdate, At, Goto, Finish, Begin, Idle
<1>3. Vouched(r)'
  BY NoneAssumption
     DEF SignupInv, TypeInv, TypeOK, HasLocals, UuUpdate, Vouched, HonestHashes, KnownWereMailed,
         At, Goto, Finish, Begin, Idle, redis, ghosts
<1>4. \A q \in Request : Vouched(q)'
  <2> DEFINE others == {a \in users : a.email # rq[r].e}
             row == [email |-> rq[r].e, username |-> rq[r].u]
  <2>1. users' = users \/ users' = others \cup {row}
    BY DEF UuUpdate
  <2>2. \A a \in users : \E b \in users' : b.email = a.email
    <3>1. row.email = rq[r].e
      OBVIOUS
    <3> QED
      BY <2>1, <3>1
  <2> QED
    BY <1>2, <1>3, <2>2, OthersStayVouched DEF UuUpdate, ghosts
<1>5. StoredAlone'
  BY <1>2, StaysAlone
     DEF SignupInv, TypeInv, TypeOK, HasLocals, UuUpdate, StoredAlone, Storing, At, Goto, Finish, Begin, Idle, redis, ghosts
<1>6. Accounts'
  BY NoneAssumption
     DEF SignupInv, TypeInv, TypeOK, HasLocals, UuUpdate, Accounts, AccountsAreVerified, AccountsAreDistinct, Vouched, KnownWereMailed,
         At, redis, ghosts
<1> QED
  BY <1>1, <1>4, <1>5, <1>6, Undisturbed
     DEF SignupInv, UuUpdate, redis, ghosts

(* The environment.                                                        *)

(* A request that is cut short leaves the stores as they are.              *)
LEMMA FailInv ==
    ASSUME SignupInv, NEW r \in Request, Fail(r)
    PROVE  SignupInv'
<1>1. TypeInv'
  BY EnvironmentTypeInv DEF SignupInv
<1>2. /\ \A q \in Request \ {r} : rq'[q] = rq[q]
      /\ rq'[r].at = "idle"
  BY DEF SignupInv, TypeInv, TypeOK, Fail, Finish, Idle
<1>3. Vouched(r)' /\ ~Storing(r)'
  BY <1>2 DEF Vouched, Storing
<1>4. \A q \in Request : Vouched(q)'
  BY <1>2, <1>3, OthersStayVouched DEF Fail, ghosts
<1>5. StoredAlone'
  BY <1>2, <1>3, StaysAlone
     DEF SignupInv, Fail, StoredAlone, Storing, redis, ghosts
<1> QED
  BY <1>1, <1>4, <1>5, Undisturbed DEF SignupInv, Fail, redis, ghosts

(* Late and expired sessions need no reason.                               *)
LEMMA ClockInv ==
    ASSUME SignupInv, NEW s \in Session, OtpDeadline(s) \/ SessionExpires(s)
    PROVE  SignupInv'
<1>1. TypeInv'
  BY EnvironmentTypeInv DEF SignupInv
<1>2. /\ \A t \in Session \ {s} : session'[t] = session[t]
      /\ \/ /\ session'[s].email = session[s].email
            /\ session'[s].step = session[s].step
            /\ session'[s].ttl = session[s].ttl
         \/ session'[s] = NoHash
  BY DEF SignupInv, TypeInv, TypeOK, OtpDeadline, SessionExpires, SetHash, Hash
<1>3. UNCHANGED <<pointer, users, mailed, issued, proved, rq>>
  BY DEF OtpDeadline, SessionExpires, ghosts
<1>4. (\A r \in Request : Vouched(r))'
  BY <1>3 DEF SignupInv, Vouched
<1>5. StoredAlone'
  BY <1>2, <1>3
     DEF SignupInv, TypeInv, HasLocals, StoredAlone, Storing, NoHash
<1>6. HonestHashes'
  BY <1>2, <1>3, NoneAssumption DEF SignupInv, HonestHashes, NoHash, Step
<1>7. KnownSessionsExpire'
  BY <1>2, <1>3 DEF SignupInv, TypeInv, TypeOK, KnownSessionsExpire, NoHash
<1> QED
  BY <1>1, <1>3, <1>4, <1>5, <1>6, <1>7, Undisturbed DEF SignupInv

(* An expired pointer breaks none.                                         *)
LEMMA PointerExpiresInv ==
    ASSUME SignupInv, NEW e \in Email, PointerExpires(e)
    PROVE  SignupInv'
<1>1. TypeInv'
  BY EnvironmentTypeInv DEF SignupInv
<1>2. UNCHANGED <<session, users, mailed, issued, proved, rq>>
  BY DEF PointerExpires, ghosts
<1>3. (\A r \in Request : Vouched(r))' /\ StoredAlone'
  BY <1>2 DEF SignupInv, Vouched, StoredAlone, Storing
<1>4. PointerMatchesMail'
  BY <1>2
     DEF SignupInv, TypeInv, TypeOK, PointerExpires, PointerMatchesMail
<1> QED
  BY <1>1, <1>2, <1>3, <1>4, Undisturbed DEF SignupInv

(* Every step keeps the invariant.                                         *)
LEMMA NextSignupInv == SignupInv /\ [Next]_vars => SignupInv'
<1> SUFFICES ASSUME SignupInv, [Next]_vars PROVE SignupInv'
  OBVIOUS
<1>1. ASSUME NEW r \in Request, StartSignup(r) PROVE SignupInv'
  BY <1>1, SsCheckEmailInv, SsReadPointerInv, SsDelPointerInv,
     SsDelSessionInv, SsMailInv, SsStoreSessionInv, SsExpireInv,
     SsSetPointerInv DEF StartSignup
<1>2. ASSUME NEW r \in Request, VerifyOtp(r) PROVE SignupInv'
  BY <1>2, VoCompareInv, VoDeleteOtpInv, VoSetStepInv DEF VerifyOtp
<1>3. ASSUME NEW r \in Request, VerifyUsername(r) PROVE SignupInv'
  BY <1>3, VuReadStepInv, VuCheckUniqueInv, VuSetUsernameInv
     DEF VerifyUsername
<1>4. ASSUME NEW r \in Request, VerifyPassword(r) PROVE SignupInv'
  BY <1>4, VpReadSessionInv, VpCheckUniqueInv, VpDelSessionInv,
     VpDelPointerInv, VpInsertInv DEF VerifyPassword
<1>5. ASSUME NEW r \in Request, UpdateUsername(r) PROVE SignupInv'
  BY <1>5, UuCheckUniqueInv, UuUpdateInv DEF UpdateUsername
<1>6. CASE UNCHANGED vars
  <2>1. TypeInv'
    BY <1>6, NextTypeInv DEF SignupInv
  <2>2. (\A r \in Request : Vouched(r))' /\ StoredAlone'
    BY <1>6 DEF vars, SignupInv, Vouched, StoredAlone, Storing
  <2> QED
    BY <1>6, <2>1, <2>2, Undisturbed DEF SignupInv, vars
<1> QED
  BY <1>1, <1>2, <1>3, <1>4, <1>5, <1>6, FailInv, ClockInv, PointerExpiresInv
     DEF Next

(* The invariant of the signup holds always.                               *)
LEMMA SignupCorrect == Spec => []SignupInv
BY InitSignupInv, NextSignupInv, PTL DEF Spec

-----------------------------------------------------------------------------
(* The safety properties.                                                  *)

(* No account exists but for an address whose OTP was typed back to one of *)
(* the sessions opened for it, whatever requests race, fail or come late.  *)
THEOREM VerifiedAccounts == Spec => []AccountsAreVerified
<1>1. SignupInv => AccountsAreVerified
  BY DEF SignupInv, Accounts
<1> QED
  BY <1>1, SignupCorrect, PTL

(* No two accounts share an address or a username.                         *)
THEOREM DistinctAccounts == Spec => []AccountsAreDistinct
<1>1. SignupInv => AccountsAreDistinct
  BY DEF SignupInv, Accounts
<1> QED
  BY <1>1, SignupCorrect, PTL

(* The address a client's session holds is never stored for good.          *)
THEOREM ExpiringSessions == Spec => []KnownSessionsExpire
<1>1. SignupInv => KnownSessionsExpire
  BY DEF SignupInv
<1> QED
  BY <1>1, SignupCorrect, PTL

(* A restarted signup only ever deletes a session of the same address.     *)
THEOREM PointersMatch == Spec => []PointerMatchesMail
<1>1. SignupInv => PointerMatchesMail
  BY DEF SignupInv
<1> QED
  BY <1>1, SignupCorrect, PTL

-----------------------------------------------------------------------------
(* The promise of module Registration.                                     *)

(* A step that leaves proofs, mails and accounts alone is a stutter.       *)
LEMMA QuietStep ==
    ASSUME UNCHANGED <<mailed, proved, users>>
    PROVE  UNCHANGED Promise!vars
BY DEF Promise!vars

(* SsMail draws a session nobody has proved.                               *)
LEMMA SsMailPromise ==
    ASSUME SignupInv, NEW r \in Request, SsMail(r)
    PROVE  UNCHANGED Promise!vars
<1>1. PICK s \in Session :
        /\ mailed[s] = None
        /\ mailed' = [mailed EXCEPT ![s] = rq[r].e]
  BY DEF SsMail
<1>2. \A t \in proved : mailed'[t] = mailed[t]
  BY <1>1 DEF SignupInv, TypeInv, TypeOK, KnownWereMailed
<1>3. UNCHANGED <<proved, users>>
  BY DEF SsMail
<1> QED
  BY <1>2, <1>3 DEF Promise!vars

(* Comparing an OTP equal is a verification.                               *)
LEMMA VoComparePromise ==
    ASSUME SignupInv, NEW r \in Request, VoCompare(r)
    PROVE  Promise!Next
<1>1. PICK s \in issued : proved' = proved \cup {s}
  BY DEF VoCompare
<1>2. UNCHANGED <<mailed, users>>
  BY DEF VoCompare
<1>3. mailed[s] \in Email
  BY DEF SignupInv, TypeInv, TypeOK, KnownWereMailed
<1>4. PICK e \in Email : e = mailed[s]
  BY <1>3
<1>5. Promise!Verify(e)
  BY <1>1, <1>2, <1>4 DEF Promise!Verify
<1> QED
  BY <1>5 DEF Promise!Next

(* The INSERT is a registration, or refused.                               *)
LEMMA VpInsertPromise ==
    ASSUME SignupInv, NEW r \in Request, VpInsert(r)
    PROVE  [Promise!Next]_(Promise!vars)
<1>1. UNCHANGED <<mailed, proved>>
  BY DEF VpInsert, ghosts
<1>2. CASE UsernameTaken(rq[r].u) \/ EmailTaken(rq[r].e)
  BY <1>1, <1>2, QuietStep DEF VpInsert
<1>3. CASE ~UsernameTaken(rq[r].u) /\ ~EmailTaken(rq[r].e)
  <2>1. /\ rq[r].s \in proved /\ rq[r].e = mailed[rq[r].s]
        /\ rq[r].e # None /\ rq[r].u # None
    BY DEF SignupInv, Vouched, VpInsert, At
  <2>2. rq[r].e \in Email /\ rq[r].u \in Username
    BY <2>1 DEF SignupInv, TypeInv, TypeOK, Local
  <2>3. Promise!Register(rq[r].e, rq[r].u)
    BY <1>1, <1>3, <2>1
       DEF Promise!Register, Promise!Free, VpInsert, UsernameTaken, EmailTaken
  <2> QED
    BY <2>2, <2>3 DEF Promise!Next
<1> QED
  BY <1>2, <1>3

(* The UPDATE is a rename, or refused.                                     *)
LEMMA UuUpdatePromise ==
    ASSUME SignupInv, NEW r \in Request, UuUpdate(r)
    PROVE  [Promise!Next]_(Promise!vars)
<1> DEFINE others == {a \in users : a.email # rq[r].e}
           row == [email |-> rq[r].e, username |-> rq[r].u]
<1>1. UNCHANGED <<mailed, proved>>
  BY DEF UuUpdate, ghosts
<1>2. CASE \E a \in others : a.username = rq[r].u
  BY <1>1, <1>2, QuietStep DEF UuUpdate
<1>3. CASE ~\E a \in others : a.username = rq[r].u
  <2>1. users' = others \cup {row}
    BY <1>3 DEF UuUpdate
  <2>2. PICK a \in users : a.email = rq[r].e
    BY DEF SignupInv, Vouched, UuUpdate, At
  <2>3. others = users \ {a}
    BY <2>2 DEF SignupInv, Accounts, AccountsAreDistinct
  <2>4. rq[r].u \in Username
    BY DEF SignupInv, TypeInv, HasLocals, UuUpdate, At
  <2>5. Promise!Rename(a, rq[r].u)
    BY <1>1, <1>3, <2>1, <2>2, <2>3 DEF Promise!Rename, Promise!Free
  <2> QED
    BY <2>4, <2>5 DEF Promise!Next
<1> QED
  BY <1>2, <1>3

(* Every step is one the promise allows, or a stutter.                     *)
LEMMA NextPromise ==
    SignupInv /\ [Next]_vars => [Promise!Next]_(Promise!vars)
<1> SUFFICES ASSUME SignupInv, [Next]_vars
             PROVE  [Promise!Next]_(Promise!vars)
  OBVIOUS
<1> USE DEF redis, ghosts
<1>1. ASSUME NEW r \in Request, StartSignup(r)
      PROVE  [Promise!Next]_(Promise!vars)
  BY <1>1, SsMailPromise, QuietStep
     DEF StartSignup, SsCheckEmail, SsReadPointer, SsDelPointer, SsDelSession,
         SsStoreSession, SsExpire, SsSetPointer
<1>2. ASSUME NEW r \in Request, VerifyOtp(r)
      PROVE  [Promise!Next]_(Promise!vars)
  BY <1>2, VoComparePromise, QuietStep DEF VerifyOtp, VoDeleteOtp, VoSetStep
<1>3. ASSUME NEW r \in Request, VerifyUsername(r)
      PROVE  [Promise!Next]_(Promise!vars)
  BY <1>3, QuietStep
     DEF VerifyUsername, VuReadStep, VuCheckUnique, VuSetUsername
<1>4. ASSUME NEW r \in Request, VerifyPassword(r)
      PROVE  [Promise!Next]_(Promise!vars)
  BY <1>4, VpInsertPromise, QuietStep
     DEF VerifyPassword, VpReadSession, VpCheckUnique, VpDelSession,
         VpDelPointer
<1>5. ASSUME NEW r \in Request, UpdateUsername(r)
      PROVE  [Promise!Next]_(Promise!vars)
  BY <1>5, UuUpdatePromise, QuietStep DEF UpdateUsername, UuCheckUnique
<1>6. CASE UNCHANGED vars
  BY <1>6, QuietStep DEF vars
<1>7. ASSUME NEW r \in Request, Fail(r) PROVE UNCHANGED Promise!vars
  BY <1>7, QuietStep DEF Fail
<1>8. ASSUME NEW s \in Session, OtpDeadline(s) \/ SessionExpires(s)
      PROVE  UNCHANGED Promise!vars
  BY <1>8, QuietStep DEF OtpDeadline, SessionExpires
<1>9. ASSUME NEW e \in Email, PointerExpires(e) PROVE UNCHANGED Promise!vars
  BY <1>9, QuietStep DEF PointerExpires
<1> QED
  BY <1>1, <1>2, <1>3, <1>4, <1>5, <1>6, <1>7, <1>8, <1>9 DEF Next

(* The signup implements Registration: addresses are verified before an    *)
(* account carries them, accounts are never removed and change only their  *)
(* names, and names and addresses stay distinct.                           *)
THEOREM SignupKeepsPromise == Spec => KeepsPromise
<1>1. Init => Promise!Init
  BY DEF Init, Promise!Init
<1> QED
  BY <1>1, NextPromise, SignupCorrect, PTL
     DEF Spec, KeepsPromise, Promise!Spec


-----------------------------------------------------------------------------
(* What becomes of a hash.                                                 *)

(* A request has drawn s and is about to store it.                         *)
StoresAnew(s) == \E r \in Request : rq[r].at = "ss_hset" /\ rq[r].s = s

(* A request stands between the two commands of VerifyOtp.                 *)
BetweenOtpAndStep(s) == \E r \in Request : At(r, "vo_hset") /\ rq[r].s = s

(* Only the HSET of StartSignup brings an address or the first step into a *)
(* hash, with an OTP, and only VerifyOtp takes the OTP alone.              *)
HashStep(s) ==
    LET old == session[s]
        new == session'[s]
    IN  \/ StoresAnew(s) /\ new.otp = "live"
        \/ /\ new.email \in {old.email, None}
           /\ new.step # "start_signup"
        \/ /\ new.email = old.email /\ new.step = old.step
           /\ new.otp = None => old.otp = None \/ BetweenOtpAndStep(s)'

(* The commands that write hashes.                                         *)
LEMMA SetHashStep ==
    ASSUME TypeInv, NEW r \in Request, NEW s \in Session,
           \/ SsDelSession(r) \/ SsStoreSession(r) \/ SsExpire(r)
           \/ VoDeleteOtp(r) \/ VoSetStep(r) \/ VuSetUsername(r)
           \/ VpDelSession(r)
    PROVE  HashStep(s)
<1> USE DEF HashStep
<1>1. /\ session \in [Session -> Hash] /\ rq[r].s \in Session
      /\ NoHash.email = None /\ NoHash.step = None /\ NoHash.step # "start_signup"
  BY NoneAssumption
     DEF TypeInv, TypeOK, HasLocals, SsDelSession, SsStoreSession, SsExpire,
         VoDeleteOtp, VoSetStep, VuSetUsername, VpDelSession, At, NoHash, Step
<1>0. session = [session EXCEPT ![rq[r].s] = session[rq[r].s]]
  BY <1>1
<1>2. PICK h : SetHash(rq[r].s, h)
  BY <1>0 DEF SetHash, SsDelSession, SsStoreSession, SsExpire, VoDeleteOtp, VoSetStep,
         VuSetUsername, VpDelSession
<1>3. CASE s # rq[r].s
  BY <1>1, <1>2, <1>3 DEF SetHash
<1>4. CASE s = rq[r].s
  <2> USE DEF SetHash, Hash
  <2>1. CASE SsDelSession(r) \/ VpDelSession(r)
    BY <1>1, <1>4, <2>1 DEF SsDelSession, VpDelSession
  <2>2. CASE SsStoreSession(r)
    BY <1>1, <1>4, <2>2 DEF SsStoreSession, StoresAnew, At
  <2>3. CASE SsExpire(r)
    BY <1>1, <1>4, <2>3 DEF SsExpire
  <2>4. CASE VoDeleteOtp(r)
    <3>1. rq'[r].at = "vo_hset" /\ rq'[r].s = s
      BY <1>4, <2>4 DEF VoDeleteOtp, Goto, TypeInv, TypeOK, Local
    <3>2. BetweenOtpAndStep(s)'
      BY <3>1 DEF BetweenOtpAndStep, At
    <3>3. /\ session'[s].email = session[s].email
          /\ session'[s].step = session[s].step
      BY <1>1, <1>4, <2>4 DEF VoDeleteOtp
    <3> QED
      BY <3>2, <3>3
  <2>5. CASE VoSetStep(r) \/ VuSetUsername(r)
    BY <1>1, <1>4, <2>5 DEF VoSetStep, VuSetUsername
  <2> QED
    BY <2>1, <2>2, <2>3, <2>4, <2>5
<1> QED
  BY <1>3, <1>4

(* Every step does one of these things to a hash.                          *)
LEMMA NextHashStep ==
    ASSUME TypeInv, [Next]_vars, NEW s \in Session
    PROVE  HashStep(s)
<1>1. CASE session' = session
  BY <1>1 DEF HashStep
<1>2. ASSUME NEW r \in Request,
             \/ SsCheckEmail(r) \/ SsReadPointer(r) \/ SsDelPointer(r)
             \/ SsMail(r) \/ SsSetPointer(r) \/ VoCompare(r) \/ VuReadStep(r)
             \/ VuCheckUnique(r) \/ VpReadSession(r) \/ VpCheckUnique(r)
             \/ VpDelPointer(r) \/ VpInsert(r) \/ UpdateUsername(r) \/ Fail(r)
      PROVE  session' = session
  BY <1>2 DEF SsCheckEmail, SsReadPointer, SsDelPointer, SsMail, SsSetPointer,
       VoCompare, VuReadStep, VuCheckUnique, VpReadSession, VpCheckUnique,
       VpDelPointer, VpInsert, UpdateUsername, UuCheckUnique, UuUpdate, Fail,
       redis
<1>3. ASSUME NEW t \in Session, OtpDeadline(t) \/ SessionExpires(t)
      PROVE  HashStep(s)
  <2>1. /\ session' = [session EXCEPT ![t] = NoHash]
           \/ session' = [session EXCEPT ![t] = [session[t] EXCEPT !.otp = "late"]]
        /\ session \in [Session -> Hash]
    BY <1>3 DEF OtpDeadline, SessionExpires, SetHash, TypeInv, TypeOK
  <2>2. /\ NoHash.email = None /\ NoHash.step = None
        /\ None # "start_signup" /\ None # "late"
    BY NoneAssumption DEF NoHash, Step
  <2> QED
    BY <2>1, <2>2 DEF HashStep, Hash
<1>4. ASSUME NEW e \in Email, PointerExpires(e) PROVE session' = session
  BY <1>4 DEF PointerExpires
<1>5. CASE UNCHANGED vars
  BY <1>1, <1>5 DEF vars
<1> QED
  BY <1>1, <1>2, <1>3, <1>4, <1>5, SetHashStep
     DEF Next, StartSignup, VerifyOtp, VerifyUsername, VerifyPassword

(* A request between the two commands of VerifyOtp stays there until it    *)
(* has done the second, or is cut short.                                   *)
LEMMA BetweenStays ==
    ASSUME TypeInv, [Next]_vars, NEW s \in Session, BetweenOtpAndStep(s)
    PROVE  \/ BetweenOtpAndStep(s)'
           \/ faults' > 0
           \/ session'[s].step # "start_signup"
<1>1. PICK r \in Request : rq[r].at = "vo_hset" /\ rq[r].s = s
  BY DEF BetweenOtpAndStep, At
<1>2. CASE rq'[r] = rq[r]
  BY <1>1, <1>2 DEF BetweenOtpAndStep, At
<1>3. CASE VoSetStep(r)
  <2>1. session'[s] = [session[s] EXCEPT !.step = "otp_verified"]
    BY <1>1, <1>3 DEF VoSetStep, SetHash, TypeInv, TypeOK
  <2> QED
    BY <2>1 DEF TypeInv, TypeOK, Hash
<1>4. CASE Fail(r)
  BY <1>4, FaultsAssumption DEF Fail, TypeInv, TypeOK
<1>5. ASSUME NEW q \in Request \ {r},
             \/ StartSignup(q) \/ VerifyOtp(q) \/ VerifyUsername(q)
             \/ VerifyPassword(q) \/ UpdateUsername(q) \/ Fail(q)
      PROVE  rq'[r] = rq[r]
  BY <1>5
     DEF StartSignup, SsCheckEmail, SsReadPointer, SsDelPointer, SsDelSession,
         SsMail, SsStoreSession, SsExpire, SsSetPointer, VerifyOtp, VoCompare,
         VoDeleteOtp, VoSetStep, VerifyUsername, VuReadStep, VuCheckUnique,
         VuSetUsername, VerifyPassword, VpReadSession, VpCheckUnique,
         VpDelSession, VpDelPointer, VpInsert, UpdateUsername, UuCheckUnique,
         UuUpdate, Fail, Begin, Goto, Finish, TypeInv, TypeOK
<1>6. ASSUME \/ StartSignup(r) \/ VoCompare(r) \/ VoDeleteOtp(r)
             \/ VerifyUsername(r) \/ VerifyPassword(r) \/ UpdateUsername(r)
      PROVE  FALSE
  BY <1>1, <1>6
     DEF StartSignup, SsCheckEmail, SsReadPointer, SsDelPointer, SsDelSession,
         SsMail, SsStoreSession, SsExpire, SsSetPointer, VoCompare,
         VoDeleteOtp, VerifyUsername, VuReadStep, VuCheckUnique,
         VuSetUsername, VerifyPassword, VpReadSession, VpCheckUnique,
         VpDelSession, VpDelPointer, VpInsert, UpdateUsername, UuCheckUnique,
         UuUpdate, Begin, At
<1>7. CASE \/ \E t \in Session : OtpDeadline(t) \/ SessionExpires(t)
           \/ \E e \in Email : PointerExpires(e)
           \/ UNCHANGED vars
  BY <1>2, <1>7 DEF OtpDeadline, SessionExpires, PointerExpires, vars
<1> QED
  BY <1>2, <1>3, <1>4, <1>5, <1>6, <1>7 DEF Next, VerifyOtp

(* No step clears faults.                                                  *)
LEMMA FaultsStay ==
    ASSUME TypeInv, [Next]_vars, faults > 0
    PROVE  faults' > 0
<1>1. faults' = faults \/ faults' = faults + 1
  BY DEF Next, StartSignup, SsCheckEmail, SsReadPointer, SsDelPointer,
         SsDelSession, SsMail, SsStoreSession, SsExpire, SsSetPointer,
         VerifyOtp, VoCompare, VoDeleteOtp, VoSetStep, VerifyUsername,
         VuReadStep, VuCheckUnique, VuSetUsername, VerifyPassword,
         VpReadSession, VpCheckUnique, VpDelSession, VpDelPointer, VpInsert,
         UpdateUsername, UuCheckUnique, UuUpdate, Fail, OtpDeadline,
         SessionExpires, PointerExpires, vars
<1> QED
  BY <1>1, FaultsAssumption DEF TypeInv, TypeOK

(* A session waits in vain for an OTP it no longer has only while a        *)
(* request is about to record its success, or when one was cut short.      *)
THEOREM NobodyInLimbo == Spec => []NoOtpLimbo
<1>1. Init => NoOtpLimbo
  BY NoneAssumption DEF Init, NoOtpLimbo, NoHash, Step
<1>2. TypeInv /\ NoOtpLimbo /\ [Next]_vars => NoOtpLimbo'
  <2> SUFFICES ASSUME TypeInv, NoOtpLimbo, [Next]_vars, NEW s \in Session,
                      session'[s].step = "start_signup",
                      session'[s].otp = None
               PROVE  faults' > 0 \/ BetweenOtpAndStep(s)'
    BY DEF NoOtpLimbo, BetweenOtpAndStep
  <2>1. None # "live"
    BY NoneAssumption
  <2>2. /\ session[s].step = "start_signup"
        /\ session[s].otp = None \/ BetweenOtpAndStep(s)'
    BY <2>1, NextHashStep DEF HashStep
  <2>3. CASE session[s].otp = None
    <3>1. faults > 0 \/ BetweenOtpAndStep(s)
      BY <2>2, <2>3 DEF NoOtpLimbo, BetweenOtpAndStep
    <3> QED
      BY <3>1, BetweenStays, FaultsStay
  <2> QED
    BY <2>2, <2>3
<1> QED
  BY <1>1, <1>2, InitTypeInv, NextTypeInv, PTL DEF Spec

(* An address that has left a known session's hash does not come back, and *)
(* a session past its first step, or gone, never waits for an OTP again.   *)
THEOREM NoSecondLife == Spec => SessionsLiveOnce
<1>1. SignupInv /\ [Next]_vars =>
        [\A s \in issued :
            /\ session[s].email = None => session'[s].email = None
            /\ session[s].step # "start_signup"
                    => session'[s].step # "start_signup"]_vars
  <2> SUFFICES ASSUME SignupInv, [Next]_vars, NEW s \in issued
               PROVE  /\ session[s].email = None => session'[s].email = None
                      /\ session[s].step # "start_signup"
                            => session'[s].step # "start_signup"
    OBVIOUS
  <2>1. s \in Session /\ TypeInv
    BY DEF SignupInv, TypeInv, TypeOK
  <2>2. ~StoresAnew(s)
    BY DEF SignupInv, StoredAlone, Storing, StoresAnew
  <2> QED
    BY <2>1, <2>2, NextHashStep DEF HashStep
<1> QED
  BY <1>1, SignupCorrect, PTL DEF Spec, SessionsLiveOnce
=============================================================================
