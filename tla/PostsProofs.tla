----------------------------- MODULE PostsProofs -----------------------------
(***************************************************************************)
(* Proofs about Posts, for any servers, users and members, any numbers of  *)
(* posts, comments and requests, and any number of faults.                 *)
(***************************************************************************)
EXTENDS Posts, FiniteSetTheorems, TLAPS

-----------------------------------------------------------------------------
(* What a request may rely on, from the queries it has made.               *)

(* Those at work on a post that has no row yet.                            *)
Creating == {"cp_insert", "cp_commit"}

(* Those that found the post's author to be their user.                    *)
Owning == {"up_update", "dp_image", "dp_row", "dp_commit", "dp_object"}

(* Those that found their user to be a member of the post's server.        *)
Visiting == {"lp_like", "lp_insert", "ul_like", "ul_delete", "cc_parent",
             "cc_insert", "dc_owner", "dc_delete"}

HasLocals(l) ==
    /\ l.at = "idle" => l = Idle
    /\ l.at # "idle" => l.u \in User
    /\ l.at \in Creating \cup {"cp_upload"} => l.s \in Server
    /\ l.at \notin {"idle", "cp_upload"} => l.p \in Post \cap drawn
    /\ l.at \in {"cc_parent", "dc_owner", "dc_delete"} => l.c \in Comment
    /\ l.c # None => l.c \in drawn

(* Whose post, whose comment, which post's comment: the answers last, as   *)
(* no row comes back under its uuid.                                       *)
Prepared(l) ==
    /\ HasLocals(l)
    /\ l.at \in Creating \cup {"cp_upload"} => <<l.s, l.u>> \in Membership
    /\ l.at = "cp_commit" => l.s \in servers
    /\ l.at \in Creating => l.p \in objects \ images
    /\ l.at = "dp_object" => l.p \notin images
    /\ l.at \in Owning =>
        \A row \in posts : row.id = l.p => row.author = l.u
    /\ l.at \in Visiting =>
        \A row \in posts : row.id = l.p => <<row.server, l.u>> \in Membership
    /\ l.at = "cc_insert" =>
        \A row \in comments : row.id = l.c => row.post = l.p
    /\ l.at = "dc_delete" =>
        \A row \in comments : row.id = l.c => row.author = l.u

RequestsInv == \A r \in Request : Prepared(rq[r])

(* The uuid of a post is that of one request until the post has a row.     *)
CreatesAlone ==
    \A r, q \in Request :
        (/\ rq[r].at \in Creating
         /\ rq[q].at \in Creating \cup Owning \cup Visiting
         /\ rq[q].p = rq[r].p) => q = r

(* Primary keys, and the foreign key from posts to servers.                *)
TablesInv ==
    /\ \A row, other \in posts : row.id = other.id => row = other
    /\ \A row, other \in comments : row.id = other.id => row = other
    /\ \A row \in posts : row.id \in drawn /\ row.server \in servers
    /\ \A row \in comments : row.id \in drawn
    /\ objects \subseteq drawn

PostsInv ==
    /\ TypeOK /\ TablesInv /\ RequestsInv /\ CreatesAlone
    /\ PostsAreServed /\ RepliesStayInThread

(* The tables are empty and nobody asks at first.                          *)
LEMMA InitPostsInv == Init => PostsInv
<1> SUFFICES ASSUME Init PROVE PostsInv
  OBVIOUS
<1> USE DEF Init
<1>1. Idle \in Local /\ Idle.at = "idle" /\ Idle.c = None
  BY DEF Idle, Local, Label
<1>2. TypeOK
  BY <1>1, FaultsAssumption DEF TypeOK
<1>3. RequestsInv /\ CreatesAlone
  BY <1>1 DEF RequestsInv, CreatesAlone, Prepared, HasLocals, Creating, Owning,
              Visiting
<1>4. TablesInv /\ PostsAreServed /\ RepliesStayInThread
  BY DEF TablesInv, PostsAreServed, RepliesStayInThread
<1> QED
  BY <1>2, <1>3, <1>4 DEF PostsInv

(* The fields of a request that goes on, and the others.                   *)
LEMMA Locals ==
    ASSUME TypeOK, NEW r \in Request
    PROVE  /\ rq[r] \in Local /\ Idle \in Local
           /\ \A l \in Local : rq' = [rq EXCEPT ![r] = l] =>
                /\ rq' \in [Request -> Local]
                /\ rq'[r] = l
                /\ \A q \in Request \ {r} : rq'[q] = rq[q]
           /\ \A label \in Label :
                /\ [rq[r] EXCEPT !.at = label] \in Local
                /\ [rq[r] EXCEPT !.at = label].at = label
                /\ [rq[r] EXCEPT !.at = label].s = rq[r].s
                /\ [rq[r] EXCEPT !.at = label].u = rq[r].u
                /\ [rq[r] EXCEPT !.at = label].p = rq[r].p
                /\ [rq[r] EXCEPT !.at = label].c = rq[r].c
<1>1. rq[r] \in Local /\ rq \in [Request -> Local] /\ Idle \in Local
  BY DEF TypeOK, Idle, Local, Label
<1>2. \A label \in Label : [rq[r] EXCEPT !.at = label] \in Local
  BY <1>1 DEF Local
<1> QED
  BY <1>1, <1>2 DEF Local

(* To go on is to have a new local that differs in its label.              *)
LEMMA GotoLocal ==
    ASSUME TypeOK, NEW r \in Request, NEW label \in Label, Goto(r, label)
    PROVE  \E l \in Local :
                /\ rq' = [rq EXCEPT ![r] = l] /\ l.at = label
                /\ l.s = rq[r].s /\ l.u = rq[r].u
                /\ l.p = rq[r].p /\ l.c = rq[r].c
<1> DEFINE l == [rq[r] EXCEPT !.at = label]
<1>1. /\ l \in Local /\ l.at = label
      /\ l.s = rq[r].s /\ l.u = rq[r].u /\ l.p = rq[r].p /\ l.c = rq[r].c
  BY Locals
<1>2. rq' = [rq EXCEPT ![r] = l]
  BY DEF Goto
<1> HIDE DEF l
<1> QED
  BY <1>1, <1>2

(* A request that returns relies on nothing.                               *)
LEMMA IdlePrepared == Prepared(Idle) /\ Idle.at = "idle"
BY DEF Prepared, HasLocals, Idle, Creating, Owning, Visiting

(* What a request relies on is not disturbed by the others' changes: rows  *)
(* that appear have uuids that are new to it, and those that change keep   *)
(* their author, server and post.                                          *)
LEMMA PreparedStays ==
    ASSUME PostsInv, NEW q \in Request, rq'[q] = rq[q], drawn \subseteq drawn',
           rq[q].at = "cp_commit" => rq[q].s \in servers',
           \A row \in posts' :
                \/ \E old \in posts : /\ old.id = row.id /\ old.author = row.author
                                      /\ old.server = row.server
                \/ \E r \in Request \ {q} : rq[r].at \in Creating /\ rq[r].p = row.id,
           \A p \in images' \ images :
                \E r \in Request \ {q} : rq[r].at \in Creating /\ rq[r].p = p,
           \A p \in objects \ objects' :
                \E r \in Request \ {q} : rq[r].at = "dp_object" /\ rq[r].p = p,
           \A row \in comments' :
                row \in comments \/ row.id \in Comment \ drawn
    PROVE  Prepared(rq[q])'
<1>1. PICK l \in Local : Prepared(l) /\ rq[q] = l /\ rq'[q] = l
  BY DEF PostsInv, RequestsInv, TypeOK
<1>2. \A r \in Request \ {q} :
        rq[r].at \in Creating /\ rq[r].p = l.p =>
            l.at \notin Creating \cup Owning \cup Visiting
  BY <1>1 DEF PostsInv, CreatesAlone
<1>3. \A r \in Request \ {q} :
        rq[r].at = "dp_object" /\ rq[r].p = l.p => l.at \notin Creating
  BY <1>1 DEF PostsInv, CreatesAlone, Owning
<1>4. HasLocals(l)'
  BY <1>1 DEF Prepared, HasLocals
<1>5. l.at \in Creating => l.p \in objects' \ images'
  BY <1>1, <1>2, <1>3 DEF Prepared
<1>6. l.at = "dp_object" => l.p \notin images'
  BY <1>1, <1>2 DEF Prepared, Owning
<1>7. l.at \in Owning \cup Visiting => \A row \in posts' : row.id = l.p =>
        \E old \in posts : /\ old.id = l.p /\ old.author = row.author
                           /\ old.server = row.server
  BY <1>2
<1>8. /\ l.at \in Owning => \A row \in posts' : row.id = l.p => row.author = l.u
      /\ l.at \in Visiting => \A row \in posts' : row.id = l.p =>
            <<row.server, l.u>> \in Membership
  BY <1>1, <1>7 DEF Prepared
<1>9. \A row \in comments' : row.id = l.c /\ l.c # None => row \in comments
  BY <1>1 DEF Prepared, HasLocals
<1>10. /\ l.at = "cc_insert" => \A row \in comments' : row.id = l.c => row.post = l.p
       /\ l.at = "dc_delete" => \A row \in comments' : row.id = l.c => row.author = l.u
  BY <1>1, <1>9, NoneAssumption DEF Prepared
<1>11. /\ l.at \in Creating \cup {"cp_upload"} => <<l.s, l.u>> \in Membership
       /\ l.at = "cp_commit" => l.s \in servers'
  BY <1>1 DEF Prepared
<1> QED
  BY <1>1, <1>4, <1>5, <1>6, <1>8, <1>10, <1>11 DEF Prepared, HasLocals

(* A request that goes on, begins, draws a uuid or finds a post still      *)
(* shares no post without a row.                                           *)
LEMMA AloneStays ==
    ASSUME PostsInv, NEW r \in Request, \A q \in Request \ {r} : rq'[q] = rq[q],
           \/ rq'[r].at \notin Creating \cup Owning \cup Visiting
           \/ /\ rq'[r].p = rq[r].p
              /\ \/ rq[r].at \in Creating /\ rq'[r].at \in Creating
                 \/ /\ rq[r].at \in Owning \cup Visiting
                    /\ rq'[r].at \in Owning \cup Visiting
           \/ rq'[r].at \in Creating /\ rq'[r].p \notin drawn
           \/ rq'[r].at \in Owning \cup Visiting /\ Exists(rq'[r].p)
    PROVE  CreatesAlone'
<1>1. Creating \cap (Owning \cup Visiting) = {}
  BY DEF Creating, Owning, Visiting
<1>2. \A q \in Request :
        /\ rq[q].at \in Creating \cup Owning \cup Visiting => rq[q].p \in drawn
        /\ rq[q].at \in Creating => ~Exists(rq[q].p)
  BY DEF PostsInv, RequestsInv, Prepared, HasLocals, Creating, Owning, Visiting,
         PostsAreServed, Exists
<1> SUFFICES ASSUME NEW a \in Request, NEW b \in Request,
                    rq'[a].at \in Creating,
                    rq'[b].at \in Creating \cup Owning \cup Visiting,
                    rq'[b].p = rq'[a].p, a # b
             PROVE  FALSE
  BY DEF CreatesAlone
<1>3. CASE a # r /\ b # r
  BY <1>3 DEF PostsInv, CreatesAlone
<1>4. CASE a = r
  <2>1. b # r /\ rq'[b] = rq[b]
    BY <1>4
  <2>2. CASE rq'[r].p = rq[r].p /\ rq[r].at \in Creating
    BY <1>4, <2>1, <2>2 DEF PostsInv, CreatesAlone
  <2>3. CASE rq'[r].p \notin drawn
    BY <1>2, <1>4, <2>1, <2>3
  <2> QED
    BY <1>1, <1>4, <2>2, <2>3
<1>5. CASE b = r
  <2>1. a # r /\ rq'[a] = rq[a]
    BY <1>5
  <2>2. CASE rq'[r].p = rq[r].p /\ rq[r].at \in Creating \cup Owning \cup Visiting
    BY <1>5, <2>1, <2>2 DEF PostsInv, CreatesAlone
  <2>3. CASE rq'[r].p \notin drawn \/ Exists(rq'[r].p)
    BY <1>2, <1>5, <2>1, <2>3
  <2> QED
    BY <1>1, <1>5, <2>2, <2>3
<1> QED
  BY <1>3, <1>4, <1>5

-----------------------------------------------------------------------------
(* The steps that change no table.                                         *)

(* A request with a new local, and nothing else changed but the faults.    *)
LEMMA LocalStep ==
    ASSUME PostsInv, NEW r \in Request, NEW l \in Local, Prepared(l),
           rq' = [rq EXCEPT ![r] = l],
           UNCHANGED <<servers, posts, storage, threads, drawn>>,
           faults' \in 0..MaxFaults,
           \/ l.at \notin Creating \cup Owning \cup Visiting
           \/ /\ l.p = rq[r].p
              /\ \/ rq[r].at \in Creating /\ l.at \in Creating
                 \/ /\ rq[r].at \in Owning \cup Visiting
                    /\ l.at \in Owning \cup Visiting
           \/ l.at \in Owning \cup Visiting /\ Exists(l.p)
    PROVE  PostsInv'
<1>1. /\ rq' \in [Request -> Local] /\ rq'[r] = l
      /\ \A q \in Request \ {r} : rq'[q] = rq[q]
  BY Locals DEF PostsInv
<1>2. UNCHANGED <<servers, posts, images, objects, likes, comments, drawn>>
  BY DEF storage, threads
<1>3. TypeOK' /\ TablesInv' /\ PostsAreServed' /\ RepliesStayInThread'
  BY <1>1, <1>2 DEF PostsInv, TypeOK, TablesInv, PostsAreServed,
                    RepliesStayInThread, Exists
<1>4. RequestsInv'
  <2>1. \A m : Prepared(m)' <=> Prepared(m)
    BY <1>2 DEF Prepared, HasLocals
  <2> QED
    BY <1>1, <2>1 DEF PostsInv, RequestsInv, Prepared, HasLocals
<1>5. CreatesAlone'
  BY <1>1, AloneStays
<1> QED
  BY <1>3, <1>4, <1>5 DEF PostsInv

(* The first query of each handler.                                        *)
LEMMA BeginInv ==
    ASSUME PostsInv, NEW r \in Request,
           \/ CpCheckMember(r) \/ UpCheckMember(r) \/ DpCheckMember(r)
           \/ LpCheckMember(r) \/ UlCheckMember(r)
           \/ CcCheckMember(r) \/ DcCheckMember(r)
    PROVE  PostsInv'
<1> USE DEF PostsInv, TypeOK
<1>1. \A p \in Post, u \in User : CheckPostServerMember(p, u) =>
        /\ p \in drawn /\ Exists(p)
        /\ \A row \in posts : row.id = p => <<row.server, u>> \in Membership
  BY DEF CheckPostServerMember, CheckServerMember, Exists, TablesInv
<1>2. PICK l \in Local :
        /\ Begin(r, l) /\ Prepared(l)
        /\ l.at \notin Creating \cup Owning
        /\ l.at \in Visiting => Exists(l.p)
  <2>1. CASE CpCheckMember(r)
    <3>1. PICK s \in Server, u \in User :
            /\ CheckServerMember(s, u)
            /\ Begin(r, [at |-> "cp_upload", s |-> s, u |-> u, p |-> None,
                         c |-> None])
      BY <2>1 DEF CpCheckMember
    <3> DEFINE l == [at |-> "cp_upload", s |-> s, u |-> u, p |-> None, c |-> None]
    <3>2. l \in Local
      BY DEF Local, Label
    <3>3. Prepared(l) /\ l.at \notin Creating \cup Owning \cup Visiting
      BY <3>1 DEF Prepared, HasLocals, CheckServerMember, Creating, Owning, Visiting
    <3> QED
      BY <3>1, <3>2, <3>3
  <2>2. CASE UpCheckMember(r) \/ DpCheckMember(r)
    <3>1. PICK label \in {"up_owner", "dp_owner"}, u \in User, p \in Post \cap drawn :
            Begin(r, [at |-> label, s |-> None, u |-> u, p |-> p, c |-> None])
      BY <2>2 DEF UpCheckMember, DpCheckMember
    <3> DEFINE l == [at |-> label, s |-> None, u |-> u, p |-> p, c |-> None]
    <3>2. l \in Local
      BY DEF Local, Label
    <3>3. Prepared(l) /\ l.at \notin Creating \cup Owning \cup Visiting
      BY DEF Prepared, HasLocals, Creating, Owning, Visiting
    <3> QED
      BY <3>1, <3>2, <3>3
  <2>3. CASE LpCheckMember(r) \/ UlCheckMember(r)
    <3>1. PICK label \in {"lp_like", "ul_like"}, u \in User, p \in Post :
            CheckPostServerMember(p, u) /\ Begin(r, LikeLocal(label, p, u))
      BY <2>3 DEF LpCheckMember, UlCheckMember
    <3> DEFINE l == [at |-> label, s |-> None, u |-> u, p |-> p, c |-> None]
    <3>2. l \in Local
      BY DEF Local, Label
    <3>3. Prepared(l) /\ l.at \notin Creating \cup Owning /\ Exists(l.p)
      BY <1>1, <3>1 DEF Prepared, HasLocals, Creating, Owning, Visiting
    <3> QED
      BY <3>1, <3>2, <3>3 DEF LikeLocal
  <2>4. CASE CcCheckMember(r)
    <3>1. PICK p \in Post, u \in User, c \in (Comment \cap drawn) \cup {None} :
            /\ CheckPostServerMember(p, u)
            /\ Begin(r, [at |-> IF c = None THEN "cc_insert" ELSE "cc_parent",
                         s |-> None, u |-> u, p |-> p, c |-> c])
      BY <2>4 DEF CcCheckMember
    <3> DEFINE l == [at |-> IF c = None THEN "cc_insert" ELSE "cc_parent",
                     s |-> None, u |-> u, p |-> p, c |-> c]
    <3>2. l \in Local
      BY DEF Local, Label
    <3>3. \A row \in comments : row.id # None
      BY NoneAssumption DEF CommentRow
    <3>4. Prepared(l) /\ l.at \notin Creating \cup Owning /\ Exists(l.p)
      BY <1>1, <3>1, <3>3 DEF Prepared, HasLocals, Creating, Owning, Visiting
    <3> QED
      BY <3>1, <3>2, <3>4
  <2>5. CASE DcCheckMember(r)
    <3>1. PICK p \in Post, u \in User, c \in Comment \cap drawn :
            /\ CheckPostServerMember(p, u)
            /\ Begin(r, [at |-> "dc_owner", s |-> None, u |-> u, p |-> p, c |-> c])
      BY <2>5 DEF DcCheckMember
    <3> DEFINE l == [at |-> "dc_owner", s |-> None, u |-> u, p |-> p, c |-> c]
    <3>2. l \in Local
      BY DEF Local, Label
    <3>3. Prepared(l) /\ l.at \notin Creating \cup Owning /\ Exists(l.p)
      BY <1>1, <3>1 DEF Prepared, HasLocals, Creating, Owning, Visiting
    <3> QED
      BY <3>1, <3>2, <3>3
  <2> QED
    BY <2>1, <2>2, <2>3, <2>4, <2>5
<1>3. /\ UNCHANGED <<servers, posts, storage, threads, drawn>>
      /\ faults' \in 0..MaxFaults
  BY DEF CpCheckMember, UpCheckMember, DpCheckMember, LpCheckMember,
         UlCheckMember, CcCheckMember, DcCheckMember
<1> QED
  BY <1>2, <1>3, LocalStep DEF Begin

(* The queries in between: a request goes on with what it was told, or     *)
(* returns.                                                                *)
LEMMA CheckInv ==
    ASSUME PostsInv, NEW r \in Request,
           \/ CpInsert(r) \/ UpCheckOwner(r) \/ DpCheckOwner(r) \/ DpGetImage(r)
           \/ LpCheckLike(r) \/ UlCheckLike(r) \/ CcCheckParent(r)
           \/ DcCheckOwner(r)
    PROVE  PostsInv'
<1> DEFINE l(label) == [rq[r] EXCEPT !.at = label]
<1>1. /\ Prepared(rq[r]) /\ TypeOK /\ TablesInv
      /\ faults' = faults /\ faults \in 0..MaxFaults
      /\ UNCHANGED <<servers, posts, storage, threads, drawn>>
  BY DEF PostsInv, TypeOK, RequestsInv, CpInsert, UpCheckOwner, DpCheckOwner,
         DpGetImage, LpCheckLike, UlCheckLike, CcCheckParent, DcCheckOwner, Check
<1>2. CASE Finish(r)
  <2>1. Idle \in Local
    BY <1>1, Locals
  <2> QED
    BY <1>1, <1>2, <2>1, IdlePrepared, LocalStep
       DEF Finish, Creating, Owning, Visiting
<1>3. ASSUME NEW label \in Label, Goto(r, label), Prepared(l(label)),
             \/ rq[r].at \in Creating /\ label \in Creating
             \/ /\ rq[r].at \in Owning \cup Visiting
                /\ label \in Owning \cup Visiting
             \/ label \in Owning /\ Exists(rq[r].p)
      PROVE  PostsInv'
  <2>1. /\ l(label) \in Local /\ l(label).at = label /\ l(label).p = rq[r].p
    BY <1>1, Locals
  <2>2. rq' = [rq EXCEPT ![r] = l(label)]
    BY <1>3 DEF Goto
  <2> QED
    BY <1>1, <1>3, <2>1, <2>2, LocalStep
<1>4. \A label \in Label :
        /\ l(label) \in Local /\ l(label).at = label
        /\ l(label).s = rq[r].s /\ l(label).u = rq[r].u
        /\ l(label).p = rq[r].p /\ l(label).c = rq[r].c
  BY <1>1, Locals
<1> HIDE DEF l
<1> USE DEF Check, At, Prepared, HasLocals, Creating, Owning, Visiting
<1>5. CASE CpInsert(r)
  <2>1. "cp_commit" \in Label
    BY DEF Label
  <2>2. CASE Goto(r, "cp_commit") /\ rq[r].s \in servers
    <3>1. Prepared(l("cp_commit"))
      BY <1>1, <1>4, <1>5, <2>1, <2>2 DEF CpInsert
    <3> QED
      BY <1>3, <1>5, <2>1, <2>2, <3>1 DEF CpInsert
  <2> QED
    BY <1>2, <1>5, <2>2 DEF CpInsert
<1>6. CASE UpCheckOwner(r) \/ DpCheckOwner(r)
  <2>1. rq[r].at \in {"up_owner", "dp_owner"}
    BY <1>6 DEF UpCheckOwner, DpCheckOwner
  <2>2. ASSUME NEW label \in {"up_update", "dp_image"}, Goto(r, label),
               CheckPostOwnership(rq[r].p, rq[r].u)
        PROVE  PostsInv'
    <3>1. /\ Exists(rq[r].p)
          /\ \A row \in posts : row.id = rq[r].p => row.author = rq[r].u
      BY <1>1, <2>2 DEF CheckPostOwnership, Exists, TablesInv
    <3>2. label \in Label /\ label \in Owning
      BY DEF Label
    <3>3. Prepared(l(label))
      BY <1>1, <1>4, <2>1, <3>1, <3>2
    <3> QED
      BY <1>3, <2>2, <3>1, <3>2, <3>3
  <2> QED
    BY <1>2, <1>6, <2>2 DEF UpCheckOwner, DpCheckOwner
<1>7. CASE DpGetImage(r)
  <2>1. "dp_row" \in Label
    BY DEF Label
  <2>2. CASE Goto(r, "dp_row")
    <3>1. Prepared(l("dp_row"))
      BY <1>1, <1>4, <1>7, <2>1 DEF DpGetImage
    <3> QED
      BY <1>3, <1>7, <2>1, <2>2, <3>1 DEF DpGetImage
  <2> QED
    BY <1>2, <1>7, <2>2 DEF DpGetImage
<1>8. CASE LpCheckLike(r) \/ UlCheckLike(r)
  <2>1. PICK label \in {"lp_insert", "ul_delete"} : Finish(r) \/ Goto(r, label)
    BY <1>8 DEF LpCheckLike, UlCheckLike
  <2>2. rq[r].at \in {"lp_like", "ul_like"} /\ label \in Label
    BY <1>8 DEF LpCheckLike, UlCheckLike, Label
  <2>3. Prepared(l(label))
    BY <1>1, <1>4, <2>2
  <2> QED
    BY <1>2, <1>3, <2>1, <2>2, <2>3
<1>9. CASE CcCheckParent(r)
  <2>1. "cc_insert" \in Label
    BY DEF Label
  <2>2. CASE Goto(r, "cc_insert") /\ CheckCommentExists(rq[r].c, rq[r].p)
    <3>1. \A row \in comments : row.id = rq[r].c => row.post = rq[r].p
      BY <1>1, <2>2 DEF CheckCommentExists, TablesInv
    <3>2. Prepared(l("cc_insert"))
      BY <1>1, <1>4, <1>9, <2>1, <3>1 DEF CcCheckParent
    <3> QED
      BY <1>3, <1>9, <2>1, <2>2, <3>2 DEF CcCheckParent
  <2> QED
    BY <1>2, <1>9, <2>2 DEF CcCheckParent
<1>10. CASE DcCheckOwner(r)
  <2>1. "dc_delete" \in Label
    BY DEF Label
  <2>2. CASE Goto(r, "dc_delete") /\ CheckCommentOwnership(rq[r].c, rq[r].u)
    <3>1. \A row \in comments : row.id = rq[r].c => row.author = rq[r].u
      BY <1>1, <2>2 DEF CheckCommentOwnership, TablesInv
    <3>2. Prepared(l("dc_delete"))
      BY <1>1, <1>4, <1>10, <2>1, <3>1 DEF DcCheckOwner
    <3> QED
      BY <1>3, <1>10, <2>1, <2>2, <3>2 DEF DcCheckOwner
  <2> QED
    BY <1>2, <1>10, <2>2 DEF DcCheckOwner
<1> QED
  BY <1>5, <1>6, <1>7, <1>8, <1>9, <1>10

(* A request that is cut short.                                            *)
LEMMA FailInv ==
    ASSUME PostsInv, NEW r \in Request, Fail(r)
    PROVE  PostsInv'
<1>1. faults' \in 0..MaxFaults
  BY FaultsAssumption DEF Fail, PostsInv, TypeOK
<1>2. Idle \in Local /\ rq' = [rq EXCEPT ![r] = Idle]
  BY Locals DEF Fail, Finish, PostsInv
<1> QED
  BY <1>1, <1>2, IdlePrepared, LocalStep DEF Fail, Creating, Owning, Visiting

-----------------------------------------------------------------------------
(* The steps that change the tables or the bucket.                         *)

(* The requests' part of the invariant, when r does what it has prepared.  *)
LEMMA EffectStep ==
    ASSUME PostsInv, NEW r \in Request, NEW l \in Local, Prepared(l)',
           rq' = [rq EXCEPT ![r] = l],
           drawn \subseteq drawn', servers' = servers,
           \A row \in posts' :
                \/ \E old \in posts : /\ old.id = row.id /\ old.author = row.author
                                      /\ old.server = row.server
                \/ rq[r].at \in Creating /\ rq[r].p = row.id,
           \A p \in images' \ images : rq[r].at \in Creating /\ rq[r].p = p,
           \A p \in objects \ objects' : rq[r].at = "dp_object" /\ rq[r].p = p,
           \A row \in comments' :
                row \in comments \/ row.id \in Comment \ drawn,
           \/ l.at \notin Creating \cup Owning \cup Visiting
           \/ l.at \in Creating /\ l.p \notin drawn
           \/ l.p = rq[r].p /\ rq[r].at \in Owning /\ l.at \in Owning
    PROVE  /\ rq' \in [Request -> Local]
           /\ RequestsInv' /\ CreatesAlone'
<1>1. /\ rq' \in [Request -> Local] /\ rq'[r] = l
      /\ \A q \in Request \ {r} : rq'[q] = rq[q]
  BY Locals DEF PostsInv
<1>2. ASSUME NEW q \in Request PROVE Prepared(rq[q])'
  <2>1. CASE q = r
    BY <1>1, <2>1 DEF Prepared, HasLocals
  <2>2. CASE q # r
    <3>1. rq'[q] = rq[q] /\ r \in Request \ {q}
      BY <1>1, <2>2
    <3>2. rq[q].at = "cp_commit" => rq[q].s \in servers'
      BY DEF PostsInv, RequestsInv, Prepared
    <3> QED
      BY <3>1, <3>2, PreparedStays
  <2> QED
    BY <2>1, <2>2
<1>3. CreatesAlone'
  BY <1>1, AloneStays
<1> QED
  BY <1>1, <1>2, <1>3 DEF RequestsInv

(* Posts that are deleted take their comments with them, whole threads of  *)
(* them, and their likes.                                                  *)
LEMMA Dropped ==
    ASSUME PostsInv, NEW rows \in SUBSET posts, DropPosts(rows)
    PROVE  /\ posts' = posts \ rows /\ comments' \subseteq comments
           /\ likes' \in [Post \X User -> Nat]
           /\ \A l \in Post \X User : likes'[l] = likes[l] \/ likes'[l] = 0
           /\ RepliesStayInThread'
<1> USE DEF PostsInv, TypeOK, DropPosts
<1>1. posts' = posts \ rows /\ comments' \subseteq comments
  OBVIOUS
<1>2. /\ likes' \in [Post \X User -> Nat]
      /\ \A l \in Post \X User : likes'[l] = likes[l] \/ likes'[l] = 0
  OBVIOUS
<1>3. RepliesStayInThread'
  <2> SUFFICES ASSUME NEW row \in comments'
               PROVE  /\ \E post \in posts' : post.id = row.post
                      /\ row.parent # None => \E up \in comments' :
                            up.id = row.parent /\ up.post = row.post
    BY DEF RepliesStayInThread, Exists
  <2>1. row \in comments /\ \A post \in rows : row.post # post.id
    OBVIOUS
  <2>2. PICK post \in posts : post.id = row.post
    BY <2>1 DEF RepliesStayInThread, Exists
  <2>3. post \in posts'
    BY <2>1, <2>2
  <2>4. ASSUME row.parent # None
        PROVE  \E up \in comments' : up.id = row.parent /\ up.post = row.post
    <3>1. PICK up \in comments : up.id = row.parent /\ up.post = row.post
      BY <2>1, <2>4 DEF RepliesStayInThread
    <3>2. up \in comments'
      BY <2>1, <3>1
    <3> QED
      BY <3>1, <3>2
  <2> QED
    BY <2>2, <2>3, <2>4
<1> QED
  BY <1>1, <1>2, <1>3

(* The object is there before anything refers to it.                       *)
LEMMA CpUploadInv ==
    ASSUME PostsInv, NEW r \in Request, CpUpload(r)
    PROVE  PostsInv'
<1> USE DEF PostsInv
<1>1. PICK p \in Post \ drawn :
        /\ objects' = objects \cup {p} /\ drawn' = drawn \cup {p}
        /\ rq' = [rq EXCEPT ![r].at = "cp_insert", ![r].p = p]
  BY DEF CpUpload
<1>2. UNCHANGED <<servers, posts, images, likes, comments, faults>>
  BY DEF CpUpload, threads
<1>3. rq[r].at = "cp_upload" /\ Prepared(rq[r]) /\ rq[r] \in Local
  BY DEF CpUpload, At, RequestsInv, TypeOK
<1>4. PICK l \in Local :
        /\ rq' = [rq EXCEPT ![r] = l]
        /\ l.at = "cp_insert" /\ l.p = p
        /\ l.s = rq[r].s /\ l.u = rq[r].u /\ l.c = rq[r].c
  <2> DEFINE l == [rq[r] EXCEPT !.at = "cp_insert", !.p = p]
  <2>1. l \in Local
    BY <1>3 DEF Local, Label
  <2>2. /\ l.at = "cp_insert" /\ l.p = p
        /\ l.s = rq[r].s /\ l.u = rq[r].u /\ l.c = rq[r].c
    BY <1>3 DEF Local
  <2>3. rq' = [rq EXCEPT ![r] = l]
    BY <1>1, <1>3 DEF TypeOK
  <2> HIDE DEF l
  <2> QED
    BY <2>1, <2>2, <2>3
<1>5. p \notin images
  BY DEF PostsAreServed, TablesInv
<1>6. Prepared(l)'
  BY <1>1, <1>2, <1>3, <1>4, <1>5
     DEF Prepared, HasLocals, Creating, Owning, Visiting
<1>7. rq' \in [Request -> Local] /\ RequestsInv' /\ CreatesAlone'
  BY <1>1, <1>2, <1>4, <1>6, EffectStep DEF Creating, Owning, Visiting
<1>8. TypeOK' /\ TablesInv' /\ PostsAreServed' /\ RepliesStayInThread'
  BY <1>1, <1>2, <1>7 DEF TypeOK, TablesInv, PostsAreServed,
                          RepliesStayInThread, Exists
<1> QED
  BY <1>7, <1>8

(* A request that returns from an effect.                                  *)
LEMMA FinishStep ==
    ASSUME PostsInv, NEW r \in Request, Finish(r),
           drawn \subseteq drawn', servers' = servers,
           \A row \in posts' :
                \/ \E old \in posts : /\ old.id = row.id /\ old.author = row.author
                                      /\ old.server = row.server
                \/ rq[r].at \in Creating /\ rq[r].p = row.id,
           \A p \in images' \ images : rq[r].at \in Creating /\ rq[r].p = p,
           \A p \in objects \ objects' : rq[r].at = "dp_object" /\ rq[r].p = p,
           \A row \in comments' :
                row \in comments \/ row.id \in Comment \ drawn
    PROVE  /\ rq' \in [Request -> Local]
           /\ RequestsInv' /\ CreatesAlone'
<1>1. Idle \in Local /\ rq' = [rq EXCEPT ![r] = Idle]
  BY Locals DEF Finish, PostsInv
<1>2. Prepared(Idle)'
  BY DEF Prepared, HasLocals, Idle, Creating, Owning, Visiting
<1>3. Idle.at \notin Creating \cup Owning \cup Visiting
  BY DEF Idle, Creating, Owning, Visiting
<1> QED
  BY <1>1, <1>2, <1>3, EffectStep

(* The row, the image's row and the object belong together.                *)
LEMMA CpCommitInv ==
    ASSUME PostsInv, NEW r \in Request, CpCommit(r)
    PROVE  PostsInv'
<1> USE DEF PostsInv
<1>1. PICK text \in Caption :
        posts' = posts \cup {[id |-> rq[r].p, server |-> rq[r].s,
                              author |-> rq[r].u, caption |-> text]}
  BY DEF CpCommit
<1>2. /\ images' = images \cup {rq[r].p} /\ Finish(r)
      /\ UNCHANGED <<servers, objects, likes, comments, drawn, faults>>
  BY DEF CpCommit, threads
<1>3. /\ rq[r].at \in Creating
      /\ rq[r].p \in Post \cap drawn /\ rq[r].p \in objects \ images
      /\ rq[r].s \in servers /\ rq[r].u \in User
  BY DEF CpCommit, At, RequestsInv, Prepared, HasLocals, Creating
<1>4. rq' \in [Request -> Local] /\ RequestsInv' /\ CreatesAlone'
  BY <1>1, <1>2, <1>3, FinishStep
<1>5. \A row \in posts : row.id # rq[r].p
  BY <1>3 DEF PostsAreServed
<1>6. [id |-> rq[r].p, server |-> rq[r].s, author |-> rq[r].u, caption |-> text]
        \in PostRow
  BY <1>3 DEF PostRow, TypeOK
<1>7. TypeOK' /\ TablesInv'
  BY <1>1, <1>2, <1>3, <1>4, <1>5, <1>6 DEF TypeOK, TablesInv
<1>8. PostsAreServed' /\ RepliesStayInThread'
  BY <1>1, <1>2, <1>3 DEF PostsAreServed, RepliesStayInThread, Exists
<1> QED
  BY <1>4, <1>7, <1>8

(* A caption is not what anything relies on.                               *)
LEMMA UpUpdateInv ==
    ASSUME PostsInv, NEW r \in Request, UpUpdate(r)
    PROVE  PostsInv'
<1> USE DEF PostsInv
<1>1. PICK text \in Caption :
        posts' = {IF row.id = rq[r].p THEN [row EXCEPT !.caption = text] ELSE row :
                    row \in posts}
  BY DEF UpUpdate
<1>2. /\ Finish(r)
      /\ UNCHANGED <<servers, images, objects, likes, comments, drawn, faults>>
  BY DEF UpUpdate, storage, threads
<1> DEFINE New(row) == IF row.id = rq[r].p THEN [row EXCEPT !.caption = text]
                       ELSE row
<1>3. \A row \in posts :
        /\ New(row) \in PostRow /\ New(row).id = row.id
        /\ New(row).author = row.author /\ New(row).server = row.server
  BY DEF TypeOK, PostRow
<1>4. posts' = {New(row) : row \in posts}
  BY <1>1
<1> HIDE DEF New
<1>5. \A row \in posts' : \E old \in posts :
        /\ row = New(old) /\ old.id = row.id /\ old.author = row.author
        /\ old.server = row.server
  BY <1>3, <1>4
<1>6. rq' \in [Request -> Local] /\ RequestsInv' /\ CreatesAlone'
  BY <1>2, <1>5, FinishStep
<1>7. TypeOK' /\ TablesInv'
  BY <1>2, <1>3, <1>4, <1>5, <1>6 DEF TypeOK, TablesInv
<1>8. \A p : Exists(p)' <=> Exists(p)
  BY <1>3, <1>4 DEF Exists
<1>9. PostsAreServed' /\ RepliesStayInThread'
  BY <1>2, <1>5, <1>8 DEF PostsAreServed, RepliesStayInThread
<1> QED
  BY <1>6, <1>7, <1>9

(* The two deletions, of the post and of its image, in either of which the *)
(* post goes if it is there.                                               *)
LEMMA DpDeleteInv ==
    ASSUME PostsInv, NEW r \in Request, DpDeleteRow(r) \/ DpDeleteImage(r)
    PROVE  PostsInv'
<1> USE DEF PostsInv
<1> DEFINE rows == {row \in posts : row.id = rq[r].p}
<1>1. \/ Goto(r, "dp_commit") /\ images' = images
      \/ Goto(r, "dp_object") /\ images' = images \ {rq[r].p}
  BY DEF DpDeleteRow, DpDeleteImage, storage
<1>2. /\ DropPosts(rows) /\ rq[r].at \in Owning
      /\ UNCHANGED <<servers, objects, drawn, faults>>
  BY DEF DpDeleteRow, DpDeleteImage, storage, At, Owning
<1>3. /\ posts' = posts \ rows /\ comments' \subseteq comments
      /\ likes' \in [Post \X User -> Nat]
      /\ RepliesStayInThread'
  BY <1>2, Dropped
<1>4. Prepared(rq[r]) /\ rq[r] \in Local
  BY DEF RequestsInv, TypeOK
<1>5. PICK l \in Local :
        /\ rq' = [rq EXCEPT ![r] = l]
        /\ l.s = rq[r].s /\ l.u = rq[r].u /\ l.p = rq[r].p /\ l.c = rq[r].c
        /\ \/ l.at = "dp_commit" /\ images' = images
           \/ l.at = "dp_object" /\ images' = images \ {rq[r].p}
  <2>1. "dp_commit" \in Label /\ "dp_object" \in Label
    BY DEF Label
  <2>2. CASE Goto(r, "dp_commit") /\ images' = images
    BY <2>1, <2>2, GotoLocal
  <2>3. CASE Goto(r, "dp_object") /\ images' = images \ {rq[r].p}
    BY <2>1, <2>3, GotoLocal
  <2> QED
    BY <1>1, <2>2, <2>3
<1>6. Prepared(l)'
  BY <1>1, <1>2, <1>3, <1>4, <1>5
     DEF Prepared, HasLocals, Creating, Owning, Visiting
<1>7. rq' \in [Request -> Local] /\ RequestsInv' /\ CreatesAlone'
  BY <1>1, <1>2, <1>3, <1>5, <1>6, EffectStep DEF Owning
<1>8. TypeOK' /\ TablesInv'
  BY <1>1, <1>2, <1>3, <1>7 DEF TypeOK, TablesInv
<1>9. PostsAreServed'
  BY <1>1, <1>2, <1>3 DEF PostsAreServed
<1> QED
  BY <1>3, <1>7, <1>8, <1>9

(* The object goes when nothing refers to it any more.                     *)
LEMMA DpRemoveObjectInv ==
    ASSUME PostsInv, NEW r \in Request, DpRemoveObject(r)
    PROVE  PostsInv'
<1> USE DEF PostsInv
<1>1. /\ objects' = objects \ {rq[r].p} /\ Finish(r)
      /\ UNCHANGED <<servers, posts, images, likes, comments, drawn, faults>>
  BY DEF DpRemoveObject, threads
<1>2. rq[r].at = "dp_object" /\ rq[r].p \notin images
  BY DEF DpRemoveObject, At, RequestsInv, Prepared
<1>3. rq' \in [Request -> Local] /\ RequestsInv' /\ CreatesAlone'
  BY <1>1, <1>2, FinishStep
<1>4. TypeOK' /\ TablesInv' /\ PostsAreServed' /\ RepliesStayInThread'
  BY <1>1, <1>2, <1>3 DEF TypeOK, TablesInv, PostsAreServed,
                          RepliesStayInThread, Exists
<1> QED
  BY <1>3, <1>4

(* Likes.                                                                  *)
LEMMA LikesInvStep ==
    ASSUME PostsInv, NEW r \in Request, LpInsert(r) \/ UlDelete(r)
    PROVE  PostsInv'
<1> USE DEF PostsInv
<1>1. /\ Finish(r)
      /\ UNCHANGED <<servers, posts, images, objects, comments, drawn, faults>>
  BY DEF LpInsert, UlDelete, storage
<1>2. likes' \in [Post \X User -> Nat]
  BY DEF LpInsert, UlDelete, TypeOK
<1>3. rq' \in [Request -> Local] /\ RequestsInv' /\ CreatesAlone'
  BY <1>1, FinishStep
<1>4. TypeOK' /\ TablesInv' /\ PostsAreServed' /\ RepliesStayInThread'
  BY <1>1, <1>2, <1>3 DEF TypeOK, TablesInv, PostsAreServed,
                          RepliesStayInThread, Exists
<1> QED
  BY <1>3, <1>4

(* A reply joins the thread of its parent, if that is there still.         *)
LEMMA CcInsertInv ==
    ASSUME PostsInv, NEW r \in Request, CcInsert(r)
    PROVE  PostsInv'
<1> USE DEF PostsInv
<1> DEFINE row(c) == [id |-> c, post |-> rq[r].p, author |-> rq[r].u,
                      parent |-> rq[r].c]
<1>1. PICK c \in Comment \ drawn :
        /\ drawn' = drawn \cup {c}
        /\ \/ comments' = comments
           \/ /\ comments' = comments \cup {row(c)}
              /\ Exists(rq[r].p)
              /\ rq[r].c # None => \E up \in comments : up.id = rq[r].c
  BY DEF CcInsert
<1>2. /\ Finish(r)
      /\ UNCHANGED <<servers, posts, images, objects, likes, faults>>
  BY DEF CcInsert, storage
<1>3. /\ rq[r].u \in User /\ rq[r].p \in Post
      /\ \A up \in comments : up.id = rq[r].c => up.post = rq[r].p
      /\ rq[r].c \in Comment \cup {None}
  BY DEF CcInsert, At, RequestsInv, Prepared, HasLocals, TypeOK, Local
<1>4. /\ row(c) \in CommentRow /\ row(c).id = c /\ row(c).post = rq[r].p
      /\ row(c).parent = rq[r].c
  BY <1>3 DEF CommentRow
<1> HIDE DEF row
<1>5. \A old \in comments' : old \in comments \/ old.id \in Comment \ drawn
  BY <1>1, <1>4
<1>6. rq' \in [Request -> Local] /\ RequestsInv' /\ CreatesAlone'
  BY <1>1, <1>2, <1>5, FinishStep
<1>7. TypeOK' /\ PostsAreServed'
  BY <1>1, <1>2, <1>4, <1>6 DEF TypeOK, PostsAreServed
<1>8. TablesInv'
  BY <1>1, <1>2, <1>4 DEF TablesInv
<1>9. RepliesStayInThread'
  BY <1>1, <1>2, <1>3, <1>4 DEF RepliesStayInThread, Exists
<1> QED
  BY <1>6, <1>7, <1>8, <1>9

(* A thread has its top, the replies to each of its comments, and no       *)
(* others.                                                                 *)
LEMMA Threads ==
    ASSUME NEW c
    PROVE  /\ Thread(c) \subseteq comments
           /\ \A top \in comments : top.id = c => top \in Thread(c)
           /\ \A row \in comments, up \in Thread(c) :
                row.parent = up.id => row \in Thread(c)
           /\ \A row \in Thread(c) :
                row.id = c \/ \E up \in Thread(c) : row.parent = up.id
<1>1. Thread(c) \subseteq comments
  BY DEF Thread
<1>2. \A top \in comments : top.id = c => top \in Thread(c)
  BY DEF Thread
<1>3. ASSUME NEW row \in comments, NEW up \in Thread(c), row.parent = up.id
      PROVE  row \in Thread(c)
  BY <1>3 DEF Thread, RepliesClosed
<1>4. ASSUME NEW row \in Thread(c), row.id # c,
             \A up \in Thread(c) : row.parent # up.id
      PROVE  FALSE
  <2> DEFINE rest == Thread(c) \ {row}
  <2>1. rest \in SUBSET comments
    BY <1>1
  <2>2. \A top \in comments : top.id = c => top \in rest
    BY <1>2, <1>4
  <2>3. \A new \in comments : (\E up \in rest : new.parent = up.id) => new \in rest
    BY <1>3, <1>4
  <2>4. RepliesClosed(rest)
    BY <2>3 DEF RepliesClosed
  <2> HIDE DEF rest
  <2>5. row \in rest
    BY <2>1, <2>2, <2>4 DEF Thread
  <2> QED
    BY <2>5 DEF rest
<1> QED
  BY <1>1, <1>2, <1>3, <1>4

(* What is left replies to nothing that went.                              *)
LEMMA DcDeleteInv ==
    ASSUME PostsInv, NEW r \in Request, DcDelete(r)
    PROVE  PostsInv'
<1> USE DEF PostsInv
<1>1. /\ comments' = comments \ Thread(rq[r].c) /\ Finish(r)
      /\ UNCHANGED <<servers, posts, images, objects, likes, drawn, faults>>
  BY DEF DcDelete, storage
<1>2. rq' \in [Request -> Local] /\ RequestsInv' /\ CreatesAlone'
  BY <1>1, FinishStep
<1>3. TypeOK' /\ TablesInv' /\ PostsAreServed'
  BY <1>1, <1>2 DEF TypeOK, TablesInv, PostsAreServed
<1>4. RepliesStayInThread'
  <2> SUFFICES ASSUME NEW row \in comments'
               PROVE  /\ \E post \in posts' : post.id = row.post
                      /\ row.parent # None => \E up \in comments' :
                            up.id = row.parent /\ up.post = row.post
    BY DEF RepliesStayInThread, Exists
  <2>1. row \in comments /\ row \notin Thread(rq[r].c)
    BY <1>1
  <2>2. \E post \in posts' : post.id = row.post
    BY <1>1, <2>1 DEF RepliesStayInThread, Exists
  <2>3. ASSUME row.parent # None
        PROVE  \E up \in comments' : up.id = row.parent /\ up.post = row.post
    <3>1. PICK up \in comments : up.id = row.parent /\ up.post = row.post
      BY <2>1, <2>3 DEF RepliesStayInThread
    <3>2. up \notin Thread(rq[r].c)
      BY <2>1, <3>1, Threads
    <3> QED
      BY <1>1, <3>1, <3>2
  <2> QED
    BY <2>2, <2>3
<1> QED
  BY <1>2, <1>3, <1>4

(* The lock of CpInsert keeps the server while a post of it is committed.  *)
LEMMA DeleteServerInv ==
    ASSUME PostsInv, NEW s \in Server, DeleteServer(s)
    PROVE  PostsInv'
<1> USE DEF PostsInv
<1> DEFINE rows == {row \in posts : row.server = s}
<1>1. /\ servers' = servers \ {s} /\ DropPosts(rows)
      /\ \A r \in Request : At(r, "cp_commit") => rq[r].s # s
      /\ UNCHANGED <<images, objects, drawn, rq, faults>>
  BY DEF DeleteServer, storage
<1>2. /\ posts' = posts \ rows /\ comments' \subseteq comments
      /\ likes' \in [Post \X User -> Nat]
      /\ RepliesStayInThread'
  BY <1>1, Dropped
<1>3. RequestsInv'
  <2> SUFFICES ASSUME NEW q \in Request PROVE Prepared(rq[q])'
    BY DEF RequestsInv
  <2>1. rq[q].at = "cp_commit" => rq[q].s \in servers'
    BY <1>1 DEF RequestsInv, Prepared, At
  <2> QED
    BY <1>1, <1>2, <2>1, PreparedStays
<1>4. CreatesAlone'
  BY <1>1 DEF CreatesAlone
<1>5. TypeOK' /\ TablesInv' /\ PostsAreServed'
  BY <1>1, <1>2 DEF TypeOK, TablesInv, PostsAreServed
<1> QED
  BY <1>2, <1>3, <1>4, <1>5

-----------------------------------------------------------------------------
(* The theorems on the tables.                                             *)

(* Every step keeps the invariant.                                         *)
LEMMA NextPostsInv == PostsInv /\ [Next]_vars => PostsInv'
<1> SUFFICES ASSUME PostsInv, [Next]_vars PROVE PostsInv'
  OBVIOUS
<1>1. ASSUME NEW r \in Request, CreatePost(r) PROVE PostsInv'
  BY <1>1, BeginInv, CpUploadInv, CheckInv, CpCommitInv DEF CreatePost
<1>2. ASSUME NEW r \in Request, UpdatePostCaption(r) PROVE PostsInv'
  BY <1>2, BeginInv, CheckInv, UpUpdateInv DEF UpdatePostCaption
<1>3. ASSUME NEW r \in Request, DeletePost(r) PROVE PostsInv'
  BY <1>3, BeginInv, CheckInv, DpDeleteInv, DpRemoveObjectInv DEF DeletePost
<1>4. ASSUME NEW r \in Request, LikePost(r) \/ UnlikePost(r) PROVE PostsInv'
  BY <1>4, BeginInv, CheckInv, LikesInvStep DEF LikePost, UnlikePost
<1>5. ASSUME NEW r \in Request, CreateComment(r) PROVE PostsInv'
  BY <1>5, BeginInv, CheckInv, CcInsertInv DEF CreateComment
<1>6. ASSUME NEW r \in Request, DeleteComment(r) PROVE PostsInv'
  BY <1>6, BeginInv, CheckInv, DcDeleteInv DEF DeleteComment
<1>7. ASSUME NEW r \in Request, Fail(r) PROVE PostsInv'
  BY <1>7, FailInv
<1>8. ASSUME NEW s \in Server, DeleteServer(s) PROVE PostsInv'
  BY <1>8, DeleteServerInv
<1>9. CASE UNCHANGED vars
  <2>1. \A l : Prepared(l)' <=> Prepared(l)
    BY <1>9 DEF vars, Prepared, HasLocals
  <2>2. RequestsInv'
    BY <1>9, <2>1 DEF vars, PostsInv, RequestsInv, Prepared, HasLocals
  <2> QED
    BY <1>9, <2>2 DEF vars, PostsInv, TypeOK, TablesInv, CreatesAlone,
                      PostsAreServed, RepliesStayInThread, Exists
<1> QED
  BY <1>1, <1>2, <1>3, <1>4, <1>5, <1>6, <1>7, <1>8, <1>9 DEF Next, Handle

(* The invariant holds.                                                    *)
LEMMA PostsCorrect == Spec => []PostsInv
BY InitPostsInv, NextPostsInv, PTL DEF Spec

(* The tables, the bucket and the requests are well-typed.                 *)
THEOREM TypeCorrect == Spec => []TypeOK
<1>1. PostsInv => TypeOK
  BY DEF PostsInv
<1> QED
  BY <1>1, PostsCorrect, PTL

(* The image of every post is there, row and object.                       *)
THEOREM ServedAlways == Spec => []PostsAreServed
<1>1. PostsInv => PostsAreServed
  BY DEF PostsInv
<1> QED
  BY <1>1, PostsCorrect, PTL

(* A reply and its parent are comments of one existing post.               *)
THEOREM ThreadsStayWhole == Spec => []RepliesStayInThread
<1>1. PostsInv => RepliesStayInThread
  BY DEF PostsInv
<1> QED
  BY <1>1, PostsCorrect, PTL

-----------------------------------------------------------------------------
(* Storage.                                                                *)

(* The requests that have an image's rows or object still in hand.         *)
Keeping == {"cp_insert", "cp_commit", "dp_commit", "dp_object"}

Settled(p) ==
    \/ Exists(p)
    \/ \E r \in Request : rq[r].p = p /\ rq[r].at \in Keeping
    \/ faults > 0
    \/ servers # Server

(* A step of r that accounts for what it puts in the bucket, for posts     *)
(* that go and for what it had in hand, accounts for everything.           *)
LEMMA StorageStep ==
    ASSUME StorageAccounted, NEW r \in Request,
           \A q \in Request \ {r} : rq'[q] = rq[q],
           faults' = faults, servers' = servers,
           \A p \in images' \cup objects' : p \in images \cup objects \/ Settled(p)',
           \A p : Exists(p) => Exists(p)' \/ Settled(p)',
           \A p \in images' \cup objects' :
                rq[r].at \in Keeping /\ rq[r].p = p => Settled(p)'
    PROVE  StorageAccounted'
<1> SUFFICES ASSUME NEW p \in images' \cup objects' PROVE Settled(p)'
  BY DEF StorageAccounted, Settled, Keeping
<1>1. CASE p \in images \cup objects
  <2>1. Settled(p)
    BY <1>1 DEF StorageAccounted, Settled, Keeping
  <2>2. ASSUME NEW q \in Request, rq[q].p = p, rq[q].at \in Keeping
        PROVE  Settled(p)'
    <3>1. CASE q = r
      BY <2>2, <3>1
    <3>2. CASE q # r
      BY <2>2, <3>2 DEF Settled
    <3> QED
      BY <3>1, <3>2
  <2> QED
    BY <2>1, <2>2 DEF Settled
<1> QED
  BY <1>1

(* Only the uploads, deletions and commits matter.                         *)
LEMMA NextStorage ==
    PostsInv /\ StorageAccounted /\ [Next]_vars => StorageAccounted'
<1> SUFFICES ASSUME PostsInv, StorageAccounted, [Next]_vars
             PROVE  StorageAccounted'
  OBVIOUS
<1> USE DEF PostsInv
<1>1. ASSUME NEW r \in Request,
             \/ CpCheckMember(r) \/ UpCheckMember(r) \/ DpCheckMember(r)
             \/ LpCheckMember(r) \/ UlCheckMember(r)
             \/ CcCheckMember(r) \/ DcCheckMember(r)
             \/ UpCheckOwner(r) \/ DpCheckOwner(r) \/ DpGetImage(r)
             \/ LpCheckLike(r) \/ UlCheckLike(r) \/ CcCheckParent(r)
             \/ DcCheckOwner(r) \/ LpInsert(r) \/ UlDelete(r) \/ CcInsert(r)
             \/ DcDelete(r)
      PROVE  StorageAccounted'
  <2> USE DEF CpCheckMember, UpCheckMember, DpCheckMember, LpCheckMember,
              UlCheckMember, CcCheckMember, DcCheckMember, UpCheckOwner,
              DpCheckOwner, DpGetImage, LpCheckLike, UlCheckLike, CcCheckParent,
              DcCheckOwner, LpInsert, UlDelete, CcInsert, DcDelete
  <2>1. rq[r].at \notin Keeping
    BY <1>1 DEF Begin, At, Keeping
  <2>2. \A q \in Request \ {r} : rq'[q] = rq[q]
    BY <1>1 DEF Begin, Check, Goto, Finish, TypeOK
  <2>3. UNCHANGED <<servers, posts, images, objects, faults>>
    BY <1>1 DEF Check, storage
  <2>4. \A p : Exists(p) => Exists(p)'
    BY <2>3 DEF Exists
  <2> QED
    BY <2>1, <2>2, <2>3, <2>4, StorageStep
<1>2. ASSUME NEW r \in Request, CpUpload(r) PROVE StorageAccounted'
  <2>1. PICK p \in Post \ drawn :
          /\ objects' = objects \cup {p}
          /\ rq' = [rq EXCEPT ![r].at = "cp_insert", ![r].p = p]
    BY <1>2 DEF CpUpload
  <2>2. /\ rq[r].at = "cp_upload"
        /\ UNCHANGED <<servers, posts, images, faults>>
    BY <1>2 DEF CpUpload, At
  <2>3. /\ \A q \in Request \ {r} : rq'[q] = rq[q]
        /\ rq'[r].at = "cp_insert" /\ rq'[r].p = p
    BY <2>1 DEF TypeOK, Local
  <2>4. Settled(p)'
    BY <2>3 DEF Settled, Keeping
  <2> QED
    BY <2>1, <2>2, <2>3, <2>4, StorageStep DEF Keeping, Exists
<1>3. ASSUME NEW r \in Request, CpInsert(r) PROVE StorageAccounted'
  <2>1. /\ rq[r].at = "cp_insert" /\ rq[r].s \in Server
        /\ UNCHANGED <<servers, posts, images, objects, faults>>
    BY <1>3 DEF CpInsert, Check, storage, At, RequestsInv, Prepared, HasLocals,
                Creating
  <2>2. CASE Goto(r, "cp_commit")
    <3>1. /\ \A q \in Request \ {r} : rq'[q] = rq[q]
          /\ rq'[r].at = "cp_commit" /\ rq'[r].p = rq[r].p
      BY <2>2 DEF Goto, TypeOK, Local
    <3>2. \A p : p = rq[r].p => Settled(p)'
      BY <3>1 DEF Settled, Keeping
    <3> QED
      BY <2>1, <3>1, <3>2, StorageStep DEF Exists
  <2>3. CASE rq[r].s \notin servers
    BY <2>1, <2>3 DEF StorageAccounted
  <2> QED
    BY <1>3, <2>2, <2>3 DEF CpInsert, Check
<1>4. ASSUME NEW r \in Request, CpCommit(r) PROVE StorageAccounted'
  <2>1. PICK text \in Caption :
          posts' = posts \cup {[id |-> rq[r].p, server |-> rq[r].s,
                                author |-> rq[r].u, caption |-> text]}
    BY <1>4 DEF CpCommit
  <2>2. /\ images' = images \cup {rq[r].p}
        /\ \A q \in Request \ {r} : rq'[q] = rq[q]
        /\ UNCHANGED <<servers, objects, faults>>
    BY <1>4 DEF CpCommit, Finish, TypeOK
  <2>3. \E row \in posts' : row.id = rq[r].p
    <3> DEFINE new == [id |-> rq[r].p, server |-> rq[r].s, author |-> rq[r].u,
                       caption |-> text]
    <3>1. new \in posts' /\ new.id = rq[r].p
      BY <2>1
    <3> QED
      BY <3>1
  <2>4. \A p : p = rq[r].p => Settled(p)'
    BY <2>3 DEF Settled, Exists
  <2>5. \A p : Exists(p) => Exists(p)'
    BY <2>1 DEF Exists
  <2> QED
    BY <2>2, <2>4, <2>5, StorageStep
<1>5. ASSUME NEW r \in Request, UpUpdate(r) PROVE StorageAccounted'
  <2>1. PICK text \in Caption :
          posts' = {IF row.id = rq[r].p THEN [row EXCEPT !.caption = text]
                    ELSE row : row \in posts}
    BY <1>5 DEF UpUpdate
  <2>2. /\ rq[r].at \notin Keeping
        /\ \A q \in Request \ {r} : rq'[q] = rq[q]
        /\ UNCHANGED <<servers, images, objects, faults>>
    BY <1>5 DEF UpUpdate, storage, At, Finish, TypeOK, Keeping
  <2>3. \A p : Exists(p) => Exists(p)'
    <3>1. \A row \in posts : [row EXCEPT !.caption = text].id = row.id
      BY DEF TypeOK, PostRow
    <3> QED
      BY <2>1, <3>1 DEF Exists
  <2> QED
    BY <2>2, <2>3, StorageStep
<1>6. ASSUME NEW r \in Request, DpDeleteRow(r) \/ DpDeleteImage(r)
      PROVE  StorageAccounted'
  <2>1. /\ posts' = posts \ {row \in posts : row.id = rq[r].p}
        /\ images' \subseteq images
        /\ UNCHANGED <<servers, objects, faults>>
        /\ Goto(r, "dp_commit") \/ Goto(r, "dp_object")
    BY <1>6 DEF DpDeleteRow, DpDeleteImage, DropPosts, storage
  <2>2. /\ \A q \in Request \ {r} : rq'[q] = rq[q]
        /\ rq'[r].at \in Keeping /\ rq'[r].p = rq[r].p
    BY <2>1 DEF Goto, TypeOK, Local, Keeping
  <2>3. \A p : p = rq[r].p => Settled(p)'
    BY <2>2 DEF Settled
  <2>4. \A p : Exists(p) => Exists(p)' \/ p = rq[r].p
    BY <2>1 DEF Exists
  <2> QED
    BY <2>1, <2>2, <2>3, <2>4, StorageStep
<1>7. ASSUME NEW r \in Request, DpRemoveObject(r) PROVE StorageAccounted'
  <2>1. /\ objects' = objects \ {rq[r].p}
        /\ rq[r].p \notin images
        /\ \A q \in Request \ {r} : rq'[q] = rq[q]
        /\ UNCHANGED <<servers, posts, images, faults>>
    BY <1>7 DEF DpRemoveObject, At, Finish, RequestsInv, Prepared, TypeOK
  <2> QED
    BY <2>1, StorageStep DEF Exists
<1>8. ASSUME NEW r \in Request, Fail(r) PROVE StorageAccounted'
  BY <1>8 DEF Fail, StorageAccounted, TypeOK
<1>9. ASSUME NEW s \in Server, DeleteServer(s) PROVE StorageAccounted'
  BY <1>9 DEF DeleteServer, StorageAccounted
<1>10. CASE UNCHANGED vars
  BY <1>10 DEF vars, StorageAccounted, Exists
<1> QED
  BY <1>1, <1>2, <1>3, <1>4, <1>5, <1>6, <1>7, <1>8, <1>9, <1>10
     DEF Next, Handle, CreatePost, UpdatePostCaption, DeletePost, LikePost,
         UnlikePost, CreateComment, DeleteComment

(* An image whose post is not there is being worked on, or was left behind *)
(* by a fault or by the deletion of a server.                              *)
THEOREM NothingLeftBehind == Spec => []StorageAccounted
<1>1. Init => StorageAccounted
  BY DEF Init, StorageAccounted
<1> QED
  BY <1>1, NextStorage, PostsCorrect, PTL DEF Spec

-----------------------------------------------------------------------------
(* Likes.  Each request that found no like may still add one.              *)

Inserting(l) ==
    {r \in Request : At(r, "lp_insert") /\ <<rq[r].p, rq[r].u>> = l}

LikesInv ==
    \A l \in Post \X User :
        likes[l] + Cardinality(Inserting(l)) <= Cardinality(Request)

(* Those inserting are some of the requests.                               *)
LEMMA InsertingSize ==
    /\ Cardinality(Request) \in Nat
    /\ \A l : /\ IsFiniteSet(Inserting(l))
              /\ Cardinality(Inserting(l)) \in Nat
              /\ Cardinality(Inserting(l)) <= Cardinality(Request)
<1>1. \A l : Inserting(l) \subseteq Request
  BY DEF Inserting
<1> QED
  BY <1>1, RequestAssumption, FS_Subset, FS_CardinalityType

(* Likes and inserters that get no more stay within the bound.             *)
LEMMA FewerLikes ==
    ASSUME NEW l, likes[l] \in Nat, likes'[l] \in Nat,
           likes[l] + Cardinality(Inserting(l)) <= Cardinality(Request),
           likes'[l] <= likes[l], Inserting(l)' \subseteq Inserting(l)
    PROVE  likes'[l] + Cardinality(Inserting(l)') <= Cardinality(Request)
<1>1. Cardinality(Inserting(l)') <= Cardinality(Inserting(l))
  BY InsertingSize, FS_Subset
<1>2. Cardinality(Inserting(l)') \in Nat
  BY InsertingSize, FS_Subset, FS_CardinalityType
<1> QED
  BY <1>1, <1>2, InsertingSize

(* A query, a like or an unlike, a deletion: none goes beyond the bound.   *)
LEMMA NextLikes == PostsInv /\ LikesInv /\ [Next]_vars => LikesInv'
<1> SUFFICES ASSUME PostsInv, LikesInv, [Next]_vars PROVE LikesInv'
  OBVIOUS
<1> USE DEF PostsInv
<1>1. likes \in [Post \X User -> Nat] /\ likes' \in [Post \X User -> Nat]
  BY NextPostsInv DEF TypeOK
<1>2. ASSUME \A l \in Post \X User :
                likes'[l] <= likes[l] /\ Inserting(l)' \subseteq Inserting(l)
      PROVE  LikesInv'
  BY <1>1, <1>2, FewerLikes DEF LikesInv
<1>3. ASSUME NEW r \in Request, \A q \in Request \ {r} : rq'[q] = rq[q],
             rq'[r].at # "lp_insert"
      PROVE  \A l \in Post \X User : Inserting(l)' \subseteq Inserting(l) \ {r}
  BY <1>3 DEF Inserting, At
<1>4. ASSUME NEW r \in Request,
             \/ CpCheckMember(r) \/ UpCheckMember(r) \/ DpCheckMember(r)
             \/ LpCheckMember(r) \/ UlCheckMember(r)
             \/ CcCheckMember(r) \/ DcCheckMember(r)
      PROVE  LikesInv'
  <2>1. \A q \in Request \ {r} : rq'[q] = rq[q]
    BY <1>4 DEF CpCheckMember, UpCheckMember, DpCheckMember, LpCheckMember,
                UlCheckMember, CcCheckMember, DcCheckMember, Begin, TypeOK
  <2>2. rq'[r].at # "lp_insert"
    BY <1>4 DEF CpCheckMember, UpCheckMember, DpCheckMember, LpCheckMember,
                UlCheckMember, CcCheckMember, DcCheckMember, Begin, LikeLocal,
                TypeOK
  <2>3. likes' = likes
    BY <1>4 DEF CpCheckMember, UpCheckMember, DpCheckMember, LpCheckMember,
                UlCheckMember, CcCheckMember, DcCheckMember, threads
  <2> QED
    BY <1>1, <1>2, <1>3, <2>1, <2>2, <2>3
<1>5. ASSUME NEW r \in Request,
             \/ CpInsert(r) \/ UpCheckOwner(r) \/ DpCheckOwner(r) \/ DpGetImage(r)
             \/ UlCheckLike(r) \/ CcCheckParent(r) \/ DcCheckOwner(r)
             \/ CpUpload(r) \/ CpCommit(r) \/ UpUpdate(r) \/ DpRemoveObject(r)
             \/ CcInsert(r) \/ DcDelete(r) \/ UlDelete(r) \/ Fail(r)
      PROVE  LikesInv'
  <2> USE <1>5 DEF CpInsert, UpCheckOwner, DpCheckOwner, DpGetImage, UlCheckLike,
              CcCheckParent, DcCheckOwner, CpUpload, CpCommit, UpUpdate,
              DpRemoveObject, CcInsert, DcDelete, UlDelete, Fail
  <2>1. \A q \in Request \ {r} : rq'[q] = rq[q]
    BY DEF Check, Goto, Finish, TypeOK
  <2>2. rq'[r].at # "lp_insert"
    BY DEF Check, Goto, Finish, Idle, TypeOK, Local
  <2>3. \A l \in Post \X User : likes'[l] <= likes[l]
    BY <1>1 DEF Check, threads
  <2> QED
    BY <1>2, <1>3, <2>1, <2>2, <2>3
<1>6. ASSUME NEW r \in Request, DpDeleteRow(r) \/ DpDeleteImage(r)
      PROVE  LikesInv'
  <2>1. /\ \A q \in Request \ {r} : rq'[q] = rq[q]
        /\ rq'[r].at # "lp_insert"
    BY <1>6 DEF DpDeleteRow, DpDeleteImage, Goto, TypeOK, Local
  <2>2. DropPosts({row \in posts : row.id = rq[r].p})
    BY <1>6 DEF DpDeleteRow, DpDeleteImage
  <2>3. \A l \in Post \X User : likes'[l] <= likes[l]
    BY <1>1, <2>2, Dropped
  <2> QED
    BY <1>2, <1>3, <2>1, <2>3
<1>7. ASSUME NEW s \in Server, DeleteServer(s) PROVE LikesInv'
  <2>1. DropPosts({row \in posts : row.server = s}) /\ rq' = rq
    BY <1>7 DEF DeleteServer
  <2>2. \A l \in Post \X User : likes'[l] <= likes[l]
    BY <1>1, <2>1, Dropped
  <2> QED
    BY <1>2, <2>1, <2>2 DEF Inserting, At
<1>8. ASSUME NEW r \in Request, LpCheckLike(r) PROVE LikesInv'
  <2>1. likes' = likes /\ \A q \in Request \ {r} : rq'[q] = rq[q]
    BY <1>8 DEF LpCheckLike, Check, Goto, Finish, threads, TypeOK
  <2>2. CASE Finish(r)
    <3>1. rq'[r].at # "lp_insert"
      BY <2>2 DEF Finish, Idle, TypeOK
    <3> QED
      BY <1>1, <1>2, <1>3, <2>1, <3>1
  <2>3. CASE Goto(r, "lp_insert") /\ likes[<<rq[r].p, rq[r].u>>] = 0
    <3> SUFFICES ASSUME NEW l \in Post \X User
                 PROVE  likes'[l] + Cardinality(Inserting(l)') <= Cardinality(Request)
      BY DEF LikesInv
    <3>1. CASE l = <<rq[r].p, rq[r].u>>
      <4>1. likes'[l] = 0
        BY <2>1, <2>3, <3>1
      <4>2. Inserting(l)' \subseteq Request
        BY DEF Inserting
      <4>3. /\ Cardinality(Inserting(l)') \in Nat
            /\ Cardinality(Inserting(l)') <= Cardinality(Request)
        BY <4>2, RequestAssumption, FS_Subset, FS_CardinalityType
      <4> QED
        BY <4>1, <4>3, InsertingSize
    <3>2. CASE l # <<rq[r].p, rq[r].u>>
      <4>1. rq'[r].p = rq[r].p /\ rq'[r].u = rq[r].u
        BY <2>3 DEF Goto, TypeOK, Local
      <4>2. Inserting(l)' \subseteq Inserting(l)
        BY <2>1, <3>2, <4>1 DEF Inserting, At
      <4> QED
        BY <1>1, <2>1, <4>2, FewerLikes DEF LikesInv
    <3> QED
      BY <3>1, <3>2
  <2> QED
    BY <1>8, <2>2, <2>3 DEF LpCheckLike, Check
<1>9. ASSUME NEW r \in Request, LpInsert(r) PROVE LikesInv'
  <2> DEFINE l == <<rq[r].p, rq[r].u>>
  <2>1. /\ \A q \in Request \ {r} : rq'[q] = rq[q]
        /\ rq'[r].at # "lp_insert" /\ rq[r].at = "lp_insert"
    BY <1>9 DEF LpInsert, Finish, Idle, At, TypeOK
  <2>2. \A m \in Post \X User : /\ likes'[m] <= likes[m] + 1
                                /\ m # l => likes'[m] <= likes[m]
    BY <1>1, <1>9 DEF LpInsert
  <2>3. \A m \in Post \X User : Inserting(m)' \subseteq Inserting(m) \ {r}
    BY <1>3, <2>1
  <2> SUFFICES ASSUME NEW m \in Post \X User
               PROVE  likes'[m] + Cardinality(Inserting(m)') <= Cardinality(Request)
    BY DEF LikesInv
  <2>4. CASE m = l
    <3>1. r \in Inserting(m)
      BY <2>1, <2>4 DEF Inserting, At
    <3>2. /\ Cardinality(Inserting(m) \ {r}) = Cardinality(Inserting(m)) - 1
          /\ IsFiniteSet(Inserting(m) \ {r})
      BY <3>1, InsertingSize, FS_RemoveElement
    <3>3. /\ Cardinality(Inserting(m)') <= Cardinality(Inserting(m)) - 1
          /\ Cardinality(Inserting(m)') \in Nat
      BY <2>3, <3>2, FS_Subset, FS_CardinalityType
    <3>4. likes[m] + Cardinality(Inserting(m)) <= Cardinality(Request)
      BY DEF LikesInv
    <3> QED
      BY <1>1, <2>2, <3>3, <3>4, InsertingSize
  <2>5. CASE m # l
    BY <1>1, <2>2, <2>3, <2>5, FewerLikes DEF LikesInv
  <2> QED
    BY <2>4, <2>5
<1>10. CASE UNCHANGED vars
  BY <1>1, <1>2, <1>10 DEF vars, Inserting, At
<1> QED
  BY <1>4, <1>5, <1>6, <1>7, <1>8, <1>9, <1>10
     DEF Next, Handle, CreatePost, UpdatePostCaption, DeletePost, LikePost,
         UnlikePost, CreateComment, DeleteComment

(* A user likes a post at most once per request that runs at the same time.*)
THEOREM LikesStayBounded == Spec => []LikesBounded
<1>1. Init => LikesInv
  <2> SUFFICES ASSUME Init, NEW l \in Post \X User
               PROVE  likes[l] + Cardinality(Inserting(l)) <= Cardinality(Request)
    BY DEF LikesInv
  <2>1. likes[l] = 0
    BY DEF Init
  <2> QED
    BY <2>1, InsertingSize
<1>2. PostsInv /\ LikesInv => LikesBounded
  <2> SUFFICES ASSUME PostsInv, LikesInv, NEW l \in Post \X User
               PROVE  likes[l] <= Cardinality(Request)
    BY DEF LikesBounded
  <2>1. likes[l] \in Nat
    BY DEF PostsInv, TypeOK
  <2>2. likes[l] + Cardinality(Inserting(l)) <= Cardinality(Request)
    BY DEF LikesInv
  <2> QED
    BY <2>1, <2>2, InsertingSize
<1> QED
  BY <1>1, <1>2, NextLikes, PostsCorrect, PTL DEF Spec

=============================================================================
