----------------------------- MODULE ForumProofs -----------------------------
(***************************************************************************)
(* Who changes what in Posts: posts and comments go by their authors or    *)
(* with what they hang on, and every effect of a handler is one that Forum *)
(* allows its user when it is done.                                        *)
(***************************************************************************)
EXTENDS PostsProofs

-----------------------------------------------------------------------------
(* What becomes of a row.                                                  *)

(* A post whose row goes and that is not written anew is gone: there is no *)
(* other row under its uuid.                                               *)
LEMMA GonePosts ==
    ASSUME PostsInv, posts' \subseteq posts, NEW row \in posts \ posts'
    PROVE  ~Kept(row)
<1> SUFFICES ASSUME NEW new \in posts', [new EXCEPT !.caption = row.caption] = row
             PROVE  FALSE
  BY DEF Kept
<1>1. new \in PostRow /\ new \in posts
  BY DEF PostsInv, TypeOK
<1>2. [new EXCEPT !.caption = row.caption].id = new.id
  BY <1>1 DEF PostRow
<1>3. new.id = row.id
  BY <1>2
<1> QED
  BY <1>1, <1>3 DEF PostsInv, TablesInv

(* A post with a new caption is the same post.                             *)
LEMMA Recaptioned ==
    ASSUME PostsInv, NEW row \in posts, NEW text \in Caption,
           [row EXCEPT !.caption = text] \in posts'
    PROVE  Kept(row)
<1>1. row \in PostRow
  BY DEF PostsInv, TypeOK
<1>2. [[row EXCEPT !.caption = text] EXCEPT !.caption = row.caption] = row
  BY <1>1 DEF PostRow
<1> QED
  BY <1>2 DEF Kept

(* The posts that are deleted and their comments.                          *)
LEMMA DroppedGo ==
    ASSUME PostsInv, NEW rows \in SUBSET posts, DropPosts(rows)
    PROVE  /\ \A row \in posts \ posts' : row \in rows /\ ~Kept(row)
           /\ CommentsGo
<1>1. posts' = posts \ rows
  BY DEF DropPosts
<1>2. \A row \in posts \ posts' : row \in rows /\ ~Kept(row)
  BY <1>1, GonePosts
<1>3. ASSUME NEW c \in comments \ comments'
      PROVE  \E post \in posts : post.id = c.post /\ ~Kept(post)
  <2>1. PICK post \in rows : c.post = post.id
    BY <1>3 DEF DropPosts
  <2> QED
    BY <1>1, <1>2, <2>1
<1> QED
  BY <1>2, <1>3 DEF CommentsGo

-----------------------------------------------------------------------------
(* Authors.                                                                *)

(* A new caption leaves every post in place.                               *)
LEMMA UpUpdateGo ==
    ASSUME PostsInv, NEW r \in Request, UpUpdate(r)
    PROVE  PostsGo /\ CommentsGo
<1>1. PICK text \in Caption :
        posts' = {IF row.id = rq[r].p THEN [row EXCEPT !.caption = text] ELSE row :
                    row \in posts}
  BY DEF UpUpdate
<1>2. comments' = comments /\ rq[r].at = "up_update" /\ Prepared(rq[r])
  BY DEF UpUpdate, threads, At, PostsInv, RequestsInv
<1>3. ASSUME NEW row \in posts \ posts'
      PROVE  rq[r].p = row.id /\ rq[r].u = row.author /\ Kept(row)
  <2>1. row.id = rq[r].p
    BY <1>1
  <2>2. [row EXCEPT !.caption = text] \in posts'
    BY <1>1, <2>1
  <2>3. row.author = rq[r].u
    BY <1>2, <2>1 DEF Prepared, Owning
  <2> QED
    BY <2>1, <2>2, <2>3, Recaptioned
<1> QED
  BY <1>2, <1>3 DEF PostsGo, CommentsGo

(* Every step lets posts and comments go by those who may.                 *)
LEMMA NextAuthorsDecide ==
    PostsInv /\ [Next]_vars => [PostsGo /\ CommentsGo]_vars
<1> SUFFICES ASSUME PostsInv, Next PROVE PostsGo /\ CommentsGo
  BY DEF vars
<1>1. CASE posts \subseteq posts' /\ comments \subseteq comments'
  BY <1>1 DEF PostsGo, CommentsGo
<1>2. ASSUME NEW r \in Request, DpDeleteRow(r) \/ DpDeleteImage(r)
      PROVE  PostsGo /\ CommentsGo
  <2>1. /\ DropPosts({row \in posts : row.id = rq[r].p})
        /\ rq[r].at \in {"dp_row", "dp_commit"}
    BY <1>2 DEF DpDeleteRow, DpDeleteImage, At
  <2>2. /\ \A row \in posts \ posts' : row.id = rq[r].p /\ ~Kept(row)
        /\ CommentsGo
    BY <2>1, DroppedGo
  <2>3. \A row \in posts : row.id = rq[r].p => row.author = rq[r].u
    BY <2>1 DEF PostsInv, RequestsInv, Prepared, Owning
  <2> QED
    BY <2>1, <2>2, <2>3 DEF PostsGo
<1>3. ASSUME NEW r \in Request, DcDelete(r) PROVE PostsGo /\ CommentsGo
  <2>1. /\ comments' = comments \ Thread(rq[r].c)
        /\ At(r, "dc_delete") /\ posts' = posts
    BY <1>3 DEF DcDelete
  <2>2. \A row \in comments : row.id = rq[r].c => row.author = rq[r].u
    BY <2>1 DEF PostsInv, RequestsInv, Prepared, At
  <2>3. \A row \in Thread(rq[r].c) :
            row.id = rq[r].c \/ \E up \in Thread(rq[r].c) : up.id = row.parent
    BY Threads
  <2>4. comments \ comments' = Thread(rq[r].c)
    BY <2>1, Threads
  <2> QED
    BY <2>1, <2>2, <2>3, <2>4, Threads DEF PostsGo, CommentsGo
<1>4. ASSUME NEW s \in Server, DeleteServer(s) PROVE PostsGo /\ CommentsGo
  <2>1. /\ DropPosts({row \in posts : row.server = s})
        /\ servers' = servers \ {s}
    BY <1>4 DEF DeleteServer
  <2>2. (\A row \in posts \ posts' : row.server = s) /\ CommentsGo
    BY <2>1, DroppedGo
  <2> QED
    BY <2>1, <2>2 DEF PostsGo
<1>5. ASSUME NEW r \in Request,
             \/ CpCheckMember(r) \/ CpUpload(r) \/ CpInsert(r) \/ CpCommit(r)
             \/ UpCheckMember(r) \/ UpCheckOwner(r)
             \/ DpCheckMember(r) \/ DpCheckOwner(r) \/ DpGetImage(r)
             \/ DpRemoveObject(r) \/ LikePost(r) \/ UnlikePost(r)
             \/ CreateComment(r) \/ DcCheckMember(r) \/ DcCheckOwner(r)
             \/ Fail(r)
      PROVE  posts \subseteq posts' /\ comments \subseteq comments'
  BY <1>5 DEF CpCheckMember, CpUpload, CpInsert, CpCommit, UpCheckMember,
       UpCheckOwner, DpCheckMember, DpCheckOwner, DpGetImage, DpRemoveObject,
       LikePost, LpCheckMember, LpCheckLike, LpInsert, UnlikePost,
       UlCheckMember, UlCheckLike, UlDelete, CreateComment, CcCheckMember,
       CcCheckParent, CcInsert, DcCheckMember, DcCheckOwner, Fail, Check, threads
<1> QED
  BY <1>1, <1>2, <1>3, <1>4, <1>5, UpUpdateGo
     DEF Next, Handle, CreatePost, UpdatePostCaption, DeletePost, DeleteComment

(* Posts go by their author or with their server, captions change by their *)
(* author, comments go by theirs or with what they hang on.                *)
THEOREM AuthorsAlwaysDecide == Spec => AuthorsDecide
BY PostsCorrect, NextAuthorsDecide, PTL DEF Spec, AuthorsDecide


-----------------------------------------------------------------------------
(* The promise of Forum.  What it sees of a request is its user.           *)

Users == [r \in Request |-> rq[r].u]

(* The tables and users are all that is seen, and a request has a user     *)
(* from its first query to its return.                                     *)
LEMMA Seen ==
    /\ Promise!vars = <<servers, posts, likes, comments, Users>>
    /\ Promise!vars' = <<servers', posts', likes', comments', Users'>>
    /\ PostsInv => \A r \in Request :
        /\ Users[r] = rq[r].u
        /\ rq[r].at = "idle" => Users[r] = None
        /\ rq[r].at # "idle" => Users[r] \in User /\ Users[r] # None
<1>1. ASSUME PostsInv, NEW r \in Request
      PROVE  /\ Users[r] = rq[r].u
             /\ rq[r].at = "idle" => Users[r] = None
             /\ rq[r].at # "idle" => Users[r] \in User /\ Users[r] # None
  <2>1. Idle.u = None
    BY DEF Idle
  <2>2. HasLocals(rq[r])
    BY <1>1 DEF PostsInv, RequestsInv, Prepared
  <2>3. Users[r] = rq[r].u
    BY DEF Users
  <2> QED
    BY <2>1, <2>2, <2>3, NoneAssumption DEF HasLocals
<1> QED
  BY <1>1 DEF Promise!vars, Users

(* A request that goes on has the same user.                               *)
LEMMA GoesOn ==
    ASSUME TypeOK, NEW r \in Request, NEW l \in Local,
           rq' = [rq EXCEPT ![r] = l], l.u = rq[r].u
    PROVE  Users' = Users
<1>1. rq'[r] = l /\ \A q \in Request \ {r} : rq'[q] = rq[q]
  BY Locals
<1> QED
  BY <1>1 DEF Users

(* A request that returns has none.                                        *)
LEMMA Leaves ==
    ASSUME TypeOK, NEW r \in Request, Finish(r)
    PROVE  Users' = [Users EXCEPT ![r] = None] /\ Promise!Gone(r)
<1>1. rq'[r] = Idle /\ \A q \in Request \ {r} : rq'[q] = rq[q]
  BY Locals DEF Finish
<1>2. Users' = [Users EXCEPT ![r] = None]
  <2>1. rq'[r].u = None
    BY <1>1 DEF Idle
  <2> QED
    BY <1>1, <2>1 DEF Users
<1> QED
  BY <1>2 DEF Promise!Gone, Users

(* A request that returns without effect.                                  *)
LEMMA GoesIdle ==
    ASSUME TypeOK, NEW r \in Request, Finish(r),
           UNCHANGED <<servers, posts, likes, comments>>
    PROVE  Promise!Next
<1>1. Promise!Go(r)
  BY Leaves DEF Promise!Go
<1> QED
  BY <1>1 DEF Promise!Next

(* A request that does what its user may, and ends or goes on.             *)
LEMMA Acts ==
    ASSUME PostsInv, NEW r \in Request, rq[r].at # "idle",
           Users' = Users \/ Finish(r),
           \/ Promise!Publish(rq[r].u) \/ Promise!Recaption(rq[r].u)
           \/ Promise!Withdraw(rq[r].u) \/ Promise!Like(rq[r].u)
           \/ Promise!Unlike(rq[r].u) \/ Promise!Say(rq[r].u)
           \/ Promise!TakeBack(rq[r].u)
    PROVE  Promise!Next
<1> DEFINE u == [q \in Request |-> rq[q].u][r]
<1>1. u = rq[r].u /\ u # None
  BY Seen DEF Users
<1>2. Promise!Gone(r) \/ Users' = Users
  BY Leaves DEF PostsInv
<1>3. Promise!Act(r)
  BY <1>1, <1>2 DEF Promise!Act, Users
<1> QED
  BY <1>3 DEF Promise!Next

(* The first query: the request comes, with its user.                      *)
LEMMA BeginPromise ==
    ASSUME PostsInv, NEW r \in Request,
           \/ CpCheckMember(r) \/ UpCheckMember(r) \/ DpCheckMember(r)
           \/ LpCheckMember(r) \/ UlCheckMember(r)
           \/ CcCheckMember(r) \/ DcCheckMember(r)
    PROVE  Promise!Next
<1> USE DEF CpCheckMember, UpCheckMember, DpCheckMember, LpCheckMember,
            UlCheckMember, CcCheckMember, DcCheckMember
<1>1. PICK l : Begin(r, l) /\ l.u \in User
  <2> SUFFICES \E l : Begin(r, l) /\ l.u \in User
    OBVIOUS
  <2>1. CASE CpCheckMember(r)
    BY <2>1
  <2>2. CASE UpCheckMember(r)
    BY <2>2
  <2>3. CASE DpCheckMember(r)
    BY <2>3
  <2>4. CASE LpCheckMember(r) \/ UlCheckMember(r)
    <3>1. PICK p \in Post, u \in User, label \in Label :
            Begin(r, LikeLocal(label, p, u))
      BY <2>4 DEF Label
    <3>2. LikeLocal(label, p, u).u = u
      BY DEF LikeLocal
    <3> QED
      BY <3>1, <3>2
  <2>5. CASE CcCheckMember(r)
    BY <2>5
  <2>6. CASE DcCheckMember(r)
    BY <2>6
  <2> QED
    BY <2>1, <2>2, <2>3, <2>4, <2>5, <2>6
<1>2. UNCHANGED <<servers, posts, likes, comments>>
  BY DEF threads
<1>3. Users[r] = None
  BY <1>1, Seen DEF Begin, At
<1>4. Users' = [Users EXCEPT ![r] = l.u]
  BY <1>1 DEF Begin, Users, PostsInv, TypeOK
<1>5. Promise!Come(r, l.u)
  BY <1>2, <1>3, <1>4 DEF Promise!Come, Users
<1> QED
  BY <1>1, <1>5 DEF Promise!Next

(* The queries in between and the upload are not seen, until one fails.    *)
LEMMA CheckPromise ==
    ASSUME PostsInv, NEW r \in Request,
           \/ CpInsert(r) \/ UpCheckOwner(r) \/ DpCheckOwner(r) \/ DpGetImage(r)
           \/ LpCheckLike(r) \/ UlCheckLike(r) \/ CcCheckParent(r)
           \/ DcCheckOwner(r) \/ CpUpload(r)
    PROVE  [Promise!Next]_(Promise!vars)
<1> USE DEF PostsInv, CpInsert, UpCheckOwner, DpCheckOwner, DpGetImage,
            LpCheckLike, UlCheckLike, CcCheckParent, DcCheckOwner, CpUpload, Check
<1>1. UNCHANGED <<servers, posts, likes, comments>>
  BY DEF threads
<1>2. CASE Finish(r)
  BY <1>1, <1>2, GoesIdle
<1>3. ASSUME NEW label \in Label, Goto(r, label)
      PROVE  [Promise!Next]_(Promise!vars)
  <2>1. Users' = Users
    BY <1>3, GotoLocal, GoesOn
  <2> QED
    BY <1>1, <2>1, Seen
<1>4. CASE CpUpload(r)
  <2>1. PICK p : rq' = [rq EXCEPT ![r].at = "cp_insert", ![r].p = p]
    BY <1>4
  <2>2. rq[r] \in Local
    BY DEF TypeOK
  <2> DEFINE l == [rq[r] EXCEPT !.at = "cp_insert", !.p = p]
  <2>3. rq' = [rq EXCEPT ![r] = l]
    BY <2>1, <2>2 DEF TypeOK
  <2>4. l.u = rq[r].u
    BY <2>2 DEF Local
  <2> HIDE DEF l
  <2>5. rq'[r].u = rq[r].u /\ \A q \in Request \ {r} : rq'[q] = rq[q]
    BY <2>3, <2>4 DEF TypeOK
  <2>6. Users' = Users
    BY <2>5 DEF Users
  <2> QED
    BY <1>1, <2>6, Seen
<1>5. /\ {"cp_commit", "up_update", "dp_image", "dp_row"} \subseteq Label
      /\ {"lp_insert", "ul_delete", "cc_insert", "dc_delete"} \subseteq Label
  BY DEF Label
<1>6. CASE CpInsert(r)
  BY <1>2, <1>3, <1>5, <1>6
<1>7. CASE UpCheckOwner(r)
  BY <1>2, <1>3, <1>5, <1>7
<1>8. CASE DpCheckOwner(r)
  BY <1>2, <1>3, <1>5, <1>8
<1>9. CASE DpGetImage(r)
  BY <1>2, <1>3, <1>5, <1>9
<1>10. CASE LpCheckLike(r)
  BY <1>2, <1>3, <1>5, <1>10
<1>11. CASE UlCheckLike(r)
  BY <1>2, <1>3, <1>5, <1>11
<1>12. CASE CcCheckParent(r)
  BY <1>2, <1>3, <1>5, <1>12
<1>13. CASE DcCheckOwner(r)
  BY <1>2, <1>3, <1>5, <1>13
<1> QED
  BY <1>4, <1>6, <1>7, <1>8, <1>9, <1>10, <1>11, <1>12, <1>13


-----------------------------------------------------------------------------
(* The effects.                                                            *)

(* The server whose lock is held has its member publish.                   *)
LEMMA CpCommitPromise ==
    ASSUME PostsInv, NEW r \in Request, CpCommit(r)
    PROVE  Promise!Next
<1>1. PICK text \in Caption :
        posts' = posts \cup {[id |-> rq[r].p, server |-> rq[r].s,
                              author |-> rq[r].u, caption |-> text]}
  BY DEF CpCommit
<1>2. Finish(r) /\ UNCHANGED <<servers, likes, comments>>
  BY DEF CpCommit, threads
<1>3. /\ rq[r].at = "cp_commit" /\ rq[r].p \in Post \ images
      /\ rq[r].s \in servers /\ <<rq[r].s, rq[r].u>> \in Membership
  BY DEF CpCommit, At, PostsInv, RequestsInv, Prepared, HasLocals, Creating
<1>4. \A row \in posts : row.id # rq[r].p
  BY <1>3 DEF PostsInv, PostsAreServed
<1>5. Promise!Publish(rq[r].u)
  BY <1>1, <1>2, <1>3, <1>4 DEF Promise!Publish, Promise!Member
<1> QED
  BY <1>2, <1>3, <1>5, Acts

(* A caption is its author's to change, if the post is there.              *)
LEMMA UpUpdatePromise ==
    ASSUME PostsInv, NEW r \in Request, UpUpdate(r)
    PROVE  Promise!Next
<1>1. PICK text \in Caption :
        posts' = {IF row.id = rq[r].p THEN [row EXCEPT !.caption = text] ELSE row :
                    row \in posts}
  BY DEF UpUpdate
<1>2. /\ Finish(r) /\ rq[r].at = "up_update" /\ Prepared(rq[r])
      /\ UNCHANGED <<servers, likes, comments>>
  BY DEF UpUpdate, threads, At, PostsInv, RequestsInv
<1>3. ASSUME NEW row \in posts, row.id = rq[r].p
      PROVE  Promise!Recaption(rq[r].u)
  <2>1. row.author = rq[r].u
    BY <1>2, <1>3 DEF Prepared, Owning
  <2>2. \A other \in posts : other.id = rq[r].p <=> other = row
    BY <1>3 DEF PostsInv, TablesInv
  <2>3. posts' = (posts \ {row}) \cup {[row EXCEPT !.caption = text]}
    BY <1>1, <2>2
  <2> QED
    BY <1>2, <2>1, <2>3 DEF Promise!Recaption
<1>4. ASSUME \A row \in posts : row.id # rq[r].p
      PROVE  posts' = posts
  BY <1>1, <1>4
<1>5. CASE posts' = posts
  BY <1>2, <1>5, GoesIdle DEF PostsInv
<1> QED
  BY <1>2, <1>3, <1>4, <1>5, Acts

(* The post is withdrawn by the first of the deletions that finds it.      *)
LEMMA DpDeletePromise ==
    ASSUME PostsInv, NEW r \in Request, DpDeleteRow(r) \/ DpDeleteImage(r)
    PROVE  [Promise!Next]_(Promise!vars)
<1> DEFINE rows == {row \in posts : row.id = rq[r].p}
<1>1. /\ DropPosts(rows) /\ servers' = servers /\ Prepared(rq[r])
      /\ rq[r].at \in Owning /\ rq[r].at # "idle"
  BY DEF DpDeleteRow, DpDeleteImage, At, Owning, PostsInv, RequestsInv
<1>2. Users' = Users
  <2>1. /\ "dp_commit" \in Label /\ "dp_object" \in Label
        /\ Goto(r, "dp_commit") \/ Goto(r, "dp_object")
    BY DEF Label, DpDeleteRow, DpDeleteImage
  <2>2. ASSUME NEW label \in Label, Goto(r, label) PROVE Users' = Users
    BY <2>2, GotoLocal, GoesOn DEF PostsInv
  <2> QED
    BY <2>1, <2>2
<1>3. ASSUME NEW row \in posts, row.id = rq[r].p
      PROVE  Promise!Withdraw(rq[r].u)
  <2>1. row.author = rq[r].u
    BY <1>1, <1>3 DEF Prepared
  <2>2. rows = {row}
    BY <1>3 DEF PostsInv, TablesInv
  <2>3. DropPosts({row})
    BY <1>1, <2>2
  <2> QED
    BY <1>1, <2>1, <2>3 DEF Promise!Withdraw, Promise!Without, DropPosts
<1>4. ASSUME rows = {}
      PROVE  UNCHANGED <<posts, likes, comments>>
  BY <1>1, <1>4 DEF DropPosts, PostsInv, TypeOK
<1>5. CASE UNCHANGED <<posts, likes, comments>>
  BY <1>1, <1>2, <1>5, Seen
<1> QED
  BY <1>1, <1>2, <1>3, <1>4, <1>5, Acts

(* A member likes, if the post is there still; whoever asks takes back.    *)
LEMMA LikesPromise ==
    ASSUME PostsInv, NEW r \in Request, LpInsert(r) \/ UlDelete(r)
    PROVE  Promise!Next
<1>1. /\ Finish(r) /\ UNCHANGED <<servers, posts, comments>>
      /\ rq[r].at \in {"lp_insert", "ul_delete"} /\ rq[r].p \in Post
      /\ Prepared(rq[r])
  BY DEF LpInsert, UlDelete, At, PostsInv, RequestsInv, Prepared, HasLocals
<1>2. CASE LpInsert(r) /\ Exists(rq[r].p)
  <2>1. likes' = [likes EXCEPT ![<<rq[r].p, rq[r].u>>] = @ + 1]
    BY <1>2 DEF LpInsert
  <2>2. Promise!MemberOf(rq[r].u, rq[r].p)
    BY <1>1, <1>2 DEF Exists, Promise!MemberOf, Promise!Member, Prepared,
                      Visiting, PostsInv, TablesInv
  <2>3. Promise!Like(rq[r].u)
    BY <1>1, <2>1, <2>2 DEF Promise!Like
  <2> QED
    BY <1>1, <2>3, Acts
<1>3. CASE likes' = likes
  BY <1>1, <1>3, GoesIdle DEF PostsInv
<1>4. CASE UlDelete(r)
  <2>1. Promise!Unlike(rq[r].u)
    BY <1>1, <1>4 DEF UlDelete, Promise!Unlike
  <2> QED
    BY <1>1, <2>1, Acts
<1> QED
  BY <1>2, <1>3, <1>4 DEF LpInsert

(* A member comments on a post, and replies to a comment on that post.     *)
LEMMA CcInsertPromise ==
    ASSUME PostsInv, NEW r \in Request, CcInsert(r)
    PROVE  Promise!Next
<1>1. PICK c \in Comment \ drawn :
        \/ comments' = comments
        \/ /\ comments' = comments \cup {[id |-> c, post |-> rq[r].p,
                                          author |-> rq[r].u, parent |-> rq[r].c]}
           /\ Exists(rq[r].p)
           /\ rq[r].c # None => \E row \in comments : row.id = rq[r].c
  BY DEF CcInsert
<1>2. /\ Finish(r) /\ UNCHANGED <<servers, posts, likes>>
      /\ rq[r].at = "cc_insert" /\ Prepared(rq[r])
      /\ rq[r].p \in Post /\ rq[r].c \in Comment \cup {None}
  BY DEF CcInsert, At, PostsInv, RequestsInv, Prepared, HasLocals, TypeOK, Local
<1>3. CASE comments' = comments
  BY <1>2, <1>3, GoesIdle DEF PostsInv
<1>4. CASE comments' # comments
  <2>1. Promise!MemberOf(rq[r].u, rq[r].p)
    BY <1>1, <1>2, <1>4 DEF Exists, Promise!MemberOf, Promise!Member, Prepared,
                            Visiting, PostsInv, TablesInv
  <2>2. rq[r].c # None =>
            \E row \in comments : row.id = rq[r].c /\ row.post = rq[r].p
    BY <1>1, <1>2, <1>4 DEF Prepared
  <2>3. \A row \in comments : row.id # c
    BY DEF PostsInv, TablesInv
  <2>4. Promise!Say(rq[r].u)
    BY <1>1, <1>2, <1>4, <2>1, <2>2, <2>3 DEF Promise!Say
  <2> QED
    BY <1>2, <2>4, Acts
<1> QED
  BY <1>3, <1>4

(* A comment is its author's to take back, with the thread below it.       *)
LEMMA DcDeletePromise ==
    ASSUME PostsInv, NEW r \in Request, DcDelete(r)
    PROVE  Promise!Next
<1>1. /\ comments' = comments \ Thread(rq[r].c) /\ Finish(r)
      /\ rq[r].at = "dc_delete" /\ Prepared(rq[r])
      /\ UNCHANGED <<servers, posts, likes>>
  BY DEF DcDelete, At, PostsInv, RequestsInv
<1>2. comments \ comments' = Thread(rq[r].c)
  BY <1>1, Threads
<1>3. ASSUME NEW top \in comments, top.id = rq[r].c
      PROVE  Promise!TakeBack(rq[r].u)
  <2>1. top \in Thread(rq[r].c) /\ top.author = rq[r].u
    BY <1>1, <1>3, Threads DEF Prepared
  <2>2. \A c \in Thread(rq[r].c) \ {top} :
            \E up \in Thread(rq[r].c) : c.parent = up.id
    BY <1>3, Threads DEF PostsInv, TablesInv
  <2>3. \A c \in comments', up \in Thread(rq[r].c) : c.parent # up.id
    BY <1>1, Threads
  <2> QED
    BY <1>1, <1>2, <2>1, <2>2, <2>3 DEF Promise!TakeBack
<1>4. ASSUME \A top \in comments : top.id # rq[r].c
      PROVE  comments' = comments
  <2>1. {} \in SUBSET comments /\ RepliesClosed({})
    BY DEF RepliesClosed
  <2>2. Thread(rq[r].c) = {}
    BY <1>4, <2>1 DEF Thread
  <2> QED
    BY <1>1, <2>2
<1>5. CASE comments' = comments
  BY <1>1, <1>5, GoesIdle DEF PostsInv
<1> QED
  BY <1>1, <1>3, <1>4, <1>5, Acts

(* A server goes with its posts, and they with what hangs on them.         *)
LEMMA DeleteServerPromise ==
    ASSUME NEW s \in Server, DeleteServer(s)
    PROVE  Promise!Next
<1>1. /\ s \in servers /\ servers' = servers \ {s} /\ rq' = rq
      /\ DropPosts({row \in posts : row.server = s})
  BY DEF DeleteServer
<1>2. Promise!Close(s)
  BY <1>1 DEF Promise!Close, Promise!Without, DropPosts
<1> QED
  BY <1>2 DEF Promise!Next

(* Every step is one that Forum allows, or a stutter.                      *)
LEMMA NextPromise == PostsInv /\ [Next]_vars => [Promise!Next]_(Promise!vars)
<1> SUFFICES ASSUME PostsInv, [Next]_vars
             PROVE  [Promise!Next]_(Promise!vars)
  OBVIOUS
<1>1. ASSUME NEW r \in Request, Handle(r)
      PROVE  [Promise!Next]_(Promise!vars)
  BY <1>1, BeginPromise, CheckPromise, CpCommitPromise, UpUpdatePromise,
     DpDeletePromise, LikesPromise, CcInsertPromise, DcDeletePromise,
     GoesIdle
     DEF Handle, CreatePost, UpdatePostCaption, DeletePost, LikePost,
         UnlikePost, CreateComment, DeleteComment, DpRemoveObject, threads,
         PostsInv
<1>2. ASSUME NEW r \in Request, Fail(r)
      PROVE  [Promise!Next]_(Promise!vars)
  BY <1>2, GoesIdle DEF Fail, threads, PostsInv
<1>3. ASSUME NEW s \in Server, DeleteServer(s)
      PROVE  [Promise!Next]_(Promise!vars)
  BY <1>3, DeleteServerPromise
<1>4. CASE UNCHANGED vars
  BY <1>4, Seen DEF vars, Users
<1> QED
  BY <1>1, <1>2, <1>3, <1>4 DEF Next

(* The handlers implement Forum: each effect is allowed to its user at the *)
(* moment it is done, and is done at once.                                 *)
THEOREM PostsKeepPromise == Spec => KeepsPromise
<1>1. Init => Promise!Init
  BY DEF Init, Promise!Init, Idle
<1> QED
  BY <1>1, PostsCorrect, NextPromise, PTL DEF Spec, KeepsPromise, Promise!Spec
=============================================================================
