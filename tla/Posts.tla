-------------------------------- MODULE Posts --------------------------------
(***************************************************************************)
(* The posts of PostUsecase: a post is a row of server_posts, the row of   *)
(* its image in server_post_images and an object in MinIO; likes and       *)
(* comments hang on it by foreign keys.  A request is a goroutine that     *)
(* checks membership and authorship by one query each and then acts; one   *)
(* action is one SQL statement, commit or MinIO call.  Statements of a     *)
(* transaction show at its commit and are folded into it where they wait   *)
(* for nothing else.                                                       *)
(***************************************************************************)
EXTENDS Integers, FiniteSets

CONSTANTS
    Server, User,
    Membership, \* the pairs <<server, user>> of server_members that are active
    Post,       \* uuids of posts; that of the post's image is drawn with it
    Comment,
    Caption,
    Request,    \* concurrent requests
    None,       \* a comment that replies to none, an unused local
    MaxFaults   \* bound on calls that fail or requests that are cut short

ASSUME MembershipAssumption == Membership \subseteq Server \X User
ASSUME NoneAssumption == None \notin Server \cup User \cup Post \cup Comment
ASSUME IdsAssumption == Post \cap Comment = {}
ASSUME RequestAssumption == IsFiniteSet(Request)
ASSUME FaultsAssumption == MaxFaults \in Nat

VARIABLES
    servers,    \* rows of servers; their members go with them
    posts,      \* rows of server_posts
    images,     \* posts whose row of server_post_images is committed
    objects,    \* posts whose image is in the bucket
    likes,      \* number of rows of server_post_likes, by post and user
    comments,   \* rows of server_post_comments
    drawn,      \* uuids given out
    rq,         \* the requests in progress
    faults

vars == <<servers, posts, images, objects, likes, comments, drawn, rq, faults>>

storage == <<images, objects>>
threads == <<likes, comments>>

-----------------------------------------------------------------------------
(* The rows and the queries on them.                                       *)

PostRow == [id : Post, server : Server, author : User, caption : Caption]

CommentRow == [id : Comment, post : Post, author : User,
               parent : Comment \cup {None}]

CheckServerMember(s, u) == s \in servers /\ <<s, u>> \in Membership

Exists(p) == \E row \in posts : row.id = p

(* Mutant: the join with server_members is forgotten.                      *)
CheckPostAnybody(p, u) == u \in User /\ Exists(p)

CheckPostServerMember(p, u) ==
    \E row \in posts : row.id = p /\ CheckServerMember(row.server, u)

CheckPostOwnership(p, u) == \E row \in posts : row.id = p /\ row.author = u

CheckCommentExists(c, p) == \E row \in comments : row.id = c /\ row.post = p

CheckCommentOwnership(c, u) == \E row \in comments : row.id = c /\ row.author = u

(* ON DELETE CASCADE from parent_id: a comment goes with all its replies.  *)
RepliesClosed(rows) ==
    \A row \in comments :
        (\E up \in rows : row.parent = up.id) => row \in rows

Thread(c) ==
    {row \in comments : \A rows \in SUBSET comments :
        (\A top \in comments : top.id = c => top \in rows) /\ RepliesClosed(rows)
            => row \in rows}

(* ON DELETE CASCADE from post_id: likes and comments go with their posts. *)
DropPosts(rows) ==
    /\ posts' = posts \ rows
    /\ comments' = {c \in comments : \A row \in rows : c.post # row.id}
    /\ likes' = [l \in Post \X User |->
                    IF \E row \in rows : row.id = l[1] THEN 0 ELSE likes[l]]

-----------------------------------------------------------------------------
(* The requests.                                                           *)

Label == {"idle", "cp_upload", "cp_insert", "cp_commit",
          "up_owner", "up_update", "dp_owner", "dp_image", "dp_row", "dp_commit", "dp_object",
          "lp_like", "lp_insert", "ul_like", "ul_delete",
          "cc_parent", "cc_insert", "dc_owner", "dc_delete"}

Local == [at : Label, s : Server \cup {None}, u : User \cup {None},
          p : Post \cup {None}, c : Comment \cup {None}]

Idle == [at |-> "idle", s |-> None, u |-> None, p |-> None, c |-> None]

At(r, label)   == rq[r].at = label
Goto(r, label) == rq' = [rq EXCEPT ![r].at = label]
Finish(r)      == rq' = [rq EXCEPT ![r] = Idle]
Begin(r, local) == At(r, "idle") /\ rq' = [rq EXCEPT ![r] = local]

(* Go on when the query finds what it must, return an error otherwise.     *)
Check(r, found, label) ==
    /\ IF found THEN Goto(r, label) ELSE Finish(r)
    /\ UNCHANGED <<servers, posts, storage, threads, drawn, faults>>

-----------------------------------------------------------------------------
Init ==
    /\ servers = Server
    /\ posts = {} /\ images = {} /\ objects = {}
    /\ likes = [l \in Post \X User |-> 0]
    /\ comments = {}
    /\ drawn = {}
    /\ rq = [r \in Request |-> Idle]
    /\ faults = 0

-----------------------------------------------------------------------------
(* CreatePost: the transaction is open when the image is uploaded.         *)

CpCheckMember(r) ==
    \E s \in Server, u \in User :
        /\ CheckServerMember(s, u)
        /\ Begin(r, [at |-> "cp_upload", s |-> s, u |-> u, p |-> None, c |-> None])
        /\ UNCHANGED <<servers, posts, storage, threads, drawn, faults>>

CpUpload(r) ==
    /\ At(r, "cp_upload")
    /\ \E p \in Post \ drawn :
        /\ objects' = objects \cup {p}
        /\ drawn' = drawn \cup {p}
        /\ rq' = [rq EXCEPT ![r].at = "cp_insert", ![r].p = p]
    /\ UNCHANGED <<servers, posts, images, threads, faults>>

(* Inserts the image, then the post, whose foreign key locks the server.   *)
CpInsert(r) ==
    /\ At(r, "cp_insert")
    /\ Check(r, rq[r].s \in servers, "cp_commit")

(* Mutant: the two uuids that the row refers to are passed the wrong way.  *)
CpCommitSwapped(r) ==
    /\ At(r, "cp_commit")
    /\ \E text \in Caption :
        posts' = posts \cup {[id |-> rq[r].p, server |-> rq[r].u,
                              author |-> rq[r].s, caption |-> text]}
    /\ images' = images \cup {rq[r].p}
    /\ Finish(r)
    /\ UNCHANGED <<servers, objects, threads, drawn, faults>>

CpCommit(r) ==
    /\ At(r, "cp_commit")
    /\ \E text \in Caption :
        posts' = posts \cup {[id |-> rq[r].p, server |-> rq[r].s,
                              author |-> rq[r].u, caption |-> text]}
    /\ images' = images \cup {rq[r].p}
    /\ Finish(r)
    /\ UNCHANGED <<servers, objects, threads, drawn, faults>>

-----------------------------------------------------------------------------
(* UpdatePostCaption.                                                      *)

UpCheckMember(r) ==
    \E s \in Server, u \in User, p \in Post \cap drawn :
        /\ CheckServerMember(s, u)
        /\ Begin(r, [at |-> "up_owner", s |-> None, u |-> u, p |-> p, c |-> None])
        /\ UNCHANGED <<servers, posts, storage, threads, drawn, faults>>

UpCheckOwner(r) ==
    /\ At(r, "up_owner")
    /\ Check(r, CheckPostOwnership(rq[r].p, rq[r].u), "up_update")

(* The UPDATE names the post only, and updates nothing if it is gone; the  *)
(* query that reads the answer changes nothing.                            *)
UpUpdate(r) ==
    /\ At(r, "up_update")
    /\ \E text \in Caption :
        posts' = {IF row.id = rq[r].p THEN [row EXCEPT !.caption = text] ELSE row :
                    row \in posts}
    /\ Finish(r)
    /\ UNCHANGED <<servers, storage, threads, drawn, faults>>

-----------------------------------------------------------------------------
(* DeletePost.  The server of the URL need not be the server of the post.  *)

DpCheckMember(r) ==
    \E s \in Server, u \in User, p \in Post \cap drawn :
        /\ CheckServerMember(s, u)
        /\ Begin(r, [at |-> "dp_owner", s |-> None, u |-> u, p |-> p, c |-> None])
        /\ UNCHANGED <<servers, posts, storage, threads, drawn, faults>>

DpCheckOwner(r) ==
    /\ At(r, "dp_owner")
    /\ Check(r, CheckPostOwnership(rq[r].p, rq[r].u), "dp_image")

(* Begin, and GetPostImage joins the post with its image.                  *)
DpGetImage(r) ==
    /\ At(r, "dp_image")
    /\ Check(r, Exists(rq[r].p) /\ rq[r].p \in images, "dp_row")

(* Mutant: the object is removed first, the rows follow.                   *)
DpObjectFirst(r) ==
    /\ At(r, "dp_row")
    /\ objects' = objects \ {rq[r].p}
    /\ Goto(r, "dp_commit")
    /\ UNCHANGED <<servers, posts, images, threads, drawn, faults>>

(* The repository runs this DELETE on the pool and not on the transaction, *)
(* so it is committed by itself.                                           *)
DpDeleteRow(r) ==
    /\ At(r, "dp_row")
    /\ DropPosts({row \in posts : row.id = rq[r].p})
    /\ Goto(r, "dp_commit")
    /\ UNCHANGED <<servers, storage, drawn, faults>>

(* Mutant: the row of the image is forgotten.                              *)
DpForgetImage(r) ==
    /\ At(r, "dp_commit")
    /\ Check(r, TRUE, "dp_object")

(* Mutant: the handler returns when the transaction is committed.          *)
DpKeepObject(r) ==
    /\ At(r, "dp_commit")
    /\ images' = images \ {rq[r].p}
    /\ DropPosts({row \in posts : row.id = rq[r].p})
    /\ Finish(r)
    /\ UNCHANGED <<servers, objects, drawn, faults>>

(* DELETE of the image, which would take a post along, and COMMIT.         *)
DpDeleteImage(r) ==
    /\ At(r, "dp_commit")
    /\ images' = images \ {rq[r].p}
    /\ DropPosts({row \in posts : row.id = rq[r].p})
    /\ Goto(r, "dp_object")
    /\ UNCHANGED <<servers, objects, drawn, faults>>

(* RemoveObject of a key that is gone is no error.                         *)
DpRemoveObject(r) ==
    /\ At(r, "dp_object")
    /\ objects' = objects \ {rq[r].p}
    /\ Finish(r)
    /\ UNCHANGED <<servers, posts, images, threads, drawn, faults>>

-----------------------------------------------------------------------------
(* LikePost and UnlikePost.  The table has no unique index on post and     *)
(* user; its foreign key refuses a like of a post that is gone.            *)

LikeLocal(label, p, u) ==
    [at |-> label, s |-> None, u |-> u, p |-> p, c |-> None]

LpCheckMember(r) ==
    \E p \in Post, u \in User :
        /\ CheckPostServerMember(p, u)
        /\ Begin(r, LikeLocal("lp_like", p, u))
        /\ UNCHANGED <<servers, posts, storage, threads, drawn, faults>>

(* Mutant: a like that is already there is not looked for.                 *)
LpLikeAgain(r) ==
    /\ At(r, "lp_like")
    /\ Check(r, TRUE, "lp_insert")

LpCheckLike(r) ==
    /\ At(r, "lp_like")
    /\ Check(r, likes[<<rq[r].p, rq[r].u>>] = 0, "lp_insert")

LpInsert(r) ==
    /\ At(r, "lp_insert")
    /\ likes' = IF Exists(rq[r].p)
                THEN [likes EXCEPT ![<<rq[r].p, rq[r].u>>] = @ + 1] ELSE likes
    /\ Finish(r)
    /\ UNCHANGED <<servers, posts, storage, comments, drawn, faults>>

UlCheckMember(r) ==
    \E p \in Post, u \in User :
        /\ CheckPostServerMember(p, u)
        /\ Begin(r, LikeLocal("ul_like", p, u))
        /\ UNCHANGED <<servers, posts, storage, threads, drawn, faults>>

UlCheckLike(r) ==
    /\ At(r, "ul_like")
    /\ Check(r, likes[<<rq[r].p, rq[r].u>>] > 0, "ul_delete")

UlDelete(r) ==
    /\ At(r, "ul_delete")
    /\ likes' = [likes EXCEPT ![<<rq[r].p, rq[r].u>>] = 0]
    /\ Finish(r)
    /\ UNCHANGED <<servers, posts, storage, comments, drawn, faults>>

-----------------------------------------------------------------------------
(* CreateComment and DeleteComment.                                        *)

CcCheckMember(r) ==
    \E p \in Post, u \in User, c \in (Comment \cap drawn) \cup {None} :
        /\ CheckPostServerMember(p, u)
        /\ Begin(r, [at |-> IF c = None THEN "cc_insert" ELSE "cc_parent",
                     s |-> None, u |-> u, p |-> p, c |-> c])
        /\ UNCHANGED <<servers, posts, storage, threads, drawn, faults>>

(* Mutant: the parent is looked for in every post.                         *)
CcCheckAnyParent(r) ==
    /\ At(r, "cc_parent")
    /\ Check(r, \E row \in comments : row.id = rq[r].c, "cc_insert")

CcCheckParent(r) ==
    /\ At(r, "cc_parent")
    /\ Check(r, CheckCommentExists(rq[r].c, rq[r].p), "cc_insert")

(* The foreign keys refuse a comment whose post or parent is gone.         *)
CcInsert(r) ==
    /\ At(r, "cc_insert")
    /\ \E c \in Comment \ drawn :
        /\ comments' =
            IF /\ Exists(rq[r].p)
               /\ rq[r].c # None => \E row \in comments : row.id = rq[r].c
            THEN comments \cup {[id |-> c, post |-> rq[r].p,
                                 author |-> rq[r].u, parent |-> rq[r].c]}
            ELSE comments
        /\ drawn' = drawn \cup {c}
    /\ Finish(r)
    /\ UNCHANGED <<servers, posts, storage, likes, faults>>

(* The post of the URL need not be the post of the comment.                *)
DcCheckMember(r) ==
    \E p \in Post, u \in User, c \in Comment \cap drawn :
        /\ CheckPostServerMember(p, u)
        /\ Begin(r, [at |-> "dc_owner", s |-> None, u |-> u, p |-> p, c |-> c])
        /\ UNCHANGED <<servers, posts, storage, threads, drawn, faults>>

(* Mutant: a member may delete any comment.                                *)
DcCheckNothing(r) ==
    /\ At(r, "dc_owner")
    /\ Check(r, TRUE, "dc_delete")

DcCheckOwner(r) ==
    /\ At(r, "dc_owner")
    /\ Check(r, CheckCommentOwnership(rq[r].c, rq[r].u), "dc_delete")

DcDelete(r) ==
    /\ At(r, "dc_delete")
    /\ comments' = comments \ Thread(rq[r].c)
    /\ Finish(r)
    /\ UNCHANGED <<servers, posts, storage, likes, drawn, faults>>

-----------------------------------------------------------------------------
(* The environment.                                                        *)

(* A call fails, or the process dies: the transaction is rolled back.      *)
Fail(r) ==
    /\ faults < MaxFaults
    /\ ~At(r, "idle")
    /\ Finish(r)
    /\ faults' = faults + 1
    /\ UNCHANGED <<servers, posts, storage, threads, drawn>>

(* The owner deletes the server; the DELETE waits for the lock of CpInsert *)
(* and the rows of the posts' images stay.                                 *)
DeleteServer(s) ==
    /\ s \in servers
    /\ \A r \in Request : At(r, "cp_commit") => rq[r].s # s
    /\ servers' = servers \ {s}
    /\ DropPosts({row \in posts : row.server = s})
    /\ UNCHANGED <<storage, drawn, rq, faults>>

-----------------------------------------------------------------------------
CreatePost(r) ==
    CpCheckMember(r) \/ CpUpload(r) \/ CpInsert(r) \/ CpCommit(r)

UpdatePostCaption(r) ==
    UpCheckMember(r) \/ UpCheckOwner(r) \/ UpUpdate(r)

DeletePost(r) ==
    \/ DpCheckMember(r) \/ DpCheckOwner(r) \/ DpGetImage(r)
    \/ DpDeleteRow(r) \/ DpDeleteImage(r) \/ DpRemoveObject(r)

LikePost(r) == LpCheckMember(r) \/ LpCheckLike(r) \/ LpInsert(r)

UnlikePost(r) == UlCheckMember(r) \/ UlCheckLike(r) \/ UlDelete(r)

CreateComment(r) == CcCheckMember(r) \/ CcCheckParent(r) \/ CcInsert(r)

DeleteComment(r) == DcCheckMember(r) \/ DcCheckOwner(r) \/ DcDelete(r)

Handle(r) ==
    \/ CreatePost(r) \/ UpdatePostCaption(r) \/ DeletePost(r)
    \/ LikePost(r) \/ UnlikePost(r) \/ CreateComment(r)
    \/ DeleteComment(r)

Next ==
    \/ \E r \in Request : Handle(r) \/ Fail(r)
    \/ \E s \in Server : DeleteServer(s)

Spec == Init /\ [][Next]_vars

-----------------------------------------------------------------------------
(* Properties.                                                             *)

TypeOK ==
    /\ servers \subseteq Server
    /\ posts \subseteq PostRow
    /\ images \subseteq Post
    /\ objects \subseteq Post
    /\ likes \in [Post \X User -> Nat]
    /\ comments \subseteq CommentRow
    /\ drawn \subseteq Post \cup Comment
    /\ rq \in [Request -> Local]
    /\ faults \in 0..MaxFaults

(* The image of every post is there: its row for the join of the lists,    *)
(* and the object its key names, whatever address the lists build of it.   *)
(* Upload, commit, two deletions in two transactions and the removal of    *)
(* the object are separate steps of requests that may work on one post.    *)
PostsAreServed ==
    /\ \A row \in posts : row.id \in images
    /\ images \subseteq objects

(* An image, row or object, whose post is not there is being worked on, or *)
(* was left behind by a fault or by the deletion of a server.              *)
StorageAccounted ==
    \A p \in images \cup objects :
        \/ Exists(p)
        \/ \E r \in Request : rq[r].p = p /\ rq[r].at \in
                {"cp_insert", "cp_commit", "dp_commit", "dp_object"}
        \/ faults > 0
        \/ servers # Server

(* A reply and its parent are comments of one existing post: the parent is *)
(* checked in one query and referred to in a later one.                    *)
RepliesStayInThread ==
    \A row \in comments :
        /\ Exists(row.post)
        /\ row.parent # None =>
            \E up \in comments : up.id = row.parent /\ up.post = row.post

(* A user likes a post at most once per request that runs at the same time.*)
LikesBounded ==
    \A l \in Post \X User : likes[l] <= Cardinality(Request)

(* A row of the table says once and for all who liked what: LikePost       *)
(* answers "You already liked this post" to a second like.                 *)
LikedOnce == \A l \in Post \X User : likes[l] <= 1

(* A row of posts that is there after the step, but for its caption.       *)
Kept(row) == \E new \in posts' : [new EXCEPT !.caption = row.caption] = row

PostsGo ==
    \A row \in posts \ posts' :
        \/ row.server \notin servers'
        \/ \E r \in Request :
            /\ rq[r].p = row.id /\ rq[r].u = row.author
            /\ rq[r].at \in IF Kept(row) THEN {"up_update"}
                                         ELSE {"dp_row", "dp_commit"}

CommentsGo ==
    \A row \in comments \ comments' :
        \/ \E post \in posts : post.id = row.post /\ ~Kept(post)
        \/ \E up \in comments \ comments' : up.id = row.parent
        \/ \E r \in Request :
            At(r, "dc_delete") /\ rq[r].c = row.id /\ rq[r].u = row.author

(* Posts go by their author or with their server, captions change by their *)
(* author, comments go by theirs or with what they hang on: the handlers   *)
(* check membership of a server or post that need not be that of what they *)
(* change, and authorship in an earlier query than they change it.         *)
AuthorsDecide == [][PostsGo /\ CommentsGo]_vars

Promise == INSTANCE Forum WITH inside <- [r \in Request |-> rq[r].u]

(* Every effect of a handler is one its user is allowed at the moment it   *)
(* is done, and is done at once, although what it rests on, membership,    *)
(* authorship, a parent comment, was asked for in earlier queries.         *)
KeepsPromise == Promise!Spec

-----------------------------------------------------------------------------
(* Fairness: the runtime schedules every goroutine and the stores answer.  *)

Proceed(r) == ~At(r, "idle") /\ Handle(r)

FairSpec == Spec /\ \A r \in Request : WF_vars(Proceed(r))

(* The image of a post that was withdrawn leaves the bucket in the end,    *)
(* unless a request is cut short or the whole server is deleted.           *)
WithdrawnImagesGo ==
    \A p \in Post :
        p \in images /\ ~Exists(p) ~>
            p \notin objects \/ faults > 0 \/ servers # Server

=============================================================================
